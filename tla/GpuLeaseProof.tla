--------------------------- MODULE GpuLeaseProof ---------------------------
(***************************************************************************)
(* The file protocol of GpuLease excludes, through crashes, restarts,      *)
(* expired leases and their take-over, as long as every live holder renews *)
(* its lease in time and no take-over is overtaken by the next one: any    *)
(* number of contenders, owner names shared or not.                        *)
(***************************************************************************)
EXTENDS GpuLease, TLAPS

\* Processes that have created the file and not yet given it up.
Engaged(p) == pc[p] \in {"write", "hold", "beat", "beatwrite", "unlink"}

\* Two processes at work never ask for the lease on behalf of one handle.
AtWork(p) == pc[p] \notin {"idle", "down"}

HandlesApart ==
  \A p, q \in Procs : p # q /\ AtWork(p) /\ AtWork(q) => req[p] # req[q]

OneEngaged == \A p, q \in Procs : Engaged(p) /\ Engaged(q) => p = q

\* What the file holds while its creator is at each step.
FileFollows ==
  \A p \in Procs :
    /\ pc[p] \in {"write", "beatwrite"} => file = Empty /\ p \in writers
    /\ pc[p] \in {"hold", "beat", "unlink"} => file = Mine(p)

IInv == TypeOK /\ HandlesApart /\ OneEngaged /\ FileFollows

\* What a contender is about to remove is a stale lease, or nothing.
RemovesStale ==
  \A p \in Procs : pc[p] = "remove" => file = Absent \/ (Written /\ file.stale)

\* Before the first crash a written lease has a live owner, hence is never stale.
LeaseBacked ==
  /\ Written => \E p \in Procs : pc[p] \in {"hold", "beat", "unlink"}
  /\ \A p \in Procs : pc[p] # "remove"

-----------------------------------------------------------------------------
\* Types are preserved by every step, whatever the crashes and the clock do.
LEMMA TypeStep == TypeOK /\ [Next]_vars => TypeOK'
<1> SUFFICES ASSUME TypeOK, [Next]_vars PROVE TypeOK'
    OBVIOUS
<1> USE DEF TypeOK
<1>0. \A p \in Procs : Mine(p) \in Lease
    BY DEF Mine, Lease, Owners
<1>1. ASSUME NEW p \in Procs, NEW h \in Handles, Request(p, h) PROVE TypeOK'
    BY <1>1 DEF Request, Goto, Steps
<1>2. ASSUME NEW p \in Procs, Acquiring(p) PROVE TypeOK'
  <2>1. CASE Create(p)
      BY <2>1 DEF Create, Goto, Steps
  <2>2. CASE CreateFails(p)
      BY <2>2 DEF CreateFails, Goto, Steps
  <2>3. CASE WriteLease(p)
      BY <2>3, <1>0 DEF WriteLease, WriteThrough, Goto, Steps
  <2>4. CASE Examine(p)
    <3>1. CASE NextAttempt(p)
        BY <2>4, <3>1 DEF Examine, NextAttempt, Goto, Steps, Attempts
    <3>2. CASE UNCHANGED tries
        BY <2>4, <3>2 DEF Examine, NextAttempt, Goto, Steps, Attempts
    <3> QED
        BY <2>4, <3>1, <3>2 DEF Examine
  <2>5. CASE RemoveStale(p)
      BY <2>5 DEF RemoveStale, NextAttempt, Goto, Steps, Attempts
  <2> QED
      BY <1>2, <2>1, <2>2, <2>3, <2>4, <2>5 DEF Acquiring
<1>3. ASSUME NEW p \in Procs, Holding(p) PROVE TypeOK'
    BY <1>3, <1>0 DEF Holding, HeartbeatRead, HeartbeatTruncate, HeartbeatWrite,
         ReleaseRead, ReleaseRemove, WriteThrough, Goto, Steps
<1>4. ASSUME NEW p \in Procs, Crash(p) \/ Restart(p) PROVE TypeOK'
    BY <1>4 DEF Crash, Restart, Goto, Steps
<1>5. CASE Expire
    BY <1>5 DEF Expire, Written, Lease
<1>6. CASE UNCHANGED vars
    BY <1>6 DEF vars
<1> QED
    BY <1>1, <1>2, <1>3, <1>4, <1>5, <1>6 DEF Next

\* The lease file, the steps and the counters keep their types.
THEOREM LeaseTypes == Spec => []TypeOK
<1>1. Init => TypeOK
    BY CrashAssumption DEF Init, TypeOK, Steps
<1> QED
    BY <1>1, TypeStep, PTL DEF Spec
-----------------------------------------------------------------------------
(* The invariant that makes the lease exclusive, one conjunct at a time.    *)

LEMMA LeaseInit == Init => IInv /\ RemovesStale /\ LeaseBacked
<1> SUFFICES ASSUME Init PROVE IInv /\ RemovesStale /\ LeaseBacked
    OBVIOUS
<1>1. TypeOK
    BY CrashAssumption DEF Init, TypeOK, Steps
<1>2. HandlesApart /\ OneEngaged /\ FileFollows
    BY DEF Init, HandlesApart, AtWork, OneEngaged, Engaged, FileFollows
<1>3. RemovesStale /\ LeaseBacked
    BY FileAssumption DEF Init, RemovesStale, LeaseBacked, Written
<1> QED
    BY <1>1, <1>2, <1>3 DEF IInv

\* Requests keep handles apart; nothing else puts a process to work.
LEMMA HandlesStep ==
  ASSUME IInv, [Next]_vars
  PROVE  HandlesApart'
<1> USE DEF IInv, TypeOK, HandlesApart, AtWork
<1>1. ASSUME NEW p \in Procs, NEW h \in Handles, Request(p, h) PROVE HandlesApart'
    BY <1>1 DEF Request, Goto
<1>2. ASSUME NEW p \in Procs, Acquiring(p) PROVE HandlesApart'
    BY <1>2 DEF Acquiring, Create, CreateFails, WriteLease, Examine, RemoveStale,
         NextAttempt, Goto
<1>3. ASSUME NEW p \in Procs, Holding(p) PROVE HandlesApart'
    BY <1>3 DEF Holding, HeartbeatRead, HeartbeatTruncate, HeartbeatWrite,
         ReleaseRead, ReleaseRemove, Goto
<1>4. ASSUME NEW p \in Procs, Crash(p) \/ Restart(p) PROVE HandlesApart'
    BY <1>4 DEF Crash, Restart, Goto
<1>5. CASE Expire
    BY <1>5 DEF Expire
<1>6. CASE UNCHANGED vars
    BY <1>6 DEF vars
<1> QED
    BY <1>1, <1>2, <1>3, <1>4, <1>5, <1>6 DEF Next

LEMMA MineIsLease ==
  ASSUME TypeOK, NEW p \in Procs
  PROVE  Mine(p) \in Lease /\ ~Mine(p).stale
BY DEF TypeOK, Mine, Lease, Owners

\* Without a file nobody is engaged, and a stale lease is nobody's.
LEMMA NobodyEngaged ==
  ASSUME IInv, file = Absent \/ (Written /\ file.stale), NEW p \in Procs
  PROVE  ~Engaged(p)
BY MineIsLease, FileAssumption DEF IInv, FileFollows, Engaged, Written

\* A process that finds a fresh lease its own, left by its crashed past or by a
\* crashed namesake, takes what nobody is engaged in.
LEMMA OwnLeaseIsFree ==
  ASSUME IInv, NEW p \in Procs, pc[p] = "read", OwnedBy(p), ~file.stale
  PROVE  file = Mine(p) /\ \A q \in Procs : ~Engaged(q)
<1>1. file = Mine(p)
    BY DEF OwnedBy, Written, Lease, Mine
<1>2. ASSUME NEW q \in Procs, Engaged(q) PROVE FALSE
  <2>1. file = Mine(q)
      BY <1>2, FileAssumption DEF Engaged, IInv, FileFollows, OwnedBy, Written
  <2>2. p # q /\ req[p] # req[q]
      BY <1>2 DEF Engaged, IInv, HandlesApart, AtWork
  <2> QED
      BY <1>1, <2>1, <2>2 DEF Mine
<1> QED
    BY <1>1, <1>2

\* Each step of the acquisition loop leaves at most one process engaged, with
\* its file.
LEMMA AcquiringStep ==
  ASSUME IInv, RemovesStale, NEW p \in Procs, Acquiring(p)
  PROVE  OneEngaged' /\ FileFollows'
<1> USE DEF IInv, TypeOK, Goto
<1>1. CASE Create(p)
  <2>1. \A q \in Procs : ~Engaged(q)
      BY <1>1, NobodyEngaged DEF Create
  <2> QED
      BY <1>1, <2>1 DEF Create, OneEngaged, FileFollows, Engaged
<1>2. CASE CreateFails(p)
    BY <1>2 DEF CreateFails, OneEngaged, FileFollows, Engaged, Mine
<1>3. CASE WriteLease(p)
  <2>1. file' = Mine(p)
      BY <1>3 DEF WriteLease, WriteThrough, FileFollows
  <2>2. \A q \in Procs : Engaged(q) => q = p
      BY <1>3 DEF WriteLease, OneEngaged, Engaged
  <2> QED
      BY <1>3, <2>1, <2>2 DEF WriteLease, OneEngaged, FileFollows, Engaged, Mine
<1>4. CASE Examine(p)
  <2>1. pc[p] = "read" /\ UNCHANGED <<file, writers, req>>
      BY <1>4 DEF Examine
  <2>2. CASE pc' = [pc EXCEPT ![p] = "hold"] /\ OwnedBy(p) /\ ~file.stale
      BY <2>1, <2>2, OwnLeaseIsFree DEF OneEngaged, FileFollows, Engaged, Mine
  <2>3. CASE \E step \in {"open", "idle", "remove"} : pc' = [pc EXCEPT ![p] = step]
      BY <2>1, <2>3 DEF OneEngaged, FileFollows, Engaged, Mine
  <2> QED
      BY <1>4, <2>2, <2>3 DEF Examine, NextAttempt
<1>5. CASE RemoveStale(p)
  <2>1. \A q \in Procs : ~Engaged(q)
      BY <1>5, NobodyEngaged DEF RemoveStale, RemovesStale
  <2>2. pc' \in {[pc EXCEPT ![p] = "open"], [pc EXCEPT ![p] = "idle"]}
      BY <1>5 DEF RemoveStale, NextAttempt
  <2> QED
      BY <2>1, <2>2 DEF OneEngaged, FileFollows, Engaged
<1> QED
    BY <1>1, <1>2, <1>3, <1>4, <1>5 DEF Acquiring

\* So does each step of the holder.
LEMMA HoldingStep ==
  ASSUME IInv, NEW p \in Procs, Holding(p)
  PROVE  OneEngaged' /\ FileFollows'
<1> USE DEF IInv, TypeOK, Goto
<1>0. \A q \in Procs : Engaged(q) => q = p
    BY DEF Holding, HeartbeatRead, HeartbeatTruncate, HeartbeatWrite, ReleaseRead,
       ReleaseRemove, OneEngaged, Engaged
<1>1. CASE HeartbeatRead(p)
    BY <1>1 DEF HeartbeatRead, OneEngaged, FileFollows, Engaged, Mine
<1>2. CASE HeartbeatTruncate(p)
    BY <1>0, <1>2 DEF HeartbeatTruncate, OneEngaged, FileFollows, Engaged
<1>3. CASE HeartbeatWrite(p)
  <2>1. file' = Mine(p)
      BY <1>3 DEF HeartbeatWrite, WriteThrough, FileFollows
  <2> QED
      BY <1>0, <1>3, <2>1 DEF HeartbeatWrite, OneEngaged, FileFollows, Engaged, Mine
<1>4. CASE ReleaseRead(p)
    BY <1>4 DEF ReleaseRead, OneEngaged, FileFollows, Engaged, Mine
<1>5. CASE ReleaseRemove(p)
    BY <1>0, <1>5 DEF ReleaseRemove, OneEngaged, FileFollows, Engaged
<1> QED
    BY <1>1, <1>2, <1>3, <1>4, <1>5 DEF Holding

\* A lease that expires is nobody's: its owner, if alive, renews it in time.
LEMMA ExpiresUnused ==
  ASSUME Prompt, IInv, Expire, NEW p \in Procs
  PROVE  ~Engaged(p)
<1>1. Written /\ ~file.stale /\ (Using(p) => ~OwnedBy(p))
    BY DEF Expire
<1>2. file = Mine(p) => OwnedBy(p)
    BY <1>1 DEF OwnedBy, Mine
<1> QED
    BY <1>1, <1>2, FileAssumption DEF IInv, FileFollows, Engaged, Using, Written

\* A step that removes no lease but a stale one leaves the lease exclusive.
LEMMA ExclusiveStep ==
  ASSUME Prompt, IInv, RemovesStale, [Next]_vars
  PROVE  IInv'
<1>1. TypeOK'
    BY TypeStep DEF IInv
<1>2. HandlesApart'
    BY HandlesStep
<1>3. OneEngaged' /\ FileFollows'
  <2> USE DEF IInv, TypeOK, OneEngaged, FileFollows, Engaged, Mine
  <2>1. ASSUME NEW p \in Procs, NEW h \in Handles, Request(p, h)
        PROVE  OneEngaged' /\ FileFollows'
      BY <2>1 DEF Request, Goto
  <2>2. ASSUME NEW p \in Procs, Crash(p) \/ Restart(p)
        PROVE  OneEngaged' /\ FileFollows'
      BY <2>2 DEF Crash, Restart, Goto
  <2>3. CASE Expire
    <3>1. \A p \in Procs : ~Engaged(p)
        BY <2>3, ExpiresUnused
    <3> QED
        BY <2>3, <3>1 DEF Expire
  <2>4. CASE UNCHANGED vars
      BY <2>4 DEF vars
  <2> QED
      BY <2>1, <2>2, <2>3, <2>4, AcquiringStep, HoldingStep DEF Next
<1> QED
    BY <1>1, <1>2, <1>3 DEF IInv

-----------------------------------------------------------------------------
(* Until the first crash no lease is ever stale.                            *)

LEMMA BackedRemovesStale == LeaseBacked => RemovesStale
BY DEF LeaseBacked, RemovesStale

LEMMA WrittenIsFresh ==
  ASSUME IInv, LeaseBacked, Written
  PROVE  ~file.stale /\ \E p \in Procs : Engaged(p)
BY MineIsLease DEF IInv, LeaseBacked, FileFollows, Engaged

LEMMA BackedStep ==
  ASSUME Prompt, IInv, LeaseBacked, [Next]_vars, crashes' = 0
  PROVE  LeaseBacked'
<1> USE DEF IInv, TypeOK, LeaseBacked, Goto
<1>1. ASSUME NEW p \in Procs, Acquiring(p) PROVE LeaseBacked'
  <2>1. CASE Create(p)
      BY <2>1, FileAssumption DEF Create, Written
  <2>2. CASE CreateFails(p)
      BY <2>2 DEF CreateFails, Written
  <2>3. CASE WriteLease(p)
      BY <2>3 DEF WriteLease
  <2>4. CASE Examine(p)
      BY <2>4, WrittenIsFresh DEF Examine, NextAttempt, Written
  <2>5. CASE RemoveStale(p)
      BY <2>5 DEF RemoveStale
  <2> QED
      BY <1>1, <2>1, <2>2, <2>3, <2>4, <2>5 DEF Acquiring
<1>2. ASSUME NEW p \in Procs, Holding(p) PROVE LeaseBacked'
  <2>1. CASE HeartbeatRead(p)
      BY <2>1 DEF HeartbeatRead, Written
  <2>2. CASE HeartbeatTruncate(p)
      BY <2>2, FileAssumption DEF HeartbeatTruncate, Written
  <2>3. CASE HeartbeatWrite(p)
      BY <2>3 DEF HeartbeatWrite
  <2>4. CASE ReleaseRead(p)
    <3>1. OwnedBy(p)
        BY <2>4, MineIsLease DEF ReleaseRead, FileFollows, OwnedBy, Written, Mine
    <3> QED
        BY <2>4, <3>1 DEF ReleaseRead, Written
  <2>5. CASE ReleaseRemove(p)
      BY <2>5, FileAssumption DEF ReleaseRemove, Written
  <2> QED
      BY <1>2, <2>1, <2>2, <2>3, <2>4, <2>5 DEF Holding
<1>3. ASSUME NEW p \in Procs, NEW h \in Handles, Request(p, h) PROVE LeaseBacked'
    BY <1>3 DEF Request, Written
<1>4. ASSUME NEW p \in Procs, Crash(p) PROVE FALSE
    BY <1>4 DEF Crash
<1>5. ASSUME NEW p \in Procs, Restart(p) PROVE LeaseBacked'
    BY <1>5 DEF Restart, Written
<1>6. ASSUME Expire PROVE FALSE
    BY <1>6, ExpiresUnused, WrittenIsFresh DEF Expire
<1>7. CASE UNCHANGED vars
    BY <1>7 DEF vars, Written
<1> QED
    BY <1>1, <1>2, <1>3, <1>4, <1>5, <1>6, <1>7 DEF Next

\* A crash is counted, and never forgotten.
LEMMA CrashCounted ==
  ASSUME TypeOK, [Next]_vars
  PROVE  crashes' = 0 => crashes = 0
BY DEF TypeOK, Next, vars, Request, Acquiring, Create, CreateFails, WriteLease, Examine,
   RemoveStale, Holding, HeartbeatRead, HeartbeatTruncate, HeartbeatWrite, ReleaseRead,
   ReleaseRemove, Crash, Restart, Expire

LEMMA EngagedAlone == IInv => MutualExclusion
BY DEF IInv, OneEngaged, Engaged, MutualExclusion, Believes

\* As long as no process has crashed and holders renew in time, at most one
\* process believes it holds the lease (acquireGpuLease), however slow any
\* contender is and however many crashes may come later.
THEOREM LeaseExclusionUntilCrash ==
  Prompt /\ Spec => [](crashes = 0 => MutualExclusion)
<1> DEFINE Inv == TypeOK /\ (crashes = 0 => IInv /\ LeaseBacked)
<1>1. Init => Inv
    BY LeaseInit DEF IInv
<1>2. ASSUME Prompt, Inv, [Next]_vars
      PROVE  Inv'
  <2>1. TypeOK'
      BY <1>2, TypeStep
  <2>2. crashes' = 0 => IInv' /\ LeaseBacked'
      BY <1>2, CrashCounted, BackedRemovesStale, ExclusiveStep, BackedStep
  <2> QED
      BY <2>1, <2>2
<1>3. Inv => (crashes = 0 => MutualExclusion)
    BY EngagedAlone
<1>4. CASE Prompt
  <2>1. Inv /\ [Next]_vars => Inv'
      BY <1>2, <1>4
  <2> QED
      BY <1>1, <1>3, <2>1, PTL DEF Spec
<1> QED
    BY <1>4

-----------------------------------------------------------------------------
(* Through any number of crashes: a stale lease is taken over, and only a   *)
(* stale one.                                                               *)

LEMMA RemovesStaleStep ==
  ASSUME Swift, IInv, RemovesStale, [Next]_vars
  PROVE  RemovesStale'
<1> USE DEF IInv, TypeOK, RemovesStale, Goto
<1>1. ASSUME NEW p \in Procs, Acquiring(p) PROVE RemovesStale'
  <2>1. CASE Create(p)
      BY <2>1 DEF Create
  <2>2. CASE CreateFails(p)
      BY <2>2 DEF CreateFails, Written
  <2>3. CASE WriteLease(p)
    <3>1. \A q \in Procs : pc[q] # "remove"
        BY <2>3, FileAssumption DEF WriteLease, FileFollows, Written
    <3> QED
        BY <2>3, <3>1 DEF WriteLease
  <2>4. CASE Examine(p)
      BY <2>4 DEF Examine, NextAttempt, Written
  <2>5. CASE RemoveStale(p)
      BY <2>5 DEF RemoveStale, NextAttempt
  <2> QED
      BY <1>1, <2>1, <2>2, <2>3, <2>4, <2>5 DEF Acquiring
<1>2. ASSUME NEW p \in Procs, Holding(p) PROVE RemovesStale'
  <2>1. Engaged(p)
      BY <1>2 DEF Holding, HeartbeatRead, HeartbeatTruncate, HeartbeatWrite, ReleaseRead,
         ReleaseRemove, Engaged
  <2>2. \A q \in Procs : pc[q] # "remove"
      BY <2>1, NobodyEngaged
  <2> QED
      BY <1>2, <2>2 DEF Holding, HeartbeatRead, HeartbeatTruncate, HeartbeatWrite,
         ReleaseRead, ReleaseRemove
<1>3. ASSUME NEW p \in Procs, NEW h \in Handles, Request(p, h) PROVE RemovesStale'
    BY <1>3 DEF Request, Written
<1>4. ASSUME NEW p \in Procs, Crash(p) \/ Restart(p) PROVE RemovesStale'
    BY <1>4 DEF Crash, Restart, Written
<1>5. CASE Expire
    BY <1>5, FileAssumption DEF Expire, Written, Lease
<1>6. CASE UNCHANGED vars
    BY <1>6 DEF vars, Written
<1> QED
    BY <1>1, <1>2, <1>3, <1>4, <1>5, <1>6 DEF Next

Exclusive == IInv /\ RemovesStale

LEMMA ExclusiveInductive ==
  ASSUME Prompt, Swift
  PROVE  Spec => []Exclusive
<1>1. Init => Exclusive
    BY LeaseInit DEF Exclusive
<1>2. Exclusive /\ [Next]_vars => Exclusive'
    BY ExclusiveStep, RemovesStaleStep DEF Exclusive
<1> QED
    BY <1>1, <1>2, PTL DEF Spec

\* At most one process believes it holds the lease (acquireGpuLease), through any
\* number of crashes, restarts, expired leases and take-overs, as long as no
\* heartbeat is late and no take-over is overtaken by the next one.
THEOREM LeaseExclusion == ASSUME Prompt, Swift PROVE Spec => []MutualExclusion
<1>1. Exclusive => MutualExclusion
    BY EngagedAlone DEF Exclusive
<1> QED
    BY <1>1, ExclusiveInductive, PTL

-----------------------------------------------------------------------------
(* The same argument, as an implementation of the abstract lock.            *)

Believers == {p \in Procs : Believes(p)}

\* A believer is alone; a step of the protocol only ever moves one process in
\* or out.
LEMMA SoleBeliever ==
  ASSUME IInv, NEW p \in Procs, Believes(p)
  PROVE  Believers = {p}
BY DEF IInv, OneEngaged, Engaged, Believes, Believers

\* A process believes from the moment its lease is written, or is found to be its
\* own, and then nobody else does; it stops by beginning its release, or dying.
LEMMA BelieverMoves ==
  ASSUME IInv, Next
  PROVE  (\E p \in Procs : Lock!Take(p) \/ Lock!Give(p)) \/ UNCHANGED Believers
<1> USE DEF IInv, TypeOK, Believers, Believes, Goto
<1>1. ASSUME NEW p \in Procs, WriteLease(p)
      PROVE  Lock!Take(p)
  <2>1. \A q \in Procs : Engaged(q) => q = p
      BY <1>1 DEF WriteLease, OneEngaged, Engaged
  <2>2. Believers = {}
      BY <1>1, <2>1 DEF WriteLease, Engaged
  <2>3. Believers' = {p}
      BY <1>1, <2>2 DEF WriteLease
  <2> QED
      BY <2>2, <2>3 DEF Lock!Take
<1>2. ASSUME NEW p \in Procs, Believes(p), ReleaseRead(p) \/ Crash(p)
      PROVE  Lock!Give(p)
  <2>1. Believers = {p}
      BY <1>2, SoleBeliever
  <2>2. Believers' = {}
      BY <1>2, <2>1 DEF ReleaseRead, Crash
  <2> QED
      BY <2>1, <2>2 DEF Lock!Give
<1>3. ASSUME NEW p \in Procs, Examine(p)
      PROVE  Lock!Take(p) \/ UNCHANGED Believers
  <2>1. pc[p] = "read"
      BY <1>3 DEF Examine
  <2>2. CASE pc' = [pc EXCEPT ![p] = "hold"] /\ OwnedBy(p) /\ ~file.stale
    <3>1. Believers = {}
        BY <2>1, <2>2, OwnLeaseIsFree DEF Engaged
    <3>2. Believers' = {p}
        BY <2>2, <3>1
    <3> QED
        BY <3>1, <3>2 DEF Lock!Take
  <2>3. CASE \E step \in {"open", "idle", "remove"} : pc' = [pc EXCEPT ![p] = step]
      BY <2>1, <2>3
  <2> QED
      BY <1>3, <2>2, <2>3 DEF Examine, NextAttempt
<1>4. ASSUME NEW p \in Procs, NEW h \in Handles, Request(p, h)
      PROVE  UNCHANGED Believers
    BY <1>4 DEF Request
<1>5. ASSUME NEW p \in Procs,
             Create(p) \/ CreateFails(p) \/ RemoveStale(p)
      PROVE  UNCHANGED Believers
    BY <1>5 DEF Create, CreateFails, RemoveStale, NextAttempt
<1>6. ASSUME NEW p \in Procs,
             HeartbeatRead(p) \/ HeartbeatTruncate(p) \/ HeartbeatWrite(p) \/ ReleaseRemove(p)
      PROVE  UNCHANGED Believers
    BY <1>6 DEF HeartbeatRead, HeartbeatTruncate, HeartbeatWrite, ReleaseRemove
<1>7. ASSUME NEW p \in Procs, (Crash(p) /\ ~Believes(p)) \/ Restart(p)
      PROVE  UNCHANGED Believers
    BY <1>7 DEF Crash, Restart
<1>8. CASE Expire
    BY <1>8 DEF Expire
<1>9. ASSUME NEW p \in Procs, ReleaseRead(p) PROVE Believes(p)
    BY <1>9 DEF ReleaseRead
<1> QED
    BY <1>1, <1>2, <1>3, <1>4, <1>5, <1>6, <1>7, <1>8, <1>9 DEF Next, Acquiring, Holding

\* Under the same conditions the lease file implements an exclusive lock: no
\* contender, heartbeat or release, and no process that comes back from a crash,
\* takes a lock that is in use.
THEOREM LeaseImplementsLock == ASSUME Prompt, Swift PROVE Spec => ActsAsLock
<1>1. Init => Lock!Init
    BY DEF Init, Lock!Init, Believes
<1>2. Exclusive /\ [Next]_vars => [Lock!Next]_Believers
  <2>1. ASSUME IInv, Next
        PROVE  [Lock!Next]_Believers
      BY <2>1, BelieverMoves DEF Lock!Next
  <2>2. ASSUME UNCHANGED vars
        PROVE  [Lock!Next]_Believers
      BY <2>2 DEF vars, Believers, Believes
  <2> QED
      BY <2>1, <2>2 DEF Exclusive
<1> QED
    BY <1>1, <1>2, ExclusiveInductive, PTL DEF Spec, ActsAsLock, Lock!Spec, Believers
=============================================================================

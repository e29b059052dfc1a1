---------------------------- MODULE GpuLaneProof ----------------------------
(***************************************************************************)
(* What holds of the GPU duty lane for any set of duties, dependencies,    *)
(* worker slots, claim tags and collectors, with any number of crashes.    *)
(***************************************************************************)
EXTENDS GpuLane, TLAPS

\* A claim's tag is never mistaken for a directory.
LEMMA TagFacts ==
  /\ \A w \in Workers : Tag[w] \in Tags
  /\ \A t \in Tags : t \notin Dirs
BY TagAssumption DEF Tags

-----------------------------------------------------------------------------
(* Types.                                                                   *)

LEMMA LeaseTyped ==
  ASSUME lease \in [Duties -> Leases], NEW d \in Duties,
         NEW state \in {"absent", "torn", "fresh", "stale"},
         NEW owner \in Tags \cup {"nobody"}, SetLease(d, state, owner)
  PROVE  lease' \in [Duties -> Leases]
<1>1. [state |-> state, owner |-> owner] \in Leases
    BY DEF Leases
<1> QED
    BY <1>1 DEF SetLease

LEMMA TypeInit == Init => TypeOK
BY DutyAssumption, CrashAssumption
DEF Init, TypeOK, Dirs, Statuses, Leases, WorkerSteps, CollectorSteps, NoClaim, Terminal

\* A client's steps, and the passing of time.
LEMMA TypeClient ==
  ASSUME TypeOK, NEW d \in Duties, Client(d) \/ Age(d) \/ Expire(d)
  PROVE  TypeOK'
<1> USE DEF TypeOK, files, worker, remote, collector
<1>1. CASE Enqueue(d)
    BY <1>1 DEF Enqueue, Put, Dirs
<1>2. CASE StartQueued(d) \/ WriteQueued(d)
    BY <1>2 DEF StartQueued, WriteQueued, Truncate, Record, Statuses
<1>3. CASE Await(d)
    BY <1>3 DEF Await
<1>4. CASE Age(d)
    BY <1>4 DEF Age
<1>5. CASE Expire(d)
    BY <1>5 DEF Expire, SetLease, Leases
<1> QED
    BY <1>1, <1>2, <1>3, <1>4, <1>5 DEF Client

LEMMA TypeClaiming ==
  ASSUME TypeOK, NEW w \in Workers, Claiming(w)
  PROVE  TypeOK'
<1> USE DEF TypeOK, files, worker, remote, collector, Goto, WorkerSteps, PreSubmit
<1>1. CASE List(w)
    BY <1>1 DEF List, Input
<1>2. CASE Preview(w)
    BY <1>2 DEF Preview
<1>3. CASE NothingToClaim(w)
    BY <1>3 DEF NothingToClaim
<1>4. CASE Claim(w)
    BY <1>4, TagFacts DEF Claim, Put
<1>5. CASE Recheck(w)
    BY <1>5 DEF Recheck
<1>6. CASE PutBack(w)
    BY <1>6 DEF PutBack, Requeue, Put, Dirs
<1> QED
    BY <1>1, <1>2, <1>3, <1>4, <1>5, <1>6 DEF Claiming

\* Status writes, of whatever step and value the code has.
LEMMA TypeWrites ==
  ASSUME TypeOK, NEW w \in Workers, NEW step, NEW next \in WorkerSteps,
         NEW thrown \in WorkerSteps, NEW value \in Statuses,
         \/ StartWrite(w, step, next)
         \/ FinishWrite(w, step, value, next)
         \/ StartTerminal(w, step, next, thrown)
  PROVE  TypeOK'
<1> USE DEF TypeOK, remote, collector, Goto, Truncate, Record
<1>0. "torn" \in Statuses
    BY DEF Statuses
<1>1. CASE StartWrite(w, step, next)
    BY <1>0, <1>1 DEF StartWrite
<1>2. CASE FinishWrite(w, step, value, next)
    BY <1>2 DEF FinishWrite
<1>3. CASE StartTerminal(w, step, next, thrown)
    BY <1>0, <1>3 DEF StartTerminal
<1> QED
    BY <1>1, <1>2, <1>3

LEMMA TypeAcknowledge ==
  ASSUME TypeOK, NEW w \in Workers, NEW step, NEW dir \in Dirs,
         NEW thrown \in WorkerSteps, Acknowledge(w, step, dir, thrown)
  PROVE  TypeOK'
BY DEF TypeOK, Acknowledge, Goto, Put, WorkerSteps, remote, collector

LEMMA TypeRunning ==
  ASSUME TypeOK, NEW w \in Workers, Running(w) \/ Polling(w)
  PROVE  TypeOK'
<1>0. /\ PreSubmit \cup PostSubmit \cup {"release", "idle"} \subseteq WorkerSteps
      /\ {"queued", "running", "success", "fail"} \subseteq Statuses
      /\ {"input", "success", "fail"} \subseteq Dirs
    BY DEF WorkerSteps, Statuses, Dirs
<1>1. CASE MarkQueued(w) \/ MarkRunning(w)
    BY <1>0, <1>1, TypeWrites DEF MarkQueued, MarkRunning, PreSubmit
<1>2. CASE AcquireLease(w)
  <2>1. lease' \in [Duties -> Leases]
      BY <1>2, LeaseTyped DEF AcquireLease, TypeOK
  <2> QED
      BY <1>0, <1>2, <2>1 DEF AcquireLease, TypeOK, Goto, PreSubmit, remote, collector
<1>3. CASE WriteLease(w) \/ WriteHeartbeat(w) \/ StartHeartbeat(w)
  <2>1. lease' \in [Duties -> Leases]
      BY <1>3, LeaseTyped, TagFacts DEF WriteLease, WriteHeartbeat, StartHeartbeat, TypeOK
  <2> QED
      BY <1>0, <1>3, <2>1
      DEF WriteLease, WriteHeartbeat, StartHeartbeat, TypeOK, Goto, PreSubmit,
          PostSubmit, remote, collector
<1>4. CASE Busy(w)
    BY <1>0, <1>4 DEF Busy, Requeue, TypeOK, Put, Goto, remote, collector
<1>5. CASE SubmitJob(w)
    BY <1>0, <1>5 DEF SubmitJob, TypeOK, Goto, PostSubmit, files, collector
<1>6. CASE PollEnds(w)
    BY <1>0, <1>6 DEF PollEnds, TypeOK, Goto, PostSubmit, files, remote, collector
<1>7. CASE Succeed(w)
    BY <1>0, <1>7, TypeWrites, TypeAcknowledge DEF Succeed, PostSubmit
<1>8. CASE Fail(w)
    BY <1>0, <1>8, TypeWrites, TypeAcknowledge DEF Fail, PostSubmit
<1>9. CASE Catch(w)
    BY <1>0, <1>9, TypeWrites, TypeAcknowledge DEF Catch, PostSubmit
<1>10. CASE Release(w)
  <2>1. lease' \in [Duties -> Leases]
      BY <1>10, LeaseTyped DEF Release, TypeOK
  <2> QED
      BY <1>0, <1>10, <2>1 DEF Release, TypeOK, Goto, remote, collector
<1> QED
    BY <1>1, <1>2, <1>3, <1>4, <1>5, <1>6, <1>7, <1>8, <1>9, <1>10 DEF Running, Polling

LEMMA TypeWorkerEnvironment ==
  ASSUME TypeOK, NEW w \in Workers, RemoteEnds(w) \/ CrashWorker(w) \/ RestartWorker(w)
  PROVE  TypeOK'
BY DEF TypeOK, RemoteEnds, CrashWorker, RestartWorker, Goto, WorkerSteps, files,
       remote, collector

LEMMA TypeCollecting ==
  ASSUME TypeOK, NEW c \in Collectors, Collecting(c) \/ CrashCollector(c)
  PROVE  TypeOK'
<1> USE DEF TypeOK, files, worker, remote, Step, CollectorSteps
<1>1. CASE Collect(c)
    BY <1>1 DEF Collect
<1>2. CASE CheckLease(c)
  <2>1. \A k \in Duties \X Tags : k # NoClaim
      BY TagFacts DEF NoClaim, Dirs
  <2> QED
      BY <1>2, <2>1 DEF CheckLease
<1>3. CASE CollectorDone(c) \/ CrashCollector(c)
  <2>1. Quit(c) /\ UNCHANGED <<files, old, client, worker, remote>> /\ crashes' \in Nat
      BY <1>3 DEF CollectorDone, CrashCollector
  <2> QED
      BY <2>1 DEF Quit
<1>4. CASE CheckStatus(c)
    BY <1>4 DEF CheckStatus
<1>5. CASE StartFail(c) \/ WriteFail(c)
    BY <1>5 DEF StartFail, WriteFail, Truncate, Record, Statuses
<1>6. CASE Move(c)
    BY <1>6 DEF Move, Put, Quit, Dirs
<1>7. CASE DropLease(c)
  <2>1. cand[c] \in Duties \X Tags
      BY <1>7 DEF DropLease
  <2>2. lease' \in [Duties -> Leases]
      BY <1>7, <2>1, LeaseTyped DEF DropLease
  <2> QED
      BY <1>7, <2>2 DEF DropLease
<1> QED
    BY <1>1, <1>2, <1>3, <1>4, <1>5, <1>6, <1>7 DEF Collecting

LEMMA TypeStep == TypeOK /\ [Next]_vars => TypeOK'
<1> SUFFICES ASSUME TypeOK, [Next]_vars PROVE TypeOK'
    OBVIOUS
<1>1. CASE UNCHANGED vars
    BY <1>1 DEF vars, TypeOK, files, worker, remote, collector
<1> QED
    BY <1>1, TypeClient, TypeClaiming, TypeRunning, TypeWorkerEnvironment, TypeCollecting
    DEF Next

\* Every file, step and counter of the lane keeps its type.
THEOREM LaneTypes == Spec => []TypeOK
BY TypeInit, TypeStep, PTL DEF Spec

-----------------------------------------------------------------------------
(* At most one submission.  The argument follows the claim: an envelope that *)
(* has been taken from the queue gets back there only by the hands of the    *)
(* one worker that took it, and only before that worker submits.             *)

Engaged(w) == pc[w] \in PreSubmit \cup PostSubmit

\* No two workers are engaged on the same duty.
Alone ==
  \A w, v \in Workers : Engaged(w) /\ Engaged(v) /\ duty[w] = duty[v] => w = v

\* While a worker is engaged its envelope is its claim, or has been settled
\* under its hands; it is never back in the queue.
ClaimHeld ==
  \A w \in Workers : Engaged(w) => place[duty[w]] \in {Tag[w]} \cup Terminal

\* A worker that may still submit is about a duty nobody has submitted.
NotYet == \A w \in Workers : pc[w] \in PreSubmit => submits[duty[w]] = 0

\* A submitted duty is out of the queue.
Spent ==
  \A d \in Duties : submits[d] > 0 => submits[d] = 1 /\ place[d] \in Tags \cup Terminal

\* A duty its client has not started has no envelope.
Unborn == \A d \in Duties : client[d] = "new" => place[d] = "none"

Once == TypeOK /\ Alone /\ ClaimHeld /\ NotYet /\ Spent /\ Unborn

\* The steps before and after the submission, and none.
LEMMA StepFacts ==
  /\ PreSubmit \cap PostSubmit = {}
  /\ {"idle", "scan", "claim", "release", "down"} \cap (PreSubmit \cup PostSubmit) = {}
  /\ Terminal \subseteq Dirs
  /\ "input" \in Dirs \ Terminal
  /\ "none" \in Dirs \ Terminal
  /\ "input" # "none"
BY DEF PreSubmit, PostSubmit, Terminal, Dirs

LEMMA OnceInit == Init => Once
<1> SUFFICES ASSUME Init PROVE Once
    OBVIOUS
<1>1. \A w \in Workers : ~Engaged(w) /\ pc[w] \notin PreSubmit
    BY StepFacts DEF Init, Engaged
<1> QED
    BY <1>1, TypeInit DEF Init, Once, Alone, ClaimHeld, NotYet, Spent, Unborn

\* A worker that moves on within its phase, or leaves it, endangers nothing.
LEMMA WorkerMovesOn ==
  ASSUME Once, NEW w \in Workers, NEW next \in WorkerSteps, Goto(w, next),
         next \in PreSubmit => pc[w] \in PreSubmit,
         next \in PostSubmit => Engaged(w),
         UNCHANGED <<place, client, submits>>,
         duty' = duty \/ (~Engaged(w) /\ next \notin PreSubmit \cup PostSubmit
                          /\ \E d \in Duties : duty' = [duty EXCEPT ![w] = d])
  PROVE  Alone' /\ ClaimHeld' /\ NotYet' /\ Spent' /\ Unborn'
<1> USE DEF Once, TypeOK, Goto
<1>1. \A v \in Workers : Engaged(v)' => Engaged(v) /\ duty'[v] = duty[v]
    BY DEF Engaged
<1>2. \A v \in Workers : pc'[v] \in PreSubmit => pc[v] \in PreSubmit
    OBVIOUS
<1>3. Alone'
    BY <1>1 DEF Alone
<1>4. ClaimHeld'
    BY <1>1 DEF ClaimHeld
<1>5. NotYet'
    BY <1>1, <1>2 DEF NotYet, Engaged
<1>6. Spent' /\ Unborn'
    BY DEF Spent, Unborn
<1> QED
    BY <1>3, <1>4, <1>5, <1>6

\* An envelope that leaves runtime/ for a terminal directory stays settled.
LEMMA ClaimSettles ==
  ASSUME Once, NEW d \in Duties, NEW dir \in Terminal, place[d] \in Tags, Put(d, dir),
         UNCHANGED <<client, submits>>, duty' = duty,
         \A v \in Workers : /\ Engaged(v)' => Engaged(v)
                            /\ pc'[v] \in PreSubmit => pc[v] \in PreSubmit
  PROVE  Alone' /\ ClaimHeld' /\ NotYet' /\ Spent' /\ Unborn'
<1> USE DEF Once, TypeOK, Put
<1>1. Alone'
    BY DEF Alone
<1>2. ClaimHeld'
    BY DEF ClaimHeld
<1>3. NotYet'
    BY DEF NotYet
<1>4. Spent'
    BY DEF Spent
<1>5. Unborn'
    BY TagFacts, StepFacts DEF Unborn
<1> QED
    BY <1>1, <1>2, <1>3, <1>4, <1>5

\* The claim of the one worker engaged on a duty goes back to the queue.
LEMMA OnceRequeue ==
  ASSUME Once, NEW w \in Workers, NEW step \in PreSubmit, NEW next \in {"scan", "idle"},
         Requeue(w, step, next)
  PROVE  Alone' /\ ClaimHeld' /\ NotYet' /\ Spent' /\ Unborn'
<1> USE DEF Once, TypeOK, Requeue, At, Goto
<1>1. CASE HasClaim(w)
  <2>1. \A v \in Workers : Engaged(v)' => Engaged(v) /\ v # w /\ duty[v] # duty[w]
      BY <1>1, StepFacts DEF Engaged, Alone
  <2>2. submits[duty[w]] = 0
      BY DEF NotYet
  <2>3. Alone' /\ NotYet'
      BY <1>1, <2>1 DEF Alone, NotYet, Engaged, remote
  <2>4. ClaimHeld'
      BY <1>1, <2>1 DEF ClaimHeld, Put
  <2>5. Spent'
      BY <1>1, <2>2 DEF Spent, Put, remote
  <2>6. Unborn'
      BY <1>1, TagFacts, StepFacts DEF Unborn, Put, HasClaim
  <2> QED
      BY <2>3, <2>4, <2>5, <2>6
<1>2. CASE ~HasClaim(w)
  <2>1. next \in WorkerSteps /\ next \notin PreSubmit \cup PostSubmit
      BY StepFacts DEF WorkerSteps
  <2>2. Goto(w, "idle") /\ "idle" \in WorkerSteps /\ "idle" \notin PreSubmit \cup PostSubmit
      BY <1>2, StepFacts DEF WorkerSteps
  <2> QED
      BY <1>2, <2>2, WorkerMovesOn DEF remote
<1> QED
    BY <1>1, <1>2

LEMMA OnceClaiming ==
  ASSUME Once, NEW w \in Workers, Claiming(w)
  PROVE  Alone' /\ ClaimHeld' /\ NotYet' /\ Spent' /\ Unborn'
<1>0. {"idle", "scan", "claim", "recheck", "putback", "queue"} \subseteq WorkerSteps
      /\ {"recheck", "putback", "queue"} \subseteq PreSubmit
    BY DEF WorkerSteps, PreSubmit
<1>1. CASE List(w)
    BY <1>0, <1>1, WorkerMovesOn, StepFacts DEF List, files, remote
<1>2. CASE Preview(w)
  <2>1. PICK d \in scan[w] :
          IF place[d] = "input" /\ ~Ready(d)
          THEN UNCHANGED <<pc, duty>>
          ELSE duty' = [duty EXCEPT ![w] = d] /\ Goto(w, "claim")
      BY <1>2 DEF Preview
  <2>2. d \in Duties /\ ~Engaged(w) /\ UNCHANGED <<place, client, submits>>
      BY <1>2, StepFacts DEF Preview, Once, TypeOK, At, Engaged, files, remote
  <2>3. CASE UNCHANGED <<pc, duty>>
      BY <2>2, <2>3 DEF Once, Alone, ClaimHeld, NotYet, Spent, Unborn, Engaged
  <2>4. CASE duty' = [duty EXCEPT ![w] = d] /\ Goto(w, "claim")
      BY <1>0, <2>2, <2>4, WorkerMovesOn, StepFacts
  <2> QED
      BY <2>1, <2>3, <2>4
<1>3. CASE NothingToClaim(w)
    BY <1>0, <1>3, WorkerMovesOn, StepFacts DEF NothingToClaim, files, remote
<1>4. CASE Claim(w)
  <2> USE DEF Once, TypeOK, Claim, At, Goto
  <2>1. CASE place[duty[w]] = "input"
    <3>1. submits[duty[w]] = 0 /\ client[duty[w]] # "new"
        BY <2>1, TagFacts, StepFacts DEF Spent, Unborn
    <3>2. \A v \in Workers : Engaged(v) => duty[v] # duty[w]
        BY <2>1, TagFacts, StepFacts DEF ClaimHeld
    <3>3. \A v \in Workers : Engaged(v)' => v = w \/ Engaged(v)
        BY <1>4, <2>1 DEF Engaged
    <3>4. Alone'
        BY <1>4, <2>1, <3>2, <3>3 DEF Alone
    <3>5. ClaimHeld'
        BY <1>4, <2>1, <3>2, <3>3 DEF ClaimHeld, Put
    <3>6. NotYet'
        BY <1>4, <2>1, <3>1 DEF NotYet, remote
    <3>7. Spent' /\ Unborn'
        BY <1>4, <2>1, <3>1 DEF Spent, Unborn, Put, remote
    <3> QED
        BY <3>4, <3>5, <3>6, <3>7
  <2>2. CASE place[duty[w]] # "input"
      BY <1>0, <1>4, <2>2, WorkerMovesOn, StepFacts DEF remote
  <2> QED
      BY <2>1, <2>2
<1>5. CASE Recheck(w)
  <2>1. \E next \in {"idle", "putback", "queue"} : Goto(w, next)
      BY <1>5 DEF Recheck
  <2> QED
      BY <1>0, <1>5, <2>1, WorkerMovesOn, StepFacts DEF Recheck, At, Engaged, files, remote
<1>6. CASE PutBack(w)
    BY <1>0, <1>6, OnceRequeue DEF PutBack
<1> QED
    BY <1>1, <1>2, <1>3, <1>4, <1>5, <1>6 DEF Claiming

LEMMA OnceAcknowledge ==
  ASSUME Once, NEW w \in Workers, NEW step \in PostSubmit, NEW dir \in Terminal,
         NEW thrown \in PostSubmit \cup {"release"}, Acknowledge(w, step, dir, thrown)
  PROVE  Alone' /\ ClaimHeld' /\ NotYet' /\ Spent' /\ Unborn'
<1>0. thrown \in WorkerSteps /\ thrown \notin PreSubmit
    BY StepFacts DEF WorkerSteps
<1>1. CASE HasClaim(w)
  <2>1. /\ place[duty[w]] \in Tags /\ duty[w] \in Duties
        /\ Put(duty[w], dir) /\ Goto(w, "release")
        /\ UNCHANGED <<client, submits, duty>>
      BY <1>1, TagFacts DEF Acknowledge, HasClaim, Once, TypeOK, remote
  <2>2. \A v \in Workers : /\ Engaged(v)' => Engaged(v)
                           /\ pc'[v] \in PreSubmit => pc[v] \in PreSubmit
      BY <2>1, StepFacts DEF Goto, Engaged, Once, TypeOK
  <2> QED
      BY <2>1, <2>2, ClaimSettles
<1>2. CASE ~HasClaim(w)
    BY <1>0, <1>2, WorkerMovesOn DEF Acknowledge, At, Engaged, remote
<1> QED
    BY <1>1, <1>2

\* A status write moves its worker on.
LEMMA OnceWrites ==
  ASSUME Once, NEW w \in Workers, NEW step, NEW next \in WorkerSteps,
         NEW thrown \in WorkerSteps, NEW value,
         next \in PreSubmit => step \in PreSubmit,
         thrown \in PreSubmit => step \in PreSubmit,
         step \in PreSubmit \cup PostSubmit,
         \/ StartWrite(w, step, next)
         \/ FinishWrite(w, step, value, next)
         \/ StartTerminal(w, step, next, thrown)
  PROVE  Alone' /\ ClaimHeld' /\ NotYet' /\ Spent' /\ Unborn'
<1>1. /\ pc[w] = step /\ Engaged(w)
      /\ Goto(w, next) \/ Goto(w, thrown)
      /\ UNCHANGED <<place, client, submits, duty>>
    BY DEF StartWrite, FinishWrite, StartTerminal, At, Engaged, remote
<1> QED
    BY <1>1, WorkerMovesOn

LEMMA OnceRunning ==
  ASSUME Once, NEW w \in Workers, Running(w) \/ Polling(w)
  PROVE  Alone' /\ ClaimHeld' /\ NotYet' /\ Spent' /\ Unborn'
<1>0. /\ {"queue", "queueing", "lease", "leasing", "busy", "run", "running", "submit"}
           \subseteq PreSubmit
      /\ PostSubmit = {"poll", "beating", "win", "winning", "ackwin", "lose", "losing",
                       "acklose", "catch", "catching", "ackcatch"}
      /\ PreSubmit \cup PostSubmit \cup {"release", "idle"} \subseteq WorkerSteps
      /\ {"success", "fail"} \subseteq Terminal
    BY DEF WorkerSteps, PreSubmit, PostSubmit, Terminal
<1>1. CASE MarkQueued(w) \/ MarkRunning(w)
    BY <1>0, <1>1, OnceWrites DEF MarkQueued, MarkRunning
<1>2. CASE AcquireLease(w)
  <2>1. \/ pc' = pc
        \/ \E next \in {"leasing", "run", "busy"} : Goto(w, next)
      BY <1>2 DEF AcquireLease
  <2>2. pc[w] \in PreSubmit /\ UNCHANGED <<place, client, submits, duty>>
      BY <1>0, <1>2 DEF AcquireLease, At, remote
  <2>3. CASE pc' = pc
      BY <2>2, <2>3 DEF Once, Alone, ClaimHeld, NotYet, Spent, Unborn, Engaged
  <2>4. ASSUME NEW next \in {"leasing", "run", "busy"}, Goto(w, next)
        PROVE  Alone' /\ ClaimHeld' /\ NotYet' /\ Spent' /\ Unborn'
      BY <1>0, <2>2, <2>4, WorkerMovesOn, StepFacts
  <2> QED
      BY <2>1, <2>3, <2>4
<1>3. CASE WriteLease(w)
    BY <1>0, <1>3, WorkerMovesOn, StepFacts DEF WriteLease, At, remote
<1>4. CASE WriteHeartbeat(w) \/ StartHeartbeat(w)
    BY <1>0, <1>4, WorkerMovesOn, StepFacts
    DEF WriteHeartbeat, StartHeartbeat, At, Engaged, remote
<1>5. CASE Busy(w)
    BY <1>0, <1>5, OnceRequeue DEF Busy
<1>6. CASE SubmitJob(w)
  <2> USE DEF Once, TypeOK
  <2>1. /\ pc[w] \in PreSubmit /\ UNCHANGED <<place, client, duty>>
        /\ Goto(w, "poll") \/ Goto(w, "catch")
      BY <1>0, <1>6 DEF SubmitJob, At, files
  <2>2. submits[duty[w]] = 0 /\ place[duty[w]] \in Tags \cup Terminal
      BY <2>1, TagFacts DEF NotYet, ClaimHeld, Engaged
  <2>3. submits' = submits \/ submits' = [submits EXCEPT ![duty[w]] = @ + 1]
      BY <1>6 DEF SubmitJob
  <2>4. \A v \in Workers : Engaged(v)' => Engaged(v)
      BY <2>1 DEF Goto, Engaged
  <2>5. \A v \in Workers :
          pc'[v] \in PreSubmit => pc[v] \in PreSubmit /\ duty[v] # duty[w]
      BY <1>0, <2>1, StepFacts DEF Goto, Engaged, Alone
  <2>6. Alone' /\ ClaimHeld'
      BY <2>1, <2>4 DEF Alone, ClaimHeld
  <2>7. NotYet'
      BY <2>1, <2>3, <2>5 DEF NotYet
  <2>8. Spent' /\ Unborn'
      BY <2>1, <2>2, <2>3 DEF Spent, Unborn
  <2> QED
      BY <2>6, <2>7, <2>8
<1>7. CASE PollEnds(w)
    BY <1>0, <1>7, WorkerMovesOn, StepFacts DEF PollEnds, At, Engaged, files, remote
<1>8. CASE Succeed(w)
    BY <1>0, <1>8, OnceWrites, OnceAcknowledge, StepFacts DEF Succeed
<1>9. CASE Fail(w)
    BY <1>0, <1>9, OnceWrites, OnceAcknowledge, StepFacts DEF Fail
<1>10. CASE Catch(w)
    BY <1>0, <1>10, OnceWrites, OnceAcknowledge, StepFacts DEF Catch
<1>11. CASE Release(w)
    BY <1>0, <1>11, WorkerMovesOn, StepFacts DEF Release, remote
<1> QED
    BY <1>1, <1>2, <1>3, <1>4, <1>5, <1>6, <1>7, <1>8, <1>9, <1>10, <1>11
    DEF Running, Polling

LEMMA OnceElsewhere ==
  ASSUME Once,
         \/ \E d \in Duties : Client(d) \/ Age(d) \/ Expire(d)
         \/ \E w \in Workers : RemoteEnds(w) \/ CrashWorker(w) \/ RestartWorker(w)
         \/ \E c \in Collectors : Collecting(c) \/ CrashCollector(c)
         \/ UNCHANGED vars
  PROVE  Alone' /\ ClaimHeld' /\ NotYet' /\ Spent' /\ Unborn'
<1> DEFINE Same == /\ UNCHANGED <<place, pc, duty, submits>>
                   /\ \A d \in Duties : client'[d] = "new" => client[d] = "new"
<1>1. ASSUME Same PROVE Alone' /\ ClaimHeld' /\ NotYet' /\ Spent' /\ Unborn'
    BY <1>1 DEF Once, Alone, ClaimHeld, NotYet, Spent, Unborn, Engaged
<1>2. ASSUME NEW d \in Duties, Enqueue(d)
      PROVE  Alone' /\ ClaimHeld' /\ NotYet' /\ Spent' /\ Unborn'
  <2> USE DEF Once, TypeOK
  <2>1. place[d] = "none" /\ UNCHANGED <<pc, duty, submits>>
      BY <1>2 DEF Enqueue, Unborn, worker, remote
  <2>2. submits[d] = 0 /\ \A w \in Workers : Engaged(w) => duty[w] # d
      BY <2>1, TagFacts, StepFacts DEF Spent, ClaimHeld
  <2>3. Alone' /\ NotYet'
      BY <2>1 DEF Alone, NotYet, Engaged
  <2>4. ClaimHeld'
      BY <1>2, <2>1, <2>2 DEF ClaimHeld, Engaged, Enqueue, Put
  <2>5. Spent' /\ Unborn'
      BY <1>2, <2>1, <2>2 DEF Spent, Unborn, Enqueue, Put
  <2> QED
      BY <2>3, <2>4, <2>5
<1>3. ASSUME NEW d \in Duties,
             StartQueued(d) \/ WriteQueued(d) \/ Await(d) \/ Age(d) \/ Expire(d)
      PROVE  Same
    BY <1>3, StepFacts
    DEF StartQueued, WriteQueued, Await, Age, Expire, files, worker, remote,
        Once, TypeOK, Terminal
<1>4. ASSUME NEW w \in Workers, RemoteEnds(w) PROVE Same
    BY <1>4 DEF RemoteEnds, files
<1>5. ASSUME NEW w \in Workers, CrashWorker(w) \/ RestartWorker(w)
      PROVE  Alone' /\ ClaimHeld' /\ NotYet' /\ Spent' /\ Unborn'
  <2>1. {"idle", "down"} \subseteq WorkerSteps
      BY DEF WorkerSteps
  <2> QED
      BY <1>5, <2>1, WorkerMovesOn, StepFacts DEF CrashWorker, RestartWorker, files, remote
<1>6. ASSUME NEW c \in Collectors, Move(c)
      PROVE  Alone' /\ ClaimHeld' /\ NotYet' /\ Spent' /\ Unborn'
  <2>1. CASE place[cand[c][1]] = cand[c][2]
    <3>1. cand[c] \in Duties \X Tags
        BY <1>6 DEF Move, Once, TypeOK
    <3>2. \E dir \in Terminal : Put(cand[c][1], dir)
        BY <1>6, <2>1 DEF Move, Terminal
    <3>3. cand[c][1] \in Duties /\ place[cand[c][1]] \in Tags
        BY <2>1, <3>1
    <3>4. UNCHANGED <<pc, duty, client, submits>>
        BY <1>6 DEF Move, worker, remote
    <3> QED
        BY <3>2, <3>3, <3>4, ClaimSettles DEF Engaged
  <2>2. CASE place[cand[c][1]] # cand[c][2]
      BY <1>1, <1>6, <2>2 DEF Move, worker, remote
  <2> QED
      BY <2>1, <2>2
<1>7. ASSUME NEW c \in Collectors, Collecting(c) \/ CrashCollector(c), ~Move(c) PROVE Same
    BY <1>7 DEF Collecting, Collect, CheckLease, CollectorDone, CheckStatus, StartFail,
         WriteFail, DropLease, CrashCollector, files, worker, remote
<1>8. CASE UNCHANGED vars
    BY <1>1, <1>8 DEF vars, files, worker, remote
<1> QED
    BY <1>1, <1>2, <1>3, <1>4, <1>5, <1>6, <1>7, <1>8 DEF Client

LEMMA OnceStep == Once /\ [Next]_vars => Once'
<1> SUFFICES ASSUME Once, [Next]_vars PROVE Once'
    OBVIOUS
<1>1. TypeOK'
    BY TypeStep DEF Once
<1>2. Alone' /\ ClaimHeld' /\ NotYet' /\ Spent' /\ Unborn'
    BY OnceClaiming, OnceRunning, OnceElsewhere DEF Next
<1> QED
    BY <1>1, <1>2 DEF Once

\* No duty is dispatched twice, whatever crashes, expires or is collected:
\* the lane avoids "an automatic replay of a remote job whose outcome is
\* ambiguous".
THEOREM DispatchedOnce == Spec => []AtMostOneSubmit
<1>1. Once => AtMostOneSubmit
    BY DEF Once, TypeOK, Spent, AtMostOneSubmit
<1> QED
    BY <1>1, OnceInit, OnceStep, PTL DEF Spec

-----------------------------------------------------------------------------
(* Nothing says success before a remote job has succeeded, and nothing is    *)
(* submitted before its dependencies have: knowledge of a success only       *)
(* spreads, from the job to its worker, to the status file, and from there.  *)

Won == {"win", "winning", "ackwin"}
Cleared == PreSubmit \ {"recheck", "putback"}

WorkerHonest(w) ==
  /\ job[w] # "none" => pc[w] \in PostSubmit \cup {"release"}
  /\ job[w] = "success" \/ pc[w] \in Won => duty[w] \in succeeded
  /\ pc[w] \in Cleared => Deps[duty[w]] \subseteq succeeded

CollectorHonest(c) == gc[c] = "movesuccess" => cand[c][1] \in succeeded

Honest ==
  /\ TypeOK
  /\ SuccessHonest
  /\ DependenciesFirst
  /\ \A w \in Workers : WorkerHonest(w)
  /\ \A c \in Collectors : CollectorHonest(c)

LEMMA HonestInit == Init => Honest
<1> SUFFICES ASSUME Init PROVE Honest
    OBVIOUS
<1>1. SuccessHonest /\ DependenciesFirst
    BY DEF Init, SuccessHonest, DependenciesFirst
<1>2. \A w \in Workers : WorkerHonest(w)
    BY StepFacts DEF Init, WorkerHonest, Won, Cleared
<1>3. \A c \in Collectors : CollectorHonest(c)
    BY DEF Init, CollectorHonest
<1> QED
    BY <1>1, <1>2, <1>3, TypeInit DEF Honest

\* A step that leaves the remote side, the clients and the collectors alone.
Local == UNCHANGED <<client, submits, succeeded, gc, cand>>

\* A worker's step changes what one worker knows, and the files it writes.
LEMMA HonestWorker ==
  ASSUME Honest, NEW w \in Workers, NEW next, Goto(w, next), Local,
         job' = job \/ job' = [job EXCEPT ![w] = "none"],
         duty' = duty \/ (job[w] = "none" /\ \E d \in Duties : duty' = [duty EXCEPT ![w] = d]),
         job'[w] # "none" => next \in PostSubmit \cup {"release"},
         next \in Won => duty' = duty /\ duty[w] \in succeeded,
         next \in Cleared => duty' = duty /\ Deps[duty[w]] \subseteq succeeded,
         status' = status \/ \E value : /\ Record(duty[w], value)
                                        /\ value = "success" => duty[w] \in succeeded,
         place' = place \/ \E dir : /\ Put(duty[w], dir)
                                    /\ dir = "success" => duty[w] \in succeeded
  PROVE  /\ SuccessHonest' /\ DependenciesFirst'
         /\ \A v \in Workers : WorkerHonest(v)'
         /\ \A c \in Collectors : CollectorHonest(c)'
<1> USE DEF Honest, TypeOK, Local
<1>1. \A d \in Duties : status'[d] = "success" => d \in succeeded
    BY DEF SuccessHonest, Record
<1>2. \A d \in Duties : place'[d] = "success" => d \in succeeded
    BY DEF SuccessHonest, Put
<1>3. SuccessHonest' /\ DependenciesFirst'
    BY <1>1, <1>2 DEF SuccessHonest, DependenciesFirst
<1>4. \A v \in Workers : v # w => WorkerHonest(v)'
  <2> SUFFICES ASSUME NEW v \in Workers, v # w PROVE WorkerHonest(v)'
      OBVIOUS
  <2>1. pc'[v] = pc[v] /\ job'[v] = job[v] /\ duty'[v] = duty[v] /\ WorkerHonest(v)
      BY DEF Goto
  <2> QED
      BY <2>1 DEF WorkerHonest
<1>5. WorkerHonest(w)'
  <2>1. pc'[w] = next
      BY DEF Goto
  <2>2. job'[w] = "success" => duty' = duty /\ duty[w] \in succeeded
      BY DEF WorkerHonest
  <2> QED
      BY <2>1, <2>2 DEF WorkerHonest
<1>6. \A c \in Collectors : CollectorHonest(c)'
    BY DEF CollectorHonest
<1> QED
    BY <1>3, <1>4, <1>5, <1>6

\* A worker that is about to submit, or does not run, has no remote job.
LEMMA NoJobYet ==
  ASSUME Honest, NEW w \in Workers, pc[w] \notin PostSubmit \cup {"release"}
  PROVE  job[w] = "none"
BY DEF Honest, WorkerHonest

LEMMA HonestClaiming ==
  ASSUME Honest, NEW w \in Workers, Claiming(w)
  PROVE  /\ SuccessHonest' /\ DependenciesFirst'
         /\ \A v \in Workers : WorkerHonest(v)'
         /\ \A c \in Collectors : CollectorHonest(c)'
<1>0. /\ {"idle", "scan", "claim", "recheck", "putback"} \cap (Won \cup Cleared) = {}
      /\ {"idle", "scan", "claim", "recheck", "putback"} \cap (PostSubmit \cup {"release"}) = {}
      /\ "queue" \notin Won
    BY DEF Won, Cleared, PreSubmit, PostSubmit
<1>1. job[w] = "none" /\ job' = job /\ Local /\ status' = status
    BY <1>0, NoJobYet
    DEF Claiming, List, Preview, NothingToClaim, Claim, Recheck, PutBack, Requeue, At,
        Local, files, remote, collector
<1>2. CASE List(w) \/ NothingToClaim(w)
    BY <1>0, <1>1, <1>2, HonestWorker DEF List, NothingToClaim, files
<1>3. CASE Preview(w)
  <2>1. PICK d \in scan[w] :
          IF place[d] = "input" /\ ~Ready(d)
          THEN UNCHANGED <<pc, duty>>
          ELSE duty' = [duty EXCEPT ![w] = d] /\ Goto(w, "claim")
      BY <1>3 DEF Preview
  <2>2. d \in Duties /\ place' = place
      BY <1>3 DEF Preview, Honest, TypeOK, files
  <2>3. CASE UNCHANGED <<pc, duty>>
      BY <1>1, <2>2, <2>3
      DEF Honest, Local, SuccessHonest, DependenciesFirst, WorkerHonest, CollectorHonest
  <2>4. CASE duty' = [duty EXCEPT ![w] = d] /\ Goto(w, "claim")
      BY <1>0, <1>1, <2>2, <2>4, HonestWorker
  <2> QED
      BY <2>1, <2>3, <2>4
<1>4. CASE Claim(w)
  <2>1. Tag[w] # "success" /\ duty' = duty
      BY <1>4, TagFacts DEF Claim, Dirs
  <2>2. CASE place[duty[w]] = "input"
    <3>1. Put(duty[w], Tag[w]) /\ Goto(w, "recheck")
        BY <1>4, <2>2 DEF Claim
    <3> QED
        BY <1>0, <1>1, <2>1, <3>1, HonestWorker
  <2>3. CASE place[duty[w]] # "input"
      BY <1>0, <1>1, <1>4, <2>3, HonestWorker DEF Claim
  <2> QED
      BY <2>2, <2>3
<1>5. CASE Recheck(w)
  <2>1. duty' = duty /\ place' = place
      BY <1>5 DEF Recheck, files
  <2>2. CASE HasClaim(w) /\ Ready(duty[w])
    <3>1. Deps[duty[w]] \subseteq succeeded
      <4>1. Deps[duty[w]] \subseteq Duties
          BY DepsAssumption DEF Honest, TypeOK
      <4> QED
          BY <2>2, <4>1 DEF Ready, Honest, SuccessHonest
    <3>2. Goto(w, "queue")
        BY <1>5, <2>2 DEF Recheck
    <3> QED
        BY <1>0, <1>1, <2>1, <3>1, <3>2, HonestWorker
  <2>3. CASE ~(HasClaim(w) /\ Ready(duty[w]))
    <3>1. Goto(w, "idle") \/ Goto(w, "putback")
        BY <1>5, <2>3 DEF Recheck
    <3> QED
        BY <1>0, <1>1, <2>1, <3>1, HonestWorker
  <2> QED
      BY <2>2, <2>3
<1>6. CASE PutBack(w)
  <2>1. /\ Goto(w, "scan") \/ Goto(w, "idle")
        /\ place' = place \/ Put(duty[w], "input")
        /\ duty' = duty
      BY <1>6 DEF PutBack, Requeue
  <2> QED
      BY <1>0, <1>1, <2>1, HonestWorker
<1> QED
    BY <1>2, <1>3, <1>4, <1>5, <1>6 DEF Claiming

LEMMA HonestRunning ==
  ASSUME Honest, NEW w \in Workers, Running(w) \/ Polling(w)
  PROVE  /\ SuccessHonest' /\ DependenciesFirst'
         /\ \A v \in Workers : WorkerHonest(v)'
         /\ \A c \in Collectors : CollectorHonest(c)'
<1> DEFINE Before == {"queue", "queueing", "lease", "leasing", "busy", "run", "running", "submit"}
           After == {"poll", "beating", "lose", "losing", "acklose", "catch", "catching",
                     "ackcatch", "release"}
<1>0. /\ Cleared = Before
      /\ PostSubmit \cup {"release"} = After \cup Won
      /\ Before \cap (After \cup Won) = {} /\ After \cap Won = {}
      /\ "idle" \notin Before \cup After \cup Won
    BY DEF Won, Cleared, PreSubmit, PostSubmit
<1>1. /\ pc[w] \in Before => job[w] = "none" /\ Deps[duty[w]] \subseteq succeeded
      /\ pc[w] \in Won => duty[w] \in succeeded
    BY <1>0, NoJobYet DEF Honest, WorkerHonest
<1> HIDE DEF Before, After
<1>2. ASSUME pc[w] \in Before, NEW next \in Before \cup {"idle"}, Goto(w, next),
             UNCHANGED <<job, duty>>, Local,
             status' = status \/ \E value : Record(duty[w], value) /\ value # "success",
             place' = place \/ Put(duty[w], "input")
      PROVE  /\ SuccessHonest' /\ DependenciesFirst'
             /\ \A v \in Workers : WorkerHonest(v)'
             /\ \A c \in Collectors : CollectorHonest(c)'
    BY <1>0, <1>1, <1>2, HonestWorker
<1>3. ASSUME pc[w] \in After \cup Won, NEW next \in After \cup Won, Goto(w, next),
             next \in Won => duty[w] \in succeeded,
             UNCHANGED <<job, duty>>, Local,
             status' = status \/ \E value : /\ Record(duty[w], value)
                                            /\ value = "success" => duty[w] \in succeeded,
             place' = place \/ \E dir : /\ Put(duty[w], dir)
                                        /\ dir = "success" => duty[w] \in succeeded
      PROVE  /\ SuccessHonest' /\ DependenciesFirst'
             /\ \A v \in Workers : WorkerHonest(v)'
             /\ \A c \in Collectors : CollectorHonest(c)'
    BY <1>0, <1>3, HonestWorker
<1>4. CASE MarkQueued(w) \/ MarkRunning(w)
    BY <1>2, <1>4
    DEF MarkQueued, MarkRunning, StartWrite, FinishWrite, Truncate, Record, At, Before,
        Local, remote, collector
<1>5. CASE AcquireLease(w)
  <2>1. /\ pc[w] \in Before /\ UNCHANGED <<job, duty, status, place>> /\ Local
        /\ pc' = pc \/ \E next \in {"leasing", "run", "busy"} : Goto(w, next)
      BY <1>5 DEF AcquireLease, At, Before, Local, remote, collector
  <2>2. CASE pc' = pc
      BY <2>1, <2>2
      DEF Honest, Local, SuccessHonest, DependenciesFirst, WorkerHonest, CollectorHonest
  <2>3. ASSUME NEW next \in {"leasing", "run", "busy"}, Goto(w, next)
        PROVE  next \in Before
      BY DEF Before
  <2> QED
      BY <1>2, <2>1, <2>2, <2>3
<1>6. CASE WriteLease(w)
    BY <1>2, <1>6 DEF WriteLease, At, Before, Local, remote, collector
<1>7. CASE WriteHeartbeat(w) \/ StartHeartbeat(w)
    BY <1>0, <1>3, <1>7
    DEF WriteHeartbeat, StartHeartbeat, At, After, Local, remote, collector
<1>8. CASE Busy(w)
    BY <1>2, <1>8 DEF Busy, Requeue, At, Before, Local, remote, collector
<1>9. CASE SubmitJob(w)
  <2>1. /\ pc[w] \in Before
        /\ UNCHANGED <<files, client, duty, succeeded, gc, cand>>
        /\ \/ Goto(w, "poll") /\ job' = [job EXCEPT ![w] = "live"]
           \/ Goto(w, "catch") /\ job' = job
        /\ submits' = submits \/ submits' = [submits EXCEPT ![duty[w]] = @ + 1]
      BY <1>9 DEF SubmitJob, At, Before, collector
  <2> USE DEF Honest, TypeOK
  <2>2. SuccessHonest'
      BY <2>1 DEF SuccessHonest, files
  <2>3. DependenciesFirst'
      BY <1>1, <2>1 DEF DependenciesFirst
  <2>4. {"poll", "catch"} \subseteq After
      BY DEF After
  <2>5. \A v \in Workers : WorkerHonest(v)'
    <3> SUFFICES ASSUME NEW v \in Workers PROVE WorkerHonest(v)'
        OBVIOUS
    <3>1. CASE v = w
        BY <1>0, <1>1, <2>1, <2>4, <3>1 DEF WorkerHonest, Goto
    <3>2. CASE v # w
        BY <2>1, <3>2 DEF WorkerHonest, Goto
    <3> QED
        BY <3>1, <3>2
  <2>6. \A c \in Collectors : CollectorHonest(c)'
      BY <2>1 DEF CollectorHonest
  <2> QED
      BY <2>2, <2>3, <2>5, <2>6
<1>10. CASE PollEnds(w)
  <2>1. /\ UNCHANGED <<job, duty, status, place>> /\ Local /\ pc[w] \in After
        /\ \/ Goto(w, "win") /\ job[w] = "success"
           \/ Goto(w, "lose") \/ Goto(w, "catch")
      BY <1>10 DEF PollEnds, At, After, Local, files, remote, collector
  <2>2. job[w] = "success" => duty[w] \in succeeded
      BY DEF Honest, WorkerHonest
  <2>3. "win" \in Won /\ "lose" \in After /\ "catch" \in After
      BY DEF Won, After
  <2> QED
      BY <1>0, <1>3, <2>1, <2>2, <2>3
<1>11. CASE Succeed(w)
  <2>1. /\ UNCHANGED <<job, duty>> /\ Local /\ pc[w] \in Won
        /\ \E next \in {"winning", "ackwin", "catch", "release"} : Goto(w, next)
        /\ status' = status \/ \E value : Record(duty[w], value)
        /\ place' = place \/ \E dir : Put(duty[w], dir)
      BY <1>11
      DEF Succeed, StartTerminal, FinishWrite, Acknowledge, At, Won, Local, remote,
          collector, Truncate, Record
  <2>2. {"winning", "ackwin", "catch", "release"} \subseteq After \cup Won
      BY DEF After, Won
  <2> QED
      BY <1>1, <1>3, <2>1, <2>2
<1>12. CASE Fail(w) \/ Catch(w)
  <2>1. /\ UNCHANGED <<job, duty>> /\ Local /\ pc[w] \in After
        /\ \E next \in {"losing", "acklose", "catch", "catching", "ackcatch", "release"} :
             Goto(w, next)
        /\ status' = status \/ \E value : Record(duty[w], value) /\ value # "success"
        /\ place' = place \/ \E dir : Put(duty[w], dir) /\ dir # "success"
      BY <1>12
      DEF Fail, Catch, StartTerminal, FinishWrite, Acknowledge, At, After, Local, remote,
          collector, Truncate, Record
  <2>2. {"losing", "acklose", "catch", "catching", "ackcatch", "release"} \subseteq After
      BY DEF After
  <2> QED
      BY <1>0, <1>3, <2>1, <2>2
<1>13. CASE Release(w)
  <2>1. /\ Goto(w, "idle") /\ job' = [job EXCEPT ![w] = "none"] /\ Local
        /\ UNCHANGED <<duty, status, place>>
      BY <1>13 DEF Release, Local, remote, collector
  <2>2. job'[w] = "none"
      BY <2>1 DEF Honest, TypeOK
  <2> QED
      BY <1>0, <2>1, <2>2, HonestWorker
<1> QED
    BY <1>4, <1>5, <1>6, <1>7, <1>8, <1>9, <1>10, <1>11, <1>12, <1>13 DEF Running, Polling

LEMMA HonestElsewhere ==
  ASSUME Honest,
         \/ \E d \in Duties : Client(d) \/ Age(d) \/ Expire(d)
         \/ \E w \in Workers : RemoteEnds(w) \/ CrashWorker(w) \/ RestartWorker(w)
         \/ \E c \in Collectors : Collecting(c) \/ CrashCollector(c)
         \/ UNCHANGED vars
  PROVE  /\ SuccessHonest' /\ DependenciesFirst'
         /\ \A v \in Workers : WorkerHonest(v)'
         /\ \A c \in Collectors : CollectorHonest(c)'
<1> DEFINE Goal == /\ SuccessHonest' /\ DependenciesFirst'
                   /\ \A v \in Workers : WorkerHonest(v)'
                   /\ \A c \in Collectors : CollectorHonest(c)'
           Quiet == /\ UNCHANGED <<pc, duty, job, submits, succeeded>>
                    /\ \A d \in Duties : \/ client'[d] # "success"
                                         \/ client'[d] = client[d]
                                         \/ client'[d] = status[d]
                    /\ \A d \in Duties : status'[d] # "success" \/ status'[d] = status[d]
                    /\ \A d \in Duties : \/ place'[d] # "success"
                                         \/ place'[d] = place[d]
                                         \/ d \in succeeded
                    /\ \A c \in Collectors :
                         gc'[c] = "movesuccess" => /\ cand'[c] = cand[c]
                                                   /\ \/ gc[c] = "movesuccess"
                                                      \/ /\ status[cand[c][1]] = "success"
                                                         /\ cand[c][1] \in Duties
<1>1. ASSUME Quiet PROVE Goal
  <2>1. SuccessHonest'
      BY <1>1 DEF Honest, SuccessHonest
  <2>2. DependenciesFirst' /\ \A v \in Workers : WorkerHonest(v)'
      BY <1>1 DEF Honest, DependenciesFirst, WorkerHonest
  <2>3. \A c \in Collectors : CollectorHonest(c)'
      BY <1>1 DEF Honest, CollectorHonest, SuccessHonest
  <2> QED
      BY <2>1, <2>2, <2>3
<1>2. ASSUME NEW d \in Duties, Client(d) \/ Age(d) \/ Expire(d) PROVE Quiet
  <2> USE DEF Honest, TypeOK, files, worker, remote, collector
  <2>1. CASE Enqueue(d) \/ StartQueued(d) \/ WriteQueued(d)
      BY <2>1 DEF Enqueue, StartQueued, WriteQueued, Put, Truncate, Record
  <2>2. CASE Await(d)
      BY <2>2 DEF Await
  <2>3. CASE Age(d) \/ Expire(d)
      BY <2>3 DEF Age, Expire
  <2> QED
      BY <1>2, <2>1, <2>2, <2>3 DEF Client
<1>3. ASSUME NEW w \in Workers, RemoteEnds(w) PROVE Goal
  <2> USE DEF Honest, TypeOK
  <2>1. /\ UNCHANGED <<status, place, client, submits, gc, cand, pc, duty>>
        /\ succeeded \subseteq succeeded'
        /\ \/ job' = [job EXCEPT ![w] = "success"] /\ duty[w] \in succeeded'
           \/ job' = [job EXCEPT ![w] = "fail"]
        /\ job[w] = "live"
      BY <1>3 DEF RemoteEnds, files, collector
  <2>2. SuccessHonest' /\ DependenciesFirst' /\ \A c \in Collectors : CollectorHonest(c)'
      BY <2>1 DEF SuccessHonest, DependenciesFirst, CollectorHonest
  <2>3. \A v \in Workers : WorkerHonest(v)'
      BY <2>1 DEF WorkerHonest
  <2> QED
      BY <2>2, <2>3
<1>4. ASSUME NEW w \in Workers, CrashWorker(w) \/ RestartWorker(w) PROVE Goal
  <2>1. {"idle", "down"} \cap (Won \cup Cleared \cup PostSubmit \cup {"release"}) = {}
      BY DEF Won, Cleared, PreSubmit, PostSubmit
  <2>2. CASE CrashWorker(w)
    <3>1. job'[w] = "none"
        BY <2>2 DEF CrashWorker, Honest, TypeOK
    <3> QED
        BY <2>1, <2>2, <3>1, HonestWorker
        DEF CrashWorker, Local, files, remote, collector
  <2>3. CASE RestartWorker(w)
    <3>1. job'[w] = "none"
        BY <2>1, <2>3, NoJobYet DEF RestartWorker, At, PostSubmit
    <3> QED
        BY <2>1, <2>3, <3>1, HonestWorker
        DEF RestartWorker, Local, files, remote, collector
  <2> QED
      BY <1>4, <2>2, <2>3
<1>5. ASSUME NEW c \in Collectors, Collecting(c) \/ CrashCollector(c) PROVE Quiet
  <2> USE DEF Honest, TypeOK, files, worker, remote, Step
  <2>1. CASE Collect(c) \/ CheckLease(c)
      BY <2>1 DEF Collect, CheckLease
  <2>2. CASE CollectorDone(c) \/ CrashCollector(c)
      BY <2>2 DEF CollectorDone, CrashCollector, Quit
  <2>3. CASE CheckStatus(c)
    <3>1. cand[c][1] \in Duties
        BY <2>3 DEF CheckStatus
    <3> QED
        BY <2>3, <3>1 DEF CheckStatus
  <2>4. CASE StartFail(c) \/ WriteFail(c)
      BY <2>4 DEF StartFail, WriteFail, Truncate, Record
  <2>5. CASE Move(c)
    <3>1. UNCHANGED <<pc, duty, job, submits, succeeded, client, status>>
        BY <2>5 DEF Move
    <3>2. \A d \in Duties : place'[d] # "success" \/ place'[d] = place[d] \/ d \in succeeded
        BY <2>5 DEF Move, Put, CollectorHonest
    <3>3. \A e \in Collectors : gc'[e] = "movesuccess" => cand'[e] = cand[e] /\ gc[e] = "movesuccess"
        BY <2>5 DEF Move, Quit
    <3> QED
        BY <3>1, <3>2, <3>3
  <2>6. CASE DropLease(c)
      BY <2>6 DEF DropLease
  <2> QED
      BY <1>5, <2>1, <2>2, <2>3, <2>4, <2>5, <2>6 DEF Collecting
<1>6. CASE UNCHANGED vars
    BY <1>1, <1>6 DEF vars, files, worker, remote, collector
<1> QED
    BY <1>1, <1>2, <1>3, <1>4, <1>5, <1>6

LEMMA HonestStep == Honest /\ [Next]_vars => Honest'
<1> SUFFICES ASSUME Honest, [Next]_vars PROVE Honest'
    OBVIOUS
<1>1. TypeOK'
    BY TypeStep DEF Honest
<1>2. /\ SuccessHonest' /\ DependenciesFirst'
      /\ \A v \in Workers : WorkerHonest(v)'
      /\ \A c \in Collectors : CollectorHonest(c)'
    BY HonestClaiming, HonestRunning, HonestElsewhere DEF Next
<1> QED
    BY <1>1, <1>2 DEF Honest

\* An answer, a status or a place that says success is backed by a remote job
\* that succeeded, though statuses are torn and rewritten by three parties.
THEOREM SuccessIsHonest == Spec => []SuccessHonest
<1>1. Honest => SuccessHonest
    BY DEF Honest
<1> QED
    BY <1>1, HonestInit, HonestStep, PTL DEF Spec

\* A duty is submitted only after its dependencies' jobs have succeeded.
THEOREM DependenciesComeFirst == Spec => []DependenciesFirst
<1>1. Honest => DependenciesFirst
    BY DEF Honest
<1> QED
    BY <1>1, HonestInit, HonestStep, PTL DEF Spec

-----------------------------------------------------------------------------
(* An envelope is settled once.                                             *)

LEMMA StaysSettled ==
  ASSUME Once, Next, NEW d \in Duties, place[d] \in Terminal
  PROVE  place'[d] = place[d]
<1> USE DEF Once, TypeOK
<1>0. place[d] \notin Tags /\ place[d] \notin {"input", "none"}
    BY TagFacts, StepFacts DEF Terminal
<1>1. ASSUME NEW e \in Duties, Client(e) \/ Age(e) \/ Expire(e)
      PROVE  place'[d] = place[d]
    BY <1>0, <1>1
    DEF Client, Enqueue, StartQueued, WriteQueued, Await, Age, Expire, Put, Unborn, files
<1>2. ASSUME NEW w \in Workers, Claiming(w)
      PROVE  place'[d] = place[d]
    BY <1>0, <1>2, TagFacts
    DEF Claiming, List, Preview, NothingToClaim, Claim, Recheck, PutBack, Requeue,
        HasClaim, Put, files
<1>3. ASSUME NEW w \in Workers, NEW step, NEW dir, NEW thrown, Acknowledge(w, step, dir, thrown)
      PROVE  place'[d] = place[d]
    BY <1>0, <1>3, TagFacts DEF Acknowledge, HasClaim, Put
<1>4. ASSUME NEW w \in Workers, Succeed(w) \/ Fail(w) \/ Catch(w)
      PROVE  place'[d] = place[d]
    BY <1>3, <1>4 DEF Succeed, Fail, Catch, StartTerminal, FinishWrite
<1>5. ASSUME NEW w \in Workers, Running(w) \/ Polling(w)
      PROVE  place'[d] = place[d]
  <2>1. CASE Busy(w)
      BY <1>0, <2>1, TagFacts DEF Busy, Requeue, HasClaim, Put
  <2> QED
      BY <1>4, <1>5, <2>1
      DEF Running, Polling, MarkQueued, MarkRunning, StartWrite, FinishWrite, AcquireLease,
          WriteLease, SubmitJob, PollEnds, WriteHeartbeat, StartHeartbeat, Release, files
<1>6. ASSUME NEW w \in Workers, RemoteEnds(w) \/ CrashWorker(w) \/ RestartWorker(w)
      PROVE  place'[d] = place[d]
    BY <1>6 DEF RemoteEnds, CrashWorker, RestartWorker, files
<1>7. ASSUME NEW c \in Collectors, Move(c)
      PROVE  place'[d] = place[d]
  <2>1. cand[c] \in Duties \X Tags
      BY <1>7 DEF Move
  <2>2. CASE place[cand[c][1]] = cand[c][2]
    <3>1. cand[c][1] # d
        BY <1>0, <2>1, <2>2
    <3> QED
        BY <1>7, <2>2, <3>1 DEF Move, Put
  <2>3. CASE place[cand[c][1]] # cand[c][2]
      BY <1>7, <2>3 DEF Move
  <2> QED
      BY <2>2, <2>3
<1>8. ASSUME NEW c \in Collectors, Collecting(c) \/ CrashCollector(c)
      PROVE  place'[d] = place[d]
    BY <1>7, <1>8
    DEF Collecting, Collect, CheckLease, CollectorDone, CheckStatus, StartFail, WriteFail,
        DropLease, CrashCollector, files
<1> QED
    BY <1>1, <1>2, <1>5, <1>6, <1>8 DEF Next

\* No worker, collector or client moves an envelope out of produce/success or
\* produce/fail.
THEOREM SettledForGood == Spec => SettledStays
<1>1. Once /\ [Next]_vars
      => [\A d \in Duties : place[d] \in Terminal => place'[d] = place[d]]_vars
    BY StaysSettled
<1> QED
    BY <1>1, OnceInit, OnceStep, PTL DEF Spec, SettledStays

-----------------------------------------------------------------------------
(* The lane is DutyLife.  Every step is classified by what it does to one    *)
(* duty's envelope, job or answer; most do nothing to any.                   *)

\* What a client knows changes, but neither its start nor its answer.
SameClient(d) ==
  \/ client'[d] = client[d]
  \/ client[d] \notin {"new"} \cup Terminal /\ client'[d] \notin {"new"} \cup Terminal

Quiet == UNCHANGED <<place, submits, succeeded>> /\ \A d \in Duties : SameClient(d)

Queued(d) ==
  /\ client[d] = "new" /\ client' = [client EXCEPT ![d] = "enqueued"]
  /\ Put(d, "input")
  /\ UNCHANGED <<submits, succeeded>>

Moved(d, dir) == Put(d, dir) /\ UNCHANGED <<submits, succeeded, client>>

Claimed(d) == place[d] = "input" /\ \E t \in Tags : Moved(d, t)

GivenBack(d) == place[d] \in Tags /\ submits[d] = 0 /\ Moved(d, "input")

Settled(d) == place[d] \in Tags /\ \E dir \in Terminal : Moved(d, dir)

Sent(d) ==
  /\ submits[d] = 0 /\ submits' = [submits EXCEPT ![d] = 1]
  /\ place[d] \in Tags \cup Terminal
  /\ Deps[d] \subseteq succeeded
  /\ UNCHANGED <<place, succeeded, client>>

Done(d) ==
  /\ \E w \in Workers : job[w] # "none" /\ duty[w] = d
  /\ succeeded' = succeeded \cup {d}
  /\ UNCHANGED <<place, submits, client>>

Answered(d) ==
  /\ client[d] = "awaiting" /\ status[d] \in Terminal
  /\ client' = [client EXCEPT ![d] = status[d]]
  /\ UNCHANGED <<place, submits, succeeded>>

LifeStep ==
  \/ Quiet
  \/ \E d \in Duties :
       \/ Queued(d) \/ Claimed(d) \/ GivenBack(d) \/ Settled(d)
       \/ Sent(d) \/ Done(d) \/ Answered(d)

LEMMA LifeClient ==
  ASSUME Once, NEW d \in Duties, Client(d) \/ Age(d) \/ Expire(d)
  PROVE  LifeStep
<1> USE DEF Once, TypeOK
<1>1. CASE Enqueue(d)
    BY <1>1 DEF Enqueue, Queued, LifeStep, remote
<1>2. CASE StartQueued(d) \/ WriteQueued(d)
    BY <1>2 DEF StartQueued, WriteQueued, Quiet, SameClient, LifeStep, remote, Terminal
<1>3. CASE Await(d)
    BY <1>3 DEF Await, Answered, LifeStep, remote, files
<1>4. CASE Age(d) \/ Expire(d)
    BY <1>4 DEF Age, Expire, Quiet, SameClient, LifeStep, remote, files
<1> QED
    BY <1>1, <1>2, <1>3, <1>4 DEF Client

LEMMA LifeWorker ==
  ASSUME Once, Honest, NEW w \in Workers,
         Claiming(w) \/ Running(w) \/ Polling(w)
  PROVE  LifeStep
<1> USE DEF Once, TypeOK
<1>q. ASSUME UNCHANGED <<place, submits, succeeded, client>> PROVE LifeStep
    BY <1>q DEF LifeStep, Quiet, SameClient
<1>d. duty[w] \in Duties /\ Tag[w] \in Tags
    BY TagFacts
<1>1. ASSUME NEW step \in PreSubmit, NEW next, Requeue(w, step, next) PROVE LifeStep
  <2>1. CASE HasClaim(w)
    <3>1. submits[duty[w]] = 0
        BY <1>1 DEF Requeue, At, NotYet
    <3>2. GivenBack(duty[w])
        BY <1>1, <1>d, <2>1, <3>1 DEF Requeue, GivenBack, Moved, HasClaim, remote
    <3> QED
        BY <1>d, <3>2 DEF LifeStep
  <2>2. CASE ~HasClaim(w)
      BY <1>1, <1>q, <2>2 DEF Requeue, remote
  <2> QED
      BY <2>1, <2>2
<1>2. CASE Claiming(w)
  <2>1. CASE Claim(w)
    <3>1. CASE place[duty[w]] = "input"
      <4>1. Claimed(duty[w])
          BY <1>d, <2>1, <3>1 DEF Claim, Claimed, Moved, remote
      <4> QED
          BY <1>d, <4>1 DEF LifeStep
    <3>2. CASE place[duty[w]] # "input"
        BY <1>q, <2>1, <3>2 DEF Claim, remote
    <3> QED
        BY <3>1, <3>2
  <2>2. CASE PutBack(w)
      BY <1>1, <2>2 DEF PutBack, PreSubmit
  <2>3. CASE List(w) \/ Preview(w) \/ NothingToClaim(w) \/ Recheck(w)
      BY <1>q, <2>3 DEF List, Preview, NothingToClaim, Recheck, files, remote
  <2> QED
      BY <1>2, <2>1, <2>2, <2>3 DEF Claiming
<1>3. ASSUME NEW step, NEW dir \in Terminal, NEW thrown, Acknowledge(w, step, dir, thrown)
      PROVE  LifeStep
  <2>1. CASE HasClaim(w)
    <3>1. Settled(duty[w])
        BY <1>3, <1>d, <2>1 DEF Acknowledge, Settled, Moved, HasClaim, remote
    <3> QED
        BY <1>d, <3>1 DEF LifeStep
  <2>2. CASE ~HasClaim(w)
      BY <1>3, <1>q, <2>2 DEF Acknowledge, remote
  <2> QED
      BY <2>1, <2>2
<1>4. CASE Succeed(w) \/ Fail(w) \/ Catch(w)
  <2>1. "success" \in Terminal /\ "fail" \in Terminal
      BY DEF Terminal
  <2>2. \/ Acknowledge(w, "ackwin", "success", "catch")
        \/ Acknowledge(w, "acklose", "fail", "catch")
        \/ Acknowledge(w, "ackcatch", "fail", "release")
        \/ UNCHANGED <<place, submits, succeeded, client>>
      BY <1>4 DEF Succeed, Fail, Catch, StartTerminal, FinishWrite, remote
  <2> QED
      BY <1>3, <1>q, <2>1, <2>2
<1>5. CASE SubmitJob(w)
  <2>1. /\ UNCHANGED <<place, succeeded, client>>
        /\ submits' = submits \/ submits' = [submits EXCEPT ![duty[w]] = @ + 1]
        /\ pc[w] = "submit"
      BY <1>5 DEF SubmitJob, At, files
  <2>2. "submit" \in PreSubmit /\ "submit" \in Cleared
      BY DEF PreSubmit, Cleared
  <2>3. submits[duty[w]] = 0 /\ Deps[duty[w]] \subseteq succeeded
      BY <2>1, <2>2 DEF NotYet, Honest, WorkerHonest
  <2>4. place[duty[w]] \in Tags \cup Terminal
      BY <1>d, <2>1, <2>2 DEF ClaimHeld, Engaged
  <2>5. CASE submits' = submits
      BY <1>q, <2>1, <2>5
  <2>6. CASE submits' = [submits EXCEPT ![duty[w]] = @ + 1]
    <3>1. submits' = [submits EXCEPT ![duty[w]] = 1]
        BY <2>3, <2>6
    <3>2. Sent(duty[w])
        BY <2>1, <2>3, <2>4, <3>1 DEF Sent
    <3> QED
        BY <1>d, <3>2 DEF LifeStep
  <2> QED
      BY <2>1, <2>5, <2>6
<1>6. CASE Busy(w)
    BY <1>1, <1>6 DEF Busy, PreSubmit
<1>7. CASE \/ MarkQueued(w) \/ AcquireLease(w) \/ WriteLease(w) \/ MarkRunning(w)
           \/ WriteHeartbeat(w) \/ Release(w) \/ Polling(w)
    BY <1>q, <1>7
    DEF MarkQueued, AcquireLease, WriteLease, MarkRunning, StartWrite, FinishWrite,
        WriteHeartbeat, Release, Polling, PollEnds, StartHeartbeat, files, remote
<1> QED
    BY <1>2, <1>4, <1>5, <1>6, <1>7 DEF Running

LEMMA LifeElsewhere ==
  ASSUME Once,
         \/ \E w \in Workers : RemoteEnds(w) \/ CrashWorker(w) \/ RestartWorker(w)
         \/ \E c \in Collectors : Collecting(c) \/ CrashCollector(c)
         \/ UNCHANGED vars
  PROVE  LifeStep
<1> USE DEF Once, TypeOK
<1>q. ASSUME UNCHANGED <<place, submits, succeeded, client>> PROVE LifeStep
    BY <1>q DEF LifeStep, Quiet, SameClient
<1>1. ASSUME NEW w \in Workers, RemoteEnds(w) PROVE LifeStep
  <2>1. UNCHANGED <<place, submits, client>> /\ job[w] # "none" /\ duty[w] \in Duties
      BY <1>1 DEF RemoteEnds, files
  <2>2. succeeded' = succeeded \/ succeeded' = succeeded \cup {duty[w]}
      BY <1>1 DEF RemoteEnds
  <2>3. CASE succeeded' = succeeded \cup {duty[w]}
      BY <2>1, <2>3 DEF Done, LifeStep
  <2> QED
      BY <1>q, <2>1, <2>2, <2>3
<1>2. ASSUME NEW w \in Workers, CrashWorker(w) \/ RestartWorker(w) PROVE LifeStep
    BY <1>q, <1>2 DEF CrashWorker, RestartWorker, files, remote
<1>3. ASSUME NEW c \in Collectors, Move(c) PROVE LifeStep
  <2>1. cand[c] \in Duties \X Tags /\ UNCHANGED <<submits, succeeded, client>>
      BY <1>3 DEF Move, worker, remote
  <2>2. CASE place[cand[c][1]] = cand[c][2]
    <3>1. \E dir \in Terminal : Put(cand[c][1], dir)
        BY <1>3, <2>2 DEF Move, Terminal
    <3>2. Settled(cand[c][1]) /\ cand[c][1] \in Duties
        BY <2>1, <2>2, <3>1 DEF Settled, Moved
    <3> QED
        BY <3>2 DEF LifeStep
  <2>3. CASE place[cand[c][1]] # cand[c][2]
      BY <1>3, <1>q, <2>1, <2>3 DEF Move
  <2> QED
      BY <2>2, <2>3
<1>4. ASSUME NEW c \in Collectors, Collecting(c) \/ CrashCollector(c), ~Move(c) PROVE LifeStep
    BY <1>q, <1>4
    DEF Collecting, Collect, CheckLease, CollectorDone, CheckStatus, StartFail, WriteFail,
        DropLease, CrashCollector, files, remote
<1>5. CASE UNCHANGED vars
    BY <1>q, <1>5 DEF vars, files, remote
<1> QED
    BY <1>1, <1>2, <1>3, <1>4, <1>5

LEMMA LifeCases ==
  ASSUME Once, Honest, [Next]_vars
  PROVE  LifeStep
BY LifeClient, LifeWorker, LifeElsewhere DEF Next

\* Whose job is polled, or has succeeded, was submitted; a started duty has an
\* envelope somewhere.
Backed ==
  /\ \A w \in Workers : job[w] # "none" => submits[duty[w]] = 1
  /\ \A d \in succeeded : submits[d] = 1
  /\ \A d \in Duties : client[d] # "new" => place[d] # "none"

LifeInv == Once /\ Honest /\ Backed

\* A worker polls a job it polled before, or the one it has just submitted.
LEMMA JobSteps ==
  ASSUME Once, Honest, [Next]_vars, NEW v \in Workers, job'[v] # "none"
  PROVE  /\ duty'[v] = duty[v]
         /\ job[v] # "none" \/ submits'[duty[v]] = submits[duty[v]] + 1
<1> USE DEF Once, TypeOK
<1>1. ASSUME UNCHANGED <<job, duty>> PROVE duty'[v] = duty[v] /\ job[v] # "none"
    BY <1>1
<1>2. ASSUME NEW d \in Duties, Client(d) \/ Age(d) \/ Expire(d) PROVE UNCHANGED <<job, duty>>
    BY <1>2
    DEF Client, Enqueue, StartQueued, WriteQueued, Await, Age, Expire, worker
<1>3. ASSUME NEW w \in Workers, Preview(w) PROVE duty'[v] = duty[v] /\ job[v] # "none"
  <2>1. pc[w] \notin PostSubmit \cup {"release"}
      BY <1>3 DEF Preview, At, PostSubmit
  <2>2. job[w] = "none" /\ job' = job
      BY <1>3, <2>1, NoJobYet DEF Preview
  <2>3. v # w
      BY <2>2
  <2> QED
      BY <1>3, <2>2, <2>3 DEF Preview
<1>4. ASSUME NEW w \in Workers, Claiming(w), ~Preview(w) PROVE UNCHANGED <<job, duty>>
    BY <1>4 DEF Claiming, List, NothingToClaim, Claim, Recheck, PutBack, Requeue
<1>5. ASSUME NEW w \in Workers, SubmitJob(w)
      PROVE  /\ duty'[v] = duty[v]
             /\ job[v] # "none" \/ submits'[duty[v]] = submits[duty[v]] + 1
    BY <1>5 DEF SubmitJob
<1>6. ASSUME NEW w \in Workers, Release(w) \/ RemoteEnds(w) \/ CrashWorker(w)
      PROVE  duty'[v] = duty[v] /\ job[v] # "none"
    BY <1>6 DEF Release, RemoteEnds, CrashWorker
<1>7. ASSUME NEW w \in Workers, Running(w) \/ Polling(w) \/ RestartWorker(w),
             ~SubmitJob(w), ~Release(w)
      PROVE  UNCHANGED <<job, duty>>
    BY <1>7
    DEF Running, MarkQueued, AcquireLease, WriteLease, Busy, Requeue, MarkRunning,
        WriteHeartbeat, Succeed, Fail, Catch, StartWrite, FinishWrite, StartTerminal,
        Acknowledge, Polling, PollEnds, StartHeartbeat, RestartWorker, remote
<1>8. ASSUME NEW c \in Collectors, Collecting(c) \/ CrashCollector(c)
      PROVE  UNCHANGED <<job, duty>>
    BY <1>8
    DEF Collecting, Collect, CheckLease, CollectorDone, CheckStatus, StartFail, WriteFail,
        Move, DropLease, CrashCollector, worker
<1>9. CASE UNCHANGED vars
    BY <1>9 DEF vars, worker
<1> QED
    BY <1>1, <1>2, <1>3, <1>4, <1>5, <1>6, <1>7, <1>8, <1>9 DEF Next

LEMMA LifeInvInit == Init => LifeInv
BY OnceInit, HonestInit DEF Init, LifeInv, Backed

LEMMA LifeInvStep == LifeInv /\ [Next]_vars => LifeInv'
<1> SUFFICES ASSUME LifeInv, [Next]_vars PROVE LifeInv'
    OBVIOUS
<1>1. Once' /\ Honest'
    BY OnceStep, HonestStep DEF LifeInv
<1> USE DEF LifeInv, Once, TypeOK
<1>2. LifeStep
    BY LifeCases
<1>3. \A d \in Duties : submits[d] = 1 => submits'[d] = 1
    BY <1>2
    DEF LifeStep, Quiet, Queued, Claimed, GivenBack, Settled, Moved, Sent, Done, Answered
<1>4. ASSUME NEW w \in Workers, job'[w] # "none" PROVE submits'[duty'[w]] = 1
  <2>1. /\ duty'[w] = duty[w]
        /\ job[w] # "none" \/ submits'[duty[w]] = submits[duty[w]] + 1
      BY <1>4, JobSteps
  <2>2. CASE job[w] # "none"
      BY <1>3, <2>1, <2>2 DEF Backed
  <2>3. CASE submits'[duty[w]] = submits[duty[w]] + 1
    <3>1. submits'[duty'[w]] > 0 /\ duty'[w] \in Duties
        BY <2>1, <2>3
    <3> QED
        BY <1>1, <3>1 DEF Spent
  <2> QED
      BY <2>1, <2>2, <2>3
<1>5. \A d \in succeeded' : submits'[d] = 1
  <2>1. \/ succeeded' = succeeded
        \/ \E w \in Workers : job[w] # "none" /\ succeeded' = succeeded \cup {duty[w]}
      BY <1>2
      DEF LifeStep, Quiet, Queued, Claimed, GivenBack, Settled, Moved, Sent, Done, Answered
  <2> QED
      BY <1>3, <2>1 DEF Backed
<1>6. \A d \in Duties : client'[d] # "new" => place'[d] # "none"
  <2>1. \A dir \in Tags \cup Terminal \cup {"input"} : dir # "none"
      BY TagFacts, StepFacts
  <2>2. ASSUME Quiet PROVE \A d \in Duties : client'[d] # "new" => place'[d] # "none"
      BY <2>2 DEF Quiet, SameClient, Backed
  <2>3. ASSUME NEW d \in Duties, Queued(d) \/ Answered(d)
        PROVE  \A e \in Duties : client'[e] # "new" => place'[e] # "none"
      BY <2>1, <2>3 DEF Queued, Answered, Backed, Put
  <2>4. ASSUME NEW d \in Duties, Claimed(d) \/ GivenBack(d) \/ Settled(d)
        PROVE  \A e \in Duties : client'[e] # "new" => place'[e] # "none"
      BY <2>1, <2>4 DEF Claimed, GivenBack, Settled, Moved, Backed, Put
  <2>5. ASSUME NEW d \in Duties, Sent(d) \/ Done(d)
        PROVE  \A e \in Duties : client'[e] # "new" => place'[e] # "none"
      BY <2>5 DEF Sent, Done, Backed
  <2> QED
      BY <1>2, <2>2, <2>3, <2>4, <2>5 DEF LifeStep
<1> QED
    BY <1>1, <1>4, <1>5, <1>6 DEF Backed

\* Every step of the lane is a step of a duty's life, or changes nothing of it.
LEMMA LifeMaps == LifeInv /\ LifeInv' /\ [Next]_vars => [Life!Next]_Life!life
<1> SUFFICES ASSUME LifeInv, LifeInv', [Next]_vars PROVE [Life!Next]_Life!life
    OBVIOUS
<1> USE DEF LifeInv, Once, TypeOK
<1> DEFINE stage == [d \in Duties |-> IF place[d] \in Tags THEN "claimed" ELSE place[d]]
           answer == [d \in Duties |-> IF client[d] \in Terminal THEN client[d] ELSE "none"]
<1>0. LifeStep
    BY LifeCases
<1>p. ASSUME UNCHANGED place PROVE stage' = stage
    BY <1>p
<1>c. ASSUME \A d \in Duties : SameClient(d) PROVE answer' = answer
    BY <1>c DEF SameClient
<1>m. ASSUME NEW d \in Duties, NEW dir, Put(d, dir)
      PROVE  stage' = [stage EXCEPT ![d] = IF dir \in Tags THEN "claimed" ELSE dir]
    BY <1>m DEF Put
<1>t. \A dir \in Dirs : dir \notin Tags
    BY TagFacts
<1>d. {"none", "input"} \cup Terminal \subseteq Dirs
    BY StepFacts
<1>1. CASE Quiet
    BY <1>1, <1>p, <1>c DEF Quiet, Life!life
<1>2. ASSUME NEW d \in Duties, Queued(d) PROVE Life!Queue(d)
  <2>1. place[d] = "none" /\ stage[d] = "none"
      BY <1>2, <1>t, <1>d DEF Queued, Unborn
  <2>2. answer' = answer
      BY <1>2 DEF Queued, Terminal
  <2> QED
      BY <1>2, <1>m, <1>t, <1>d, <2>1, <2>2 DEF Queued, Life!Queue, Life!Moves
<1>3. ASSUME NEW d \in Duties, Claimed(d) PROVE Life!Claim(d)
  <2>1. stage[d] = "input"
      BY <1>3, <1>t, <1>d DEF Claimed
  <2> QED
      BY <1>3, <1>m, <2>1 DEF Claimed, Moved, Life!Claim, Life!Moves
<1>4. ASSUME NEW d \in Duties, GivenBack(d) PROVE Life!GiveBack(d)
  <2>1. stage[d] = "claimed"
      BY <1>4 DEF GivenBack
  <2> QED
      BY <1>4, <1>m, <1>t, <1>d, <2>1 DEF GivenBack, Moved, Life!GiveBack, Life!Moves
<1>5. ASSUME NEW d \in Duties, Settled(d) PROVE Life!Settle(d)
  <2>1. PICK dir \in Terminal : Moved(d, dir)
      BY <1>5 DEF Settled
  <2>2. stage[d] = "claimed" /\ stage' = [stage EXCEPT ![d] = dir]
      BY <1>5, <1>m, <1>t, <1>d, <2>1 DEF Settled, Moved
  <2>3. dir = "success" => d \in succeeded
    <3>1. dir = "success" => place'[d] = "success"
        BY <2>1 DEF Moved, Put
    <3>2. place'[d] = "success" => d \in succeeded'
        BY DEF Honest, SuccessHonest
    <3> QED
        BY <2>1, <3>1, <3>2 DEF Moved
  <2>4. Life!Moves(d, "claimed", dir)
      BY <2>1, <2>2 DEF Moved, Life!Moves
  <2> QED
      BY <2>3, <2>4 DEF Life!Settle, Terminal
<1>6. ASSUME NEW d \in Duties, Sent(d) PROVE Life!Send(d)
  <2>1. stage[d] \in {"claimed", "fail"}
    <3>1. place[d] # "success"
        BY <1>6 DEF Sent, Honest, SuccessHonest, Backed
    <3> QED
        BY <1>6, <3>1 DEF Sent, Terminal
  <2> QED
      BY <1>6, <1>p, <2>1 DEF Sent, Life!Send
<1>7. ASSUME NEW d \in Duties, Done(d) PROVE Life!Succeed(d)
    BY <1>7, <1>p DEF Done, Backed, Life!Succeed
<1>8. ASSUME NEW d \in Duties, Answered(d) PROVE Life!Answer(d)
  <2>1. stage[d] # "none" /\ answer[d] = "none"
      BY <1>8 DEF Answered, Backed, Terminal
  <2>2. status[d] = "success" => d \in succeeded
      BY DEF Honest, SuccessHonest
  <2>3. answer' = [answer EXCEPT ![d] = status[d]]
      BY <1>8 DEF Answered
  <2> QED
      BY <1>8, <1>p, <2>1, <2>2, <2>3 DEF Answered, Terminal, Life!Answer
<1> QED
    BY <1>0, <1>1, <1>2, <1>3, <1>4, <1>5, <1>6, <1>7, <1>8 DEF LifeStep, Life!Next

\* The lane takes every duty through the life DutyLife promises: queued once,
\* sent once out of a claim and after its dependencies, settled for good, with
\* no success made up, whatever crashes, expires or is collected on the way.
THEOREM LaneActsAsLife == Spec => ActsAsLife
<1>1. Init => Life!Init
    BY TagFacts, StepFacts DEF Init, Life!Init, Terminal
<1> QED
    BY <1>1, LifeInvInit, LifeInvStep, LifeMaps, PTL DEF Spec, ActsAsLife, Life!Spec
=============================================================================

--------------------------- MODULE DeviceGateProof ---------------------------
(***************************************************************************)
(* The gate of a device admits as DeviceSharing says, for any finite set   *)
(* of jobs, any requests and any VRAM; its books are those of the jobs     *)
(* inside, and several that share have never declared more VRAM than the   *)
(* device has; a job shown as running is inside; nobody sleeps while       *)
(* nobody is left to wake it.                                              *)
(***************************************************************************)
EXTENDS DeviceGate, FiniteSetTheorems, SetSums, TLAPS

\* A user enters, a user leaves, or nobody does either.
Enters(u) ==
  /\ pc[u] \in {"new", "awake"}
  /\ pc' = [pc EXCEPT ![u] = "holds"]
  /\ Take(u)
  /\ UNCHANGED record

Leaves(u) ==
  /\ Inside(u)
  /\ Give(u)
  /\ LeaveAndWake(u)
  /\ UNCHANGED record

Elsewhere == \A u \in Users : Inside(u)' <=> Inside(u)

\* The code's admission condition, whatever telemetry says.
Room(u) == ~exclusive /\ (u \notin Sharers => shared = 0)

Admitted(u) ==
  /\ Room(u)
  /\ u \in Sharers /\ shared > 0 => reserved + Vram[u] <= Total

-----------------------------------------------------------------------------
\* Types are preserved by every step.
LEMMA TypeStep == TypeOK /\ [Next]_vars => TypeOK'
<1> SUFFICES ASSUME TypeOK, [Next]_vars PROVE TypeOK'
    OBVIOUS
<1> USE DEF TypeOK, gate, record
<1>1. ASSUME NEW u \in Users, Take(u) PROVE
        exclusive' \in BOOLEAN /\ shared' \in Nat /\ reserved' \in Nat
  <2>1. u \in Sharers => Vram[u] \in Nat
    BY VramAssumption, SharersAssumption
  <2>2. exclusive' \in BOOLEAN
    BY <1>1, Zenon DEF Take
  <2>3. shared' \in Nat /\ reserved' \in Nat
    BY <1>1, <2>1 DEF Take
  <2> QED BY <2>2, <2>3
<1>2. ASSUME NEW u \in Users, Give(u) PROVE
        exclusive' \in BOOLEAN /\ shared' \in Nat /\ reserved' \in Nat
  <2>1. u \in Sharers => Vram[u] \in Nat
    BY VramAssumption, SharersAssumption
  <2>2. exclusive' \in BOOLEAN
    BY <1>2, Zenon DEF Give
  <2>3. shared' \in Nat /\ reserved' \in Nat
    BY <1>2, <2>1 DEF Give, NotNegative
  <2> QED BY <2>2, <2>3
<1>3. ASSUME NEW u \in Users, LeaveAndWake(u) PROVE pc' \in [Users -> Places]
  BY <1>3 DEF LeaveAndWake, Places, Waiting, Holding
<1>4. ASSUME NEW u \in Users, NEW p \in Places, Goto(u, p)
      PROVE  pc' \in [Users -> Places]
  BY <1>4 DEF Goto
<1>5. {"new", "gone", "awake", "asleep", "holds", "marked", "ended", "cleared"} = Places
  BY DEF Places, Waiting, Holding
<1>6. CASE \E j \in Jobs : Job(j)
  <2>0. PICK j \in Jobs : Job(j)
    BY <1>6
  <2>u. j \in Users
    BY DEF Users
  <2>1. CASE Start(j)
    BY <2>1, <2>u, <1>4, <1>5 DEF Start
  <2>2. CASE Acquire(j)
    BY <2>2, <2>u, <1>1, <1>4, <1>5 DEF Acquire
  <2>3. CASE Sleep(j)
    BY <2>3, <2>u, <1>4, <1>5 DEF Sleep
  <2>4. CASE MarkRunning(j)
    BY <2>4, <2>u, <1>4, <1>5 DEF MarkRunning
  <2>5. CASE Finish(j)
    BY <2>5, <2>u, <1>4, <1>5 DEF Finish
  <2>6. CASE Unlist(j)
    BY <2>6, <2>u, <1>4, <1>5 DEF Unlist
  <2>7. CASE Release(j)
    BY <2>7, <2>u, <1>2, <1>3 DEF Release
  <2> QED BY <2>0, <2>1, <2>2, <2>3, <2>4, <2>5, <2>6, <2>7 DEF Job
<1>7. CASE \E v \in Visits : Visit(v)
  <2>0. PICK v \in Visits : Visit(v)
    BY <1>7
  <2>u. v \in Users
    BY DEF Users
  <2>1. CASE TryAcquire(v)
    BY <2>1, <2>u, <1>1, <1>4, <1>5 DEF TryAcquire
  <2>2. CASE VisitEnds(v)
    BY <2>2, <2>u, <1>2, <1>3 DEF VisitEnds
  <2> QED BY <2>0, <2>1, <2>2 DEF Visit
<1>8. CASE UNCHANGED vars
  BY <1>8 DEF vars
<1> QED BY <1>6, <1>7, <1>8 DEF Next

LEMMA TypeInit == Init => TypeOK
<1>1. Init => exclusive \in BOOLEAN
  BY Zenon DEF Init
<1>2. Init => shared \in Nat /\ reserved \in Nat
  BY DEF Init
<1>3. Init => /\ pc \in [Users -> Places]
              /\ status \in [Jobs -> {"queued", "running", "success", "fail"}]
              /\ running \subseteq Jobs
  BY DEF Init, Places
<1> QED BY <1>1, <1>2, <1>3 DEF TypeOK

\* Every variable of the gate keeps its type.
THEOREM GateTypes == Spec => []TypeOK
<1>1. Init => TypeOK
  BY TypeInit
<1> QED BY <1>1, TypeStep, PTL DEF Spec

-----------------------------------------------------------------------------
\* What a step is, seen from the gate.
LEMMA StepCases ==
  ASSUME TypeOK, [Next]_vars
  PROVE  \/ \E u \in Users : Enters(u) /\ Admitted(u)
         \/ \E u \in Users : Leaves(u)
         \/ Elsewhere /\ UNCHANGED gate
<1> USE DEF TypeOK
<1>1. ASSUME NEW u \in Users, NEW p \in Places, Goto(u, p), Inside(u) <=> p \in Holding
      PROVE  Elsewhere
  BY <1>1 DEF Goto, Elsewhere, Inside
<1>2. {"new", "gone", "awake", "asleep", "holds", "marked", "ended", "cleared"} = Places
  BY DEF Places, Waiting, Holding
<1>3. CASE \E j \in Jobs : Job(j)
  <2>0. PICK j \in Jobs : Job(j)
    BY <1>3
  <2>u. j \in Users
    BY DEF Users
  <2>1. CASE Acquire(j)
    <3>0. Vram[j] \in Nat
      BY VramAssumption
    <3>1. PICK free \in Telemetry : Admits(j, free)
      BY <2>1 DEF Acquire
    <3>2. free \in Int /\ free <= Total
      BY TotalAssumption DEF Telemetry, Blind
    <3>3. Admitted(j)
      BY <3>0, <3>1, <3>2, TotalAssumption DEF Admits, CanShare, Admitted, Room
    <3>4. Enters(j)
      BY <2>1 DEF Acquire, Enters, Goto
    <3> QED BY <3>3, <3>4, <2>u
  <2>2. CASE Release(j)
    BY <2>2, <2>u DEF Release, Leaves, Inside, Holding
  <2>3. CASE Start(j)
    BY <2>3, <2>u, <1>1, <1>2 DEF Start, Inside, Holding
  <2>4. CASE Sleep(j)
    BY <2>4, <2>u, <1>1, <1>2 DEF Sleep, Inside, Holding
  <2>5. CASE MarkRunning(j)
    BY <2>5, <2>u, <1>1, <1>2 DEF MarkRunning, Inside, Holding
  <2>6. CASE Finish(j)
    BY <2>6, <2>u, <1>1, <1>2 DEF Finish, Inside, Holding, gate
  <2>7. CASE Unlist(j)
    BY <2>7, <2>u, <1>1, <1>2 DEF Unlist, Inside, Holding, gate
  <2> QED BY <2>0, <2>1, <2>2, <2>3, <2>4, <2>5, <2>6, <2>7 DEF Job
<1>4. CASE \E v \in Visits : Visit(v)
  <2>0. PICK v \in Visits : Visit(v)
    BY <1>4
  <2>u. v \in Users /\ v \notin Sharers
    BY JobsAssumption, SharersAssumption DEF Users
  <2>1. CASE TryAcquire(v) /\ (exclusive \/ shared > 0)
    BY <2>1, <2>u, <1>1, <1>2 DEF TryAcquire, Inside, Holding
  <2>2. CASE TryAcquire(v) /\ ~(exclusive \/ shared > 0)
    BY <2>2, <2>u DEF TryAcquire, Enters, Admitted, Room, Goto
  <2>3. CASE VisitEnds(v)
    BY <2>3, <2>u DEF VisitEnds, Leaves, Inside, Holding
  <2> QED BY <2>0, <2>1, <2>2, <2>3 DEF Visit
<1>5. CASE UNCHANGED vars
  BY <1>5 DEF vars, Elsewhere, Inside
<1> QED BY <1>3, <1>4, <1>5 DEF Next

\* Who is inside after a user has entered or left.
LEMMA InsideAfter ==
  ASSUME TypeOK, NEW u \in Users
  PROVE  /\ Enters(u) => ~Inside(u) /\ \A v \in Users : Inside(v)' <=> (v = u \/ Inside(v))
         /\ Leaves(u) => \A v \in Users : Inside(v)' <=> (v # u /\ Inside(v))
<1> USE DEF TypeOK
<1>1. ASSUME Enters(u)
      PROVE  ~Inside(u) /\ \A v \in Users : Inside(v)' <=> (v = u \/ Inside(v))
  BY <1>1 DEF Enters, Inside, Holding
<1>2. ASSUME Leaves(u)
      PROVE  \A v \in Users : Inside(v)' <=> (v # u /\ Inside(v))
  BY <1>2 DEF Leaves, LeaveAndWake, Inside, Holding
<1> QED BY <1>1, <1>2

-----------------------------------------------------------------------------
\* The books of the gate say who is inside: a lone user that does not share,
\* or as many sharers as counted, who declared what is reserved.
Books ==
  /\ BooksBalance
  /\ exclusive =>
       \E u \in Users \ Sharers : \A v \in Users : Inside(v) <=> v = u
  /\ ~exclusive => \A v \in Users : Inside(v) => v \in Sharers
  /\ shared > 1 => reserved <= Total

IInv == TypeOK /\ Books

\* The set of sharers inside is finite, and empty when none is counted.
LEMMA SharersFinite ==
  /\ IsFiniteSet(SharersInside)
  /\ Cardinality(SharersInside) = 0 <=> SharersInside = {}
<1>1. SharersInside \subseteq Jobs
  BY SharersAssumption DEF SharersInside
<1> QED BY <1>1, FS_Subset, FS_EmptySet, JobsAssumption

\* Nobody is inside when the gate admits a user that does not share.
LEMMA RoomForOne ==
  ASSUME IInv, NEW u \in Users \ Sharers, Room(u)
  PROVE  \A v \in Users : ~Inside(v)
BY SharersFinite DEF IInv, Books, BooksBalance, Room, SharersInside

\* What the sharers inside declared, and that it is a number.
LEMMA SharersDeclare ==
  /\ \A j \in Sharers : Vram[j] \in Nat
  /\ SumFunctionOnSet(Vram, SharersInside) \in Nat
<1>1. \A j \in Sharers : Vram[j] \in Nat
  BY VramAssumption, SharersAssumption
<1>2. SharersInside \subseteq Sharers
  BY DEF SharersInside
<1> QED BY <1>1, <1>2, SharersFinite, SumIsNat

\* A user enters: the count grows by a sharer, or a lone user has the gate.
LEMMA BooksEnter ==
  ASSUME IInv, NEW u \in Users, Enters(u), Admitted(u)
  PROVE  Books'
<1> USE DEF IInv, TypeOK
<1>1. ~Inside(u) /\ \A v \in Users : Inside(v)' <=> (v = u \/ Inside(v))
  BY InsideAfter
<1>2. Sharers \subseteq Users
  BY SharersAssumption DEF Users
<1>3. CASE u \in Sharers
  <2>1. /\ shared' = shared + 1
        /\ reserved' = reserved + Vram[u]
        /\ exclusive' = exclusive
    BY <1>3 DEF Enters, Take
  <2>2. SharersInside' = SharersInside \cup {u} /\ u \notin SharersInside
    BY <1>1, <1>2, <1>3 DEF SharersInside
  <2>3. shared' = Cardinality(SharersInside')
    BY <2>1, <2>2, SharersFinite, FS_AddElement DEF Books, BooksBalance
  <2>r. reserved' = SumFunctionOnSet(Vram, SharersInside')
    <3>1. \A j \in SharersInside \cup {u} : Vram[j] \in Nat
      BY <1>3, SharersDeclare DEF SharersInside
    <3>2. SumFunctionOnSet(Vram, SharersInside \cup {u})
            = SumFunctionOnSet(Vram, SharersInside) + Vram[u]
      BY <2>2, <3>1, SharersFinite, SumAddElement
    <3> QED BY <2>1, <2>2, <3>2 DEF Books, BooksBalance
  <2>4. ~exclusive' /\ \A v \in Users : Inside(v)' => v \in Sharers
    BY <1>1, <1>3, <2>1 DEF Books, Admitted, Room
  <2>5. shared' > 1 => reserved' <= Total
    BY <1>3, <2>1 DEF Admitted
  <2> QED BY <2>3, <2>r, <2>4, <2>5 DEF Books, BooksBalance
<1>4. CASE u \notin Sharers
  <2>1. exclusive' /\ shared' = shared /\ reserved' = reserved
    BY <1>4 DEF Enters, Take
  <2>2. \A v \in Users : ~Inside(v)
    BY <1>4, RoomForOne DEF Admitted
  <2>3. SharersInside' = SharersInside
    BY <1>1, <1>2, <1>4 DEF SharersInside
  <2>4. BooksBalance'
    BY <2>1, <2>3 DEF Books, BooksBalance
  <2>5. \A v \in Users : Inside(v)' <=> v = u
    BY <1>1, <2>2
  <2>6. \E w \in Users \ Sharers : \A v \in Users : Inside(v)' <=> v = w
    BY <1>4, <2>5
  <2> QED BY <2>1, <2>4, <2>6 DEF Books
<1> QED BY <1>3, <1>4

\* A user leaves: what it took is given back.
LEMMA BooksLeave ==
  ASSUME IInv, NEW u \in Users, Leaves(u)
  PROVE  Books'
<1> USE DEF IInv, TypeOK
<1>1. Inside(u) /\ \A v \in Users : Inside(v)' <=> (v # u /\ Inside(v))
  BY InsideAfter DEF Leaves
<1>2. Sharers \subseteq Users
  BY SharersAssumption DEF Users
<1>3. CASE u \in Sharers
  <2>0. Vram[u] \in Nat
    BY <1>3, VramAssumption, SharersAssumption
  <2>1. u \in SharersInside /\ SharersInside' = SharersInside \ {u}
    BY <1>1, <1>2, <1>3 DEF SharersInside
  <2>2. shared > 0
    BY <2>1, SharersFinite DEF Books, BooksBalance
  <2>s. /\ reserved = Vram[u] + SumFunctionOnSet(Vram, SharersInside \ {u})
        /\ SumFunctionOnSet(Vram, SharersInside \ {u}) \in Nat
    <3>1. /\ IsFiniteSet(SharersInside \ {u})
          /\ \A j \in SharersInside : Vram[j] \in Nat
      BY SharersFinite, FS_Subset, SharersDeclare DEF SharersInside
    <3>2. SumFunctionOnSet(Vram, SharersInside)
            = Vram[u] + SumFunctionOnSet(Vram, SharersInside \ {u})
      BY <2>1, <3>1, SharersFinite, SumRemoveElement
    <3>3. SumFunctionOnSet(Vram, SharersInside \ {u}) \in Nat
      BY <3>1, SumIsNat
    <3>4. reserved = SumFunctionOnSet(Vram, SharersInside)
      BY DEF Books, BooksBalance
    <3> QED BY <3>2, <3>3, <3>4
  <2>3. /\ shared' = shared - 1
        /\ reserved' = reserved - Vram[u] /\ reserved' <= reserved
        /\ exclusive' = exclusive
    BY <1>3, <2>0, <2>2, <2>s DEF Leaves, Give, NotNegative
  <2>4. shared' = Cardinality(SharersInside')
    BY <2>1, <2>3, SharersFinite, FS_RemoveElement DEF Books, BooksBalance
  <2>r. reserved' = SumFunctionOnSet(Vram, SharersInside')
    BY <2>0, <2>1, <2>3, <2>s
  <2>5. ~exclusive
    BY <1>1, <1>3 DEF Books
  <2>6. ~exclusive' /\ \A v \in Users : Inside(v)' => v \in Sharers
    BY <1>1, <2>3, <2>5 DEF Books
  <2>7. shared' > 1 => reserved' <= Total
    <3>1. TypeOK'
      BY <2>0, <2>3, <1>3 DEF Leaves, Give, LeaveAndWake, NotNegative, record, Places, Waiting, Holding
    <3> QED BY <2>3, <3>1, TotalAssumption DEF Books
  <2> QED BY <2>4, <2>r, <2>6, <2>7 DEF Books, BooksBalance
<1>4. CASE u \notin Sharers
  <2>1. ~exclusive' /\ shared' = shared /\ reserved' = reserved
    BY <1>4 DEF Leaves, Give
  <2>2. SharersInside' = SharersInside
    BY <1>1, <1>2, <1>4 DEF SharersInside
  <2>3. exclusive
    BY <1>1, <1>4 DEF Books
  <2>4. \A v \in Users : ~Inside(v)'
    BY <1>1, <2>3 DEF Books
  <2>5. BooksBalance'
    BY <2>1, <2>2 DEF Books, BooksBalance
  <2> QED BY <2>1, <2>4, <2>5 DEF Books
<1> QED BY <1>3, <1>4

\* The invariant is inductive.
LEMMA BooksStep == IInv /\ [Next]_vars => IInv'
<1> SUFFICES ASSUME IInv, [Next]_vars PROVE IInv'
    OBVIOUS
<1>1. TypeOK'
  BY TypeStep DEF IInv
<1>2. ASSUME Elsewhere, UNCHANGED gate PROVE Books'
  <2>1. Sharers \subseteq Users
    BY SharersAssumption DEF Users
  <2>2. SharersInside' = SharersInside
    BY <1>2, <2>1 DEF Elsewhere, SharersInside
  <2>3. BooksBalance'
    BY <1>2, <2>2 DEF IInv, Books, BooksBalance, gate
  <2> QED BY <1>2, <2>3 DEF IInv, Books, Elsewhere, gate
<1>3. Books'
  BY StepCases, BooksEnter, BooksLeave, <1>2 DEF IInv
<1> QED BY <1>1, <1>3 DEF IInv

LEMMA BooksInit == Init => IInv
<1> SUFFICES ASSUME Init PROVE IInv
    OBVIOUS
<1>1. TypeOK
  BY TypeInit
<1>2. \A u \in Users : ~Inside(u)
  BY DEF Init, Inside, Holding
<1>3. SharersInside = {}
  BY <1>2, SharersAssumption DEF SharersInside, Users
<1>4. BooksBalance
  BY <1>3, FS_EmptySet, SumByPick DEF Init, BooksBalance
<1> QED BY <1>1, <1>2, <1>4 DEF IInv, Books, Init

-----------------------------------------------------------------------------
\* A job or request that does not share has the device alone.
THEOREM DeviceAlone == Spec => []Alone
<1>1. IInv => Alone
  BY DEF IInv, Books, Alone
<1> QED BY BooksInit, BooksStep, <1>1, PTL DEF Spec

\* The VRAM set aside for several sharers never exceeds that of the device.
THEOREM ReservationsFit == Spec => [](shared > 1 => reserved <= Total)
<1>1. IInv => (shared > 1 => reserved <= Total)
  BY DEF IInv, Books
<1> QED BY BooksInit, BooksStep, <1>1, PTL DEF Spec

\* The gate's count and its reservation are those of the sharers inside:
\* release subtracts exactly what acquire added, and its floor at zero, which
\* would hide a job that was counted twice or never, is never reached.
THEOREM BooksAreBalanced == Spec => []BooksBalance
<1>1. IInv => BooksBalance
  BY DEF IInv, Books
<1> QED BY BooksInit, BooksStep, <1>1, PTL DEF Spec

\* Several jobs that share the device never declared more VRAM than it has,
\* though each was admitted on telemetry of its own moment.
THEOREM SharersFitDevice == Spec => []SharersFit
<1>1. IInv => SharersFit
  BY SharersFinite, FS_CardinalityType DEF IInv, Books, BooksBalance, SharersFit
<1> QED BY BooksInit, BooksStep, <1>1, PTL DEF Spec

\* Every step of the gate is a step of shared or exclusive admission.
THEOREM GateImplementsSharing == Spec => ActsAsSharing
<1> DEFINE using == {u \in Users : Inside(u)}
<1>1. Init => Sharing!Init
  BY DEF Init, Sharing!Init, Inside, Holding
<1>2. IInv /\ [Next]_vars => [Sharing!Next]_using
  <2> SUFFICES ASSUME IInv, [Next]_vars PROVE [Sharing!Next]_using
      OBVIOUS
  <2>1. ASSUME NEW u \in Users, Enters(u), Admitted(u) PROVE Sharing!Enter(u)
    <3>1. u \notin using /\ using' = using \cup {u}
      BY <2>1, InsideAfter DEF IInv
    <3>2. CASE u \in Sharers
      <4>1. using \subseteq Sharers
        BY <2>1 DEF IInv, Books, Admitted, Room
      <4> QED BY <3>1, <3>2, <4>1 DEF Sharing!Enter
    <3>3. CASE u \notin Sharers
      <4>1. using = {}
        BY <2>1, <3>3, RoomForOne DEF Admitted
      <4> QED BY <3>1, <3>3, <4>1 DEF Sharing!Enter
    <3> QED BY <3>2, <3>3
  <2>2. ASSUME NEW u \in Users, Leaves(u) PROVE Sharing!Leave(u)
    <3>1. u \in using /\ using' = using \ {u}
      BY <2>2, InsideAfter DEF IInv, Leaves
    <3> QED BY <3>1 DEF Sharing!Leave
  <2>3. ASSUME Elsewhere PROVE using' = using
    BY <2>3 DEF Elsewhere
  <2> QED BY StepCases, <2>1, <2>2, <2>3 DEF IInv, Sharing!Next
<1> QED BY BooksInit, BooksStep, <1>1, <1>2, PTL DEF Spec, ActsAsSharing, Sharing!Spec

-----------------------------------------------------------------------------
\* A published job has the gate: its status and its place in the running list
\* change only between its acquisition and its release.
Published ==
  \A j \in Jobs :
    /\ status[j] = "running" => pc[j] = "marked"
    /\ j \in running => pc[j] \in {"marked", "ended"}

\* A job shown as running is inside the gate.
THEOREM RunningIsInside == Spec => []RunningHolds
<1> DEFINE Inv == TypeOK /\ Published
<1>1. Init => Inv
  BY TypeInit DEF Init, Published
<1>2. Inv /\ [Next]_vars => Inv'
  <2> SUFFICES ASSUME Inv, [Next]_vars PROVE Published'
      BY TypeStep
  <2> USE DEF TypeOK, Published
  <2>u. Jobs \subseteq Users /\ Jobs \cap Visits = {}
    BY JobsAssumption DEF Users
  <2>1. CASE \E j \in Jobs : Job(j)
    <3>0. PICK j \in Jobs : Job(j)
      BY <2>1
    <3>1. CASE Start(j)
      BY <3>1, <2>u DEF Start, Goto, record
    <3>2. CASE Acquire(j)
      BY <3>2, <2>u DEF Acquire, Goto, record
    <3>3. CASE Sleep(j)
      BY <3>3, <2>u DEF Sleep, Goto, record
    <3>4. CASE MarkRunning(j)
      BY <3>4, <2>u DEF MarkRunning, Goto
    <3>5. CASE Finish(j)
      BY <3>5, <2>u DEF Finish, Goto
    <3>6. CASE Unlist(j)
      BY <3>6, <2>u DEF Unlist, Goto
    <3>7. CASE Release(j)
      BY <3>7, <2>u DEF Release, LeaveAndWake, record
    <3> QED BY <3>0, <3>1, <3>2, <3>3, <3>4, <3>5, <3>6, <3>7 DEF Job
  <2>2. CASE \E v \in Visits : Visit(v)
    <3>0. PICK v \in Visits : Visit(v)
      BY <2>2
    <3>1. CASE TryAcquire(v)
      BY <3>1, <2>u DEF TryAcquire, Goto, record, Users
    <3>2. CASE VisitEnds(v)
      BY <3>2, <2>u DEF VisitEnds, LeaveAndWake, record, Users
    <3> QED BY <3>0, <3>1, <3>2 DEF Visit
  <2>3. CASE UNCHANGED vars
    BY <2>3 DEF vars, record
  <2> QED BY <2>1, <2>2, <2>3 DEF Next
<1>3. Inv => RunningHolds
  BY DEF TypeOK, Published, RunningHolds, Inside, Holding
<1> QED BY <1>1, <1>2, <1>3, PTL DEF Spec

-----------------------------------------------------------------------------
\* A refused job has somebody inside: the refusal names a holder.
LEMMA RefusedByHolder ==
  ASSUME IInv, NEW j \in Jobs, NEW free \in Telemetry, ~Admits(j, free)
  PROVE  \E u \in Users : Inside(u)
<1>1. CASE exclusive
  BY <1>1 DEF IInv, Books
<1>2. CASE ~exclusive
  <2>1. shared # 0
    BY <1>2 DEF Admits, IInv, TypeOK
  <2>2. SharersInside # {}
    BY <2>1, SharersFinite DEF IInv, Books, BooksBalance
  <2> QED BY <2>2, SharersAssumption DEF SharersInside, Users
<1> QED BY <1>1, <1>2

\* A job that sleeps has a holder to wake it: whoever leaves wakes all, and
\* what else is said of the gate comes from its books.
THEOREM SleepersHaveAWaker == Spec => []NobodySleepsAlone
<1>1. Init => NobodySleepsAlone
  BY JobsAssumption DEF Init, NobodySleepsAlone, Users
<1>2. IInv /\ NobodySleepsAlone /\ [Next]_vars => NobodySleepsAlone'
  <2> SUFFICES ASSUME IInv, NobodySleepsAlone, [Next]_vars,
                      NEW j \in Jobs, pc'[j] = "asleep"
               PROVE  \E u \in Users : Inside(u)'
      BY DEF NobodySleepsAlone
  <2> USE DEF IInv, TypeOK
  <2>u. Jobs \subseteq Users /\ Jobs \cap Visits = {}
    BY JobsAssumption DEF Users
  <2>1. ASSUME NEW u \in Users, Enters(u) PROVE \E w \in Users : Inside(w)'
    BY <2>1, InsideAfter
  <2>2. ASSUME NEW u \in Users, Leaves(u) PROVE FALSE
    BY <2>2, <2>u DEF Leaves, LeaveAndWake
  <2>3. ASSUME Elsewhere, \E u \in Users : Inside(u)
        PROVE  \E w \in Users : Inside(w)'
    BY <2>3 DEF Elsewhere
  <2>4. ASSUME Elsewhere, pc[j] # "asleep"
        PROVE  \E w \in Users : Inside(w)
    <3>1. CASE \E i \in Jobs : Sleep(i)
      <4>1. PICK i \in Jobs : Sleep(i)
        BY <3>1
      <4>2. PICK free \in Telemetry : ~Admits(i, free)
        BY <4>1 DEF Sleep
      <4> QED BY <4>2, RefusedByHolder
    <3>2. CASE ~ \E i \in Jobs : Sleep(i)
      <4>1. ASSUME NEW i \in Jobs, Job(i) PROVE FALSE
        BY <2>4, <2>u, <3>2, <4>1
        DEF Job, Start, Acquire, MarkRunning, Finish, Unlist, Release, Goto, LeaveAndWake
      <4>2. ASSUME NEW v \in Visits, Visit(v) PROVE FALSE
        BY <2>4, <2>u, <4>2 DEF Visit, TryAcquire, VisitEnds, Goto, LeaveAndWake, Users
      <4>3. ~ UNCHANGED vars
        BY <2>4 DEF vars
      <4> QED BY <4>1, <4>2, <4>3 DEF Next
    <3> QED BY <3>1, <3>2
  <2> QED BY StepCases, <2>1, <2>2, <2>3, <2>4 DEF NobodySleepsAlone
<1> QED BY BooksInit, BooksStep, <1>1, <1>2, PTL DEF Spec
=============================================================================

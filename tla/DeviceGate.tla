----------------------------- MODULE DeviceGate -----------------------------
(***************************************************************************)
(* The execution gate of one GPU in the Housekeeper service, and the       *)
(* threads that go through it (container/gpu-housekeeper/service/server.py,*)
(* class DeviceExecutionGate): one thread per registered job, which waits  *)
(* for the gate under its condition variable, and the requests that        *)
(* prepare capacity or restart the Strata runtime, which take the gate     *)
(* only if nobody has it.                                                  *)
(*                                                                         *)
(* The gate is a monitor: a step under its lock is one action.  What a job *)
(* does while it has the device is left out but for its published status.  *)
(***************************************************************************)
EXTENDS Integers, FiniteSets, Functions

CONSTANTS
  Jobs,       \* jobs registered for the device
  Sharers,    \* jobs of a concurrencySafe runtime that declared their VRAM
  Vram,       \* Vram[j]: the VRAM, in units, that job j declared; 0 for none
  Visits,     \* capacity preparations and context changes
  Total       \* the VRAM of the device, in units

ASSUME JobsAssumption == IsFiniteSet(Jobs) /\ Jobs \cap Visits = {}
ASSUME SharersAssumption == Sharers \subseteq Jobs
ASSUME VramAssumption == Vram \in [Jobs -> Nat] /\ \A j \in Sharers : Vram[j] > 0
ASSUME TotalAssumption == Total \in Nat

VARIABLES
  exclusive,  \* the gate is held by a job that does not share, or by a visit
  shared,     \* how many sharers hold the gate
  reserved,   \* the VRAM they declared (shared_vram_mb)
  pc,         \* where each thread is
  status,     \* the status each job's record shows
  running     \* the jobs listed as running on the device (_RUNNING_JOB_IDS)

gate == <<exclusive, shared, reserved>>
record == <<status, running>>
vars == <<gate, pc, record>>

Users == Jobs \cup Visits

\* A thread that waits is asleep until a notification, then awake to look again.
Waiting == {"awake", "asleep"}
Holding == {"holds", "marked", "ended", "cleared"}
Places == {"new", "gone"} \cup Waiting \cup Holding

Inside(u) == pc[u] \in Holding

Goto(u, place) == pc' = [pc EXCEPT ![u] = place]

\* Free VRAM as telemetry reports it, or nothing, which admits no sharer.
Blind == -1
Telemetry == {Blind} \cup 0 .. Total

NotNegative(n) == IF n < 0 THEN 0 ELSE n

-----------------------------------------------------------------------------
(* The gate.                                                                *)

\* Mutant: what other sharers have declared is not set aside.
CanShareIgnoringReserved(j, free) == free >= Vram[j]

\* The callback of a job's acquire: VRAM free now, less all that is reserved.
CanShare(j, free) == free - reserved >= Vram[j]

\* Mutant: a job that does not share waits for its like only.
AdmitsBesideSharers(j, free) ==
  /\ ~exclusive
  /\ j \in Sharers => (shared > 0 => CanShare(j, free))

\* The first sharer is admitted unchecked, the others if they fit.
Admits(j, free) ==
  /\ ~exclusive
  /\ IF j \in Sharers THEN shared > 0 => CanShare(j, free) ELSE shared = 0

Take(u) ==
  IF u \in Sharers
  THEN /\ shared' = shared + 1
       /\ reserved' = reserved + Vram[u]
       /\ UNCHANGED exclusive
  ELSE exclusive' = TRUE /\ UNCHANGED <<shared, reserved>>

\* Mutant: the release does not say how much VRAM was declared.
GiveWithoutVram(u) ==
  IF u \in Sharers
  THEN /\ shared' = NotNegative(shared - 1)
       /\ UNCHANGED <<exclusive, reserved>>
  ELSE exclusive' = FALSE /\ UNCHANGED <<shared, reserved>>

\* Mutant: every release gives back a share, without the floor at zero.
GiveShare(u) ==
  /\ shared' = shared - 1
  /\ exclusive' = FALSE
  /\ UNCHANGED reserved

Give(u) ==
  IF u \in Sharers
  THEN /\ shared' = NotNegative(shared - 1)
       /\ reserved' = NotNegative(reserved - Vram[u])
       /\ UNCHANGED exclusive
  ELSE exclusive' = FALSE /\ UNCHANGED <<shared, reserved>>

\* Mutant: only an exclusive release notifies.
LeaveWakesSometimes(u) ==
  pc' = [v \in Users |-> IF v = u THEN "gone"
                         ELSE IF pc[v] = "asleep" /\ u \notin Sharers THEN "awake"
                         ELSE pc[v]]

\* The thread that releases goes on to its end; notify_all wakes all waiters.
LeaveAndWake(u) ==
  pc' = [v \in Users |-> IF v = u THEN "gone"
                         ELSE IF pc[v] = "asleep" THEN "awake"
                         ELSE pc[v]]

-----------------------------------------------------------------------------
Init ==
  /\ exclusive = FALSE
  /\ shared = 0
  /\ reserved = 0
  /\ pc = [u \in Users |-> "new"]
  /\ status = [j \in Jobs |-> "queued"]
  /\ running = {}

(* A job's thread.                                                          *)

Start(j) ==
  /\ pc[j] = "new"
  /\ Goto(j, "awake")
  /\ UNCHANGED <<gate, record>>

Acquire(j) ==
  /\ pc[j] = "awake"
  /\ \E free \in Telemetry : Admits(j, free)
  /\ Take(j)
  /\ Goto(j, "holds")
  /\ UNCHANGED record

Sleep(j) ==
  /\ pc[j] = "awake"
  /\ \E free \in Telemetry : ~Admits(j, free)
  /\ Goto(j, "asleep")
  /\ UNCHANGED <<gate, record>>

\* Mutant: the job is published as running before it has the gate.
MarkRunningEarly(j) ==
  /\ pc[j] \in {"awake", "holds"}
  /\ status[j] = "queued"
  /\ status' = [status EXCEPT ![j] = "running"]
  /\ running' = running \cup {j}
  /\ IF pc[j] = "holds" THEN Goto(j, "marked") ELSE UNCHANGED pc
  /\ UNCHANGED gate

MarkRunning(j) ==
  /\ pc[j] = "holds"
  /\ status' = [status EXCEPT ![j] = "running"]
  /\ running' = running \cup {j}
  /\ Goto(j, "marked")
  /\ UNCHANGED gate

\* The runtime answers, refuses or times out.
Finish(j) ==
  /\ pc[j] = "marked"
  /\ \E outcome \in {"success", "fail"} : status' = [status EXCEPT ![j] = outcome]
  /\ Goto(j, "ended")
  /\ UNCHANGED <<gate, running>>

Unlist(j) ==
  /\ pc[j] = "ended"
  /\ running' = running \ {j}
  /\ Goto(j, "cleared")
  /\ UNCHANGED <<gate, status>>

Release(j) ==
  /\ pc[j] = "cleared"
  /\ Give(j)
  /\ LeaveAndWake(j)
  /\ UNCHANGED record

(* A request that takes the device only if no managed job uses it.          *)

\* Mutant: the request looks for exclusive holders only.
TryAcquireBesideSharers(v) ==
  /\ pc[v] = "new"
  /\ IF exclusive
     THEN Goto(v, "gone") /\ UNCHANGED gate
     ELSE Take(v) /\ Goto(v, "holds")
  /\ UNCHANGED record

\* Busy is an answer; the request does not wait.
TryAcquire(v) ==
  /\ pc[v] = "new"
  /\ IF exclusive \/ shared > 0
     THEN Goto(v, "gone") /\ UNCHANGED gate
     ELSE Take(v) /\ Goto(v, "holds")
  /\ UNCHANGED record

VisitEnds(v) ==
  /\ pc[v] = "holds"
  /\ Give(v)
  /\ LeaveAndWake(v)
  /\ UNCHANGED record

-----------------------------------------------------------------------------
Job(j) ==
  \/ Start(j) \/ Acquire(j) \/ Sleep(j)
  \/ MarkRunning(j) \/ Finish(j) \/ Unlist(j) \/ Release(j)

Visit(v) == TryAcquire(v) \/ VisitEnds(v)

Next == (\E j \in Jobs : Job(j)) \/ (\E v \in Visits : Visit(v))

Spec == Init /\ [][Next]_vars

\* Threads run; a job's work and a visit end, since every request to a runtime
\* and every wait for capacity has a timeout.
Fairness ==
  /\ \A j \in Jobs : WF_vars(Job(j))
  /\ \A v \in Visits : WF_vars(VisitEnds(v))

FairSpec == Spec /\ Fairness

-----------------------------------------------------------------------------
(* Properties.                                                              *)

TypeOK ==
  /\ exclusive \in BOOLEAN
  /\ shared \in Nat
  /\ reserved \in Nat
  /\ pc \in [Users -> Places]
  /\ status \in [Jobs -> {"queued", "running", "success", "fail"}]
  /\ running \subseteq Jobs

\* Whoever does not share has the device alone: a default runtime's job, a
\* capacity preparation and a Strata restart overlap with no managed job.
Alone ==
  \A u, v \in Users : Inside(u) /\ Inside(v) /\ u # v => {u, v} \subseteq Sharers

\* Seen from its users, the gate is a shared or exclusive admission.
Sharing == INSTANCE DeviceSharing WITH using <- {u \in Users : Inside(u)}

ActsAsSharing == Sharing!Spec

\* The gate's books are those of the jobs inside: no acquisition and release
\* of whatever kinds, in whatever order, leaves a share or VRAM behind.
SharersInside == {j \in Sharers : Inside(j)}

BooksBalance ==
  /\ shared = Cardinality(SharersInside)
  /\ reserved = SumFunctionOnSet(Vram, SharersInside)

\* Jobs that share the device have declared, together, no more VRAM than it
\* has, whatever telemetry said when each of them was admitted.
SharersFit ==
  Cardinality(SharersInside) > 1 => SumFunctionOnSet(Vram, SharersInside) <= Total

\* A job that is published or listed as running has the device.
RunningHolds == \A j \in Jobs : status[j] = "running" \/ j \in running => Inside(j)

\* No job sleeps on an idle device: while one is asleep somebody is inside,
\* who will notify it on leaving.  No other step of the service notifies.
NobodySleepsAlone ==
  (\E j \in Jobs : pc[j] = "asleep") => \E u \in Users : Inside(u)

\* A job that waits gets the device and ends: no notification it depends on is
\* lost, though sharers sleep on telemetry that changes without one.
JobsEnd == \A j \in Jobs : pc[j] = "awake" ~> pc[j] = "gone"
=============================================================================

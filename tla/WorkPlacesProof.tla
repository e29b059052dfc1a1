-------------------------- MODULE WorkPlacesProof --------------------------
(***************************************************************************)
(* Theorems about where a task of WorkSupervisor is, where no operator's   *)
(* command overlaps a wake: its one envelope agrees with its status file,  *)
(* what is runnable can be claimed; and that a task is accepted on what    *)
(* its reviewer saw unless somebody edits the checkout.                    *)
(*                                                                         *)
(* The argument: a wake works on a task that is neither settled nor        *)
(* blocked, and holds its envelope in runtime/ all the while; and an       *)
(* envelope that looks unclaimable is written after, never before, the     *)
(* status file that says so.                                               *)
(***************************************************************************)
EXTENDS WorkSupervisorProof, FiniteSetTheorems

\* The steps at which a wake works on its task.
Working == {"prepare", "loop", "turn", "result", "implemented", "replanned", "revised"}

Unclaimable == Terminal \union {"blocked"}

\* A task at its usage limit was working before.
Resumable(t) == t.status = "usage-limited" => t.prev \notin Unclaimable

\* A queued task has one envelope, another has none.
OneEnvelope ==
  IF enqueue = "done"
  THEN \E p \in Places : env[p] # NoEnvelope /\ \A q \in Places \ {p} : env[q] = NoEnvelope
  ELSE \A p \in Places : env[p] = NoEnvelope

Agrees ==
  /\ env["success"] # NoEnvelope => disk.status = "accepted"
  /\ env["fail"] # NoEnvelope => disk.status = "failed"

\* A wake's envelope is its own, and what it holds fits its step.
Works ==
  /\ pc # "idle" => env["runtime"] # NoEnvelope
  /\ pc \in Working => Eligible(mem)
  /\ pc = "accepted" => mem.status = "accepted"
  /\ pc = "failing" => mem.status = "failed"

\* As long as no operator has rewritten the task.
Claims ==
  spent["commands"] = 0 =>
    /\ enqueue # "done" =>
         pend = {} /\ disk.status = "ready" /\ disk.active.state = "none"
    /\ env["input"] # NoEnvelope =>
         /\ env["input"].status = "ready"
         /\ disk.status = "ready" /\ disk.active.state = "none"
    /\ env["runtime"].status \in Unclaimable => ~Eligible(disk)
    /\ \A u \in pend : env["runtime"] = u

Place ==
  /\ OneEnvelope /\ Agrees /\ Works /\ Claims
  /\ pend # {} => disk.status # "accepted" /\ (disk.status = "failed" => disk \in pend)
  /\ Resumable(disk) /\ \A u \in pend : Resumable(u)

\* An envelope is not taken for none.
LEMMA EnvelopeHeld ==
  /\ NoEnvelope.status = "none" /\ "none" \notin Statuses
  /\ \A t \in Tasks : t # NoEnvelope /\ t.status \in Statuses
  <1>1. NoEnvelope.status = "none" /\ "none" \notin Statuses
    BY DEF NoEnvelope, Statuses
  <1>2. \A t \in Tasks : t.status \in Statuses
    BY DEF Tasks
  <1> QED
    BY <1>1, <1>2

LEMMA PlacesApart ==
  /\ Places = {"input", "runtime", "success", "fail"}
  /\ Terminal = {"accepted", "failed"}
  /\ "none" \notin Statuses /\ Unclaimable \subseteq Statuses
  BY DEF Places, Terminal, Unclaimable, Statuses

\* An envelope in runtime/ is the only one.
LEMMA OnlyRuntime ==
  ASSUME OneEnvelope, env["runtime"] # NoEnvelope
  PROVE  /\ env["input"] = NoEnvelope /\ env["success"] = NoEnvelope
         /\ env["fail"] = NoEnvelope /\ enqueue = "done"
  <1>1. PICK p \in Places :
          /\ env[p] # NoEnvelope /\ \A q \in Places \ {p} : env[q] = NoEnvelope
          /\ enqueue = "done"
    BY DEF OneEnvelope, Places
  <1>2. p = "runtime"
    BY <1>1 DEF Places
  <1> QED
    BY <1>1, <1>2 DEF Places

\* A wake that works on its task and writes it keeps it in its place.
LEMMA SavePlace ==
  ASSUME IInv, Place, pc \in Working, NEW t, NEW next \in Steps \ {"idle", "claimed"},
         Save(t, next), Resumable(t),
         next \in Working => Eligible(t),
         next = "accepted" => t.status = "accepted",
         next = "failing" => t.status = "failed",
         spent'["commands"] = spent["commands"]
  PROVE  Place'
  <1>1. /\ mem' = t /\ disk' = t /\ pc' = next /\ env' = env /\ pend' = pend
        /\ enqueue' = enqueue
        /\ mem = disk /\ pend = {} /\ pc \notin {"idle", "claimed"}
    BY DEF Save, IInv, Holds, Working
  <1>2. env["runtime"] # NoEnvelope /\ Eligible(disk)
    BY <1>1 DEF Place, Works
  <1>3. env["input"] = NoEnvelope /\ env["success"] = NoEnvelope /\ env["fail"] = NoEnvelope
        /\ enqueue = "done"
    BY <1>2, OnlyRuntime DEF Place
  <1>4. OneEnvelope' /\ Agrees'
    BY <1>1, <1>3 DEF Place, OneEnvelope, Agrees
  <1>5. Works'
    BY <1>1, <1>2 DEF Works
  <1>6. Claims'
    BY <1>1, <1>2, <1>3 DEF Place, Claims
  <1> QED
    BY <1>1, <1>4, <1>5, <1>6 DEF Place

\* Other fields than the status are the concern of other theorems.
LEMMA SameStatus ==
  ASSUME NEW t, NEW u, u.status = t.status, u.prev = t.prev, Resumable(t)
  PROVE  Resumable(u) /\ (Eligible(t) => Eligible(u))
  BY DEF Resumable, Eligible

LEMMA MovedStatus ==
  ASSUME NEW t \in Tasks, NEW s \in Statuses
  PROVE  /\ Moved(t, s).status = s /\ Moved(t, s).prev = t.status
         /\ s # "usage-limited" \/ Eligible(t) => Resumable(Moved(t, s))
         /\ s \notin Unclaimable => Eligible(Moved(t, s))
  BY DEF Tasks, Moved, Resumable, Eligible, Unclaimable

LEMMA HeldPlace ==
  ASSUME IInv, Place, pc \in Working
  PROVE  mem \in Tasks /\ Eligible(mem) /\ Resumable(mem)
  BY HeldTask DEF Place, Works, IInv, Holds, Working

\* fail
LEMMA FailPlace ==
  ASSUME IInv, Place, pc \in Working,
         NEW kind \in {"infrastructure", "failed", "ambiguous", "usage-limited", "interrupted"},
         Fail(kind), spent'["commands"] = spent["commands"]
  PROVE  Place'
  <1> DEFINE t == Failed(mem, kind)
             next == IF t.status = "failed" THEN "failing" ELSE "end"
  <1>1. mem \in Tasks /\ Eligible(mem) /\ Resumable(mem)
    BY HeldPlace
  <1>2. t \in Tasks
    BY <1>1, FailedTask
  <1>3. Resumable(t)
    <2> DEFINE status == IF kind = "usage-limited" THEN "usage-limited"
                         ELSE IF kind # "failed" \/ mem.active.state = "started"
                                 \/ mem.active.state = "completed"
                         THEN "blocked" ELSE "failed"
               v == IF mem.status = status THEN mem ELSE Moved(mem, status)
    <2>1. status \in Statuses
      BY DEF Statuses
    <2>2. Resumable(v) /\ v \in Tasks
      BY <1>1, <2>1, MovedStatus, MovedTask
    <2>3. t.status = v.status /\ t.prev = v.prev
      BY <2>2 DEF Failed, Tasks
    <2> HIDE DEF t, v
    <2> QED
      BY <2>2, <2>3, SameStatus
  <1>4. /\ Save(t, next) /\ next \in Steps \ {"idle", "claimed"}
        /\ next \in Working => Eligible(t)
        /\ next = "accepted" => t.status = "accepted"
        /\ next = "failing" => t.status = "failed"
    BY DEF Fail, Steps, Working
  <1> HIDE DEF t, next
  <1> QED
    BY <1>2, <1>3, <1>4, SavePlace

LEMMA SpendCommands ==
  ASSUME spent \in [Kinds -> Nat], NEW k \in Kinds, Spend(k)
  PROVE  /\ k # "commands" => spent'["commands"] = spent["commands"]
         /\ k = "commands" => spent'["commands"] # 0
  BY DEF Spend, Kinds

(***************************************************************************)
(* Steps of a wake.                                                        *)
(***************************************************************************)
\* A step that goes on with the same status.
LEMMA SameStatusPlace ==
  ASSUME IInv, Place, pc \in Working, NEW t,
         NEW next \in Steps \ {"idle", "claimed", "accepted", "failing"},
         Save(t, next), t.status = mem.status, t.prev = mem.prev,
         spent'["commands"] = spent["commands"]
  PROVE  Place'
  <1>1. Eligible(mem) /\ Resumable(mem)
    BY HeldPlace
  <1>2. Eligible(t) /\ Resumable(t)
    BY <1>1, SameStatus
  <1> QED
    BY <1>2, SavePlace

\* A step that moves the task.
LEMMA MovedPlace ==
  ASSUME IInv, Place, pc \in Working, NEW t, NEW s \in Statuses,
         NEW next \in {"loop", "end", "accepted"},
         Save(t, next), t.status = s, t.prev = mem.status,
         next = "loop" => s \notin Unclaimable,
         next = "accepted" => s = "accepted",
         spent'["commands"] = spent["commands"]
  PROVE  Place'
  <1>1. Eligible(mem)
    BY HeldPlace
  <1>2. Resumable(t) /\ (next = "loop" => Eligible(t))
    BY <1>1 DEF Resumable, Eligible, Unclaimable
  <1>3. next \in Steps \ {"idle", "claimed"} /\ next # "failing"
        /\ (next \in Working => next = "loop")
    BY DEF Steps, Working
  <1> QED
    BY <1>2, <1>3, SavePlace

LEMMA TurnPlace ==
  ASSUME IInv, Place, NEW phase \in Phases, Turn(phase)
  PROVE  Place'
  <1> USE DEF Turning, Awake
  <1>1. pc \in Working /\ spent \in [Kinds -> Nat]
    BY DEF Turn, BeginTurn, ReuseResult, RefuseTurn, OpenFails, IInv, TypeOK, Working
  <1>2. mem \in Tasks
    BY <1>1, HeldPlace
  <1>3. CASE BeginTurn(phase)
    <2> DEFINE t == [mem EXCEPT !.active = [state |-> "started", id |-> Identity(mem, phase),
                                            decision |-> "none", seen |-> 0]]
    <2>1. t.status = mem.status /\ t.prev = mem.prev
      BY <1>2 DEF Tasks
    <2>2. Save(t, "turn") /\ spent' = spent
      BY <1>3 DEF BeginTurn
    <2> HIDE DEF t
    <2> QED
      BY <1>1, <2>1, <2>2, SameStatusPlace DEF Steps
  <1>4. CASE ReuseResult(phase)
    BY <1>1, <1>4, SameStatusPlace DEF ReuseResult, Steps
  <1>5. CASE RefuseTurn(phase)
    BY <1>1, <1>5, FailPlace DEF RefuseTurn
  <1>6. CASE OpenFails(phase)
    <2>1. spent'["commands"] = spent["commands"]
      BY <1>1, <1>6, SpendCommands DEF OpenFails, Kinds
    <2> QED
      BY <1>1, <1>6, <2>1, FailPlace DEF OpenFails
  <1> QED
    BY <1>3, <1>4, <1>5, <1>6 DEF Turn

LEMMA AnswerPlace ==
  ASSUME IInv, Place, Answer
  PROVE  Place'
  <1>1. pc \in Working /\ spent' = spent
    BY DEF Answer, Awake, Working
  <1>2. mem \in Tasks
    BY <1>1, HeldPlace
  <1>3. PICK decision \in Decisions(mem.active.id[1]) :
          Save([mem EXCEPT !.active.state = "completed", !.active.decision = decision,
                           !.active.seen = before], "result")
    BY DEF Answer
  <1> DEFINE t == [mem EXCEPT !.active.state = "completed", !.active.decision = decision,
                              !.active.seen = before]
  <1>4. t.status = mem.status /\ t.prev = mem.prev
    BY <1>2 DEF Tasks
  <1>5. Save(t, "result")
    BY <1>3
  <1> HIDE DEF t
  <1> QED
    BY <1>1, <1>4, <1>5, SameStatusPlace DEF Steps

LEMMA CapturePlace ==
  ASSUME IInv, Place, Capture
  PROVE  Place'
  <1> USE DEF Awake
  <1>1. pc \in Working /\ spent'["commands"] = spent["commands"]
    <2>1. spent \in [Kinds -> Nat] /\ (spent' = spent \/ Spend("faults"))
      BY DEF Capture, CapturePlan, CaptureImplementation, CaptureReview, RejectReview,
         CaptureConvergence, CaptureFails, IInv, TypeOK
    <2>2. pc \in Working
      BY DEF Capture, CapturePlan, CaptureImplementation, CaptureReview, RejectReview,
         CaptureConvergence, CaptureFails, Working
    <2> QED
      BY <2>1, <2>2, SpendCommands DEF Kinds
  <1>2. mem \in Tasks
    BY <1>1, HeldPlace
  <1> DEFINE c == Consumed(mem)
  <1>3. c.status = mem.status /\ c.prev = mem.prev
    BY <1>2 DEF Tasks, Consumed
  <1>4. DOMAIN c = DOMAIN mem
    BY <1>2 DEF Tasks, Consumed
  <1>5. "status" \in DOMAIN c /\ "prev" \in DOMAIN c
    BY <1>2, <1>4 DEF Tasks
  <1> SUFFICES ASSUME ~RejectReview, ~CaptureFails
               PROVE  \E t : \E next \in {"loop", "implemented"} :
                        Save(t, next) /\ t.status = mem.status /\ t.prev = mem.prev
    <2>1. CASE RejectReview \/ CaptureFails
      BY <1>1, <2>1, FailPlace DEF RejectReview, CaptureFails
    <2> QED
      BY <1>1, <2>1, SameStatusPlace DEF Steps
  <1> HIDE DEF c
  <1>6. CASE CapturePlan
    <2> DEFINE u == [c EXCEPT !.plan = TRUE]
    <2>1. u.status = mem.status /\ u.prev = mem.prev
      BY <1>3, <1>5
    <2>2. Save(u, "loop")
      BY <1>6 DEF CapturePlan, c
    <2> HIDE DEF u
    <2> QED
      BY <2>1, <2>2
  <1>7. CASE CaptureImplementation
    <2>1. PICK ready \in BOOLEAN :
            Save([c EXCEPT !.passes = @ + 1, !.reviewReady = ready, !.commit = tree,
                           !.fresh = FALSE,
                           !.noProgress = IF tree # mem.commit THEN 0 ELSE @ + 1],
                 "implemented")
      BY <1>7 DEF CaptureImplementation, c
    <2> DEFINE u == [c EXCEPT !.passes = @ + 1, !.reviewReady = ready, !.commit = tree,
                              !.fresh = FALSE,
                              !.noProgress = IF tree # mem.commit THEN 0 ELSE @ + 1]
    <2>2. u.status = mem.status /\ u.prev = mem.prev
      BY <1>3, <1>5
    <2>3. Save(u, "implemented")
      BY <2>1
    <2> HIDE DEF u
    <2> QED
      BY <2>2, <2>3
  <1>8. CASE CaptureReview
    <2> DEFINE u == [c EXCEPT !.review = [decision |-> mem.active.decision,
                                          seen |-> mem.active.seen, evidence |-> tree]]
    <2>1. u.status = mem.status /\ u.prev = mem.prev
      BY <1>3, <1>5
    <2>2. Save(u, "loop")
      BY <1>8 DEF CaptureReview, c
    <2> HIDE DEF u
    <2> QED
      BY <2>1, <2>2
  <1>9. CASE CaptureConvergence
    <2> DEFINE u == [c EXCEPT !.reviewCount = @ + 1, !.fresh = TRUE,
                              !.focused = mem.active.decision]
    <2>1. u.status = mem.status /\ u.prev = mem.prev
      BY <1>3, <1>5
    <2>2. Save(u, "loop")
      BY <1>9 DEF CaptureConvergence, c
    <2> HIDE DEF u
    <2> QED
      BY <2>1, <2>2
  <1> QED
    BY <1>6, <1>7, <1>8, <1>9 DEF Capture

LEMMA DecidePlace ==
  ASSUME IInv, Place, Decide
  PROVE  Place'
  <1> USE DEF Awake, Decided
  <1>1. pc \in {"loop", "implemented", "replanned", "revised"} /\ spent' = spent
    BY DEF Decide, Enter, Refocus, Correct, SkipImplementation, Pause, ToReview,
       Accept, Block, Replan, Replanned, Revise, Revised, Continue, Step
  <1>2. pc \in Working /\ mem \in Tasks /\ Eligible(mem) /\ Resumable(mem)
    BY <1>1, HeldPlace DEF Working
  <1>3. ASSUME NEW s \in Statuses, NEW next \in {"loop", "end", "accepted"},
               Step(Moved(mem, s), next), next = "loop" => s \notin Unclaimable,
               next = "accepted" => s = "accepted"
        PROVE  Place'
    <2>1. Moved(mem, s).status = s /\ Moved(mem, s).prev = mem.status
      BY <1>2, MovedStatus
    <2> QED
      BY <1>1, <1>2, <1>3, <2>1, MovedPlace DEF Step
  <1>4. ASSUME Step([Moved(mem, "blocked") EXCEPT !.blocker = "decision"], "end")
        PROVE  Place'
    <2> DEFINE u == [Moved(mem, "blocked") EXCEPT !.blocker = "decision"]
    <2>1. u.status = "blocked" /\ u.prev = mem.status
      BY <1>2 DEF Moved, Tasks
    <2>2. Save(u, "end") /\ "blocked" \in Statuses
      BY <1>4 DEF Step, Statuses
    <2> HIDE DEF u
    <2> QED
      BY <1>1, <1>2, <2>1, <2>2, MovedPlace
  <1>5. CASE Enter
    <2>1. mem.prev \in Statuses
      BY <1>2 DEF Tasks
    <2> QED
      BY <1>2, <1>3, <1>5, <2>1 DEF Enter, Statuses, Resumable, Unclaimable, Terminal
  <1>6. CASE Refocus
    <2>1. CASE Step([mem EXCEPT !.noProgress = 0], "loop")
      <3> DEFINE u == [mem EXCEPT !.noProgress = 0]
      <3>1. u.status = mem.status /\ u.prev = mem.prev
        BY <1>2 DEF Tasks
      <3>2. Save(u, "loop")
        BY <2>1 DEF Step
      <3> HIDE DEF u
      <3> QED
        BY <1>1, <1>2, <3>1, <3>2, SameStatusPlace DEF Steps
    <2> QED
      BY <1>4, <1>6, <2>1 DEF Refocus
  <1>7. CASE Correct \/ ToReview \/ Replanned \/ Revised
    BY <1>3, <1>7 DEF Correct, ToReview, Replanned, Revised, Statuses, Unclaimable, Terminal
  <1>8. CASE SkipImplementation
    <2>1. /\ UNCHANGED <<disk, env, mem, due, mode, before, pend, enqueue, tree, spent>>
          /\ pc' = "implemented"
      BY <1>8 DEF SkipImplementation
    <2>2. OneEnvelope' /\ Agrees' /\ Works' /\ Claims'
      BY <1>2, <2>1 DEF Place, OneEnvelope, Agrees, Works, Claims, Working
    <2> QED
      BY <2>1, <2>2 DEF Place
  <1>9. CASE Pause
    BY <1>1, <1>2, <1>9, SameStatusPlace DEF Pause, Step, Steps
  <1>10. CASE Accept \/ Continue
    BY <1>3, <1>10 DEF Accept, Continue, Statuses
  <1>11. CASE Block
    BY <1>4, <1>11 DEF Block
  <1>12. CASE Replan
    <2> DEFINE u == [mem EXCEPT !.passes = 0, !.reviewReady = FALSE]
    <2>1. u.status = mem.status /\ u.prev = mem.prev
      BY <1>2 DEF Tasks
    <2>2. Save(u, "replanned")
      BY <1>12 DEF Replan, Step
    <2> HIDE DEF u
    <2> QED
      BY <1>1, <1>2, <2>1, <2>2, SameStatusPlace DEF Steps
  <1>13. CASE Revise
    <2> DEFINE u == [mem EXCEPT !.rev = @ + 1, !.passes = 0, !.reviewReady = FALSE]
    <2>1. u.status = mem.status /\ u.prev = mem.prev
      BY <1>2 DEF Tasks
    <2>2. Save(u, "revised")
      BY <1>13 DEF Revise, Step
    <2> HIDE DEF u
    <2> QED
      BY <1>1, <1>2, <2>1, <2>2, SameStatusPlace DEF Steps
  <1> QED
    BY <1>5, <1>6, <1>7, <1>8, <1>9, <1>10, <1>11, <1>12, <1>13 DEF Decide

\* The envelope's new task, and the envelope's way into success/ or fail/.
LEMMA EnvelopePlace ==
  ASSUME IInv, Place, WriteEnvelope \/ Load \/ AckSuccess \/ AckFail
  PROVE  Place'
  <1>1. /\ pc # "idle" /\ env["runtime"] # NoEnvelope /\ spent' = spent
        /\ enqueue' = enqueue /\ pend' = pend /\ pend = {}
    BY DEF WriteEnvelope, Load, AckSuccess, AckFail, Awake, Place, Works, IInv, Holds
  <1>2. /\ env["input"] = NoEnvelope /\ env["success"] = NoEnvelope
        /\ env["fail"] = NoEnvelope /\ enqueue = "done"
    BY <1>1, OnlyRuntime DEF Place
  <1>3. disk \in Tasks /\ env \in [Places -> Tasks \union {NoEnvelope}] /\ Resumable(disk)
    BY DEF IInv, TypeOK, Place
  <1>4. env["runtime"] \in Tasks
    BY <1>1, <1>3 DEF Places
  <1>5. CASE WriteEnvelope
    <2>1. env' = [env EXCEPT !["runtime"] = disk] /\ pc \notin {"idle", "claimed"}
          /\ disk' = disk
      BY <1>5 DEF WriteEnvelope, IInv, Holds
    <2>2. env'["runtime"] = disk /\ \A p \in Places \ {"runtime"} : env'[p] = NoEnvelope
      BY <1>2, <1>3, <2>1 DEF Places
    <2>3. OneEnvelope' /\ Agrees'
      BY <1>1, <1>2, <1>3, <2>2, EnvelopeHeld DEF OneEnvelope, Agrees, Places
    <2>4. Works'
      BY <1>3, <1>5, <2>2, EnvelopeHeld DEF WriteEnvelope, Return, Place, Works, Working
    <2>5. Claims'
      BY <1>1, <1>2, <2>1, <2>2 DEF Claims, Eligible, Unclaimable, Places
    <2> QED
      BY <1>1, <1>3, <2>1, <2>3, <2>4, <2>5 DEF Place
  <1>6. CASE Load
    <2>1. env' = env /\ disk' = disk
      BY <1>6 DEF Load
    <2>3. CASE disk.status = "blocked"
      <3>1. pc' = "idle"
        BY <1>6, <2>3 DEF Load, Return
      <3> QED
        BY <1>1, <2>1, <3>1 DEF Place, OneEnvelope, Agrees, Works, Claims, Working
    <2>4. CASE disk.status # "blocked"
      <3>1. mem' = disk /\ pc' = CASE disk.status = "accepted" -> "accepted"
                                   [] disk.status = "failed" -> "failing"
                                   [] OTHER -> "prepare"
        BY <1>6, <2>4 DEF Load
      <3>2. \/ pc' = "accepted" /\ disk.status = "accepted"
            \/ pc' = "failing" /\ disk.status = "failed"
            \/ pc' = "prepare" /\ Eligible(disk)
        BY <2>4, <3>1 DEF Eligible, Terminal
      <3>3. Works'
        BY <1>1, <2>1, <3>1, <3>2 DEF Works, Working
      <3> QED
        BY <1>1, <2>1, <3>3 DEF Place, OneEnvelope, Agrees, Claims
    <2> QED
      BY <2>3, <2>4
  <1>7. ASSUME NEW p \in {"success", "fail"}, NEW t \in Tasks,
               env' = [env EXCEPT !["runtime"] = NoEnvelope, ![p] = t],
               p = "success" => disk'.status = "accepted",
               p = "fail" => disk'.status = "failed",
               pc' = "idle", Resumable(disk')
        PROVE  Place'
    <2>1. env'[p] # NoEnvelope /\ \A q \in Places \ {p} : env'[q] = NoEnvelope
      BY <1>2, <1>3, <1>7, EnvelopeHeld DEF Places
    <2>2. OneEnvelope' /\ Agrees'
      BY <1>1, <1>2, <1>7, <2>1 DEF OneEnvelope, Agrees, Places
    <2>3. Works'
      BY <1>7 DEF Works, Working
    <2>4. env'["input"] = NoEnvelope /\ env'["runtime"] = NoEnvelope
      BY <1>7, <2>1 DEF Places
    <2>5. Claims'
      BY <1>1, <1>2, <2>4, EnvelopeHeld, PlacesApart DEF Claims
    <2> QED
      BY <1>1, <1>7, <2>2, <2>3, <2>5 DEF Place
  <1>8. CASE AckSuccess
    <2>1. disk.status = "accepted" /\ disk' = disk /\ pc' = "idle"
      BY <1>8 DEF AckSuccess, Return, Awake, Place, Works, IInv, Holds
    <2> QED
      BY <1>3, <1>4, <1>7, <1>8, <2>1 DEF AckSuccess
  <1>9. CASE AckFail /\ CanMove(env["runtime"].status, "failed")
    <2> DEFINE t == Moved(env["runtime"], "failed")
    <2>1. t \in Tasks /\ t.status = "failed"
      BY <1>4, MovedTask DEF Statuses
    <2>2. disk' = t /\ env' = [env EXCEPT !["runtime"] = NoEnvelope, !["fail"] = t]
          /\ pc' = "idle"
      BY <1>9 DEF AckFail, Return
    <2> HIDE DEF t
    <2> QED
      BY <1>7, <2>1, <2>2 DEF Resumable
  <1>10. CASE AckFail /\ ~CanMove(env["runtime"].status, "failed")
    <2>1. UNCHANGED <<disk, env>> /\ pc' = "idle"
      BY <1>10 DEF AckFail, Return
    <2> QED
      BY <1>1, <2>1 DEF Place, OneEnvelope, Agrees, Works, Claims, Working
  <1> QED
    BY <1>5, <1>6, <1>8, <1>9, <1>10

LEMMA WakePlace ==
  ASSUME IInv, Place, Wake
  PROVE  Place'
  <1>1. spent \in [Kinds -> Nat] /\ "faults" \in Kinds
    BY DEF IInv, TypeOK, Kinds
  <1>2. CASE Prepare
    BY <1>2, SameStatusPlace DEF Prepare, Awake, Working, Steps
  <1>3. ASSUME NEW kind \in {"infrastructure", "failed"}, PrepareFails(kind)
        PROVE  Place'
    BY <1>1, <1>3, FailPlace, SpendCommands DEF PrepareFails, Awake, Working
  <1>4. ASSUME NEW kind \in {"usage-limited", "interrupted"}, TurnFails(kind)
        PROVE  Place'
    BY <1>1, <1>4, FailPlace, SpendCommands DEF TurnFails, Awake, Working
  <1> QED
    BY <1>2, <1>3, <1>4, EnvelopePlace, TurnPlace, AnswerPlace, CapturePlace, DecidePlace
    DEF Wake

\* A claimed envelope is in runtime/.
LEMMA ClaimPlace ==
  ASSUME IInv, Place, NEW m \in Modes, Claim(m), Overlap = FALSE
  PROVE  Place'
  <1>1. /\ pc' = "claimed" /\ disk' = disk /\ pend' = {} /\ pend = {}
        /\ enqueue' = enqueue /\ spent'["commands"] = spent["commands"]
        /\ env \in [Places -> Tasks \union {NoEnvelope}]
    BY SpendCommands DEF Claim, IInv, TypeOK, Kinds
  <1>2. CASE env["input"].status = "ready"
    <2>1. env' = [env EXCEPT !["input"] = NoEnvelope, !["runtime"] = env["input"]]
      BY <1>2 DEF Claim
    <2>2. env["input"] # NoEnvelope
      BY <1>2, EnvelopeHeld
    <2>3. enqueue = "done" /\ \A q \in Places \ {"input"} : env[q] = NoEnvelope
      <3>1. PICK p \in Places :
              /\ env[p] # NoEnvelope /\ \A q \in Places \ {p} : env[q] = NoEnvelope
              /\ enqueue = "done"
        BY <2>2 DEF Place, OneEnvelope, Places
      <3>2. p = "input"
        BY <2>2, <3>1 DEF Places
      <3> QED
        BY <3>1, <3>2
    <2>4. /\ env'["runtime"] # NoEnvelope /\ env'["runtime"].status = "ready"
          /\ \A q \in Places \ {"runtime"} : env'[q] = NoEnvelope
      BY <1>1, <1>2, <2>1, <2>2, <2>3 DEF Places
    <2>5. OneEnvelope' /\ Agrees'
      BY <1>1, <2>3, <2>4 DEF OneEnvelope, Agrees, Places
    <2>6. Works' /\ Claims'
      BY <1>1, <2>3, <2>4 DEF Works, Claims, Working, Unclaimable, Terminal, Places
    <2> QED
      BY <1>1, <2>5, <2>6 DEF Place
  <1>3. CASE env["input"].status # "ready"
    <2>1. env' = env /\ env["runtime"] # NoEnvelope
      BY <1>3 DEF Claim, Claimable
    <2>2. OneEnvelope' /\ Agrees' /\ Works' /\ Claims'
      BY <1>1, <2>1 DEF Place, OneEnvelope, Agrees, Works, Claims, Working
    <2> QED
      BY <1>1, <2>2 DEF Place
  <1> QED
    BY <1>2, <1>3

LEMMA EnvironmentPlace ==
  ASSUME IInv, Place, Crash \/ CommandCrash \/ EnqueueCrash \/ Edit
  PROVE  Place'
  <1>1. /\ disk' = disk /\ env' = env /\ pend' \in {{}, pend}
        /\ spent'["commands"] = spent["commands"]
        /\ enqueue' = enqueue \/ (enqueue # "done" /\ enqueue' # "done")
        /\ pc' = "idle" \/ (pc' = pc /\ mem' = mem)
    BY SpendCommands
    DEF Crash, CommandCrash, EnqueueCrash, Edit, Return, wake, IInv, TypeOK, Kinds
  <1>2. OneEnvelope' /\ Agrees' /\ Works' /\ Claims'
    BY <1>1 DEF Place, OneEnvelope, Agrees, Works, Claims, Working
  <1> QED
    BY <1>1, <1>2 DEF Place

\* The envelope of a task that is queued is its first.
LEMMA EnqueuePlace ==
  ASSUME IInv, Place, EnqueueEnvelope
  PROVE  Place'
  <1>1. /\ env' = [env EXCEPT !["input"] = NewTask] /\ enqueue' = "done" /\ enqueue # "done"
        /\ UNCHANGED <<disk, wake, pend, tree, spent>>
    BY DEF EnqueueEnvelope
  <1>2. \A p \in Places : env[p] = NoEnvelope
    BY <1>1 DEF Place, OneEnvelope
  <1>3. NewTask # NoEnvelope /\ NewTask.status = "ready"
    BY EnvelopeHeld DEF NewTask
  <1>4. env'["input"] = NewTask /\ \A q \in Places \ {"input"} : env'[q] = NoEnvelope
    BY <1>1, <1>2 DEF IInv, TypeOK, Places
  <1>5. OneEnvelope' /\ Agrees'
    BY <1>1, <1>3, <1>4 DEF OneEnvelope, Agrees, Places
  <1>6. pc = "idle"
    BY <1>2 DEF Place, Works, Places
  <1>7. Works' /\ Claims'
    BY <1>1, <1>3, <1>4, <1>6, EnvelopeHeld, PlacesApart
    DEF Place, Works, Claims, Working, wake, Places
  <1> QED
    BY <1>1, <1>5, <1>7 DEF Place

(***************************************************************************)
(* Commands.                                                               *)
(***************************************************************************)
\* A command writes the envelope of a task that is not settled, or has failed
\* already; unless it is the operator's, that envelope can be claimed if the task
\* could be run.
LEMMA RewritePlace ==
  ASSUME IInv, Place, NEW u \in Tasks, Rewrite(u), pc = "idle",
         disk.status # "accepted", disk.status = "failed" => u = disk, Resumable(u),
         spent'["commands"] = 0 =>
           /\ spent["commands"] = 0
           /\ disk.status # "ready" \/ disk.active.state # "none"
           /\ disk.status # "failed"
           /\ Eligible(disk) => Eligible(u)
  PROVE  Place'
  <1>1. /\ pend' = {u} /\ disk' = disk /\ pc' = "idle" /\ enqueue' = enqueue
        /\ env \in [Places -> Tasks \union {NoEnvelope}] /\ u # NoEnvelope
        /\ u.status \in Statuses
    BY EnvelopeHeld DEF Rewrite, wake, IInv, TypeOK
  <1>2. env["success"] = NoEnvelope /\ (env["fail"] # NoEnvelope => disk.status = "failed")
    BY DEF Place, Agrees
  <1>3. Works'
    BY <1>1 DEF Works, Working
  <1>4. SUFFICES OneEnvelope' /\ Agrees' /\ Claims'
    BY <1>1, <1>3 DEF Place
  <1>5. CASE env["runtime"] = NoEnvelope /\ env["input"] = NoEnvelope
    <2>1. env' = env
      BY <1>5 DEF Rewrite
    <2>2. spent'["commands"] # 0
      <3> SUFFICES ASSUME spent'["commands"] = 0 PROVE FALSE
        OBVIOUS
      <3>1. enqueue = "done" /\ disk.status # "failed"
        BY DEF Place, Claims
      <3> QED
        BY <1>2, <1>5, <3>1 DEF Place, OneEnvelope, Places
    <2> QED
      BY <1>1, <2>1, <2>2 DEF Place, OneEnvelope, Agrees, Claims
  <1>6. CASE env["runtime"] # NoEnvelope \/ env["input"] # NoEnvelope
    <2>1. enqueue = "done"
      BY <1>6 DEF Place, OneEnvelope, Places
    <2>2. PICK p \in Places : env[p] # NoEnvelope /\ \A q \in Places \ {p} : env[q] = NoEnvelope
      BY <2>1 DEF Place, OneEnvelope
    <2>3. p \in {"input", "runtime"}
      BY <1>6, <2>2 DEF Places
    <2>4. env' = [env EXCEPT ![p] = u]
      BY <2>2, <2>3 DEF Rewrite, Places
    <2>5. env'[p] = u /\ \A q \in Places \ {p} : env'[q] = NoEnvelope
      BY <1>1, <2>2, <2>4
    <2>6. OneEnvelope' /\ Agrees'
      BY <1>1, <2>1, <2>3, <2>5 DEF OneEnvelope, Agrees, Places
    <2>7. Claims'
      <3> SUFFICES ASSUME spent'["commands"] = 0 PROVE Claims'
        BY DEF Claims
      <3>1. p = "runtime"
        BY <2>2, <2>3 DEF Place, Claims
      <3>2. env'["input"] = NoEnvelope /\ env'["runtime"] = u
        BY <2>5, <3>1 DEF Places
      <3> QED
        BY <1>1, <2>1, <3>2 DEF Claims, Eligible, Unclaimable
    <2> QED
      BY <2>6, <2>7
  <1> QED
    BY <1>5, <1>6

LEMMA CommandPlace ==
  ASSUME IInv, Place, Command, Overlap = FALSE
  PROVE  Place'
  <1>1. disk \in Tasks /\ spent \in [Kinds -> Nat] /\ Resumable(disk)
    BY DEF IInv, TypeOK, Place
  <1>2. Spend("commands") => spent'["commands"] # 0
    BY <1>1, SpendCommands DEF Kinds
  <1>3. ASSUME NEW s \in Statuses
        PROVE  /\ Moved(disk, s) \in Tasks /\ Moved(disk, s).status = s
               /\ s # "usage-limited" => Resumable(Moved(disk, s))
    BY <1>1, MovedTask DEF Resumable
  <1>4. /\ PhaseStatus(disk) \in Statuses \ (Unclaimable \union {"usage-limited"})
    BY DEF PhaseStatus, Statuses, Unclaimable, Terminal
  <1>5. CASE ReconcileCompleted
    <2>1. Eligible(Moved(disk, PhaseStatus(disk)))
      BY <1>3, <1>4 DEF Eligible, Unclaimable
    <2> QED
      BY <1>3, <1>4, <1>5, <2>1, RewritePlace DEF ReconcileCompleted, Terminal
  <1>6. CASE ReconcileKeeps
    BY <1>1, <1>6, RewritePlace DEF ReconcileKeeps, Terminal
  <1>7. CASE ReconcileStale
    <2> DEFINE s == PhaseStatus(disk)
               u == [Moved(disk, s) EXCEPT !.active = NoTurn, !.history = Abandoned(disk, FALSE),
                                           !.res = @ + 1, !.blocker = "none"]
    <2>1. u \in Tasks
      BY <1>1, <1>4, AbandonedTask DEF Abandons
    <2>2. u.status = s
      BY <1>1 DEF Moved, Tasks
    <2>3. Rewrite(u) /\ pc = "idle" /\ disk.active.state # "none" /\ spent' = spent
          /\ disk.status \notin Terminal
      BY <1>7 DEF ReconcileStale
    <2> HIDE DEF u
    <2>4. Resumable(u) /\ Eligible(u)
      BY <1>4, <2>2 DEF Resumable, Eligible, Unclaimable
    <2> QED
      BY <2>1, <2>3, <2>4, RewritePlace DEF Terminal
  <1>8. CASE Recover
    <2> DEFINE s == IF Concrete(disk) THEN "revision" ELSE "ready"
               n == IF Concrete(disk) THEN disk.recoveries ELSE disk.recoveries + 1
               u == [Moved(disk, s) EXCEPT !.active = NoTurn, !.history = Abandoned(disk, FALSE),
                                           !.blocker = "none", !.recoveries = n]
    <2>1. s \in Statuses \ (Unclaimable \union {"usage-limited"}) /\ n \in Nat
      BY <1>1 DEF Statuses, Tasks, Unclaimable, Terminal
    <2>2. u \in Tasks
      BY <1>1, <2>1, AbandonedTask DEF Abandons
    <2>3. u.status = s /\ Moved(disk, s).recoveries = disk.recoveries
      BY <1>1 DEF Moved, Tasks
    <2>4. Rewrite(u) /\ pc = "idle" /\ disk.status = "blocked" /\ spent' = spent
      BY <1>8, <2>3 DEF Recover
    <2> HIDE DEF u
    <2>5. Resumable(u) /\ Eligible(u)
      BY <2>1, <2>3 DEF Resumable, Eligible, Unclaimable
    <2> QED
      BY <2>2, <2>4, <2>5, RewritePlace DEF Terminal
  <1>9. CASE Resume
    <2> DEFINE u == [Moved(disk, "ready") EXCEPT !.active = NoTurn,
                                                 !.history = Abandoned(disk, TRUE), !.res = @ + 1]
    <2>1. u \in Tasks
      BY <1>1, AbandonedTask DEF Abandons, Statuses
    <2>2. u.status = "ready"
      BY <1>1 DEF Moved, Tasks
    <2>3. /\ Rewrite(u) /\ pc = "idle" /\ Spend("commands")
          /\ disk.status \in {"blocked", "usage-limited"}
      BY <1>9 DEF Resume, Commanded
    <2> HIDE DEF u
    <2> QED
      BY <1>2, <2>1, <2>2, <2>3, RewritePlace DEF Resumable, Terminal
  <1>10. CASE HumanBlock
    <2> DEFINE u == [Moved(disk, "blocked") EXCEPT !.blocker = "decision"]
    <2>1. Moved(disk, "blocked") \in Tasks
      BY <1>3 DEF Statuses
    <2>2. u \in Tasks
      BY <2>1, DecidedTask
    <2>3. u.status = "blocked"
      BY <1>1 DEF Moved, Tasks
    <2>4. /\ Rewrite(u) /\ pc = "idle" /\ Spend("commands")
          /\ disk.status \notin Terminal
      BY <1>10 DEF HumanBlock, Commanded, CanMove, Terminal
    <2> HIDE DEF u
    <2> QED
      BY <1>2, <2>2, <2>3, <2>4, RewritePlace DEF Resumable, Terminal
  <1>11. CASE HumanFail
    <2> DEFINE u == IF disk.status = "failed" THEN disk ELSE Moved(disk, "failed")
    <2>1. u \in Tasks /\ Resumable(u) /\ (disk.status = "failed" => u = disk)
      BY <1>1, <1>3 DEF Statuses
    <2>2. Rewrite(u) /\ pc = "idle" /\ Spend("commands") /\ disk.status # "accepted"
      BY <1>11 DEF HumanFail, Commanded
    <2> HIDE DEF u
    <2> QED
      BY <1>2, <2>1, <2>2, RewritePlace
  <1>12. CASE Rewritten
    <2>1. /\ disk' \in pend /\ pend' \in {{}, pend} /\ env' = env /\ wake' = wake
          /\ spent' = spent /\ enqueue' = enqueue /\ pc' = "idle"
          /\ disk.status \notin Terminal /\ (pend' # {} => disk'.status = "failed")
      BY <1>12 DEF Rewritten, Leaving, IInv, wake, Place, Terminal
    <2>2. disk' \in Tasks /\ disk' # NoEnvelope
      BY <2>1, EnvelopeHeld DEF IInv, TypeOK
    <2>3. env["success"] = NoEnvelope /\ env["fail"] = NoEnvelope
      BY <2>1 DEF Place, Agrees, Terminal
    <2>4. OneEnvelope' /\ Agrees' /\ Works'
      BY <2>1, <2>3 DEF Place, OneEnvelope, Agrees, Works, Working
    <2>5. Claims'
      <3> SUFFICES ASSUME spent["commands"] = 0 PROVE Claims'
        BY <2>1 DEF Claims
      <3>1. env["runtime"] = disk' /\ \A u \in pend : env["runtime"] = u
        BY <2>1 DEF Place, Claims
      <3>2. env["input"] = NoEnvelope /\ enqueue = "done"
        BY <2>2, <3>1, OnlyRuntime DEF Place
      <3> QED
        BY <2>1, <3>1, <3>2 DEF Claims, Eligible, Unclaimable
    <2> QED
      BY <2>1, <2>4, <2>5 DEF Place
  <1>13. CASE Withdraw
    <2>1. /\ disk.status = "failed" /\ disk \in pend /\ pend' = {} /\ disk' = disk
          /\ pc' = "idle" /\ enqueue' = enqueue /\ spent' = spent
      BY <1>13 DEF Withdraw, Leaving, IInv, wake
    <2>2. env \in [Places -> Tasks \union {NoEnvelope}]
      BY DEF IInv, TypeOK
    <2>3. Works'
      BY <2>1 DEF Works, Working
    <2>4. CASE enqueue # "done"
      <3>1. env' = env
        BY <1>13, <2>4 DEF Withdraw, Place, OneEnvelope, Places
      <3> QED
        BY <2>1, <2>3, <3>1 DEF Place, OneEnvelope, Agrees, Claims
    <2>5. CASE enqueue = "done"
      <3>1. PICK p \in Places : env[p] # NoEnvelope /\ \A q \in Places \ {p} : env[q] = NoEnvelope
        BY <2>5 DEF Place, OneEnvelope
      <3>2. p # "success"
        BY <2>1, <3>1 DEF Place, Agrees
      <3>3. env' = IF p \in {"runtime", "input"}
                   THEN [env EXCEPT ![p] = NoEnvelope, !["fail"] = env[p]] ELSE env
        <4>1. CASE p = "runtime"
          BY <1>13, <3>1, <4>1 DEF Withdraw, Places
        <4>2. CASE p = "input"
          BY <1>13, <3>1, <4>2 DEF Withdraw, Places
        <4>3. CASE p = "fail"
          BY <1>13, <3>1, <4>3 DEF Withdraw, Places
        <4> QED
          BY <3>2, <4>1, <4>2, <4>3 DEF Places
      <3>4. env'["fail"] # NoEnvelope /\ \A q \in Places \ {"fail"} : env'[q] = NoEnvelope
        BY <2>2, <3>1, <3>2, <3>3 DEF Places
      <3>5. OneEnvelope' /\ Agrees' /\ Claims'
        BY <2>1, <2>5, <3>4, EnvelopeHeld, PlacesApart
        DEF OneEnvelope, Agrees, Claims, Places
      <3> QED
        BY <2>1, <2>3, <3>5 DEF Place
    <2> QED
      BY <2>4, <2>5
  <1> QED
    BY <1>5, <1>6, <1>7, <1>8, <1>9, <1>10, <1>11, <1>12, <1>13 DEF Command

(***************************************************************************)
(* The theorems.                                                           *)
(***************************************************************************)
LEMMA InitPlace == Init => Place
  <1> SUFFICES ASSUME Init PROVE Place
    OBVIOUS
  <1>1. /\ disk.status = "ready" /\ disk.active.state = "none" /\ pend = {} /\ pc = "idle"
        /\ enqueue = "begun" /\ \A p \in Places : env[p] = NoEnvelope
    BY DEF Init, NewTask, NoTurn
  <1>2. OneEnvelope /\ Agrees
    BY <1>1 DEF OneEnvelope, Agrees, Places
  <1>3. Works /\ Claims
    BY <1>1, EnvelopeHeld, PlacesApart DEF Works, Claims, Working, Places
  <1> QED
    BY <1>1, <1>2, <1>3 DEF Place, Resumable

LEMMA NextPlace ==
  ASSUME IInv, Place, [Next]_vars, Overlap = FALSE
  PROVE  Place'
  <1>1. CASE UNCHANGED vars
    BY <1>1 DEF vars, wake, Place, OneEnvelope, Agrees, Works, Claims
  <1> QED
    BY <1>1, ClaimPlace, WakePlace, EnqueuePlace, CommandPlace, EnvironmentPlace DEF Next

\* The envelope of a task is where its status file says.
LEMMA PlaceInvariance == ASSUME Overlap = FALSE PROVE Spec => [](IInv /\ Place)
  <1>1. IInv /\ Place /\ [Next]_vars => Place'
    BY NextPlace
  <1> QED
    BY <1>1, Invariance, InitPlace, PTL DEF Spec

\* The task has one envelope once it is queued and none before, and a settled
\* directory holds what the status file says, for any verdicts, limits, wakes and
\* troubles, a crash while it is queued among them.
THEOREM WorkSettledAgrees == ASSUME Overlap = FALSE PROVE Spec => []SettledAgrees
  <1>1. Place => SettledAgrees
    <2> SUFFICES ASSUME Place PROVE SettledAgrees
      OBVIOUS
    <2> DEFINE held == {q \in Places : env[q] # NoEnvelope}
    <2>1. CASE enqueue = "done"
      <3>1. PICK p \in Places : env[p] # NoEnvelope /\ \A q \in Places \ {p} : env[q] = NoEnvelope
        BY <2>1 DEF Place, OneEnvelope
      <3>2. held = {p}
        BY <3>1
      <3>3. Cardinality(held) = 1
        BY <3>2, FS_Singleton
      <3> QED
        BY <2>1, <3>3 DEF SettledAgrees, Place, Agrees
    <2>2. CASE enqueue # "done"
      <3>1. held = {}
        BY <2>2 DEF Place, OneEnvelope
      <3>2. Cardinality(held) = 0
        BY <3>1, FS_EmptySet
      <3> QED
        BY <2>2, <3>2 DEF SettledAgrees, Place, Agrees
    <2> QED
      BY <2>1, <2>2
  <1> QED
    BY <1>1, PlaceInvariance, PTL

\* What the scheduler selects it can claim, for a task whose queueing was not
\* killed, as long as no operator has rewritten it.
THEOREM WorkRunnableIsClaimable == ASSUME Overlap = FALSE PROVE Spec => []RunnableIsClaimable
  <1>1. IInv /\ Place => RunnableIsClaimable
    <2> SUFFICES ASSUME IInv, Place, pc = "idle", enqueue = "done", Eligible(disk),
                        spent["commands"] = 0
                 PROVE  Claimable("background")
      BY DEF RunnableIsClaimable
    <2>1. PICK p \in Places : env[p] # NoEnvelope
      BY DEF Place, OneEnvelope
    <2>2. p \in {"input", "runtime"}
      BY <2>1 DEF Place, Agrees, Eligible, Terminal, Places
    <2> QED
      BY <2>1, <2>2 DEF Place, Claims, Claimable, Unclaimable
  <1> QED
    BY <1>1, PlaceInvariance, PTL

(***************************************************************************)
(* What a verdict was given on.  While only implementation turns commit,   *)
(* the checkout cannot change between a review turn and its capture: the   *)
(* stored result is an unresolved turn, beside which none is begun.        *)
(***************************************************************************)
\* The verdict on record, and the stored one, are about the checkout v.
SeenIn(t, v) ==
  /\ t.review.seen # 0 => t.review.seen = t.review.evidence
  /\ t.active.state = "completed" /\ Looks(t.active.id[1]) /\ t.active.seen # 0
       => t.active.seen = v

\* A failed task, which may be an older one, stays failed.
Sighted ==
  /\ disk.status # "failed" => SeenIn(disk, tree)
  /\ \A u \in pend : u.status # "failed" => SeenIn(u, tree)
  /\ pc = "turn" /\ Looks(mem.active.id[1]) => before = tree

SightInv == spent.edits = 0 => Sighted

\* u has t's verdict, and no stored result but t's.
KeepsSight(t, u) ==
  u.review = t.review /\ (u.active = t.active \/ u.active.state # "completed")

LEMMA SightKept ==
  ASSUME NEW t, NEW u, NEW v, SeenIn(t, v), KeepsSight(t, u)
  PROVE  SeenIn(u, v)
  BY DEF SeenIn, KeepsSight

\* transitionWorkTask, and the fields a decision sets beside it.
LEMMA MovedSight ==
  ASSUME NEW t \in Tasks, NEW s \in Statuses
  PROVE  /\ KeepsSight(t, Moved(t, s))
         /\ KeepsSight(t, [Moved(t, s) EXCEPT !.blocker = "decision"])
  BY DEF Tasks, Moved, KeepsSight

\* fail
LEMMA FailedSight ==
  ASSUME NEW t \in Tasks,
         NEW kind \in {"infrastructure", "failed", "ambiguous", "usage-limited", "interrupted"}
  PROVE  KeepsSight(t, Failed(t, kind))
  <1>1. \/ Failed(t, kind).active = NoTurn \/ Failed(t, kind).active = t.active
        \/ Failed(t, kind).active.state = "ambiguous"
    BY FailedTask, TurnTypes
  <1>2. NoTurn.state # "completed"
    BY DEF NoTurn
  <1>3. Failed(t, kind).review = t.review
    BY DEF Failed, Moved, Tasks
  <1> QED
    BY <1>1, <1>2, <1>3 DEF KeepsSight

\* Nothing that counts no edit is an edit.
LEMMA NoEdit ==
  ASSUME spent \in [Kinds -> Nat], Next, spent'.edits = 0
  PROVE  spent.edits = 0 /\ ~Edit
  <1>1. ASSUME NEW k \in Kinds, Spend(k)
        PROVE  spent.edits = 0 /\ k # "edits"
    BY <1>1 DEF Spend, Kinds
  <1>2. ~Edit
    BY <1>1 DEF Edit, Kinds
  <1>3. CASE spent' = spent
    BY <1>2, <1>3
  <1>4. CASE \E k \in Kinds : Spend(k)
    BY <1>1, <1>2, <1>4
  <1>5. ASSUME Wake
        PROVE  spent' = spent \/ \E k \in Kinds : Spend(k)
    BY <1>5 DEF Wake, WriteEnvelope, Load, Prepare, AckSuccess, AckFail, PrepareFails, Turn,
       BeginTurn, ReuseResult, RefuseTurn, OpenFails, Answer, TurnFails, Capture, CapturePlan,
       CaptureImplementation, CaptureReview, RejectReview, CaptureConvergence, CaptureFails,
       Decide, Enter, Refocus, Correct, SkipImplementation, Pause, ToReview, Accept, Block,
       Replan, Replanned, Revise, Revised, Continue, Step, Kinds
  <1>6. ASSUME Command
        PROVE  spent' = spent \/ \E k \in Kinds : Spend(k)
    BY <1>6 DEF Command, ReconcileCompleted, ReconcileStale, ReconcileKeeps, Recover, Resume,
       HumanBlock, HumanFail, Rewritten, Withdraw, Commanded, Kinds
  <1>7. ASSUME (\E m \in Modes : Claim(m)) \/ Crash \/ CommandCrash \/ EnqueueCrash
        PROVE  \E k \in Kinds : Spend(k)
    BY <1>7 DEF Claim, Crash, CommandCrash, EnqueueCrash, Kinds
  <1> QED
    BY <1>2, <1>3, <1>4, <1>5, <1>6, <1>7 DEF Next, EnqueueEnvelope

\* The wake that works on the task knows no verdict but such a one.
LEMMA HeldSight ==
  ASSUME IInv, Place, Sighted, pc \in Working
  PROVE  /\ mem \in Tasks /\ mem = disk /\ SeenIn(mem, tree) /\ pend = {}
         /\ pc \notin {"idle", "claimed"}
  <1>1. mem = disk /\ pend = {} /\ pc \notin {"idle", "claimed"}
    BY DEF IInv, Holds, Working
  <1>2. mem \in Tasks /\ mem.status # "failed"
    BY HeldPlace DEF Eligible, Terminal
  <1> QED
    BY <1>1, <1>2 DEF Sighted

\* A wake writes a task that keeps the sight of its reviews.
LEMMA SaveSight ==
  ASSUME IInv, pc \notin {"idle", "claimed"}, NEW t, NEW next, Save(t, next),
         SeenIn(t, tree'),
         next = "turn" /\ Looks(t.active.id[1]) => before' = tree'
  PROVE  Sighted'
  <1>1. pend = {}
    BY DEF IInv
  <1> QED
    BY <1>1 DEF Save, Sighted

\* The same, where the verdict and the stored result stay as they were.
LEMMA SaveSameSight ==
  ASSUME IInv, Place, Sighted, pc \in Working, NEW t, NEW next, Save(t, next),
         KeepsSight(mem, t), next # "turn", tree' = tree
  PROVE  Sighted'
  <1>1. SeenIn(mem, tree) /\ pc \notin {"idle", "claimed"}
    BY HeldSight
  <1>2. SeenIn(t, tree')
    BY <1>1, SightKept
  <1> QED
    BY <1>1, <1>2, SaveSight

LEMMA FailSight ==
  ASSUME IInv, pc \notin {"idle", "claimed"}, SeenIn(mem, tree'),
         NEW kind \in {"infrastructure", "failed", "ambiguous", "usage-limited", "interrupted"},
         Fail(kind)
  PROVE  Sighted'
  <1> DEFINE t == Failed(mem, kind)
             next == IF t.status = "failed" THEN "failing" ELSE "end"
  <1>1. KeepsSight(mem, t)
    BY HeldTask, FailedSight
  <1>2. SeenIn(t, tree')
    BY <1>1, SightKept
  <1>3. Save(t, next) /\ next # "turn"
    BY DEF Fail
  <1> HIDE DEF t, next
  <1> QED
    BY <1>2, <1>3, SaveSight

LEMMA TurnSight ==
  ASSUME IInv, Place, Sighted, NEW phase \in Phases, Turn(phase)
  PROVE  Sighted'
  <1> USE DEF Turning, Awake
  <1>1. /\ mem \in Tasks /\ mem = disk /\ pc = "loop" /\ tree' = tree
        /\ before' = IF Looks(phase) THEN tree ELSE 0
    BY HeldTask DEF Turn, BeginTurn, ReuseResult, RefuseTurn, OpenFails
  <1>2. SeenIn(mem, tree')
    BY <1>1, HeldSight DEF Working
  <1>3. CASE BeginTurn(phase)
    <2> DEFINE turn == [state |-> "started", id |-> Identity(mem, phase),
                        decision |-> "none", seen |-> 0]
               t == [mem EXCEPT !.active = turn]
    <2>1. t.active = turn /\ t.review = mem.review
      BY <1>1 DEF Tasks
    <2>2. turn.state = "started" /\ turn.id[1] = phase
      BY <1>1, IdentityType
    <2>3. Save(t, "turn")
      BY <1>3 DEF BeginTurn
    <2> HIDE DEF turn, t
    <2>4. SeenIn(t, tree')
      BY <1>2, <2>1, <2>2, SightKept DEF KeepsSight
    <2> QED
      BY <1>1, <2>1, <2>2, <2>3, <2>4, SaveSight
  <1>4. CASE ReuseResult(phase)
    BY <1>1, <1>2, <1>4, SaveSight DEF ReuseResult
  <1>5. CASE RefuseTurn(phase)
    BY <1>1, <1>2, <1>5, FailSight DEF RefuseTurn
  <1>6. CASE OpenFails(phase)
    BY <1>1, <1>2, <1>6, FailSight DEF OpenFails
  <1> QED
    BY <1>3, <1>4, <1>5, <1>6 DEF Turn

\* A turn that has begun stores nothing yet: it may commit.
LEMMA BegunSight ==
  ASSUME IInv, Place, Sighted, pc = "turn", NEW v
  PROVE  SeenIn(mem, v) /\ SeenIn(disk, v) /\ mem \in Tasks /\ mem.active.state = "started"
  <1>1. mem \in Tasks /\ mem = disk /\ mem.active.state = "started"
    BY HeldTask DEF IInv, TurnAtStep
  <1>2. SeenIn(mem, tree)
    BY HeldSight DEF Working
  <1> QED
    BY <1>1, <1>2 DEF SeenIn

\* The result is stored with the checkout its reviewer was given, which the
\* review has not changed.
LEMMA AnswerSight ==
  ASSUME IInv, Place, Sighted, Answer
  PROVE  Sighted'
  <1>1. pc = "turn" /\ before' = before /\ tree' \in Worked
    BY DEF Answer, Awake
  <1>2. PICK decision \in Decisions(mem.active.id[1]) :
          Save([mem EXCEPT !.active.state = "completed", !.active.decision = decision,
                           !.active.seen = before], "result")
    BY DEF Answer
  <1> DEFINE turn == [mem.active EXCEPT !.state = "completed", !.decision = decision,
                                        !.seen = before]
             t == [mem EXCEPT !.active = turn]
  <1>3. SeenIn(mem, tree') /\ mem \in Tasks /\ mem.active.state = "started"
    BY <1>1, BegunSight
  <1>4. mem.active \in [state : {"started", "completed", "ambiguous"}, id : Ids,
                        decision : Verdicts \union {"none", "CONTINUE", "SPLIT"}, seen : Nat]
    BY <1>3 DEF Tasks, Turns, NoTurn
  <1>5. turn.id = mem.active.id /\ turn.seen = before
    BY <1>4
  <1>6. Save(t, "result")
    BY <1>2, <1>3, <1>4 DEF Tasks
  <1>7. t.active = turn /\ t.review = mem.review
    BY <1>3 DEF Tasks
  <1>8. Looks(mem.active.id[1]) => before = tree /\ tree' = tree
    BY <1>1 DEF Sighted, Worked, Looks
  <1> HIDE DEF turn, t
  <1>9. SeenIn(t, tree')
    BY <1>3, <1>5, <1>7, <1>8 DEF SeenIn
  <1> QED
    BY <1>1, <1>6, <1>9, SaveSight

\* captureTurn keeps the last verdict but for a review, whose verdict is put on
\* record with the checkout as it is.
LEMMA CaptureSight ==
  ASSUME IInv, Place, Sighted, Capture
  PROVE  Sighted'
  <1> USE DEF Awake
  <1>1. pc = "result" /\ tree' = tree /\ mem.active.state = "completed" /\ pc \in Working
    BY DEF Capture, CapturePlan, CaptureImplementation, CaptureReview, RejectReview,
       CaptureConvergence, CaptureFails, IInv, TurnAtStep, Working
  <1>2. mem \in Tasks /\ mem = disk /\ SeenIn(mem, tree)
    BY <1>1, HeldSight
  <1> DEFINE c == Consumed(mem)
  <1>3. c \in Tasks /\ c.active = NoTurn /\ c.review = mem.review
    BY <1>1, <1>2, ConsumedTask DEF Consumed, Tasks
  <1>4. NoTurn.state # "completed"
    BY DEF NoTurn
  <1> HIDE DEF c
  <1>5. CASE CapturePlan
    <2> DEFINE t == [c EXCEPT !.plan = TRUE]
    <2>1. t.active = NoTurn /\ t.review = mem.review
      BY <1>3 DEF Tasks
    <2>2. Save(t, "loop")
      BY <1>5 DEF CapturePlan, c
    <2> HIDE DEF t
    <2> QED
      BY <1>1, <1>4, <2>1, <2>2, SaveSameSight DEF KeepsSight
  <1>6. CASE CaptureImplementation
    <2>1. PICK ready \in BOOLEAN :
            Save([c EXCEPT !.passes = @ + 1, !.reviewReady = ready, !.commit = tree,
                           !.fresh = FALSE,
                           !.noProgress = IF tree # mem.commit THEN 0 ELSE @ + 1],
                 "implemented")
      BY <1>6 DEF CaptureImplementation, c
    <2> DEFINE t == [c EXCEPT !.passes = @ + 1, !.reviewReady = ready, !.commit = tree,
                              !.fresh = FALSE,
                              !.noProgress = IF tree # mem.commit THEN 0 ELSE @ + 1]
    <2>2. t.active = NoTurn /\ t.review = mem.review
      BY <1>3 DEF Tasks
    <2>3. Save(t, "implemented")
      BY <2>1
    <2> HIDE DEF t
    <2> QED
      BY <1>1, <1>4, <2>2, <2>3, SaveSameSight DEF KeepsSight
  <1>7. CASE CaptureReview
    <2> DEFINE r == [decision |-> mem.active.decision, seen |-> mem.active.seen,
                     evidence |-> tree]
               t == [c EXCEPT !.review = r]
    <2>1. Save(t, "loop") /\ Looks(mem.active.id[1])
      BY <1>7 DEF CaptureReview, c
    <2>2. r.seen = mem.active.seen /\ r.evidence = tree
      OBVIOUS
    <2>3. t.active = NoTurn /\ t.review = r
      BY <1>3 DEF Tasks
    <2> HIDE DEF r, t
    <2>4. SeenIn(t, tree')
      BY <1>1, <1>2, <1>4, <2>1, <2>2, <2>3 DEF SeenIn
    <2> QED
      BY <1>1, <2>1, <2>4, SaveSight
  <1>8. CASE RejectReview \/ CaptureFails
    BY <1>1, <1>2, <1>8, FailSight DEF RejectReview, CaptureFails
  <1>9. CASE CaptureConvergence
    <2> DEFINE t == [c EXCEPT !.reviewCount = @ + 1, !.fresh = TRUE,
                              !.focused = mem.active.decision]
    <2>1. t.active = NoTurn /\ t.review = mem.review
      BY <1>3 DEF Tasks
    <2>2. Save(t, "loop")
      BY <1>9 DEF CaptureConvergence, c
    <2> HIDE DEF t
    <2> QED
      BY <1>1, <1>4, <2>1, <2>2, SaveSameSight DEF KeepsSight
  <1> QED
    BY <1>5, <1>6, <1>7, <1>8, <1>9 DEF Capture

\* A step of the loop touches neither verdict nor result.
LEMMA StepSight ==
  ASSUME IInv, Place, Sighted, pc \in Working, NEW t,
         NEW next \in {"loop", "end", "accepted", "replanned", "revised"},
         Step(t, next), KeepsSight(mem, t)
  PROVE  Sighted'
  BY SaveSameSight DEF Step

\* Steps that leave the task and the checkout alone.
LEMMA QuietSight ==
  ASSUME Sighted, disk' = disk, tree' = tree, pend' \subseteq pend,
         pc' # "turn" \/ (pc' = pc /\ mem' = mem /\ before' = before)
  PROVE  Sighted'
  BY DEF Sighted

LEMMA DecideSight ==
  ASSUME IInv, Place, Sighted, Decide
  PROVE  Sighted'
  <1> USE DEF Awake, Decided
  <1>1. mem \in Tasks /\ pc \in Working
    BY HeldTask DEF Decide, Enter, Refocus, Correct, SkipImplementation, Pause, ToReview,
       Accept, Block, Replan, Replanned, Revise, Revised, Continue, Working
  <1>2. ASSUME NEW s \in Statuses, NEW next \in {"loop", "end", "accepted"},
               Step(Moved(mem, s), next)
        PROVE  Sighted'
    BY <1>1, <1>2, MovedSight, StepSight
  <1>3. ASSUME Step([Moved(mem, "blocked") EXCEPT !.blocker = "decision"], "end")
        PROVE  Sighted'
    BY <1>1, <1>3, MovedSight, StepSight DEF Statuses
  <1>4. CASE Enter
    <2>1. mem.prev \in Statuses
      BY <1>1 DEF Tasks
    <2> QED
      BY <1>2, <1>4, <2>1 DEF Enter, Statuses
  <1>5. CASE Refocus
    <2> DEFINE t == [mem EXCEPT !.noProgress = 0]
    <2>1. KeepsSight(mem, t)
      BY <1>1 DEF Tasks, KeepsSight
    <2>2. Step(t, "loop") \/ Step([Moved(mem, "blocked") EXCEPT !.blocker = "decision"], "end")
      BY <1>5 DEF Refocus
    <2> HIDE DEF t
    <2> QED
      BY <1>1, <1>3, <2>1, <2>2, StepSight
  <1>6. CASE SkipImplementation
    BY <1>6, QuietSight DEF SkipImplementation
  <1>7. CASE Pause
    BY <1>1, <1>7, StepSight DEF Pause, KeepsSight
  <1>8. CASE Replan
    <2> DEFINE t == [mem EXCEPT !.passes = 0, !.reviewReady = FALSE]
    <2>1. KeepsSight(mem, t)
      BY <1>1 DEF Tasks, KeepsSight
    <2>2. Step(t, "replanned")
      BY <1>8 DEF Replan
    <2> HIDE DEF t
    <2> QED
      BY <1>1, <2>1, <2>2, StepSight
  <1>9. CASE Revise
    <2> DEFINE t == [mem EXCEPT !.rev = @ + 1, !.passes = 0, !.reviewReady = FALSE]
    <2>1. KeepsSight(mem, t)
      BY <1>1 DEF Tasks, KeepsSight
    <2>2. Step(t, "revised")
      BY <1>9 DEF Revise
    <2> HIDE DEF t
    <2> QED
      BY <1>1, <2>1, <2>2, StepSight
  <1>10. CASE Correct \/ ToReview \/ Accept \/ Replanned \/ Revised \/ Continue
    BY <1>2, <1>10 DEF Correct, ToReview, Accept, Replanned, Revised, Continue, Statuses
  <1>11. CASE Block
    BY <1>3, <1>11 DEF Block
  <1> QED
    BY <1>4, <1>5, <1>6, <1>7, <1>8, <1>9, <1>10, <1>11 DEF Decide

LEMMA WakeSight ==
  ASSUME IInv, Place, Sighted, Wake
  PROVE  Sighted'
  <1> USE DEF Awake
  <1>1. CASE WriteEnvelope
    BY <1>1, QuietSight DEF WriteEnvelope, Return
  <1>2. CASE Load
    BY <1>2, QuietSight DEF Load, Return
  <1>3. CASE AckSuccess
    BY <1>3, QuietSight DEF AckSuccess, Return
  <1>8. CASE AckFail /\ CanMove(env["runtime"].status, "failed")
    <2>1. env["runtime"] \in Tasks /\ pend = {} /\ pc' = "idle" /\ pend' = pend
          /\ disk' = Moved(env["runtime"], "failed")
      BY <1>8, EnvelopeHeld
      DEF AckFail, Return, Place, Works, IInv, TypeOK, Holds, Places
    <2>2. disk'.status = "failed"
      BY <2>1, MovedStatus DEF Statuses
    <2> QED
      BY <2>1, <2>2 DEF Sighted
  <1>9. CASE AckFail /\ ~CanMove(env["runtime"].status, "failed")
    BY <1>9, QuietSight DEF AckFail, Return
  <1>4. ASSUME pc = "prepare"
        PROVE  SeenIn(mem, tree) /\ pc \notin {"idle", "claimed"}
    BY <1>4, HeldSight DEF Working
  <1>5. CASE Prepare
    BY <1>4, <1>5, SaveSight DEF Prepare
  <1>6. ASSUME NEW kind \in {"infrastructure", "failed"}, PrepareFails(kind)
        PROVE  Sighted'
    BY <1>4, <1>6, FailSight DEF PrepareFails
  <1>7. ASSUME NEW kind \in {"usage-limited", "interrupted"}, TurnFails(kind)
        PROVE  Sighted'
    BY <1>7, BegunSight, FailSight DEF TurnFails
  <1> QED
    BY <1>1, <1>2, <1>3, <1>5, <1>6, <1>7, <1>8, <1>9, TurnSight, AnswerSight, CaptureSight,
       DecideSight
    DEF Wake

\* No command rewrites a verdict, or makes up a stored result.
LEMMA RewriteSight ==
  ASSUME IInv, Sighted, pc = "idle", NEW t, Rewrite(t),
         t.status # "failed" => disk.status # "failed" /\ KeepsSight(disk, t)
  PROVE  Sighted'
  <1>1. t.status # "failed" => SeenIn(t, tree)
    BY SightKept DEF Sighted
  <1> QED
    BY <1>1 DEF Rewrite, Sighted, wake

LEMMA CommandSight ==
  ASSUME IInv, Place, Sighted, Command, Overlap = FALSE
  PROVE  Sighted'
  <1>1. disk \in Tasks /\ NoTurn.state # "completed" /\ PhaseStatus(disk) \in Statuses
    BY PhaseStatusType DEF IInv, TypeOK, NoTurn
  <1>2. CASE ReconcileCompleted
    BY <1>1, <1>2, MovedSight, RewriteSight DEF ReconcileCompleted, Terminal
  <1>3. CASE ReconcileKeeps
    BY <1>1, <1>3, RewriteSight DEF ReconcileKeeps, KeepsSight, Terminal
  <1>4. ASSUME NEW t, Rewrite(t), pc = "idle", t.active = NoTurn, t.review = disk.review,
               disk.status # "failed"
        PROVE  Sighted'
    BY <1>1, <1>4, RewriteSight DEF KeepsSight
  <1>5. CASE ReconcileStale
    <2> DEFINE t == [Moved(disk, PhaseStatus(disk)) EXCEPT
                       !.active = NoTurn, !.history = Abandoned(disk, FALSE),
                       !.res = @ + 1, !.blocker = "none"]
    <2>1. t.active = NoTurn /\ t.review = disk.review
      BY <1>1 DEF Moved, Tasks
    <2>2. Rewrite(t) /\ pc = "idle" /\ disk.status # "failed"
      BY <1>5 DEF ReconcileStale, Terminal
    <2> HIDE DEF t
    <2> QED
      BY <1>4, <2>1, <2>2
  <1>6. CASE Recover
    <2> DEFINE t == [Moved(disk, IF Concrete(disk) THEN "revision" ELSE "ready") EXCEPT
                       !.active = NoTurn, !.history = Abandoned(disk, FALSE),
                       !.blocker = "none",
                       !.recoveries = IF Concrete(disk) THEN @ ELSE @ + 1]
    <2>1. t.active = NoTurn /\ t.review = disk.review
      BY <1>1 DEF Moved, Tasks
    <2>2. Rewrite(t) /\ pc = "idle" /\ disk.status # "failed"
      BY <1>6 DEF Recover
    <2> HIDE DEF t
    <2> QED
      BY <1>4, <2>1, <2>2
  <1>7. CASE Resume
    <2> DEFINE t == [Moved(disk, "ready") EXCEPT
                       !.active = NoTurn, !.history = Abandoned(disk, TRUE), !.res = @ + 1]
    <2>1. t.active = NoTurn /\ t.review = disk.review
      BY <1>1 DEF Moved, Tasks
    <2>2. Rewrite(t) /\ pc = "idle" /\ disk.status # "failed"
      BY <1>7 DEF Resume, Commanded
    <2> HIDE DEF t
    <2> QED
      BY <1>4, <2>1, <2>2
  <1>8. CASE HumanBlock
    BY <1>1, <1>8, MovedSight, RewriteSight DEF HumanBlock, Commanded, Statuses, CanMove
  <1>9. CASE HumanFail
    <2> DEFINE t == IF disk.status = "failed" THEN disk ELSE Moved(disk, "failed")
    <2>1. t.status = "failed"
      BY <1>1, MovedStatus DEF Statuses
    <2>2. Rewrite(t) /\ pc = "idle"
      BY <1>9 DEF HumanFail, Commanded
    <2> HIDE DEF t
    <2> QED
      BY <2>1, <2>2, RewriteSight
  <1>10. CASE Rewritten
    BY <1>10 DEF Rewritten, Sighted, IInv, wake
  <1>11. CASE Withdraw
    BY <1>11 DEF Withdraw, Sighted, IInv, wake
  <1> QED
    BY <1>2, <1>3, <1>5, <1>6, <1>7, <1>8, <1>9, <1>10, <1>11 DEF Command

LEMMA SightStep ==
  ASSUME IInv, Place, SightInv, [Next]_vars, Overlap = FALSE
  PROVE  SightInv'
  <1>1. CASE UNCHANGED vars
    BY <1>1 DEF vars, wake, SightInv, Sighted
  <1>2. ASSUME Next, spent'.edits = 0
        PROVE  Sighted'
    <2>1. Sighted /\ ~Edit
      BY <1>2, NoEdit DEF IInv, TypeOK, SightInv
    <2>2. ASSUME NEW m \in Modes, Claim(m)
          PROVE  Sighted'
      BY <2>1, <2>2, QuietSight DEF Claim
    <2>3. CASE EnqueueEnvelope \/ CommandCrash \/ EnqueueCrash
      BY <2>1, <2>3, QuietSight DEF EnqueueEnvelope, CommandCrash, EnqueueCrash, wake
    <2>4. CASE Crash
      <3>1. disk' = disk /\ pend' = pend /\ pc' # "turn"
        BY <2>4 DEF Crash, Return
      <3>2. CASE pc = "turn"
        <4>1. SeenIn(disk, tree')
          BY <2>1, <3>2, BegunSight
        <4> QED
          BY <3>1, <3>2, <4>1 DEF Sighted, IInv
      <3>3. CASE pc # "turn"
        BY <2>1, <2>4, <3>1, <3>3, QuietSight DEF Crash
      <3> QED
        BY <3>2, <3>3
    <2> QED
      BY <1>2, <2>1, <2>2, <2>3, <2>4, WakeSight, CommandSight DEF Next
  <1> QED
    BY <1>1, <1>2 DEF SightInv

\* As long as nobody but the implementation turns commits to the checkout, a
\* task is accepted on an implementation its reviewer saw, through crashes,
\* interrupted turns, reconciliation, recovery and resumption.
THEOREM WorkAcceptedAsSeen == ASSUME Overlap = FALSE PROVE Spec => []AcceptedUnlessEdited
  <1>1. Init => SightInv
    BY DEF Init, SightInv, Sighted, SeenIn, NewTask, NoTurn, NoReview
  <1>2. IInv /\ Place /\ SightInv /\ [Next]_vars => SightInv'
    BY SightStep
  <1>3. SightInv => AcceptedUnlessEdited
    BY DEF SightInv, Sighted, SeenIn, AcceptedUnlessEdited, AcceptedAsSeen
  <1> QED
    BY <1>1, <1>2, <1>3, PlaceInvariance, PTL DEF Spec
=============================================================================

--------------------------- MODULE WorkSupervisor ---------------------------
(***************************************************************************)
(* The Work lane's durable task: one task that supervisor wakes carry from *)
(* ready through planning, implementation and review to accepted, while    *)
(* turn reconciliation, operational recovery and a human operator rewrite  *)
(* it (program/runtime/work/{supervisor,queue,contract,turn_reconciliation,*)
(* recovery,operator}.mjs).                                                *)
(*                                                                         *)
(* A task is on disk twice: its status file, which is believed, and its    *)
(* envelope in the work lane.  Both are replaced by rename, one after the  *)
(* other, from the time the task is queued.  A wake holds its own copy of  *)
(* the task from the time it loads it to the time it ends.                 *)
(***************************************************************************)
EXTENDS Naturals, FiniteSets

CONSTANTS
  Routine,        \* what a routine review may decide
  Escalated,      \* what an escalation review may decide
  Focused,        \* what a convergence review may decide
  Modes,          \* kinds of wake: background wakes pause, foreground wakes do not
  MaxRevisions,   \* maxRevisions
  MaxNoProgress,  \* maxNoProgressPasses
  ReviewAfter,    \* reviewAfterImplementationPasses
  MaxRecoveries,  \* maxRecoveryCount
  Overlap,        \* TRUE: an operator's command may overlap a wake
  MaxWakes,       \* bound: how many wakes a behaviour may contain
  MaxTroubles     \* bound: how many crashes, faults, operator commands and edits

Kinds == {"wakes", "crashes", "faults", "commands", "edits"}
Verdicts == {"ACCEPT", "REVISE", "REPLAN", "BLOCK", "ESCALATE"}

ASSUME RoutineAssumption == Routine \subseteq {"ACCEPT", "REVISE", "ESCALATE"}
ASSUME EscalatedAssumption == Escalated \subseteq {"ACCEPT", "REVISE", "REPLAN", "BLOCK"}
ASSUME FocusedAssumption == Focused \subseteq {"CONTINUE", "SPLIT", "BLOCK"}
ASSUME ModesAssumption == Modes \subseteq {"background", "foreground"}
ASSUME BoundsAssumption ==
  /\ MaxRevisions \in Nat /\ MaxNoProgress \in Nat \ {0} /\ ReviewAfter \in Nat \ {0}
  /\ MaxRecoveries \in Nat /\ Overlap \in BOOLEAN /\ MaxWakes \in Nat /\ MaxTroubles \in Nat

VARIABLES
  disk,       \* the task its status file holds
  env,        \* env[p]: the task the envelope in directory p carries, or NoEnvelope
  mem,        \* the task the wake holds; NewTask while it holds none
  pc,         \* the step the wake takes next
  due,        \* TRUE: the wake has written the status file, the envelope not yet
  mode,       \* the kind of the wake, "none" while there is none
  before,     \* the checkout the wake collected its evidence from before a review
  pend,       \* the task, if any, that a command has still to write or to move
  enqueue,    \* "begun" while only the status file is written, "done", or "killed"
  tree,       \* the version of the shared checkout; 0 is the base revision
  spent       \* spent[k]: how many events of kind k there were

wake == <<mem, pc, due, mode, before>>
vars == <<disk, env, wake, pend, enqueue, tree, spent>>

Steps == {"idle", "claimed", "prepare", "loop", "turn", "result", "implemented",
          "replanned", "revised", "accepted", "failing", "end"}
Places == {"input", "runtime", "success", "fail"}
Statuses == {"ready", "planning", "implementing", "reviewing", "revision",
             "blocked", "usage-limited", "accepted", "failed"}
Terminal == {"accepted", "failed"}
Phases == {"planning", "implementation", "review", "escalation-review",
           "convergence-review"}

(***************************************************************************)
(* The task and its checkpoint.                                            *)
(***************************************************************************)
Ids == Phases \X Nat \X Nat \X Nat

\* A verdict, the checkout the reviewer looked at, and the one on record as
\* its evidence.
Reviews == [decision : Verdicts \union {"none"}, seen : Nat, evidence : Nat]

\* The turn that is not captured yet, if any, with its stored result.
NoTurn == [state |-> "none", id |-> <<"none", 0, 0, 0>>, decision |-> "none", seen |-> 0]
Turns ==
  {NoTurn} \union
  [state : {"started", "completed", "ambiguous"}, id : Ids,
   decision : Verdicts \union {"none", "CONTINUE", "SPLIT"}, seen : Nat]

Entries == [id : Ids, state : {"completed", "abandoned"}, captured : BOOLEAN]

Tasks ==
  [status : Statuses, prev : Statuses, plan : BOOLEAN,
   rev : Nat, res : Nat, passes : Nat, reviewReady : BOOLEAN, commit : Nat,
   noProgress : Nat, reviewCount : Nat, fresh : BOOLEAN,
   focused : {"none", "CONTINUE", "SPLIT", "BLOCK"}, review : Reviews, active : Turns,
   history : SUBSET Entries, recoveries : Nat,
   blocker : {"none", "operational", "decision"}]

NoEnvelope == [status |-> "none"]

NoReview == [decision |-> "none", seen |-> 0, evidence |-> 0]

NewTask ==
  [status |-> "ready", prev |-> "ready", plan |-> FALSE,
   rev |-> 0, res |-> 0, passes |-> 0, reviewReady |-> FALSE, commit |-> 0,
   noProgress |-> 0, reviewCount |-> 0, fresh |-> FALSE, focused |-> "none",
   review |-> NoReview, active |-> NoTurn,
   history |-> {}, recoveries |-> 0, blocker |-> "none"]

\* WORK_TRANSITIONS; a status may always be kept.
CanMove(from, to) ==
  \/ from = to
  \/ from = "ready" /\ to \in {"planning", "blocked", "failed"}
  \/ from = "planning" /\ to \in {"implementing", "revision", "blocked", "usage-limited", "failed"}
  \/ from = "implementing" /\ to \in {"reviewing", "revision", "blocked", "usage-limited", "failed"}
  \/ from = "reviewing" /\ to \in {"accepted", "implementing", "revision", "blocked",
                                   "usage-limited", "failed"}
  \/ from = "revision" /\ to \in {"implementing", "blocked", "usage-limited", "failed"}
  \/ from = "blocked" /\ to \in {"ready", "planning", "implementing", "reviewing", "revision", "failed"}
  \/ from = "usage-limited" /\ to \in {"ready", "planning", "implementing", "reviewing",
                                       "revision", "blocked", "failed"}

Moved(t, status) == [t EXCEPT !.status = status, !.prev = t.status]

\* The request identity of the next turn of a phase.
Identity(t, phase) ==
  <<phase, t.rev, t.res,
    CASE phase = "implementation" -> t.passes
      [] phase = "convergence-review" -> t.reviewCount
      [] phase \in {"review", "escalation-review"} -> t.rev
      [] phase = "planning" -> 0>>

Captured(t) == {e.id : e \in {h \in t.history : h.captured}}
HasCaptured(t, phase) == Identity(t, phase) \in Captured(t)

\* An unresolved turn set aside: its identity is in the history, abandoned.
Abandoned(t, captured) ==
  IF t.active.state = "none" THEN t.history
  ELSE t.history \union {[id |-> t.active.id, state |-> "abandoned", captured |-> captured]}

\* The task still has a concrete correction to apply.
Concrete(t) == t.review.decision = "REVISE" /\ t.focused # "BLOCK"

(***************************************************************************)
(* Writing a task.  A wake writes the status file and then, in its next    *)
(* step, the envelope; a command writes the envelope and then the status   *)
(* file.                                                                   *)
(***************************************************************************)
Spend(k) ==
  /\ IF k = "wakes" THEN spent.wakes < MaxWakes
     ELSE spent.crashes + spent.faults + spent.commands + spent.edits < MaxTroubles
  /\ spent' = [spent EXCEPT ![k] = @ + 1]

Awake(step) == pc = step /\ ~due

\* save and move: the wake keeps t, writes it, and goes on at step next.
Save(t, next) ==
  /\ mem' = t /\ disk' = t /\ due' = TRUE /\ pc' = next
  /\ UNCHANGED <<env, mode, pend, enqueue>>

\* Where the wake goes when it returns, or its process ends.
Return ==
  /\ pc' = "idle" /\ mem' = NewTask /\ due' = FALSE /\ before' = 0 /\ mode' = "none"

WriteEnvelope ==
  /\ due
  /\ env' = [env EXCEPT !.runtime = mem]
  /\ IF pc = "end" THEN Return
     ELSE due' = FALSE /\ UNCHANGED <<mem, pc, mode, before>>
  /\ UNCHANGED <<disk, pend, enqueue, tree, spent>>

\* Mutant: the turn is put in doubt, whether or not there is one.
FailedInDoubt(t, kind) ==
  LET status == IF kind = "usage-limited" THEN "usage-limited" ELSE "blocked"
  IN  [(IF t.status = status THEN t ELSE Moved(t, status)) EXCEPT
         !.active.state = "ambiguous", !.blocker = "operational"]

\* fail: what a thrown error of this kind makes of the task.
Failed(t, kind) ==
  LET pending == t.active.state = "started"
      uncaptured == t.active.state = "completed"
      status == IF kind = "usage-limited" THEN "usage-limited"
                ELSE IF kind # "failed" \/ pending \/ uncaptured THEN "blocked" ELSE "failed"
      next == IF t.status = status THEN t ELSE Moved(t, status)
  IN  [next EXCEPT
         !.active = IF status = "usage-limited" THEN NoTurn
                    ELSE IF pending THEN [@ EXCEPT !.state = "ambiguous"] ELSE @,
         !.blocker = IF status = "blocked" THEN "operational" ELSE @]

Fail(kind) ==
  LET t == Failed(mem, kind)
  IN  Save(t, IF t.status = "failed" THEN "failing" ELSE "end")

(***************************************************************************)
(* A wake takes the task up.                                               *)
(***************************************************************************)
\* A background wake asks for a task whose status file is neither settled nor
\* blocked, by id; a foreground wake takes what the lane offers.
Claimable(m) ==
  \/ env.input.status = "ready"
  \/ /\ env.runtime # NoEnvelope
     /\ m = "background" => env.runtime.status \notin Terminal \union {"blocked"}

Eligible(t) == t.status \notin Terminal \union {"blocked"}

Claim(m) ==
  /\ pc = "idle" /\ (pend = {} \/ Overlap)
  /\ m = "background" => Eligible(disk)
  /\ Claimable(m)
  /\ env' = IF env.input.status = "ready"
            THEN [env EXCEPT !.input = NoEnvelope, !.runtime = env.input] ELSE env
  /\ pc' = "claimed" /\ mode' = m
  /\ Spend("wakes")
  /\ UNCHANGED <<disk, mem, due, before, pend, enqueue, tree>>

\* The wake believes the status file; a task that is settled or blocked there
\* is not worked on, only put where it belongs.
Load ==
  /\ pc = "claimed"
  /\ IF disk.status = "blocked" THEN Return
     ELSE /\ mem' = disk
          /\ pc' = CASE disk.status = "accepted" -> "accepted"
                     [] disk.status = "failed" -> "failing"
                     [] OTHER -> "prepare"
          /\ UNCHANGED <<due, mode, before>>
  /\ UNCHANGED <<disk, env, pend, enqueue, tree, spent>>

\* The workspace is prepared and the preflight passes, or an error ends the wake.
Prepare ==
  /\ Awake("prepare")
  /\ Save(mem, "loop")
  /\ UNCHANGED <<before, tree, spent>>

PrepareFails(kind) ==
  /\ Awake("prepare")
  /\ Fail(kind)
  /\ Spend("faults")
  /\ UNCHANGED <<before, tree>>

\* ackWorkTaskSuccess
AckSuccess ==
  /\ Awake("accepted")
  /\ env' = [env EXCEPT !.runtime = NoEnvelope, !.success = env.runtime]
  /\ Return
  /\ UNCHANGED <<disk, pend, enqueue, tree, spent>>

\* ackWorkTaskFail without a retry left: here the envelope is believed, which
\* after a crash may hold an older task than the status file.
AckFail ==
  /\ Awake("failing")
  /\ IF CanMove(env.runtime.status, "failed")
     THEN /\ disk' = Moved(env.runtime, "failed")
          /\ env' = [env EXCEPT !.runtime = NoEnvelope, !.fail = disk']
     ELSE UNCHANGED <<disk, env>>
  /\ Return
  /\ UNCHANGED <<pend, enqueue, tree, spent>>

(***************************************************************************)
(* One turn of an agent.                                                   *)
(***************************************************************************)
ConvergenceDue(t) == t.status = "revision" /\ t.noProgress >= MaxNoProgress

\* Mutant: an implementing task is implemented, whether or not this pass was.
WantsAgain(t, phase) ==
  \/ phase = "planning" /\ t.status = "planning" /\ ~t.plan
  \/ phase = "convergence-review" /\ ConvergenceDue(t) /\ ~t.fresh
  \/ phase = "implementation" /\ t.status = "implementing"
  \/ phase = "review" /\ t.status = "reviewing" /\ ~HasCaptured(t, phase)
  \/ /\ phase = "escalation-review" /\ t.status = "reviewing"
     /\ HasCaptured(t, "review") /\ t.review.decision = "ESCALATE"
     /\ ~HasCaptured(t, phase)

\* The turn that the loop runs next, if its next step is to run one.
Wants(t, phase) ==
  \/ phase = "planning" /\ t.status = "planning" /\ ~t.plan
  \/ phase = "convergence-review" /\ ConvergenceDue(t) /\ ~t.fresh
  \/ phase = "implementation" /\ t.status = "implementing" /\ ~HasCaptured(t, phase)
  \/ phase = "review" /\ t.status = "reviewing" /\ ~HasCaptured(t, phase)
  \/ /\ phase = "escalation-review" /\ t.status = "reviewing"
     /\ HasCaptured(t, "review") /\ t.review.decision = "ESCALATE"
     /\ ~HasCaptured(t, phase)

Looks(phase) == phase \in {"review", "escalation-review"}

\* The wake is about to run a turn; a reviewer's evidence is collected first.
Turning(phase) ==
  /\ Awake("loop") /\ Wants(mem, phase)
  /\ before' = IF Looks(phase) THEN tree ELSE 0

BeginTurn(phase) ==
  /\ Turning(phase)
  /\ mem.active.state = "none"
  /\ Save([mem EXCEPT !.active = [state |-> "started", id |-> Identity(mem, phase),
                                  decision |-> "none", seen |-> 0]], "turn")
  /\ UNCHANGED <<tree, spent>>

\* A completed result of this very identity was left uncaptured: it is used.
ReuseResult(phase) ==
  /\ Turning(phase)
  /\ mem.active.state = "completed" /\ mem.active.id = Identity(mem, phase)
  /\ Save(mem, "result")
  /\ UNCHANGED <<tree, spent>>

\* Any other unresolved turn is not run again.
RefuseTurn(phase) ==
  /\ Turning(phase)
  /\ mem.active.state # "none"
  /\ ~(mem.active.state = "completed" /\ mem.active.id = Identity(mem, phase))
  /\ Fail("ambiguous")
  /\ UNCHANGED <<tree, spent>>

\* The agent's thread cannot be opened.
OpenFails(phase) ==
  /\ Turning(phase)
  /\ Fail("failed")
  /\ Spend("faults")
  /\ UNCHANGED tree

Decisions(phase) ==
  CASE phase = "review" -> Routine
    [] phase = "escalation-review" -> Escalated
    [] phase = "convergence-review" -> Focused
    [] OTHER -> {"none"}

\* An implementation turn may commit to the shared checkout, however it ends.
Worked == IF mem.active.id[1] = "implementation" THEN {tree, tree + 1} ELSE {tree}

\* The turn completes and its result is stored.
Answer ==
  /\ Awake("turn")
  /\ \E decision \in Decisions(mem.active.id[1]) :
       Save([mem EXCEPT !.active.state = "completed", !.active.decision = decision,
                        !.active.seen = before], "result")
  /\ tree' \in Worked
  /\ UNCHANGED <<before, spent>>

\* The turn fails, is interrupted or runs into its timeout.
TurnFails(kind) ==
  /\ Awake("turn")
  /\ Fail(kind)
  /\ tree' \in Worked
  /\ Spend("faults")
  /\ UNCHANGED before

\* captureTurn, with what each phase keeps of the result.
Consumed(t) ==
  [t EXCEPT !.active = NoTurn,
            !.history = @ \union {[id |-> t.active.id, state |-> "completed", captured |-> TRUE]}]

CapturePlan ==
  /\ Awake("result") /\ mem.active.id[1] = "planning"
  /\ Save([Consumed(mem) EXCEPT !.plan = TRUE], "loop")
  /\ before' = 0
  /\ UNCHANGED <<tree, spent>>

CaptureImplementation ==
  /\ Awake("result") /\ mem.active.id[1] = "implementation"
  /\ \E ready \in BOOLEAN :
       Save([Consumed(mem) EXCEPT
               !.passes = @ + 1, !.reviewReady = ready, !.commit = tree, !.fresh = FALSE,
               !.noProgress = IF tree # mem.commit THEN 0 ELSE @ + 1], "implemented")
  /\ before' = 0
  /\ UNCHANGED <<tree, spent>>

\* The evidence changed while the reviewer looked: neither side of the
\* comparison may be empty.
Stale == before # 0 /\ tree # 0 /\ before # tree

\* Mutant: the evidence on record is the last implementation's.
CaptureReviewCommitted ==
  /\ Awake("result") /\ Looks(mem.active.id[1]) /\ ~Stale
  /\ Save([Consumed(mem) EXCEPT
             !.review = [decision |-> mem.active.decision, seen |-> mem.active.seen,
                         evidence |-> mem.commit]], "loop")
  /\ before' = 0
  /\ UNCHANGED <<tree, spent>>

CaptureReview ==
  /\ Awake("result") /\ Looks(mem.active.id[1]) /\ ~Stale
  /\ Save([Consumed(mem) EXCEPT
             !.review = [decision |-> mem.active.decision, seen |-> mem.active.seen,
                         evidence |-> tree]], "loop")
  /\ before' = 0
  /\ UNCHANGED <<tree, spent>>

RejectReview ==
  /\ Awake("result") /\ Looks(mem.active.id[1]) /\ Stale
  /\ Fail("ambiguous")
  /\ before' = 0
  /\ UNCHANGED <<tree, spent>>

\* The stored result cannot be read, or no evidence be collected for it.
CaptureFails ==
  /\ Awake("result")
  /\ Fail("failed")
  /\ before' = 0
  /\ Spend("faults")
  /\ UNCHANGED tree

CaptureConvergence ==
  /\ Awake("result") /\ mem.active.id[1] = "convergence-review"
  /\ Save([Consumed(mem) EXCEPT !.reviewCount = @ + 1, !.fresh = TRUE,
                                !.focused = mem.active.decision], "loop")
  /\ before' = 0
  /\ UNCHANGED <<tree, spent>>

(***************************************************************************)
(* The loop of a wake between turns.                                       *)
(***************************************************************************)
Step(t, next) ==
  /\ Save(t, next)
  /\ UNCHANGED <<before, tree, spent>>

\* The ways into the loop: the status before the limit, or the next one.
Enter ==
  /\ Awake("loop")
  /\ \/ mem.status = "usage-limited" /\ Step(Moved(mem, mem.prev), "loop")
     \/ mem.status = "ready" /\ Step(Moved(mem, "planning"), "loop")
     \/ mem.status = "planning" /\ mem.plan /\ Step(Moved(mem, "implementing"), "loop")

\* Mutant: the count that asked for the focused review is not reset.
RefocusUnreset ==
  /\ Awake("loop") /\ ConvergenceDue(mem) /\ mem.fresh
  /\ IF mem.focused = "CONTINUE" THEN Step(mem, "loop")
     ELSE Step([Moved(mem, "blocked") EXCEPT !.blocker = "decision"], "end")

\* A focused review's decision: go on with its correction, or stop.
Refocus ==
  /\ Awake("loop") /\ ConvergenceDue(mem) /\ mem.fresh
  /\ IF mem.focused = "CONTINUE" THEN Step([mem EXCEPT !.noProgress = 0], "loop")
     ELSE Step([Moved(mem, "blocked") EXCEPT !.blocker = "decision"], "end")

Correct ==
  /\ Awake("loop") /\ mem.status = "revision" /\ ~ConvergenceDue(mem)
  /\ Step(Moved(mem, "implementing"), "loop")

\* hasCapturedTurn: this pass is implemented, nothing is run.
SkipImplementation ==
  /\ Awake("loop") /\ mem.status = "implementing" /\ HasCaptured(mem, "implementation")
  /\ pc' = "implemented"
  /\ UNCHANGED <<disk, env, mem, due, mode, before, pend, enqueue, tree, spent>>

\* A background wake stops here until there is enough to review.
Pause ==
  /\ Awake("implemented")
  /\ mode = "background" /\ ~mem.reviewReady /\ mem.passes < ReviewAfter
  /\ Step(mem, "end")

ToReview ==
  /\ Awake("implemented")
  /\ ~(mode = "background" /\ ~mem.reviewReady /\ mem.passes < ReviewAfter)
  /\ Step(Moved(mem, "reviewing"), "loop")

Decided(decision) ==
  /\ Awake("loop") /\ mem.status = "reviewing" /\ HasCaptured(mem, "review")
  /\ mem.review.decision = decision

\* Mutant: the lane is told of the acceptance before the status file is.
AcceptUnsaved ==
  /\ Decided("ACCEPT")
  /\ mem' = Moved(mem, "accepted") /\ due' = TRUE /\ pc' = "accepted"
  /\ UNCHANGED <<disk, env, mode, before, pend, enqueue, tree, spent>>

Accept == Decided("ACCEPT") /\ Step(Moved(mem, "accepted"), "accepted")

Block == Decided("BLOCK") /\ Step([Moved(mem, "blocked") EXCEPT !.blocker = "decision"], "end")

Replan ==
  /\ Decided("REPLAN")
  /\ Step([mem EXCEPT !.passes = 0, !.reviewReady = FALSE], "replanned")

Replanned == Awake("replanned") /\ Step(Moved(mem, "implementing"), "loop")

Revise ==
  /\ Decided("REVISE") /\ mem.rev < MaxRevisions
  /\ Step([mem EXCEPT !.rev = @ + 1, !.passes = 0, !.reviewReady = FALSE], "revised")

Revised == Awake("revised") /\ Step(Moved(mem, "revision"), "loop")

\* The bound on revisions is reached: the correction waits for a later wake.
Continue ==
  /\ Decided("REVISE") /\ mem.rev >= MaxRevisions
  /\ Step(Moved(mem, "revision"), "end")

(***************************************************************************)
(* The commands that rewrite a task on disk.                               *)
(***************************************************************************)
\* enqueueWorkTask has written the status file and goes on to the envelope.
EnqueueEnvelope ==
  /\ enqueue = "begun" /\ enqueue' = "done"
  /\ env' = [env EXCEPT !.input = NewTask]
  /\ UNCHANGED <<disk, wake, pend, tree, spent>>

\* Mutant: the status file first.
RewriteStatusFirst(t) ==
  /\ pend = {}
  /\ disk' = t /\ pend' = {t}
  /\ UNCHANGED <<env, wake, enqueue, tree>>

\* updateWorkTaskEnvelope, first half: the envelope where it was found, if it was.
Rewrite(t) ==
  /\ pend = {}
  /\ env' = CASE env.runtime # NoEnvelope -> [env EXCEPT !.runtime = t]
              [] env.runtime = NoEnvelope /\ env.input # NoEnvelope -> [env EXCEPT !.input = t]
              [] OTHER -> env
  /\ pend' = {t}
  /\ UNCHANGED <<disk, wake, enqueue, tree>>

\* A task the operator failed is to leave the lane.
Leaving == disk.status = "failed" /\ disk \in pend

\* Second half: the status file.
Rewritten ==
  /\ pend # {} /\ ~Leaving
  /\ disk' \in pend
  /\ pend' = IF disk'.status = "failed" THEN pend ELSE {}
  /\ UNCHANGED <<env, wake, enqueue, tree, spent>>

\* ackWorkTaskTerminalFailure: the envelope, looked for again, goes to fail/.
Withdraw ==
  /\ Leaving /\ pend' = {}
  /\ env' = CASE env.runtime # NoEnvelope ->
                    [env EXCEPT !.runtime = NoEnvelope, !.fail = env.runtime]
              [] env.runtime = NoEnvelope /\ env.input # NoEnvelope ->
                    [env EXCEPT !.input = NoEnvelope, !.fail = env.input]
              [] OTHER -> env
  /\ UNCHANGED <<disk, wake, enqueue, tree, spent>>

\* phaseForTask.  Of the phases a turn is recorded with, it knows planning.
PhaseStatus(t) ==
  IF t.active.id[1] = "planning" THEN "planning"
  ELSE IF t.commit # 0 THEN "reviewing" ELSE "implementing"

\* reconcileWorkTaskTurn, COMPLETED_UNRECONCILED: the task goes back to the
\* turn's phase and keeps its result.
ReconcileCompleted ==
  /\ pc = "idle" \/ Overlap
  /\ disk.status \notin Terminal /\ disk.active.state = "completed"
  /\ CanMove(disk.status, PhaseStatus(disk))
  /\ Rewrite(Moved(disk, PhaseStatus(disk)))
  /\ UNCHANGED spent

\* STALE, with evidence to go on from: the turn is abandoned.
ReconcileStale ==
  /\ pc = "idle" /\ disk.status \notin Terminal
  /\ disk.active.state \in {"started", "ambiguous"}
  /\ PhaseStatus(disk) = "reviewing" \/ disk.commit # 0 \/ tree # 0
  /\ CanMove(disk.status, PhaseStatus(disk))
  /\ Rewrite([Moved(disk, PhaseStatus(disk)) EXCEPT
                !.active = NoTurn, !.history = Abandoned(disk, FALSE),
                !.res = @ + 1, !.blocker = "none"])
  /\ UNCHANGED spent

\* LIVE and AMBIGUOUS: what was found is recorded, the turn stays in doubt.
ReconcileKeeps ==
  /\ pc = "idle" \/ Overlap
  /\ disk.status \notin Terminal
  /\ disk.active.state \in {"started", "ambiguous"}
  /\ Rewrite(disk)
  /\ UNCHANGED spent

\* Mutant: recovery asks nothing about the turn that is left.
RecoverAny ==
  /\ pc = "idle" /\ disk.status = "blocked" /\ disk.blocker = "operational"
  /\ Concrete(disk) \/ disk.recoveries < MaxRecoveries
  /\ Rewrite([Moved(disk, IF Concrete(disk) THEN "revision" ELSE "ready") EXCEPT
                !.active = NoTurn, !.history = Abandoned(disk, FALSE), !.blocker = "none",
                !.recoveries = IF Concrete(disk) THEN @ ELSE @ + 1])
  /\ UNCHANGED spent

\* recoverOperationalWorkTask: an operational blocker has gone, and a turn in
\* doubt is old enough to be given up.
Recover ==
  /\ pc = "idle" /\ disk.status = "blocked" /\ disk.blocker = "operational"
  /\ disk.active.state \in {"none", "ambiguous"}
  /\ Concrete(disk) \/ disk.recoveries < MaxRecoveries
  /\ Rewrite([Moved(disk, IF Concrete(disk) THEN "revision" ELSE "ready") EXCEPT
                !.active = NoTurn, !.history = Abandoned(disk, FALSE), !.blocker = "none",
                !.recoveries = IF Concrete(disk) THEN @ ELSE @ + 1])
  /\ UNCHANGED spent

Commanded == (pc = "idle" \/ Overlap) /\ Spend("commands")

\* resumeWorkTask
Resume ==
  /\ Commanded
  /\ disk.status \in {"blocked", "usage-limited"}
  /\ Rewrite([Moved(disk, "ready") EXCEPT
                !.active = NoTurn, !.history = Abandoned(disk, TRUE), !.res = @ + 1])

\* blockWorkTask
HumanBlock ==
  /\ Commanded
  /\ disk.status # "blocked" /\ CanMove(disk.status, "blocked")
  /\ Rewrite([Moved(disk, "blocked") EXCEPT !.blocker = "decision"])

\* failWorkTask; a task that has failed is failed again.
HumanFail ==
  /\ Commanded
  /\ disk.status # "accepted"
  /\ Rewrite(IF disk.status = "failed" THEN disk ELSE Moved(disk, "failed"))

(***************************************************************************)
(* The environment.                                                        *)
(***************************************************************************)
\* The process of a wake ends at any point.
Crash ==
  /\ pc # "idle"
  /\ Return
  /\ tree' \in IF pc = "turn" THEN Worked ELSE {tree}
  /\ Spend("crashes")
  /\ UNCHANGED <<disk, env, pend, enqueue>>

\* The process of a command ends between its renames.
CommandCrash ==
  /\ pend # {} /\ pend' = {}
  /\ Spend("crashes")
  /\ UNCHANGED <<disk, env, wake, enqueue, tree>>

\* The process that queues the task ends between its two writes.
EnqueueCrash ==
  /\ enqueue = "begun" /\ enqueue' = "killed"
  /\ Spend("crashes")
  /\ UNCHANGED <<disk, env, wake, pend, tree>>

\* Somebody else, a reviewer among them, commits to the shared checkout: between
\* wakes, or while a turn runs; no other step of a wake can tell when.
Edit ==
  /\ pc \in {"idle", "turn"}
  /\ tree' = tree + 1
  /\ Spend("edits")
  /\ UNCHANGED <<disk, env, wake, pend, enqueue>>

\* enqueueWorkTask has written the status file.
Init ==
  /\ disk = NewTask /\ mem = NewTask /\ pend = {}
  /\ env = [p \in Places |-> NoEnvelope] /\ enqueue = "begun"
  /\ pc = "idle" /\ due = FALSE /\ mode = "none" /\ before = 0
  /\ tree = 0 /\ spent = [k \in Kinds |-> 0]

Turn(phase) ==
  BeginTurn(phase) \/ ReuseResult(phase) \/ RefuseTurn(phase) \/ OpenFails(phase)

Capture ==
  \/ CapturePlan \/ CaptureImplementation \/ CaptureReview \/ RejectReview
  \/ CaptureConvergence \/ CaptureFails

Decide ==
  \/ Enter \/ Refocus \/ Correct \/ SkipImplementation \/ Pause \/ ToReview
  \/ Accept \/ Block \/ Replan \/ Replanned \/ Revise \/ Revised \/ Continue

Wake ==
  \/ WriteEnvelope \/ Load \/ Prepare \/ AckSuccess \/ AckFail
  \/ \E kind \in {"infrastructure", "failed"} : PrepareFails(kind)
  \/ \E phase \in Phases : Turn(phase)
  \/ Answer
  \/ \E kind \in {"usage-limited", "interrupted"} : TurnFails(kind)
  \/ Capture
  \/ Decide

Command ==
  \/ ReconcileCompleted \/ ReconcileStale \/ ReconcileKeeps \/ Recover
  \/ Resume \/ HumanBlock \/ HumanFail \/ Rewritten \/ Withdraw

Next ==
  \/ \E m \in Modes : Claim(m)
  \/ Wake \/ EnqueueEnvelope \/ Command
  \/ Crash \/ CommandCrash \/ EnqueueCrash \/ Edit

Spec == Init /\ [][Next]_vars

\* A wake that is not killed goes on: its own steps are taken, and every turn
\* ends, by its timeout at the latest.
FairSpec == Spec /\ WF_vars(Wake)

(***************************************************************************)
(* Properties.                                                             *)
(***************************************************************************)
\* Every variable has its type (buildWorkTask and buildWorkCheckpoint keep the
\* task's fields in their ranges).
TypeOK ==
  /\ disk \in Tasks /\ mem \in Tasks /\ pend \subseteq Tasks
  /\ env \in [Places -> Tasks \union {NoEnvelope}]
  /\ enqueue \in {"begun", "done", "killed"}
  /\ pc \in Steps
  /\ due \in BOOLEAN /\ mode \in Modes \union {"none"} /\ before \in Nat
  /\ tree \in Nat /\ spent \in [Kinds -> Nat]

\* The turns of the checkpoint are a ledger: one is unresolved at a time, a
\* result is used at most once, and a turn that was used is never begun again,
\* whatever crashes, is reconciled, recovered or resumed in between
\* (executeTurn and captureTurn; reconcileWorkTaskTurn; resumeWorkTask).  It is
\* closed with a task that has failed: ackWorkTaskFail may put an older one back.
InState(states) == IF disk.active.state \in states THEN {disk.active.id} ELSE {}
Ledger == INSTANCE TurnLedger WITH
  open <- InState({"started", "ambiguous"}),
  done <- InState({"completed"}),
  used <- {e.id : e \in {h \in disk.history : h.state = "completed"}}
TurnsLedgered ==
  Ledger!Init /\ [][disk.status = "failed" \/ [Ledger!Next]_(Ledger!ledger)]_vars

\* Until the task fails, a stored result leaves the checkpoint only by being
\* captured or by a human who resumes the task without it: no reconciliation,
\* recovery, limit or failure drops it (executeTurn saves the result before
\* anything reads it).
ResultKept ==
  [][disk.active.state = "completed" /\ disk'.active # disk.active
       => \/ disk.active.id \in Captured(disk')
          \/ disk'.active.id = disk.active.id
          \/ disk.status = "failed"]_vars

\* A queued task whose status file says it is runnable has an envelope a wake can
\* claim by its id, between any two renames and after any crash of a wake, a
\* reconciliation or a recovery, as long as no operator has rewritten it: what
\* the scheduler selects it can claim (claimWorkTaskById against save and move,
\* which write the status file first, and updateWorkTaskEnvelope, which writes it
\* last).  It is not so of a task whose queueing was killed between its two
\* writes: that one stays "ready" and has nothing to claim (enqueueWorkTask).
RunnableIsClaimable ==
  pc = "idle" /\ enqueue = "done" /\ Eligible(disk) /\ spent.commands = 0
    => Claimable("background")

\* The task has one envelope once it is queued and none if its queueing was
\* killed, and where it is settled the status file agrees: nothing is put in
\* success/ that was not accepted, nor in fail/ that was not failed
\* (ackWorkTaskSuccess, ackWorkTaskFail, ackWorkTaskTerminalFailure).
SettledAgrees ==
  /\ Cardinality({p \in Places : env[p] # NoEnvelope}) = IF enqueue = "done" THEN 1 ELSE 0
  /\ env.success # NoEnvelope => disk.status = "accepted"
  /\ env.fail # NoEnvelope => disk.status = "failed"

\* A wake that is not killed comes to its end, unless an escalation review has
\* replaced the work order: the supervisor's loop does not run for ever, since
\* revisions are bounded, every answered turn is captured once, and what stays
\* unresolved blocks the task (maxRevisions, hasCapturedTurn, executeTurn).
WakeEnds == pc # "idle" ~> (pc = "idle" \/ mem.review.decision = "REPLAN")

\* A replacement work order is implemented: the wake that has saved it begins
\* an implementation turn, unless it ends (the loop's REPLAN branch).
ReplanImplemented ==
  pc = "replanned" ~> \/ pc = "idle"
                      \/ pc = "turn" /\ mem.active.id[1] = "implementation"

\* What a task is accepted on was looked at: where the reviewer saw an
\* implementation, the evidence on record for its acceptance is the version of
\* the checkout that it saw (doReview, executeTurn).
AcceptedAsSeen ==
  disk.status = "accepted" /\ disk.review.seen # 0
    => disk.review.seen = disk.review.evidence

\* Only somebody else's commit can make it otherwise: as long as nobody but the
\* implementation turns commits to the checkout, no crash, interrupted turn,
\* reconciliation, recovery or resumed task has a stored verdict meet an
\* implementation that its reviewer did not see (executeTurn, which refuses
\* every turn while another is unresolved; the evidence of doReview).
AcceptedUnlessEdited == spent.edits = 0 => AcceptedAsSeen
=============================================================================

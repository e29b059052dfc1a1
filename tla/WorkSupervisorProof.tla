------------------------ MODULE WorkSupervisorProof ------------------------
(***************************************************************************)
(* Theorems about WorkSupervisor where no operator's command overlaps a    *)
(* wake: type correctness, the ledger of turns, and that a stored result   *)
(* is not dropped.                                                         *)
(*                                                                         *)
(* The argument: a wake's copy of the task is what the status file holds,  *)
(* so every step that writes it changes the turns as the copy says; the    *)
(* histories know that a captured planning turn left a plan behind and     *)
(* that captured convergence turns are numbered below the review count,    *)
(* which is why the loop never wants a turn it has captured.               *)
(***************************************************************************)
EXTENDS WorkSupervisor, TLAPS

Open(t) == IF t.active.state \in {"started", "ambiguous"} THEN {t.active.id} ELSE {}
Done(t) == IF t.active.state = "completed" THEN {t.active.id} ELSE {}
Used(t) == {e.id : e \in {h \in t.history : h.state = "completed"}}

\* What a task knows about its turns: a result is one its phase may give, and
\* what the captured turns left behind.
Known(t) ==
  /\ t.active.id[1] = "convergence-review"
       => t.active.id[4] = t.reviewCount
  /\ t.active.state = "completed" => t.active.decision \in Decisions(t.active.id[1])
  /\ \A e \in t.history :
       e.state = "completed" =>
         /\ e.captured
         /\ e.id[1] = "planning" => t.plan
         /\ e.id[1] = "convergence-review" => e.id[4] < t.reviewCount

\* The state of the turn at each step of the wake.
TurnAtStep ==
  /\ pc = "turn" => mem.active.state = "started"
  /\ pc = "result" => mem.active.state = "completed"

\* From the time it loads the task to its end, the wake holds what is on disk,
\* and only then may it owe the envelope a write.
Holds ==
  /\ pc \notin {"idle", "claimed"} => mem = disk
  /\ due => pc \notin {"idle", "claimed"}
  /\ pc = "failing" => mem.status = "failed"

\* A command's rewriting keeps the turns, or sets the unresolved one aside;
\* a result is set aside by a human only.
Rewriting(t, u) ==
  /\ Used(u) = Used(t) /\ Known(u)
  /\ \/ Open(u) = Open(t) /\ Done(u) = Done(t)
     \/ Open(u) = {} /\ Done(u) = {}
  /\ t.active.state = "completed" =>
       u.active = t.active \/ t.active.id \in Captured(u)

\* The envelopes e hold such tasks.
Filed(e) ==
  /\ e \in [Places -> Tasks \union {NoEnvelope}]
  /\ \A p \in Places : e[p] # NoEnvelope => Known(e[p])

IInv ==
  /\ TypeOK
  /\ Known(disk) /\ Filed(env)
  /\ Holds
  /\ TurnAtStep
  /\ pend # {} => pc = "idle"
  /\ \A u \in pend : pend = {u} /\ Rewriting(disk, u)

(***************************************************************************)
(* Tasks are rewritten to tasks.                                           *)
(***************************************************************************)
\* transitionWorkTask changes the status alone.
LEMMA MovedTask ==
  ASSUME NEW t \in Tasks, NEW s \in Statuses
  PROVE  /\ Moved(t, s) \in Tasks /\ Moved(t, s).status = s
         /\ Moved(t, s).active = t.active /\ Moved(t, s).history = t.history
         /\ Moved(t, s).plan = t.plan /\ Moved(t, s).reviewCount = t.reviewCount
  BY DEF Tasks, Moved

\* requestIdentity gives an identity.
LEMMA IdentityType ==
  ASSUME NEW t \in Tasks, NEW phase \in Phases
  PROVE  /\ Identity(t, phase) \in Ids /\ Identity(t, phase)[1] = phase
         /\ phase = "convergence-review" => Identity(t, phase)[4] = t.reviewCount
  BY DEF Tasks, Identity, Ids, Phases

\* An unresolved turn has an identity; none has none.
LEMMA TurnTypes ==
  ASSUME NEW t \in Tasks
  PROVE  /\ t.active.state \in {"none", "started", "completed", "ambiguous"}
         /\ t.active.state = "none" <=> t.active = NoTurn
         /\ t.active.state # "none" => t.active.id \in Ids
         /\ t.active.state = "none" => t.active.id[1] = "none"
  <1>1. t.active = NoTurn \/
          t.active \in [state : {"started", "completed", "ambiguous"}, id : Ids,
                       decision : Verdicts \union {"none", "CONTINUE", "SPLIT"}, seen : Nat]
    BY DEF Tasks, Turns
  <1>2. CASE t.active = NoTurn
    BY <1>2 DEF NoTurn
  <1>3. CASE t.active # NoTurn
    <2>1. t.active.state \in {"started", "completed", "ambiguous"} /\ t.active.id \in Ids
      BY <1>1, <1>3
    <2> QED
      BY <2>1, <1>3
  <1> QED
    BY <1>2, <1>3

\* captureTurn
LEMMA ConsumedTask ==
  ASSUME NEW t \in Tasks, t.active.state = "completed"
  PROVE  /\ Consumed(t) \in Tasks /\ Consumed(t).active = NoTurn
         /\ Consumed(t).history = t.history \union
              {[id |-> t.active.id, state |-> "completed", captured |-> TRUE]}
         /\ Consumed(t).plan = t.plan /\ Consumed(t).reviewCount = t.reviewCount
         /\ Consumed(t).status = t.status
  <1>1. t.active.id \in Ids
    BY TurnTypes
  <1>2. [id |-> t.active.id, state |-> "completed", captured |-> TRUE] \in Entries
    BY <1>1 DEF Entries
  <1>3. NoTurn \in Turns
    BY DEF Turns
  <1> QED
    BY <1>2, <1>3 DEF Tasks, Consumed

\* An unresolved turn set aside leaves a well-formed history, with the same
\* captured turns.
LEMMA AbandonedHistory ==
  ASSUME NEW t \in Tasks, NEW c \in BOOLEAN
  PROVE  /\ Abandoned(t, c) \in SUBSET Entries
         /\ \A e \in Abandoned(t, c) : e.state = "completed" => e \in t.history
         /\ t.history \subseteq Abandoned(t, c)
         /\ c /\ t.active.state # "none" =>
              [id |-> t.active.id, state |-> "abandoned", captured |-> TRUE] \in Abandoned(t, c)
  <1>1. CASE t.active.state = "none"
    BY <1>1 DEF Abandoned, Tasks
  <1>2. CASE t.active.state # "none"
    <2> DEFINE e0 == [id |-> t.active.id, state |-> "abandoned", captured |-> c]
    <2>1. e0 \in Entries
      BY <1>2, TurnTypes DEF Entries
    <2>2. Abandoned(t, c) = t.history \union {e0}
      BY <1>2 DEF Abandoned
    <2>3. e0.state # "completed"
      OBVIOUS
    <2>4. c => e0 = [id |-> t.active.id, state |-> "abandoned", captured |-> TRUE]
      OBVIOUS
    <2>5. t.history \in SUBSET Entries
      BY DEF Tasks
    <2> HIDE DEF e0
    <2> QED
      BY <2>1, <2>2, <2>3, <2>4, <2>5
  <1> QED
    BY <1>1, <1>2

\* fail
LEMMA FailedTask ==
  ASSUME NEW t \in Tasks,
         NEW kind \in {"infrastructure", "failed", "ambiguous", "usage-limited", "interrupted"}
  PROVE  /\ Failed(t, kind) \in Tasks
         /\ Failed(t, kind).history = t.history
         /\ Failed(t, kind).plan = t.plan /\ Failed(t, kind).reviewCount = t.reviewCount
         /\ IF kind = "usage-limited" THEN Failed(t, kind).active = NoTurn
            ELSE /\ Failed(t, kind).active.id = t.active.id
                 /\ t.active.state # "started" => Failed(t, kind).active = t.active
                 /\ t.active.state = "started" => Failed(t, kind).active.state = "ambiguous"
  <1> DEFINE pending == t.active.state = "started"
             status == IF kind = "usage-limited" THEN "usage-limited"
                       ELSE IF kind # "failed" \/ pending \/ t.active.state = "completed"
                       THEN "blocked" ELSE "failed"
             next == IF t.status = status THEN t ELSE Moved(t, status)
             turn == IF status = "usage-limited" THEN NoTurn
                     ELSE IF pending THEN [t.active EXCEPT !.state = "ambiguous"] ELSE t.active
  <1>1. status \in Statuses
    BY DEF Statuses
  <1>2. /\ next \in Tasks /\ next.active = t.active /\ next.history = t.history
        /\ next.plan = t.plan /\ next.reviewCount = t.reviewCount
    BY <1>1, MovedTask
  <1>3. turn \in Turns
    BY TurnTypes DEF Tasks, Turns
  <1> DEFINE blocker == IF status = "blocked" THEN "operational" ELSE next.blocker
  <1>4. Failed(t, kind) = [next EXCEPT !.active = turn, !.blocker = blocker]
    BY <1>2 DEF Failed
  <1>10. blocker \in {"none", "operational", "decision"}
    BY <1>2 DEF Tasks
  <1>5. /\ Failed(t, kind) \in Tasks /\ Failed(t, kind).active = turn
        /\ Failed(t, kind).history = t.history
        /\ Failed(t, kind).plan = t.plan /\ Failed(t, kind).reviewCount = t.reviewCount
    <2> HIDE DEF turn, next, blocker
    <2> QED
      BY <1>2, <1>3, <1>4, <1>10 DEF Tasks
  <1>6. pending => turn.id = t.active.id \/ turn = NoTurn
    OBVIOUS
  <1>7. kind = "usage-limited" <=> status = "usage-limited"
    OBVIOUS
  <1>8. pending /\ status # "usage-limited" =>
          turn.state = "ambiguous" /\ turn.id = t.active.id
    BY TurnTypes DEF Turns, Tasks
  <1> QED
    BY <1>5, <1>7, <1>8

(***************************************************************************)
(* What a write of the status file may do to the turns.                    *)
(***************************************************************************)
\* The turns of t become those of u by at most one step of the ledger.
Turnwise(t, u) ==
  \/ Open(u) = Open(t) /\ Done(u) = Done(t) /\ Used(u) = Used(t)
  \/ /\ Open(t) = {} /\ Done(t) = {}
     /\ Open(u) = {u.active.id} /\ u.active.id \notin Used(t)
     /\ Done(u) = Done(t) /\ Used(u) = Used(t)
  \/ Open(t) # {} /\ Done(u) = Open(t) /\ Open(u) = {} /\ Used(u) = Used(t)
  \/ Done(t) # {} /\ Used(u) = Used(t) \union Done(t) /\ Done(u) = {} /\ Open(u) = Open(t)
  \/ (Open(t) # {} \/ Done(t) # {}) /\ Open(u) = {} /\ Done(u) = {} /\ Used(u) = Used(t)

\* A stored result is captured, kept or set aside by a human.
Kept(t, u) ==
  t.active.state = "completed" /\ u.active # t.active =>
    t.active.id \in Captured(u) \/ u.active.id = t.active.id

\* The ledger is closed with a task that has failed.
Lawful(t, u) == t.status = "failed" \/ (Turnwise(t, u) /\ Kept(t, u))

LEMMA LawfulLedger ==
  ASSUME Turnwise(disk, disk')
  PROVE  [Ledger!Next]_(Ledger!ledger)
  <1> DEFINE o == InState({"started", "ambiguous"})
             d == InState({"completed"})
             w == {e.id : e \in {h \in disk.history : h.state = "completed"}}
  <1>1. /\ o = Open(disk) /\ o' = Open(disk') /\ d = Done(disk) /\ d' = Done(disk')
        /\ w = Used(disk) /\ w' = Used(disk')
    BY DEF InState, Open, Done, Used
  <1>2. Open(disk') = {disk'.active.id} => disk'.active.id \in Open(disk')
    OBVIOUS
  <1> HIDE DEF o, d, w
  <1>3. \/ o' = o /\ d' = d /\ w' = w
        \/ o = {} /\ d = {} /\ (\E i \in o' : o' = {i} /\ i \notin w) /\ d' = d /\ w' = w
        \/ o # {} /\ d' = o /\ o' = {} /\ w' = w
        \/ d # {} /\ w' = w \union d /\ d' = {} /\ o' = o
        \/ (o # {} \/ d # {}) /\ o' = {} /\ d' = {} /\ w' = w
    BY <1>1, <1>2 DEF Turnwise
  <1> USE DEF o, d, w
  <1> QED
    BY <1>3 DEF Ledger!Next, Ledger!ledger, Ledger!Begin, Ledger!Finish, Ledger!Use,
                Ledger!GiveUp

(***************************************************************************)
(* Steps of a wake that write the task.                                    *)
(***************************************************************************)
LEMMA SpendType ==
  ASSUME spent \in [Kinds -> Nat], NEW k \in Kinds, Spend(k)
  PROVE  spent' \in [Kinds -> Nat]
  BY DEF Spend

\* A task is filed, or taken away.
LEMMA FiledTask ==
  ASSUME NEW e, Filed(e), NEW p \in Places,
         NEW t, t = NoEnvelope \/ (t \in Tasks /\ Known(t))
  PROVE  Filed([e EXCEPT ![p] = t])
  BY DEF Filed

\* An envelope is moved from one directory to another.
LEMMA FiledMove ==
  ASSUME NEW e, Filed(e), NEW p \in Places, NEW q \in Places, e[p] # NoEnvelope
  PROVE  Filed([e EXCEPT ![p] = NoEnvelope, ![q] = e[p]])
  BY DEF Filed

\* A wake that writes a lawful task keeps the invariant.
LEMMA SaveInv ==
  ASSUME IInv, pc \notin {"idle", "claimed"},
         NEW t \in Tasks, NEW next \in Steps \ {"idle", "claimed"}, Save(t, next),
         Known(t), Lawful(mem, t),
         next = "turn" => t.active.state = "started",
         next = "result" => t.active.state = "completed",
         next = "failing" => t.status = "failed",
         before' \in Nat, tree' \in Nat, spent' \in [Kinds -> Nat]
  PROVE  IInv' /\ Lawful(disk, disk')
  <1>1. mem' = t /\ disk' = t /\ due' = TRUE /\ pc' = next /\ env' = env /\ mode' = mode
        /\ pend' = pend /\ enqueue' = enqueue
    BY DEF Save
  <1>2. pend = {}
    BY DEF IInv
  <1>3. mem = disk
    BY DEF IInv, Holds
  <1>4. TypeOK'
    BY <1>1 DEF IInv, TypeOK
  <1>5. Known(disk)' /\ Holds' /\ TurnAtStep'
    BY <1>1 DEF Known, Holds, TurnAtStep
  <1>6. pend' = {}
    BY <1>1, <1>2
  <1> QED
    BY <1>1, <1>3, <1>4, <1>5, <1>6 DEF IInv

\* A task whose turns are untouched stays known, and is lawful.
LEMMA SameTurns ==
  ASSUME NEW t \in Tasks, NEW u \in Tasks, Known(t),
         u.active = t.active, u.history = t.history,
         t.plan => u.plan, u.reviewCount = t.reviewCount
  PROVE  Known(u) /\ Lawful(t, u)
  BY DEF Known, Lawful, Turnwise, Kept, Open, Done, Used

\* The wake holds a well-formed task.
LEMMA HeldTask ==
  ASSUME IInv, pc \notin {"idle", "claimed"}
  PROVE  mem \in Tasks /\ Known(mem) /\ mem = disk
  BY DEF IInv, TypeOK, Holds

\* fail keeps the turns, or gives a started one up at a usage limit.
LEMMA FailInv ==
  ASSUME IInv, pc \notin {"idle", "claimed"},
         NEW kind \in {"infrastructure", "failed", "ambiguous", "usage-limited", "interrupted"},
         kind = "usage-limited" => mem.active.state = "started",
         Fail(kind), before' \in Nat, tree' \in Nat, spent' \in [Kinds -> Nat]
  PROVE  IInv' /\ Lawful(disk, disk')
  <1> DEFINE t == Failed(mem, kind)
             next == IF t.status = "failed" THEN "failing" ELSE "end"
  <1>1. mem \in Tasks /\ Known(mem)
    BY HeldTask
  <1>2. /\ t \in Tasks /\ t.history = mem.history /\ t.plan = mem.plan
        /\ t.reviewCount = mem.reviewCount
        /\ IF kind = "usage-limited" THEN t.active = NoTurn
           ELSE /\ t.active.id = mem.active.id
                /\ mem.active.state # "started" => t.active = mem.active
                /\ mem.active.state = "started" => t.active.state = "ambiguous"
    BY <1>1, FailedTask
  <1>3. Save(t, next) /\ next \in Steps \ {"idle", "claimed", "turn", "result"}
        /\ (next = "failing" => t.status = "failed")
    BY DEF Fail, Steps
  <1> HIDE DEF t, next
  <1>4. Known(t)
    BY <1>1, <1>2 DEF Known, NoTurn
  <1>5. Lawful(mem, t)
    BY <1>1, <1>2, TurnTypes DEF Lawful, Turnwise, Kept, Open, Done, Used, NoTurn
  <1> QED
    BY <1>2, <1>3, <1>4, <1>5, SaveInv

\* The loop never wants a turn whose result it has used.
LEMMA WantedIsNew ==
  ASSUME NEW t \in Tasks, Known(t), NEW phase \in Phases, Wants(t, phase)
  PROVE  Identity(t, phase) \notin Used(t)
  <1>1. /\ Identity(t, phase)[1] = phase
        /\ phase = "convergence-review" => Identity(t, phase)[4] = t.reviewCount
    BY IdentityType
  <1>2. SUFFICES ASSUME NEW e \in t.history, e.state = "completed",
                        e.id = Identity(t, phase)
                 PROVE  FALSE
    BY DEF Used
  <1>3. /\ e.captured
        /\ e.id[1] = "planning" => t.plan
        /\ e.id[1] = "convergence-review" => e.id[4] < t.reviewCount
    BY <1>2 DEF Known
  <1>4. HasCaptured(t, phase)
    BY <1>2, <1>3 DEF HasCaptured, Captured
  <1>5. t.reviewCount \in Nat
    BY DEF Tasks
  <1>6. phase \notin {"planning", "convergence-review"}
    BY <1>1, <1>2, <1>3, <1>5 DEF Wants
  <1> QED
    BY <1>4, <1>6 DEF Wants, Phases

LEMMA TurnInv ==
  ASSUME IInv, NEW phase \in Phases, Turn(phase)
  PROVE  IInv' /\ Lawful(disk, disk')
  <1> USE DEF Turning, Awake
  <1>1. /\ mem \in Tasks /\ Known(mem) /\ pc = "loop" /\ Wants(mem, phase)
        /\ before' \in Nat /\ tree \in Nat /\ spent \in [Kinds -> Nat]
    BY HeldTask DEF Turn, BeginTurn, ReuseResult, RefuseTurn, OpenFails, IInv, TypeOK
  <1>2. CASE BeginTurn(phase)
    <2> DEFINE turn == [state |-> "started", id |-> Identity(mem, phase),
                        decision |-> "none", seen |-> 0]
               t == [mem EXCEPT !.active = turn]
    <2>1. /\ Identity(mem, phase) \in Ids /\ Identity(mem, phase)[1] = phase
          /\ phase = "convergence-review" => Identity(mem, phase)[4] = mem.reviewCount
      BY <1>1, IdentityType
    <2>2. turn \in Turns
      BY <2>1 DEF Turns
    <2>3. /\ t \in Tasks /\ t.active = turn /\ t.history = mem.history
          /\ t.plan = mem.plan /\ t.reviewCount = mem.reviewCount
      BY <1>1, <2>2 DEF Tasks
    <2>4. turn.id = Identity(mem, phase) /\ turn.state = "started"
      OBVIOUS
    <2>5. Save(t, "turn") /\ tree' = tree /\ spent' = spent /\ mem.active.state = "none"
      BY <1>2 DEF BeginTurn
    <2> HIDE DEF turn, t
    <2>6. Known(t)
      BY <1>1, <2>1, <2>3, <2>4 DEF Known
    <2>7. Identity(mem, phase) \notin Used(mem)
      BY <1>1, WantedIsNew
    <2>8. Lawful(mem, t)
      BY <2>3, <2>4, <2>5, <2>7 DEF Lawful, Turnwise, Kept, Open, Done, Used
    <2> QED
      BY <1>1, <2>3, <2>4, <2>5, <2>6, <2>8, SaveInv DEF Steps
  <1>3. CASE ReuseResult(phase)
    <2>1. Save(mem, "result") /\ tree' = tree /\ spent' = spent
          /\ mem.active.state = "completed"
      BY <1>3 DEF ReuseResult
    <2>2. Lawful(mem, mem)
      BY <1>1, SameTurns
    <2> QED
      BY <1>1, <2>1, <2>2, SaveInv DEF Steps
  <1>4. CASE RefuseTurn(phase)
    BY <1>1, <1>4, FailInv DEF RefuseTurn
  <1>5. CASE OpenFails(phase)
    BY <1>1, <1>5, FailInv, SpendType DEF OpenFails, Kinds
  <1> QED
    BY <1>2, <1>3, <1>4, <1>5 DEF Turn

LEMMA AnswerInv ==
  ASSUME IInv, Answer
  PROVE  IInv' /\ Lawful(disk, disk')
  <1>1. /\ mem \in Tasks /\ Known(mem) /\ pc = "turn" /\ mem.active.state = "started"
        /\ before \in Nat /\ before' = before /\ tree \in Nat /\ tree' \in Nat
        /\ spent' \in [Kinds -> Nat]
    BY HeldTask DEF Answer, Awake, IInv, TypeOK, TurnAtStep, Worked
  <1>2. PICK decision \in Decisions(mem.active.id[1]) :
          Save([mem EXCEPT !.active.state = "completed", !.active.decision = decision,
                           !.active.seen = before], "result")
    BY DEF Answer
  <1> DEFINE turn == [mem.active EXCEPT !.state = "completed", !.decision = decision,
                                        !.seen = before]
             t == [mem EXCEPT !.active = turn]
  <1>3. decision \in Verdicts \union {"none", "CONTINUE", "SPLIT"}
    BY RoutineAssumption, EscalatedAssumption, FocusedAssumption DEF Decisions, Verdicts
  <1>4. mem.active \in [state : {"started", "completed", "ambiguous"}, id : Ids,
                        decision : Verdicts \union {"none", "CONTINUE", "SPLIT"}, seen : Nat]
    BY <1>1 DEF Tasks, Turns, NoTurn
  <1>5. turn \in Turns /\ turn.id = mem.active.id /\ turn.state = "completed"
        /\ turn.decision \in Decisions(turn.id[1])
    BY <1>1, <1>3, <1>4 DEF Turns
  <1>6. [mem EXCEPT !.active.state = "completed", !.active.decision = decision,
                    !.active.seen = before] = t
    BY <1>1, <1>4 DEF Tasks
  <1>7. /\ t \in Tasks /\ t.active = turn /\ t.history = mem.history
        /\ t.plan = mem.plan /\ t.reviewCount = mem.reviewCount
    <2> HIDE DEF turn
    <2> QED
      BY <1>1, <1>5 DEF Tasks
  <1> HIDE DEF t, turn
  <1>8. Known(t)
    BY <1>1, <1>5, <1>7 DEF Known
  <1>9. Lawful(mem, t)
    BY <1>1, <1>5, <1>7 DEF Lawful, Turnwise, Kept, Open, Done, Used
  <1> QED
    BY <1>1, <1>2, <1>5, <1>6, <1>7, <1>8, <1>9, SaveInv DEF Steps

\* captureTurn uses the result; what each phase keeps of it makes the history
\* known.
LEMMA CaptureKeeps ==
  ASSUME NEW t \in Tasks, t.active.state = "completed", Known(t),
         NEW u \in Tasks, u.active = NoTurn,
         u.history = t.history \union
           {[id |-> t.active.id, state |-> "completed", captured |-> TRUE]},
         t.plan => u.plan, t.active.id[1] = "planning" => u.plan,
         u.reviewCount \in {t.reviewCount, t.reviewCount + 1},
         t.active.id[1] = "convergence-review" => u.reviewCount = t.reviewCount + 1
  PROVE  Known(u) /\ Lawful(t, u)
  <1> DEFINE e0 == [id |-> t.active.id, state |-> "completed", captured |-> TRUE]
  <1>1. t.reviewCount \in Nat
    BY DEF Tasks
  <1>2. e0.id = t.active.id /\ e0.state = "completed" /\ e0.captured
    OBVIOUS
  <1>3. u.history = t.history \union {e0}
    OBVIOUS
  <1> HIDE DEF e0
  <1>4. e0.id[1] = "convergence-review" => e0.id[4] = t.reviewCount
    BY <1>2 DEF Known
  <1>5. ASSUME NEW e \in t.history, e.state = "completed"
        PROVE  /\ e.captured /\ (e.id[1] = "planning" => u.plan)
               /\ e.id[1] = "convergence-review" => e.id[4] < u.reviewCount
    <2>1. /\ e.captured /\ (e.id[1] = "planning" => t.plan)
          /\ e.id[1] = "convergence-review" => e.id[4] < t.reviewCount
      BY <1>5 DEF Known
    <2>2. CASE e.id[1] # "convergence-review"
      BY <2>1, <2>2
    <2>3. CASE e.id[1] = "convergence-review"
      <3>1. \E a \in Entries : a = e
        BY <1>5 DEF Tasks
      <3>2. e.id[4] \in Nat
        BY <3>1 DEF Entries, Ids
      <3> QED
        BY <1>1, <2>1, <2>3, <3>2
    <2> QED
      BY <2>2, <2>3
  <1>6. /\ e0.captured /\ (e0.id[1] = "planning" => u.plan)
        /\ e0.id[1] = "convergence-review" => e0.id[4] < u.reviewCount
    BY <1>1, <1>2, <1>4
  <1>7. NoTurn.id[1] # "convergence-review" /\ NoTurn.state = "none"
    BY DEF NoTurn
  <1>8. Known(u)
    BY <1>3, <1>5, <1>6, <1>7 DEF Known
  <1>9. Used(u) = Used(t) \union {t.active.id} /\ t.active.id \in Captured(u)
    BY <1>2, <1>3 DEF Used, Captured
  <1>10. Lawful(t, u)
    BY <1>7, <1>9 DEF Lawful, Turnwise, Kept, Open, Done
  <1> QED
    BY <1>8, <1>10

LEMMA CaptureInv ==
  ASSUME IInv, Capture
  PROVE  IInv' /\ Lawful(disk, disk')
  <1> USE DEF Awake
  <1> DEFINE c == Consumed(mem)
  <1>10. pc = "result" /\ before' = 0 /\ tree' = tree
         /\ (spent' = spent \/ Spend("faults"))
    BY DEF Capture, CapturePlan, CaptureImplementation, CaptureReview, RejectReview,
       CaptureConvergence, CaptureFails
  <1>1. /\ mem \in Tasks /\ Known(mem) /\ pc = "result" /\ mem.active.state = "completed"
        /\ before \in Nat /\ before' \in Nat /\ tree \in Nat /\ tree' \in Nat
        /\ spent' \in [Kinds -> Nat]
    BY <1>10, HeldTask, SpendType DEF IInv, TypeOK, TurnAtStep, Kinds
  <1>2. /\ c \in Tasks /\ c.active = NoTurn
        /\ c.history = mem.history \union
             {[id |-> mem.active.id, state |-> "completed", captured |-> TRUE]}
        /\ c.plan = mem.plan /\ c.reviewCount = mem.reviewCount
    BY <1>1, ConsumedTask
  <1>3. SUFFICES ASSUME ~RejectReview, ~CaptureFails
                 PROVE  \E u \in Tasks, next \in {"loop", "implemented"} :
                          /\ Save(u, next) /\ Known(u) /\ Lawful(mem, u)
    <2>1. CASE RejectReview \/ CaptureFails
      BY <1>1, <2>1, FailInv DEF RejectReview, CaptureFails
    <2>2. CASE ~RejectReview /\ ~CaptureFails
      <3>1. PICK u \in Tasks, next \in {"loop", "implemented"} :
              Save(u, next) /\ Known(u) /\ Lawful(mem, u)
        BY <1>3, <2>2
      <3> QED
        BY <1>1, <3>1, SaveInv DEF Steps
    <2> QED
      BY <2>1, <2>2
  <1> HIDE DEF c
  <1>4. CASE CapturePlan
    <2> DEFINE u == [c EXCEPT !.plan = TRUE]
    <2>1. u \in Tasks /\ u.active = NoTurn /\ u.history = c.history /\ u.plan
          /\ u.reviewCount = mem.reviewCount
      BY <1>2 DEF Tasks
    <2>2. Save(u, "loop") /\ mem.active.id[1] = "planning"
      BY <1>4 DEF CapturePlan, c
    <2> HIDE DEF u
    <2>3. Known(u) /\ Lawful(mem, u)
      BY <1>1, <1>2, <2>1, <2>2, CaptureKeeps
    <2> QED
      BY <2>1, <2>2, <2>3
  <1>5. CASE CaptureImplementation
    <2>1. PICK ready \in BOOLEAN :
            Save([c EXCEPT !.passes = @ + 1, !.reviewReady = ready, !.commit = tree,
                           !.fresh = FALSE,
                           !.noProgress = IF tree # mem.commit THEN 0 ELSE @ + 1],
                 "implemented")
      BY <1>5 DEF CaptureImplementation, c
    <2> DEFINE n == IF tree # mem.commit THEN 0 ELSE c.noProgress + 1
               u == [c EXCEPT !.passes = @ + 1, !.reviewReady = ready, !.commit = tree,
                              !.fresh = FALSE, !.noProgress = n]
    <2>2. Save(u, "implemented") /\ mem.active.id[1] = "implementation"
      BY <1>5, <2>1 DEF CaptureImplementation
    <2>3. n \in Nat /\ c.passes + 1 \in Nat
      BY <1>2 DEF Tasks
    <2> HIDE DEF n
    <2>4. u \in Tasks /\ u.active = NoTurn /\ u.history = c.history /\ u.plan = mem.plan
          /\ u.reviewCount = mem.reviewCount
      BY <1>1, <1>2, <2>3 DEF Tasks
    <2> HIDE DEF u
    <2>5. Known(u) /\ Lawful(mem, u)
      BY <1>1, <1>2, <2>2, <2>4, CaptureKeeps
    <2> QED
      BY <2>2, <2>4, <2>5
  <1>6. CASE CaptureReview
    <2> DEFINE r == [decision |-> mem.active.decision, seen |-> mem.active.seen,
                     evidence |-> tree]
               u == [c EXCEPT !.review = r]
    <2>1. Save(u, "loop") /\ Looks(mem.active.id[1])
      BY <1>6 DEF CaptureReview, c
    <2>2. mem.active.decision \in Verdicts \union {"none"} /\ mem.active.seen \in Nat
      <3>1. mem.active \in Turns /\ mem.active # NoTurn
        BY <1>1 DEF Tasks, NoTurn
      <3>2. mem.active.decision \in Decisions(mem.active.id[1])
        BY <1>1 DEF Known
      <3> QED
        BY <2>1, <3>1, <3>2, RoutineAssumption, EscalatedAssumption
        DEF Turns, Looks, Decisions, Verdicts
    <2>3. r \in Reviews
      BY <1>1, <2>2 DEF Reviews
    <2> HIDE DEF r
    <2>4. u \in Tasks /\ u.active = NoTurn /\ u.history = c.history /\ u.plan = mem.plan
          /\ u.reviewCount = mem.reviewCount
      BY <1>2, <2>3 DEF Tasks
    <2> HIDE DEF u
    <2>5. Known(u) /\ Lawful(mem, u)
      BY <1>1, <1>2, <2>1, <2>4, CaptureKeeps DEF Looks
    <2> QED
      BY <2>1, <2>4, <2>5
  <1>7. CASE CaptureConvergence
    <2> DEFINE u == [c EXCEPT !.reviewCount = @ + 1, !.fresh = TRUE,
                              !.focused = mem.active.decision]
    <2>1. Save(u, "loop") /\ mem.active.id[1] = "convergence-review"
      BY <1>7 DEF CaptureConvergence, c
    <2>2. mem.active.decision \in {"none", "CONTINUE", "SPLIT", "BLOCK"}
      BY <1>1, <2>1, FocusedAssumption DEF Known, Decisions
    <2>3. u \in Tasks /\ u.active = NoTurn /\ u.history = c.history /\ u.plan = mem.plan
          /\ u.reviewCount = mem.reviewCount + 1
      <3>1. c.reviewCount \in Nat /\ c.reviewCount + 1 \in Nat
        BY <1>2 DEF Tasks
      <3> QED
        BY <1>1, <1>2, <2>2, <3>1 DEF Tasks
    <2> HIDE DEF u
    <2>4. Known(u) /\ Lawful(mem, u)
      BY <1>1, <1>2, <2>1, <2>3, CaptureKeeps
    <2> QED
      BY <2>1, <2>3, <2>4
  <1> QED
    BY <1>3, <1>4, <1>5, <1>6, <1>7 DEF Capture

\* A step of the loop that leaves the turns alone.
LEMMA StepInv ==
  ASSUME IInv, pc \notin {"idle", "claimed"},
         NEW u \in Tasks, NEW next \in {"loop", "end", "accepted", "replanned", "revised"},
         Step(u, next), u.active = mem.active, u.history = mem.history,
         u.plan = mem.plan, u.reviewCount = mem.reviewCount
  PROVE  IInv' /\ Lawful(disk, disk')
  <1>1. /\ mem \in Tasks /\ Known(mem)
        /\ before' \in Nat /\ tree' \in Nat /\ spent' \in [Kinds -> Nat]
    BY HeldTask DEF Step, IInv, TypeOK
  <1>2. Known(u) /\ Lawful(mem, u)
    BY <1>1, SameTurns
  <1> QED
    BY <1>1, <1>2, SaveInv DEF Step, Steps

\* The task the loop keeps, with the status it moves to and the fields that a
\* decision resets.
LEMMA DecidedTask ==
  ASSUME NEW t \in Tasks, NEW n \in Nat
  PROVE  /\ [t EXCEPT !.noProgress = 0] \in Tasks
         /\ [t EXCEPT !.blocker = "decision"] \in Tasks
         /\ [t EXCEPT !.passes = 0, !.reviewReady = FALSE] \in Tasks
         /\ [t EXCEPT !.rev = t.rev + 1, !.passes = 0, !.reviewReady = FALSE] \in Tasks
  <1>1. t.rev + 1 \in Nat
    BY DEF Tasks
  <1> QED
    BY <1>1 DEF Tasks

LEMMA DecideInv ==
  ASSUME IInv, Decide
  PROVE  IInv' /\ Lawful(disk, disk')
  <1> USE DEF Awake, Decided
  <1>1. mem \in Tasks /\ pc \in {"loop", "implemented", "replanned", "revised"}
    BY HeldTask DEF Decide, Enter, Refocus, Correct, SkipImplementation, Pause, ToReview,
       Accept, Block, Replan, Replanned, Revise, Revised, Continue
  <1>2. ASSUME NEW s \in Statuses
        PROVE  /\ Moved(mem, s) \in Tasks /\ Moved(mem, s).active = mem.active
               /\ Moved(mem, s).history = mem.history /\ Moved(mem, s).plan = mem.plan
               /\ Moved(mem, s).reviewCount = mem.reviewCount
    BY <1>1, MovedTask
  <1>3. ASSUME NEW s \in Statuses, NEW next \in {"loop", "end", "accepted"},
               Step(Moved(mem, s), next)
        PROVE  IInv' /\ Lawful(disk, disk')
    BY <1>1, <1>2, <1>3, StepInv
  <1>4. ASSUME Step([Moved(mem, "blocked") EXCEPT !.blocker = "decision"], "end")
        PROVE  IInv' /\ Lawful(disk, disk')
    <2> DEFINE u == [Moved(mem, "blocked") EXCEPT !.blocker = "decision"]
    <2>1. Moved(mem, "blocked") \in Tasks
      BY <1>2 DEF Statuses
    <2>2. u \in Tasks
      BY <2>1, DecidedTask
    <2>3. /\ u.active = mem.active /\ u.history = mem.history /\ u.plan = mem.plan
          /\ u.reviewCount = mem.reviewCount
      BY <1>1 DEF Moved, Tasks
    <2> HIDE DEF u
    <2> QED
      BY <1>1, <1>4, <2>2, <2>3, StepInv DEF u
  <1>5. CASE Enter
    <2>1. mem.prev \in Statuses
      BY <1>1 DEF Tasks
    <2> QED
      BY <1>3, <1>5, <2>1 DEF Enter, Statuses
  <1>6. CASE Refocus
    <2>1. CASE Step([mem EXCEPT !.noProgress = 0], "loop")
      <3> DEFINE u == [mem EXCEPT !.noProgress = 0]
      <3>1. u \in Tasks
        BY <1>1, DecidedTask
      <3>2. /\ u.active = mem.active /\ u.history = mem.history /\ u.plan = mem.plan
            /\ u.reviewCount = mem.reviewCount
        BY <1>1 DEF Tasks
      <3> HIDE DEF u
      <3> QED
        BY <1>1, <2>1, <3>1, <3>2, StepInv DEF u
    <2> QED
      BY <1>4, <1>6, <2>1 DEF Refocus
  <1>7. CASE Correct
    BY <1>3, <1>7 DEF Correct, Statuses
  <1>8. CASE SkipImplementation
    <2>1. UNCHANGED <<disk, env, mem, due, mode, before, pend, enqueue, tree, spent>>
          /\ pc' = "implemented"
      BY <1>8 DEF SkipImplementation
    <2>2. Known(disk) /\ disk \in Tasks /\ Filed(env)
      BY DEF IInv, TypeOK
    <2>3. pend = {} /\ mem = disk
      BY <1>1 DEF IInv, Holds
    <2>4. TypeOK' /\ Known(disk') /\ Holds' /\ TurnAtStep' /\ pend' = {}
      BY <2>1, <2>2, <2>3 DEF IInv, TypeOK, Holds, TurnAtStep, Steps
    <2>5. Lawful(disk, disk')
      BY <2>1, <2>2, SameTurns
    <2>6. Filed(env')
      BY <2>1, <2>2
    <2> QED
      BY <2>4, <2>5, <2>6 DEF IInv
  <1>9. CASE Pause
    BY <1>1, <1>9, StepInv DEF Pause
  <1>10. CASE ToReview
    BY <1>3, <1>10 DEF ToReview, Statuses
  <1>11. CASE Accept
    BY <1>3, <1>11 DEF Accept, Statuses
  <1>12. CASE Block
    BY <1>4, <1>12 DEF Block
  <1>13. CASE Replan
    <2> DEFINE u == [mem EXCEPT !.passes = 0, !.reviewReady = FALSE]
    <2>1. u \in Tasks
      BY <1>1, DecidedTask
    <2>2. /\ u.active = mem.active /\ u.history = mem.history /\ u.plan = mem.plan
          /\ u.reviewCount = mem.reviewCount
      BY <1>1 DEF Tasks
    <2>3. Step(u, "replanned")
      BY <1>13 DEF Replan
    <2> HIDE DEF u
    <2> QED
      BY <1>1, <2>1, <2>2, <2>3, StepInv
  <1>14. CASE Replanned
    BY <1>3, <1>14 DEF Replanned, Statuses
  <1>15. CASE Revise
    <2> DEFINE u == [mem EXCEPT !.rev = mem.rev + 1, !.passes = 0, !.reviewReady = FALSE]
    <2>1. u \in Tasks
      BY <1>1, DecidedTask
    <2>2. /\ u.active = mem.active /\ u.history = mem.history /\ u.plan = mem.plan
          /\ u.reviewCount = mem.reviewCount
      BY <1>1 DEF Tasks
    <2>3. Step(u, "revised")
      BY <1>1, <1>15 DEF Revise, Tasks
    <2> HIDE DEF u
    <2> QED
      BY <1>1, <2>1, <2>2, <2>3, StepInv
  <1>16. CASE Revised
    BY <1>3, <1>16 DEF Revised, Statuses
  <1>17. CASE Continue
    BY <1>3, <1>17 DEF Continue, Statuses
  <1> QED
    BY <1>5, <1>6, <1>7, <1>8, <1>9, <1>10, <1>11, <1>12, <1>13, <1>14, <1>15, <1>16, <1>17
    DEF Decide

(***************************************************************************)
(* The other steps of a wake, and the environment.                         *)
(***************************************************************************)
\* Steps that leave the status file alone.
LEMMA QuietInv ==
  ASSUME IInv, TypeOK', Filed(env'), disk' = disk, Holds', TurnAtStep', pend' = {}
  PROVE  IInv' /\ Lawful(disk, disk')
  <1>1. Known(disk) /\ disk \in Tasks
    BY DEF IInv, TypeOK
  <1>2. Lawful(disk, disk)
    BY <1>1, SameTurns
  <1> QED
    BY <1>1, <1>2 DEF IInv

\* The wake is over.
LEMMA ReturnInv ==
  ASSUME IInv, Return, disk' = disk, tree' \in Nat, pend' = {}, Filed(env'),
         enqueue' = enqueue, spent' \in [Kinds -> Nat]
  PROVE  IInv' /\ Lawful(disk, disk')
  <1>1. NewTask \in Tasks
    BY DEF NewTask, Tasks, Turns, Reviews, NoReview, Statuses, Verdicts
  <1>2. TypeOK' /\ Holds' /\ TurnAtStep'
    BY <1>1 DEF IInv, TypeOK, Filed, Return, Holds, TurnAtStep, Steps
  <1> QED
    BY <1>2, QuietInv

\* ackWorkTaskFail puts the envelope's task in the status file: the ledger of a
\* task that has failed is closed.
LEMMA AckFailInv ==
  ASSUME IInv, AckFail
  PROVE  IInv' /\ Lawful(disk, disk')
  <1>1. /\ pc = "failing" /\ Return /\ tree' = tree /\ spent' = spent /\ enqueue' = enqueue
        /\ pend = {} /\ pend' = {} /\ mem = disk /\ "failed" \in Statuses
    BY DEF AckFail, Awake, IInv, Holds, Statuses
  <1>2. CASE CanMove(env["runtime"].status, "failed")
    <2> DEFINE e == env["runtime"]
               t == Moved(e, "failed")
    <2>1. e # NoEnvelope
      BY <1>2 DEF CanMove, NoEnvelope
    <2>2. e \in Tasks /\ Known(e)
      BY <2>1 DEF IInv, Filed, Places
    <2>3. t \in Tasks /\ Known(t)
      BY <1>1, <2>2, MovedTask, SameTurns
    <2>4. disk' = t /\ env' = [env EXCEPT !["runtime"] = NoEnvelope, !["fail"] = t]
      BY <1>2 DEF AckFail
    <2> HIDE DEF e, t
    <2>5. Filed(env')
      BY <2>3, <2>4 DEF IInv, Filed, Places
    <2>6. NewTask \in Tasks
      BY DEF NewTask, Tasks, Turns, Reviews, NoReview, Statuses, Verdicts
    <2>7. TypeOK' /\ Holds' /\ TurnAtStep'
      BY <1>1, <2>3, <2>4, <2>5, <2>6 DEF IInv, TypeOK, Filed, Return, Holds, TurnAtStep, Steps
    <2>8. IInv'
      BY <1>1, <2>3, <2>4, <2>5, <2>7 DEF IInv
    <2> QED
      BY <1>1, <2>8 DEF Lawful, IInv, Holds
  <1>3. CASE ~CanMove(env["runtime"].status, "failed")
    BY <1>1, <1>3, ReturnInv DEF AckFail, IInv, TypeOK
  <1> QED
    BY <1>2, <1>3

LEMMA WakeInv ==
  ASSUME IInv, Wake
  PROVE  IInv' /\ Lawful(disk, disk')
  <1> USE DEF Awake
  <1>1. pc # "idle" => pend = {}
    BY DEF IInv
  <1>2. TypeOK /\ before \in Nat /\ tree \in Nat /\ spent \in [Kinds -> Nat]
    BY DEF IInv, TypeOK
  <1>3. CASE WriteEnvelope /\ pc # "idle"
    <2>1. mem \in Tasks /\ Known(mem)
      BY <1>3, HeldTask DEF WriteEnvelope, IInv, Holds
    <2>2. Filed(env')
      BY <1>3, <2>1, FiledTask DEF WriteEnvelope, IInv, Places
    <2>3. CASE pc = "end"
      BY <1>1, <1>2, <1>3, <2>2, <2>3, ReturnInv DEF WriteEnvelope
    <2>4. CASE pc # "end"
      <3>1. TypeOK' /\ Holds' /\ TurnAtStep'
        BY <1>2, <1>3, <2>2, <2>4 DEF WriteEnvelope, IInv, TypeOK, Filed, Holds, TurnAtStep
      <3> QED
        BY <1>1, <1>3, <2>2, <3>1, QuietInv DEF WriteEnvelope
    <2> QED
      BY <2>3, <2>4
  <1>4. CASE Load
    <2>1. Filed(env') /\ env' = env
      BY <1>4 DEF Load, IInv
    <2>2. CASE disk.status # "blocked"
      <3>1. pc' \in {"accepted", "failing", "prepare"} /\ mem' = disk /\ pend' = {}
            /\ UNCHANGED <<due, mode, before, disk, enqueue, tree, spent>>
        BY <1>1, <1>4, <2>2 DEF Load
      <3>2. ~due /\ (pc' = "failing" => disk.status = "failed")
        BY <1>4, <2>2 DEF Load, IInv, Holds
      <3>3. TypeOK'
        BY <1>2, <2>1, <3>1 DEF TypeOK, Steps
      <3>4. Holds' /\ TurnAtStep'
        BY <3>1, <3>2 DEF Holds, TurnAtStep
      <3> QED
        BY <2>1, <3>1, <3>3, <3>4, QuietInv
    <2>3. CASE disk.status = "blocked"
      BY <1>1, <1>2, <1>4, <2>1, <2>3, ReturnInv DEF Load
    <2> QED
      BY <2>2, <2>3
  <1>5. CASE Prepare
    <2>1. mem \in Tasks /\ Known(mem)
      BY <1>5, HeldTask DEF Prepare
    <2>2. Lawful(mem, mem)
      BY <2>1, SameTurns
    <2> QED
      BY <1>2, <1>5, <2>1, <2>2, SaveInv DEF Prepare, Steps
  <1>6. CASE AckSuccess
    <2>1. Filed(env')
      <3>1. Filed([env EXCEPT !["runtime"] = NoEnvelope, !["success"] = env["runtime"]])
        BY DEF IInv, Filed, Places
      <3> QED
        BY <1>6, <3>1 DEF AckSuccess
    <2> QED
      BY <1>1, <1>2, <1>6, <2>1, ReturnInv DEF AckSuccess
  <1>10. CASE AckFail
    BY <1>10, AckFailInv
  <1>7. ASSUME NEW kind \in {"infrastructure", "failed"}, PrepareFails(kind)
        PROVE  IInv' /\ Lawful(disk, disk')
    BY <1>2, <1>7, FailInv, SpendType DEF PrepareFails, Kinds
  <1>8. ASSUME NEW kind \in {"usage-limited", "interrupted"}, TurnFails(kind)
        PROVE  IInv' /\ Lawful(disk, disk')
    <2>1. mem.active.state = "started" /\ pc = "turn" /\ before' = before /\ tree' \in Nat
      BY <1>2, <1>8 DEF TurnFails, IInv, TurnAtStep, Worked
    <2> QED
      BY <1>2, <1>8, <2>1, FailInv, SpendType DEF TurnFails, Kinds
  <1>9. WriteEnvelope => pc # "idle"
    BY DEF WriteEnvelope, IInv, Holds
  <1> QED
    BY <1>3, <1>4, <1>5, <1>6, <1>7, <1>8, <1>9, <1>10, TurnInv, AnswerInv, CaptureInv, DecideInv
    DEF Wake

LEMMA ClaimInv ==
  ASSUME IInv, NEW m \in Modes, Claim(m), Overlap = FALSE
  PROVE  IInv' /\ Lawful(disk, disk')
  <1>1. /\ pc = "idle" /\ pend = {} /\ pend' = pend /\ pc' = "claimed" /\ mode' = m
        /\ disk' = disk /\ mem' = mem /\ due' = due /\ before' = before /\ tree' = tree
        /\ enqueue' = enqueue
    BY DEF Claim
  <1>2. spent' \in [Kinds -> Nat]
    BY SpendType DEF Claim, IInv, TypeOK, Kinds
  <1>3. Filed(env')
    <2>1. CASE env["input"].status = "ready"
      <3>1. env["input"] # NoEnvelope
        BY <2>1 DEF NoEnvelope
      <3>2. Filed([env EXCEPT !["input"] = NoEnvelope, !["runtime"] = env["input"]])
        BY <3>1, FiledMove DEF IInv, Places
      <3> QED
        BY <2>1, <3>2 DEF Claim
    <2>2. CASE env["input"].status # "ready"
      BY <2>2 DEF Claim, IInv
    <2> QED
      BY <2>1, <2>2
  <1>4. TypeOK' /\ Holds' /\ TurnAtStep'
    BY <1>1, <1>2, <1>3 DEF IInv, TypeOK, Filed, Holds, TurnAtStep, Steps
  <1> QED
    BY <1>1, <1>3, <1>4, QuietInv

LEMMA EnvironmentInv ==
  ASSUME IInv, Crash \/ CommandCrash \/ EnqueueCrash \/ Edit
  PROVE  IInv' /\ Lawful(disk, disk')
  <1>1. spent' \in [Kinds -> Nat]
    BY SpendType DEF Crash, CommandCrash, EnqueueCrash, Edit, IInv, TypeOK, Kinds
  <1>2. TypeOK /\ Filed(env)
    BY DEF IInv
  <1>3. CASE Crash
    <2>1. tree' \in Nat
      BY <1>2, <1>3 DEF Crash, TypeOK, Worked
    <2> QED
      BY <1>1, <1>2, <1>3, <2>1, ReturnInv DEF Crash, IInv, TypeOK
  <1>4. CASE CommandCrash
    <2>1. TypeOK' /\ Holds' /\ TurnAtStep' /\ Filed(env')
      BY <1>1, <1>2, <1>4 DEF CommandCrash, IInv, TypeOK, wake, Holds, TurnAtStep
    <2> QED
      BY <1>4, <2>1, QuietInv DEF CommandCrash
  <1>5. ASSUME UNCHANGED <<disk, env, wake, pend>>, TypeOK'
        PROVE  IInv' /\ Lawful(disk, disk')
    <2>1. /\ Known(disk') /\ Filed(env') /\ Holds' /\ TurnAtStep'
          /\ (pend' # {} => pc' = "idle") /\ \A u \in pend' : pend' = {u} /\ Rewriting(disk', u)
      BY <1>5 DEF IInv, wake, Holds, TurnAtStep
    <2>2. Lawful(disk, disk')
      BY <1>2, <1>5, SameTurns DEF IInv, TypeOK
    <2> QED
      BY <1>5, <2>1, <2>2 DEF IInv
  <1>6. CASE EnqueueCrash
    <2>1. TypeOK'
      BY <1>1, <1>2, <1>6 DEF EnqueueCrash, TypeOK, wake
    <2> QED
      BY <1>5, <1>6, <2>1 DEF EnqueueCrash
  <1>7. CASE Edit
    <2>1. TypeOK'
      BY <1>1, <1>2, <1>7 DEF Edit, TypeOK, wake
    <2> QED
      BY <1>5, <1>7, <2>1 DEF Edit
  <1> QED
    BY <1>3, <1>4, <1>6, <1>7

\* A task that is queued is known.
LEMMA EnqueueInv ==
  ASSUME IInv, EnqueueEnvelope
  PROVE  IInv' /\ Lawful(disk, disk')
  <1>1. NewTask \in Tasks /\ Known(NewTask)
    BY DEF NewTask, Tasks, Turns, Reviews, NoReview, Statuses, Verdicts, Known, NoTurn
  <1>2. Filed(env')
    BY <1>1, FiledTask DEF EnqueueEnvelope, IInv, Places
  <1>3. TypeOK'
    BY <1>2 DEF EnqueueEnvelope, IInv, TypeOK, Filed, wake
  <1>4. /\ Known(disk') /\ Holds' /\ TurnAtStep'
        /\ (pend' # {} => pc' = "idle") /\ \A u \in pend' : pend' = {u} /\ Rewriting(disk', u)
    BY DEF EnqueueEnvelope, IInv, wake, Holds, TurnAtStep
  <1>5. Lawful(disk, disk')
    BY SameTurns DEF EnqueueEnvelope, IInv, TypeOK
  <1> QED
    BY <1>2, <1>3, <1>4, <1>5 DEF IInv

(***************************************************************************)
(* Commands.                                                               *)
(***************************************************************************)
\* A command puts a lawful rewriting of the task in the envelope.
LEMMA RewriteInv ==
  ASSUME IInv, NEW u \in Tasks, Rewrite(u), Rewriting(disk, u), pc = "idle",
         spent' \in [Kinds -> Nat]
  PROVE  IInv' /\ Lawful(disk, disk')
  <1>1. pend' = {u} /\ disk' = disk /\ wake' = wake /\ tree' = tree /\ enqueue' = enqueue
    BY DEF Rewrite
  <1>2. Known(u)
    BY DEF Rewriting
  <1>3. Filed(env')
    BY <1>2, FiledTask DEF Rewrite, IInv, Places
  <1>4. TypeOK'
    BY <1>1, <1>3 DEF IInv, TypeOK, Filed, wake
  <1>5. /\ Known(disk') /\ Holds' /\ TurnAtStep' /\ (pend' # {} => pc' = "idle")
        /\ \A v \in pend' : pend' = {v} /\ Rewriting(disk', v)
    BY <1>1 DEF IInv, wake, Holds, TurnAtStep
  <1>6. Lawful(disk, disk')
    BY <1>1, SameTurns DEF IInv, TypeOK
  <1> QED
    BY <1>3, <1>4, <1>5, <1>6 DEF IInv

\* A rewriting with the same turns.
LEMMA SameRewriting ==
  ASSUME NEW t \in Tasks, NEW u \in Tasks, Known(t),
         u.active = t.active, u.history = t.history,
         u.plan = t.plan, u.reviewCount = t.reviewCount
  PROVE  Rewriting(t, u)
  BY SameTurns DEF Rewriting, Open, Done, Used

\* A rewriting that sets the unresolved turn aside: a stored result only with
\* its identity captured.
LEMMA AbandonedRewriting ==
  ASSUME NEW t \in Tasks, NEW u \in Tasks, Known(t), NEW c \in BOOLEAN,
         t.active.state = "completed" => c,
         u.active = NoTurn, u.history = Abandoned(t, c),
         u.plan = t.plan, u.reviewCount = t.reviewCount
  PROVE  Rewriting(t, u)
  <1>1. /\ \A e \in u.history : e.state = "completed" => e \in t.history
        /\ t.history \subseteq u.history
        /\ c /\ t.active.state # "none" =>
             [id |-> t.active.id, state |-> "abandoned", captured |-> TRUE] \in u.history
    BY AbandonedHistory
  <1>2. NoTurn.id[1] # "convergence-review" /\ NoTurn.state = "none"
    BY DEF NoTurn
  <1>3. Used(u) = Used(t)
    BY <1>1 DEF Used
  <1>4. Known(u)
    BY <1>1, <1>2 DEF Known
  <1>5. Open(u) = {} /\ Done(u) = {}
    BY <1>2 DEF Open, Done
  <1>6. ASSUME t.active.state = "completed"
        PROVE  t.active.id \in Captured(u)
    <2> DEFINE e0 == [id |-> t.active.id, state |-> "abandoned", captured |-> TRUE]
    <2>1. e0 \in u.history /\ e0.captured /\ e0.id = t.active.id
      BY <1>1, <1>6
    <2> HIDE DEF e0
    <2> QED
      BY <2>1 DEF Captured
  <1> QED
    BY <1>3, <1>4, <1>5, <1>6 DEF Rewriting

\* What a command that abandons the turn keeps of the task.
Abandons(t, u, c) ==
  /\ u \in Tasks /\ u.active = NoTurn /\ u.history = Abandoned(t, c)
  /\ u.plan = t.plan /\ u.reviewCount = t.reviewCount

LEMMA AbandonedTask ==
  ASSUME NEW t \in Tasks, NEW s \in Statuses, NEW c \in BOOLEAN
  PROVE  /\ Abandons(t, [Moved(t, s) EXCEPT !.active = NoTurn, !.history = Abandoned(t, c),
                                            !.res = @ + 1], c)
         /\ Abandons(t, [Moved(t, s) EXCEPT !.active = NoTurn, !.history = Abandoned(t, c),
                                            !.res = @ + 1, !.blocker = "none"], c)
         /\ \A n \in Nat :
              Abandons(t, [Moved(t, s) EXCEPT !.active = NoTurn, !.history = Abandoned(t, c),
                                              !.blocker = "none", !.recoveries = n], c)
  <1> DEFINE m == Moved(t, s)
             h == Abandoned(t, c)
  <1>1. m \in Tasks /\ m.plan = t.plan /\ m.reviewCount = t.reviewCount
    BY MovedTask
  <1>2. m.res + 1 \in Nat
    BY <1>1 DEF Tasks
  <1>3. h \in SUBSET Entries
    BY AbandonedHistory
  <1>4. NoTurn \in Turns
    BY DEF Turns
  <1> HIDE DEF m, h
  <1>5. Abandons(t, [m EXCEPT !.active = NoTurn, !.history = h, !.res = m.res + 1], c)
    BY <1>1, <1>2, <1>3, <1>4 DEF Tasks, Abandons, h
  <1>6. Abandons(t, [m EXCEPT !.active = NoTurn, !.history = h, !.res = m.res + 1,
                              !.blocker = "none"], c)
    BY <1>1, <1>2, <1>3, <1>4 DEF Tasks, Abandons, h
  <1>7. ASSUME NEW n \in Nat
        PROVE  Abandons(t, [m EXCEPT !.active = NoTurn, !.history = h, !.blocker = "none",
                                     !.recoveries = n], c)
    BY <1>1, <1>3, <1>4 DEF Tasks, Abandons, h
  <1> QED
    BY <1>1, <1>5, <1>6, <1>7 DEF m, h

LEMMA PhaseStatusType ==
  ASSUME NEW t \in Tasks
  PROVE  PhaseStatus(t) \in Statuses
  BY DEF PhaseStatus, Statuses

LEMMA CommandInv ==
  ASSUME IInv, Command, Overlap = FALSE
  PROVE  IInv' /\ Lawful(disk, disk')
  <1>1. disk \in Tasks /\ Known(disk) /\ spent \in [Kinds -> Nat]
    BY DEF IInv, TypeOK
  <1>2. ASSUME NEW s \in Statuses
        PROVE  /\ Moved(disk, s) \in Tasks /\ Moved(disk, s).active = disk.active
               /\ Moved(disk, s).history = disk.history /\ Moved(disk, s).plan = disk.plan
               /\ Moved(disk, s).reviewCount = disk.reviewCount
    BY <1>1, MovedTask
  <1>3. Spend("commands") => spent' \in [Kinds -> Nat]
    BY <1>1, SpendType DEF Kinds
  <1>4. CASE ReconcileCompleted
    <2>1. PhaseStatus(disk) \in Statuses
      BY <1>1, PhaseStatusType
    <2>2. Rewriting(disk, Moved(disk, PhaseStatus(disk)))
      BY <1>1, <1>2, <2>1, SameRewriting
    <2> QED
      BY <1>1, <1>2, <1>4, <2>1, <2>2, RewriteInv DEF ReconcileCompleted
  <1>5. CASE ReconcileKeeps
    <2>1. Rewriting(disk, disk)
      BY <1>1, SameRewriting
    <2> QED
      BY <1>1, <1>5, <2>1, RewriteInv DEF ReconcileKeeps
  <1>6. CASE ReconcileStale
    <2> DEFINE s == PhaseStatus(disk)
               u == [Moved(disk, s) EXCEPT !.active = NoTurn, !.history = Abandoned(disk, FALSE),
                                           !.res = @ + 1, !.blocker = "none"]
    <2>1. s \in Statuses
      BY <1>1, PhaseStatusType
    <2>2. Abandons(disk, u, FALSE)
      BY <1>1, <2>1, AbandonedTask
    <2>3. Rewrite(u) /\ pc = "idle" /\ disk.active.state # "completed" /\ spent' = spent
      BY <1>6 DEF ReconcileStale
    <2> HIDE DEF u
    <2>4. Rewriting(disk, u)
      BY <1>1, <2>2, <2>3, AbandonedRewriting DEF Abandons
    <2> QED
      BY <1>1, <2>2, <2>3, <2>4, RewriteInv DEF Abandons
  <1>7. CASE Recover
    <2> DEFINE s == IF Concrete(disk) THEN "revision" ELSE "ready"
               n == IF Concrete(disk) THEN disk.recoveries ELSE disk.recoveries + 1
               u == [Moved(disk, s) EXCEPT !.active = NoTurn, !.history = Abandoned(disk, FALSE),
                                           !.blocker = "none", !.recoveries = n]
    <2>1. s \in Statuses /\ n \in Nat
      BY <1>1 DEF Statuses, Tasks
    <2>2. Abandons(disk, u, FALSE)
      BY <1>1, <2>1, AbandonedTask
    <2>3. Moved(disk, s).recoveries = disk.recoveries
      BY <1>1 DEF Moved, Tasks
    <2>4. Rewrite(u) /\ pc = "idle" /\ disk.active.state # "completed" /\ spent' = spent
      BY <1>7, <2>3 DEF Recover
    <2> HIDE DEF u
    <2>5. Rewriting(disk, u)
      BY <1>1, <2>2, <2>4, AbandonedRewriting DEF Abandons
    <2> QED
      BY <1>1, <2>2, <2>4, <2>5, RewriteInv DEF Abandons
  <1>8. CASE Resume
    <2> DEFINE u == [Moved(disk, "ready") EXCEPT !.active = NoTurn,
                                                 !.history = Abandoned(disk, TRUE), !.res = @ + 1]
    <2>1. Abandons(disk, u, TRUE)
      BY <1>1, AbandonedTask DEF Statuses
    <2>2. Rewrite(u) /\ pc = "idle" /\ Spend("commands")
      BY <1>8 DEF Resume, Commanded
    <2> HIDE DEF u
    <2>3. Rewriting(disk, u)
      BY <1>1, <2>1, AbandonedRewriting DEF Abandons
    <2> QED
      BY <1>3, <2>1, <2>2, <2>3, RewriteInv DEF Abandons
  <1>9. CASE HumanBlock
    <2> DEFINE u == [Moved(disk, "blocked") EXCEPT !.blocker = "decision"]
    <2>1. Moved(disk, "blocked") \in Tasks
      BY <1>2 DEF Statuses
    <2>2. u \in Tasks
      BY <2>1, DecidedTask
    <2>3. /\ u.active = disk.active /\ u.history = disk.history /\ u.plan = disk.plan
          /\ u.reviewCount = disk.reviewCount
      BY <1>1 DEF Moved, Tasks
    <2>4. Rewrite(u) /\ pc = "idle" /\ Spend("commands")
      BY <1>9 DEF HumanBlock, Commanded
    <2> HIDE DEF u
    <2>5. Rewriting(disk, u)
      BY <1>1, <2>2, <2>3, SameRewriting
    <2> QED
      BY <1>3, <2>2, <2>4, <2>5, RewriteInv
  <1>10. CASE HumanFail
    <2> DEFINE u == IF disk.status = "failed" THEN disk ELSE Moved(disk, "failed")
    <2>1. "failed" \in Statuses
      BY DEF Statuses
    <2>2. u \in Tasks /\ Rewriting(disk, u)
      BY <1>1, <1>2, <2>1, SameRewriting
    <2>3. Rewrite(u) /\ pc = "idle" /\ Spend("commands")
      BY <1>10 DEF HumanFail, Commanded
    <2> HIDE DEF u
    <2> QED
      BY <1>3, <2>2, <2>3, RewriteInv
  <1>11. CASE Rewritten
    <2>1. /\ disk' \in pend /\ pend' \in {{}, pend} /\ env' = env /\ wake' = wake
          /\ tree' = tree /\ spent' = spent /\ enqueue' = enqueue /\ pc = "idle"
          /\ (pend' # {} => disk'.status = "failed")
      BY <1>11 DEF Rewritten, IInv
    <2>2. Rewriting(disk, disk') /\ disk' \in Tasks
      BY <2>1 DEF IInv, TypeOK
    <2>3. TypeOK'
      BY <2>1, <2>2 DEF IInv, TypeOK, wake
    <2>4. Known(disk') /\ Filed(env') /\ Holds' /\ TurnAtStep' /\ pc' = "idle"
      BY <2>1, <2>2 DEF IInv, wake, Holds, TurnAtStep, Rewriting
    <2>5. \A u \in pend' : pend' = {u} /\ Rewriting(disk', u)
      <3>1. Rewriting(disk', disk')
        BY <2>2, SameRewriting DEF Rewriting
      <3>2. pend = {disk'}
        BY <2>1 DEF IInv
      <3> QED
        BY <2>1, <3>1, <3>2
    <2>6. Lawful(disk, disk')
      <3>1. Turnwise(disk, disk')
        <4>1. (Open(disk) # {} \/ Done(disk) # {}) \/ (Open(disk) = {} /\ Done(disk) = {})
          OBVIOUS
        <4> QED
          BY <2>2, <4>1 DEF Turnwise, Rewriting
      <3>2. Kept(disk, disk')
        BY <2>2 DEF Kept, Rewriting
      <3> QED
        BY <3>1, <3>2 DEF Lawful
    <2> QED
      BY <2>3, <2>4, <2>5, <2>6 DEF IInv
  <1>12. CASE Withdraw
    <2>1. /\ UNCHANGED <<disk, wake, enqueue, tree, spent>> /\ pend' = {}
      BY <1>12 DEF Withdraw
    <2>2. Filed(env')
      BY <1>12, FiledMove DEF Withdraw, IInv, Places
    <2>3. TypeOK' /\ Holds' /\ TurnAtStep'
      BY <2>1, <2>2 DEF IInv, TypeOK, Filed, wake, Holds, TurnAtStep
    <2> QED
      BY <2>1, <2>2, <2>3, QuietInv
  <1> QED
    BY <1>4, <1>5, <1>6, <1>7, <1>8, <1>9, <1>10, <1>11, <1>12 DEF Command

(***************************************************************************)
(* The theorems.                                                           *)
(***************************************************************************)
LEMMA InitInv == Init => IInv
  <1> SUFFICES ASSUME Init PROVE IInv
    OBVIOUS
  <1>1. NewTask \in Tasks /\ NewTask.active = NoTurn /\ NewTask.history = {}
    BY DEF NewTask, Tasks, Turns, Reviews, NoReview, Statuses, Verdicts
  <1>2. TypeOK
    BY <1>1 DEF Init, TypeOK, Steps, Statuses
  <1>3. Known(disk) /\ Filed(env)
    BY <1>1 DEF Init, Known, Filed, NoTurn
  <1> QED
    BY <1>2, <1>3 DEF Init, IInv, Holds, TurnAtStep

LEMMA NextInv ==
  ASSUME IInv, [Next]_vars, Overlap = FALSE
  PROVE  IInv' /\ Lawful(disk, disk')
  <1>1. CASE UNCHANGED vars
    <2>1. TypeOK' /\ Filed(env')
      BY <1>1 DEF vars, wake, IInv, TypeOK
    <2>2. IInv'
      BY <1>1, <2>1 DEF vars, wake, IInv, Holds, TurnAtStep
    <2>3. Lawful(disk, disk')
      BY <1>1, SameTurns DEF vars, IInv, TypeOK
    <2> QED
      BY <2>2, <2>3
  <1> QED
    BY <1>1, ClaimInv, WakeInv, EnqueueInv, CommandInv, EnvironmentInv DEF Next

\* The invariant holds of every task that no command overlaps.
LEMMA Invariance == ASSUME Overlap = FALSE PROVE Spec => []IInv
  <1>1. IInv /\ [Next]_vars => IInv'
    BY NextInv
  <1> QED
    BY <1>1, InitInv, PTL DEF Spec

\* Every variable has its type, for any verdicts, limits, wakes and troubles,
\* where no command overlaps a wake.
THEOREM WorkTypes == ASSUME Overlap = FALSE PROVE Spec => []TypeOK
  <1>1. IInv => TypeOK
    BY DEF IInv
  <1> QED
    BY <1>1, Invariance, PTL

\* The turns of a task that has not failed are a ledger, for any verdicts, limits,
\* wakes and troubles: no two are unresolved at once, no result is used twice and
\* no turn whose result was used is begun again.
THEOREM WorkLedger == ASSUME Overlap = FALSE PROVE Spec => TurnsLedgered
  <1>1. Init => Ledger!Init
    BY DEF Init, Ledger!Init, NewTask, NoTurn, InState
  <1>2. IInv /\ [Next]_vars
          => [disk.status = "failed" \/ [Ledger!Next]_(Ledger!ledger)]_vars
    BY NextInv, LawfulLedger DEF Lawful
  <1> QED
    BY <1>1, <1>2, Invariance, PTL DEF Spec, TurnsLedgered

\* Until its task fails, a stored result is dropped by a human who resumes the
\* task without it, and by nobody else.
THEOREM WorkResultKept == ASSUME Overlap = FALSE PROVE Spec => ResultKept
  <1>1. IInv /\ [Next]_vars =>
          [disk.active.state = "completed" /\ disk'.active # disk.active
             => \/ disk.active.id \in Captured(disk')
                \/ disk'.active.id = disk.active.id
                \/ disk.status = "failed"]_vars
    BY NextInv DEF Lawful, Kept
  <1> QED
    BY <1>1, Invariance, PTL DEF Spec, ResultKept
=============================================================================

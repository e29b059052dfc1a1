----------------------------- MODULE TurnLedger -----------------------------
(***************************************************************************)
(* What the work lane promises about the agent turns it pays for: one turn *)
(* is unresolved at a time, its result is used at most once, and a turn    *)
(* whose result was used is never begun again.  A turn is known by its     *)
(* request identity (program/runtime/work/supervisor.mjs, requestIdentity).*)
(***************************************************************************)
VARIABLES
  open,           \* the turn that was begun and has not answered, if any
  done,           \* the turn that answered and whose result is not used yet
  used            \* the turns whose result was used

ledger == <<open, done, used>>

Init == open = {} /\ done = {} /\ used = {}

\* A turn begins when none is unresolved, and not after its result was used.
Begin ==
  /\ open = {} /\ done = {}
  /\ \E i \in open' : open' = {i} /\ i \notin used
  /\ UNCHANGED <<done, used>>

Finish ==
  /\ open # {}
  /\ done' = open /\ open' = {}
  /\ UNCHANGED used

Use ==
  /\ done # {}
  /\ used' = used \union done /\ done' = {}
  /\ UNCHANGED open

\* An unresolved turn is given up; the same identity may then be begun again.
GiveUp ==
  /\ open # {} \/ done # {}
  /\ open' = {} /\ done' = {}
  /\ UNCHANGED used

Next == Begin \/ Finish \/ Use \/ GiveUp

Spec == Init /\ [][Next]_ledger
=============================================================================

----------------------------- MODULE AtMostOnce -----------------------------
(***************************************************************************)
(* What submitting a job to a federation of Housekeepers promises: it takes*)
(* effect at most once, and an acceptance is never an empty word.  It is   *)
(* not promised that a refused job has no effect: the refusal may be the   *)
(* answer to a call that was given up.                                     *)
(***************************************************************************)
CONSTANT Requests

VARIABLES
  answer,     \* what the client of each request has been told
  effect      \* what has become of its job

vars == <<answer, effect>>

Init ==
  /\ answer = [r \in Requests |-> "none"]
  /\ effect = [r \in Requests |-> "none"]

Answered(r, word) == answer[r] = "none" /\ answer' = [answer EXCEPT ![r] = word]

\* A host takes the job on; if the client asked this very host, it is told.
Place(r) ==
  /\ effect[r] = "none"
  /\ effect' = [effect EXCEPT ![r] = "ready"]
  /\ Answered(r, "accepted") \/ UNCHANGED answer

Accept(r) == effect[r] # "none" /\ Answered(r, "accepted") /\ UNCHANGED effect

Refuse(r) == Answered(r, "refused") /\ UNCHANGED effect

Begin(r) ==
  /\ effect[r] = "ready"
  /\ effect' = [effect EXCEPT ![r] = "running"]
  /\ UNCHANGED answer

End(r) ==
  /\ effect[r] = "running"
  /\ \E outcome \in {"success", "fail"} : effect' = [effect EXCEPT ![r] = outcome]
  /\ UNCHANGED answer

\* Jobs that had not ended are given up, for good.
Lose(S) ==
  /\ \A r \in S : effect[r] \in {"ready", "running"}
  /\ effect' = [r \in Requests |-> IF r \in S THEN "killed" ELSE effect[r]]
  /\ UNCHANGED answer

Next ==
  \/ \E r \in Requests : Place(r) \/ Accept(r) \/ Refuse(r) \/ Begin(r) \/ End(r)
  \/ \E S \in SUBSET Requests : Lose(S)

Spec == Init /\ [][Next]_vars
=============================================================================

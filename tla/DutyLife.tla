------------------------------ MODULE DutyLife ------------------------------
(***************************************************************************)
(* What the GPU duty lane promises of each duty: its envelope is queued    *)
(* once, claimed and given back any number of times until its job is sent, *)
(* and settled for good; its job is sent at most once, out of a claim and  *)
(* after the jobs of its dependencies have succeeded; neither the envelope *)
(* nor the answer to its client says success before the job has succeeded. *)
(* It is not promised that a failed duty was never sent, nor that answer   *)
(* and envelope agree.                                                     *)
(***************************************************************************)
EXTENDS Naturals

CONSTANTS
  Duties,
  Deps        \* Deps[d]: the duties that d depends on

VARIABLES
  stage,      \* where the envelope of each duty is
  sends,      \* how often its job was sent
  done,       \* the duties a job of which has succeeded
  answer      \* what its client has been told

life == <<stage, sends, done, answer>>

Init ==
  /\ stage = [d \in Duties |-> "none"]
  /\ sends = [d \in Duties |-> 0]
  /\ done = {}
  /\ answer = [d \in Duties |-> "none"]

Moves(d, from, to) ==
  /\ stage[d] = from
  /\ stage' = [stage EXCEPT ![d] = to]
  /\ UNCHANGED <<sends, done, answer>>

Queue(d) == Moves(d, "none", "input")

Claim(d) == Moves(d, "input", "claimed")

GiveBack(d) == Moves(d, "claimed", "input") /\ sends[d] = 0

Settle(d) ==
  \/ Moves(d, "claimed", "success") /\ d \in done
  \/ Moves(d, "claimed", "fail")

\* The claim may have been settled under the hands of a slow worker, as failed.
Send(d) ==
  /\ stage[d] \in {"claimed", "fail"}
  /\ sends[d] = 0
  /\ Deps[d] \subseteq done
  /\ sends' = [sends EXCEPT ![d] = 1]
  /\ UNCHANGED <<stage, done, answer>>

Succeed(d) ==
  /\ sends[d] = 1
  /\ done' = done \cup {d}
  /\ UNCHANGED <<stage, sends, answer>>

Answer(d) ==
  /\ stage[d] # "none" /\ answer[d] = "none"
  /\ \E word \in {"success", "fail"} :
       /\ word = "success" => d \in done
       /\ answer' = [answer EXCEPT ![d] = word]
  /\ UNCHANGED <<stage, sends, done>>

Next ==
  \E d \in Duties :
    \/ Queue(d) \/ Claim(d) \/ GiveBack(d) \/ Settle(d)
    \/ Send(d) \/ Succeed(d) \/ Answer(d)

Spec == Init /\ [][Next]_life
=============================================================================

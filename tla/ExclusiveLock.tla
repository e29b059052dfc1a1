---------------------------- MODULE ExclusiveLock ----------------------------
(***************************************************************************)
(* What a lease promises: one holder at a time, taken only when it is      *)
(* free and given back only by who holds it.  Nothing is said of how.      *)
(***************************************************************************)
CONSTANT Procs

VARIABLE holders      \* the processes that hold the lock: none or one

Init == holders = {}

Take(p) == holders = {} /\ holders' = {p}

Give(p) == holders = {p} /\ holders' = {}

Next == \E p \in Procs : Take(p) \/ Give(p)

Spec == Init /\ [][Next]_holders
=============================================================================

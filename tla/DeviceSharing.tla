---------------------------- MODULE DeviceSharing ----------------------------
(***************************************************************************)
(* What a device gate promises: a device is used by any number of jobs     *)
(* that may share it, or by one user alone.  Nothing is said of how users  *)
(* wait, nor of who is served first.                                       *)
(***************************************************************************)
CONSTANTS
  Users,      \* jobs and requests that use the device
  Sharers     \* those that may use it together

VARIABLE using      \* the users of the device now

Init == using = {}

Enter(u) ==
  /\ u \notin using
  /\ IF u \in Sharers THEN using \subseteq Sharers ELSE using = {}
  /\ using' = using \cup {u}

Leave(u) ==
  /\ u \in using
  /\ using' = using \ {u}

Next == \E u \in Users : Enter(u) \/ Leave(u)

Spec == Init /\ [][Next]_using
=============================================================================

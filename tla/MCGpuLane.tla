----------------------------- MODULE MCGpuLane -----------------------------
(* Model values and bounds for checking GpuLane with TLC.                  *)
EXTENDS GpuLane

CONSTANTS w1, w2, c1

\* The second duty depends on the first.
MCDeps == [d \in Duties |-> IF d = 2 THEN {1} ELSE {}]

\* Slots of one process have different tags; the first slots of two processes
\* have the same.
MCTagApart == [w \in Workers |-> IF w = w1 THEN "slot-0" ELSE "slot-1"]
MCTagShared == [w \in Workers |-> "slot-0"]
=============================================================================

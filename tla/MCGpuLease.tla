---------------------------- MODULE MCGpuLease ----------------------------
(* Model values and bounds for checking GpuLease with TLC.                 *)
EXTENDS GpuLease

CONSTANTS p1, p2, p3, h1, h2, h3

\* Two worker processes started alike give their first slot the same owner
\* name; the third process has its own.
MCOwnerOf == [p \in Procs |-> IF p = p3 THEN "gpu-worker-slot-1" ELSE "gpu-worker-slot-0"]
=============================================================================

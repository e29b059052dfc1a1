---------------------------- MODULE MCDeviceGate ----------------------------
(* Model values and bounds for checking DeviceGate with TLC.               *)
EXTENDS DeviceGate

CONSTANTS s1, s2, s3, e1, e2, v1

\* Of three sharers any two fit in four units but for the first with the
\* second; all three never fit.  A job that does not share may declare VRAM.
MCVram ==
  [j \in Jobs |-> CASE j = s1 -> 3 [] j = s2 -> 2 [] j = s3 -> 1 [] OTHER -> 4]
=============================================================================

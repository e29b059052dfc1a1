-------------------------- MODULE MCWorkSupervisor --------------------------
(***************************************************************************)
(* Instances of WorkSupervisor for TLC.                                    *)
(***************************************************************************)
EXTENDS WorkSupervisor
=============================================================================

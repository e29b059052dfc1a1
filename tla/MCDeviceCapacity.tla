-------------------------- MODULE MCDeviceCapacity --------------------------
(* Model values and bounds for checking DeviceCapacity with TLC.           *)
EXTENDS DeviceCapacity

CONSTANTS big, small, picture, chat, a, b, c, p

\* On a device of four units Ollama's big model needs all of it, so that the others
\* have to go, one after the other; its small one has room beside them, and the job
\* that needs it declares nothing.
MCRuntimeOf ==
  [m \in Models |-> CASE m \in {big, small} -> "ollama" [] m = picture -> "comfyui"
                     [] m = chat -> "strata"]
MCSize == [m \in Models |-> CASE m = big -> 4 [] m \in {small, picture} -> 2 [] m = chat -> 1]
MCModel == [u \in Users |-> CASE u = a -> big [] u = b -> small [] u = c -> picture
                    [] u = p -> chat]
MCNeed == [u \in Users |-> IF u = b THEN 0 ELSE MCSize[MCModel[u]]]
=============================================================================

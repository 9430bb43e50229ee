--------------------------- MODULE MCZbIoBuffer ---------------------------
(* The send list with a few heap blocks, two devices and two sequence      *)
(* numbers: enough for a reply that answers several commands, a give-up    *)
(* that takes others along, and a block that is freed and used again.  No  *)
(* symmetry: the run also checks liveness.                                 *)
EXTENDS ZbIoBuffer
===========================================================================

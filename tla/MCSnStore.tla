----------------------------- MODULE MCSnStore -----------------------------
(* Three serial numbers: the one that is stored, one whose write was        *)
(* interrupted, and a third.  No symmetry: the register is a refinement.    *)
EXTENDS SnStore
============================================================================

------------------------------ MODULE MCZbZdo ------------------------------
(* The interview of two devices with up to two endpoints.                   *)
EXTENDS ZbZdo, TLC

MCSymmetry == Permutations(Dev) \cup Permutations(Addr)
============================================================================

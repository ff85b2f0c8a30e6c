----------------------------- MODULE MCReadCaches -----------------------------
(* Constants of the model-checking run of ReadCaches.                      *)
EXTENDS ReadCaches, TLC

MCSymmetry == Permutations(Requests)
=============================================================================

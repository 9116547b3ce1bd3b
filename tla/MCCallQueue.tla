----------------------------- MODULE MCCallQueue -----------------------------
(* Instances of CallQueue for TLC: the configurations choose who dispatches  *)
(* and what the calls do.  Clients are interchangeable; the symmetry is used *)
(* only by the configurations that check no liveness.                       *)
EXTENDS CallQueue, TLC

ClientSymmetry == Permutations(Clients)
=============================================================================

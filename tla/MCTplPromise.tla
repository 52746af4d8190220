---------------------------- MODULE MCTplPromise ----------------------------
(* A small instance of TplPromise for TLC.                                  *)
EXTENDS TplPromise, TLC

Symmetry == Permutations(Fid) \cup Permutations(Data)
=============================================================================

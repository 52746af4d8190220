---------------------------- MODULE MCTplStorage ----------------------------
(* Small instances of TplStorage for TLC.                                   *)
EXTENDS TplStorage, TLC

Symmetry == Permutations(Fid) \cup Permutations(Data)
=============================================================================

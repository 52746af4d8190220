---------------------------- MODULE MCTaFingers ----------------------------
(* Small instances of TaFingers for TLC.                                    *)
EXTENDS TaFingers, TLC

Symmetry == Permutations(Finger)
=============================================================================

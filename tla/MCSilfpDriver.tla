--------------------------- MODULE MCSilfpDriver ---------------------------
(* Small instances of SilfpDriver for TLC.                                  *)
EXTENDS SilfpDriver, TLC

Symmetry == Permutations(Thread)
=============================================================================

--------------------------- MODULE MCSilfpEvents ---------------------------
(* Small instances of SilfpEvents for TLC.                                  *)
EXTENDS SilfpEvents, TLC

CONSTANTS k1, k2

BuiltInCode == [n \in Nav |-> k1]
(* The screen, with the words that DEINIT sends; and the keys.              *)
TwoMixes == { {"hello", "blank", "ask", "init", "deinit"},
              {"init", "deinit", "kmap", "key"} }
KeyMix == {{"init", "key"}}
Symmetry == Permutations(Thread)
=============================================================================

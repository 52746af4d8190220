-------------------------- MODULE MCSilfpLifecycle --------------------------
(* Small instances of SilfpLifecycle for TLC.                               *)
EXTENDS SilfpLifecycle, TLC

Symmetry == Permutations(Client) \cup Permutations(Dev)
=============================================================================

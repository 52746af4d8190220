---------------------------- MODULE MCTaSession ----------------------------
(* Small instances of TaSession for TLC.                                    *)
EXTENDS TaSession
=============================================================================

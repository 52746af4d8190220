----------------------------- MODULE MCTaEntry -----------------------------
(* A small instance of TaEntry for TLC: a register table with two words per *)
(* entry, then a parameter table with one.                                  *)
EXTENDS TaEntry

CONSTANT b1

TwoTables == <<"cfg", "param">>
EntryWidth == [t \in {"cfg", "param"} |-> IF t = "cfg" THEN 2 ELSE 1]
AllZero == [s \in Scalar |-> 0]
=============================================================================

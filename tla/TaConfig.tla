------------------------------ MODULE TaConfig ------------------------------
(***************************************************************************)
(* The sensor configuration of the trusted app, silead_config.c: one       *)
(* static cf_set_t, whose register tables and parameter tables begin as    *)
(* constant arrays (gsl7011a.h) and can be replaced by blocks of the heap. *)
(* Each function is given as the set of states it may end in.              *)
(*                                                                         *)
(* What a table contains is data; a table is told by where it lies.  The   *)
(* scalar values that an update also changes are left out: no step depends *)
(* on them here.                                                           *)
(***************************************************************************)
EXTENDS Naturals

CONSTANTS
  Table,    \* register tables, parameter tables and the version table
  BuiltIn   \* those the configuration of the sensor comes with

ASSUME TableAssumption == BuiltIn \subseteq Table

(* reg and val pointers, the updated flags, and heap blocks per table (by   *)
(* the allocator's count).                                                  *)
CfgState == [at      : [Table -> {"none", "builtin", "heap"}],
             updated : [Table -> BOOLEAN],
             blocks  : [Table -> Nat]]

CfgStart == [at      |-> [t \in Table |-> IF t \in BuiltIn THEN "builtin" ELSE "none"],
             updated |-> [t \in Table |-> FALSE],
             blocks  |-> [t \in Table |-> 0]]

(* silfp_cfg_update, silfp_cfg_pb_param_update and silfp_cfg_dev_ver_update *)
(* for the tables T, each with a new block: the old block is freed.         *)
Replaced_NoFree(c, T) ==
  [c EXCEPT !.at      = [t \in Table |-> IF t \in T THEN "heap" ELSE @[t]],
            !.updated = [t \in Table |-> t \in T \/ @[t]],
            !.blocks  = [t \in Table |-> IF t \in T THEN @[t] + 1 ELSE @[t]]]

Replaced(c, T) ==
  [c EXCEPT !.at      = [t \in Table |-> IF t \in T THEN "heap" ELSE @[t]],
            !.updated = [t \in Table |-> t \in T \/ @[t]],
            !.blocks  = [t \in Table |-> IF t \in T /\ ~c.updated[t] THEN @[t] + 1
                                         ELSE @[t]]]

(* silfp_cfg_update_config with the tables T in the buffer: a buffer for    *)
(* another chip or of the wrong length changes nothing; a table for which   *)
(* there is no memory is skipped.                                           *)
AfterUpdate(c, T) == {Replaced(c, U) : U \in SUBSET T}

(* silfp_cfg_update_ex: a table is copied to the heap before its first      *)
(* change; an empty one is left alone.                                      *)
AfterUpdateEx(c, t) ==
  {c} \cup IF c.at[t] # "none" /\ ~c.updated[t] THEN {Replaced(c, {t})} ELSE {}

(* silfp_cfg_deinit: what was updated is freed and then missing.            *)
Released_StaysMarked(c) ==
  [c EXCEPT !.at      = [t \in Table |-> IF c.updated[t] THEN "none" ELSE @[t]],
            !.blocks  = [t \in Table |-> IF c.updated[t] THEN @[t] - 1 ELSE @[t]]]

Released(c) ==
  [c EXCEPT !.at      = [t \in Table |-> IF c.updated[t] THEN "none" ELSE @[t]],
            !.updated = [t \in Table |-> FALSE],
            !.blocks  = [t \in Table |-> IF c.updated[t] THEN @[t] - 1 ELSE @[t]]]

(* A block is held exactly for a table that lies on the heap, and exactly   *)
(* those are marked: none is leaked, and no constant array is freed.        *)
BlocksMatch(c) ==
  \A t \in Table : /\ c.updated[t] <=> c.at[t] = "heap"
                   /\ c.blocks[t] = IF c.updated[t] THEN 1 ELSE 0
=============================================================================

---------------------------- MODULE TaConfigWire ----------------------------
(***************************************************************************)
(* How a configuration travels from the client to the trusted app          *)
(* (config/silead_config.c): the client's cf_set_t is written to a buffer  *)
(* by silfp_cfg_get_update_buffer and applied to the app's by              *)
(* silfp_cfg_update_config.  The buffer is a header of fixed size, with    *)
(* the scalars, a mask of those to take over and the length of each table, *)
(* followed by the tables one after the other, without names: a table is   *)
(* found only by the lengths of those before it.                           *)
(*                                                                         *)
(* Lengths count words; a table's content is the sequence of its words,    *)
(* each told by its table and place.                                       *)
(***************************************************************************)
EXTENDS Integers, Sequences

CONSTANTS
  Scalar,   \* scalar values
  Value,    \* what they can be
  Zero,
  Order,    \* register tables, then parameter tables, as in the buffer
  Width,    \* words of an entry of each table
  MaxRows,  \* bound: entries of a table
  Header    \* words of cf_upd_set_t

WireTable == {Order[i] : i \in DOMAIN Order}

ASSUME WireAssumption ==
  /\ Order \in Seq(WireTable)
  /\ \A i, j \in DOMAIN Order : Order[i] = Order[j] => i = j
  /\ Width \in [WireTable -> Nat \ {0}]
  /\ Zero \in Value /\ MaxRows \in Nat /\ Header \in Nat \ {0}

-----------------------------------------------------------------------------
(* The words of a table of n entries, the app's own table and a missing one. *)
Words(t, n) == [i \in 1 .. n * Width[t] |-> <<t, n, i>>]
BuiltIn == <<<<"builtin", 0, 0>>>>
Missing == <<>>

(* cf_set_t of the client: whether it is for the sensor that is there, the  *)
(* values with the mask of those that were set (silfp_cfg_malloc zeroes the *)
(* rest), and the entries of each table (-1: not updated).                  *)
Rows   == [WireTable -> -1 .. MaxRows]
Values == [Scalar -> Value]
ClientConfig ==
  {c \in [chip : BOOLEAN, val : Values, mask : SUBSET Scalar, rows : Rows] :
     \A s \in Scalar \ c.mask : c.val[s] = Zero}

(* cf_set_t of the app.                                                     *)
Start(v) == [val |-> v, tab |-> [t \in WireTable |-> BuiltIn]]

-----------------------------------------------------------------------------
(* A table of no entries is no part of the buffer, though it is marked.     *)
Size(rows, t) == IF rows[t] > 0 THEN rows[t] * Width[t] ELSE 0

(* The words up to the end of the n-th table: the loops that count and those *)
(* that read take every table to be there.                                  *)
Upto(rows) ==
  LET len[n \in 0 .. Len(Order)] ==
        IF n = 0 THEN Header ELSE len[n - 1] + Size(rows, Order[n])
  IN  len

(* silfp_cfg_get_update_length and _cfg_get_update_length, which are alike. *)
UpdateLength(rows) == Upto(rows)[Len(Order)]

(* silfp_cfg_get_update_buffer: a table that does not fit is skipped, and   *)
(* its length is in the header all the same.                                *)
Added(c, room, t, b) ==
  IF Size(c.rows, t) = 0 \/ Header + Len(b) + Size(c.rows, t) > room
  THEN b ELSE b \o Words(t, c.rows[t])

Filled(c, room) ==
  LET body[n \in 0 .. Len(Order)] ==
        IF n = 0 THEN <<>> ELSE Added(c, room, Order[n], body[n - 1])
  IN  body

Encode(c, room) ==
  [chip |-> c.chip, val |-> c.val, mask |-> c.mask, rows |-> c.rows,
   body |-> Filled(c, room)[Len(Order)]]

(* Where a table begins, after the header.                                  *)
Position(t) == CHOOSE i \in DOMAIN Order : Order[i] = t
Offset(rows, t) == Upto(rows)[Position(t) - 1] - Header

Junk == <<"beyond", 0, 0>>
Cut(body, from, n) ==
  [i \in 1 .. n |-> IF from + i \in DOMAIN body THEN body[from + i] ELSE Junk]

(* silfp_cfg_update_config, when there is no memory for the tables without. *)
TakenValues(c, w) == [s \in Scalar |-> IF s \in w.mask THEN w.val[s] ELSE c.val[s]]
TakenTables(c, w, without) ==
  [t \in WireTable |-> IF Size(w.rows, t) = 0 \/ t \in without THEN c.tab[t]
                       ELSE Cut(w.body, Offset(w.rows, t), Size(w.rows, t))]
TakesOver(c, w, without) == [val |-> TakenValues(c, w), tab |-> TakenTables(c, w, without)]

(* Mutant: a table without memory is taken to be no part of the buffer.     *)
Decode_Closes(c, w, len, without) ==
  IF ~w.chip \/ UpdateLength(w.rows) # len THEN c
  ELSE TakesOver(c, [w EXCEPT !.rows = [t \in WireTable |-> IF t \in without THEN -1 ELSE @[t]]], without)

Decode(c, w, len, without) ==
  IF ~w.chip \/ UpdateLength(w.rows) # len THEN c ELSE TakesOver(c, w, without)

(* silfp_cfg_deinit: a table that was updated is then missing.  The scalars *)
(* stay.                                                                    *)
Release(c) == [c EXCEPT !.tab = [t \in WireTable |-> IF @[t] = BuiltIn THEN BuiltIn ELSE Missing]]

(* What an update is for: marked values and tables are the client's, the    *)
(* others stay.                                                             *)
Merged(before, c, without) ==
  [val |-> [s \in Scalar |-> IF s \in c.mask THEN c.val[s] ELSE before.val[s]],
   tab |-> [t \in WireTable |-> IF c.rows[t] > 0 /\ t \notin without
                                THEN Words(t, c.rows[t]) ELSE before.tab[t]]]
=============================================================================

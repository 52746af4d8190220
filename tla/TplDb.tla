------------------------------- MODULE TplDb -------------------------------
(***************************************************************************)
(* What the template store promises its caller: a map from finger id to    *)
(* template that survives power loss, in which each call takes effect at   *)
(* one instant or not at all, and in which a call that reported success    *)
(* has taken effect.  TplStorage is shown to implement it.                 *)
(***************************************************************************)
CONSTANTS Fid,      \* finger ids
          Data,     \* template contents
          NoFid, NoData, Unknown

VARIABLES db,       \* what a restart of the trusted app would find
          call,     \* the call in progress
          told      \* what the last completed call on an id established

dbVars == <<db, call, told>>

NoCall == [op |-> "none", id |-> NoFid, data |-> NoData]
Mutators == {"save", "update", "remove"}

Init == /\ db = [f \in Fid |-> NoData]
        /\ call = NoCall
        /\ told = [f \in Fid |-> NoData]

(* A call names an id; until it completes the caller knows nothing of it.  *)
Begin(op, f, d) ==
  /\ call = NoCall
  /\ op = "save" => db[f] = NoData
  /\ (op = "remove") <=> (d = NoData)
  /\ call' = [op |-> op, id |-> f, data |-> d]
  /\ told' = [told EXCEPT ![f] = Unknown]
  /\ UNCHANGED db

Applied == [db EXCEPT ![call.id] = call.data]

Commit == call # NoCall /\ db' = Applied /\ UNCHANGED <<call, told>>

Succeed == /\ call # NoCall
           /\ db[call.id] = call.data
           /\ told' = [told EXCEPT ![call.id] = call.data]
           /\ call' = NoCall
           /\ UNCHANGED db

(* The call reported an error, or power was lost at the instant it takes    *)
(* effect: it is applied or not, and the caller is told nothing.            *)
Fail == call # NoCall /\ call' = NoCall /\ db' \in {db, Applied} /\ UNCHANGED told

Next == \/ \E op \in Mutators, f \in Fid, d \in Data \cup {NoData} : Begin(op, f, d)
        \/ Commit
        \/ Succeed
        \/ Fail

Spec == Init /\ [][Next]_dbVars
=============================================================================

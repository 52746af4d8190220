----------------------------- MODULE TplPromise -----------------------------
(***************************************************************************)
(* TplStorage with a history variable: the fingers whose template the      *)
(* store has promised to keep, over any number of later calls and restarts. *)
(***************************************************************************)
EXTENDS TplStorage

VARIABLE promised

pvars == <<vars, promised>>

(* An update overwrites the BACKUP file first (l.443).  It finds no other   *)
(* good one when an earlier write of the NORMAL template was only logged    *)
(* (l.457), or one of the NORMAL table failed (l.455).                      *)
OnlyBackup(f) == tplN[f] # Source[f].sum

(* A promise starts with an enrolment or update that reports success.  It   *)
(* ends when a removal is asked for, or an update overwrites the only copy. *)
Ended(f) == /\ job'.id = f
            /\ job'.op = "remove" \/ (pc' = "upd_tplB" /\ OnlyBackup(f))

PInit == Init /\ promised = {}
PNext == /\ Next
         /\ promised' = {f \in Fid : told'[f] \in Data \/ (f \in promised /\ ~Ended(f))}
PSpec == PInit /\ [][PNext]_pvars

-----------------------------------------------------------------------------
(* A template whose enrolment or update reported success is found again, in *)
(* some version, by a restart at any later time, also one in the middle of  *)
(* a later update of it, after one write error: until it is removed or an   *)
(* update of it starts while its BACKUP file is the only good one.          *)
PromiseKept == \A f \in promised : Recovered[f] # NoData
=============================================================================

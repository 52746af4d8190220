----------------------------- MODULE TplStorage -----------------------------
(***************************************************************************)
(* The fingerprint template store of the trusted app                       *)
(* (trustzone/qsapps/sileadta/src/ta-impl/fp_storage.c, SIL_SEC_STORE      *)
(* build) as fp_impl.c drives it.                                          *)
(*                                                                         *)
(* The table of templates (T_TPL_SET) lives in RAM and in two files, the   *)
(* NORMAL one and the BACKUP one; each template has a NORMAL and a BACKUP  *)
(* file of its own.  Every step below is one file operation of the code    *)
(* together with the RAM assignments around it, so that power can be lost  *)
(* between any two file operations and in the middle of each write.        *)
(*                                                                         *)
(* Abstractions: a checksum is the content it is computed from (the fold   *)
(* of _storage_calc_checksum is taken as free of collisions), the name of  *)
(* a template file is its id, the slots of the table are unordered, and    *)
(* num and db_id are left out: num is the number of valid ids, recounted   *)
(* by every _storage_init and read by nothing else, and db_id changes      *)
(* exactly when the table is reset.                                        *)
(***************************************************************************)
EXTENDS Naturals, FiniteSets

CONSTANTS
  Fid,            \* finger ids; get_next_fid draws one that is not in the table
  Data,           \* contents of a template
  NoFid, NoData, Unknown,
  TPL_MAX_ST,     \* slots of the table
  MAX_LOAD_FAIL,  \* failed loads after which a template is dropped
  MaxWriteErr,    \* bound: file operations that report or hide an error
  MaxRot,         \* bound: template files that decay
  CleanCrash,     \* power loss leaves the file being written old, never torn
  IncFailUsed     \* someone calls fp_storage_inc_fail_count (nothing in src/ does)

ASSUME IdAssumption == NoFid \notin Fid /\ IsFiniteSet(Fid)
ASSUME DataAssumption == NoData \notin Data /\ Unknown \notin Data \cup {NoData}
(* get_next_fid finds a free id even when the table is full.                *)
ASSUME LimitAssumption == /\ TPL_MAX_ST \in Nat \ {0}
                          /\ TPL_MAX_ST < Cardinality(Fid)
                          /\ MAX_LOAD_FAIL \in Nat \ {0}
ASSUME FaultAssumption == /\ MaxWriteErr \in Nat
                          /\ MaxRot \in Nat
                          /\ CleanCrash \in BOOLEAN
                          /\ IncFailUsed \in BOOLEAN

VARIABLES
  pc,        \* the file operation about to happen, or "idle"
  job,       \* the call being served
  inited,    \* init_once of the RAM table
  ram,       \* tpls: the RAM table
  setsN,     \* silead.tpl, the NORMAL table file
  setsB,     \* silead.bak, the BACKUP table file
  tplN,      \* the NORMAL template files
  tplB,      \* the BACKUP template files
  todo,      \* ids fp_impl_load_user_db has still to load
  loaded,    \* ids whose template the matching library holds
  writeErrs, rots,
  told       \* auxiliary: what the last completed call on an id told the caller

disk   == <<setsN, setsB, tplN, tplB>>
faults == <<writeErrs, rots>>
vars   == <<pc, job, inited, ram, setsN, setsB, tplN, tplB, todo, loaded,
            writeErrs, rots, told>>

-----------------------------------------------------------------------------
(* T_TPL_MAP and T_TPL_SET.  A free slot is an entry that holds NoData.     *)
Fails   == 0 .. MAX_LOAD_FAIL - 1
Entry   == [sum : Data \cup {NoData}, fail : Fails]
Table   == [Fid -> Entry]
NoEntry == [sum |-> NoData, fail |-> 0]
EmptyTable == [f \in Fid |-> NoEntry]
Ids(t)  == {f \in Fid : t[f].sum # NoData}

(* A table file is whole, or missing, torn or decayed: the size test and    *)
(* the checksum test of _storage_init tell the two cases apart.             *)
Whole(t) == [ok |-> TRUE, tbl |-> t]
BadSets  == [ok |-> FALSE, tbl |-> EmptyTable]
SetsFile == [ok : BOOLEAN, tbl : Table]

Op    == {"none", "load", "save", "update", "remove", "incfail"}
Job   == [op : Op, id : Fid \cup {NoFid}, data : Data \cup {NoData}, evict : BOOLEAN]
NoJob == [op |-> "none", id |-> NoFid, data |-> NoData, evict |-> FALSE]

(* The write in progress at each label, for power loss in the middle of it. *)
WritesSetsN == {"init_setsN", "reset_setsN", "load_setsN", "save_setsN",
                "upd_setsN", "rm_setsN", "inc_setsN"}
WritesSetsB == {"reset_setsB", "load_setsB", "save_setsB", "upd_setsB", "rm_setsB"}
WritesTplN  == {"load_tplN", "save_tplN", "upd_tplN"}
WritesTplB  == {"save_tplB", "upd_tplB"}
Label == WritesSetsN \cup WritesSetsB \cup WritesTplN \cup WritesTplB \cup
         {"idle", "init", "load", "save", "update", "remove", "incfail",
          "load_rmB", "load_rmN", "save_undo", "save_rmN", "rm_tplB", "rm_tplN",
          "inc_rmN"}

Init ==
  /\ pc = "idle"
  /\ job = NoJob
  /\ inited = FALSE
  /\ ram = EmptyTable
  /\ setsN = BadSets
  /\ setsB = BadSets
  /\ tplN = [f \in Fid |-> NoData]
  /\ tplB = [f \in Fid |-> NoData]
  /\ todo = {}
  /\ loaded = {}
  /\ writeErrs = 0
  /\ rots = 0
  /\ told = [f \in Fid |-> NoData]

-----------------------------------------------------------------------------
(* File operations.  A write that reports an error may have left the file   *)
(* as it was, written, or unreadable.                                       *)
Err == writeErrs < MaxWriteErr /\ writeErrs' = writeErrs + 1

PutSetsN(t) == setsN' = Whole(t) /\ UNCHANGED <<setsB, tplN, tplB, writeErrs>>
PutSetsB(t) == setsB' = Whole(t) /\ UNCHANGED <<setsN, tplN, tplB, writeErrs>>
PutTplN(f, d) == tplN' = [tplN EXCEPT ![f] = d] /\ UNCHANGED <<setsN, setsB, tplB, writeErrs>>
PutTplB(f, d) == tplB' = [tplB EXCEPT ![f] = d] /\ UNCHANGED <<setsN, setsB, tplN, writeErrs>>

ErrSetsN(t) == /\ Err
               /\ setsN' \in {setsN, Whole(t), BadSets}
               /\ UNCHANGED <<setsB, tplN, tplB>>
ErrSetsB(t) == /\ Err
               /\ setsB' \in {setsB, Whole(t), BadSets}
               /\ UNCHANGED <<setsN, tplN, tplB>>
ErrTplN(f, d) == /\ Err
                 /\ \E x \in {tplN[f], d, NoData} : tplN' = [tplN EXCEPT ![f] = x]
                 /\ UNCHANGED <<setsN, setsB, tplB>>
ErrTplB(f, d) == /\ Err
                 /\ \E x \in {tplB[f], d, NoData} : tplB' = [tplB EXCEPT ![f] = x]
                 /\ UNCHANGED <<setsN, setsB, tplN>>

(* silfp_storage_remove_file reports success even when the file stays.      *)
DelTplN(f) == \/ PutTplN(f, NoData)
              \/ Err /\ UNCHANGED disk
DelTplB(f) == \/ PutTplB(f, NoData)
              \/ Err /\ UNCHANGED disk

Goto(label) == pc' = label /\ UNCHANGED <<job, told>>

(* The call returns an error, or something the caller draws nothing from.   *)
Finish == pc' = "idle" /\ job' = NoJob /\ UNCHANGED told

(* The call returns success.                                                *)
Succeed == /\ pc' = "idle"
           /\ job' = NoJob
           /\ told' = [told EXCEPT ![job.id] = job.data]

-----------------------------------------------------------------------------
(* The calls fp_impl.c makes.  A call on a table that is not initialised    *)
(* runs _storage_init first; fp_impl_load_user_db always does.              *)
Call(op, f, d) ==
  /\ pc = "idle"
  /\ job' = [op |-> op, id |-> f, data |-> d, evict |-> FALSE]
  /\ pc' = IF inited /\ op # "load" THEN op ELSE "init"
  /\ told' = [g \in Fid |-> IF g = f THEN Unknown ELSE told[g]]
  /\ UNCHANGED <<inited, ram, disk, todo, faults>>

(* fp_impl_load_user_db: silfp_algo_auth_release drops what the library has.*)
CallLoad == Call("load", NoFid, NoData) /\ loaded' = {}

(* fp_impl_enroll_end.                                                      *)
CallSave(d) == Call("save", NoFid, d) /\ UNCHANGED loaded

(* fp_impl_auth_end: the finger that matched is one the library holds.      *)
CallUpdate(f, d) == f \in loaded /\ Call("update", f, d) /\ UNCHANGED loaded

(* fp_impl_remove_finger: any id the client names.                          *)
CallRemove(f) == Call("remove", f, NoData) /\ UNCHANGED loaded

CallIncFail(f) == IncFailUsed /\ Call("incfail", f, NoData) /\ UNCHANGED loaded

-----------------------------------------------------------------------------
(* Mutant: the NORMAL table is not restored from the backup.                *)
InitRead_NoRestore ==
  LET source == IF setsN.ok THEN setsN.tbl ELSE setsB.tbl IN
  /\ pc = "init"
  /\ ram' = source
  /\ inited' = TRUE
  /\ todo' = IF job.op = "load" THEN Ids(source) ELSE todo
  /\ Goto(IF setsN.ok \/ setsB.ok THEN job.op ELSE "reset_setsB")
  /\ UNCHANGED <<disk, loaded, faults>>

(* _storage_init, and the id list fp_storage_get_idlist takes after it.     *)
InitRead ==
  LET source == IF setsN.ok THEN setsN.tbl ELSE setsB.tbl IN
  /\ pc = "init"
  /\ ram' = source
  /\ inited' = TRUE
  /\ todo' = IF job.op = "load" THEN Ids(source) ELSE todo
  /\ Goto(IF setsN.ok THEN job.op
          ELSE IF setsB.ok THEN "init_setsN" ELSE "reset_setsB")
  /\ UNCHANGED <<disk, loaded, faults>>

(* Restore the NORMAL table from the backup; the result is not looked at.   *)
InitRestore ==
  /\ pc = "init_setsN"
  /\ PutSetsN(ram) \/ ErrSetsN(ram)
  /\ Goto(job.op)
  /\ UNCHANGED <<inited, ram, todo, loaded, rots>>

ResetBackup ==
  /\ pc = "reset_setsB"
  /\ PutSetsB(ram) \/ ErrSetsB(ram)
  /\ Goto("reset_setsN")
  /\ UNCHANGED <<inited, ram, todo, loaded, rots>>

ResetNormal ==
  /\ pc = "reset_setsN"
  /\ PutSetsN(ram) \/ ErrSetsN(ram)
  /\ Goto(job.op)
  /\ UNCHANGED <<inited, ram, todo, loaded, rots>>

-----------------------------------------------------------------------------
(* fp_storage_load, for each id of the list in turn.  The job's id is the   *)
(* template being loaded.                                                   *)
LoadDone == /\ pc = "load"
            /\ todo = {}
            /\ Finish
            /\ UNCHANGED <<inited, ram, disk, todo, loaded, faults>>

(* Mutant: the position in the id list is not advanced.                     *)
LoadPick_Stuck(f, label) == /\ pc = "load"
                            /\ f \in todo
                            /\ job' = [job EXCEPT !.id = f]
                            /\ pc' = label
                            /\ UNCHANGED <<inited, disk, todo, faults, told>>

LoadPick(f, label) == /\ pc = "load"
                      /\ f \in todo
                      /\ todo' = todo \ {f}
                      /\ job' = [job EXCEPT !.id = f]
                      /\ pc' = label
                      /\ UNCHANGED <<inited, disk, faults, told>>

LoadNormal(f) ==
  /\ tplN[f] = ram[f].sum
  /\ LoadPick(f, IF ram[f].fail = 0 THEN "load" ELSE "load_setsB")
  /\ ram' = [ram EXCEPT ![f].fail = 0]
  /\ loaded' = loaded \cup {f}

LoadBackup(f) ==
  /\ tplN[f] # ram[f].sum
  /\ tplB[f] = ram[f].sum
  /\ LoadPick(f, "load_tplN")
  /\ loaded' = loaded \cup {f}
  /\ UNCHANGED ram

(* Mutants: the limit is one too high; the backup file is not tried; the    *)
(* count is not written back.                                               *)
LoadFailed_Limit(f) ==
  /\ ram[f].sum \notin {tplN[f], tplB[f]}
  /\ IF ram[f].fail < MAX_LOAD_FAIL
     THEN LoadPick(f, "load_setsB") /\ ram' = [ram EXCEPT ![f].fail = @ + 1]
     ELSE LoadPick(f, "load_rmB") /\ ram' = [ram EXCEPT ![f] = NoEntry]
  /\ UNCHANGED loaded

LoadFailed_NoBackup(f) ==
  /\ tplN[f] # ram[f].sum
  /\ IF ram[f].fail + 1 < MAX_LOAD_FAIL
     THEN LoadPick(f, "load_setsB") /\ ram' = [ram EXCEPT ![f].fail = @ + 1]
     ELSE LoadPick(f, "load_rmB") /\ ram' = [ram EXCEPT ![f] = NoEntry]
  /\ UNCHANGED loaded

LoadFailed_NotSaved(f) ==
  /\ ram[f].sum \notin {tplN[f], tplB[f]}
  /\ IF ram[f].fail + 1 < MAX_LOAD_FAIL
     THEN LoadPick(f, "load") /\ ram' = [ram EXCEPT ![f].fail = @ + 1]
     ELSE LoadPick(f, "load_rmB") /\ ram' = [ram EXCEPT ![f] = NoEntry]
  /\ UNCHANGED loaded

(* Neither file is good: count the failure, or drop the template.           *)
LoadFailed(f) ==
  /\ tplN[f] # ram[f].sum
  /\ tplB[f] # ram[f].sum
  /\ IF ram[f].fail + 1 < MAX_LOAD_FAIL
     THEN /\ LoadPick(f, "load_setsB")
          /\ ram' = [ram EXCEPT ![f].fail = @ + 1]
     ELSE /\ LoadPick(f, "load_rmB")
          /\ ram' = [ram EXCEPT ![f] = NoEntry]
  /\ UNCHANGED loaded

LoadRestore ==
  LET f == job.id IN
  /\ pc = "load_tplN"
  /\ PutTplN(f, ram[f].sum) \/ ErrTplN(f, ram[f].sum)
  /\ Goto(IF ram[f].fail = 0 THEN "load" ELSE "load_setsB")
  /\ ram' = [ram EXCEPT ![f].fail = 0]
  /\ UNCHANGED <<inited, todo, loaded, rots>>

LoadDropBackup ==
  /\ pc = "load_rmB"
  /\ DelTplB(job.id)
  /\ Goto("load_setsB")
  /\ UNCHANGED <<inited, ram, todo, loaded, rots>>

LoadSetsBackup ==
  /\ pc = "load_setsB"
  /\ PutSetsB(ram) \/ ErrSetsB(ram)
  /\ Goto(IF job.id \in Ids(ram) THEN "load_setsN" ELSE "load_rmN")
  /\ UNCHANGED <<inited, ram, todo, loaded, rots>>

LoadDropNormal ==
  /\ pc = "load_rmN"
  /\ DelTplN(job.id)
  /\ Goto("load_setsN")
  /\ UNCHANGED <<inited, ram, todo, loaded, rots>>

LoadSetsNormal ==
  /\ pc = "load_setsN"
  /\ PutSetsN(ram) \/ ErrSetsN(ram)
  /\ Goto("load")
  /\ UNCHANGED <<inited, ram, todo, loaded, rots>>

-----------------------------------------------------------------------------
(* fp_storage_save.  With the table full the template that failed to load   *)
(* most often gives way; with none that ever failed the call is refused.    *)
Full == Cardinality(Ids(ram)) = TPL_MAX_ST
Worst_Any == {f \in Ids(ram) : \A g \in Ids(ram) : ram[g].fail <= ram[f].fail}  \* mutant
Worst == {f \in Ids(ram) : /\ ram[f].fail > 0
                           /\ \A g \in Ids(ram) : ram[g].fail <= ram[f].fail}

SaveInto(f, evict) ==
  /\ pc = "save"
  /\ f \notin Ids(ram)
  /\ job' = [job EXCEPT !.id = f, !.evict = evict]
  /\ told' = [told EXCEPT ![f] = Unknown]
  /\ pc' = "save_tplB"
  /\ UNCHANGED <<inited, todo, loaded, rots>>

SaveFree(f) == /\ ~Full
               /\ SaveInto(f, FALSE)
               /\ UNCHANGED <<ram, disk, writeErrs>>

SaveEvict(f) == /\ Full
                /\ \E g \in Worst : /\ ram' = [ram EXCEPT ![g] = NoEntry]
                                    /\ DelTplB(g)
                /\ SaveInto(f, TRUE)

SaveRefused == /\ pc = "save"
               /\ Full
               /\ Worst = {}
               /\ Finish
               /\ UNCHANGED <<inited, ram, disk, todo, loaded, faults>>

SaveTplBackup ==
  /\ pc = "save_tplB"
  /\ \/ /\ PutTplB(job.id, job.data)
        /\ ram' = [ram EXCEPT ![job.id] = [sum |-> job.data, fail |-> 0]]
        /\ Goto("save_setsB")
     \/ /\ ErrTplB(job.id, job.data)
        /\ Finish
        /\ UNCHANGED ram
  /\ UNCHANGED <<inited, todo, loaded, rots>>

SaveSetsBackup ==
  /\ pc = "save_setsB"
  /\ \/ /\ PutSetsB(ram)
        /\ Goto(IF job.evict THEN "save_rmN" ELSE "save_setsN")
        /\ UNCHANGED ram
     \/ /\ ErrSetsB(ram)
        /\ Goto("save_undo")
        /\ ram' = [ram EXCEPT ![job.id] = NoEntry]
  /\ UNCHANGED <<inited, todo, loaded, rots>>

SaveUndo ==
  /\ pc = "save_undo"
  /\ DelTplB(job.id)
  /\ Finish
  /\ UNCHANGED <<inited, ram, todo, loaded, rots>>

(* After an eviction the code removes the NORMAL file under the new name.   *)
SaveDropNormal ==
  /\ pc = "save_rmN"
  /\ DelTplN(job.id)
  /\ Goto("save_setsN")
  /\ UNCHANGED <<inited, ram, todo, loaded, rots>>

SaveSetsNormal ==
  /\ pc = "save_setsN"
  /\ \/ PutSetsN(ram) /\ Goto("save_tplN")
     \/ ErrSetsN(ram) /\ Finish
  /\ UNCHANGED <<inited, ram, todo, loaded, rots>>

SaveTplNormal ==
  /\ pc = "save_tplN"
  /\ \/ PutTplN(job.id, job.data) /\ Succeed /\ loaded' = loaded \cup {job.id}
     \/ ErrTplN(job.id, job.data) /\ Finish /\ UNCHANGED loaded
  /\ UNCHANGED <<inited, ram, todo, rots>>

-----------------------------------------------------------------------------
(* fp_storage_update.                                                       *)
UpdateLookup ==
  /\ pc = "update"
  /\ \/ job.id \notin Ids(ram) /\ Finish
     \/ job.id \in Ids(ram) /\ ram[job.id].sum = job.data /\ Succeed
     \/ job.id \in Ids(ram) /\ ram[job.id].sum # job.data /\ Goto("upd_tplB")
  /\ UNCHANGED <<inited, ram, disk, todo, loaded, faults>>

(* Mutants: the NORMAL file is overwritten first; the BACKUP table is not   *)
(* written.                                                                 *)
UpdateTplBackup_InPlace ==
  /\ pc = "upd_tplB"
  /\ PutTplN(job.id, job.data)
  /\ ram' = [ram EXCEPT ![job.id].sum = job.data]
  /\ Goto("upd_setsB")
  /\ UNCHANGED <<inited, todo, loaded, rots>>

UpdateTplBackup_NoTable ==
  /\ pc = "upd_tplB"
  /\ PutTplB(job.id, job.data)
  /\ ram' = [ram EXCEPT ![job.id].sum = job.data]
  /\ Goto("upd_setsN")
  /\ UNCHANGED <<inited, todo, loaded, rots>>

UpdateTplBackup ==
  /\ pc = "upd_tplB"
  /\ \/ /\ PutTplB(job.id, job.data)
        /\ ram' = [ram EXCEPT ![job.id].sum = job.data]
        /\ Goto("upd_setsB")
     \/ /\ ErrTplB(job.id, job.data)
        /\ Finish
        /\ UNCHANGED ram
  /\ UNCHANGED <<inited, todo, loaded, rots>>

(* Mutant: the NORMAL table is not written.                                 *)
UpdateSetsBackup_NoNormal ==
  /\ pc = "upd_setsB"
  /\ PutSetsB(ram)
  /\ Goto("upd_tplN")
  /\ UNCHANGED <<inited, ram, todo, loaded, rots>>

(* When the backup table cannot be written the call stops and reports the   *)
(* length of the template, a success.                                       *)
UpdateSetsBackup ==
  /\ pc = "upd_setsB"
  /\ \/ PutSetsB(ram) /\ Goto("upd_setsN")
     \/ ErrSetsB(ram) /\ Succeed
  /\ UNCHANGED <<inited, ram, todo, loaded, rots>>

UpdateSetsNormal ==
  /\ pc = "upd_setsN"
  /\ \/ PutSetsN(ram) /\ Goto("upd_tplN")
     \/ ErrSetsN(ram) /\ Finish
  /\ UNCHANGED <<inited, ram, todo, loaded, rots>>

(* A failure to write the NORMAL template is only logged.                   *)
UpdateTplNormal ==
  /\ pc = "upd_tplN"
  /\ PutTplN(job.id, job.data) \/ ErrTplN(job.id, job.data)
  /\ Succeed
  /\ UNCHANGED <<inited, ram, todo, loaded, rots>>

-----------------------------------------------------------------------------
(* Mutant: the id is looked up among the loaded ones.                       *)
RemoveLookup_Loaded ==
  /\ pc = "remove"
  /\ \/ job.id \notin loaded /\ Succeed
     \/ job.id \in loaded /\ Goto("rm_setsB")
  /\ UNCHANGED <<inited, ram, disk, todo, loaded, faults>>

(* fp_storage_remove; an id that is not in the table reports success, and   *)
(* the caller then drops it from the library too.                           *)
RemoveLookup ==
  /\ pc = "remove"
  /\ \/ /\ job.id \notin Ids(ram)
        /\ Succeed
        /\ loaded' = loaded \ {job.id}
     \/ /\ job.id \in Ids(ram)
        /\ Goto("rm_setsB")
        /\ UNCHANGED loaded
  /\ UNCHANGED <<inited, ram, disk, todo, faults>>

RemoveSetsBackup ==
  LET cleared == [ram EXCEPT ![job.id] = NoEntry] IN
  /\ pc = "rm_setsB"
  /\ \/ PutSetsB(cleared) /\ ram' = cleared /\ Goto("rm_tplB")
     \/ ErrSetsB(cleared) /\ Finish /\ UNCHANGED ram
  /\ UNCHANGED <<inited, todo, loaded, rots>>

RemoveTplBackup ==
  /\ pc = "rm_tplB"
  /\ DelTplB(job.id)
  /\ Goto("rm_setsN")
  /\ UNCHANGED <<inited, ram, todo, loaded, rots>>

RemoveSetsNormal ==
  /\ pc = "rm_setsN"
  /\ \/ PutSetsN(ram) /\ Goto("rm_tplN")
     \/ ErrSetsN(ram) /\ Finish
  /\ UNCHANGED <<inited, ram, todo, loaded, rots>>

RemoveTplNormal ==
  /\ pc = "rm_tplN"
  /\ DelTplN(job.id)
  /\ Succeed
  /\ loaded' = loaded \ {job.id}
  /\ UNCHANGED <<inited, ram, todo, rots>>

-----------------------------------------------------------------------------
(* fp_storage_inc_fail_count: only the NORMAL table is written.             *)
IncFailLookup ==
  LET f == job.id IN
  /\ pc = "incfail"
  /\ \/ f \notin Ids(ram) /\ Finish /\ UNCHANGED ram
     \/ /\ f \in Ids(ram)
        /\ ram[f].fail + 1 < MAX_LOAD_FAIL
        /\ ram' = [ram EXCEPT ![f].fail = @ + 1]
        /\ Goto("inc_setsN")
     \/ /\ f \in Ids(ram)
        /\ ram[f].fail + 1 >= MAX_LOAD_FAIL
        /\ ram' = [ram EXCEPT ![f] = NoEntry]
        /\ Goto("inc_rmN")
  /\ UNCHANGED <<inited, disk, todo, loaded, faults>>

IncFailDrop ==
  /\ pc = "inc_rmN"
  /\ DelTplN(job.id)
  /\ Goto("inc_setsN")
  /\ UNCHANGED <<inited, ram, todo, loaded, rots>>

IncFailSets ==
  /\ pc = "inc_setsN"
  /\ PutSetsN(ram) \/ ErrSetsN(ram)
  /\ Finish
  /\ UNCHANGED <<inited, ram, todo, loaded, rots>>

-----------------------------------------------------------------------------
(* Power loss, or the trusted app is killed: the RAM is gone and the file   *)
(* being written is as it was or unreadable (written is the next step       *)
(* followed by power loss).                                                 *)
Torn(labels, old, bad) == IF pc \in labels /\ ~CleanCrash THEN {old, bad} ELSE {old}

Crash ==
  /\ inited \/ pc # "idle"
  /\ setsN' \in Torn(WritesSetsN, setsN, BadSets)
  /\ setsB' \in Torn(WritesSetsB, setsB, BadSets)
  /\ tplN' \in Torn(WritesTplN, tplN, [f \in Fid |-> IF f = job.id THEN NoData ELSE tplN[f]])
  /\ tplB' \in Torn(WritesTplB, tplB, [f \in Fid |-> IF f = job.id THEN NoData ELSE tplB[f]])
  /\ pc' = "idle"
  /\ job' = NoJob
  /\ inited' = FALSE
  /\ ram' = EmptyTable
  /\ todo' = {}
  /\ loaded' = {}
  /\ UNCHANGED <<faults, told>>

(* A template file decays or is tampered with.                              *)
Rot(f) ==
  /\ rots < MaxRot
  /\ rots' = rots + 1
  /\ \/ tplN' = [tplN EXCEPT ![f] = NoData] /\ UNCHANGED tplB
     \/ tplB' = [tplB EXCEPT ![f] = NoData] /\ UNCHANGED tplN
  /\ UNCHANGED <<pc, job, inited, ram, setsN, setsB, todo, loaded, writeErrs, told>>

-----------------------------------------------------------------------------
ClientCall ==
  \/ CallLoad
  \/ \E d \in Data : CallSave(d)
  \/ \E f \in Fid, d \in Data : CallUpdate(f, d)
  \/ \E f \in Fid : CallRemove(f) \/ CallIncFail(f)

StoreInit == InitRead \/ InitRestore \/ ResetBackup \/ ResetNormal
Load == \/ LoadDone \/ LoadRestore \/ LoadDropBackup \/ LoadSetsBackup
        \/ LoadDropNormal \/ LoadSetsNormal
        \/ \E f \in Fid : LoadNormal(f) \/ LoadBackup(f) \/ LoadFailed(f)
Save == \/ SaveRefused \/ SaveTplBackup \/ SaveSetsBackup \/ SaveUndo
        \/ SaveDropNormal \/ SaveSetsNormal \/ SaveTplNormal
        \/ \E f \in Fid : SaveFree(f) \/ SaveEvict(f)
Update == \/ UpdateLookup \/ UpdateTplBackup \/ UpdateSetsBackup
          \/ UpdateSetsNormal \/ UpdateTplNormal
Remove == \/ RemoveLookup \/ RemoveSetsBackup \/ RemoveTplBackup
          \/ RemoveSetsNormal \/ RemoveTplNormal
IncFail == IncFailLookup \/ IncFailDrop \/ IncFailSets

StoreStep == StoreInit \/ Load \/ Save \/ Update \/ Remove \/ IncFail

Next == ClientCall \/ StoreStep \/ Crash \/ (\E f \in Fid : Rot(f))

Spec == Init /\ [][Next]_vars

(* The steps of a call that has been made are taken by a thread that runs:  *)
(* fairness is on the store, never on its clients, nor on faults.           *)
FairSpec == Spec /\ WF_vars(StoreStep)

-----------------------------------------------------------------------------
(* Every variable has its type.                                             *)
TypeOK ==
  /\ pc \in Label
  /\ job \in Job
  /\ inited \in BOOLEAN
  /\ ram \in Table
  /\ setsN \in SetsFile
  /\ setsB \in SetsFile
  /\ tplN \in [Fid -> Data \cup {NoData}]
  /\ tplB \in [Fid -> Data \cup {NoData}]
  /\ todo \in SUBSET Fid
  /\ loaded \in SUBSET Fid
  /\ writeErrs \in 0 .. MaxWriteErr
  /\ rots \in 0 .. MaxRot
  /\ told \in [Fid -> Data \cup {NoData, Unknown}]

(* What the next _storage_init and the loads after it would find.           *)
Source == IF setsN.ok THEN setsN.tbl ELSE setsB.tbl
Recovered == [f \in Fid |-> IF Source[f].sum \in {tplN[f], tplB[f]}
                            THEN Source[f].sum ELSE NoData]

(* Once a table file is whole, one of the two always is: the NORMAL file is *)
(* only rewritten while the BACKUP one is whole, and the other way round,   *)
(* so _storage_init never takes the branch that resets the database.        *)
ImageKept == [][setsN.ok \/ setsB.ok => setsN'.ok \/ setsB'.ok]_vars

(* The labels of each call, and the labels at which its id is known.        *)
InitLabel   == {"init", "init_setsN", "reset_setsB", "reset_setsN"}
LoadLabel   == {"load_tplN", "load_rmB", "load_setsB", "load_rmN", "load_setsN"}
SaveLabel   == {"save_tplB", "save_setsB", "save_undo", "save_rmN", "save_setsN", "save_tplN"}
UpdateLabel == {"update", "upd_tplB", "upd_setsB", "upd_setsN", "upd_tplN"}
RemoveLabel == {"remove", "rm_setsB", "rm_tplB", "rm_setsN", "rm_tplN"}
IncLabel    == {"incfail", "inc_rmN", "inc_setsN"}

JobInv ==
  /\ pc = "idle" <=> job = NoJob
  /\ pc \in InitLabel => job.op # "none"
  /\ pc \in {"load"} \cup LoadLabel => job.op = "load"
  /\ pc \in {"save"} \cup SaveLabel => job.op = "save"
  /\ pc \in UpdateLabel => job.op = "update"
  /\ pc \in RemoveLabel => job.op = "remove"
  /\ pc \in IncLabel => job.op = "incfail"
  /\ pc \in LoadLabel \cup SaveLabel \/ job.op \in {"update", "remove", "incfail"}
       => job.id \in Fid
  /\ pc \notin {"idle", "init"} => inited

(* Why ImageKept holds: between the write of the BACKUP table and the write *)
(* of the NORMAL one the BACKUP is whole, and at all other times of an      *)
(* initialised store the NORMAL one is.                                     *)
ImageInv ==
  /\ job.op # "incfail"
  /\ pc \in WritesSetsN \cup {"save_rmN", "rm_tplB", "load_rmN"} => setsB.ok
  /\ pc = "reset_setsB" => ~setsB.ok
  /\ inited /\ pc \notin InitLabel => setsN.ok

(* The inductive invariant of the store with power loss as the only fault.  *)
StoreInv == JobInv /\ ImageInv

(* A step of the store, or power loss, changes what can be recovered of the *)
(* template its call is about and of no other, evictions included.          *)
OthersKept ==
  [][rots' = rots => \A f \in Fid \ {job.id} : Recovered'[f] = Recovered[f]]_vars

(* A finger the library can match is one that survives power loss, unless   *)
(* it is being removed.                                                     *)
LoadedSurvives ==
  \A f \in loaded : Recovered[f] = NoData => job.op = "remove" /\ job.id = f

(* A failure count is only ever held against a template neither of whose    *)
(* files is good, so that eviction drops nothing that could be loaded.      *)
FailedIsUnreadable ==
  \A f \in Ids(ram) : ram[f].fail > 0 => ram[f].sum \notin {tplN[f], tplB[f]}

(* A finger whose removal reported success, or that was never enrolled, is  *)
(* not found again after a restart ("if the tpl not exist, then report      *)
(* success", fp_storage_remove).                                            *)
RemovedStaysRemoved == \A f \in Fid : told[f] = NoData => Recovered[f] = NoData

(* A call that is made returns, or power is lost.                           *)
CallReturns == pc # "idle" ~> pc = "idle"

(* When loads of the database keep completing, a template that cannot be    *)
(* read does not hold its slot for ever.                                    *)
UnreadablePurged ==
  []<><<LoadDone>>_vars =>
    \A f \in Fid : f \in Ids(Source) /\ Recovered[f] = NoData
                   ~> f \notin Ids(Source) \/ Recovered[f] # NoData

-----------------------------------------------------------------------------
(* The refinement: the database is what could be recovered, and the call in *)
(* progress is the job once it names an id.                                 *)
DbCall == IF job.op \in {"save", "update", "remove"} /\ job.id # NoFid
          THEN [op |-> job.op, id |-> job.id, data |-> job.data]
          ELSE [op |-> "none", id |-> NoFid, data |-> NoData]

Db == INSTANCE TplDb WITH db <- Recovered, call <- DbCall

(* With power loss as the only fault the store implements TplDb: every call *)
(* is atomic and durable.                                                   *)
ImplementsDb == Db!Spec
=============================================================================

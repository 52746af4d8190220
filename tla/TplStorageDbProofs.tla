-------------------------- MODULE TplStorageDbProofs --------------------------
(***************************************************************************)
(* What the template store promises its caller, for every set of ids and   *)
(* contents and every number of slots, when no write reports an error:     *)
(* power may be lost at any instant, in the middle of any write, and,      *)
(* except where a theorem says otherwise, template files may decay.        *)
(***************************************************************************)
EXTENDS TplStorageProofs, TplPromise

(* Without write errors each file operation does what it is asked to.      *)
LEMMA FileOps ==
  ASSUME NoErrors, DiskOK
  PROVE  /\ \A t : PutSetsN(t) \/ ErrSetsN(t)
                     => setsN' = Whole(t) /\ UNCHANGED <<setsB, tplN, tplB>>
         /\ \A t : PutSetsB(t) \/ ErrSetsB(t)
                     => setsB' = Whole(t) /\ UNCHANGED <<setsN, tplN, tplB>>
         /\ \A f, d : PutTplN(f, d) \/ ErrTplN(f, d)
                     => tplN' = [tplN EXCEPT ![f] = d] /\ UNCHANGED <<setsN, setsB, tplB>>
         /\ \A f, d : PutTplB(f, d) \/ ErrTplB(f, d)
                     => tplB' = [tplB EXCEPT ![f] = d] /\ UNCHANGED <<setsN, setsB, tplN>>
         /\ \A f : DelTplN(f)
                     => tplN' = [tplN EXCEPT ![f] = NoData] /\ UNCHANGED <<setsN, setsB, tplB>>
         /\ \A f : DelTplB(f)
                     => tplB' = [tplB EXCEPT ![f] = NoData] /\ UNCHANGED <<setsN, setsB, tplN>>
         /\ \A t, f, d : ~ErrSetsN(t) /\ ~ErrSetsB(t) /\ ~ErrTplN(f, d) /\ ~ErrTplB(f, d)
BY NoErr DEF PutSetsN, PutSetsB, PutTplN, PutTplB, ErrSetsN, ErrSetsB, ErrTplN, ErrTplB,
             DelTplN, DelTplB

LEMMA WholeIs == /\ \A t : Whole(t).ok /\ Whole(t).tbl = t
                 /\ ~BadSets.ok /\ BadSets.tbl = EmptyTable
                 /\ \A f \in Fid : EmptyTable[f] = NoEntry
                 /\ NoEntry.sum = NoData /\ NoEntry.fail = 0
BY DEF Whole, BadSets, EmptyTable, NoEntry

LEMMA FileIs == \A s \in SetsFile : s.ok => s = Whole(s.tbl)
BY DEF SetsFile, Whole

(* Taking back a count that is zero changes nothing.                       *)
LEMMA ZeroFail ==
  ASSUME NEW t \in Table, NEW f \in Fid, t[f].fail = 0
  PROVE  [t EXCEPT ![f].fail = 0] = t
<1>1. [t[f] EXCEPT !.fail = 0] = t[f]
  BY DEF Table, Entry
<1> QED BY <1>1 DEF Table

LEMMA EditIs ==
  ASSUME NEW t \in Table, NEW f \in Fid
  PROVE  /\ [t EXCEPT ![f].fail = 0] = [t EXCEPT ![f] = [sum |-> t[f].sum, fail |-> 0]]
         /\ [t EXCEPT ![f].fail = @ + 1]
              = [t EXCEPT ![f] = [sum |-> t[f].sum, fail |-> t[f].fail + 1]]
         /\ \A d : [t EXCEPT ![f].sum = d] = [t EXCEPT ![f] = [sum |-> d, fail |-> t[f].fail]]
<1>1. ASSUME NEW e, e = t[f]
      PROVE  /\ [e EXCEPT !.fail = 0] = [sum |-> e.sum, fail |-> 0]
             /\ [e EXCEPT !.fail = @ + 1] = [sum |-> e.sum, fail |-> e.fail + 1]
             /\ \A d : [e EXCEPT !.sum = d] = [sum |-> d, fail |-> e.fail]
  <2>1. e \in Entry
    BY <1>1 DEF Table
  <2> QED BY <2>1 DEF Entry
<1> QED BY <1>1

LEMMA EntryIs == \A t \in Table, f \in Fid : /\ t[f].sum \in Data \cup {NoData}
                                             /\ t[f].fail \in Nat
BY LimitAssumption DEF Table, Entry, Fails

LEMMA JobEdit ==
  ASSUME NEW j \in Job, NEW f, NEW e
  PROVE  /\ [j EXCEPT !.id = f]
              = [op |-> j.op, id |-> f, data |-> j.data, evict |-> j.evict]
         /\ [j EXCEPT !.id = f, !.evict = e]
              = [op |-> j.op, id |-> f, data |-> j.data, evict |-> e]
<1>1. [j EXCEPT !.id = f] = [op |-> j.op, id |-> f, data |-> j.data, evict |-> j.evict]
  BY DEF Job
<1>2. ASSUME NEW k, k = [op |-> j.op, id |-> f, data |-> j.data, evict |-> j.evict]
      PROVE  [k EXCEPT !.evict = e] = [op |-> j.op, id |-> f, data |-> j.data, evict |-> e]
  BY <1>2
<1> QED BY <1>1, <1>2

LEMMA JobIs == Flow => /\ job.op \in Op
                       /\ pc = "idle" <=> job.op = "none"
                       /\ NoJob.op = "none" /\ NoJob.id = NoFid /\ NoJob.data = NoData
<1>1. NoJob.op = "none" /\ NoJob.id = NoFid /\ NoJob.data = NoData
  BY DEF NoJob
<1>2. Flow /\ pc # "idle" => job.op # "none"
  BY DEF Flow, JobInv, Label, InitLabel, LoadLabel, SaveLabel, UpdateLabel, RemoveLabel, IncLabel,
         WritesSetsN, WritesSetsB, WritesTplN, WritesTplB
<1> QED BY <1>1, <1>2 DEF Flow, JobInv, Job

(* What the steps that edit an entry of the table or the job leave there.  *)
JobOn(f) == job'.op = job.op /\ job'.id = f /\ job'.data = job.data

LEMMA Edits ==
  ASSUME TypeInv
  PROVE  /\ \A f \in Fid : LoadNormal(f)
              => JobOn(f) /\ ram' = [ram EXCEPT ![f] = [sum |-> ram[f].sum, fail |-> 0]]
         /\ \A f \in Fid : LoadBackup(f) => JobOn(f)
         /\ \A f \in Fid : LoadFailed(f)
              => /\ JobOn(f)
                 /\ \/ /\ pc' = "load_setsB"
                       /\ ram' = [ram EXCEPT ![f] = [sum |-> ram[f].sum, fail |-> ram[f].fail + 1]]
                    \/ pc' = "load_rmB" /\ ram' = [ram EXCEPT ![f] = NoEntry]
         /\ LoadRestore
              => ram' = [ram EXCEPT ![job.id] = [sum |-> ram[job.id].sum, fail |-> 0]]
         /\ \A f \in Fid, e \in BOOLEAN : SaveInto(f, e) => JobOn(f)
         /\ job.id \in Fid
              => [ram EXCEPT ![job.id].sum = job.data]
                   = [ram EXCEPT ![job.id] = [sum |-> job.data, fail |-> ram[job.id].fail]]
<1> USE DEF TypeInv, Flow, JobOn
<1>1. ASSUME NEW f \in Fid, NEW l, LoadPick(f, l) PROVE JobOn(f)
  BY <1>1, JobEdit, ZenonT(60) DEF LoadPick
<1>2. ASSUME NEW f \in Fid, LoadNormal(f)
      PROVE  JobOn(f) /\ ram' = [ram EXCEPT ![f] = [sum |-> ram[f].sum, fail |-> 0]]
  BY <1>1, <1>2, EditIs, ZenonT(60) DEF LoadNormal
<1>3. ASSUME NEW f \in Fid, LoadBackup(f) PROVE JobOn(f)
  BY <1>1, <1>3 DEF LoadBackup
<1>4. ASSUME NEW f \in Fid, LoadFailed(f)
      PROVE  /\ JobOn(f)
             /\ \/ /\ pc' = "load_setsB"
                   /\ ram' = [ram EXCEPT ![f] = [sum |-> ram[f].sum, fail |-> ram[f].fail + 1]]
                \/ pc' = "load_rmB" /\ ram' = [ram EXCEPT ![f] = NoEntry]
  <2>1. JobOn(f)
    BY <1>1, <1>4 DEF LoadFailed
  <2>2. \/ pc' = "load_setsB" /\ ram' = [ram EXCEPT ![f].fail = @ + 1]
        \/ pc' = "load_rmB" /\ ram' = [ram EXCEPT ![f] = NoEntry]
    BY <1>4 DEF LoadFailed, LoadPick
  <2> QED BY <2>1, <2>2, EditIs, ZenonT(60)
<1>5. LoadRestore => ram' = [ram EXCEPT ![job.id] = [sum |-> ram[job.id].sum, fail |-> 0]]
  BY JobId, EditIs DEF LoadRestore, LoadLabel
<1>6. ASSUME NEW f \in Fid, NEW e \in BOOLEAN, SaveInto(f, e) PROVE JobOn(f)
  BY <1>6, JobEdit, ZenonT(60) DEF SaveInto
<1>7. ASSUME NEW i \in Fid, NEW d
      PROVE  [ram EXCEPT ![i].sum = d] = [ram EXCEPT ![i] = [sum |-> d, fail |-> ram[i].fail]]
  <2>1. \A e : [ram EXCEPT ![i].sum = e] = [ram EXCEPT ![i] = [sum |-> e, fail |-> ram[i].fail]]
    BY EditIs
  <2> QED BY <2>1, Zenon
<1> QED BY <1>2, <1>3, <1>4, <1>5, <1>6, <1>7, ZenonT(60)

LEMMA InitOp == TypeInv /\ ImageInv /\ pc \in InitLabel => job.op \in Op \ {"none", "incfail"}
BY DEF TypeInv, Flow, JobInv, Job, ImageInv

LEMMA InitReadIs ==
  ASSUME NoErrors, TypeInv, ImageInv, InitRead
  PROVE  /\ pc = "init" /\ job.op \in Op \ {"none", "incfail"}
         /\ ram' = Source /\ inited' /\ todo' = IF job.op = "load" THEN Ids(Source) ELSE todo
         /\ pc' = IF setsN.ok THEN job.op ELSE IF setsB.ok THEN "init_setsN" ELSE "reset_setsB"
         /\ UNCHANGED <<job, setsN, setsB, tplN, tplB, loaded, told>>
BY InitOp DEF InitRead, Source, Goto, disk, InitLabel, ImageInv, TypeInv, Flow

LEMMA InitRestoreIs ==
  ASSUME NoErrors, TypeInv, ImageInv, InitRestore
  PROVE  /\ pc = "init_setsN" /\ inited /\ job.op \in Op \ {"none", "incfail"}
         /\ pc' = job.op
         /\ setsN' = Whole(ram)
         /\ UNCHANGED <<job, inited, ram, setsB, tplN, tplB, todo, loaded, told>>
BY InitOp, FileOps DEF InitRestore, Goto, InitLabel, JobInv, TypeInv, Flow

LEMMA ResetBackupIs ==
  ASSUME NoErrors, TypeInv, ImageInv, ResetBackup
  PROVE  /\ pc = "reset_setsB" /\ inited /\ job.op \in Op \ {"none", "incfail"}
         /\ pc' = "reset_setsN"
         /\ setsB' = Whole(ram)
         /\ UNCHANGED <<job, inited, ram, setsN, tplN, tplB, todo, loaded, told>>
BY InitOp, FileOps DEF ResetBackup, Goto, InitLabel, JobInv, TypeInv, Flow

LEMMA ResetNormalIs ==
  ASSUME NoErrors, TypeInv, ImageInv, ResetNormal
  PROVE  /\ pc = "reset_setsN" /\ inited /\ job.op \in Op \ {"none", "incfail"}
         /\ pc' = job.op
         /\ setsN' = Whole(ram)
         /\ UNCHANGED <<job, inited, ram, setsB, tplN, tplB, todo, loaded, told>>
BY InitOp, FileOps DEF ResetNormal, Goto, InitLabel, JobInv, TypeInv, Flow

LEMMA LoadDoneIs ==
  ASSUME NoErrors, TypeInv, ImageInv, LoadDone
  PROVE  /\ pc = "load" /\ job.op = "load" /\ inited /\ todo = {}
         /\ pc' = "idle"
         /\ job' = NoJob
         /\ UNCHANGED <<inited, ram, setsN, setsB, tplN, tplB, todo, loaded, told>>
BY DEF LoadDone, Finish, JobInv, disk, faults, TypeInv, Flow

LEMMA LoadNormalIs ==
  ASSUME NoErrors, TypeInv, ImageInv, NEW f \in Fid, LoadNormal(f)
  PROVE  /\ pc = "load" /\ job.op = "load" /\ inited /\ f \in todo /\ tplN[f] = ram[f].sum
         /\ pc' = IF ram[f].fail = 0 THEN "load" ELSE "load_setsB"
         /\ JobOn(f) /\ ram' = [ram EXCEPT ![f] = [sum |-> ram[f].sum, fail |-> 0]]
         /\ todo' = todo \ {f} /\ loaded' = loaded \cup {f}
         /\ UNCHANGED <<inited, setsN, setsB, tplN, tplB, told>>
BY Edits DEF LoadNormal, LoadPick, JobInv, disk, faults, TypeInv, Flow

LEMMA LoadBackupIs ==
  ASSUME NoErrors, TypeInv, ImageInv, NEW f \in Fid, LoadBackup(f)
  PROVE  /\ pc = "load" /\ job.op = "load" /\ inited /\ f \in todo /\ tplN[f] # ram[f].sum /\ tplB[f] = ram[f].sum
         /\ pc' = "load_tplN"
         /\ JobOn(f) /\ todo' = todo \ {f} /\ loaded' = loaded \cup {f}
         /\ UNCHANGED <<inited, ram, setsN, setsB, tplN, tplB, told>>
BY Edits DEF LoadBackup, LoadPick, JobInv, disk, faults, TypeInv, Flow

LEMMA LoadFailedIs ==
  ASSUME NoErrors, TypeInv, ImageInv, NEW f \in Fid, LoadFailed(f)
  PROVE  /\ pc = "load" /\ job.op = "load" /\ inited /\ f \in todo /\ tplN[f] # ram[f].sum /\ tplB[f] # ram[f].sum
         /\ \/ pc' = "load_setsB" /\ ram' = [ram EXCEPT ![f] = [sum |-> ram[f].sum, fail |-> ram[f].fail + 1]]
            \/ pc' = "load_rmB" /\ ram' = [ram EXCEPT ![f] = NoEntry]
         /\ JobOn(f) /\ todo' = todo \ {f}
         /\ UNCHANGED <<inited, setsN, setsB, tplN, tplB, loaded, told>>
BY Edits DEF LoadFailed, LoadPick, JobInv, disk, faults, TypeInv, Flow

LEMMA LoadRestoreIs ==
  ASSUME NoErrors, TypeInv, ImageInv, LoadRestore
  PROVE  /\ pc = "load_tplN" /\ job.op = "load" /\ inited /\ job.id \in Fid
         /\ pc' = IF ram[job.id].fail = 0 THEN "load" ELSE "load_setsB"
         /\ ram' = [ram EXCEPT ![job.id] = [sum |-> ram[job.id].sum, fail |-> 0]]
         /\ tplN' = [tplN EXCEPT ![job.id] = ram[job.id].sum]
         /\ UNCHANGED <<job, inited, setsN, setsB, tplB, todo, loaded, told>>
<1>1. /\ pc = "load_tplN" /\ job.op = "load" /\ inited /\ job.id \in Fid
      /\ pc' = IF ram[job.id].fail = 0 THEN "load" ELSE "load_setsB"
      /\ tplN' = [tplN EXCEPT ![job.id] = ram[job.id].sum]
      /\ UNCHANGED <<job, inited, setsN, setsB, tplB, todo, loaded, told>>
  BY FileOps DEF LoadRestore, Goto, JobInv, LoadLabel, TypeInv, Flow
<1>2. ram' = [ram EXCEPT ![job.id] = [sum |-> ram[job.id].sum, fail |-> 0]]
  BY Edits
<1> QED BY <1>1, <1>2

LEMMA LoadDropBackupIs ==
  ASSUME NoErrors, TypeInv, ImageInv, LoadDropBackup
  PROVE  /\ pc = "load_rmB" /\ job.op = "load" /\ inited /\ job.id \in Fid
         /\ pc' = "load_setsB"
         /\ tplB' = [tplB EXCEPT ![job.id] = NoData]
         /\ UNCHANGED <<job, inited, ram, setsN, setsB, tplN, todo, loaded, told>>
BY FileOps DEF LoadDropBackup, Goto, JobInv, LoadLabel, TypeInv, Flow

LEMMA LoadSetsBackupIs ==
  ASSUME NoErrors, TypeInv, ImageInv, LoadSetsBackup
  PROVE  /\ pc = "load_setsB" /\ job.op = "load" /\ inited /\ job.id \in Fid
         /\ pc' = IF ram[job.id].sum # NoData THEN "load_setsN" ELSE "load_rmN"
         /\ setsB' = Whole(ram)
         /\ UNCHANGED <<job, inited, ram, setsN, tplN, tplB, todo, loaded, told>>
BY FileOps DEF LoadSetsBackup, Goto, JobInv, LoadLabel, Ids, TypeInv, Flow

LEMMA LoadDropNormalIs ==
  ASSUME NoErrors, TypeInv, ImageInv, LoadDropNormal
  PROVE  /\ pc = "load_rmN" /\ job.op = "load" /\ inited /\ job.id \in Fid
         /\ pc' = "load_setsN"
         /\ tplN' = [tplN EXCEPT ![job.id] = NoData]
         /\ UNCHANGED <<job, inited, ram, setsN, setsB, tplB, todo, loaded, told>>
BY FileOps DEF LoadDropNormal, Goto, JobInv, LoadLabel, TypeInv, Flow

LEMMA LoadSetsNormalIs ==
  ASSUME NoErrors, TypeInv, ImageInv, LoadSetsNormal
  PROVE  /\ pc = "load_setsN" /\ job.op = "load" /\ inited /\ job.id \in Fid
         /\ pc' = "load"
         /\ setsN' = Whole(ram)
         /\ UNCHANGED <<job, inited, ram, setsB, tplN, tplB, todo, loaded, told>>
BY FileOps DEF LoadSetsNormal, Goto, JobInv, LoadLabel, TypeInv, Flow

LEMMA SaveFreeIs ==
  ASSUME NoErrors, TypeInv, ImageInv, NEW f \in Fid, SaveFree(f)
  PROVE  /\ pc = "save" /\ job.op = "save" /\ inited /\ ram[f].sum = NoData
         /\ pc' = "save_tplB"
         /\ JobOn(f) /\ told' = [told EXCEPT ![f] = Unknown]
         /\ UNCHANGED <<inited, ram, setsN, setsB, tplN, tplB, todo, loaded>>
BY Edits DEF SaveFree, SaveInto, JobInv, disk, Ids, TypeInv, Flow

LEMMA SaveEvictIs ==
  ASSUME NoErrors, TypeInv, ImageInv, NEW f \in Fid, SaveEvict(f)
  PROVE  /\ pc = "save" /\ job.op = "save" /\ inited /\ ram[f].sum = NoData
         /\ pc' = "save_tplB"
         /\ \E g \in Fid \ {f} : /\ ram[g].fail > 0 /\ ram' = [ram EXCEPT ![g] = NoEntry]
                               /\ tplB' = [tplB EXCEPT ![g] = NoData]
         /\ JobOn(f) /\ told' = [told EXCEPT ![f] = Unknown]
         /\ UNCHANGED <<inited, setsN, setsB, tplN, todo, loaded>>
BY Edits, FileOps DEF SaveEvict, SaveInto, JobInv, Worst, Ids, TypeInv, Flow

LEMMA SaveRefusedIs ==
  ASSUME NoErrors, TypeInv, ImageInv, SaveRefused
  PROVE  /\ pc = "save" /\ job.op = "save" /\ inited
         /\ pc' = "idle"
         /\ job' = NoJob
         /\ UNCHANGED <<inited, ram, setsN, setsB, tplN, tplB, todo, loaded, told>>
BY DEF SaveRefused, Finish, JobInv, disk, faults, TypeInv, Flow

LEMMA SaveTplBackupIs ==
  ASSUME NoErrors, TypeInv, ImageInv, SaveTplBackup
  PROVE  /\ pc = "save_tplB" /\ job.op = "save" /\ inited /\ job.id \in Fid
         /\ pc' = "save_setsB"
         /\ tplB' = [tplB EXCEPT ![job.id] = job.data]
         /\ ram' = [ram EXCEPT ![job.id] = [sum |-> job.data, fail |-> 0]]
         /\ UNCHANGED <<job, inited, setsN, setsB, tplN, todo, loaded, told>>
BY FileOps DEF SaveTplBackup, Goto, JobInv, SaveLabel, TypeInv, Flow

LEMMA SaveSetsBackupIs ==
  ASSUME NoErrors, TypeInv, ImageInv, SaveSetsBackup
  PROVE  /\ pc = "save_setsB" /\ job.op = "save" /\ inited /\ job.id \in Fid
         /\ pc' = IF job.evict THEN "save_rmN" ELSE "save_setsN"
         /\ setsB' = Whole(ram)
         /\ UNCHANGED <<job, inited, ram, setsN, tplN, tplB, todo, loaded, told>>
BY FileOps DEF SaveSetsBackup, Goto, JobInv, SaveLabel, TypeInv, Flow

LEMMA SaveDropNormalIs ==
  ASSUME NoErrors, TypeInv, ImageInv, SaveDropNormal
  PROVE  /\ pc = "save_rmN" /\ job.op = "save" /\ inited /\ job.id \in Fid
         /\ pc' = "save_setsN"
         /\ tplN' = [tplN EXCEPT ![job.id] = NoData]
         /\ UNCHANGED <<job, inited, ram, setsN, setsB, tplB, todo, loaded, told>>
BY FileOps DEF SaveDropNormal, Goto, JobInv, SaveLabel, TypeInv, Flow

LEMMA SaveSetsNormalIs ==
  ASSUME NoErrors, TypeInv, ImageInv, SaveSetsNormal
  PROVE  /\ pc = "save_setsN" /\ job.op = "save" /\ inited /\ job.id \in Fid
         /\ pc' = "save_tplN"
         /\ setsN' = Whole(ram)
         /\ UNCHANGED <<job, inited, ram, setsB, tplN, tplB, todo, loaded, told>>
BY FileOps DEF SaveSetsNormal, Goto, JobInv, SaveLabel, TypeInv, Flow

LEMMA SaveTplNormalIs ==
  ASSUME NoErrors, TypeInv, ImageInv, SaveTplNormal
  PROVE  /\ pc = "save_tplN" /\ job.op = "save" /\ inited /\ job.id \in Fid
         /\ pc' = "idle"
         /\ job' = NoJob /\ tplN' = [tplN EXCEPT ![job.id] = job.data]
         /\ loaded' = loaded \cup {job.id}
         /\ told' = [told EXCEPT ![job.id] = job.data]
         /\ UNCHANGED <<inited, ram, setsN, setsB, tplB, todo>>
BY FileOps DEF SaveTplNormal, Goto, JobInv, SaveLabel, Succeed, TypeInv, Flow

LEMMA UpdateLookupIs ==
  ASSUME NoErrors, TypeInv, ImageInv, UpdateLookup
  PROVE  /\ pc = "update" /\ job.op = "update" /\ inited /\ job.id \in Fid
         /\ \/ ram[job.id].sum = NoData /\ pc' = "idle" /\ job' = NoJob /\ told' = told
            \/ /\ ram[job.id].sum # NoData /\ ram[job.id].sum = job.data
               /\ pc' = "idle" /\ job' = NoJob /\ told' = [told EXCEPT ![job.id] = job.data]
            \/ /\ ram[job.id].sum # NoData /\ ram[job.id].sum # job.data
               /\ pc' = "upd_tplB" /\ job' = job /\ told' = told
         /\ UNCHANGED <<inited, ram, setsN, setsB, tplN, tplB, todo, loaded>>
BY DEF UpdateLookup, Finish, Succeed, Goto, JobInv, UpdateLabel, disk, faults, Ids, TypeInv, Flow

LEMMA UpdateTplBackupIs ==
  ASSUME NoErrors, TypeInv, ImageInv, UpdateTplBackup
  PROVE  /\ pc = "upd_tplB" /\ job.op = "update" /\ inited /\ job.id \in Fid
         /\ pc' = "upd_setsB"
         /\ tplB' = [tplB EXCEPT ![job.id] = job.data]
         /\ ram' = [ram EXCEPT ![job.id] = [sum |-> job.data, fail |-> ram[job.id].fail]]
         /\ UNCHANGED <<job, inited, setsN, setsB, tplN, todo, loaded, told>>
BY Edits, FileOps DEF UpdateTplBackup, Goto, JobInv, UpdateLabel, TypeInv, Flow

LEMMA UpdateSetsBackupIs ==
  ASSUME NoErrors, TypeInv, ImageInv, UpdateSetsBackup
  PROVE  /\ pc = "upd_setsB" /\ job.op = "update" /\ inited /\ job.id \in Fid
         /\ pc' = "upd_setsN"
         /\ setsB' = Whole(ram)
         /\ UNCHANGED <<job, inited, ram, setsN, tplN, tplB, todo, loaded, told>>
BY FileOps DEF UpdateSetsBackup, Goto, JobInv, UpdateLabel, TypeInv, Flow

LEMMA UpdateSetsNormalIs ==
  ASSUME NoErrors, TypeInv, ImageInv, UpdateSetsNormal
  PROVE  /\ pc = "upd_setsN" /\ job.op = "update" /\ inited /\ job.id \in Fid
         /\ pc' = "upd_tplN"
         /\ setsN' = Whole(ram)
         /\ UNCHANGED <<job, inited, ram, setsB, tplN, tplB, todo, loaded, told>>
BY FileOps DEF UpdateSetsNormal, Goto, JobInv, UpdateLabel, TypeInv, Flow

LEMMA UpdateTplNormalIs ==
  ASSUME NoErrors, TypeInv, ImageInv, UpdateTplNormal
  PROVE  /\ pc = "upd_tplN" /\ job.op = "update" /\ inited /\ job.id \in Fid
         /\ pc' = "idle"
         /\ job' = NoJob /\ tplN' = [tplN EXCEPT ![job.id] = job.data]
         /\ told' = [told EXCEPT ![job.id] = job.data]
         /\ UNCHANGED <<inited, ram, setsN, setsB, tplB, todo, loaded>>
BY FileOps DEF UpdateTplNormal, Goto, JobInv, UpdateLabel, Succeed, TypeInv, Flow

LEMMA RemoveLookupIs ==
  ASSUME NoErrors, TypeInv, ImageInv, RemoveLookup
  PROVE  /\ pc = "remove" /\ job.op = "remove" /\ inited /\ job.id \in Fid
         /\ \/ /\ ram[job.id].sum = NoData /\ loaded' = loaded \ {job.id}
               /\ pc' = "idle" /\ job' = NoJob /\ told' = [told EXCEPT ![job.id] = job.data]
            \/ /\ ram[job.id].sum # NoData /\ loaded' = loaded
               /\ pc' = "rm_setsB" /\ job' = job /\ told' = told
         /\ UNCHANGED <<inited, ram, setsN, setsB, tplN, tplB, todo>>
BY DEF RemoveLookup, Succeed, Goto, JobInv, RemoveLabel, disk, faults, Ids, TypeInv, Flow

LEMMA RemoveSetsBackupIs ==
  ASSUME NoErrors, TypeInv, ImageInv, RemoveSetsBackup
  PROVE  /\ pc = "rm_setsB" /\ job.op = "remove" /\ inited /\ job.id \in Fid
         /\ pc' = "rm_tplB"
         /\ setsB' = Whole([ram EXCEPT ![job.id] = NoEntry])
         /\ ram' = [ram EXCEPT ![job.id] = NoEntry]
         /\ UNCHANGED <<job, inited, setsN, tplN, tplB, todo, loaded, told>>
BY FileOps DEF RemoveSetsBackup, Goto, JobInv, RemoveLabel, TypeInv, Flow

LEMMA RemoveTplBackupIs ==
  ASSUME NoErrors, TypeInv, ImageInv, RemoveTplBackup
  PROVE  /\ pc = "rm_tplB" /\ job.op = "remove" /\ inited /\ job.id \in Fid
         /\ pc' = "rm_setsN"
         /\ tplB' = [tplB EXCEPT ![job.id] = NoData]
         /\ UNCHANGED <<job, inited, ram, setsN, setsB, tplN, todo, loaded, told>>
BY FileOps DEF RemoveTplBackup, Goto, JobInv, RemoveLabel, TypeInv, Flow

LEMMA RemoveSetsNormalIs ==
  ASSUME NoErrors, TypeInv, ImageInv, RemoveSetsNormal
  PROVE  /\ pc = "rm_setsN" /\ job.op = "remove" /\ inited /\ job.id \in Fid
         /\ pc' = "rm_tplN"
         /\ setsN' = Whole(ram)
         /\ UNCHANGED <<job, inited, ram, setsB, tplN, tplB, todo, loaded, told>>
BY FileOps DEF RemoveSetsNormal, Goto, JobInv, RemoveLabel, TypeInv, Flow

LEMMA RemoveTplNormalIs ==
  ASSUME NoErrors, TypeInv, ImageInv, RemoveTplNormal
  PROVE  /\ pc = "rm_tplN" /\ job.op = "remove" /\ inited /\ job.id \in Fid
         /\ pc' = "idle"
         /\ job' = NoJob /\ tplN' = [tplN EXCEPT ![job.id] = NoData]
         /\ loaded' = loaded \ {job.id} /\ told' = [told EXCEPT ![job.id] = job.data]
         /\ UNCHANGED <<inited, ram, setsN, setsB, tplB, todo>>
BY FileOps DEF RemoveTplNormal, Goto, JobInv, RemoveLabel, Succeed, TypeInv, Flow

(* One of the two files of template f holds what table t expects of it.    *)
Readable(t, f) == t[f].sum # NoData /\ t[f].sum \in {tplN[f], tplB[f]}

(* The labels between the write of the BACKUP table and that of the NORMAL *)
(* one, and the labels at which the NORMAL table is what is in RAM.        *)
BackupFirst == {"init_setsN", "reset_setsN", "load_rmN", "load_setsN", "save_rmN",
                "save_setsN", "upd_setsN", "rm_tplB", "rm_setsN"}
Synced == {"idle", "load", "load_tplN", "save", "save_tplN", "update", "upd_tplB",
           "upd_tplN", "remove", "rm_setsB", "rm_tplN"}

(* A table file is whole or useless; where the NORMAL one is about to be   *)
(* written the BACKUP one already holds the new table, and where no call   *)
(* has changed the RAM table the NORMAL one holds it too.                  *)
CopyInv ==
  /\ setsN.ok \/ setsN = BadSets
  /\ setsB.ok \/ setsB = BadSets
  /\ pc \in BackupFirst => setsB = Whole(ram)
  /\ inited /\ pc \in Synced => setsN = Whole(ram)
  /\ pc \in InitLabel \ {"init"} => ~setsN.ok
  /\ pc = "reset_setsB" => ram = EmptyTable
  /\ pc # "save_undo"

(* The labels of each call at which the RAM table is ahead of the NORMAL   *)
(* table file, that is of what the next start would take.                  *)
LoadGap == {"load_rmB", "load_setsB", "load_rmN", "load_setsN"}
SaveGap == {"save_setsB", "save_rmN", "save_setsN"}
UpdateGap == {"upd_setsB", "upd_setsN"}
RemoveGap == {"rm_tplB", "rm_setsN"}

Ahead == LoadGap \cup {"save_tplB"} \cup SaveGap \cup UpdateGap \cup RemoveGap

(* There the two differ in the entry of the call's id only, but for an     *)
(* entry that was evicted because it could not be read.                    *)
Others ==
  pc \in Ahead =>
    \A f \in Fid \ {job.id} :
      \/ ram[f] = setsN.tbl[f]
      \/ pc \in SaveLabel /\ ram[f] = NoEntry /\ ~Readable(setsN.tbl, f)

(* And in the entry of the call's id they differ by what the call does.    *)
Mine ==
  /\ pc \in LoadGap => /\ ~Readable(setsN.tbl, job.id)
                       /\ ram[job.id].sum \in {NoData, setsN.tbl[job.id].sum}
  /\ pc = "save_tplB" => ram[job.id].sum = NoData
  /\ pc \in SaveGap \cup {"save_tplB"} => setsN.tbl[job.id].sum = NoData
  /\ pc \in SaveGap \cup UpdateGap \cup {"save_tplN", "upd_tplN"} =>
       ram[job.id] = [sum |-> job.data, fail |-> 0]
  /\ pc \in RemoveGap \cup {"rm_tplN"} => ram[job.id] = NoEntry

GapInv == Others /\ Mine

(* A failure count is held only against a template that cannot be read, in *)
(* RAM and in the table the next start would take.                         *)
Sound(t) == \A f \in Fid : t[f].fail > 0 => ~Readable(t, f)
FailInv == Sound(ram) /\ Sound(Source)

(* The fingers the library holds are in the table, were read without fail, *)
(* and are apart from those the load in progress has still to try and from *)
(* the one it is giving up; an update is of a finger that is loaded.       *)
LoadInv ==
  /\ pc \in InitLabel \/ ~inited => loaded = {}
  /\ job.op = "update" => pc \in UpdateLabel /\ job.id \in loaded
  /\ job.op # "load" => todo = {}
  /\ \A f \in todo : f \notin loaded /\ ram[f].sum # NoData
  /\ pc = "load_tplN" => job.id \in loaded
  /\ pc \in LoadGap \cup SaveLabel => job.id \notin loaded
  /\ \A f \in loaded : /\ ram[f].fail = 0
                       /\ ram[f].sum = NoData => job.op = "remove" /\ job.id = f

(* What the caller was told is gone is in no table, and a call that may    *)
(* bring a finger back has taken back what was told of it.                 *)
Gone == \A f \in Fid : told[f] = NoData => Source[f].sum = NoData /\ ram[f].sum = NoData
ToldJob ==
  /\ job.op \in {"update", "remove"} \/ pc \in SaveLabel => told[job.id] = Unknown
  /\ job.op \in {"save", "update"} => job.data \in Data
  /\ job.op = "remove" => job.data = NoData
  /\ job.op = "save" /\ pc \notin SaveLabel => job.id = NoFid
ToldInv == Gone /\ ToldJob

(* The inductive invariant of the store without write errors.              *)
DbInv == CopyInv /\ GapInv /\ FailInv /\ LoadInv /\ ToldInv

(* After power loss the next start finds the table it would have found, or, *)
(* torn in the middle of a write of the NORMAL file, the one in RAM.        *)
LEMMA CrashSource ==
  ASSUME TypeInv, ImageInv, CopyInv, Crash
  PROVE  Source' = Source \/ (pc \in BackupFirst /\ Source' = ram)
<1> USE DEF CopyInv, Source
<1>1. /\ setsN' = setsN \/ (pc \in WritesSetsN /\ setsN' = BadSets)
      /\ setsB' = setsB \/ (pc \in WritesSetsB /\ setsB' = BadSets)
  BY DEF Crash, Torn
<1>2. CASE pc \in WritesSetsN
  <2>1. setsB' = setsB
    BY <1>1, <1>2 DEF WritesSetsN, WritesSetsB
  <2>2. pc \in BackupFirst
    BY <1>2 DEF TypeInv, Flow, JobInv, ImageInv, IncLabel, WritesSetsN, BackupFirst
  <2> QED BY <1>1, <2>1, <2>2, WholeIs
<1>3. CASE pc \notin WritesSetsN /\ setsN.ok
  BY <1>1, <1>3
<1>4. CASE pc \notin WritesSetsN /\ ~setsN.ok
  <2>1. pc \in WritesSetsB => pc = "reset_setsB"
    BY <1>4 DEF TypeInv, Flow, JobInv, ImageInv, InitLabel, WritesSetsB
  <2>2. pc = "reset_setsB" => setsB = BadSets
    BY DEF ImageInv
  <2> QED BY <1>1, <1>4, <2>1, <2>2
<1> QED BY <1>2, <1>3, <1>4

(* A failure count goes with a template that cannot be read, as long as a  *)
(* file written anew belongs to a template that none is held against.      *)
Unblamed(t, f) == t[f].fail = 0 \/ t[f].sum = NoData

LEMMA FailKept ==
  ASSUME FailInv, Source' = Source \/ Source' = ram,
         \A f \in Fid : \/ tplN'[f] \in {tplN[f], NoData} /\ tplB'[f] \in {tplB[f], NoData}
                        \/ Unblamed(ram, f) /\ Unblamed(Source, f),
         \A f \in Fid : \/ ram'[f] = ram[f]
                        \/ ram'[f].fail = 0
                        \/ ram'[f].sum \notin {tplN'[f], tplB'[f]},
         \A f \in Fid : ram[f].fail \in Nat
  PROVE  FailInv'
<1>1. Sound(ram)'
  BY DEF FailInv, Sound, Readable, Unblamed
<1>2. Sound(Source)'
  BY DEF FailInv, Sound, Readable, Unblamed
<1> QED BY <1>1, <1>2 DEF FailInv

(* Within a call the other entries stay as they are in the NORMAL table.   *)
LEMMA OthersStay ==
  ASSUME Others, pc \in Ahead, job'.id = job.id, setsN' = setsN,
         pc \in SaveLabel => pc' \in SaveLabel,
         \A f \in Fid \ {job.id} : /\ ram'[f] = ram[f]
                                   /\ tplN'[f] \in {tplN[f], NoData}
                                   /\ tplB'[f] \in {tplB[f], NoData}
  PROVE  Others'
BY DEF Others, Readable

LEMMA CopyStep ==
  ASSUME NoErrors, TypeInv, ImageInv, DbInv, [Next]_vars
  PROVE  CopyInv'
<1> USE DEF DbInv, CopyInv, BackupFirst, Synced, InitLabel
<1> DiskOK /\ JobInv /\ Flow
  BY DEF TypeInv, Flow
<1>1. ASSUME CallLoad PROVE CopyInv'
  BY <1>1, WholeIs DEF CallLoad, Call, disk, faults, JobInv
<1>2. ASSUME NEW d \in Data, CallSave(d) PROVE CopyInv'
  BY <1>2, WholeIs DEF CallSave, Call, disk, faults, JobInv
<1>3. ASSUME NEW f \in Fid, NEW d \in Data, CallUpdate(f, d) PROVE CopyInv'
  BY <1>3, WholeIs DEF CallUpdate, Call, disk, faults, JobInv
<1>4. ASSUME NEW f \in Fid, CallRemove(f) PROVE CopyInv'
  BY <1>4, WholeIs DEF CallRemove, Call, disk, faults, JobInv
<1>5. ASSUME NEW f \in Fid, CallIncFail(f) PROVE CopyInv'
  BY <1>5, WholeIs DEF CallIncFail, NoErrors, JobInv
<1>6. ASSUME InitRead PROVE CopyInv'
  <2>1. /\ setsN.ok => setsN = Whole(setsN.tbl)
        /\ setsB.ok => setsB = Whole(setsB.tbl)
    BY FileIs DEF DiskOK
  <2> QED BY <1>6, InitReadIs, <2>1, WholeIs DEF Source, Op
<1>7. ASSUME InitRestore PROVE CopyInv'
  BY <1>7, InitRestoreIs, WholeIs DEF Op
<1>8. ASSUME ResetBackup PROVE CopyInv'
  BY <1>8, ResetBackupIs, WholeIs DEF JobInv
<1>9. ASSUME ResetNormal PROVE CopyInv'
  BY <1>9, ResetNormalIs, WholeIs DEF Op
<1>10. ASSUME LoadDone PROVE CopyInv'
  BY <1>10, LoadDoneIs, WholeIs DEF JobInv
<1>11. ASSUME NEW f \in Fid, LoadNormal(f) PROVE CopyInv'
  <2>1. ram[f].fail = 0 => ram' = ram
    BY <1>11, ZeroFail DEF LoadNormal, TypeInv
  <2> QED BY <1>11, <2>1, LoadNormalIs
<1>12. ASSUME NEW f \in Fid, LoadBackup(f) PROVE CopyInv'
  BY <1>12, LoadBackupIs, WholeIs DEF JobInv
<1>13. ASSUME NEW f \in Fid, LoadFailed(f) PROVE CopyInv'
  BY <1>13, LoadFailedIs, WholeIs DEF JobInv
<1>14. ASSUME LoadRestore PROVE CopyInv'
  <2>1. ram[job.id].fail = 0 => ram' = ram
    BY <1>14, ZeroFail, LoadRestoreIs DEF LoadRestore, TypeInv
  <2> QED BY <1>14, <2>1, LoadRestoreIs
<1>15. ASSUME LoadDropBackup PROVE CopyInv'
  BY <1>15, LoadDropBackupIs, WholeIs DEF JobInv
<1>16. ASSUME LoadSetsBackup PROVE CopyInv'
  BY <1>16, LoadSetsBackupIs, WholeIs DEF JobInv
<1>17. ASSUME LoadDropNormal PROVE CopyInv'
  BY <1>17, LoadDropNormalIs, WholeIs DEF JobInv
<1>18. ASSUME LoadSetsNormal PROVE CopyInv'
  BY <1>18, LoadSetsNormalIs, WholeIs DEF JobInv
<1>19. ASSUME NEW f \in Fid, SaveFree(f) PROVE CopyInv'
  BY <1>19, SaveFreeIs, WholeIs DEF JobInv
<1>20. ASSUME NEW f \in Fid, SaveEvict(f) PROVE CopyInv'
  BY <1>20, SaveEvictIs, WholeIs DEF JobInv
<1>21. ASSUME SaveRefused PROVE CopyInv'
  BY <1>21, SaveRefusedIs, WholeIs DEF JobInv
<1>22. ASSUME SaveTplBackup PROVE CopyInv'
  BY <1>22, SaveTplBackupIs, WholeIs DEF JobInv
<1>23. ASSUME SaveSetsBackup PROVE CopyInv'
  BY <1>23, SaveSetsBackupIs, WholeIs DEF JobInv
<1>24. ASSUME SaveUndo PROVE CopyInv'
  BY <1>24 DEF SaveUndo, DbInv, CopyInv
<1>25. ASSUME SaveDropNormal PROVE CopyInv'
  BY <1>25, SaveDropNormalIs, WholeIs DEF JobInv
<1>26. ASSUME SaveSetsNormal PROVE CopyInv'
  BY <1>26, SaveSetsNormalIs, WholeIs DEF JobInv
<1>27. ASSUME SaveTplNormal PROVE CopyInv'
  BY <1>27, SaveTplNormalIs, WholeIs DEF JobInv
<1>28. ASSUME UpdateLookup PROVE CopyInv'
  BY <1>28, UpdateLookupIs, WholeIs DEF JobInv
<1>29. ASSUME UpdateTplBackup PROVE CopyInv'
  BY <1>29, UpdateTplBackupIs, WholeIs DEF JobInv
<1>30. ASSUME UpdateSetsBackup PROVE CopyInv'
  BY <1>30, UpdateSetsBackupIs, WholeIs DEF JobInv
<1>31. ASSUME UpdateSetsNormal PROVE CopyInv'
  BY <1>31, UpdateSetsNormalIs, WholeIs DEF JobInv
<1>32. ASSUME UpdateTplNormal PROVE CopyInv'
  BY <1>32, UpdateTplNormalIs, WholeIs DEF JobInv
<1>33. ASSUME RemoveLookup PROVE CopyInv'
  BY <1>33, RemoveLookupIs, WholeIs DEF JobInv
<1>34. ASSUME RemoveSetsBackup PROVE CopyInv'
  BY <1>34, RemoveSetsBackupIs, WholeIs DEF JobInv
<1>35. ASSUME RemoveTplBackup PROVE CopyInv'
  BY <1>35, RemoveTplBackupIs, WholeIs DEF JobInv
<1>36. ASSUME RemoveSetsNormal PROVE CopyInv'
  BY <1>36, RemoveSetsNormalIs, WholeIs DEF JobInv
<1>37. ASSUME RemoveTplNormal PROVE CopyInv'
  BY <1>37, RemoveTplNormalIs, WholeIs DEF JobInv
<1>38. ASSUME IncFailLookup PROVE CopyInv'
  BY <1>38 DEF IncFailLookup, TypeInv, Flow, ImageInv, JobInv, IncLabel
<1>39. ASSUME IncFailDrop PROVE CopyInv'
  BY <1>39 DEF IncFailDrop, TypeInv, Flow, ImageInv, JobInv, IncLabel
<1>40. ASSUME IncFailSets PROVE CopyInv'
  BY <1>40 DEF IncFailSets, TypeInv, Flow, ImageInv, JobInv, IncLabel
<1>41. ASSUME Crash PROVE CopyInv'
  BY <1>41, WholeIs DEF Crash, Torn, faults, JobInv
<1>42. ASSUME NEW f \in Fid, Rot(f) PROVE CopyInv'
  BY <1>42, WholeIs DEF Rot, JobInv
<1>43. ASSUME UNCHANGED vars PROVE CopyInv'
  BY <1>43, WholeIs DEF vars, JobInv
<1> QED
  BY <1>1, <1>2, <1>3, <1>4, <1>5, <1>6, <1>7, <1>8, <1>9, <1>10, <1>11, <1>12, <1>13,
     <1>14, <1>15, <1>16, <1>17, <1>18, <1>19, <1>20, <1>21, <1>22, <1>23, <1>24, <1>25, <1>26,
     <1>27, <1>28, <1>29, <1>30, <1>31, <1>32, <1>33, <1>34, <1>35, <1>36, <1>37, <1>38, <1>39,
     <1>40, <1>41, <1>42, <1>43
     DEF Next, ClientCall, StoreStep, StoreInit, Load, Save, Update, Remove, IncFail

LEMMA SourceStep ==
  ASSUME NoErrors, TypeInv, ImageInv, CopyInv, [Next]_vars
  PROVE  Source' = Source \/ (pc \in BackupFirst \cup {"reset_setsB"} /\ Source' = ram)
<1> USE DEF Source, InitLabel, BackupFirst
<1>0. inited /\ pc \notin InitLabel => setsN.ok
  BY DEF ImageInv
<1>1. ASSUME CallLoad PROVE Source' = Source \/ (pc \in BackupFirst \cup {"reset_setsB"} /\ Source' = ram)
  BY <1>1, <1>0, WholeIs DEF CallLoad, Call, disk, faults
<1>2. ASSUME NEW d \in Data, CallSave(d) PROVE Source' = Source \/ (pc \in BackupFirst \cup {"reset_setsB"} /\ Source' = ram)
  BY <1>2, <1>0, WholeIs DEF CallSave, Call, disk, faults
<1>3. ASSUME NEW f \in Fid, NEW d \in Data, CallUpdate(f, d) PROVE Source' = Source \/ (pc \in BackupFirst \cup {"reset_setsB"} /\ Source' = ram)
  BY <1>3, <1>0, WholeIs DEF CallUpdate, Call, disk, faults
<1>4. ASSUME NEW f \in Fid, CallRemove(f) PROVE Source' = Source \/ (pc \in BackupFirst \cup {"reset_setsB"} /\ Source' = ram)
  BY <1>4, <1>0, WholeIs DEF CallRemove, Call, disk, faults
<1>5. ASSUME NEW f \in Fid, CallIncFail(f) PROVE Source' = Source \/ (pc \in BackupFirst \cup {"reset_setsB"} /\ Source' = ram)
  BY <1>5, <1>0, WholeIs DEF CallIncFail, NoErrors
<1>6. ASSUME InitRead PROVE Source' = Source \/ (pc \in BackupFirst \cup {"reset_setsB"} /\ Source' = ram)
  BY <1>6, InitReadIs, <1>0, WholeIs
<1>7. ASSUME InitRestore PROVE Source' = Source \/ (pc \in BackupFirst \cup {"reset_setsB"} /\ Source' = ram)
  BY <1>7, InitRestoreIs, <1>0, WholeIs
<1>8. ASSUME ResetBackup PROVE Source' = Source \/ (pc \in BackupFirst \cup {"reset_setsB"} /\ Source' = ram)
  BY <1>8, ResetBackupIs, <1>0, WholeIs
<1>9. ASSUME ResetNormal PROVE Source' = Source \/ (pc \in BackupFirst \cup {"reset_setsB"} /\ Source' = ram)
  BY <1>9, ResetNormalIs, <1>0, WholeIs
<1>10. ASSUME LoadDone PROVE Source' = Source \/ (pc \in BackupFirst \cup {"reset_setsB"} /\ Source' = ram)
  BY <1>10, LoadDoneIs, <1>0, WholeIs
<1>11. ASSUME NEW f \in Fid, LoadNormal(f) PROVE Source' = Source \/ (pc \in BackupFirst \cup {"reset_setsB"} /\ Source' = ram)
  BY <1>11, LoadNormalIs, <1>0, WholeIs
<1>12. ASSUME NEW f \in Fid, LoadBackup(f) PROVE Source' = Source \/ (pc \in BackupFirst \cup {"reset_setsB"} /\ Source' = ram)
  BY <1>12, LoadBackupIs, <1>0, WholeIs
<1>13. ASSUME NEW f \in Fid, LoadFailed(f) PROVE Source' = Source \/ (pc \in BackupFirst \cup {"reset_setsB"} /\ Source' = ram)
  BY <1>13, LoadFailedIs, <1>0, WholeIs
<1>14. ASSUME LoadRestore PROVE Source' = Source \/ (pc \in BackupFirst \cup {"reset_setsB"} /\ Source' = ram)
  BY <1>14, LoadRestoreIs, <1>0, WholeIs
<1>15. ASSUME LoadDropBackup PROVE Source' = Source \/ (pc \in BackupFirst \cup {"reset_setsB"} /\ Source' = ram)
  BY <1>15, LoadDropBackupIs, <1>0, WholeIs
<1>16. ASSUME LoadSetsBackup PROVE Source' = Source \/ (pc \in BackupFirst \cup {"reset_setsB"} /\ Source' = ram)
  BY <1>16, LoadSetsBackupIs, <1>0, WholeIs
<1>17. ASSUME LoadDropNormal PROVE Source' = Source \/ (pc \in BackupFirst \cup {"reset_setsB"} /\ Source' = ram)
  BY <1>17, LoadDropNormalIs, <1>0, WholeIs
<1>18. ASSUME LoadSetsNormal PROVE Source' = Source \/ (pc \in BackupFirst \cup {"reset_setsB"} /\ Source' = ram)
  BY <1>18, LoadSetsNormalIs, <1>0, WholeIs
<1>19. ASSUME NEW f \in Fid, SaveFree(f) PROVE Source' = Source \/ (pc \in BackupFirst \cup {"reset_setsB"} /\ Source' = ram)
  BY <1>19, SaveFreeIs, <1>0, WholeIs
<1>20. ASSUME NEW f \in Fid, SaveEvict(f) PROVE Source' = Source \/ (pc \in BackupFirst \cup {"reset_setsB"} /\ Source' = ram)
  BY <1>20, SaveEvictIs, <1>0, WholeIs
<1>21. ASSUME SaveRefused PROVE Source' = Source \/ (pc \in BackupFirst \cup {"reset_setsB"} /\ Source' = ram)
  BY <1>21, SaveRefusedIs, <1>0, WholeIs
<1>22. ASSUME SaveTplBackup PROVE Source' = Source \/ (pc \in BackupFirst \cup {"reset_setsB"} /\ Source' = ram)
  BY <1>22, SaveTplBackupIs, <1>0, WholeIs
<1>23. ASSUME SaveSetsBackup PROVE Source' = Source \/ (pc \in BackupFirst \cup {"reset_setsB"} /\ Source' = ram)
  BY <1>23, SaveSetsBackupIs, <1>0, WholeIs
<1>24. ASSUME SaveUndo PROVE Source' = Source \/ (pc \in BackupFirst \cup {"reset_setsB"} /\ Source' = ram)
  BY <1>24 DEF SaveUndo, DbInv, CopyInv
<1>25. ASSUME SaveDropNormal PROVE Source' = Source \/ (pc \in BackupFirst \cup {"reset_setsB"} /\ Source' = ram)
  BY <1>25, SaveDropNormalIs, <1>0, WholeIs
<1>26. ASSUME SaveSetsNormal PROVE Source' = Source \/ (pc \in BackupFirst \cup {"reset_setsB"} /\ Source' = ram)
  BY <1>26, SaveSetsNormalIs, <1>0, WholeIs
<1>27. ASSUME SaveTplNormal PROVE Source' = Source \/ (pc \in BackupFirst \cup {"reset_setsB"} /\ Source' = ram)
  BY <1>27, SaveTplNormalIs, <1>0, WholeIs
<1>28. ASSUME UpdateLookup PROVE Source' = Source \/ (pc \in BackupFirst \cup {"reset_setsB"} /\ Source' = ram)
  BY <1>28, UpdateLookupIs, <1>0, WholeIs
<1>29. ASSUME UpdateTplBackup PROVE Source' = Source \/ (pc \in BackupFirst \cup {"reset_setsB"} /\ Source' = ram)
  BY <1>29, UpdateTplBackupIs, <1>0, WholeIs
<1>30. ASSUME UpdateSetsBackup PROVE Source' = Source \/ (pc \in BackupFirst \cup {"reset_setsB"} /\ Source' = ram)
  BY <1>30, UpdateSetsBackupIs, <1>0, WholeIs
<1>31. ASSUME UpdateSetsNormal PROVE Source' = Source \/ (pc \in BackupFirst \cup {"reset_setsB"} /\ Source' = ram)
  BY <1>31, UpdateSetsNormalIs, <1>0, WholeIs
<1>32. ASSUME UpdateTplNormal PROVE Source' = Source \/ (pc \in BackupFirst \cup {"reset_setsB"} /\ Source' = ram)
  BY <1>32, UpdateTplNormalIs, <1>0, WholeIs
<1>33. ASSUME RemoveLookup PROVE Source' = Source \/ (pc \in BackupFirst \cup {"reset_setsB"} /\ Source' = ram)
  BY <1>33, RemoveLookupIs, <1>0, WholeIs
<1>34. ASSUME RemoveSetsBackup PROVE Source' = Source \/ (pc \in BackupFirst \cup {"reset_setsB"} /\ Source' = ram)
  BY <1>34, RemoveSetsBackupIs, <1>0, WholeIs
<1>35. ASSUME RemoveTplBackup PROVE Source' = Source \/ (pc \in BackupFirst \cup {"reset_setsB"} /\ Source' = ram)
  BY <1>35, RemoveTplBackupIs, <1>0, WholeIs
<1>36. ASSUME RemoveSetsNormal PROVE Source' = Source \/ (pc \in BackupFirst \cup {"reset_setsB"} /\ Source' = ram)
  BY <1>36, RemoveSetsNormalIs, <1>0, WholeIs
<1>37. ASSUME RemoveTplNormal PROVE Source' = Source \/ (pc \in BackupFirst \cup {"reset_setsB"} /\ Source' = ram)
  BY <1>37, RemoveTplNormalIs, <1>0, WholeIs
<1>38. ASSUME IncFailLookup PROVE Source' = Source \/ (pc \in BackupFirst \cup {"reset_setsB"} /\ Source' = ram)
  BY <1>38 DEF IncFailLookup, TypeInv, Flow, ImageInv, JobInv, IncLabel
<1>39. ASSUME IncFailDrop PROVE Source' = Source \/ (pc \in BackupFirst \cup {"reset_setsB"} /\ Source' = ram)
  BY <1>39 DEF IncFailDrop, TypeInv, Flow, ImageInv, JobInv, IncLabel
<1>40. ASSUME IncFailSets PROVE Source' = Source \/ (pc \in BackupFirst \cup {"reset_setsB"} /\ Source' = ram)
  BY <1>40 DEF IncFailSets, TypeInv, Flow, ImageInv, JobInv, IncLabel
<1>41. ASSUME Crash PROVE Source' = Source \/ (pc \in BackupFirst \cup {"reset_setsB"} /\ Source' = ram)
  BY <1>41, CrashSource
<1>42. ASSUME NEW f \in Fid, Rot(f) PROVE Source' = Source \/ (pc \in BackupFirst \cup {"reset_setsB"} /\ Source' = ram)
  BY <1>42, <1>0, WholeIs DEF Rot
<1>43. ASSUME UNCHANGED vars PROVE Source' = Source \/ (pc \in BackupFirst \cup {"reset_setsB"} /\ Source' = ram)
  BY <1>43, <1>0, WholeIs DEF vars
<1> QED
  BY <1>1, <1>2, <1>3, <1>4, <1>5, <1>6, <1>7, <1>8, <1>9, <1>10, <1>11, <1>12, <1>13,
     <1>14, <1>15, <1>16, <1>17, <1>18, <1>19, <1>20, <1>21, <1>22, <1>23, <1>24, <1>25, <1>26,
     <1>27, <1>28, <1>29, <1>30, <1>31, <1>32, <1>33, <1>34, <1>35, <1>36, <1>37, <1>38, <1>39,
     <1>40, <1>41, <1>42, <1>43
     DEF Next, ClientCall, StoreStep, StoreInit, Load, Save, Update, Remove, IncFail

LEMMA LoadStep ==
  ASSUME NoErrors, TypeInv, ImageInv, DbInv, [Next]_vars
  PROVE  LoadInv'
<1> USE DEF DbInv, LoadInv, InitLabel, UpdateLabel, SaveLabel, LoadGap
<1> JobInv /\ Flow /\ loaded \subseteq Fid /\ todo \subseteq Fid /\ ram \in Table
  BY DEF TypeInv, Flow, Rest
<1>1. ASSUME CallLoad PROVE LoadInv'
  BY <1>1, JobIs DEF CallLoad, Call, disk, faults, JobInv
<1>2. ASSUME NEW d \in Data, CallSave(d) PROVE LoadInv'
  BY <1>2, JobIs DEF CallSave, Call, disk, faults, JobInv
<1>3. ASSUME NEW f \in Fid, NEW d \in Data, CallUpdate(f, d) PROVE LoadInv'
  BY <1>3, JobIs DEF CallUpdate, Call, disk, faults, JobInv
<1>4. ASSUME NEW f \in Fid, CallRemove(f) PROVE LoadInv'
  BY <1>4, JobIs DEF CallRemove, Call, disk, faults, JobInv
<1>5. ASSUME NEW f \in Fid, CallIncFail(f) PROVE LoadInv'
  BY <1>5, JobIs DEF CallIncFail, NoErrors, JobInv
<1>6. ASSUME InitRead PROVE LoadInv'
  <2>1. /\ pc' \in {job.op, "init_setsN", "reset_setsB"}
        /\ job.op \in {"load", "save", "remove"}
    BY <1>6, InitReadIs DEF Op
  <2>2. \A f \in todo' : ram'[f].sum # NoData /\ job.op = "load"
    BY <1>6, InitReadIs DEF Ids
  <2> QED BY <2>1, <2>2, <1>6, InitReadIs
<1>7. ASSUME InitRestore PROVE LoadInv'
  <2>1. job.op \in {"load", "save", "remove"}
    BY <1>7, InitRestoreIs DEF Op
  <2> QED BY <1>7, <2>1, InitRestoreIs
<1>8. ASSUME ResetBackup PROVE LoadInv'
  BY <1>8, ResetBackupIs, JobIs DEF JobInv
<1>9. ASSUME ResetNormal PROVE LoadInv'
  <2>1. job.op \in {"load", "save", "remove"}
    BY <1>9, ResetNormalIs DEF Op
  <2> QED BY <1>9, <2>1, ResetNormalIs
<1>10. ASSUME LoadDone PROVE LoadInv'
  BY <1>10, LoadDoneIs, JobIs DEF JobInv
<1>11. ASSUME NEW f \in Fid, LoadNormal(f) PROVE LoadInv'
  <2>1. ram[f].fail = 0
    BY <1>11, LoadNormalIs, EntryIs DEF FailInv, Sound, Readable
  <2>2. ram' = ram
    BY <1>11, <2>1, ZeroFail DEF LoadNormal
  <2> QED BY <1>11, <2>1, <2>2, LoadNormalIs DEF JobOn
<1>12. ASSUME NEW f \in Fid, LoadBackup(f) PROVE LoadInv'
  <2>1. ram[f].fail = 0
    BY <1>12, LoadBackupIs, EntryIs DEF FailInv, Sound, Readable
  <2> QED BY <1>12, <2>1, LoadBackupIs DEF JobOn
<1>13. ASSUME NEW f \in Fid, LoadFailed(f) PROVE LoadInv'
  <2>1. \A g \in Fid \ {f} : ram'[g] = ram[g]
    BY <1>13, LoadFailedIs DEF Table
  <2> QED BY <1>13, <2>1, LoadFailedIs DEF JobOn
<1>14. ASSUME LoadRestore PROVE LoadInv'
  <2>1. ram' = ram
    BY <1>14, ZeroFail, LoadRestoreIs DEF LoadRestore
  <2> QED BY <1>14, <2>1, LoadRestoreIs
<1>15. ASSUME LoadDropBackup PROVE LoadInv'
  BY <1>15, LoadDropBackupIs, JobIs DEF JobInv
<1>16. ASSUME LoadSetsBackup PROVE LoadInv'
  BY <1>16, LoadSetsBackupIs, JobIs DEF JobInv
<1>17. ASSUME LoadDropNormal PROVE LoadInv'
  BY <1>17, LoadDropNormalIs, JobIs DEF JobInv
<1>18. ASSUME LoadSetsNormal PROVE LoadInv'
  BY <1>18, LoadSetsNormalIs, JobIs DEF JobInv
<1>19. ASSUME NEW f \in Fid, SaveFree(f) PROVE LoadInv'
  BY <1>19, SaveFreeIs DEF JobOn
<1>20. ASSUME NEW f \in Fid, SaveEvict(f) PROVE LoadInv'
  <2>1. PICK g \in Fid \ {f} : ram' = [ram EXCEPT ![g] = NoEntry] /\ ram[g].fail > 0
    BY <1>20, SaveEvictIs
  <2>2. \A h \in loaded : ram'[h] = ram[h]
    BY <2>1 DEF Table
  <2> QED BY <1>20, <2>2, SaveEvictIs DEF JobOn
<1>21. ASSUME SaveRefused PROVE LoadInv'
  BY <1>21, SaveRefusedIs, JobIs DEF JobInv
<1>22. ASSUME SaveTplBackup PROVE LoadInv'
  <2>1. \A g \in loaded : ram'[g] = ram[g]
    BY <1>22, SaveTplBackupIs DEF Table
  <2> QED BY <1>22, <2>1, SaveTplBackupIs
<1>23. ASSUME SaveSetsBackup PROVE LoadInv'
  BY <1>23, SaveSetsBackupIs, JobIs DEF JobInv
<1>24. ASSUME SaveUndo PROVE LoadInv'
  BY <1>24 DEF SaveUndo, DbInv, CopyInv
<1>25. ASSUME SaveDropNormal PROVE LoadInv'
  BY <1>25, SaveDropNormalIs, JobIs DEF JobInv
<1>26. ASSUME SaveSetsNormal PROVE LoadInv'
  BY <1>26, SaveSetsNormalIs, JobIs DEF JobInv
<1>27. ASSUME SaveTplNormal PROVE LoadInv'
  <2>1. ram[job.id].fail = 0 /\ ram[job.id].sum = job.data /\ job.data # NoData
    BY <1>27, SaveTplNormalIs, DataAssumption DEF GapInv, Mine, SaveGap, UpdateGap, ToldInv, ToldJob
  <2> QED BY <1>27, <2>1, JobIs, SaveTplNormalIs
<1>28. ASSUME UpdateLookup PROVE LoadInv'
  BY <1>28, UpdateLookupIs, JobIs DEF JobInv
<1>29. ASSUME UpdateTplBackup PROVE LoadInv'
  <2>1. ram[job.id].fail = 0 /\ job.data # NoData
    BY <1>29, UpdateTplBackupIs, DataAssumption DEF ToldInv, ToldJob
  <2>2. \A g \in Fid : g # job.id => ram'[g] = ram[g]
    BY <1>29, UpdateTplBackupIs DEF Table
  <2>3. ram'[job.id].fail = 0 /\ ram'[job.id].sum = job.data
    BY <1>29, <2>1, UpdateTplBackupIs DEF Table
  <2> QED BY <1>29, <2>1, <2>2, <2>3, UpdateTplBackupIs
<1>30. ASSUME UpdateSetsBackup PROVE LoadInv'
  BY <1>30, UpdateSetsBackupIs, JobIs DEF JobInv
<1>31. ASSUME UpdateSetsNormal PROVE LoadInv'
  BY <1>31, UpdateSetsNormalIs, JobIs DEF JobInv
<1>32. ASSUME UpdateTplNormal PROVE LoadInv'
  BY <1>32, UpdateTplNormalIs, JobIs DEF JobInv
<1>33. ASSUME RemoveLookup PROVE LoadInv'
  BY <1>33, RemoveLookupIs, JobIs DEF JobInv
<1>34. ASSUME RemoveSetsBackup PROVE LoadInv'
  <2>1. \A g \in Fid : g # job.id => ram'[g] = ram[g]
    BY <1>34, RemoveSetsBackupIs DEF Table
  <2>2. ram'[job.id].fail = 0
    BY <1>34, RemoveSetsBackupIs, WholeIs DEF Table
  <2> QED BY <1>34, <2>1, <2>2, RemoveSetsBackupIs
<1>35. ASSUME RemoveTplBackup PROVE LoadInv'
  BY <1>35, RemoveTplBackupIs, JobIs DEF JobInv
<1>36. ASSUME RemoveSetsNormal PROVE LoadInv'
  BY <1>36, RemoveSetsNormalIs, JobIs DEF JobInv
<1>37. ASSUME RemoveTplNormal PROVE LoadInv'
  BY <1>37, RemoveTplNormalIs, JobIs DEF JobInv
<1>38. ASSUME IncFailLookup PROVE LoadInv'
  BY <1>38 DEF IncFailLookup, TypeInv, Flow, ImageInv, JobInv, IncLabel
<1>39. ASSUME IncFailDrop PROVE LoadInv'
  BY <1>39 DEF IncFailDrop, TypeInv, Flow, ImageInv, JobInv, IncLabel
<1>40. ASSUME IncFailSets PROVE LoadInv'
  BY <1>40 DEF IncFailSets, TypeInv, Flow, ImageInv, JobInv, IncLabel
<1>41. ASSUME Crash PROVE LoadInv'
  BY <1>41, JobIs DEF Crash, Torn, faults, JobInv
<1>42. ASSUME NEW f \in Fid, Rot(f) PROVE LoadInv'
  BY <1>42, JobIs DEF Rot, JobInv
<1>43. ASSUME UNCHANGED vars PROVE LoadInv'
  BY <1>43, JobIs DEF vars, JobInv
<1> QED
  BY <1>1, <1>2, <1>3, <1>4, <1>5, <1>6, <1>7, <1>8, <1>9, <1>10, <1>11, <1>12, <1>13,
     <1>14, <1>15, <1>16, <1>17, <1>18, <1>19, <1>20, <1>21, <1>22, <1>23, <1>24, <1>25, <1>26,
     <1>27, <1>28, <1>29, <1>30, <1>31, <1>32, <1>33, <1>34, <1>35, <1>36, <1>37, <1>38, <1>39,
     <1>40, <1>41, <1>42, <1>43
     DEF Next, ClientCall, StoreStep, StoreInit, Load, Save, Update, Remove, IncFail

LEMMA OthersStep ==
  ASSUME NoErrors, TypeInv, ImageInv, DbInv, [Next]_vars
  PROVE  Others'
<1> Others /\ Mine /\ CopyInv /\ LoadInv /\ FailInv
  BY DEF DbInv, GapInv
<1> JobInv /\ Flow /\ DiskOK /\ ram \in Table
  BY DEF TypeInv, Flow
<1>1. ASSUME CallLoad PROVE Others'
  BY <1>1 DEF CallLoad, Call, disk, faults, Others, Ahead, LoadGap, SaveGap, UpdateGap, RemoveGap
<1>2. ASSUME NEW d \in Data, CallSave(d) PROVE Others'
  BY <1>2 DEF CallSave, Call, disk, faults, Others, Ahead, LoadGap, SaveGap, UpdateGap, RemoveGap
<1>3. ASSUME NEW f \in Fid, NEW d \in Data, CallUpdate(f, d) PROVE Others'
  BY <1>3 DEF CallUpdate, Call, disk, faults, Others, Ahead, LoadGap, SaveGap, UpdateGap, RemoveGap
<1>4. ASSUME NEW f \in Fid, CallRemove(f) PROVE Others'
  BY <1>4 DEF CallRemove, Call, disk, faults, Others, Ahead, LoadGap, SaveGap, UpdateGap, RemoveGap
<1>5. ASSUME NEW f \in Fid, CallIncFail(f) PROVE Others'
  BY <1>5 DEF CallIncFail, NoErrors, Others, Ahead, LoadGap, SaveGap, UpdateGap, RemoveGap
<1>6. ASSUME InitRead PROVE Others'
  BY <1>6, InitReadIs DEF Others, Ahead, LoadGap, SaveGap, UpdateGap, RemoveGap, Op
<1>7. ASSUME InitRestore PROVE Others'
  BY <1>7, InitRestoreIs DEF Others, Ahead, LoadGap, SaveGap, UpdateGap, RemoveGap, Op
<1>8. ASSUME ResetBackup PROVE Others'
  BY <1>8, ResetBackupIs DEF Others, Ahead, LoadGap, SaveGap, UpdateGap, RemoveGap
<1>9. ASSUME ResetNormal PROVE Others'
  BY <1>9, ResetNormalIs DEF Others, Ahead, LoadGap, SaveGap, UpdateGap, RemoveGap, Op
<1>10. ASSUME LoadDone PROVE Others'
  BY <1>10, LoadDoneIs DEF Others, Ahead, LoadGap, SaveGap, UpdateGap, RemoveGap
<1>11. ASSUME NEW f \in Fid, LoadNormal(f) PROVE Others'
  <2>1. ram[f].fail = 0
    BY <1>11, LoadNormalIs, EntryIs DEF FailInv, Sound, Readable, LoadInv
  <2>2. pc' = "load"
    BY <1>11, <2>1, LoadNormalIs
  <2> QED BY <2>2 DEF Others, Ahead, LoadGap, SaveGap, UpdateGap, RemoveGap
<1>12. ASSUME NEW f \in Fid, LoadBackup(f) PROVE Others'
  BY <1>12, LoadBackupIs DEF Others, Ahead, LoadGap, SaveGap, UpdateGap, RemoveGap
<1>13. ASSUME NEW f \in Fid, LoadFailed(f) PROVE Others'
  <2>1. setsN' = setsN /\ setsN.tbl = ram
    BY <1>13, LoadFailedIs, WholeIs DEF CopyInv, Synced
  <2>2. \A g \in Fid \ {job'.id} : ram'[g] = ram[g]
    BY <1>13, LoadFailedIs DEF Table, JobOn
  <2> QED BY <2>1, <2>2 DEF Others
<1>14. ASSUME LoadRestore PROVE Others'
  <2>1. ram[job.id].fail = 0
    BY <1>14, LoadRestoreIs DEF LoadInv
  <2>2. pc' = "load"
    BY <1>14, <2>1, LoadRestoreIs
  <2> QED BY <2>2 DEF Others, Ahead, LoadGap, SaveGap, UpdateGap, RemoveGap
<1>15. ASSUME LoadDropBackup PROVE Others'
  <2>1. pc \in Ahead /\ (pc \in SaveLabel => pc' \in SaveLabel)
    BY <1>15, LoadDropBackupIs DEF Ahead, LoadGap, SaveGap, UpdateGap, RemoveGap, SaveLabel
  <2>2. \A g \in Fid \ {job.id} : /\ ram'[g] = ram[g]
                                  /\ tplN'[g] \in {tplN[g], NoData}
                                  /\ tplB'[g] \in {tplB[g], NoData}
    BY <1>15, LoadDropBackupIs DEF Table, DiskOK
  <2> QED BY <1>15, LoadDropBackupIs, <2>1, <2>2, OthersStay
<1>16. ASSUME LoadSetsBackup PROVE Others'
  <2>1. pc \in Ahead /\ (pc \in SaveLabel => pc' \in SaveLabel)
    BY <1>16, LoadSetsBackupIs DEF Ahead, LoadGap, SaveGap, UpdateGap, RemoveGap, SaveLabel
  <2>2. \A g \in Fid \ {job.id} : /\ ram'[g] = ram[g]
                                  /\ tplN'[g] \in {tplN[g], NoData}
                                  /\ tplB'[g] \in {tplB[g], NoData}
    BY <1>16, LoadSetsBackupIs DEF Table, DiskOK
  <2> QED BY <1>16, LoadSetsBackupIs, <2>1, <2>2, OthersStay
<1>17. ASSUME LoadDropNormal PROVE Others'
  <2>1. pc \in Ahead /\ (pc \in SaveLabel => pc' \in SaveLabel)
    BY <1>17, LoadDropNormalIs DEF Ahead, LoadGap, SaveGap, UpdateGap, RemoveGap, SaveLabel
  <2>2. \A g \in Fid \ {job.id} : /\ ram'[g] = ram[g]
                                  /\ tplN'[g] \in {tplN[g], NoData}
                                  /\ tplB'[g] \in {tplB[g], NoData}
    BY <1>17, LoadDropNormalIs DEF Table, DiskOK
  <2> QED BY <1>17, LoadDropNormalIs, <2>1, <2>2, OthersStay
<1>18. ASSUME LoadSetsNormal PROVE Others'
  BY <1>18, LoadSetsNormalIs DEF Others, Ahead, LoadGap, SaveGap, UpdateGap, RemoveGap
<1>19. ASSUME NEW f \in Fid, SaveFree(f) PROVE Others'
  <2>1. setsN' = setsN /\ setsN.tbl = ram
    BY <1>19, SaveFreeIs, WholeIs DEF CopyInv, Synced
  <2>2. \A g \in Fid \ {job'.id} : ram'[g] = ram[g]
    BY <1>19, SaveFreeIs DEF Table, JobOn
  <2> QED BY <2>1, <2>2 DEF Others
<1>20. ASSUME NEW f \in Fid, SaveEvict(f) PROVE Others'
  <2>1. setsN' = setsN /\ setsN.tbl = ram
    BY <1>20, SaveEvictIs, WholeIs DEF CopyInv, Synced
  <2>2. PICK g \in Fid \ {f} : /\ ram[g].fail > 0 /\ ram' = [ram EXCEPT ![g] = NoEntry]
                             /\ tplB' = [tplB EXCEPT ![g] = NoData]
    BY <1>20, SaveEvictIs
  <2>3. ~Readable(setsN.tbl, g)'
    BY <1>20, SaveEvictIs, <2>1, <2>2 DEF FailInv, Sound, Readable, DiskOK
  <2>4. ram'[g] = NoEntry /\ \A h \in Fid \ {g} : ram'[h] = ram[h]
    BY <2>2 DEF Table
  <2>5. pc' \in SaveLabel
    BY <1>20, SaveEvictIs DEF SaveLabel
  <2> QED BY <2>1, <2>3, <2>4, <2>5 DEF Others
<1>21. ASSUME SaveRefused PROVE Others'
  BY <1>21, SaveRefusedIs DEF Others, Ahead, LoadGap, SaveGap, UpdateGap, RemoveGap
<1>22. ASSUME SaveTplBackup PROVE Others'
  <2>1. pc \in Ahead /\ (pc \in SaveLabel => pc' \in SaveLabel)
    BY <1>22, SaveTplBackupIs DEF Ahead, LoadGap, SaveGap, UpdateGap, RemoveGap, SaveLabel
  <2>2. \A g \in Fid \ {job.id} : /\ ram'[g] = ram[g]
                                  /\ tplN'[g] \in {tplN[g], NoData}
                                  /\ tplB'[g] \in {tplB[g], NoData}
    BY <1>22, SaveTplBackupIs DEF Table, DiskOK
  <2> QED BY <1>22, SaveTplBackupIs, <2>1, <2>2, OthersStay
<1>23. ASSUME SaveSetsBackup PROVE Others'
  <2>1. pc \in Ahead /\ (pc \in SaveLabel => pc' \in SaveLabel)
    BY <1>23, SaveSetsBackupIs DEF Ahead, LoadGap, SaveGap, UpdateGap, RemoveGap, SaveLabel
  <2>2. \A g \in Fid \ {job.id} : /\ ram'[g] = ram[g]
                                  /\ tplN'[g] \in {tplN[g], NoData}
                                  /\ tplB'[g] \in {tplB[g], NoData}
    BY <1>23, SaveSetsBackupIs DEF Table, DiskOK
  <2> QED BY <1>23, SaveSetsBackupIs, <2>1, <2>2, OthersStay
<1>24. ASSUME SaveUndo PROVE Others'
  BY <1>24 DEF SaveUndo, DbInv, CopyInv
<1>25. ASSUME SaveDropNormal PROVE Others'
  <2>1. pc \in Ahead /\ (pc \in SaveLabel => pc' \in SaveLabel)
    BY <1>25, SaveDropNormalIs DEF Ahead, LoadGap, SaveGap, UpdateGap, RemoveGap, SaveLabel
  <2>2. \A g \in Fid \ {job.id} : /\ ram'[g] = ram[g]
                                  /\ tplN'[g] \in {tplN[g], NoData}
                                  /\ tplB'[g] \in {tplB[g], NoData}
    BY <1>25, SaveDropNormalIs DEF Table, DiskOK
  <2> QED BY <1>25, SaveDropNormalIs, <2>1, <2>2, OthersStay
<1>26. ASSUME SaveSetsNormal PROVE Others'
  BY <1>26, SaveSetsNormalIs DEF Others, Ahead, LoadGap, SaveGap, UpdateGap, RemoveGap
<1>27. ASSUME SaveTplNormal PROVE Others'
  BY <1>27, SaveTplNormalIs DEF Others, Ahead, LoadGap, SaveGap, UpdateGap, RemoveGap
<1>28. ASSUME UpdateLookup PROVE Others'
  BY <1>28, UpdateLookupIs DEF Others, Ahead, LoadGap, SaveGap, UpdateGap, RemoveGap
<1>29. ASSUME UpdateTplBackup PROVE Others'
  <2>1. setsN' = setsN /\ setsN.tbl = ram
    BY <1>29, UpdateTplBackupIs, WholeIs DEF CopyInv, Synced
  <2>2. \A g \in Fid \ {job'.id} : ram'[g] = ram[g]
    BY <1>29, UpdateTplBackupIs DEF Table
  <2> QED BY <2>1, <2>2 DEF Others
<1>30. ASSUME UpdateSetsBackup PROVE Others'
  <2>1. pc \in Ahead /\ (pc \in SaveLabel => pc' \in SaveLabel)
    BY <1>30, UpdateSetsBackupIs DEF Ahead, LoadGap, SaveGap, UpdateGap, RemoveGap, SaveLabel
  <2>2. \A g \in Fid \ {job.id} : /\ ram'[g] = ram[g]
                                  /\ tplN'[g] \in {tplN[g], NoData}
                                  /\ tplB'[g] \in {tplB[g], NoData}
    BY <1>30, UpdateSetsBackupIs DEF Table, DiskOK
  <2> QED BY <1>30, UpdateSetsBackupIs, <2>1, <2>2, OthersStay
<1>31. ASSUME UpdateSetsNormal PROVE Others'
  BY <1>31, UpdateSetsNormalIs DEF Others, Ahead, LoadGap, SaveGap, UpdateGap, RemoveGap
<1>32. ASSUME UpdateTplNormal PROVE Others'
  BY <1>32, UpdateTplNormalIs DEF Others, Ahead, LoadGap, SaveGap, UpdateGap, RemoveGap
<1>33. ASSUME RemoveLookup PROVE Others'
  BY <1>33, RemoveLookupIs DEF Others, Ahead, LoadGap, SaveGap, UpdateGap, RemoveGap
<1>34. ASSUME RemoveSetsBackup PROVE Others'
  <2>1. setsN' = setsN /\ setsN.tbl = ram
    BY <1>34, RemoveSetsBackupIs, WholeIs DEF CopyInv, Synced
  <2>2. \A g \in Fid \ {job'.id} : ram'[g] = ram[g]
    BY <1>34, RemoveSetsBackupIs DEF Table
  <2> QED BY <2>1, <2>2 DEF Others
<1>35. ASSUME RemoveTplBackup PROVE Others'
  <2>1. pc \in Ahead /\ (pc \in SaveLabel => pc' \in SaveLabel)
    BY <1>35, RemoveTplBackupIs DEF Ahead, LoadGap, SaveGap, UpdateGap, RemoveGap, SaveLabel
  <2>2. \A g \in Fid \ {job.id} : /\ ram'[g] = ram[g]
                                  /\ tplN'[g] \in {tplN[g], NoData}
                                  /\ tplB'[g] \in {tplB[g], NoData}
    BY <1>35, RemoveTplBackupIs DEF Table, DiskOK
  <2> QED BY <1>35, RemoveTplBackupIs, <2>1, <2>2, OthersStay
<1>36. ASSUME RemoveSetsNormal PROVE Others'
  BY <1>36, RemoveSetsNormalIs DEF Others, Ahead, LoadGap, SaveGap, UpdateGap, RemoveGap
<1>37. ASSUME RemoveTplNormal PROVE Others'
  BY <1>37, RemoveTplNormalIs DEF Others, Ahead, LoadGap, SaveGap, UpdateGap, RemoveGap
<1>38. ASSUME IncFailLookup PROVE Others'
  BY <1>38 DEF IncFailLookup, TypeInv, Flow, ImageInv, JobInv, IncLabel
<1>39. ASSUME IncFailDrop PROVE Others'
  BY <1>39 DEF IncFailDrop, TypeInv, Flow, ImageInv, JobInv, IncLabel
<1>40. ASSUME IncFailSets PROVE Others'
  BY <1>40 DEF IncFailSets, TypeInv, Flow, ImageInv, JobInv, IncLabel
<1>41. ASSUME Crash PROVE Others'
  BY <1>41 DEF Crash, Torn, faults, Others, Ahead, LoadGap, SaveGap, UpdateGap, RemoveGap
<1>42. ASSUME NEW f \in Fid, Rot(f) PROVE Others'
  <2>1. pc' = pc /\ job' = job /\ setsN' = setsN /\ ram' = ram
    BY <1>42 DEF Rot
  <2>2. \A g \in Fid : tplN'[g] \in {tplN[g], NoData} /\ tplB'[g] \in {tplB[g], NoData}
    BY <1>42 DEF Rot, DiskOK
  <2>3. CASE pc \in Ahead
    BY <2>1, <2>2, <2>3, OthersStay
  <2>4. CASE pc \notin Ahead
    BY <2>1, <2>4 DEF Others
  <2> QED BY <2>3, <2>4
<1>43. ASSUME UNCHANGED vars PROVE Others'
  BY <1>43 DEF vars, Others, Readable
<1> QED
  BY <1>1, <1>2, <1>3, <1>4, <1>5, <1>6, <1>7, <1>8, <1>9, <1>10, <1>11, <1>12, <1>13,
     <1>14, <1>15, <1>16, <1>17, <1>18, <1>19, <1>20, <1>21, <1>22, <1>23, <1>24, <1>25, <1>26,
     <1>27, <1>28, <1>29, <1>30, <1>31, <1>32, <1>33, <1>34, <1>35, <1>36, <1>37, <1>38, <1>39,
     <1>40, <1>41, <1>42, <1>43
     DEF Next, ClientCall, StoreStep, StoreInit, Load, Save, Update, Remove, IncFail

LEMMA MineStep ==
  ASSUME NoErrors, TypeInv, ImageInv, DbInv, [Next]_vars
  PROVE  Mine'
<1> Others /\ Mine /\ CopyInv /\ LoadInv /\ FailInv
  BY DEF DbInv, GapInv
<1> JobInv /\ Flow /\ DiskOK /\ ram \in Table
  BY DEF TypeInv, Flow
<1>1. ASSUME CallLoad PROVE Mine'
  BY <1>1 DEF CallLoad, Call, disk, faults, Mine, Ahead, LoadGap, SaveGap, UpdateGap, RemoveGap
<1>2. ASSUME NEW d \in Data, CallSave(d) PROVE Mine'
  BY <1>2 DEF CallSave, Call, disk, faults, Mine, Ahead, LoadGap, SaveGap, UpdateGap, RemoveGap
<1>3. ASSUME NEW f \in Fid, NEW d \in Data, CallUpdate(f, d) PROVE Mine'
  BY <1>3 DEF CallUpdate, Call, disk, faults, Mine, Ahead, LoadGap, SaveGap, UpdateGap, RemoveGap
<1>4. ASSUME NEW f \in Fid, CallRemove(f) PROVE Mine'
  BY <1>4 DEF CallRemove, Call, disk, faults, Mine, Ahead, LoadGap, SaveGap, UpdateGap, RemoveGap
<1>5. ASSUME NEW f \in Fid, CallIncFail(f) PROVE Mine'
  BY <1>5 DEF CallIncFail, NoErrors, Mine, Ahead, LoadGap, SaveGap, UpdateGap, RemoveGap
<1>6. ASSUME InitRead PROVE Mine'
  BY <1>6, InitReadIs DEF Mine, Ahead, LoadGap, SaveGap, UpdateGap, RemoveGap, Op
<1>7. ASSUME InitRestore PROVE Mine'
  BY <1>7, InitRestoreIs DEF Mine, Ahead, LoadGap, SaveGap, UpdateGap, RemoveGap, Op
<1>8. ASSUME ResetBackup PROVE Mine'
  BY <1>8, ResetBackupIs DEF Mine, Ahead, LoadGap, SaveGap, UpdateGap, RemoveGap
<1>9. ASSUME ResetNormal PROVE Mine'
  BY <1>9, ResetNormalIs DEF Mine, Ahead, LoadGap, SaveGap, UpdateGap, RemoveGap, Op
<1>10. ASSUME LoadDone PROVE Mine'
  BY <1>10, LoadDoneIs DEF Mine, Ahead, LoadGap, SaveGap, UpdateGap, RemoveGap
<1>11. ASSUME NEW f \in Fid, LoadNormal(f) PROVE Mine'
  <2>1. ram[f].fail = 0
    BY <1>11, LoadNormalIs, EntryIs DEF FailInv, Sound, Readable, LoadInv
  <2>2. pc' = "load"
    BY <1>11, <2>1, LoadNormalIs
  <2> QED BY <2>2 DEF Mine, Ahead, LoadGap, SaveGap, UpdateGap, RemoveGap
<1>12. ASSUME NEW f \in Fid, LoadBackup(f) PROVE Mine'
  BY <1>12, LoadBackupIs DEF Mine, Ahead, LoadGap, SaveGap, UpdateGap, RemoveGap
<1>13. ASSUME NEW f \in Fid, LoadFailed(f) PROVE Mine'
  <2>1. setsN' = setsN /\ setsN.tbl = ram
    BY <1>13, LoadFailedIs, WholeIs DEF CopyInv, Synced
  <2>2. ~Readable(setsN.tbl, f)'
    BY <1>13, LoadFailedIs, <2>1 DEF Readable
  <2>3. /\ pc' \in {"load_setsB", "load_rmB"} /\ job'.id = f
        /\ ram'[f].sum \in {NoData, ram[f].sum}
    BY <1>13, LoadFailedIs, WholeIs DEF Table, JobOn
  <2> QED BY <2>1, <2>2, <2>3 DEF Mine, LoadGap, SaveGap, UpdateGap, RemoveGap
<1>14. ASSUME LoadRestore PROVE Mine'
  <2>1. ram[job.id].fail = 0
    BY <1>14, LoadRestoreIs DEF LoadInv
  <2>2. pc' = "load"
    BY <1>14, <2>1, LoadRestoreIs
  <2> QED BY <2>2 DEF Mine, Ahead, LoadGap, SaveGap, UpdateGap, RemoveGap
<1>15. ASSUME LoadDropBackup PROVE Mine'
  <2>1. ~Readable(setsN.tbl, job.id)'
    BY <1>15, LoadDropBackupIs DEF Mine, LoadGap, Readable, DiskOK
  <2>2. /\ pc \in LoadGap /\ pc' \in LoadGap  /\ job' = job
        /\ setsN' = setsN /\ ram' = ram
    BY <1>15, LoadDropBackupIs, WholeIs DEF Mine, LoadGap
  <2> QED BY <2>1, <2>2 DEF Mine, LoadGap, SaveGap, UpdateGap, RemoveGap
<1>16. ASSUME LoadSetsBackup PROVE Mine'
  <2>1. ~Readable(setsN.tbl, job.id)'
    BY <1>16, LoadSetsBackupIs DEF Mine, LoadGap, Readable, DiskOK
  <2>2. /\ pc \in LoadGap /\ pc' \in LoadGap  /\ job' = job
        /\ setsN' = setsN /\ ram' = ram
    BY <1>16, LoadSetsBackupIs, WholeIs DEF Mine, LoadGap
  <2> QED BY <2>1, <2>2 DEF Mine, LoadGap, SaveGap, UpdateGap, RemoveGap
<1>17. ASSUME LoadDropNormal PROVE Mine'
  <2>1. ~Readable(setsN.tbl, job.id)'
    BY <1>17, LoadDropNormalIs DEF Mine, LoadGap, Readable, DiskOK
  <2>2. /\ pc \in LoadGap /\ pc' \in LoadGap  /\ job' = job
        /\ setsN' = setsN /\ ram' = ram
    BY <1>17, LoadDropNormalIs, WholeIs DEF Mine, LoadGap
  <2> QED BY <2>1, <2>2 DEF Mine, LoadGap, SaveGap, UpdateGap, RemoveGap
<1>18. ASSUME LoadSetsNormal PROVE Mine'
  BY <1>18, LoadSetsNormalIs DEF Mine, Ahead, LoadGap, SaveGap, UpdateGap, RemoveGap
<1>19. ASSUME NEW f \in Fid, SaveFree(f) PROVE Mine'
  <2>1. setsN' = setsN /\ setsN.tbl = ram
    BY <1>19, SaveFreeIs, WholeIs DEF CopyInv, Synced
  <2>2. pc' = "save_tplB" /\ job'.id = f /\ ram[f].sum = NoData /\ ram'[f].sum = NoData
    BY <1>19, SaveFreeIs DEF Table, JobOn
  <2> QED BY <2>1, <2>2 DEF Mine, LoadGap, SaveGap, UpdateGap, RemoveGap
<1>20. ASSUME NEW f \in Fid, SaveEvict(f) PROVE Mine'
  <2>1. setsN' = setsN /\ setsN.tbl = ram
    BY <1>20, SaveEvictIs, WholeIs DEF CopyInv, Synced
  <2>2. pc' = "save_tplB" /\ job'.id = f /\ ram[f].sum = NoData /\ ram'[f].sum = NoData
    BY <1>20, SaveEvictIs DEF Table, JobOn
  <2> QED BY <2>1, <2>2 DEF Mine, LoadGap, SaveGap, UpdateGap, RemoveGap
<1>21. ASSUME SaveRefused PROVE Mine'
  BY <1>21, SaveRefusedIs DEF Mine, Ahead, LoadGap, SaveGap, UpdateGap, RemoveGap
<1>22. ASSUME SaveTplBackup PROVE Mine'
  <2>1. /\ pc' = "save_setsB" /\ job' = job /\ setsN' = setsN
        /\ ram'[job.id] = [sum |-> job.data, fail |-> 0] /\ setsN.tbl[job.id].sum = NoData
    BY <1>22, SaveTplBackupIs DEF Table, Mine
  <2> QED BY <2>1 DEF Mine, LoadGap, SaveGap, UpdateGap, RemoveGap
<1>23. ASSUME SaveSetsBackup PROVE Mine'
  BY <1>23, SaveSetsBackupIs DEF Mine, Ahead, LoadGap, SaveGap, UpdateGap, RemoveGap
<1>24. ASSUME SaveUndo PROVE Mine'
  BY <1>24 DEF SaveUndo, DbInv, CopyInv
<1>25. ASSUME SaveDropNormal PROVE Mine'
  BY <1>25, SaveDropNormalIs DEF Mine, Ahead, LoadGap, SaveGap, UpdateGap, RemoveGap
<1>26. ASSUME SaveSetsNormal PROVE Mine'
  BY <1>26, SaveSetsNormalIs DEF Mine, Ahead, LoadGap, SaveGap, UpdateGap, RemoveGap
<1>27. ASSUME SaveTplNormal PROVE Mine'
  BY <1>27, SaveTplNormalIs DEF Mine, Ahead, LoadGap, SaveGap, UpdateGap, RemoveGap
<1>28. ASSUME UpdateLookup PROVE Mine'
  BY <1>28, UpdateLookupIs DEF Mine, Ahead, LoadGap, SaveGap, UpdateGap, RemoveGap
<1>29. ASSUME UpdateTplBackup PROVE Mine'
  <2>1. ram[job.id].fail = 0
    BY <1>29, UpdateTplBackupIs DEF LoadInv
  <2>2. /\ pc' = "upd_setsB" /\ job' = job /\ setsN' = setsN
        /\ ram'[job.id] = [sum |-> job.data, fail |-> 0]
    BY <1>29, <2>1, UpdateTplBackupIs DEF Table
  <2> QED BY <2>2 DEF Mine, LoadGap, SaveGap, UpdateGap, RemoveGap
<1>30. ASSUME UpdateSetsBackup PROVE Mine'
  BY <1>30, UpdateSetsBackupIs DEF Mine, Ahead, LoadGap, SaveGap, UpdateGap, RemoveGap
<1>31. ASSUME UpdateSetsNormal PROVE Mine'
  BY <1>31, UpdateSetsNormalIs DEF Mine, Ahead, LoadGap, SaveGap, UpdateGap, RemoveGap
<1>32. ASSUME UpdateTplNormal PROVE Mine'
  BY <1>32, UpdateTplNormalIs DEF Mine, Ahead, LoadGap, SaveGap, UpdateGap, RemoveGap
<1>33. ASSUME RemoveLookup PROVE Mine'
  BY <1>33, RemoveLookupIs DEF Mine, Ahead, LoadGap, SaveGap, UpdateGap, RemoveGap
<1>34. ASSUME RemoveSetsBackup PROVE Mine'
  <2>1. pc' = "rm_tplB" /\ job' = job /\ ram'[job.id] = NoEntry
    BY <1>34, RemoveSetsBackupIs DEF Table
  <2> QED BY <2>1 DEF Mine, LoadGap, SaveGap, UpdateGap, RemoveGap
<1>35. ASSUME RemoveTplBackup PROVE Mine'
  BY <1>35, RemoveTplBackupIs DEF Mine, Ahead, LoadGap, SaveGap, UpdateGap, RemoveGap
<1>36. ASSUME RemoveSetsNormal PROVE Mine'
  BY <1>36, RemoveSetsNormalIs DEF Mine, Ahead, LoadGap, SaveGap, UpdateGap, RemoveGap
<1>37. ASSUME RemoveTplNormal PROVE Mine'
  BY <1>37, RemoveTplNormalIs DEF Mine, Ahead, LoadGap, SaveGap, UpdateGap, RemoveGap
<1>38. ASSUME IncFailLookup PROVE Mine'
  BY <1>38 DEF IncFailLookup, TypeInv, Flow, ImageInv, JobInv, IncLabel
<1>39. ASSUME IncFailDrop PROVE Mine'
  BY <1>39 DEF IncFailDrop, TypeInv, Flow, ImageInv, JobInv, IncLabel
<1>40. ASSUME IncFailSets PROVE Mine'
  BY <1>40 DEF IncFailSets, TypeInv, Flow, ImageInv, JobInv, IncLabel
<1>41. ASSUME Crash PROVE Mine'
  BY <1>41 DEF Crash, Torn, faults, Mine, Ahead, LoadGap, SaveGap, UpdateGap, RemoveGap
<1>42. ASSUME NEW f \in Fid, Rot(f) PROVE Mine'
  <2>1. pc' = pc /\ job' = job /\ setsN' = setsN /\ ram' = ram
    BY <1>42 DEF Rot
  <2>2. job.id \in Fid /\ ~Readable(setsN.tbl, job.id) => ~Readable(setsN.tbl, job.id)'
    BY <1>42 DEF Rot, DiskOK, Readable
  <2>3. pc \in LoadGap => job.id \in Fid
    BY DEF JobInv, LoadGap, LoadLabel
  <2> QED BY <2>1, <2>2, <2>3 DEF Mine, Readable
<1>43. ASSUME UNCHANGED vars PROVE Mine'
  BY <1>43 DEF vars, Mine, Readable
<1> QED
  BY <1>1, <1>2, <1>3, <1>4, <1>5, <1>6, <1>7, <1>8, <1>9, <1>10, <1>11, <1>12, <1>13,
     <1>14, <1>15, <1>16, <1>17, <1>18, <1>19, <1>20, <1>21, <1>22, <1>23, <1>24, <1>25, <1>26,
     <1>27, <1>28, <1>29, <1>30, <1>31, <1>32, <1>33, <1>34, <1>35, <1>36, <1>37, <1>38, <1>39,
     <1>40, <1>41, <1>42, <1>43
     DEF Next, ClientCall, StoreStep, StoreInit, Load, Save, Update, Remove, IncFail

LEMMA FailStep ==
  ASSUME NoErrors, TypeInv, ImageInv, DbInv, [Next]_vars
  PROVE  FailInv'
<1> FailInv /\ CopyInv /\ GapInv /\ LoadInv
  BY DEF DbInv
<1> JobInv /\ Flow /\ DiskOK /\ ram \in Table
  BY DEF TypeInv, Flow
<1>0. Source' = Source \/ Source' = ram
  BY SourceStep
<1>1. ASSUME CallLoad PROVE FailInv'
  BY <1>1, <1>0 DEF CallLoad, Call, disk, faults, FailInv, Sound, Readable
<1>2. ASSUME NEW d \in Data, CallSave(d) PROVE FailInv'
  BY <1>2, <1>0 DEF CallSave, Call, disk, faults, FailInv, Sound, Readable
<1>3. ASSUME NEW f \in Fid, NEW d \in Data, CallUpdate(f, d) PROVE FailInv'
  BY <1>3, <1>0 DEF CallUpdate, Call, disk, faults, FailInv, Sound, Readable
<1>4. ASSUME NEW f \in Fid, CallRemove(f) PROVE FailInv'
  BY <1>4, <1>0 DEF CallRemove, Call, disk, faults, FailInv, Sound, Readable
<1>5. ASSUME NEW f \in Fid, CallIncFail(f) PROVE FailInv'
  BY <1>5, <1>0 DEF CallIncFail, NoErrors, FailInv, Sound, Readable
<1>6. ASSUME InitRead PROVE FailInv'
  BY <1>6, InitReadIs, <1>0 DEF FailInv, Sound, Readable
<1>7. ASSUME InitRestore PROVE FailInv'
  BY <1>7, InitRestoreIs, <1>0 DEF FailInv, Sound, Readable
<1>8. ASSUME ResetBackup PROVE FailInv'
  BY <1>8, ResetBackupIs, <1>0 DEF FailInv, Sound, Readable
<1>9. ASSUME ResetNormal PROVE FailInv'
  BY <1>9, ResetNormalIs, <1>0 DEF FailInv, Sound, Readable
<1>10. ASSUME LoadDone PROVE FailInv'
  BY <1>10, LoadDoneIs, <1>0 DEF FailInv, Sound, Readable
<1>11. ASSUME NEW f \in Fid, LoadNormal(f) PROVE FailInv'
  <2>1. \A g \in Fid : \/ tplN'[g] \in {tplN[g], NoData} /\ tplB'[g] \in {tplB[g], NoData}
                       \/ Unblamed(ram, g) /\ Unblamed(Source, g)
    BY <1>11, LoadNormalIs
  <2>2. \A g \in Fid : \/ ram'[g] = ram[g]
                       \/ ram'[g].fail = 0
                       \/ ram'[g].sum \notin {tplN'[g], tplB'[g]}
    BY <1>11, LoadNormalIs DEF Table
  <2> QED BY <1>0, <2>1, <2>2, EntryIs, FailKept
<1>12. ASSUME NEW f \in Fid, LoadBackup(f) PROVE FailInv'
  BY <1>12, LoadBackupIs, <1>0 DEF FailInv, Sound, Readable
<1>13. ASSUME NEW f \in Fid, LoadFailed(f) PROVE FailInv'
  <2>1. \A g \in Fid : \/ tplN'[g] \in {tplN[g], NoData} /\ tplB'[g] \in {tplB[g], NoData}
                       \/ Unblamed(ram, g) /\ Unblamed(Source, g)
    BY <1>13, LoadFailedIs
  <2>2. \A g \in Fid : \/ ram'[g] = ram[g]
                       \/ ram'[g].fail = 0
                       \/ ram'[g].sum \notin {tplN'[g], tplB'[g]}
    BY <1>13, LoadFailedIs, WholeIs DEF Table
  <2> QED BY <1>0, <2>1, <2>2, EntryIs, FailKept
<1>14. ASSUME LoadRestore PROVE FailInv'
  <2>0. Unblamed(ram, job.id) /\ Unblamed(Source, job.id)
    <3>1. Source = ram
      BY <1>14, LoadRestoreIs, WholeIs DEF CopyInv, Synced, Source
    <3>2. ram[job.id].fail = 0
      BY <1>14, LoadRestoreIs DEF LoadInv
    <3> QED BY <3>1, <3>2 DEF Unblamed
  <2>1. \A g \in Fid : \/ tplN'[g] \in {tplN[g], NoData} /\ tplB'[g] \in {tplB[g], NoData}
                       \/ Unblamed(ram, g) /\ Unblamed(Source, g)
    BY <1>14, LoadRestoreIs, <2>0 DEF DiskOK, Unblamed
  <2>2. \A g \in Fid : \/ ram'[g] = ram[g]
                       \/ ram'[g].fail = 0
                       \/ ram'[g].sum \notin {tplN'[g], tplB'[g]}
    BY <1>14, LoadRestoreIs DEF Table
  <2> QED BY <1>0, <2>1, <2>2, EntryIs, FailKept
<1>15. ASSUME LoadDropBackup PROVE FailInv'
  <2>1. \A g \in Fid : \/ tplN'[g] \in {tplN[g], NoData} /\ tplB'[g] \in {tplB[g], NoData}
                       \/ Unblamed(ram, g) /\ Unblamed(Source, g)
    BY <1>15, LoadDropBackupIs DEF DiskOK
  <2>2. \A g \in Fid : \/ ram'[g] = ram[g]
                       \/ ram'[g].fail = 0
                       \/ ram'[g].sum \notin {tplN'[g], tplB'[g]}
    BY <1>15, LoadDropBackupIs
  <2> QED BY <1>0, <2>1, <2>2, EntryIs, FailKept
<1>16. ASSUME LoadSetsBackup PROVE FailInv'
  BY <1>16, LoadSetsBackupIs, <1>0 DEF FailInv, Sound, Readable
<1>17. ASSUME LoadDropNormal PROVE FailInv'
  <2>1. \A g \in Fid : \/ tplN'[g] \in {tplN[g], NoData} /\ tplB'[g] \in {tplB[g], NoData}
                       \/ Unblamed(ram, g) /\ Unblamed(Source, g)
    BY <1>17, LoadDropNormalIs DEF DiskOK
  <2>2. \A g \in Fid : \/ ram'[g] = ram[g]
                       \/ ram'[g].fail = 0
                       \/ ram'[g].sum \notin {tplN'[g], tplB'[g]}
    BY <1>17, LoadDropNormalIs
  <2> QED BY <1>0, <2>1, <2>2, EntryIs, FailKept
<1>18. ASSUME LoadSetsNormal PROVE FailInv'
  BY <1>18, LoadSetsNormalIs, <1>0 DEF FailInv, Sound, Readable
<1>19. ASSUME NEW f \in Fid, SaveFree(f) PROVE FailInv'
  BY <1>19, SaveFreeIs, <1>0 DEF FailInv, Sound, Readable
<1>20. ASSUME NEW f \in Fid, SaveEvict(f) PROVE FailInv'
  <2>0. PICK v \in Fid : ram' = [ram EXCEPT ![v] = NoEntry] /\ tplB' = [tplB EXCEPT ![v] = NoData]
    BY <1>20, SaveEvictIs
  <2>1. \A g \in Fid : \/ tplN'[g] \in {tplN[g], NoData} /\ tplB'[g] \in {tplB[g], NoData}
                       \/ Unblamed(ram, g) /\ Unblamed(Source, g)
    BY <1>20, SaveEvictIs, <2>0 DEF DiskOK
  <2>2. \A g \in Fid : \/ ram'[g] = ram[g]
                       \/ ram'[g].fail = 0
                       \/ ram'[g].sum \notin {tplN'[g], tplB'[g]}
    BY <2>0, WholeIs DEF Table
  <2> QED BY <1>0, <2>1, <2>2, EntryIs, FailKept
<1>21. ASSUME SaveRefused PROVE FailInv'
  BY <1>21, SaveRefusedIs, <1>0 DEF FailInv, Sound, Readable
<1>22. ASSUME SaveTplBackup PROVE FailInv'
  <2>0. Unblamed(ram, job.id) /\ Unblamed(Source, job.id)
    BY <1>22, SaveTplBackupIs DEF GapInv, Mine, SaveGap, ImageInv, InitLabel, Source, Unblamed
  <2>1. \A g \in Fid : \/ tplN'[g] \in {tplN[g], NoData} /\ tplB'[g] \in {tplB[g], NoData}
                       \/ Unblamed(ram, g) /\ Unblamed(Source, g)
    BY <1>22, SaveTplBackupIs, <2>0 DEF DiskOK, Unblamed
  <2>2. \A g \in Fid : \/ ram'[g] = ram[g]
                       \/ ram'[g].fail = 0
                       \/ ram'[g].sum \notin {tplN'[g], tplB'[g]}
    BY <1>22, SaveTplBackupIs DEF Table
  <2> QED BY <1>0, <2>1, <2>2, EntryIs, FailKept
<1>23. ASSUME SaveSetsBackup PROVE FailInv'
  BY <1>23, SaveSetsBackupIs, <1>0 DEF FailInv, Sound, Readable
<1>24. ASSUME SaveUndo PROVE FailInv'
  BY <1>24 DEF SaveUndo, DbInv, CopyInv
<1>25. ASSUME SaveDropNormal PROVE FailInv'
  <2>1. \A g \in Fid : \/ tplN'[g] \in {tplN[g], NoData} /\ tplB'[g] \in {tplB[g], NoData}
                       \/ Unblamed(ram, g) /\ Unblamed(Source, g)
    BY <1>25, SaveDropNormalIs DEF DiskOK
  <2>2. \A g \in Fid : \/ ram'[g] = ram[g]
                       \/ ram'[g].fail = 0
                       \/ ram'[g].sum \notin {tplN'[g], tplB'[g]}
    BY <1>25, SaveDropNormalIs
  <2> QED BY <1>0, <2>1, <2>2, EntryIs, FailKept
<1>26. ASSUME SaveSetsNormal PROVE FailInv'
  BY <1>26, SaveSetsNormalIs, <1>0 DEF FailInv, Sound, Readable
<1>27. ASSUME SaveTplNormal PROVE FailInv'
  <2>0. Unblamed(ram, job.id) /\ Unblamed(Source, job.id)
    <3>1. Source = ram
      BY <1>27, SaveTplNormalIs, WholeIs DEF CopyInv, Synced, Source
    <3>2. ram[job.id].fail = 0
      BY <1>27, SaveTplNormalIs DEF GapInv, Mine
    <3> QED BY <3>1, <3>2 DEF Unblamed
  <2>1. \A g \in Fid : \/ tplN'[g] \in {tplN[g], NoData} /\ tplB'[g] \in {tplB[g], NoData}
                       \/ Unblamed(ram, g) /\ Unblamed(Source, g)
    BY <1>27, SaveTplNormalIs, <2>0 DEF DiskOK, Unblamed
  <2>2. \A g \in Fid : \/ ram'[g] = ram[g]
                       \/ ram'[g].fail = 0
                       \/ ram'[g].sum \notin {tplN'[g], tplB'[g]}
    BY <1>27, SaveTplNormalIs
  <2> QED BY <1>0, <2>1, <2>2, EntryIs, FailKept
<1>28. ASSUME UpdateLookup PROVE FailInv'
  BY <1>28, UpdateLookupIs, <1>0 DEF FailInv, Sound, Readable
<1>29. ASSUME UpdateTplBackup PROVE FailInv'
  <2>0. Unblamed(ram, job.id) /\ Unblamed(Source, job.id)
    <3>1. Source = ram
      BY <1>29, UpdateTplBackupIs, WholeIs DEF CopyInv, Synced, Source
    <3>2. ram[job.id].fail = 0
      BY <1>29, UpdateTplBackupIs DEF LoadInv
    <3> QED BY <3>1, <3>2 DEF Unblamed
  <2>3. ram[job.id].fail = 0
    BY <1>29, UpdateTplBackupIs DEF LoadInv
  <2>1. \A g \in Fid : \/ tplN'[g] \in {tplN[g], NoData} /\ tplB'[g] \in {tplB[g], NoData}
                       \/ Unblamed(ram, g) /\ Unblamed(Source, g)
    BY <1>29, UpdateTplBackupIs, <2>0 DEF DiskOK, Unblamed
  <2>2. \A g \in Fid : \/ ram'[g] = ram[g]
                       \/ ram'[g].fail = 0
                       \/ ram'[g].sum \notin {tplN'[g], tplB'[g]}
    BY <1>29, UpdateTplBackupIs, <2>3 DEF Table
  <2> QED BY <1>0, <2>1, <2>2, EntryIs, FailKept
<1>30. ASSUME UpdateSetsBackup PROVE FailInv'
  BY <1>30, UpdateSetsBackupIs, <1>0 DEF FailInv, Sound, Readable
<1>31. ASSUME UpdateSetsNormal PROVE FailInv'
  BY <1>31, UpdateSetsNormalIs, <1>0 DEF FailInv, Sound, Readable
<1>32. ASSUME UpdateTplNormal PROVE FailInv'
  <2>0. Unblamed(ram, job.id) /\ Unblamed(Source, job.id)
    <3>1. Source = ram
      BY <1>32, UpdateTplNormalIs, WholeIs DEF CopyInv, Synced, Source
    <3>2. ram[job.id].fail = 0
      BY <1>32, UpdateTplNormalIs DEF GapInv, Mine
    <3> QED BY <3>1, <3>2 DEF Unblamed
  <2>1. \A g \in Fid : \/ tplN'[g] \in {tplN[g], NoData} /\ tplB'[g] \in {tplB[g], NoData}
                       \/ Unblamed(ram, g) /\ Unblamed(Source, g)
    BY <1>32, UpdateTplNormalIs, <2>0 DEF DiskOK, Unblamed
  <2>2. \A g \in Fid : \/ ram'[g] = ram[g]
                       \/ ram'[g].fail = 0
                       \/ ram'[g].sum \notin {tplN'[g], tplB'[g]}
    BY <1>32, UpdateTplNormalIs
  <2> QED BY <1>0, <2>1, <2>2, EntryIs, FailKept
<1>33. ASSUME RemoveLookup PROVE FailInv'
  BY <1>33, RemoveLookupIs, <1>0 DEF FailInv, Sound, Readable
<1>34. ASSUME RemoveSetsBackup PROVE FailInv'
  <2>1. \A g \in Fid : \/ tplN'[g] \in {tplN[g], NoData} /\ tplB'[g] \in {tplB[g], NoData}
                       \/ Unblamed(ram, g) /\ Unblamed(Source, g)
    BY <1>34, RemoveSetsBackupIs
  <2>2. \A g \in Fid : \/ ram'[g] = ram[g]
                       \/ ram'[g].fail = 0
                       \/ ram'[g].sum \notin {tplN'[g], tplB'[g]}
    BY <1>34, RemoveSetsBackupIs, WholeIs DEF Table
  <2> QED BY <1>0, <2>1, <2>2, EntryIs, FailKept
<1>35. ASSUME RemoveTplBackup PROVE FailInv'
  <2>1. \A g \in Fid : \/ tplN'[g] \in {tplN[g], NoData} /\ tplB'[g] \in {tplB[g], NoData}
                       \/ Unblamed(ram, g) /\ Unblamed(Source, g)
    BY <1>35, RemoveTplBackupIs DEF DiskOK
  <2>2. \A g \in Fid : \/ ram'[g] = ram[g]
                       \/ ram'[g].fail = 0
                       \/ ram'[g].sum \notin {tplN'[g], tplB'[g]}
    BY <1>35, RemoveTplBackupIs
  <2> QED BY <1>0, <2>1, <2>2, EntryIs, FailKept
<1>36. ASSUME RemoveSetsNormal PROVE FailInv'
  BY <1>36, RemoveSetsNormalIs, <1>0 DEF FailInv, Sound, Readable
<1>37. ASSUME RemoveTplNormal PROVE FailInv'
  <2>1. \A g \in Fid : \/ tplN'[g] \in {tplN[g], NoData} /\ tplB'[g] \in {tplB[g], NoData}
                       \/ Unblamed(ram, g) /\ Unblamed(Source, g)
    BY <1>37, RemoveTplNormalIs DEF DiskOK
  <2>2. \A g \in Fid : \/ ram'[g] = ram[g]
                       \/ ram'[g].fail = 0
                       \/ ram'[g].sum \notin {tplN'[g], tplB'[g]}
    BY <1>37, RemoveTplNormalIs
  <2> QED BY <1>0, <2>1, <2>2, EntryIs, FailKept
<1>38. ASSUME IncFailLookup PROVE FailInv'
  BY <1>38 DEF IncFailLookup, TypeInv, Flow, ImageInv, JobInv, IncLabel
<1>39. ASSUME IncFailDrop PROVE FailInv'
  BY <1>39 DEF IncFailDrop, TypeInv, Flow, ImageInv, JobInv, IncLabel
<1>40. ASSUME IncFailSets PROVE FailInv'
  BY <1>40 DEF IncFailSets, TypeInv, Flow, ImageInv, JobInv, IncLabel
<1>41. ASSUME Crash PROVE FailInv'
  <2>1. /\ ram' = EmptyTable
        /\ \A g \in Fid : tplN'[g] \in {tplN[g], NoData} /\ tplB'[g] \in {tplB[g], NoData}
    BY <1>41 DEF Crash, Torn
  <2> QED BY <1>0, <2>1, WholeIs, EntryIs, FailKept
<1>42. ASSUME NEW f \in Fid, Rot(f) PROVE FailInv'
  <2>1. /\ ram' = ram
        /\ \A g \in Fid : tplN'[g] \in {tplN[g], NoData} /\ tplB'[g] \in {tplB[g], NoData}
    BY <1>42 DEF Rot, DiskOK
  <2> QED BY <1>0, <2>1, EntryIs, FailKept
<1>43. ASSUME UNCHANGED vars PROVE FailInv'
  BY <1>43, <1>0 DEF vars, FailInv, Sound, Readable
<1> QED
  BY <1>1, <1>2, <1>3, <1>4, <1>5, <1>6, <1>7, <1>8, <1>9, <1>10, <1>11, <1>12, <1>13,
     <1>14, <1>15, <1>16, <1>17, <1>18, <1>19, <1>20, <1>21, <1>22, <1>23, <1>24, <1>25, <1>26,
     <1>27, <1>28, <1>29, <1>30, <1>31, <1>32, <1>33, <1>34, <1>35, <1>36, <1>37, <1>38, <1>39,
     <1>40, <1>41, <1>42, <1>43
     DEF Next, ClientCall, StoreStep, StoreInit, Load, Save, Update, Remove, IncFail

LEMMA ToldJobStep ==
  ASSUME NoErrors, TypeInv, ImageInv, DbInv, [Next]_vars
  PROVE  ToldJob'
<1> USE DEF DbInv, ToldInv, ToldJob, SaveLabel, LoadLabel
<1> JobInv /\ Flow
  BY DEF TypeInv, Flow
<1>1. ASSUME CallLoad PROVE ToldJob'
  BY <1>1, JobIs, DataAssumption, IdAssumption DEF CallLoad, Call, disk, faults, JobInv, JobOn
<1>2. ASSUME NEW d \in Data, CallSave(d) PROVE ToldJob'
  BY <1>2, JobIs, DataAssumption, IdAssumption DEF CallSave, Call, disk, faults, JobInv, JobOn
<1>3. ASSUME NEW f \in Fid, NEW d \in Data, CallUpdate(f, d) PROVE ToldJob'
  BY <1>3, JobIs, DataAssumption, IdAssumption DEF CallUpdate, Call, disk, faults, JobInv, JobOn
<1>4. ASSUME NEW f \in Fid, CallRemove(f) PROVE ToldJob'
  BY <1>4, JobIs, DataAssumption, IdAssumption DEF CallRemove, Call, disk, faults, JobInv, JobOn
<1>5. ASSUME NEW f \in Fid, CallIncFail(f) PROVE ToldJob'
  BY <1>5, JobIs, DataAssumption, IdAssumption DEF CallIncFail, NoErrors, JobInv, JobOn
<1>6. ASSUME InitRead PROVE ToldJob'
  BY <1>6, InitReadIs DEF Op
<1>7. ASSUME InitRestore PROVE ToldJob'
  BY <1>7, InitRestoreIs DEF Op
<1>8. ASSUME ResetBackup PROVE ToldJob'
  BY <1>8, ResetBackupIs, JobIs, DataAssumption, IdAssumption DEF JobInv, JobOn
<1>9. ASSUME ResetNormal PROVE ToldJob'
  BY <1>9, ResetNormalIs DEF Op
<1>10. ASSUME LoadDone PROVE ToldJob'
  BY <1>10, LoadDoneIs, JobIs, DataAssumption, IdAssumption DEF JobInv, JobOn
<1>11. ASSUME NEW f \in Fid, LoadNormal(f) PROVE ToldJob'
  BY <1>11, LoadNormalIs, JobIs, DataAssumption, IdAssumption DEF JobInv, JobOn
<1>12. ASSUME NEW f \in Fid, LoadBackup(f) PROVE ToldJob'
  BY <1>12, LoadBackupIs, JobIs, DataAssumption, IdAssumption DEF JobInv, JobOn
<1>13. ASSUME NEW f \in Fid, LoadFailed(f) PROVE ToldJob'
  BY <1>13, LoadFailedIs, JobIs, DataAssumption, IdAssumption DEF JobInv, JobOn
<1>14. ASSUME LoadRestore PROVE ToldJob'
  BY <1>14, LoadRestoreIs, JobIs, DataAssumption, IdAssumption DEF JobInv, JobOn
<1>15. ASSUME LoadDropBackup PROVE ToldJob'
  BY <1>15, LoadDropBackupIs, JobIs, DataAssumption, IdAssumption DEF JobInv, JobOn
<1>16. ASSUME LoadSetsBackup PROVE ToldJob'
  BY <1>16, LoadSetsBackupIs, JobIs, DataAssumption, IdAssumption DEF JobInv, JobOn
<1>17. ASSUME LoadDropNormal PROVE ToldJob'
  BY <1>17, LoadDropNormalIs, JobIs, DataAssumption, IdAssumption DEF JobInv, JobOn
<1>18. ASSUME LoadSetsNormal PROVE ToldJob'
  BY <1>18, LoadSetsNormalIs, JobIs, DataAssumption, IdAssumption DEF JobInv, JobOn
<1>19. ASSUME NEW f \in Fid, SaveFree(f) PROVE ToldJob'
  <2>1. job'.op = "save" /\ job'.id = f /\ job'.data = job.data /\ job.op = "save"
    BY <1>19, SaveFreeIs DEF JobOn
  <2>2. told'[job'.id] = Unknown /\ pc' \in SaveLabel
    BY <1>19, <2>1, SaveFreeIs DEF Flow
  <2> QED BY <2>1, <2>2
<1>20. ASSUME NEW f \in Fid, SaveEvict(f) PROVE ToldJob'
  <2>1. job'.op = "save" /\ job'.id = f /\ job'.data = job.data /\ job.op = "save"
    BY <1>20, SaveEvictIs DEF JobOn
  <2>2. told'[job'.id] = Unknown /\ pc' \in SaveLabel
    BY <1>20, <2>1, SaveEvictIs DEF Flow
  <2> QED BY <2>1, <2>2
<1>21. ASSUME SaveRefused PROVE ToldJob'
  BY <1>21, SaveRefusedIs, JobIs, DataAssumption, IdAssumption DEF JobInv, JobOn
<1>22. ASSUME SaveTplBackup PROVE ToldJob'
  BY <1>22, SaveTplBackupIs, JobIs, DataAssumption, IdAssumption DEF JobInv, JobOn
<1>23. ASSUME SaveSetsBackup PROVE ToldJob'
  BY <1>23, SaveSetsBackupIs, JobIs, DataAssumption, IdAssumption DEF JobInv, JobOn
<1>24. ASSUME SaveUndo PROVE ToldJob'
  BY <1>24 DEF SaveUndo, DbInv, CopyInv
<1>25. ASSUME SaveDropNormal PROVE ToldJob'
  BY <1>25, SaveDropNormalIs, JobIs, DataAssumption, IdAssumption DEF JobInv, JobOn
<1>26. ASSUME SaveSetsNormal PROVE ToldJob'
  BY <1>26, SaveSetsNormalIs, JobIs, DataAssumption, IdAssumption DEF JobInv, JobOn
<1>27. ASSUME SaveTplNormal PROVE ToldJob'
  BY <1>27, SaveTplNormalIs, JobIs, DataAssumption, IdAssumption DEF JobInv, JobOn
<1>28. ASSUME UpdateLookup PROVE ToldJob'
  BY <1>28, UpdateLookupIs, JobIs, DataAssumption, IdAssumption DEF JobInv, JobOn
<1>29. ASSUME UpdateTplBackup PROVE ToldJob'
  BY <1>29, UpdateTplBackupIs, JobIs, DataAssumption, IdAssumption DEF JobInv, JobOn
<1>30. ASSUME UpdateSetsBackup PROVE ToldJob'
  BY <1>30, UpdateSetsBackupIs, JobIs, DataAssumption, IdAssumption DEF JobInv, JobOn
<1>31. ASSUME UpdateSetsNormal PROVE ToldJob'
  BY <1>31, UpdateSetsNormalIs, JobIs, DataAssumption, IdAssumption DEF JobInv, JobOn
<1>32. ASSUME UpdateTplNormal PROVE ToldJob'
  BY <1>32, UpdateTplNormalIs, JobIs, DataAssumption, IdAssumption DEF JobInv, JobOn
<1>33. ASSUME RemoveLookup PROVE ToldJob'
  BY <1>33, RemoveLookupIs, JobIs, DataAssumption, IdAssumption DEF JobInv, JobOn
<1>34. ASSUME RemoveSetsBackup PROVE ToldJob'
  BY <1>34, RemoveSetsBackupIs, JobIs, DataAssumption, IdAssumption DEF JobInv, JobOn
<1>35. ASSUME RemoveTplBackup PROVE ToldJob'
  BY <1>35, RemoveTplBackupIs, JobIs, DataAssumption, IdAssumption DEF JobInv, JobOn
<1>36. ASSUME RemoveSetsNormal PROVE ToldJob'
  BY <1>36, RemoveSetsNormalIs, JobIs, DataAssumption, IdAssumption DEF JobInv, JobOn
<1>37. ASSUME RemoveTplNormal PROVE ToldJob'
  BY <1>37, RemoveTplNormalIs, JobIs, DataAssumption, IdAssumption DEF JobInv, JobOn
<1>38. ASSUME IncFailLookup PROVE ToldJob'
  BY <1>38 DEF IncFailLookup, TypeInv, Flow, ImageInv, JobInv, IncLabel
<1>39. ASSUME IncFailDrop PROVE ToldJob'
  BY <1>39 DEF IncFailDrop, TypeInv, Flow, ImageInv, JobInv, IncLabel
<1>40. ASSUME IncFailSets PROVE ToldJob'
  BY <1>40 DEF IncFailSets, TypeInv, Flow, ImageInv, JobInv, IncLabel
<1>41. ASSUME Crash PROVE ToldJob'
  BY <1>41, JobIs, DataAssumption, IdAssumption DEF Crash, Torn, faults, JobInv, JobOn
<1>42. ASSUME NEW f \in Fid, Rot(f) PROVE ToldJob'
  BY <1>42, JobIs, DataAssumption, IdAssumption DEF Rot, JobInv, JobOn
<1>43. ASSUME UNCHANGED vars PROVE ToldJob'
  BY <1>43, JobIs, DataAssumption, IdAssumption DEF vars, JobInv, JobOn
<1> QED
  BY <1>1, <1>2, <1>3, <1>4, <1>5, <1>6, <1>7, <1>8, <1>9, <1>10, <1>11, <1>12, <1>13,
     <1>14, <1>15, <1>16, <1>17, <1>18, <1>19, <1>20, <1>21, <1>22, <1>23, <1>24, <1>25, <1>26,
     <1>27, <1>28, <1>29, <1>30, <1>31, <1>32, <1>33, <1>34, <1>35, <1>36, <1>37, <1>38, <1>39,
     <1>40, <1>41, <1>42, <1>43
     DEF Next, ClientCall, StoreStep, StoreInit, Load, Save, Update, Remove, IncFail

LEMMA GoneStep ==
  ASSUME NoErrors, TypeInv, ImageInv, DbInv, [Next]_vars
  PROVE  Gone'
<1> USE DEF DbInv, ToldInv, Gone, ToldJob
<1> JobInv /\ Flow /\ ram \in Table
  BY DEF TypeInv, Flow
<1>0. Source' = Source \/ Source' = ram
  BY SourceStep
<1>1. ASSUME CallLoad PROVE Gone'
  <2>1. /\ ram' = ram
        /\ \A g \in Fid : told'[g] = NoData => told[g] = NoData
    BY <1>1, DataAssumption, IdAssumption DEF CallLoad, Call, Flow
  <2> QED BY <1>0, <2>1
<1>2. ASSUME NEW d \in Data, CallSave(d) PROVE Gone'
  <2>1. /\ ram' = ram
        /\ \A g \in Fid : told'[g] = NoData => told[g] = NoData
    BY <1>2, DataAssumption, IdAssumption DEF CallSave, Call, Flow
  <2> QED BY <1>0, <2>1
<1>3. ASSUME NEW f \in Fid, NEW d \in Data, CallUpdate(f, d) PROVE Gone'
  <2>1. /\ ram' = ram
        /\ \A g \in Fid : told'[g] = NoData => told[g] = NoData
    BY <1>3, DataAssumption, IdAssumption DEF CallUpdate, Call, Flow
  <2> QED BY <1>0, <2>1
<1>4. ASSUME NEW f \in Fid, CallRemove(f) PROVE Gone'
  <2>1. /\ ram' = ram
        /\ \A g \in Fid : told'[g] = NoData => told[g] = NoData
    BY <1>4, DataAssumption, IdAssumption DEF CallRemove, Call, Flow
  <2> QED BY <1>0, <2>1
<1>5. ASSUME NEW f \in Fid, CallIncFail(f) PROVE Gone'
  BY <1>5, <1>0 DEF CallIncFail, NoErrors
<1>6. ASSUME InitRead PROVE Gone'
  BY <1>6, InitReadIs, <1>0
<1>7. ASSUME InitRestore PROVE Gone'
  BY <1>7, InitRestoreIs, <1>0
<1>8. ASSUME ResetBackup PROVE Gone'
  BY <1>8, ResetBackupIs, <1>0
<1>9. ASSUME ResetNormal PROVE Gone'
  BY <1>9, ResetNormalIs, <1>0
<1>10. ASSUME LoadDone PROVE Gone'
  BY <1>10, LoadDoneIs, <1>0
<1>11. ASSUME NEW f \in Fid, LoadNormal(f) PROVE Gone'
  <2>1. \A g \in Fid : ram'[g].sum = ram[g].sum
    BY <1>11, LoadNormalIs DEF Table
  <2> QED BY <1>11, <1>0, <2>1, LoadNormalIs
<1>12. ASSUME NEW f \in Fid, LoadBackup(f) PROVE Gone'
  BY <1>12, LoadBackupIs, <1>0
<1>13. ASSUME NEW f \in Fid, LoadFailed(f) PROVE Gone'
  <2>1. \A g \in Fid : ram[g].sum = NoData => ram'[g].sum = NoData
    BY <1>13, LoadFailedIs, WholeIs DEF Table
  <2> QED BY <1>13, <1>0, <2>1, LoadFailedIs
<1>14. ASSUME LoadRestore PROVE Gone'
  <2>1. \A g \in Fid : ram'[g].sum = ram[g].sum
    BY <1>14, LoadRestoreIs DEF Table
  <2> QED BY <1>14, <1>0, <2>1, LoadRestoreIs
<1>15. ASSUME LoadDropBackup PROVE Gone'
  BY <1>15, LoadDropBackupIs, <1>0
<1>16. ASSUME LoadSetsBackup PROVE Gone'
  BY <1>16, LoadSetsBackupIs, <1>0
<1>17. ASSUME LoadDropNormal PROVE Gone'
  BY <1>17, LoadDropNormalIs, <1>0
<1>18. ASSUME LoadSetsNormal PROVE Gone'
  BY <1>18, LoadSetsNormalIs, <1>0
<1>19. ASSUME NEW f \in Fid, SaveFree(f) PROVE Gone'
  <2>1. \A g \in Fid : ram[g].sum = NoData => ram'[g].sum = NoData
    BY <1>19, SaveFreeIs, WholeIs DEF Table
  <2>2. \A g \in Fid : told'[g] = NoData => told[g] = NoData
    BY <1>19, SaveFreeIs, DataAssumption DEF Flow
  <2> QED BY <1>19, <1>0, <2>1, <2>2
<1>20. ASSUME NEW f \in Fid, SaveEvict(f) PROVE Gone'
  <2>1. \A g \in Fid : ram[g].sum = NoData => ram'[g].sum = NoData
    BY <1>20, SaveEvictIs, WholeIs DEF Table
  <2>2. \A g \in Fid : told'[g] = NoData => told[g] = NoData
    BY <1>20, SaveEvictIs, DataAssumption DEF Flow
  <2> QED BY <1>20, <1>0, <2>1, <2>2
<1>21. ASSUME SaveRefused PROVE Gone'
  BY <1>21, SaveRefusedIs, <1>0
<1>22. ASSUME SaveTplBackup PROVE Gone'
  <2>1. \A g \in Fid : g # job.id => ram'[g] = ram[g]
    BY <1>22, SaveTplBackupIs DEF Table
  <2>2. told'[job.id] # NoData
    BY <1>22, SaveTplBackupIs, DataAssumption DEF SaveLabel
  <2> QED BY <1>22, <1>0, <2>1, <2>2, SaveTplBackupIs
<1>23. ASSUME SaveSetsBackup PROVE Gone'
  BY <1>23, SaveSetsBackupIs, <1>0
<1>24. ASSUME SaveUndo PROVE Gone'
  BY <1>24 DEF SaveUndo, DbInv, CopyInv
<1>25. ASSUME SaveDropNormal PROVE Gone'
  BY <1>25, SaveDropNormalIs, <1>0
<1>26. ASSUME SaveSetsNormal PROVE Gone'
  BY <1>26, SaveSetsNormalIs, <1>0
<1>27. ASSUME SaveTplNormal PROVE Gone'
  <2>1. \A g \in Fid : told'[g] = NoData => told[g] = NoData
    BY <1>27, SaveTplNormalIs, DataAssumption DEF Flow
  <2> QED BY <1>27, <1>0, <2>1, SaveTplNormalIs
<1>28. ASSUME UpdateLookup PROVE Gone'
  <2>1. \A g \in Fid : told'[g] = NoData => told[g] = NoData
    BY <1>28, UpdateLookupIs, DataAssumption DEF Flow
  <2> QED BY <1>28, <1>0, <2>1, UpdateLookupIs
<1>29. ASSUME UpdateTplBackup PROVE Gone'
  <2>1. \A g \in Fid : g # job.id => ram'[g] = ram[g]
    BY <1>29, UpdateTplBackupIs DEF Table
  <2>2. told'[job.id] # NoData
    BY <1>29, UpdateTplBackupIs, DataAssumption DEF SaveLabel
  <2> QED BY <1>29, <1>0, <2>1, <2>2, UpdateTplBackupIs
<1>30. ASSUME UpdateSetsBackup PROVE Gone'
  BY <1>30, UpdateSetsBackupIs, <1>0
<1>31. ASSUME UpdateSetsNormal PROVE Gone'
  BY <1>31, UpdateSetsNormalIs, <1>0
<1>32. ASSUME UpdateTplNormal PROVE Gone'
  <2>1. \A g \in Fid : told'[g] = NoData => told[g] = NoData
    BY <1>32, UpdateTplNormalIs, DataAssumption DEF Flow
  <2> QED BY <1>32, <1>0, <2>1, UpdateTplNormalIs
<1>33. ASSUME RemoveLookup PROVE Gone'
  <2>1. Source = ram
    BY <1>33, RemoveLookupIs, WholeIs DEF CopyInv, Synced, Source
  <2>2. \A g \in Fid : told'[g] = NoData => told[g] = NoData \/ ram[g].sum = NoData
    BY <1>33, RemoveLookupIs, WholeIs DEF Flow, GapInv, Mine, RemoveGap
  <2> QED BY <1>33, <1>0, <2>1, <2>2, RemoveLookupIs
<1>34. ASSUME RemoveSetsBackup PROVE Gone'
  <2>1. \A g \in Fid : ram[g].sum = NoData => ram'[g].sum = NoData
    BY <1>34, RemoveSetsBackupIs, WholeIs DEF Table
  <2> QED BY <1>34, <1>0, <2>1, RemoveSetsBackupIs
<1>35. ASSUME RemoveTplBackup PROVE Gone'
  BY <1>35, RemoveTplBackupIs, <1>0
<1>36. ASSUME RemoveSetsNormal PROVE Gone'
  BY <1>36, RemoveSetsNormalIs, <1>0
<1>37. ASSUME RemoveTplNormal PROVE Gone'
  <2>1. Source = ram
    BY <1>37, RemoveTplNormalIs, WholeIs DEF CopyInv, Synced, Source
  <2>2. \A g \in Fid : told'[g] = NoData => told[g] = NoData \/ ram[g].sum = NoData
    BY <1>37, RemoveTplNormalIs, WholeIs DEF Flow, GapInv, Mine, RemoveGap
  <2> QED BY <1>37, <1>0, <2>1, <2>2, RemoveTplNormalIs
<1>38. ASSUME IncFailLookup PROVE Gone'
  BY <1>38 DEF IncFailLookup, TypeInv, Flow, ImageInv, JobInv, IncLabel
<1>39. ASSUME IncFailDrop PROVE Gone'
  BY <1>39 DEF IncFailDrop, TypeInv, Flow, ImageInv, JobInv, IncLabel
<1>40. ASSUME IncFailSets PROVE Gone'
  BY <1>40 DEF IncFailSets, TypeInv, Flow, ImageInv, JobInv, IncLabel
<1>41. ASSUME Crash PROVE Gone'
  <2>1. ram' = EmptyTable /\ told' = told
    BY <1>41 DEF Crash
  <2> QED BY <1>0, <2>1, WholeIs
<1>42. ASSUME NEW f \in Fid, Rot(f) PROVE Gone'
  BY <1>42, <1>0 DEF Rot
<1>43. ASSUME UNCHANGED vars PROVE Gone'
  BY <1>43, <1>0 DEF vars
<1> QED
  BY <1>1, <1>2, <1>3, <1>4, <1>5, <1>6, <1>7, <1>8, <1>9, <1>10, <1>11, <1>12, <1>13,
     <1>14, <1>15, <1>16, <1>17, <1>18, <1>19, <1>20, <1>21, <1>22, <1>23, <1>24, <1>25, <1>26,
     <1>27, <1>28, <1>29, <1>30, <1>31, <1>32, <1>33, <1>34, <1>35, <1>36, <1>37, <1>38, <1>39,
     <1>40, <1>41, <1>42, <1>43
     DEF Next, ClientCall, StoreStep, StoreInit, Load, Save, Update, Remove, IncFail

(* The files of id i are left alone, or are those of a template that could *)
(* not be read and lose what they have.                                    *)
FilesKept(i) ==
  \/ tplN'[i] = tplN[i] /\ tplB'[i] = tplB[i]
  \/ /\ Source' = Source /\ ~Readable(Source, i)
     /\ tplN'[i] \in {tplN[i], NoData} /\ tplB'[i] \in {tplB[i], NoData}

LEMMA TplStep ==
  ASSUME NoErrors, TypeInv, ImageInv, DbInv, [Next]_vars, rots' = rots, NEW i \in Fid \ {job.id}
  PROVE  FilesKept(i)
<1> Others /\ Mine /\ CopyInv /\ LoadInv /\ FailInv
  BY DEF DbInv, GapInv
<1> JobInv /\ Flow /\ DiskOK /\ ram \in Table
  BY DEF TypeInv, Flow
<1>1. ASSUME CallLoad PROVE FilesKept(i)
  BY <1>1 DEF CallLoad, Call, disk, faults, FilesKept, DiskOK
<1>2. ASSUME NEW d \in Data, CallSave(d) PROVE FilesKept(i)
  BY <1>2 DEF CallSave, Call, disk, faults, FilesKept, DiskOK
<1>3. ASSUME NEW f \in Fid, NEW d \in Data, CallUpdate(f, d) PROVE FilesKept(i)
  BY <1>3 DEF CallUpdate, Call, disk, faults, FilesKept, DiskOK
<1>4. ASSUME NEW f \in Fid, CallRemove(f) PROVE FilesKept(i)
  BY <1>4 DEF CallRemove, Call, disk, faults, FilesKept, DiskOK
<1>5. ASSUME NEW f \in Fid, CallIncFail(f) PROVE FilesKept(i)
  BY <1>5 DEF CallIncFail, NoErrors, FilesKept, DiskOK
<1>6. ASSUME InitRead PROVE FilesKept(i)
  BY <1>6, InitReadIs DEF FilesKept, DiskOK
<1>7. ASSUME InitRestore PROVE FilesKept(i)
  BY <1>7, InitRestoreIs DEF FilesKept, DiskOK
<1>8. ASSUME ResetBackup PROVE FilesKept(i)
  BY <1>8, ResetBackupIs DEF FilesKept, DiskOK
<1>9. ASSUME ResetNormal PROVE FilesKept(i)
  BY <1>9, ResetNormalIs DEF FilesKept, DiskOK
<1>10. ASSUME LoadDone PROVE FilesKept(i)
  BY <1>10, LoadDoneIs DEF FilesKept, DiskOK
<1>11. ASSUME NEW f \in Fid, LoadNormal(f) PROVE FilesKept(i)
  BY <1>11, LoadNormalIs DEF FilesKept, DiskOK
<1>12. ASSUME NEW f \in Fid, LoadBackup(f) PROVE FilesKept(i)
  BY <1>12, LoadBackupIs DEF FilesKept, DiskOK
<1>13. ASSUME NEW f \in Fid, LoadFailed(f) PROVE FilesKept(i)
  BY <1>13, LoadFailedIs DEF FilesKept, DiskOK
<1>14. ASSUME LoadRestore PROVE FilesKept(i)
  BY <1>14, LoadRestoreIs DEF FilesKept, DiskOK
<1>15. ASSUME LoadDropBackup PROVE FilesKept(i)
  BY <1>15, LoadDropBackupIs DEF FilesKept, DiskOK
<1>16. ASSUME LoadSetsBackup PROVE FilesKept(i)
  BY <1>16, LoadSetsBackupIs DEF FilesKept, DiskOK
<1>17. ASSUME LoadDropNormal PROVE FilesKept(i)
  BY <1>17, LoadDropNormalIs DEF FilesKept, DiskOK
<1>18. ASSUME LoadSetsNormal PROVE FilesKept(i)
  BY <1>18, LoadSetsNormalIs DEF FilesKept, DiskOK
<1>19. ASSUME NEW f \in Fid, SaveFree(f) PROVE FilesKept(i)
  BY <1>19, SaveFreeIs DEF FilesKept, DiskOK
<1>20. ASSUME NEW f \in Fid, SaveEvict(f) PROVE FilesKept(i)
  <2>1. PICK g \in Fid \ {f} : /\ ram[g].fail > 0 /\ ram' = [ram EXCEPT ![g] = NoEntry]
                             /\ tplB' = [tplB EXCEPT ![g] = NoData]
    BY <1>20, SaveEvictIs
  <2>2. setsN' = setsN /\ setsB' = setsB /\ tplN' = tplN /\ Source = ram
    BY <1>20, SaveEvictIs, WholeIs DEF CopyInv, Synced, Source
  <2>3. ~Readable(Source, g)
    BY <2>1, <2>2 DEF FailInv, Sound
  <2>4. Source' = Source
    BY <2>2 DEF Source
  <2> QED BY <2>1, <2>2, <2>3, <2>4 DEF FilesKept, DiskOK
<1>21. ASSUME SaveRefused PROVE FilesKept(i)
  BY <1>21, SaveRefusedIs DEF FilesKept, DiskOK
<1>22. ASSUME SaveTplBackup PROVE FilesKept(i)
  BY <1>22, SaveTplBackupIs DEF FilesKept, DiskOK
<1>23. ASSUME SaveSetsBackup PROVE FilesKept(i)
  BY <1>23, SaveSetsBackupIs DEF FilesKept, DiskOK
<1>24. ASSUME SaveUndo PROVE FilesKept(i)
  BY <1>24 DEF SaveUndo, DbInv, CopyInv
<1>25. ASSUME SaveDropNormal PROVE FilesKept(i)
  BY <1>25, SaveDropNormalIs DEF FilesKept, DiskOK
<1>26. ASSUME SaveSetsNormal PROVE FilesKept(i)
  BY <1>26, SaveSetsNormalIs DEF FilesKept, DiskOK
<1>27. ASSUME SaveTplNormal PROVE FilesKept(i)
  BY <1>27, SaveTplNormalIs DEF FilesKept, DiskOK
<1>28. ASSUME UpdateLookup PROVE FilesKept(i)
  BY <1>28, UpdateLookupIs DEF FilesKept, DiskOK
<1>29. ASSUME UpdateTplBackup PROVE FilesKept(i)
  BY <1>29, UpdateTplBackupIs DEF FilesKept, DiskOK
<1>30. ASSUME UpdateSetsBackup PROVE FilesKept(i)
  BY <1>30, UpdateSetsBackupIs DEF FilesKept, DiskOK
<1>31. ASSUME UpdateSetsNormal PROVE FilesKept(i)
  BY <1>31, UpdateSetsNormalIs DEF FilesKept, DiskOK
<1>32. ASSUME UpdateTplNormal PROVE FilesKept(i)
  BY <1>32, UpdateTplNormalIs DEF FilesKept, DiskOK
<1>33. ASSUME RemoveLookup PROVE FilesKept(i)
  BY <1>33, RemoveLookupIs DEF FilesKept, DiskOK
<1>34. ASSUME RemoveSetsBackup PROVE FilesKept(i)
  BY <1>34, RemoveSetsBackupIs DEF FilesKept, DiskOK
<1>35. ASSUME RemoveTplBackup PROVE FilesKept(i)
  BY <1>35, RemoveTplBackupIs DEF FilesKept, DiskOK
<1>36. ASSUME RemoveSetsNormal PROVE FilesKept(i)
  BY <1>36, RemoveSetsNormalIs DEF FilesKept, DiskOK
<1>37. ASSUME RemoveTplNormal PROVE FilesKept(i)
  BY <1>37, RemoveTplNormalIs DEF FilesKept, DiskOK
<1>38. ASSUME IncFailLookup PROVE FilesKept(i)
  BY <1>38 DEF IncFailLookup, TypeInv, Flow, ImageInv, JobInv, IncLabel
<1>39. ASSUME IncFailDrop PROVE FilesKept(i)
  BY <1>39 DEF IncFailDrop, TypeInv, Flow, ImageInv, JobInv, IncLabel
<1>40. ASSUME IncFailSets PROVE FilesKept(i)
  BY <1>40 DEF IncFailSets, TypeInv, Flow, ImageInv, JobInv, IncLabel
<1>41. ASSUME Crash PROVE FilesKept(i)
  BY <1>41 DEF Crash, Torn, faults, FilesKept, DiskOK
<1>42. ASSUME NEW f \in Fid, Rot(f) PROVE FilesKept(i)
  BY <1>42 DEF Rot, FilesKept, DiskOK
<1>43. ASSUME UNCHANGED vars PROVE FilesKept(i)
  BY <1>43 DEF vars, FilesKept, DiskOK
<1> QED
  BY <1>1, <1>2, <1>3, <1>4, <1>5, <1>6, <1>7, <1>8, <1>9, <1>10, <1>11, <1>12, <1>13,
     <1>14, <1>15, <1>16, <1>17, <1>18, <1>19, <1>20, <1>21, <1>22, <1>23, <1>24, <1>25, <1>26,
     <1>27, <1>28, <1>29, <1>30, <1>31, <1>32, <1>33, <1>34, <1>35, <1>36, <1>37, <1>38, <1>39,
     <1>40, <1>41, <1>42, <1>43
     DEF Next, ClientCall, StoreStep, StoreInit, Load, Save, Update, Remove, IncFail

LEMMA DbInit == Init => ImageInv /\ DbInv
<1> SUFFICES ASSUME Init PROVE ImageInv /\ DbInv
  OBVIOUS
<1>1. /\ ram = EmptyTable /\ Source = EmptyTable /\ setsN = BadSets /\ setsB = BadSets
      /\ pc = "idle" /\ job = NoJob /\ todo = {} /\ loaded = {} /\ ~inited
      /\ \A f \in Fid : told[f] = NoData
  BY WholeIs DEF Init, Source
<1>2. NoJob.op = "none"
  BY DEF NoJob
<1>3. ImageInv
  BY <1>1, <1>2 DEF ImageInv, WritesSetsN, InitLabel
<1>4. CopyInv
  BY <1>1 DEF CopyInv, BackupFirst, InitLabel
<1>5. GapInv
  BY <1>1 DEF GapInv, Others, Mine, Ahead, LoadGap, SaveGap, UpdateGap, RemoveGap
<1>6. FailInv
  BY <1>1, WholeIs DEF FailInv, Sound
<1>7. LoadInv
  BY <1>1, <1>2 DEF LoadInv, InitLabel, LoadGap, SaveLabel
<1>8. ToldInv
  BY <1>1, <1>2, WholeIs DEF ToldInv, Gone, ToldJob, SaveLabel
<1> QED BY <1>3, <1>4, <1>5, <1>6, <1>7, <1>8 DEF DbInv

LEMMA DbStep ==
  ASSUME NoErrors, TypeInv, ImageInv, DbInv, [Next]_vars
  PROVE  ImageInv' /\ DbInv'
<1>1. ImageInv'
  BY ImageStep
<1>2. GapInv'
  BY OthersStep, MineStep DEF GapInv
<1>3. ToldInv'
  BY GoneStep, ToldJobStep DEF ToldInv
<1> QED BY <1>1, <1>2, <1>3, CopyStep, FailStep, LoadStep DEF DbInv

LEMMA DbAlways == ASSUME NoErrors PROVE Spec => [](TypeInv /\ ImageInv /\ DbInv)
<1>1. Init => TypeInv /\ ImageInv /\ DbInv
  BY TypeInit, DbInit
<1>2. TypeInv /\ ImageInv /\ DbInv /\ [Next]_vars => (TypeInv /\ ImageInv /\ DbInv)'
  BY TypeStep, DbStep
<1> QED BY <1>1, <1>2, PTL DEF Spec

(* The control of the store, and the reason one table file is always whole. *)
THEOREM StoreSafe == ASSUME NoErrors PROVE Spec => []StoreInv
<1>1. TypeInv /\ ImageInv /\ DbInv => StoreInv
  BY DEF StoreInv, TypeInv, Flow
<1> QED BY <1>1, DbAlways, PTL

(* A failure count is only held against a template neither of whose files  *)
(* is good, however the files decay and wherever power is lost: giving the *)
(* slot of such a template to a new one loses nothing that could be read.  *)
THEOREM FailedUnreadable == ASSUME NoErrors PROVE Spec => []FailedIsUnreadable
<1>1. TypeInv /\ ImageInv /\ DbInv => FailedIsUnreadable
  BY DEF DbInv, FailInv, Sound, Readable, FailedIsUnreadable, Ids
<1> QED BY <1>1, DbAlways, PTL

(* A finger whose removal was reported, or that was never enrolled, is not *)
(* found by any restart, and no torn write or decayed file brings it back. *)
THEOREM RemovedStays == ASSUME NoErrors PROVE Spec => []RemovedStaysRemoved
<1>1. TypeInv /\ ImageInv /\ DbInv => RemovedStaysRemoved
  BY DEF DbInv, ToldInv, Gone, RemovedStaysRemoved, Recovered
<1> QED BY <1>1, DbAlways, PTL

(* Where the next start takes its table from: the same table, or the one   *)
(* in RAM, which the call in progress has changed.                         *)
LEMMA SourceMoves ==
  ASSUME NoErrors, TypeInv, ImageInv, DbInv, [Next]_vars
  PROVE  Source' = Source \/ (pc \in Ahead /\ Source = setsN.tbl /\ Source' = ram)
<1> CopyInv /\ JobInv
  BY DEF DbInv, TypeInv, Flow
<1>1. CASE pc \in {"init_setsN", "reset_setsN", "reset_setsB"}
  <2>1. Source = ram
    BY <1>1, WholeIs DEF CopyInv, ImageInv, BackupFirst, InitLabel, Source
  <2> QED BY <2>1, SourceStep DEF DbInv
<1>2. CASE pc \in BackupFirst \ {"init_setsN", "reset_setsN"}
  <2>1. pc \in Ahead /\ Source = setsN.tbl
    BY <1>2 DEF BackupFirst, Ahead, LoadGap, SaveGap, UpdateGap, RemoveGap, ImageInv, JobInv,
               InitLabel, Source
  <2> QED BY <2>1, SourceStep DEF DbInv
<1>3. CASE pc \notin BackupFirst \cup {"reset_setsB"}
  BY <1>3, SourceStep DEF DbInv
<1> QED BY <1>1, <1>2, <1>3

LEMMA RecoveredIs ==
  \A f \in Fid : Recovered[f] = IF Readable(Source, f) THEN Source[f].sum ELSE NoData
BY DEF Recovered, Readable

LEMMA OthersRecovered ==
  ASSUME NoErrors, TypeInv, ImageInv, DbInv, [Next]_vars, rots' = rots,
         NEW f \in Fid \ {job.id}
  PROVE  Recovered'[f] = Recovered[f]
<1>1. FilesKept(f)
  BY TplStep
<1>2. CASE Source' = Source
  BY <1>1, <1>2 DEF FilesKept, Recovered, Readable
<1>3. CASE Source' # Source
  <2>1. pc \in Ahead /\ Source = setsN.tbl /\ Source' = ram
    BY <1>3, SourceMoves
  <2>2. tplN'[f] = tplN[f] /\ tplB'[f] = tplB[f]
    BY <1>1, <1>3 DEF FilesKept
  <2>3. ram[f] = Source[f] \/ (ram[f] = NoEntry /\ ~Readable(Source, f))
    BY <2>1 DEF DbInv, GapInv, Others
  <2> QED BY <2>1, <2>2, <2>3, WholeIs DEF Recovered, Readable
<1> QED BY <1>2, <1>3

(* A step of the store, power loss included, changes what a restart would  *)
(* find of the template its call is about and of no other: an eviction     *)
(* and a write of the whole table included.                                *)
THEOREM OthersUntouched == ASSUME NoErrors PROVE Spec => OthersKept
<1>1. TypeInv /\ ImageInv /\ DbInv /\ [Next]_vars
        => (rots' = rots => \A f \in Fid \ {job.id} : Recovered'[f] = Recovered[f])
  BY OthersRecovered
<1>2. TypeInv /\ ImageInv /\ DbInv /\ [Next]_vars
        => [rots' = rots => \A f \in Fid \ {job.id} : Recovered'[f] = Recovered[f]]_vars
  BY <1>1
<1> QED BY <1>2, DbAlways, PTL DEF Spec, OthersKept

(* A loaded finger has its NORMAL file, unless its call is rewriting it:   *)
(* then the BACKUP file, or the NORMAL file under the old table, makes up  *)
(* for it.                                                                 *)
Rewriting == {"load_tplN", "upd_tplN", "rm_tplN"} \cup UpdateGap \cup RemoveGap
Settled == \A f \in loaded : tplN[f] = ram[f].sum \/ (f = job.id /\ pc \in Rewriting)
Spare ==
  /\ pc = "load_tplN" => tplB[job.id] = ram[job.id].sum
  /\ pc \in UpdateGap => tplN[job.id] = setsN.tbl[job.id].sum /\ tplN[job.id] # NoData
  /\ pc \in SaveGap \cup UpdateGap \cup {"save_tplN", "upd_tplN"} => tplB[job.id] = job.data
KeepInv == Settled /\ Spare

LEMMA SettledStep ==
  ASSUME NoErrors, MaxRot = 0, TypeInv, ImageInv, DbInv, KeepInv, [Next]_vars
  PROVE  Settled'
<1> Others /\ Mine /\ CopyInv /\ LoadInv /\ FailInv /\ ToldJob /\ Settled /\ Spare
  BY DEF DbInv, GapInv, ToldInv, KeepInv
<1> JobInv /\ Flow /\ DiskOK /\ ram \in Table /\ loaded \subseteq Fid
  BY DEF TypeInv, Flow, Rest
<1>1. ASSUME CallLoad PROVE Settled'
  BY <1>1, JobIs DEF CallLoad, Call, disk, faults, Settled, Rewriting, UpdateGap, RemoveGap
<1>2. ASSUME NEW d \in Data, CallSave(d) PROVE Settled'
  BY <1>2, JobIs DEF CallSave, Call, disk, faults, Settled, Rewriting, UpdateGap, RemoveGap
<1>3. ASSUME NEW f \in Fid, NEW d \in Data, CallUpdate(f, d) PROVE Settled'
  BY <1>3, JobIs DEF CallUpdate, Call, disk, faults, Settled, Rewriting, UpdateGap, RemoveGap
<1>4. ASSUME NEW f \in Fid, CallRemove(f) PROVE Settled'
  BY <1>4, JobIs DEF CallRemove, Call, disk, faults, Settled, Rewriting, UpdateGap, RemoveGap
<1>5. ASSUME NEW f \in Fid, CallIncFail(f) PROVE Settled'
  BY <1>5, JobIs DEF CallIncFail, NoErrors, Settled, Rewriting, UpdateGap, RemoveGap
<1>6. ASSUME InitRead PROVE Settled'
  BY <1>6, InitReadIs DEF Settled, Rewriting, UpdateGap, RemoveGap, LoadInv, InitLabel
<1>7. ASSUME InitRestore PROVE Settled'
  BY <1>7, InitRestoreIs DEF Settled, Rewriting, UpdateGap, RemoveGap, LoadInv, InitLabel
<1>8. ASSUME ResetBackup PROVE Settled'
  BY <1>8, ResetBackupIs, JobIs DEF Settled, Rewriting, UpdateGap, RemoveGap
<1>9. ASSUME ResetNormal PROVE Settled'
  BY <1>9, ResetNormalIs DEF Settled, Rewriting, UpdateGap, RemoveGap, LoadInv, InitLabel
<1>10. ASSUME LoadDone PROVE Settled'
  BY <1>10, LoadDoneIs, JobIs DEF Settled, Rewriting, UpdateGap, RemoveGap
<1>11. ASSUME NEW f \in Fid, LoadNormal(f) PROVE Settled'
  <2>1. \A g \in Fid : ram'[g].sum = ram[g].sum
    BY <1>11, LoadNormalIs DEF Table
  <2> QED BY <1>11, <2>1, LoadNormalIs DEF Settled, Rewriting, UpdateGap, RemoveGap
<1>12. ASSUME NEW f \in Fid, LoadBackup(f) PROVE Settled'
  <2>1. pc' = "load_tplN" /\ job'.id = f /\ loaded' = loaded \cup {f}
    BY <1>12, LoadBackupIs DEF JobOn
  <2> QED BY <1>12, <2>1, LoadBackupIs DEF Settled, Rewriting, UpdateGap, RemoveGap
<1>13. ASSUME NEW f \in Fid, LoadFailed(f) PROVE Settled'
  <2>1. f \notin loaded
    BY <1>13, LoadFailedIs DEF LoadInv
  <2>2. \A g \in loaded : tplN'[g] = tplN[g] /\ ram'[g] = ram[g]
    BY <1>13, <2>1, LoadFailedIs DEF Table
  <2> QED BY <1>13, <2>1, <2>2, LoadFailedIs DEF Settled, Rewriting, UpdateGap, RemoveGap
<1>14. ASSUME LoadRestore PROVE Settled'
  <2>1. \A g \in Fid : ram'[g].sum = ram[g].sum
    BY <1>14, LoadRestoreIs DEF Table
  <2>2. tplN'[job.id] = ram[job.id].sum /\ \A g \in Fid \ {job.id} : tplN'[g] = tplN[g]
    BY <1>14, LoadRestoreIs DEF DiskOK
  <2> QED BY <1>14, <2>1, <2>2, LoadRestoreIs DEF Settled, Rewriting, UpdateGap, RemoveGap
<1>15. ASSUME LoadDropBackup PROVE Settled'
  BY <1>15, LoadDropBackupIs, JobIs DEF Settled, Rewriting, UpdateGap, RemoveGap
<1>16. ASSUME LoadSetsBackup PROVE Settled'
  BY <1>16, LoadSetsBackupIs, JobIs DEF Settled, Rewriting, UpdateGap, RemoveGap
<1>17. ASSUME LoadDropNormal PROVE Settled'
  <2>1. job.id \notin loaded
    BY <1>17, LoadDropNormalIs DEF LoadInv, LoadGap, SaveLabel
  <2>2. \A g \in loaded : tplN'[g] = tplN[g] /\ ram'[g] = ram[g]
    BY <1>17, <2>1, LoadDropNormalIs DEF Table, DiskOK
  <2> QED BY <1>17, <2>1, <2>2, LoadDropNormalIs DEF Settled, Rewriting, UpdateGap, RemoveGap
<1>18. ASSUME LoadSetsNormal PROVE Settled'
  BY <1>18, LoadSetsNormalIs, JobIs DEF Settled, Rewriting, UpdateGap, RemoveGap
<1>19. ASSUME NEW f \in Fid, SaveFree(f) PROVE Settled'
  BY <1>19, SaveFreeIs, JobIs DEF Settled, Rewriting, UpdateGap, RemoveGap
<1>20. ASSUME NEW f \in Fid, SaveEvict(f) PROVE Settled'
  <2>1. PICK g \in Fid : ram' = [ram EXCEPT ![g] = NoEntry] /\ ram[g].fail > 0
    BY <1>20, SaveEvictIs
  <2>2. \A h \in loaded : ram'[h] = ram[h]
    BY <2>1 DEF Table, LoadInv
  <2> QED BY <1>20, <2>2, SaveEvictIs DEF Settled, Rewriting, UpdateGap, RemoveGap
<1>21. ASSUME SaveRefused PROVE Settled'
  BY <1>21, SaveRefusedIs, JobIs DEF Settled, Rewriting, UpdateGap, RemoveGap
<1>22. ASSUME SaveTplBackup PROVE Settled'
  <2>1. job.id \notin loaded
    BY <1>22, SaveTplBackupIs DEF LoadInv, LoadGap, SaveLabel
  <2>2. \A g \in loaded : tplN'[g] = tplN[g] /\ ram'[g] = ram[g]
    BY <1>22, <2>1, SaveTplBackupIs DEF Table, DiskOK
  <2> QED BY <1>22, <2>1, <2>2, SaveTplBackupIs DEF Settled, Rewriting, UpdateGap, RemoveGap
<1>23. ASSUME SaveSetsBackup PROVE Settled'
  BY <1>23, SaveSetsBackupIs, JobIs DEF Settled, Rewriting, UpdateGap, RemoveGap
<1>24. ASSUME SaveUndo PROVE Settled'
  BY <1>24 DEF SaveUndo, DbInv, CopyInv
<1>25. ASSUME SaveDropNormal PROVE Settled'
  <2>1. job.id \notin loaded
    BY <1>25, SaveDropNormalIs DEF LoadInv, LoadGap, SaveLabel
  <2>2. \A g \in loaded : tplN'[g] = tplN[g] /\ ram'[g] = ram[g]
    BY <1>25, <2>1, SaveDropNormalIs DEF Table, DiskOK
  <2> QED BY <1>25, <2>1, <2>2, SaveDropNormalIs DEF Settled, Rewriting, UpdateGap, RemoveGap
<1>26. ASSUME SaveSetsNormal PROVE Settled'
  BY <1>26, SaveSetsNormalIs, JobIs DEF Settled, Rewriting, UpdateGap, RemoveGap
<1>27. ASSUME SaveTplNormal PROVE Settled'
  <2>1. tplN'[job.id] = job.data /\ \A g \in Fid \ {job.id} : tplN'[g] = tplN[g]
    BY <1>27, SaveTplNormalIs DEF DiskOK
  <2>2. ram' = ram /\ ram[job.id].sum = job.data
    BY <1>27, SaveTplNormalIs DEF Mine
  <2> QED BY <1>27, <2>1, <2>2, SaveTplNormalIs DEF Settled, Rewriting, UpdateGap, RemoveGap
<1>28. ASSUME UpdateLookup PROVE Settled'
  BY <1>28, UpdateLookupIs, JobIs DEF Settled, Rewriting, UpdateGap, RemoveGap
<1>29. ASSUME UpdateTplBackup PROVE Settled'
  <2>1. \A g \in Fid \ {job.id} : ram'[g] = ram[g]
    BY <1>29, UpdateTplBackupIs DEF Table
  <2> QED BY <1>29, <2>1, UpdateTplBackupIs DEF Settled, Rewriting, UpdateGap, RemoveGap
<1>30. ASSUME UpdateSetsBackup PROVE Settled'
  BY <1>30, UpdateSetsBackupIs, JobIs DEF Settled, Rewriting, UpdateGap, RemoveGap
<1>31. ASSUME UpdateSetsNormal PROVE Settled'
  BY <1>31, UpdateSetsNormalIs, JobIs DEF Settled, Rewriting, UpdateGap, RemoveGap
<1>32. ASSUME UpdateTplNormal PROVE Settled'
  <2>1. tplN'[job.id] = job.data /\ \A g \in Fid \ {job.id} : tplN'[g] = tplN[g]
    BY <1>32, UpdateTplNormalIs DEF DiskOK
  <2>2. ram' = ram /\ ram[job.id].sum = job.data
    BY <1>32, UpdateTplNormalIs DEF Mine
  <2> QED BY <1>32, <2>1, <2>2, UpdateTplNormalIs DEF Settled, Rewriting, UpdateGap, RemoveGap
<1>33. ASSUME RemoveLookup PROVE Settled'
  BY <1>33, RemoveLookupIs, JobIs DEF Settled, Rewriting, UpdateGap, RemoveGap
<1>34. ASSUME RemoveSetsBackup PROVE Settled'
  <2>1. \A g \in Fid \ {job.id} : ram'[g] = ram[g]
    BY <1>34, RemoveSetsBackupIs DEF Table
  <2> QED BY <1>34, <2>1, RemoveSetsBackupIs DEF Settled, Rewriting, UpdateGap, RemoveGap
<1>35. ASSUME RemoveTplBackup PROVE Settled'
  BY <1>35, RemoveTplBackupIs, JobIs DEF Settled, Rewriting, UpdateGap, RemoveGap
<1>36. ASSUME RemoveSetsNormal PROVE Settled'
  BY <1>36, RemoveSetsNormalIs, JobIs DEF Settled, Rewriting, UpdateGap, RemoveGap
<1>37. ASSUME RemoveTplNormal PROVE Settled'
  <2>1. \A g \in Fid \ {job.id} : tplN'[g] = tplN[g]
    BY <1>37, RemoveTplNormalIs DEF DiskOK
  <2> QED BY <1>37, <2>1, RemoveTplNormalIs DEF Settled, Rewriting, UpdateGap, RemoveGap
<1>38. ASSUME IncFailLookup PROVE Settled'
  BY <1>38 DEF IncFailLookup, TypeInv, Flow, ImageInv, JobInv, IncLabel
<1>39. ASSUME IncFailDrop PROVE Settled'
  BY <1>39 DEF IncFailDrop, TypeInv, Flow, ImageInv, JobInv, IncLabel
<1>40. ASSUME IncFailSets PROVE Settled'
  BY <1>40 DEF IncFailSets, TypeInv, Flow, ImageInv, JobInv, IncLabel
<1>41. ASSUME Crash PROVE Settled'
  BY <1>41, JobIs DEF Crash, Torn, faults, Settled, Rewriting, UpdateGap, RemoveGap
<1>42. ASSUME NEW f \in Fid, Rot(f) PROVE Settled'
  BY <1>42 DEF Rot, TypeInv, Rest
<1>43. ASSUME UNCHANGED vars PROVE Settled'
  BY <1>43, JobIs DEF vars, Settled, Rewriting, UpdateGap, RemoveGap
<1> QED
  BY <1>1, <1>2, <1>3, <1>4, <1>5, <1>6, <1>7, <1>8, <1>9, <1>10, <1>11, <1>12, <1>13,
     <1>14, <1>15, <1>16, <1>17, <1>18, <1>19, <1>20, <1>21, <1>22, <1>23, <1>24, <1>25, <1>26,
     <1>27, <1>28, <1>29, <1>30, <1>31, <1>32, <1>33, <1>34, <1>35, <1>36, <1>37, <1>38, <1>39,
     <1>40, <1>41, <1>42, <1>43
     DEF Next, ClientCall, StoreStep, StoreInit, Load, Save, Update, Remove, IncFail

LEMMA SpareStep ==
  ASSUME NoErrors, MaxRot = 0, TypeInv, ImageInv, DbInv, KeepInv, [Next]_vars
  PROVE  Spare'
<1> Others /\ Mine /\ CopyInv /\ LoadInv /\ FailInv /\ ToldJob /\ Settled /\ Spare
  BY DEF DbInv, GapInv, ToldInv, KeepInv
<1> JobInv /\ Flow /\ DiskOK /\ ram \in Table /\ loaded \subseteq Fid
  BY DEF TypeInv, Flow, Rest
<1>1. ASSUME CallLoad PROVE Spare'
  BY <1>1, JobIs DEF CallLoad, Call, disk, faults, Spare, SaveGap, UpdateGap
<1>2. ASSUME NEW d \in Data, CallSave(d) PROVE Spare'
  BY <1>2, JobIs DEF CallSave, Call, disk, faults, Spare, SaveGap, UpdateGap
<1>3. ASSUME NEW f \in Fid, NEW d \in Data, CallUpdate(f, d) PROVE Spare'
  BY <1>3, JobIs DEF CallUpdate, Call, disk, faults, Spare, SaveGap, UpdateGap
<1>4. ASSUME NEW f \in Fid, CallRemove(f) PROVE Spare'
  BY <1>4, JobIs DEF CallRemove, Call, disk, faults, Spare, SaveGap, UpdateGap
<1>5. ASSUME NEW f \in Fid, CallIncFail(f) PROVE Spare'
  BY <1>5, JobIs DEF CallIncFail, NoErrors, Spare, SaveGap, UpdateGap
<1>6. ASSUME InitRead PROVE Spare'
  BY <1>6, InitReadIs DEF Spare, SaveGap, UpdateGap, Op
<1>7. ASSUME InitRestore PROVE Spare'
  BY <1>7, InitRestoreIs DEF Spare, SaveGap, UpdateGap, Op
<1>8. ASSUME ResetBackup PROVE Spare'
  BY <1>8, ResetBackupIs, JobIs DEF Spare, SaveGap, UpdateGap
<1>9. ASSUME ResetNormal PROVE Spare'
  BY <1>9, ResetNormalIs DEF Spare, SaveGap, UpdateGap, Op
<1>10. ASSUME LoadDone PROVE Spare'
  BY <1>10, LoadDoneIs, JobIs DEF Spare, SaveGap, UpdateGap
<1>11. ASSUME NEW f \in Fid, LoadNormal(f) PROVE Spare'
  BY <1>11, LoadNormalIs, JobIs DEF Spare, SaveGap, UpdateGap
<1>12. ASSUME NEW f \in Fid, LoadBackup(f) PROVE Spare'
  <2> QED BY <1>12, LoadBackupIs DEF JobOn, Spare, SaveGap, UpdateGap
<1>13. ASSUME NEW f \in Fid, LoadFailed(f) PROVE Spare'
  BY <1>13, LoadFailedIs, JobIs DEF Spare, SaveGap, UpdateGap
<1>14. ASSUME LoadRestore PROVE Spare'
  BY <1>14, LoadRestoreIs, JobIs DEF Spare, SaveGap, UpdateGap
<1>15. ASSUME LoadDropBackup PROVE Spare'
  BY <1>15, LoadDropBackupIs, JobIs DEF Spare, SaveGap, UpdateGap
<1>16. ASSUME LoadSetsBackup PROVE Spare'
  BY <1>16, LoadSetsBackupIs, JobIs DEF Spare, SaveGap, UpdateGap
<1>17. ASSUME LoadDropNormal PROVE Spare'
  BY <1>17, LoadDropNormalIs, JobIs DEF Spare, SaveGap, UpdateGap
<1>18. ASSUME LoadSetsNormal PROVE Spare'
  BY <1>18, LoadSetsNormalIs, JobIs DEF Spare, SaveGap, UpdateGap
<1>19. ASSUME NEW f \in Fid, SaveFree(f) PROVE Spare'
  BY <1>19, SaveFreeIs, JobIs DEF Spare, SaveGap, UpdateGap
<1>20. ASSUME NEW f \in Fid, SaveEvict(f) PROVE Spare'
  BY <1>20, SaveEvictIs, JobIs DEF Spare, SaveGap, UpdateGap
<1>21. ASSUME SaveRefused PROVE Spare'
  BY <1>21, SaveRefusedIs, JobIs DEF Spare, SaveGap, UpdateGap
<1>22. ASSUME SaveTplBackup PROVE Spare'
  <2>1. tplB'[job.id] = job.data
    BY <1>22, SaveTplBackupIs DEF DiskOK
  <2> QED BY <1>22, <2>1, SaveTplBackupIs DEF Spare, SaveGap, UpdateGap
<1>23. ASSUME SaveSetsBackup PROVE Spare'
  BY <1>23, SaveSetsBackupIs, JobIs DEF Spare, SaveGap, UpdateGap
<1>24. ASSUME SaveUndo PROVE Spare'
  BY <1>24 DEF SaveUndo, DbInv, CopyInv
<1>25. ASSUME SaveDropNormal PROVE Spare'
  BY <1>25, SaveDropNormalIs, JobIs DEF Spare, SaveGap, UpdateGap
<1>26. ASSUME SaveSetsNormal PROVE Spare'
  BY <1>26, SaveSetsNormalIs, JobIs DEF Spare, SaveGap, UpdateGap
<1>27. ASSUME SaveTplNormal PROVE Spare'
  BY <1>27, SaveTplNormalIs, JobIs DEF Spare, SaveGap, UpdateGap
<1>28. ASSUME UpdateLookup PROVE Spare'
  BY <1>28, UpdateLookupIs, JobIs DEF Spare, SaveGap, UpdateGap
<1>29. ASSUME UpdateTplBackup PROVE Spare'
  <2>1. tplB'[job.id] = job.data
    BY <1>29, UpdateTplBackupIs DEF DiskOK
  <2>2. setsN.tbl = ram
    BY <1>29, UpdateTplBackupIs, WholeIs DEF CopyInv, Synced
  <2>3. tplN[job.id] = ram[job.id].sum /\ ram[job.id].sum # NoData
    BY <1>29, UpdateTplBackupIs DEF LoadInv, Settled, Rewriting, UpdateGap, RemoveGap
  <2> QED BY <1>29, <2>1, <2>2, <2>3, UpdateTplBackupIs DEF Spare, SaveGap, UpdateGap
<1>30. ASSUME UpdateSetsBackup PROVE Spare'
  BY <1>30, UpdateSetsBackupIs, JobIs DEF Spare, SaveGap, UpdateGap
<1>31. ASSUME UpdateSetsNormal PROVE Spare'
  BY <1>31, UpdateSetsNormalIs, JobIs DEF Spare, SaveGap, UpdateGap
<1>32. ASSUME UpdateTplNormal PROVE Spare'
  BY <1>32, UpdateTplNormalIs, JobIs DEF Spare, SaveGap, UpdateGap
<1>33. ASSUME RemoveLookup PROVE Spare'
  BY <1>33, RemoveLookupIs, JobIs DEF Spare, SaveGap, UpdateGap
<1>34. ASSUME RemoveSetsBackup PROVE Spare'
  BY <1>34, RemoveSetsBackupIs, JobIs DEF Spare, SaveGap, UpdateGap
<1>35. ASSUME RemoveTplBackup PROVE Spare'
  BY <1>35, RemoveTplBackupIs, JobIs DEF Spare, SaveGap, UpdateGap
<1>36. ASSUME RemoveSetsNormal PROVE Spare'
  BY <1>36, RemoveSetsNormalIs, JobIs DEF Spare, SaveGap, UpdateGap
<1>37. ASSUME RemoveTplNormal PROVE Spare'
  BY <1>37, RemoveTplNormalIs, JobIs DEF Spare, SaveGap, UpdateGap
<1>38. ASSUME IncFailLookup PROVE Spare'
  BY <1>38 DEF IncFailLookup, TypeInv, Flow, ImageInv, JobInv, IncLabel
<1>39. ASSUME IncFailDrop PROVE Spare'
  BY <1>39 DEF IncFailDrop, TypeInv, Flow, ImageInv, JobInv, IncLabel
<1>40. ASSUME IncFailSets PROVE Spare'
  BY <1>40 DEF IncFailSets, TypeInv, Flow, ImageInv, JobInv, IncLabel
<1>41. ASSUME Crash PROVE Spare'
  BY <1>41, JobIs DEF Crash, Torn, faults, Spare, SaveGap, UpdateGap
<1>42. ASSUME NEW f \in Fid, Rot(f) PROVE Spare'
  BY <1>42 DEF Rot, TypeInv, Rest
<1>43. ASSUME UNCHANGED vars PROVE Spare'
  BY <1>43, JobIs, SMTT(60) DEF vars, Spare, SaveGap, UpdateGap
<1> QED
  BY <1>1, <1>2, <1>3, <1>4, <1>5, <1>6, <1>7, <1>8, <1>9, <1>10, <1>11, <1>12, <1>13,
     <1>14, <1>15, <1>16, <1>17, <1>18, <1>19, <1>20, <1>21, <1>22, <1>23, <1>24, <1>25, <1>26,
     <1>27, <1>28, <1>29, <1>30, <1>31, <1>32, <1>33, <1>34, <1>35, <1>36, <1>37, <1>38, <1>39,
     <1>40, <1>41, <1>42, <1>43
     DEF Next, ClientCall, StoreStep, StoreInit, Load, Save, Update, Remove, IncFail

(* What a restart would find of the template the call is about: what it    *)
(* found before the step, or what the call makes of it.                    *)
MineKept == \/ Recovered'[job.id] = Recovered[job.id]
            \/ job.op \in {"save", "update", "remove"} /\ Recovered'[job.id] = job.data

LEMMA MineRecovered ==
  ASSUME NoErrors, MaxRot = 0, TypeInv, ImageInv, DbInv, KeepInv, job.id \in Fid, [Next]_vars
  PROVE  MineKept
<1> Others /\ Mine /\ CopyInv /\ LoadInv /\ FailInv /\ ToldJob /\ Settled /\ Spare
  BY DEF DbInv, GapInv, ToldInv, KeepInv
<1> JobInv /\ Flow /\ DiskOK /\ ram \in Table /\ loaded \subseteq Fid
  BY DEF TypeInv, Flow, Rest
<1> USE DEF MineKept, Recovered
<1>1. ASSUME CallLoad PROVE MineKept
  BY <1>1 DEF CallLoad, Call, disk, faults, Source
<1>2. ASSUME NEW d \in Data, CallSave(d) PROVE MineKept
  BY <1>2 DEF CallSave, Call, disk, faults, Source
<1>3. ASSUME NEW f \in Fid, NEW d \in Data, CallUpdate(f, d) PROVE MineKept
  BY <1>3 DEF CallUpdate, Call, disk, faults, Source
<1>4. ASSUME NEW f \in Fid, CallRemove(f) PROVE MineKept
  BY <1>4 DEF CallRemove, Call, disk, faults, Source
<1>5. ASSUME NEW f \in Fid, CallIncFail(f) PROVE MineKept
  BY <1>5 DEF CallIncFail, NoErrors, Source
<1>6. ASSUME InitRead PROVE MineKept
  BY <1>6, InitReadIs DEF Source
<1>7. ASSUME InitRestore PROVE MineKept
  <2>1. Source' = Source
    BY <1>7, InitRestoreIs, SourceMoves DEF Ahead, LoadGap, SaveGap, UpdateGap, RemoveGap
  <2> QED BY <1>7, <2>1, InitRestoreIs
<1>8. ASSUME ResetBackup PROVE MineKept
  <2>1. Source' = Source
    BY <1>8, ResetBackupIs, SourceMoves DEF Ahead, LoadGap, SaveGap, UpdateGap, RemoveGap
  <2> QED BY <1>8, <2>1, ResetBackupIs
<1>9. ASSUME ResetNormal PROVE MineKept
  <2>1. Source' = Source
    BY <1>9, ResetNormalIs, SourceMoves DEF Ahead, LoadGap, SaveGap, UpdateGap, RemoveGap
  <2> QED BY <1>9, <2>1, ResetNormalIs
<1>10. ASSUME LoadDone PROVE MineKept
  BY <1>10, LoadDoneIs DEF Source
<1>11. ASSUME NEW f \in Fid, LoadNormal(f) PROVE MineKept
  BY <1>11, LoadNormalIs DEF Source
<1>12. ASSUME NEW f \in Fid, LoadBackup(f) PROVE MineKept
  BY <1>12, LoadBackupIs DEF Source
<1>13. ASSUME NEW f \in Fid, LoadFailed(f) PROVE MineKept
  BY <1>13, LoadFailedIs DEF Source
<1>14. ASSUME LoadRestore PROVE MineKept
  <2>1. Source = ram /\ Source' = Source
    BY <1>14, LoadRestoreIs, WholeIs DEF CopyInv, Synced, Source
  <2>2. tplB[job.id] = ram[job.id].sum
    BY <1>14, LoadRestoreIs DEF Spare
  <2> QED BY <1>14, <2>1, <2>2, LoadRestoreIs DEF DiskOK
<1>15. ASSUME LoadDropBackup PROVE MineKept
  <2>1. Source = setsN.tbl /\ Source' = Source
    BY <1>15, LoadDropBackupIs DEF ImageInv, InitLabel, Source
  <2>2. ~Readable(Source, job.id)
    BY <1>15, <2>1, LoadDropBackupIs DEF Mine, LoadGap
  <2> QED BY <1>15, <2>1, <2>2, LoadDropBackupIs DEF DiskOK, Readable
<1>16. ASSUME LoadSetsBackup PROVE MineKept
  <2>1. Source' = Source
    BY <1>16, LoadSetsBackupIs DEF ImageInv, InitLabel, Source
  <2> QED BY <1>16, <2>1, LoadSetsBackupIs
<1>17. ASSUME LoadDropNormal PROVE MineKept
  <2>1. Source = setsN.tbl /\ Source' = Source
    BY <1>17, LoadDropNormalIs DEF ImageInv, InitLabel, Source
  <2>2. ~Readable(Source, job.id)
    BY <1>17, <2>1, LoadDropNormalIs DEF Mine, LoadGap
  <2> QED BY <1>17, <2>1, <2>2, LoadDropNormalIs DEF DiskOK, Readable
<1>18. ASSUME LoadSetsNormal PROVE MineKept
  <2>1. Source = setsN.tbl /\ Source' = ram
    BY <1>18, LoadSetsNormalIs, WholeIs DEF ImageInv, InitLabel, Source
  <2>2. /\ ~Readable(setsN.tbl, job.id)
        /\ ram[job.id].sum \in {NoData, setsN.tbl[job.id].sum}
    BY <1>18, LoadSetsNormalIs, WholeIs DEF Mine, LoadGap
  <2> QED BY <1>18, <2>1, <2>2, LoadSetsNormalIs DEF Readable
<1>19. ASSUME NEW f \in Fid, SaveFree(f) PROVE MineKept
  BY <1>19, SaveFreeIs DEF Source
<1>20. ASSUME NEW f \in Fid, SaveEvict(f) PROVE MineKept
  <2>1. job.id = NoFid
    BY <1>20, SaveEvictIs DEF ToldJob, SaveLabel
  <2> QED BY <2>1, IdAssumption
<1>21. ASSUME SaveRefused PROVE MineKept
  BY <1>21, SaveRefusedIs DEF Source
<1>22. ASSUME SaveTplBackup PROVE MineKept
  <2>1. Source = setsN.tbl /\ Source' = Source
    BY <1>22, SaveTplBackupIs DEF ImageInv, InitLabel, Source
  <2>2. Source[job.id].sum = NoData
    BY <1>22, <2>1, SaveTplBackupIs DEF Mine, SaveGap
  <2> QED BY <2>1, <2>2
<1>23. ASSUME SaveSetsBackup PROVE MineKept
  <2>1. Source' = Source
    BY <1>23, SaveSetsBackupIs DEF ImageInv, InitLabel, Source
  <2> QED BY <1>23, <2>1, SaveSetsBackupIs
<1>24. ASSUME SaveUndo PROVE MineKept
  BY <1>24 DEF SaveUndo, DbInv, CopyInv
<1>25. ASSUME SaveDropNormal PROVE MineKept
  <2>1. Source = setsN.tbl /\ Source' = Source
    BY <1>25, SaveDropNormalIs DEF ImageInv, InitLabel, Source
  <2>2. Source[job.id].sum = NoData
    BY <1>25, <2>1, SaveDropNormalIs DEF Mine, SaveGap
  <2> QED BY <2>1, <2>2
<1>26. ASSUME SaveSetsNormal PROVE MineKept
  <2>1. Source = setsN.tbl /\ Source' = ram
    BY <1>26, SaveSetsNormalIs, WholeIs DEF ImageInv, InitLabel, Source
  <2>2. ram[job.id].sum = job.data /\ tplB[job.id] = job.data
    BY <1>26, SaveSetsNormalIs, WholeIs DEF Mine, Spare, SaveGap, UpdateGap
  <2> QED BY <1>26, <2>1, <2>2, SaveSetsNormalIs DEF Readable
<1>27. ASSUME SaveTplNormal PROVE MineKept
  <2>1. Source = ram /\ Source' = Source
    BY <1>27, SaveTplNormalIs, WholeIs DEF CopyInv, Synced, Source
  <2>2. tplB[job.id] = job.data /\ ram[job.id].sum = job.data
    BY <1>27, SaveTplNormalIs DEF Spare, Mine
  <2> QED BY <1>27, <2>1, <2>2, SaveTplNormalIs DEF DiskOK
<1>28. ASSUME UpdateLookup PROVE MineKept
  BY <1>28, UpdateLookupIs DEF Source
<1>29. ASSUME UpdateTplBackup PROVE MineKept
  <2>1. Source = ram /\ Source' = Source
    BY <1>29, UpdateTplBackupIs, WholeIs DEF CopyInv, Synced, Source
  <2>2. tplN[job.id] = ram[job.id].sum
    BY <1>29, UpdateTplBackupIs DEF LoadInv, Settled, Rewriting, UpdateGap, RemoveGap
  <2> QED BY <1>29, <2>1, <2>2, UpdateTplBackupIs DEF DiskOK
<1>30. ASSUME UpdateSetsBackup PROVE MineKept
  <2>1. Source' = Source
    BY <1>30, UpdateSetsBackupIs DEF ImageInv, InitLabel, Source
  <2> QED BY <1>30, <2>1, UpdateSetsBackupIs
<1>31. ASSUME UpdateSetsNormal PROVE MineKept
  <2>1. Source = setsN.tbl /\ Source' = ram
    BY <1>31, UpdateSetsNormalIs, WholeIs DEF ImageInv, InitLabel, Source
  <2>2. ram[job.id].sum = job.data /\ tplB[job.id] = job.data
    BY <1>31, UpdateSetsNormalIs, WholeIs DEF Mine, Spare, SaveGap, UpdateGap
  <2> QED BY <1>31, <2>1, <2>2, UpdateSetsNormalIs DEF Readable
<1>32. ASSUME UpdateTplNormal PROVE MineKept
  <2>1. Source = ram /\ Source' = Source
    BY <1>32, UpdateTplNormalIs, WholeIs DEF CopyInv, Synced, Source
  <2>2. tplB[job.id] = job.data /\ ram[job.id].sum = job.data
    BY <1>32, UpdateTplNormalIs DEF Spare, Mine
  <2> QED BY <1>32, <2>1, <2>2, UpdateTplNormalIs DEF DiskOK
<1>33. ASSUME RemoveLookup PROVE MineKept
  BY <1>33, RemoveLookupIs DEF Source
<1>34. ASSUME RemoveSetsBackup PROVE MineKept
  <2>1. Source' = Source
    BY <1>34, RemoveSetsBackupIs DEF ImageInv, InitLabel, Source
  <2> QED BY <1>34, <2>1, RemoveSetsBackupIs
<1>35. ASSUME RemoveTplBackup PROVE MineKept
  <2>1. Source' = Source
    BY <1>35, RemoveTplBackupIs DEF ImageInv, InitLabel, Source
  <2>2. job.data = NoData
    BY <1>35, RemoveTplBackupIs DEF ToldJob
  <2> QED BY <1>35, <2>1, <2>2, RemoveTplBackupIs DEF DiskOK
<1>36. ASSUME RemoveSetsNormal PROVE MineKept
  <2>1. Source = setsN.tbl /\ Source' = ram
    BY <1>36, RemoveSetsNormalIs, WholeIs DEF ImageInv, InitLabel, Source
  <2>2. ram[job.id].sum = NoData /\ job.data = NoData
    BY <1>36, RemoveSetsNormalIs, WholeIs DEF Mine, RemoveGap, ToldJob
  <2> QED BY <1>36, <2>1, <2>2, RemoveSetsNormalIs DEF Readable
<1>37. ASSUME RemoveTplNormal PROVE MineKept
  <2>1. Source = ram /\ Source' = Source
    BY <1>37, RemoveTplNormalIs, WholeIs DEF CopyInv, Synced, Source
  <2>2. ram[job.id].sum = NoData
    BY <1>37, RemoveTplNormalIs, WholeIs DEF Mine
  <2> QED BY <1>37, <2>1, <2>2, RemoveTplNormalIs DEF DiskOK
<1>38. ASSUME IncFailLookup PROVE MineKept
  BY <1>38 DEF IncFailLookup, TypeInv, Flow, ImageInv, JobInv, IncLabel
<1>39. ASSUME IncFailDrop PROVE MineKept
  BY <1>39 DEF IncFailDrop, TypeInv, Flow, ImageInv, JobInv, IncLabel
<1>40. ASSUME IncFailSets PROVE MineKept
  BY <1>40 DEF IncFailSets, TypeInv, Flow, ImageInv, JobInv, IncLabel
<1>41. ASSUME Crash PROVE MineKept
  <2>1. /\ tplN'[job.id] = tplN[job.id] \/ (tplN'[job.id] = NoData /\ pc \in WritesTplN)
        /\ tplB'[job.id] = tplB[job.id] \/ (tplB'[job.id] = NoData /\ pc \in WritesTplB)
    BY <1>41 DEF Crash, Torn
  <2>2. CASE Source' # Source
    <3>1. pc \in Ahead /\ Source = setsN.tbl /\ Source' = ram
      BY <2>2, SourceMoves
    <3>2. CASE pc \in LoadGap
      <4>1. tplN'[job.id] = tplN[job.id] /\ tplB'[job.id] = tplB[job.id]
        BY <2>1, <3>2 DEF WritesTplN, WritesTplB, LoadGap
      <4> QED BY <3>1, <3>2, <4>1 DEF Mine, Readable
    <3>3. CASE pc = "save_tplB"
      BY <3>1, <3>3 DEF Mine
    <3>4. CASE pc \in SaveGap \cup UpdateGap
      <4>1. tplB'[job.id] = job.data /\ job.op \in {"save", "update"}
        BY <2>1, <3>4 DEF WritesTplB, SaveGap, UpdateGap, Spare, JobInv, SaveLabel, UpdateLabel
      <4> QED BY <3>1, <3>4, <4>1 DEF Mine
    <3>5. CASE pc \in RemoveGap
      <4>1. job.data = NoData /\ job.op = "remove"
        BY <3>5 DEF RemoveGap, ToldJob, JobInv, RemoveLabel
      <4> QED BY <3>1, <3>5, <4>1, WholeIs DEF Mine
    <3> QED BY <3>1, <3>2, <3>3, <3>4, <3>5 DEF Ahead
  <2>3. CASE Source' = Source /\ pc \in WritesTplN
    <3>1. Source = ram /\ inited /\ tplB'[job.id] = tplB[job.id]
      BY <2>1, <2>3, WholeIs DEF WritesTplN, WritesTplB, CopyInv, Synced, JobInv, Source
    <3>2. tplB[job.id] = ram[job.id].sum
      BY <2>3 DEF WritesTplN, Spare, Mine
    <3> QED BY <2>3, <3>1, <3>2
  <2>4. CASE Source' = Source /\ pc = "save_tplB"
    <3>1. Source[job.id].sum = NoData
      BY <2>4 DEF ImageInv, InitLabel, JobInv, Source, Mine
    <3> QED BY <2>4, <3>1
  <2>5. CASE Source' = Source /\ pc = "upd_tplB"
    <3>1. Source = ram /\ inited /\ tplN'[job.id] = tplN[job.id]
      BY <2>1, <2>5, WholeIs DEF WritesTplN, CopyInv, Synced, JobInv, Source
    <3>2. tplN[job.id] = ram[job.id].sum
      BY <2>5 DEF LoadInv, Settled, Rewriting, UpdateGap, RemoveGap, JobInv, UpdateLabel
    <3> QED BY <2>5, <3>1, <3>2
  <2> QED BY <2>1, <2>2, <2>3, <2>4, <2>5 DEF WritesTplB
<1>42. ASSUME NEW f \in Fid, Rot(f) PROVE MineKept
  BY <1>42 DEF Rot, TypeInv, Rest
<1>43. ASSUME UNCHANGED vars PROVE MineKept
  BY <1>43 DEF vars, Source
<1> QED
  BY <1>1, <1>2, <1>3, <1>4, <1>5, <1>6, <1>7, <1>8, <1>9, <1>10, <1>11, <1>12, <1>13,
     <1>14, <1>15, <1>16, <1>17, <1>18, <1>19, <1>20, <1>21, <1>22, <1>23, <1>24, <1>25, <1>26,
     <1>27, <1>28, <1>29, <1>30, <1>31, <1>32, <1>33, <1>34, <1>35, <1>36, <1>37, <1>38, <1>39,
     <1>40, <1>41, <1>42, <1>43
     DEF Next, ClientCall, StoreStep, StoreInit, Load, Save, Update, Remove, IncFail

LEMMA KeepInit == Init => KeepInv
<1>1. NoJob.op = "none"
  BY DEF NoJob
<1> QED BY <1>1 DEF Init, KeepInv, Settled, Spare, SaveGap, UpdateGap

LEMMA KeepAlways ==
  ASSUME NoErrors, MaxRot = 0
  PROVE  Spec => [](TypeInv /\ ImageInv /\ DbInv /\ KeepInv)
<1>1. Init => TypeInv /\ ImageInv /\ DbInv /\ KeepInv
  BY TypeInit, DbInit, KeepInit
<1>2. TypeInv /\ ImageInv /\ DbInv /\ KeepInv /\ [Next]_vars
        => (TypeInv /\ ImageInv /\ DbInv /\ KeepInv)'
  <2>1. TypeInv /\ ImageInv /\ DbInv /\ KeepInv /\ [Next]_vars => KeepInv'
    BY SettledStep, SpareStep DEF KeepInv
  <2> QED BY <2>1, TypeStep, DbStep
<1> QED BY <1>1, <1>2, PTL DEF Spec

(* Every finger the matching library holds is one a restart would find, in *)
(* every step of every call and wherever power is lost: the one a call is  *)
(* removing is the only exception.                                         *)
THEOREM LoadedSurvive ==
  ASSUME NoErrors, MaxRot = 0
  PROVE  Spec => []LoadedSurvives
<1>1. ASSUME TypeInv, ImageInv, DbInv, KeepInv PROVE LoadedSurvives
  <2> SUFFICES ASSUME NEW f \in loaded, ~(job.op = "remove" /\ job.id = f)
               PROVE  Recovered[f] # NoData
    BY DEF LoadedSurvives
  <2> CopyInv /\ Others /\ Mine /\ LoadInv /\ Settled /\ Spare /\ JobInv /\ pc \in Label /\ f \in Fid
    BY <1>1 DEF DbInv, GapInv, KeepInv, TypeInv, Flow, Rest
  <2>1. inited /\ pc \notin InitLabel /\ Source = setsN.tbl /\ ram[f].sum # NoData
    BY <1>1 DEF LoadInv, ImageInv, Source
  <2>2. pc \in Synced \cup LoadGap \cup {"save_tplB"} \cup SaveGap \cup UpdateGap \cup RemoveGap
    BY <1>1, <2>1 DEF ImageInv, CopyInv, JobInv, Label, WritesSetsN, WritesSetsB, WritesTplN, WritesTplB,
           InitLabel, IncLabel, Synced, LoadGap, SaveGap, UpdateGap, RemoveGap
  <2>3. CASE pc \in Synced
    <3>1. Source = ram
      BY <2>1, <2>3, WholeIs DEF CopyInv
    <3>2. ram[f].sum \in {tplN[f], tplB[f]}
      BY <2>3 DEF Settled, Spare, Mine, Rewriting, Synced, UpdateGap, RemoveGap, JobInv, RemoveLabel
    <3> QED BY <2>1, <3>1, <3>2 DEF Recovered
  <2>4. CASE pc \in LoadGap \cup {"save_tplB"} \cup SaveGap \cup UpdateGap \cup RemoveGap
    <3>1. CASE f = job.id
      <4>1. pc \in UpdateGap
        BY <2>4, <3>1 DEF LoadInv, SaveGap, RemoveGap, SaveLabel, JobInv, RemoveLabel
      <4> QED BY <2>1, <3>1, <4>1 DEF Spare, Recovered
    <3>2. CASE f # job.id
      <4>1. ram[f] = Source[f]
        BY <2>1, <2>4, <3>2, WholeIs DEF Others, Ahead
      <4>2. tplN[f] = ram[f].sum
        BY <3>2 DEF Settled
      <4> QED BY <2>1, <4>1, <4>2 DEF Recovered
    <3> QED BY <3>1, <3>2
  <2> QED BY <2>2, <2>3, <2>4
<1> QED BY <1>1, KeepAlways, PTL

(* The refinement, one lemma for each way a step can look to the caller.   *)
DbMoves == [Db!Next]_(Db!dbVars)

LEMMA DbCallIs ==
  /\ job.op \in {"save", "update", "remove"} /\ job.id # NoFid
       => /\ DbCall = [op |-> job.op, id |-> job.id, data |-> job.data]
          /\ DbCall.id = job.id /\ DbCall.data = job.data /\ DbCall # Db!NoCall
  /\ job.op \notin {"save", "update", "remove"} \/ job.id = NoFid => DbCall = Db!NoCall
<1>1. ASSUME NEW o \in {"save", "update", "remove"}, NEW i, NEW d
      PROVE  [op |-> o, id |-> i, data |-> d] # Db!NoCall
  <2>1. Db!NoCall.op = "none" /\ [op |-> o, id |-> i, data |-> d].op = o
    BY DEF Db!NoCall
  <2> QED BY <2>1
<1> QED BY <1>1 DEF DbCall, Db!NoCall

(* A step leaves what a restart would find, or applies the call.           *)
LEMMA DbFrame ==
  ASSUME NoErrors, MaxRot = 0, TypeInv, ImageInv, DbInv, KeepInv, [Next]_vars
  PROVE  Recovered' = Recovered \/ (DbCall # Db!NoCall /\ Recovered' = Db!Applied)
<1>1. rots' = rots
  <2>1. rots \in 0 .. 0 /\ rots' \in 0 .. 0
    BY TypeStep DEF TypeInv, Rest
  <2> QED BY <2>1
<1>2. \A f \in Fid \ {job.id} : Recovered'[f] = Recovered[f]
  BY <1>1, OthersRecovered
<1>3. /\ Recovered = [f \in Fid |-> Recovered[f]]
      /\ Recovered' = [f \in Fid |-> Recovered'[f]]
  BY DEF Recovered
<1>4. CASE job.id \notin Fid \/ Recovered'[job.id] = Recovered[job.id]
  <2>1. \A f \in Fid : Recovered'[f] = Recovered[f]
    BY <1>2, <1>4
  <2> QED BY <1>3, <2>1, Zenon
<1>5. CASE job.id \in Fid /\ Recovered'[job.id] # Recovered[job.id]
  <2>1. job.op \in {"save", "update", "remove"} /\ Recovered'[job.id] = job.data
    BY <1>5, MineRecovered DEF MineKept
  <2>2. DbCall # Db!NoCall /\ DbCall.id = job.id /\ DbCall.data = job.data
    BY <1>5, <2>1, DbCallIs, IdAssumption
  <2>3. Recovered' = [Recovered EXCEPT ![job.id] = job.data]
    BY <1>2, <1>3, <1>5, <2>1
  <2> QED BY <2>2, <2>3 DEF Db!Applied
<1> QED BY <1>4, <1>5

(* The caller sees nothing: the call takes effect or stays as it is.       *)
LEMMA DbQuiet ==
  ASSUME NoErrors, MaxRot = 0, TypeInv, ImageInv, DbInv, KeepInv, [Next]_vars,
         DbCall' = DbCall, told' = told
  PROVE  DbMoves
BY DbFrame DEF DbMoves, Db!Next, Db!Commit, Db!dbVars

LEMMA DbSame ==
  ASSUME NoErrors, MaxRot = 0, TypeInv, ImageInv, DbInv, KeepInv, [Next]_vars,
         job' = job, told' = told
  PROVE  DbMoves
<1>1. DbCall' = DbCall
  BY DEF DbCall
<1> QED BY <1>1, DbQuiet

(* The call ends without a word to the caller.                             *)
LEMMA DbEnds ==
  ASSUME NoErrors, MaxRot = 0, TypeInv, ImageInv, DbInv, KeepInv, [Next]_vars,
         job' = NoJob, told' = told
  PROVE  DbMoves
<1>1. DbCall' = Db!NoCall
  BY DEF NoJob, DbCall, Db!NoCall
<1>2. CASE DbCall = Db!NoCall
  BY <1>1, <1>2, DbQuiet
<1>3. CASE DbCall # Db!NoCall
  BY <1>1, <1>3, DbFrame DEF DbMoves, Db!Next, Db!Fail
<1> QED BY <1>2, <1>3

(* The call reports success, and has taken effect.                         *)
LEMMA DbSucceeds ==
  ASSUME NoErrors, MaxRot = 0, TypeInv, ImageInv, DbInv, KeepInv, [Next]_vars,
         job.op \in {"save", "update", "remove"}, job.id \in Fid,
         Recovered[job.id] = job.data,
         job' = NoJob, told' = [told EXCEPT ![job.id] = job.data]
  PROVE  DbMoves
<1>1. DbCall' = Db!NoCall
  BY DEF NoJob, DbCall, Db!NoCall
<1>2. DbCall # Db!NoCall /\ DbCall.id = job.id /\ DbCall.data = job.data
  BY DbCallIs, IdAssumption
<1>3. Recovered = [f \in Fid |-> Recovered[f]]
  BY DEF Recovered
<1>4. [Recovered EXCEPT ![job.id] = job.data] = Recovered
  BY <1>3
<1>5. Recovered' = Recovered
  BY <1>2, <1>4, DbFrame DEF Db!Applied
<1> QED BY <1>1, <1>2, <1>5 DEF DbMoves, Db!Next, Db!Succeed

(* A call that names an id begins.                                         *)
LEMMA DbBegins ==
  ASSUME NoErrors, MaxRot = 0, TypeInv, ImageInv, DbInv, KeepInv, [Next]_vars,
         job.op \notin {"save", "update", "remove"} \/ job.id = NoFid,
         NEW o \in {"save", "update", "remove"}, NEW f \in Fid, NEW d \in Data \cup {NoData},
         o = "save" => Recovered[f] = NoData,
         o = "remove" => d = NoData,
         o # "remove" => d # NoData,
         job'.op = o, job'.id = f, job'.data = d,
         told' = [told EXCEPT ![f] = Unknown]
  PROVE  DbMoves
<1>1. DbCall = Db!NoCall
  BY DbCallIs
<1>2. DbCall' = [op |-> o, id |-> f, data |-> d]
  BY IdAssumption DEF DbCall
<1>3. Recovered' = Recovered
  BY <1>1, DbFrame
<1>4. Db!Begin(o, f, d)
  BY <1>1, <1>2, <1>3 DEF Db!Begin
<1> QED BY <1>4 DEF DbMoves, Db!Next, Db!Mutators

LEMMA DbSimulated ==
  ASSUME NoErrors, MaxRot = 0, TypeInv, ImageInv, DbInv, KeepInv, [Next]_vars
  PROVE  DbMoves
<1> Others /\ Mine /\ CopyInv /\ LoadInv /\ FailInv /\ ToldJob /\ Settled /\ Spare
  BY DEF DbInv, GapInv, ToldInv, KeepInv
<1> JobInv /\ Flow /\ DiskOK /\ ram \in Table /\ loaded \subseteq Fid
  BY DEF TypeInv, Flow, Rest
<1>1. ASSUME CallLoad PROVE DbMoves
  <2>1. job = NoJob /\ (job'.op \notin {"save", "update", "remove"} \/ job'.id = NoFid)
    BY <1>1 DEF CallLoad, Call, JobInv
  <2>2. told' = told
    BY <1>1, IdAssumption DEF CallLoad, Call, Flow
  <2>3. DbCall' = DbCall
    BY <2>1, JobIs DEF DbCall
  <2> QED BY <2>2, <2>3, DbQuiet
<1>2. ASSUME NEW d \in Data, CallSave(d) PROVE DbMoves
  <2>1. job = NoJob /\ (job'.op \notin {"save", "update", "remove"} \/ job'.id = NoFid)
    BY <1>2 DEF CallSave, Call, JobInv
  <2>2. told' = told
    BY <1>2, IdAssumption DEF CallSave, Call, Flow
  <2>3. DbCall' = DbCall
    BY <2>1, JobIs DEF DbCall
  <2> QED BY <2>2, <2>3, DbQuiet
<1>3. ASSUME NEW f \in Fid, NEW d \in Data, CallUpdate(f, d) PROVE DbMoves
  <2>1. job = NoJob /\ job'.op = "update" /\ job'.id = f /\ job'.data = d
    BY <1>3 DEF CallUpdate, Call, JobInv
  <2>2. told' = [told EXCEPT ![f] = Unknown]
    BY <1>3 DEF CallUpdate, Call, Flow
  <2>3. job.op \notin {"save", "update", "remove"}
    BY <2>1, JobIs
  <2> QED BY <2>1, <2>2, <2>3, DbBegins, DataAssumption
<1>4. ASSUME NEW f \in Fid, CallRemove(f) PROVE DbMoves
  <2>1. job = NoJob /\ job'.op = "remove" /\ job'.id = f /\ job'.data = NoData
    BY <1>4 DEF CallRemove, Call, JobInv
  <2>2. told' = [told EXCEPT ![f] = Unknown]
    BY <1>4 DEF CallRemove, Call, Flow
  <2>3. job.op \notin {"save", "update", "remove"}
    BY <2>1, JobIs
  <2> QED BY <2>1, <2>2, <2>3, DbBegins, DataAssumption
<1>5. ASSUME NEW f \in Fid, CallIncFail(f) PROVE DbMoves
  BY <1>5, DbSame DEF CallIncFail, NoErrors
<1>6. ASSUME InitRead PROVE DbMoves
  BY <1>6, InitReadIs, DbSame
<1>7. ASSUME InitRestore PROVE DbMoves
  BY <1>7, InitRestoreIs, DbSame
<1>8. ASSUME ResetBackup PROVE DbMoves
  BY <1>8, ResetBackupIs, DbSame
<1>9. ASSUME ResetNormal PROVE DbMoves
  BY <1>9, ResetNormalIs, DbSame
<1>10. ASSUME LoadDone PROVE DbMoves
  BY <1>10, DbEnds, LoadDoneIs
<1>11. ASSUME NEW f \in Fid, LoadNormal(f) PROVE DbMoves
  <2>1. job.op = "load" /\ job'.op = "load" /\ told' = told
    BY <1>11, LoadNormalIs DEF JobOn
  <2>2. DbCall' = DbCall
    BY <2>1 DEF DbCall
  <2> QED BY <2>1, <2>2, DbQuiet
<1>12. ASSUME NEW f \in Fid, LoadBackup(f) PROVE DbMoves
  <2>1. job.op = "load" /\ job'.op = "load" /\ told' = told
    BY <1>12, LoadBackupIs DEF JobOn
  <2>2. DbCall' = DbCall
    BY <2>1 DEF DbCall
  <2> QED BY <2>1, <2>2, DbQuiet
<1>13. ASSUME NEW f \in Fid, LoadFailed(f) PROVE DbMoves
  <2>1. job.op = "load" /\ job'.op = "load" /\ told' = told
    BY <1>13, LoadFailedIs DEF JobOn
  <2>2. DbCall' = DbCall
    BY <2>1 DEF DbCall
  <2> QED BY <2>1, <2>2, DbQuiet
<1>14. ASSUME LoadRestore PROVE DbMoves
  BY <1>14, LoadRestoreIs, DbSame
<1>15. ASSUME LoadDropBackup PROVE DbMoves
  BY <1>15, LoadDropBackupIs, DbSame
<1>16. ASSUME LoadSetsBackup PROVE DbMoves
  BY <1>16, LoadSetsBackupIs, DbSame
<1>17. ASSUME LoadDropNormal PROVE DbMoves
  BY <1>17, LoadDropNormalIs, DbSame
<1>18. ASSUME LoadSetsNormal PROVE DbMoves
  BY <1>18, LoadSetsNormalIs, DbSame
<1>19. ASSUME NEW f \in Fid, SaveFree(f) PROVE DbMoves
  <2>1. job.id = NoFid /\ job.data \in Data
    BY <1>19, SaveFreeIs DEF ToldJob, SaveLabel
  <2>2. Source = ram
    BY <1>19, SaveFreeIs, WholeIs DEF CopyInv, Synced, Source
  <2>3. Recovered[f] = NoData
    BY <1>19, <2>2, SaveFreeIs DEF Recovered
  <2>4. /\ job'.op = "save" /\ job'.id = f /\ job'.data = job.data
        /\ told' = [told EXCEPT ![f] = Unknown]
    BY <1>19, SaveFreeIs DEF JobOn
  <2> QED BY <2>1, <2>3, <2>4, DbBegins, DataAssumption
<1>20. ASSUME NEW f \in Fid, SaveEvict(f) PROVE DbMoves
  <2>1. job.id = NoFid /\ job.data \in Data
    BY <1>20, SaveEvictIs DEF ToldJob, SaveLabel
  <2>2. Source = ram
    BY <1>20, SaveEvictIs, WholeIs DEF CopyInv, Synced, Source
  <2>3. Recovered[f] = NoData
    BY <1>20, <2>2, SaveEvictIs DEF Recovered
  <2>4. /\ job'.op = "save" /\ job'.id = f /\ job'.data = job.data
        /\ told' = [told EXCEPT ![f] = Unknown]
    BY <1>20, SaveEvictIs DEF JobOn
  <2> QED BY <2>1, <2>3, <2>4, DbBegins, DataAssumption
<1>21. ASSUME SaveRefused PROVE DbMoves
  BY <1>21, DbEnds, SaveRefusedIs
<1>22. ASSUME SaveTplBackup PROVE DbMoves
  BY <1>22, SaveTplBackupIs, DbSame
<1>23. ASSUME SaveSetsBackup PROVE DbMoves
  BY <1>23, SaveSetsBackupIs, DbSame
<1>24. ASSUME SaveUndo PROVE DbMoves
  BY <1>24 DEF SaveUndo, DbInv, CopyInv
<1>25. ASSUME SaveDropNormal PROVE DbMoves
  BY <1>25, SaveDropNormalIs, DbSame
<1>26. ASSUME SaveSetsNormal PROVE DbMoves
  BY <1>26, SaveSetsNormalIs, DbSame
<1>27. ASSUME SaveTplNormal PROVE DbMoves
  <2>1. Source = ram
    BY <1>27, SaveTplNormalIs, WholeIs DEF CopyInv, Synced, Source
  <2>2. tplB[job.id] = job.data /\ ram[job.id].sum = job.data
    BY <1>27, SaveTplNormalIs, WholeIs DEF Spare, Mine
  <2>3. Recovered[job.id] = job.data
    BY <1>27, <2>1, <2>2, SaveTplNormalIs DEF Recovered
  <2> QED BY <1>27, <2>3, SaveTplNormalIs, DbSucceeds
<1>28. ASSUME UpdateLookup PROVE DbMoves
  <2>1. CASE ram[job.id].sum = NoData /\ job' = NoJob /\ told' = told
    BY <2>1, DbEnds
  <2>2. CASE /\ ram[job.id].sum = job.data /\ job' = NoJob
             /\ told' = [told EXCEPT ![job.id] = job.data]
    <3>1. Source = ram
      BY <1>28, UpdateLookupIs, WholeIs DEF CopyInv, Synced, Source, UpdateLookup
    <3>2. tplN[job.id] = ram[job.id].sum
      BY <1>28, UpdateLookupIs DEF LoadInv, Settled, Rewriting, UpdateGap, RemoveGap
    <3>3. Recovered[job.id] = job.data
      BY <1>28, <2>2, <3>1, <3>2, UpdateLookupIs DEF Recovered
    <3> QED BY <1>28, <2>2, <3>3, UpdateLookupIs, DbSucceeds
  <2>3. CASE job' = job /\ told' = told
    BY <2>3, DbSame
  <2> QED BY <1>28, <2>1, <2>2, <2>3, UpdateLookupIs
<1>29. ASSUME UpdateTplBackup PROVE DbMoves
  BY <1>29, UpdateTplBackupIs, DbSame
<1>30. ASSUME UpdateSetsBackup PROVE DbMoves
  BY <1>30, UpdateSetsBackupIs, DbSame
<1>31. ASSUME UpdateSetsNormal PROVE DbMoves
  BY <1>31, UpdateSetsNormalIs, DbSame
<1>32. ASSUME UpdateTplNormal PROVE DbMoves
  <2>1. Source = ram
    BY <1>32, UpdateTplNormalIs, WholeIs DEF CopyInv, Synced, Source
  <2>2. tplB[job.id] = job.data /\ ram[job.id].sum = job.data
    BY <1>32, UpdateTplNormalIs, WholeIs DEF Spare, Mine
  <2>3. Recovered[job.id] = job.data
    BY <1>32, <2>1, <2>2, UpdateTplNormalIs DEF Recovered
  <2> QED BY <1>32, <2>3, UpdateTplNormalIs, DbSucceeds
<1>33. ASSUME RemoveLookup PROVE DbMoves
  <2>1. CASE /\ ram[job.id].sum = NoData /\ job' = NoJob
             /\ told' = [told EXCEPT ![job.id] = job.data]
    <3>1. Source = ram
      BY <1>33, RemoveLookupIs, WholeIs DEF CopyInv, Synced, Source
    <3>2. job.data = NoData
      BY <1>33, RemoveLookupIs DEF ToldJob
    <3>3. Recovered[job.id] = job.data
      BY <1>33, <2>1, <3>1, <3>2, RemoveLookupIs DEF Recovered
    <3> QED BY <1>33, <2>1, <3>3, RemoveLookupIs, DbSucceeds
  <2>2. CASE job' = job /\ told' = told
    BY <2>2, DbSame
  <2> QED BY <1>33, <2>1, <2>2, RemoveLookupIs
<1>34. ASSUME RemoveSetsBackup PROVE DbMoves
  BY <1>34, RemoveSetsBackupIs, DbSame
<1>35. ASSUME RemoveTplBackup PROVE DbMoves
  BY <1>35, RemoveTplBackupIs, DbSame
<1>36. ASSUME RemoveSetsNormal PROVE DbMoves
  BY <1>36, RemoveSetsNormalIs, DbSame
<1>37. ASSUME RemoveTplNormal PROVE DbMoves
  <2>1. Source = ram
    BY <1>37, RemoveTplNormalIs, WholeIs DEF CopyInv, Synced, Source
  <2>2. job.data = NoData /\ ram[job.id].sum = NoData
    BY <1>37, RemoveTplNormalIs, WholeIs DEF Mine, ToldJob
  <2>3. Recovered[job.id] = job.data
    BY <1>37, <2>1, <2>2, RemoveTplNormalIs DEF Recovered
  <2> QED BY <1>37, <2>3, RemoveTplNormalIs, DbSucceeds
<1>38. ASSUME IncFailLookup PROVE DbMoves
  BY <1>38 DEF IncFailLookup, TypeInv, Flow, ImageInv, JobInv, IncLabel
<1>39. ASSUME IncFailDrop PROVE DbMoves
  BY <1>39 DEF IncFailDrop, TypeInv, Flow, ImageInv, JobInv, IncLabel
<1>40. ASSUME IncFailSets PROVE DbMoves
  BY <1>40 DEF IncFailSets, TypeInv, Flow, ImageInv, JobInv, IncLabel
<1>41. ASSUME Crash PROVE DbMoves
  BY <1>41, DbEnds DEF Crash
<1>42. ASSUME NEW f \in Fid, Rot(f) PROVE DbMoves
  BY <1>42 DEF Rot, TypeInv, Rest
<1>43. ASSUME UNCHANGED vars PROVE DbMoves
  BY <1>43, DbSame DEF vars
<1> QED
  BY <1>1, <1>2, <1>3, <1>4, <1>5, <1>6, <1>7, <1>8, <1>9, <1>10, <1>11, <1>12, <1>13,
     <1>14, <1>15, <1>16, <1>17, <1>18, <1>19, <1>20, <1>21, <1>22, <1>23, <1>24, <1>25, <1>26,
     <1>27, <1>28, <1>29, <1>30, <1>31, <1>32, <1>33, <1>34, <1>35, <1>36, <1>37, <1>38, <1>39,
     <1>40, <1>41, <1>42, <1>43
     DEF Next, ClientCall, StoreStep, StoreInit, Load, Save, Update, Remove, IncFail

(* The store implements the map of TplDb: each call takes effect at one    *)
(* instant or not at all, a call that reported success has taken effect,   *)
(* and power loss is no more than a call that failed.                      *)
THEOREM Implements == ASSUME NoErrors, MaxRot = 0 PROVE Spec => ImplementsDb
<1>1. Init => Db!Init
  <2> SUFFICES ASSUME Init PROVE Db!Init
    OBVIOUS
  <2>1. Source = EmptyTable
    BY WholeIs DEF Init, Source
  <2>2. Recovered = [f \in Fid |-> NoData]
    BY <2>1, WholeIs DEF Recovered
  <2>3. DbCall = Db!NoCall
    BY DEF Init, NoJob, DbCall, Db!NoCall
  <2> QED BY <2>2, <2>3 DEF Init, Db!Init
<1>2. TypeInv /\ ImageInv /\ DbInv /\ KeepInv /\ [Next]_vars => [Db!Next]_(Db!dbVars)
  BY DbSimulated DEF DbMoves
<1> QED BY <1>1, <1>2, KeepAlways, PTL DEF Spec, ImplementsDb, Db!Spec

(* What the last completed call on an id told the caller is what a restart *)
(* finds: the new template after a save or an update, nothing after a      *)
(* remove, whatever was called and wherever power was lost since.          *)
ToldIsFound == \A f \in Fid : told[f] # Unknown => Recovered[f] = told[f]
CallUntold == DbCall # Db!NoCall => DbCall.id \in Fid /\ told[DbCall.id] = Unknown

(* It follows from the abstract specification alone.                       *)
LEMMA DbDurable ==
  Db!Spec /\ [](told \in [Fid -> Data \cup {NoData, Unknown}]) => [](CallUntold /\ ToldIsFound)
<1>1. Db!Init => CallUntold /\ ToldIsFound
  BY DEF Db!Init, CallUntold, ToldIsFound
<1>2. ASSUME CallUntold, ToldIsFound, told \in [Fid -> Data \cup {NoData, Unknown}],
             [Db!Next]_(Db!dbVars)
      PROVE  (CallUntold /\ ToldIsFound)'
  <2> USE <1>2 DEF CallUntold, ToldIsFound
  <2>1. ASSUME NEW o \in Db!Mutators, NEW f \in Fid, NEW d \in Data \cup {NoData},
               Db!Begin(o, f, d)
        PROVE  (CallUntold /\ ToldIsFound)'
    BY <2>1 DEF Db!Begin
  <2>2. CASE Db!Commit
    <3>1. \A f \in Fid \ {DbCall.id} : Recovered'[f] = Recovered[f]
      BY <2>2 DEF Db!Commit, Db!Applied, Recovered
    <3> QED BY <2>2, <3>1 DEF Db!Commit
  <2>3. CASE Db!Succeed
    BY <2>3 DEF Db!Succeed
  <2>4. CASE Db!Fail
    <3>1. \A f \in Fid \ {DbCall.id} : Recovered'[f] = Recovered[f]
      BY <2>4 DEF Db!Fail, Db!Applied, Recovered
    <3> QED BY <2>4, <3>1 DEF Db!Fail
  <2>5. CASE UNCHANGED Db!dbVars
    BY <2>5 DEF Db!dbVars
  <2> QED BY <2>1, <2>2, <2>3, <2>4, <2>5 DEF Db!Next
<1> QED BY <1>1, <1>2, PTL DEF Db!Spec

(* So a template whose save or update was reported is there after any      *)
(* restart, and one whose removal was reported is not.                     *)
THEOREM Durable == ASSUME NoErrors, MaxRot = 0 PROVE Spec => []ToldIsFound
<1>1. TypeInv => told \in [Fid -> Data \cup {NoData, Unknown}]
  BY DEF TypeInv, Flow
<1> QED BY <1>1, Implements, DbAlways, DbDurable, PTL DEF ImplementsDb

(* A promise of the store is kept, through any number of later calls on the *)
(* template and of restarts, until its removal is asked for.               *)
PromiseInv ==
  /\ promised \subseteq Fid
  /\ job.op = "remove" => job.id \notin promised
  /\ PromiseKept

LEMMA PromiseStep ==
  ASSUME NoErrors, MaxRot = 0, TypeInv, ImageInv, DbInv, KeepInv, PromiseInv, [PNext]_pvars,
         DbInv', ToldIsFound'
  PROVE  PromiseInv'
<1>1. CASE UNCHANGED pvars
  BY <1>1 DEF pvars, vars, PromiseInv, PromiseKept, Recovered, Source
<1>2. CASE PNext
  <2>1. \A f \in promised' : f \in Fid /\ (told'[f] \in Data \/ (f \in promised /\ ~Ended(f)))
    BY <1>2 DEF PNext
  <2>2. job'.op = "remove" => job'.id \notin promised'
    BY <2>1, DataAssumption DEF Ended, DbInv, ToldInv, ToldJob
  <2>3. ASSUME NEW f \in Fid, f \in promised, Recovered'[f] = NoData, Recovered[f] # NoData
        PROVE  FALSE
    <3>1. [Next]_vars
      BY <1>2 DEF PNext
    <3>2. DbCall # Db!NoCall /\ Recovered' = Db!Applied
      BY <2>3, <3>1, DbFrame
    <3>4. DbCall.id = f /\ DbCall.data = NoData
      BY <2>3, <3>2 DEF Db!Applied, Recovered
    <3>5. job.op = "remove" /\ job.id = f
      BY <3>2, <3>4, DbCallIs, DataAssumption DEF DbInv, ToldInv, ToldJob
    <3> QED BY <2>3, <3>5 DEF PromiseInv
  <2>4. \A f \in promised' : Recovered'[f] # NoData
    BY <2>1, <2>3, DataAssumption DEF PromiseInv, PromiseKept, ToldIsFound
  <2> QED BY <2>1, <2>2, <2>4 DEF PromiseInv, PromiseKept
<1> QED BY <1>1, <1>2

(* Without write errors and decay a restart at any instant, also in the     *)
(* middle of a later update, finds a template whose enrolment or update was  *)
(* reported (fp_impl_enroll_end, fp_impl_auth_end), until it is removed.     *)
(* With one write error TLC checks it (run told).                           *)
THEOREM PromisesAreKept == ASSUME NoErrors, MaxRot = 0 PROVE PSpec => []PromiseKept
<1>1. PInit => PromiseInv
  BY DEF PInit, Init, NoJob, PromiseInv, PromiseKept
<1>2. /\ TypeInv /\ ImageInv /\ DbInv /\ KeepInv /\ PromiseInv /\ [PNext]_pvars
      /\ DbInv' /\ ToldIsFound'
      => PromiseInv'
  BY PromiseStep
<1>3. PInit => Init
  BY DEF PInit
<1>4. [PNext]_pvars => [Next]_vars
  BY DEF PNext, pvars
<1>5. PromiseInv => PromiseKept
  BY DEF PromiseInv
<1> QED BY <1>1, <1>2, <1>3, <1>4, <1>5, KeepAlways, Durable, PTL DEF PSpec, Spec

=============================================================================

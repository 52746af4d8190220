-------------------------- MODULE TplStorageProofs --------------------------
(***************************************************************************)
(* What holds of TplStorage for every set of ids and contents, every       *)
(* number of slots and every bound on the faults.                          *)
(***************************************************************************)
EXTENDS TplStorage, TLAPS

(* Tables and table files of the right shape, and how they are edited.     *)
LEMMA NoEntryType == NoEntry \in Entry /\ EmptyTable \in Table
BY LimitAssumption DEF NoEntry, Entry, Fails, EmptyTable, Table

LEMMA FileType == /\ BadSets \in SetsFile
                  /\ \A t \in Table : Whole(t) \in SetsFile
BY NoEntryType DEF BadSets, SetsFile, Whole

LEMMA FileTable == \A s \in SetsFile : s.tbl \in Table /\ s.ok \in BOOLEAN
BY DEF SetsFile

LEMMA EditTable ==
  ASSUME NEW t \in Table, NEW f
  PROVE  /\ [t EXCEPT ![f] = NoEntry] \in Table
         /\ \A d \in Data : [t EXCEPT ![f] = [sum |-> d, fail |-> 0]] \in Table
         /\ \A d \in Data \cup {NoData} : [t EXCEPT ![f].sum = d] \in Table
         /\ [t EXCEPT ![f].fail = 0] \in Table
         /\ f \in Fid /\ t[f].fail + 1 < MAX_LOAD_FAIL => [t EXCEPT ![f].fail = @ + 1] \in Table
<1>1. ASSUME NEW e \in Entry PROVE [t EXCEPT ![f] = e] \in Table
  BY DEF Table
<1>2. 0 \in Fails
  BY LimitAssumption DEF Fails
<1>3. ASSUME NEW d \in Data PROVE [sum |-> d, fail |-> 0] \in Entry
  BY <1>2 DEF Entry
<1>4. ASSUME NEW d \in Data \cup {NoData} PROVE [t EXCEPT ![f].sum = d] \in Table
  BY DEF Table, Entry
<1>5. ASSUME NEW n \in Fails PROVE [t EXCEPT ![f].fail = n] \in Table
  BY DEF Table, Entry
<1>6. ASSUME f \in Fid, t[f].fail + 1 < MAX_LOAD_FAIL
      PROVE  [t EXCEPT ![f].fail = @ + 1] \in Table
  <2>1. t[f].fail + 1 \in Fails
    BY <1>6, LimitAssumption DEF Table, Entry, Fails
  <2> QED BY <2>1, <1>5
<1> QED BY <1>1, <1>2, <1>3, <1>4, <1>5, <1>6, NoEntryType

(* What the file operations do to the types of the files.                  *)
DiskOK == /\ setsN \in SetsFile
          /\ setsB \in SetsFile
          /\ tplN \in [Fid -> Data \cup {NoData}]
          /\ tplB \in [Fid -> Data \cup {NoData}]
          /\ writeErrs \in 0 .. MaxWriteErr

LEMMA SetsOpType ==
  ASSUME DiskOK, NEW t \in Table
  PROVE  PutSetsN(t) \/ PutSetsB(t) \/ ErrSetsN(t) \/ ErrSetsB(t) => DiskOK'
<1>1. PutSetsN(t) => DiskOK'
  BY FileType DEF PutSetsN, DiskOK
<1>2. PutSetsB(t) => DiskOK'
  BY FileType DEF PutSetsB, DiskOK
<1>3. Err => writeErrs' \in 0 .. MaxWriteErr
  BY FaultAssumption DEF Err, DiskOK
<1>4. ErrSetsN(t) => DiskOK'
  BY <1>3, FileType DEF ErrSetsN, DiskOK
<1>5. ErrSetsB(t) => DiskOK'
  BY <1>3, FileType DEF ErrSetsB, DiskOK
<1> QED BY <1>1, <1>2, <1>4, <1>5

LEMMA TplOpType ==
  ASSUME DiskOK, NEW f, NEW d \in Data \cup {NoData}
  PROVE  PutTplN(f, d) \/ PutTplB(f, d) \/ ErrTplN(f, d) \/ ErrTplB(f, d) => DiskOK'
<1>1. PutTplN(f, d) => DiskOK'
  BY DEF PutTplN, DiskOK
<1>2. PutTplB(f, d) => DiskOK'
  BY DEF PutTplB, DiskOK
<1>3. Err => writeErrs' \in 0 .. MaxWriteErr
  BY FaultAssumption DEF Err, DiskOK
<1>4. ErrTplN(f, d) => DiskOK'
  BY <1>3 DEF ErrTplN, DiskOK
<1>5. ErrTplB(f, d) => DiskOK'
  BY <1>3 DEF ErrTplB, DiskOK
<1> QED BY <1>1, <1>2, <1>4, <1>5

LEMMA DelOpType ==
  ASSUME DiskOK, NEW f
  PROVE  DelTplN(f) \/ DelTplB(f) => DiskOK'
<1>1. Err /\ UNCHANGED disk => DiskOK'
  BY FaultAssumption DEF Err, disk, DiskOK
<1> QED BY <1>1, TplOpType DEF DelTplN, DelTplB
(* The label, the call and what it told.                                    *)
Flow == /\ pc \in Label
        /\ job \in Job
        /\ told \in [Fid -> Data \cup {NoData, Unknown}]
        /\ JobInv

Rest == /\ inited \in BOOLEAN
        /\ todo \in SUBSET Fid
        /\ loaded \in SUBSET Fid
        /\ rots \in 0 .. MaxRot

(* Types, with the agreement of label and call that makes them inductive.  *)
TypeInv == Flow /\ Rest /\ ram \in Table /\ DiskOK

LEMMA JobData == Flow => job.data \in Data \cup {NoData}
BY DEF Flow, Job

LEMMA JobId == Flow /\ pc \in LoadLabel \cup SaveLabel \cup UpdateLabel \cup RemoveLabel \cup IncLabel
                 => job.id \in Fid
BY DEF Flow, JobInv

(* How control moves: a call starts, returns, or goes on within its labels. *)
LEMMA CallFlow ==
  ASSUME Flow, NEW op \in Op \ {"none"}, NEW f \in Fid \cup {NoFid},
         NEW d \in Data \cup {NoData},
         op \in {"update", "remove", "incfail"} => f \in Fid,
         Call(op, f, d)
  PROVE  Flow'
<1>1. job' \in Job /\ job'.op = op /\ job'.id = f /\ job' # NoJob
  BY DEF Call, Job, NoJob
<1>2. told' \in [Fid -> Data \cup {NoData, Unknown}]
  BY DEF Call, Flow
<1>3. pc' = op \/ pc' = "init"
  BY DEF Call
<1>4. pc' = op => inited'
  BY DEF Call, Op
<1>5. pc' \in Label
  BY <1>3 DEF Op, Label
<1> QED
  BY <1>1, <1>2, <1>3, <1>4, <1>5
     DEF Flow, JobInv, Op, InitLabel, LoadLabel, SaveLabel, UpdateLabel, RemoveLabel, IncLabel

LEMMA FinishFlow == Flow /\ (Finish \/ Succeed) => Flow'
<1> SUFFICES ASSUME Flow, Finish \/ Succeed PROVE Flow'
  OBVIOUS
<1>1. pc' = "idle" /\ job' = NoJob
  BY DEF Finish, Succeed
<1>2. NoJob \in Job /\ NoJob.op = "none"
  BY DEF NoJob, Job, Op
<1>3. told' \in [Fid -> Data \cup {NoData, Unknown}]
  BY JobData DEF Finish, Succeed, Flow
<1>4. JobInv'
  BY <1>1, <1>2 DEF JobInv, InitLabel, LoadLabel, SaveLabel, UpdateLabel, RemoveLabel, IncLabel
<1> QED BY <1>1, <1>2, <1>3, <1>4 DEF Flow, Label

LEMMA InitFlow ==
  ASSUME Flow, pc \in InitLabel, inited', NEW l, Goto(l),
         l \in {"init_setsN", "reset_setsB", "reset_setsN"} \/ l = job.op
  PROVE  Flow'
<1>1. job.op \in Op \ {"none"}
  BY DEF Flow, JobInv, Job
<1>2. pc # "idle" /\ pc' = l /\ job' = job /\ told' = told
  BY DEF Goto, InitLabel
<1>3. l \in Label /\ l # "idle"
  BY <1>1 DEF Label, InitLabel, WritesSetsN, WritesSetsB, Op
<1> QED
  BY <1>1, <1>2, <1>3
     DEF Flow, JobInv, Op, InitLabel, LoadLabel, SaveLabel, UpdateLabel, RemoveLabel, IncLabel

LEMMA GotoFlow ==
  ASSUME Flow, inited' = inited, NEW l, Goto(l),
         \/ pc \in LoadLabel /\ l \in LoadLabel \cup {"load"}
         \/ pc \in SaveLabel /\ l \in SaveLabel
         \/ pc \in UpdateLabel /\ l \in UpdateLabel
         \/ pc \in RemoveLabel /\ l \in RemoveLabel
         \/ pc \in IncLabel /\ l \in IncLabel
  PROVE  Flow'
<1>1. pc' = l /\ job' = job /\ told' = told
  BY DEF Goto
<1>2. job # NoJob /\ job.id \in Fid /\ inited
  BY JobId DEF Flow, JobInv, LoadLabel, SaveLabel, UpdateLabel, RemoveLabel, IncLabel
<1>3. l \in Label /\ l # "idle"
  BY DEF Label, WritesSetsN, WritesSetsB, WritesTplN, WritesTplB,
         LoadLabel, SaveLabel, UpdateLabel, RemoveLabel, IncLabel
<1> QED
  BY <1>1, <1>2, <1>3
     DEF Flow, JobInv, InitLabel, LoadLabel, SaveLabel, UpdateLabel, RemoveLabel, IncLabel

LEMMA LoadGoto == \A l \in LoadLabel \cup {"load"} : pc \in LoadLabel /\ Goto(l) /\ Flow /\ inited' = inited => Flow'
BY GotoFlow

LEMMA SaveGoto == \A l \in SaveLabel : pc \in SaveLabel /\ Goto(l) /\ Flow /\ inited' = inited => Flow'
BY GotoFlow

LEMMA UpdateGoto == \A l \in UpdateLabel : pc \in UpdateLabel /\ Goto(l) /\ Flow /\ inited' = inited => Flow'
BY GotoFlow

LEMMA RemoveGoto == \A l \in RemoveLabel : pc \in RemoveLabel /\ Goto(l) /\ Flow /\ inited' = inited => Flow'
BY GotoFlow

LEMMA IncGoto == \A l \in IncLabel : pc \in IncLabel /\ Goto(l) /\ Flow /\ inited' = inited => Flow'
BY GotoFlow

LEMMA PickFlow ==
  ASSUME Flow, NEW f \in Fid, NEW l \in LoadLabel \cup {"load"}, LoadPick(f, l)
  PROVE  Flow'
<1>1. pc' = l /\ told' = told /\ job' = [job EXCEPT !.id = f] /\ job.op = "load" /\ inited'
  BY DEF LoadPick, Flow, JobInv
<1>2. job' \in Job /\ job'.op = "load" /\ job'.id = f /\ job' # NoJob
  BY <1>1 DEF Flow, Job, NoJob
<1>3. l \in Label
  BY DEF Label, LoadLabel, WritesSetsN, WritesSetsB, WritesTplN, WritesTplB
<1> QED
  BY <1>1, <1>2, <1>3
     DEF Flow, JobInv, InitLabel, LoadLabel, SaveLabel, UpdateLabel, RemoveLabel, IncLabel

LEMMA IntoFlow ==
  ASSUME Flow, NEW f \in Fid, NEW e \in BOOLEAN, SaveInto(f, e)
  PROVE  Flow'
<1>1. /\ pc' = "save_tplB" /\ told' = [told EXCEPT ![f] = Unknown] /\ inited'
      /\ job' = [job EXCEPT !.id = f, !.evict = e] /\ job.op = "save"
  BY DEF SaveInto, Flow, JobInv
<1>2. job' \in Job /\ job'.op = "save" /\ job'.id = f /\ job' # NoJob
  BY <1>1 DEF Flow, Job, NoJob
<1>3. told' \in [Fid -> Data \cup {NoData, Unknown}]
  BY <1>1 DEF Flow
<1> QED
  BY <1>1, <1>2, <1>3
     DEF Flow, JobInv, InitLabel, LoadLabel, SaveLabel, UpdateLabel, RemoveLabel, IncLabel,
         Label, WritesTplB

(* Every step keeps the types.  Each action: the files, the table, the     *)
(* control, the rest.                                                      *)
LEMMA TypeStep == TypeInv /\ [Next]_vars => TypeInv'
<1> SUFFICES ASSUME TypeInv, [Next]_vars PROVE TypeInv'
  OBVIOUS
<1> USE DEF TypeInv
<1>1. ASSUME CallLoad PROVE TypeInv'
  <2>1. DiskOK'
    BY <1>1 DEF CallLoad, Call, DiskOK, disk, faults
  <2>2. ram' \in Table
    BY <1>1 DEF CallLoad, Call
  <2>3. Flow'
    BY <1>1, CallFlow DEF CallLoad, Op
  <2>4. Rest'
    BY <1>1 DEF CallLoad, Call, Rest, faults
  <2> QED BY <2>1, <2>2, <2>3, <2>4
<1>2. ASSUME NEW d \in Data, CallSave(d) PROVE TypeInv'
  <2>1. DiskOK'
    BY <1>2 DEF CallSave, Call, DiskOK, disk, faults
  <2>2. ram' \in Table
    BY <1>2 DEF CallSave, Call
  <2>3. Flow'
    BY <1>2, CallFlow DEF CallSave, Op
  <2>4. Rest'
    BY <1>2 DEF CallSave, Call, Rest, faults
  <2> QED BY <2>1, <2>2, <2>3, <2>4
<1>3. ASSUME NEW f \in Fid, NEW d \in Data, CallUpdate(f, d) PROVE TypeInv'
  <2>1. DiskOK'
    BY <1>3 DEF CallUpdate, Call, DiskOK, disk, faults
  <2>2. ram' \in Table
    BY <1>3 DEF CallUpdate, Call
  <2>3. Flow'
    BY <1>3, CallFlow DEF CallUpdate, Op
  <2>4. Rest'
    BY <1>3 DEF CallUpdate, Call, Rest, faults
  <2> QED BY <2>1, <2>2, <2>3, <2>4
<1>4. ASSUME NEW f \in Fid, CallRemove(f) PROVE TypeInv'
  <2>1. DiskOK'
    BY <1>4 DEF CallRemove, Call, DiskOK, disk, faults
  <2>2. ram' \in Table
    BY <1>4 DEF CallRemove, Call
  <2>3. Flow'
    BY <1>4, CallFlow DEF CallRemove, Op
  <2>4. Rest'
    BY <1>4 DEF CallRemove, Call, Rest, faults
  <2> QED BY <2>1, <2>2, <2>3, <2>4
<1>5. ASSUME NEW f \in Fid, CallIncFail(f) PROVE TypeInv'
  <2>1. DiskOK'
    BY <1>5 DEF CallIncFail, Call, DiskOK, disk, faults
  <2>2. ram' \in Table
    BY <1>5 DEF CallIncFail, Call
  <2>3. Flow'
    BY <1>5, CallFlow DEF CallIncFail, Op
  <2>4. Rest'
    BY <1>5 DEF CallIncFail, Call, Rest, faults
  <2> QED BY <2>1, <2>2, <2>3, <2>4
<1>6. ASSUME InitRead PROVE TypeInv'
  <2>1. DiskOK'
    BY <1>6 DEF InitRead, DiskOK, disk, faults
  <2>2. ram' \in Table
    BY <1>6, FileTable DEF InitRead, DiskOK
  <2>3. Flow'
    <3>1. inited' /\ pc \in InitLabel
      BY <1>6 DEF InitRead, InitLabel, Flow, JobInv
    <3> QED BY <1>6, <3>1, InitFlow DEF InitRead, InitLabel
  <2>4. Rest'
    BY <1>6 DEF InitRead, Rest, faults, Ids
  <2> QED BY <2>1, <2>2, <2>3, <2>4
<1>7. ASSUME InitRestore PROVE TypeInv'
  <2>1. DiskOK'
    BY <1>7, SetsOpType DEF InitRestore
  <2>2. ram' \in Table
    BY <1>7 DEF InitRestore
  <2>3. Flow'
    <3>1. inited' /\ pc \in InitLabel
      BY <1>7 DEF InitRestore, InitLabel, Flow, JobInv
    <3> QED BY <1>7, <3>1, InitFlow DEF InitRestore, InitLabel
  <2>4. Rest'
    BY <1>7 DEF InitRestore, Rest, faults
  <2> QED BY <2>1, <2>2, <2>3, <2>4
<1>8. ASSUME ResetBackup PROVE TypeInv'
  <2>1. DiskOK'
    BY <1>8, SetsOpType DEF ResetBackup
  <2>2. ram' \in Table
    BY <1>8 DEF ResetBackup
  <2>3. Flow'
    <3>1. inited' /\ pc \in InitLabel
      BY <1>8 DEF ResetBackup, InitLabel, Flow, JobInv
    <3> QED BY <1>8, <3>1, InitFlow DEF ResetBackup, InitLabel
  <2>4. Rest'
    BY <1>8 DEF ResetBackup, Rest, faults
  <2> QED BY <2>1, <2>2, <2>3, <2>4
<1>9. ASSUME ResetNormal PROVE TypeInv'
  <2>1. DiskOK'
    BY <1>9, SetsOpType DEF ResetNormal
  <2>2. ram' \in Table
    BY <1>9 DEF ResetNormal
  <2>3. Flow'
    <3>1. inited' /\ pc \in InitLabel
      BY <1>9 DEF ResetNormal, InitLabel, Flow, JobInv
    <3> QED BY <1>9, <3>1, InitFlow DEF ResetNormal, InitLabel
  <2>4. Rest'
    BY <1>9 DEF ResetNormal, Rest, faults
  <2> QED BY <2>1, <2>2, <2>3, <2>4
<1>10. ASSUME LoadDone PROVE TypeInv'
  <2>1. DiskOK'
    BY <1>10 DEF LoadDone, DiskOK, disk, faults
  <2>2. ram' \in Table
    BY <1>10 DEF LoadDone
  <2>3. Flow'
    BY <1>10, FinishFlow DEF LoadDone
  <2>4. Rest'
    BY <1>10 DEF LoadDone, Rest, faults
  <2> QED BY <2>1, <2>2, <2>3, <2>4
<1>11. ASSUME NEW f \in Fid, LoadNormal(f) PROVE TypeInv'
  <2>1. DiskOK'
    BY <1>11 DEF LoadNormal, LoadPick, DiskOK, disk, faults
  <2>2. ram' \in Table
    BY <1>11, EditTable DEF LoadNormal, LoadPick
  <2>3. Flow'
    BY <1>11, PickFlow DEF LoadNormal, LoadLabel
  <2>4. Rest'
    BY <1>11 DEF LoadNormal, LoadPick, Rest, faults
  <2> QED BY <2>1, <2>2, <2>3, <2>4
<1>12. ASSUME NEW f \in Fid, LoadBackup(f) PROVE TypeInv'
  <2>1. DiskOK'
    BY <1>12 DEF LoadBackup, LoadPick, DiskOK, disk, faults
  <2>2. ram' \in Table
    BY <1>12 DEF LoadBackup, LoadPick
  <2>3. Flow'
    BY <1>12, PickFlow DEF LoadBackup, LoadLabel
  <2>4. Rest'
    BY <1>12 DEF LoadBackup, LoadPick, Rest, faults
  <2> QED BY <2>1, <2>2, <2>3, <2>4
<1>13. ASSUME NEW f \in Fid, LoadFailed(f) PROVE TypeInv'
  <2>1. DiskOK'
    BY <1>13 DEF LoadFailed, LoadPick, DiskOK, disk, faults
  <2>2. ram' \in Table
    <3>1. [ram EXCEPT ![f] = NoEntry] \in Table
      BY EditTable
    <3>2. ram[f].fail + 1 < MAX_LOAD_FAIL => [ram EXCEPT ![f].fail = @ + 1] \in Table
      BY <1>13, EditTable
    <3> QED BY <1>13, <3>1, <3>2 DEF LoadFailed
  <2>3. Flow'
    BY <1>13, PickFlow DEF LoadFailed, LoadLabel
  <2>4. Rest'
    BY <1>13 DEF LoadFailed, LoadPick, Rest, faults
  <2> QED BY <2>1, <2>2, <2>3, <2>4
<1>14. ASSUME LoadRestore PROVE TypeInv'
  <2>1. DiskOK'
    <3>1. ram[job.id].sum \in Data \cup {NoData}
      BY <1>14, JobId DEF LoadRestore, LoadLabel, Table, Entry
    <3> QED BY <1>14, <3>1, TplOpType DEF LoadRestore
  <2>2. ram' \in Table
    BY <1>14, EditTable DEF LoadRestore
  <2>3. Flow'
    BY <1>14, LoadGoto DEF LoadRestore, LoadLabel
  <2>4. Rest'
    BY <1>14 DEF LoadRestore, Rest, faults
  <2> QED BY <2>1, <2>2, <2>3, <2>4
<1>15. ASSUME LoadDropBackup PROVE TypeInv'
  <2>1. DiskOK'
    BY <1>15, DelOpType DEF LoadDropBackup
  <2>2. ram' \in Table
    BY <1>15 DEF LoadDropBackup
  <2>3. Flow'
    BY <1>15, LoadGoto DEF LoadDropBackup, LoadLabel
  <2>4. Rest'
    BY <1>15 DEF LoadDropBackup, Rest, faults
  <2> QED BY <2>1, <2>2, <2>3, <2>4
<1>16. ASSUME LoadSetsBackup PROVE TypeInv'
  <2>1. DiskOK'
    BY <1>16, SetsOpType DEF LoadSetsBackup
  <2>2. ram' \in Table
    BY <1>16 DEF LoadSetsBackup
  <2>3. Flow'
    BY <1>16, LoadGoto DEF LoadSetsBackup, LoadLabel
  <2>4. Rest'
    BY <1>16 DEF LoadSetsBackup, Rest, faults
  <2> QED BY <2>1, <2>2, <2>3, <2>4
<1>17. ASSUME LoadDropNormal PROVE TypeInv'
  <2>1. DiskOK'
    BY <1>17, DelOpType DEF LoadDropNormal
  <2>2. ram' \in Table
    BY <1>17 DEF LoadDropNormal
  <2>3. Flow'
    BY <1>17, LoadGoto DEF LoadDropNormal, LoadLabel
  <2>4. Rest'
    BY <1>17 DEF LoadDropNormal, Rest, faults
  <2> QED BY <2>1, <2>2, <2>3, <2>4
<1>18. ASSUME LoadSetsNormal PROVE TypeInv'
  <2>1. DiskOK'
    BY <1>18, SetsOpType DEF LoadSetsNormal
  <2>2. ram' \in Table
    BY <1>18 DEF LoadSetsNormal
  <2>3. Flow'
    BY <1>18, LoadGoto DEF LoadSetsNormal, LoadLabel
  <2>4. Rest'
    BY <1>18 DEF LoadSetsNormal, Rest, faults
  <2> QED BY <2>1, <2>2, <2>3, <2>4
<1>19. ASSUME NEW f \in Fid, SaveFree(f) PROVE TypeInv'
  <2>1. DiskOK'
    BY <1>19 DEF SaveFree, SaveInto, DiskOK, disk, faults
  <2>2. ram' \in Table
    BY <1>19 DEF SaveFree, SaveInto
  <2>3. Flow'
    BY <1>19, IntoFlow DEF SaveFree
  <2>4. Rest'
    BY <1>19 DEF SaveFree, SaveInto, Rest, faults
  <2> QED BY <2>1, <2>2, <2>3, <2>4
<1>20. ASSUME NEW f \in Fid, SaveEvict(f) PROVE TypeInv'
  <2>1. DiskOK'
    BY <1>20, DelOpType DEF SaveEvict
  <2>2. ram' \in Table
    BY <1>20, EditTable DEF SaveEvict, SaveInto
  <2>3. Flow'
    BY <1>20, IntoFlow DEF SaveEvict
  <2>4. Rest'
    BY <1>20 DEF SaveEvict, SaveInto, Rest, faults
  <2> QED BY <2>1, <2>2, <2>3, <2>4
<1>21. ASSUME SaveRefused PROVE TypeInv'
  <2>1. DiskOK'
    BY <1>21 DEF SaveRefused, DiskOK, disk, faults
  <2>2. ram' \in Table
    BY <1>21 DEF SaveRefused
  <2>3. Flow'
    BY <1>21, FinishFlow DEF SaveRefused
  <2>4. Rest'
    BY <1>21 DEF SaveRefused, Rest, faults
  <2> QED BY <2>1, <2>2, <2>3, <2>4
<1>22. ASSUME SaveTplBackup PROVE TypeInv'
  <2>1. DiskOK'
    BY <1>22, TplOpType, JobData DEF SaveTplBackup
  <2>2. ram' \in Table
    <3>1. [sum |-> job.data, fail |-> 0] \in Entry
      BY JobData, LimitAssumption DEF Entry, Fails
    <3>2. [ram EXCEPT ![job.id] = [sum |-> job.data, fail |-> 0]] \in Table
      BY <3>1 DEF Table
    <3> QED BY <1>22, <3>2 DEF SaveTplBackup
  <2>3. Flow'
    BY <1>22, SaveGoto, FinishFlow DEF SaveTplBackup, SaveLabel
  <2>4. Rest'
    BY <1>22 DEF SaveTplBackup, Rest, faults
  <2> QED BY <2>1, <2>2, <2>3, <2>4
<1>23. ASSUME SaveSetsBackup PROVE TypeInv'
  <2>1. DiskOK'
    BY <1>23, SetsOpType DEF SaveSetsBackup
  <2>2. ram' \in Table
    BY <1>23, EditTable DEF SaveSetsBackup
  <2>3. Flow'
    BY <1>23, SaveGoto DEF SaveSetsBackup, SaveLabel
  <2>4. Rest'
    BY <1>23 DEF SaveSetsBackup, Rest, faults
  <2> QED BY <2>1, <2>2, <2>3, <2>4
<1>24. ASSUME SaveUndo PROVE TypeInv'
  <2>1. DiskOK'
    BY <1>24, DelOpType DEF SaveUndo
  <2>2. ram' \in Table
    BY <1>24 DEF SaveUndo
  <2>3. Flow'
    BY <1>24, FinishFlow DEF SaveUndo
  <2>4. Rest'
    BY <1>24 DEF SaveUndo, Rest, faults
  <2> QED BY <2>1, <2>2, <2>3, <2>4
<1>25. ASSUME SaveDropNormal PROVE TypeInv'
  <2>1. DiskOK'
    BY <1>25, DelOpType DEF SaveDropNormal
  <2>2. ram' \in Table
    BY <1>25 DEF SaveDropNormal
  <2>3. Flow'
    BY <1>25, SaveGoto DEF SaveDropNormal, SaveLabel
  <2>4. Rest'
    BY <1>25 DEF SaveDropNormal, Rest, faults
  <2> QED BY <2>1, <2>2, <2>3, <2>4
<1>26. ASSUME SaveSetsNormal PROVE TypeInv'
  <2>1. DiskOK'
    BY <1>26, SetsOpType DEF SaveSetsNormal
  <2>2. ram' \in Table
    BY <1>26 DEF SaveSetsNormal
  <2>3. Flow'
    BY <1>26, SaveGoto, FinishFlow DEF SaveSetsNormal, SaveLabel
  <2>4. Rest'
    BY <1>26 DEF SaveSetsNormal, Rest, faults
  <2> QED BY <2>1, <2>2, <2>3, <2>4
<1>27. ASSUME SaveTplNormal PROVE TypeInv'
  <2>1. DiskOK'
    BY <1>27, TplOpType, JobData DEF SaveTplNormal
  <2>2. ram' \in Table
    BY <1>27 DEF SaveTplNormal
  <2>3. Flow'
    BY <1>27, FinishFlow DEF SaveTplNormal
  <2>4. Rest'
    BY <1>27, JobId DEF SaveTplNormal, Rest, faults, SaveLabel
  <2> QED BY <2>1, <2>2, <2>3, <2>4
<1>28. ASSUME UpdateLookup PROVE TypeInv'
  <2>1. DiskOK'
    BY <1>28 DEF UpdateLookup, DiskOK, disk, faults
  <2>2. ram' \in Table
    BY <1>28 DEF UpdateLookup
  <2>3. Flow'
    BY <1>28, UpdateGoto, FinishFlow DEF UpdateLookup, UpdateLabel
  <2>4. Rest'
    BY <1>28 DEF UpdateLookup, Rest, faults
  <2> QED BY <2>1, <2>2, <2>3, <2>4
<1>29. ASSUME UpdateTplBackup PROVE TypeInv'
  <2>1. DiskOK'
    BY <1>29, TplOpType, JobData DEF UpdateTplBackup
  <2>2. ram' \in Table
    <3>1. [ram EXCEPT ![job.id].sum = job.data] \in Table
      BY JobData, EditTable
    <3> QED BY <1>29, <3>1 DEF UpdateTplBackup
  <2>3. Flow'
    BY <1>29, UpdateGoto, FinishFlow DEF UpdateTplBackup, UpdateLabel
  <2>4. Rest'
    BY <1>29 DEF UpdateTplBackup, Rest, faults
  <2> QED BY <2>1, <2>2, <2>3, <2>4
<1>30. ASSUME UpdateSetsBackup PROVE TypeInv'
  <2>1. DiskOK'
    BY <1>30, SetsOpType DEF UpdateSetsBackup
  <2>2. ram' \in Table
    BY <1>30 DEF UpdateSetsBackup
  <2>3. Flow'
    BY <1>30, UpdateGoto, FinishFlow DEF UpdateSetsBackup, UpdateLabel
  <2>4. Rest'
    BY <1>30 DEF UpdateSetsBackup, Rest, faults
  <2> QED BY <2>1, <2>2, <2>3, <2>4
<1>31. ASSUME UpdateSetsNormal PROVE TypeInv'
  <2>1. DiskOK'
    BY <1>31, SetsOpType DEF UpdateSetsNormal
  <2>2. ram' \in Table
    BY <1>31 DEF UpdateSetsNormal
  <2>3. Flow'
    BY <1>31, UpdateGoto, FinishFlow DEF UpdateSetsNormal, UpdateLabel
  <2>4. Rest'
    BY <1>31 DEF UpdateSetsNormal, Rest, faults
  <2> QED BY <2>1, <2>2, <2>3, <2>4
<1>32. ASSUME UpdateTplNormal PROVE TypeInv'
  <2>1. DiskOK'
    BY <1>32, TplOpType, JobData DEF UpdateTplNormal
  <2>2. ram' \in Table
    BY <1>32 DEF UpdateTplNormal
  <2>3. Flow'
    BY <1>32, FinishFlow DEF UpdateTplNormal
  <2>4. Rest'
    BY <1>32 DEF UpdateTplNormal, Rest, faults
  <2> QED BY <2>1, <2>2, <2>3, <2>4
<1>33. ASSUME RemoveLookup PROVE TypeInv'
  <2>1. DiskOK'
    BY <1>33 DEF RemoveLookup, DiskOK, disk, faults
  <2>2. ram' \in Table
    BY <1>33 DEF RemoveLookup
  <2>3. Flow'
    BY <1>33, RemoveGoto, FinishFlow DEF RemoveLookup, RemoveLabel
  <2>4. Rest'
    BY <1>33 DEF RemoveLookup, Rest, faults
  <2> QED BY <2>1, <2>2, <2>3, <2>4
<1>34. ASSUME RemoveSetsBackup PROVE TypeInv'
  <2>1. DiskOK'
    BY <1>34, SetsOpType, EditTable DEF RemoveSetsBackup
  <2>2. ram' \in Table
    BY <1>34, EditTable DEF RemoveSetsBackup
  <2>3. Flow'
    BY <1>34, RemoveGoto, FinishFlow DEF RemoveSetsBackup, RemoveLabel
  <2>4. Rest'
    BY <1>34 DEF RemoveSetsBackup, Rest, faults
  <2> QED BY <2>1, <2>2, <2>3, <2>4
<1>35. ASSUME RemoveTplBackup PROVE TypeInv'
  <2>1. DiskOK'
    BY <1>35, DelOpType DEF RemoveTplBackup
  <2>2. ram' \in Table
    BY <1>35 DEF RemoveTplBackup
  <2>3. Flow'
    BY <1>35, RemoveGoto DEF RemoveTplBackup, RemoveLabel
  <2>4. Rest'
    BY <1>35 DEF RemoveTplBackup, Rest, faults
  <2> QED BY <2>1, <2>2, <2>3, <2>4
<1>36. ASSUME RemoveSetsNormal PROVE TypeInv'
  <2>1. DiskOK'
    BY <1>36, SetsOpType DEF RemoveSetsNormal
  <2>2. ram' \in Table
    BY <1>36 DEF RemoveSetsNormal
  <2>3. Flow'
    BY <1>36, RemoveGoto, FinishFlow DEF RemoveSetsNormal, RemoveLabel
  <2>4. Rest'
    BY <1>36 DEF RemoveSetsNormal, Rest, faults
  <2> QED BY <2>1, <2>2, <2>3, <2>4
<1>37. ASSUME RemoveTplNormal PROVE TypeInv'
  <2>1. DiskOK'
    BY <1>37, DelOpType DEF RemoveTplNormal
  <2>2. ram' \in Table
    BY <1>37 DEF RemoveTplNormal
  <2>3. Flow'
    BY <1>37, FinishFlow DEF RemoveTplNormal
  <2>4. Rest'
    BY <1>37 DEF RemoveTplNormal, Rest, faults
  <2> QED BY <2>1, <2>2, <2>3, <2>4
<1>38. ASSUME IncFailLookup PROVE TypeInv'
  <2>1. DiskOK'
    BY <1>38 DEF IncFailLookup, DiskOK, disk, faults
  <2>2. ram' \in Table
    <3>1. [ram EXCEPT ![job.id] = NoEntry] \in Table
      BY EditTable
    <3>2. job.id \in Fid /\ ram[job.id].fail + 1 < MAX_LOAD_FAIL
            => [ram EXCEPT ![job.id].fail = @ + 1] \in Table
      BY EditTable
    <3> QED BY <1>38, <3>1, <3>2, JobId DEF IncFailLookup, IncLabel
  <2>3. Flow'
    BY <1>38, IncGoto, FinishFlow DEF IncFailLookup, IncLabel
  <2>4. Rest'
    BY <1>38 DEF IncFailLookup, Rest, faults
  <2> QED BY <2>1, <2>2, <2>3, <2>4
<1>39. ASSUME IncFailDrop PROVE TypeInv'
  <2>1. DiskOK'
    BY <1>39, DelOpType DEF IncFailDrop
  <2>2. ram' \in Table
    BY <1>39 DEF IncFailDrop
  <2>3. Flow'
    BY <1>39, IncGoto DEF IncFailDrop, IncLabel
  <2>4. Rest'
    BY <1>39 DEF IncFailDrop, Rest, faults
  <2> QED BY <2>1, <2>2, <2>3, <2>4
<1>40. ASSUME IncFailSets PROVE TypeInv'
  <2>1. DiskOK'
    BY <1>40, SetsOpType DEF IncFailSets
  <2>2. ram' \in Table
    BY <1>40 DEF IncFailSets
  <2>3. Flow'
    BY <1>40, FinishFlow DEF IncFailSets
  <2>4. Rest'
    BY <1>40 DEF IncFailSets, Rest, faults
  <2> QED BY <2>1, <2>2, <2>3, <2>4
<1>41. ASSUME Crash PROVE TypeInv'
  <2>1. DiskOK'
    BY <1>41, FileType DEF Crash, Torn, DiskOK, faults
  <2>2. ram' \in Table
    BY <1>41, NoEntryType DEF Crash
  <2>3. Flow'
    BY <1>41, FinishFlow DEF Crash, Finish
  <2>4. Rest'
    BY <1>41 DEF Crash, Rest, faults
  <2> QED BY <2>1, <2>2, <2>3, <2>4
<1>42. ASSUME NEW f \in Fid, Rot(f) PROVE TypeInv'
  <2>1. DiskOK' /\ ram' \in Table
    BY <1>42 DEF Rot, DiskOK
  <2>2. Flow' /\ Rest'
    BY <1>42, FaultAssumption DEF Rot, Flow, Rest, JobInv
  <2> QED BY <2>1, <2>2
<1>43. ASSUME UNCHANGED vars PROVE TypeInv'
  BY <1>43 DEF vars, Flow, Rest, JobInv, DiskOK
<1> QED
  BY <1>1, <1>2, <1>3, <1>4, <1>5, <1>6, <1>7, <1>8, <1>9, <1>10, <1>11, <1>12, <1>13,
     <1>14, <1>15, <1>16, <1>17, <1>18, <1>19, <1>20, <1>21, <1>22, <1>23, <1>24, <1>25,
     <1>26, <1>27, <1>28, <1>29, <1>30, <1>31, <1>32, <1>33, <1>34, <1>35, <1>36, <1>37,
     <1>38, <1>39, <1>40, <1>41, <1>42, <1>43
     DEF Next, ClientCall, StoreStep, StoreInit, Load, Save, Update, Remove, IncFail

LEMMA TypeInit == Init => TypeInv
<1> SUFFICES ASSUME Init PROVE TypeInv
  OBVIOUS
<1>1. DiskOK /\ ram \in Table
  BY NoEntryType, FileType, FaultAssumption DEF Init, DiskOK
<1>2. Rest
  <2>1. 0 \in 0 .. MaxRot
    BY FaultAssumption
  <2> QED BY <2>1 DEF Init, Rest
<1>3. NoJob \in Job /\ NoJob.op = "none"
  BY DEF NoJob, Job, Op
<1>4. Flow
  BY <1>3 DEF Init, Flow, Label, JobInv, InitLabel, LoadLabel, SaveLabel, UpdateLabel,
              RemoveLabel, IncLabel
<1> QED BY <1>1, <1>2, <1>4 DEF TypeInv

(* Type correctness of the store, whatever the faults.                      *)
THEOREM TypeCorrect == Spec => []TypeOK
<1>1. TypeInv => TypeOK
  BY DEF TypeInv, Flow, Rest, DiskOK, TypeOK
<1> QED BY <1>1, TypeInit, TypeStep, PTL DEF Spec

(***************************************************************************)
(* Power loss alone never costs the database.                              *)
(***************************************************************************)
NoErrors == MaxWriteErr = 0 /\ ~IncFailUsed

LEMMA NoErr == NoErrors /\ DiskOK => ~Err
BY DEF NoErrors, DiskOK, Err

(* What a file operation does to the two table files when none fails.      *)
LEMMA FileEffect ==
  ASSUME NoErrors, DiskOK, NEW t, NEW f, NEW d
  PROVE  /\ PutSetsN(t) \/ ErrSetsN(t) => setsN'.ok /\ setsB' = setsB
         /\ PutSetsB(t) \/ ErrSetsB(t) => setsB'.ok /\ setsN' = setsN
         /\ PutTplN(f, d) \/ PutTplB(f, d) \/ ErrTplN(f, d) \/ ErrTplB(f, d)
              => setsN' = setsN /\ setsB' = setsB
         /\ DelTplN(f) \/ DelTplB(f) => setsN' = setsN /\ setsB' = setsB
         /\ ~ErrSetsN(t) /\ ~ErrSetsB(t) /\ ~ErrTplN(f, d) /\ ~ErrTplB(f, d)
BY NoErr DEF PutSetsN, PutSetsB, PutTplN, PutTplB, ErrSetsN, ErrSetsB, ErrTplN, ErrTplB,
             DelTplN, DelTplB, Whole

Kept == setsN.ok \/ setsB.ok => setsN'.ok \/ setsB'.ok

LEMMA ImageStep ==
  ASSUME NoErrors, TypeInv, ImageInv, [Next]_vars
  PROVE  ImageInv' /\ Kept
<1> USE DEF Kept, ImageInv, WritesSetsN, InitLabel
<1> DiskOK /\ JobInv /\ NoJob.op = "none"
  BY DEF TypeInv, Flow, NoJob
<1>0. pc \in InitLabel => job.op \in Op \ {"none"}
  BY DEF TypeInv, Flow, JobInv, Job
<1>1. ASSUME CallLoad PROVE ImageInv' /\ Kept
  BY <1>1 DEF CallLoad, Call, disk, JobInv
<1>2. ASSUME NEW d \in Data, CallSave(d) PROVE ImageInv' /\ Kept
  BY <1>2 DEF CallSave, Call, disk, JobInv
<1>3. ASSUME NEW f \in Fid, NEW d \in Data, CallUpdate(f, d) PROVE ImageInv' /\ Kept
  BY <1>3 DEF CallUpdate, Call, disk, JobInv
<1>4. ASSUME NEW f \in Fid, CallRemove(f) PROVE ImageInv' /\ Kept
  BY <1>4 DEF CallRemove, Call, disk, JobInv
<1>5. ASSUME NEW f \in Fid, CallIncFail(f) PROVE ImageInv' /\ Kept
  BY <1>5 DEF CallIncFail, NoErrors
<1>6. ASSUME InitRead PROVE ImageInv' /\ Kept
  BY <1>6, <1>0 DEF InitRead, disk, Goto, JobInv, Op
<1>7. ASSUME InitRestore PROVE ImageInv' /\ Kept
  BY <1>7, <1>0, FileEffect DEF InitRestore, Goto, JobInv, Op
<1>8. ASSUME ResetBackup PROVE ImageInv' /\ Kept
  BY <1>8, FileEffect DEF ResetBackup, Goto, JobInv
<1>9. ASSUME ResetNormal PROVE ImageInv' /\ Kept
  BY <1>9, <1>0, FileEffect DEF ResetNormal, Goto, JobInv, Op
<1>10. ASSUME LoadDone PROVE ImageInv' /\ Kept
  BY <1>10 DEF LoadDone, disk, Finish, Succeed, JobInv
<1>11. ASSUME NEW f \in Fid, LoadNormal(f) PROVE ImageInv' /\ Kept
  BY <1>11 DEF LoadNormal, LoadPick, disk, JobInv
<1>12. ASSUME NEW f \in Fid, LoadBackup(f) PROVE ImageInv' /\ Kept
  BY <1>12 DEF LoadBackup, LoadPick, disk, JobInv
<1>13. ASSUME NEW f \in Fid, LoadFailed(f) PROVE ImageInv' /\ Kept
  <2>1. pc' \in {"load_setsB", "load_rmB"} /\ job'.op = job.op /\ UNCHANGED <<setsN, setsB, inited>>
    BY <1>13 DEF LoadFailed, LoadPick, disk, TypeInv, Flow, Job
  <2> QED BY <1>13, <2>1 DEF LoadFailed, LoadPick, JobInv
<1>14. ASSUME LoadRestore PROVE ImageInv' /\ Kept
  BY <1>14, FileEffect DEF LoadRestore, Goto, JobInv
<1>15. ASSUME LoadDropBackup PROVE ImageInv' /\ Kept
  BY <1>15, FileEffect DEF LoadDropBackup, Goto, JobInv
<1>16. ASSUME LoadSetsBackup PROVE ImageInv' /\ Kept
  BY <1>16, FileEffect DEF LoadSetsBackup, Goto, JobInv
<1>17. ASSUME LoadDropNormal PROVE ImageInv' /\ Kept
  BY <1>17, FileEffect DEF LoadDropNormal, Goto, JobInv
<1>18. ASSUME LoadSetsNormal PROVE ImageInv' /\ Kept
  BY <1>18, FileEffect DEF LoadSetsNormal, Goto, JobInv
<1>19. ASSUME NEW f \in Fid, SaveFree(f) PROVE ImageInv' /\ Kept
  BY <1>19 DEF SaveFree, SaveInto, disk, JobInv
<1>20. ASSUME NEW f \in Fid, SaveEvict(f) PROVE ImageInv' /\ Kept
  BY <1>20, FileEffect DEF SaveEvict, SaveInto, JobInv
<1>21. ASSUME SaveRefused PROVE ImageInv' /\ Kept
  BY <1>21 DEF SaveRefused, disk, Finish, Succeed, JobInv
<1>22. ASSUME SaveTplBackup PROVE ImageInv' /\ Kept
  BY <1>22, FileEffect DEF SaveTplBackup, Finish, Succeed, Goto, JobInv
<1>23. ASSUME SaveSetsBackup PROVE ImageInv' /\ Kept
  BY <1>23, FileEffect DEF SaveSetsBackup, Goto, JobInv
<1>24. ASSUME SaveUndo PROVE ImageInv' /\ Kept
  BY <1>24, FileEffect DEF SaveUndo, Finish, Succeed, JobInv
<1>25. ASSUME SaveDropNormal PROVE ImageInv' /\ Kept
  BY <1>25, FileEffect DEF SaveDropNormal, Goto, JobInv
<1>26. ASSUME SaveSetsNormal PROVE ImageInv' /\ Kept
  BY <1>26, FileEffect DEF SaveSetsNormal, Finish, Succeed, Goto, JobInv
<1>27. ASSUME SaveTplNormal PROVE ImageInv' /\ Kept
  BY <1>27, FileEffect DEF SaveTplNormal, Finish, Succeed, JobInv
<1>28. ASSUME UpdateLookup PROVE ImageInv' /\ Kept
  BY <1>28 DEF UpdateLookup, disk, Finish, Succeed, Goto, JobInv
<1>29. ASSUME UpdateTplBackup PROVE ImageInv' /\ Kept
  BY <1>29, FileEffect DEF UpdateTplBackup, Finish, Succeed, Goto, JobInv
<1>30. ASSUME UpdateSetsBackup PROVE ImageInv' /\ Kept
  BY <1>30, FileEffect DEF UpdateSetsBackup, Finish, Succeed, Goto, JobInv
<1>31. ASSUME UpdateSetsNormal PROVE ImageInv' /\ Kept
  BY <1>31, FileEffect DEF UpdateSetsNormal, Finish, Succeed, Goto, JobInv
<1>32. ASSUME UpdateTplNormal PROVE ImageInv' /\ Kept
  BY <1>32, FileEffect DEF UpdateTplNormal, Finish, Succeed, JobInv
<1>33. ASSUME RemoveLookup PROVE ImageInv' /\ Kept
  BY <1>33 DEF RemoveLookup, disk, Finish, Succeed, Goto, JobInv
<1>34. ASSUME RemoveSetsBackup PROVE ImageInv' /\ Kept
  BY <1>34, FileEffect DEF RemoveSetsBackup, Finish, Succeed, Goto, JobInv
<1>35. ASSUME RemoveTplBackup PROVE ImageInv' /\ Kept
  BY <1>35, FileEffect DEF RemoveTplBackup, Goto, JobInv
<1>36. ASSUME RemoveSetsNormal PROVE ImageInv' /\ Kept
  BY <1>36, FileEffect DEF RemoveSetsNormal, Finish, Succeed, Goto, JobInv
<1>37. ASSUME RemoveTplNormal PROVE ImageInv' /\ Kept
  BY <1>37, FileEffect DEF RemoveTplNormal, Finish, Succeed, JobInv
<1>38. ASSUME IncFailLookup PROVE ImageInv' /\ Kept
  BY <1>38 DEF IncFailLookup, JobInv, IncLabel
<1>39. ASSUME IncFailDrop PROVE ImageInv' /\ Kept
  BY <1>39 DEF IncFailDrop, JobInv, IncLabel
<1>40. ASSUME IncFailSets PROVE ImageInv' /\ Kept
  BY <1>40 DEF IncFailSets, JobInv, IncLabel
<1>41. ASSUME Crash PROVE ImageInv' /\ Kept
  <2>1. pc' = "idle" /\ ~inited' /\ job'.op = "none"
    BY <1>41 DEF Crash
  <2>2. CASE pc \in WritesSetsN
    BY <1>41, <2>2 DEF Crash, Torn, WritesSetsB
  <2>3. CASE pc \in WritesSetsB
    BY <1>41, <2>3 DEF Crash, Torn, JobInv, WritesSetsB
  <2>4. CASE pc \notin WritesSetsN \cup WritesSetsB
    BY <1>41, <2>4 DEF Crash, Torn
  <2>5. ImageInv'
    BY <2>1
  <2> QED BY <2>2, <2>3, <2>4, <2>5
<1>42. ASSUME NEW f \in Fid, Rot(f) PROVE ImageInv' /\ Kept
  BY <1>42 DEF Rot
<1>43. ASSUME UNCHANGED vars PROVE ImageInv' /\ Kept
  BY <1>43 DEF vars
<1> QED
  BY <1>1, <1>2, <1>3, <1>4, <1>5, <1>6, <1>7, <1>8, <1>9, <1>10, <1>11, <1>12, <1>13,
     <1>14, <1>15, <1>16, <1>17, <1>18, <1>19, <1>20, <1>21, <1>22, <1>23, <1>24, <1>25,
     <1>26, <1>27, <1>28, <1>29, <1>30, <1>31, <1>32, <1>33, <1>34, <1>35, <1>36, <1>37,
     <1>38, <1>39, <1>40, <1>41, <1>42, <1>43
     DEF Next, ClientCall, StoreStep, StoreInit, Load, Save, Update, Remove, IncFail

(* With power loss and decaying template files as the only faults, at any  *)
(* instant of any write, one of the two table files stays whole once one   *)
(* is: _storage_init never resets a database that exists.                  *)
THEOREM ImageNeverLost == ASSUME NoErrors PROVE Spec => ImageKept
<1>1. Init => ImageInv
  BY DEF Init, ImageInv, NoJob, WritesSetsN, InitLabel
<1>2. TypeInv /\ ImageInv /\ [Next]_vars => ImageInv' /\ Kept
  BY ImageStep
<1>3. Spec => []TypeInv
  BY TypeInit, TypeStep, PTL DEF Spec
<1>4. Spec => []ImageInv
  BY <1>1, <1>2, <1>3, PTL DEF Spec
<1>5. TypeInv /\ ImageInv /\ [Next]_vars => [Kept]_vars
  BY <1>2
<1> QED BY <1>3, <1>4, <1>5, PTL DEF Spec, ImageKept, Kept
=============================================================================

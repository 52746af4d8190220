------------------------------ MODULE TaEntry ------------------------------
(***************************************************************************)
(* The command entry of the trusted app (fp_ta_entry_def.c and the switch  *)
(* of fp_ta_entry_cmd.ic): one command at a time, with a response that the *)
(* client reads, and for some commands a buffer of the normal world, which *)
(* MAP_SHARED_BUFFER makes readable for the app and UNMAP_SHARED_BUFFER    *)
(* gives back, each in two calls that can fail.                            *)
(*                                                                         *)
(* What a command does is in TaSession and TaFingers; here only UPDATE_CFG *)
(* and what it depends on, as its data comes through the buffer            *)
(* (TaConfigWire).                                                         *)
(***************************************************************************)
EXTENDS TaConfigWire

CONSTANTS
  Buffer,    \* shared buffers of the client
  NoBuffer,
  FirstVal,  \* the app's own scalar values
  Unknown,   \* a command that is not in the switch
  MaxFault   \* bound: calls of the secure OS that fail

ASSUME BufferAssumption == NoBuffer \notin Buffer /\ FirstVal \in [Scalar -> Value]
ASSUME FaultAssumption == MaxFault \in Nat

VARIABLES
  pc,       \* the call of the entry point that comes next
  cmd,      \* id and buffer of the command
  wire,     \* the configuration in the buffer, for UPDATE_CFG
  room,     \* words of that buffer
  rsp,      \* the response: its status, and the data fields this command set
  shared,   \* each buffer for the secure OS
  pcfgs,    \* m_pcfgs is set
  config,   \* the app's cf_set_t
  faults,
  before,   \* auxiliary: config when UPDATE_CFG ran, and tables without memory
  ran,      \* auxiliary: the command's function was called
  stuck     \* auxiliary: buffers the app could not give back

client == <<cmd, wire, room>>
app    == <<pcfgs, config, before>>
vars   == <<pc, client, rsp, shared, app, faults, ran, stuck>>

-----------------------------------------------------------------------------
(* The cases of the switch, with the number of data fields each sets.       *)
SessionCases ==
  [MODE_DOWNLOAD |-> 0, CAPTURE_IMG |-> 0, NAV_CAPTURE_IMG |-> 0, AUTH_START |-> 0,
   AUTH_STEP |-> 1, AUTH_END |-> 0, ENROLL_START |-> 0, ENROLL_STEP |-> 1, ENROLL_END |-> 1,
   NAV_START |-> 0, NAV_STEP |-> 1, NAV_END |-> 0, NAV_SUPPORT |-> 1,
   INIT |-> 3, DEINIT |-> 0, SET_GID |-> 0]

FingerCases ==
  [LOAD_USER_DB |-> 0, FP_REMOVE |-> 0, GET_DB_COUNT |-> 0, GET_FINGERPRINTS |-> 1,
   LOAD_ENROLL_CHALLENGE |-> 2, SET_ENROLL_CHALLENGE |-> 0, VERIFY_ENROLL_CHALLENGE |-> 0,
   LOAD_AUTH_ID |-> 2, GET_AUTH_OBJ |-> 0, SET_NAV_TYPE |-> 0, GET_FINGER_STATUS |-> 2,
   GET_VERSIONS |-> 2, GET_CHIPID |-> 2]

SensorCases ==
  [TEST_IMAGE_CAPTURE |-> 2, TEST_SEND_GP_IMG |-> 1, TEST_IMAGE_FINISH |-> 0, TEST_DEADPX |-> 3,
   TEST_GET_IMG_INFO |-> 3, SET_KEY_DATA |-> 0, INIT_UNK_0 |-> 2, INIT_UNK_1 |-> 0,
   DEINIT_UNK_1 |-> 0, INIT_UNK_2 |-> 0, DEINIT_UNK_2 |-> 0, CALIBRATE |-> 0, CALIBRATE2 |-> 0,
   CHECK_ESD |-> 0, GET_OTP |-> 3, CALIBRATE_OPTIC |-> 1, GET_CONFIG |-> 1, GET_ENROLL_NUM |-> 1]

SettingCases ==
  [CI_CHK_FINGER |-> 0, CI_ADJ_GAIN |-> 0, CI_SHOT |-> 0, SET_ALG_PARAM |-> 2, SET_SPI_DEV |-> 0,
   UPDATE_CFG |-> 0, INIT2 |-> 2, LOAD_TEMPLATE |-> 0, SAVE_TEMPLATE |-> 1, UPDATE_TEMPLATE |-> 2,
   SET_LOG_MODE |-> 0, TEST_DUMP_DATA |-> 2, TEST_SPEED |-> 1, TEST_CMD |-> 2, GET_PARAM |-> 2]

Command == DOMAIN SessionCases \cup DOMAIN FingerCases
             \cup DOMAIN SensorCases \cup DOMAIN SettingCases

DataFields ==
  [c \in Command |-> CASE c \in DOMAIN SessionCases -> SessionCases[c]
                       [] c \in DOMAIN FingerCases  -> FingerCases[c]
                       [] c \in DOMAIN SensorCases  -> SensorCases[c]
                       [] OTHER                     -> SettingCases[c]]

ASSUME UnknownAssumption == Unknown \notin Command

Buffered ==
  {"LOAD_USER_DB", "GET_FINGERPRINTS", "VERIFY_ENROLL_CHALLENGE", "GET_AUTH_OBJ",
   "TEST_IMAGE_CAPTURE", "TEST_SEND_GP_IMG", "SET_KEY_DATA", "CALIBRATE", "CALIBRATE_OPTIC",
   "GET_CONFIG", "SET_ALG_PARAM", "SET_SPI_DEV", "UPDATE_CFG", "INIT2", "LOAD_TEMPLATE",
   "SAVE_TEMPLATE", "UPDATE_TEMPLATE", "TEST_DUMP_DATA", "TEST_SPEED", "TEST_CMD"}

(* Its status is set after the buffer is given back.                        *)
AnswersLate == {"GET_FINGERPRINTS"}

Status == {"stale", "bad_params", "unsupported", "map_failed", "done"}
Label  == {"idle", "entry", "register", "prepare", "run", "open", "deregister", "answered",
           "unanswered"}
NoWire == [chip |-> FALSE, val |-> FirstVal, mask |-> {},
           rows |-> [t \in WireTable |-> -1], body |-> <<>>]
Rooms  == {UpdateLength(rows) : rows \in Rows}
NoCmd  == [id |-> Unknown, buf |-> NoBuffer]
NoBefore == [config |-> Start(FirstVal), lacked |-> {}]
Stale  == [status |-> "stale", data |-> 0]

Init ==
  /\ pc = "idle" /\ cmd = NoCmd /\ wire = NoWire /\ room = 0
  /\ rsp = Stale
  /\ shared = [b \in Buffer |-> "none"]
  /\ pcfgs = FALSE /\ config = Start(FirstVal) /\ before = NoBefore
  /\ faults = 0 /\ ran = FALSE /\ stuck = {}

Fault == faults < MaxFault /\ faults' = faults + 1
Says(s) == rsp' = [rsp EXCEPT !.status = s]

-----------------------------------------------------------------------------
(* The client sends a command.  For UPDATE_CFG it has allocated room for    *)
(* the configuration it had when it asked for the length, filled the buffer *)
(* with the one it has now, and gives the length that was filled.           *)
Send(c, b) ==
  /\ pc = "idle" /\ c \in (Command \cup {Unknown}) \ {"UPDATE_CFG"}
  /\ b = NoBuffer <=> c \notin Buffered
  /\ pc' = "entry" /\ cmd' = [id |-> c, buf |-> b]
  /\ UNCHANGED <<wire, room, rsp, shared, app, faults, ran, stuck>>

SendUpdate(c, n, b) ==
  /\ pc = "idle"
  /\ pc' = "entry" /\ cmd' = [id |-> "UPDATE_CFG", buf |-> b]
  /\ room' = n
  /\ wire' = Encode(c, n)
  /\ UNCHANGED <<rsp, shared, app, faults, ran, stuck>>

(* A response too short for a status is left as it is, and what the entry   *)
(* point returns is dropped (silead_ta_entry.c:58).  A command buffer too   *)
(* short for an id is refused, an id that is not in the switch is           *)
(* unsupported.                                                             *)
Refuse ==
  /\ pc = "entry"
  /\ \/ pc' = "unanswered" /\ UNCHANGED rsp
     \/ pc' = "answered" /\ Says("bad_params")
     \/ pc' = "answered" /\ cmd.id = Unknown /\ Says("unsupported")
  /\ UNCHANGED <<client, shared, app, faults, ran, stuck>>

Dispatch ==
  /\ pc = "entry" /\ cmd.id # Unknown
  /\ pc' = IF cmd.id \in Buffered THEN "register" ELSE "run"
  /\ UNCHANGED <<client, rsp, shared, app, faults, ran, stuck>>

-----------------------------------------------------------------------------
(* MAP_SHARED_BUFFER.                                                       *)
Register ==
  /\ pc = "register"
  /\ \/ shared' = [shared EXCEPT ![cmd.buf] = "registered"] /\ pc' = "prepare"
        /\ UNCHANGED <<rsp, faults>>
     \/ Fault /\ Says("map_failed") /\ pc' = "answered" /\ UNCHANGED shared
  /\ UNCHANGED <<client, app, ran, stuck>>

(* Mutant: the failure is only logged.                                      *)
Prepare_GoesOn ==
  /\ pc = "prepare"
  /\ \/ shared' = [shared EXCEPT ![cmd.buf] = "secure"] /\ UNCHANGED faults
     \/ Fault /\ UNCHANGED shared
  /\ pc' = "run"
  /\ UNCHANGED <<client, rsp, app, ran, stuck>>

(* Mutant: the failure is not answered.                                     *)
Prepare_Silent ==
  /\ pc = "prepare"
  /\ \/ shared' = [shared EXCEPT ![cmd.buf] = "secure"] /\ pc' = "run"
        /\ UNCHANGED <<faults, stuck>>
     \/ Fault /\ pc' = "answered" /\ stuck' = stuck \cup {cmd.buf} /\ UNCHANGED shared
  /\ UNCHANGED <<client, rsp, app, ran>>

(* A buffer that was registered but cannot be read stays registered.        *)
Prepare ==
  /\ pc = "prepare"
  /\ \/ shared' = [shared EXCEPT ![cmd.buf] = "secure"] /\ pc' = "run"
        /\ UNCHANGED <<rsp, faults, stuck>>
     \/ Fault /\ Says("map_failed") /\ pc' = "answered" /\ stuck' = stuck \cup {cmd.buf}
        /\ UNCHANGED shared
  /\ UNCHANGED <<client, app, ran>>

-----------------------------------------------------------------------------
(* The command's function.  INIT forgets the configuration and finds it     *)
(* again or not, DEINIT releases the tables; the answer to UPDATE_CFG is    *)
(* the same whatever became of the buffer.                                  *)
InitRun   == cmd.id = "INIT" /\ pcfgs' \in BOOLEAN /\ UNCHANGED <<config, before, faults>>
DeinitRun == /\ cmd.id = "DEINIT"
             /\ config' = IF pcfgs THEN Release(config) ELSE config
             /\ UNCHANGED <<pcfgs, before, faults>>
UpdateRun ==
  /\ cmd.id = "UPDATE_CFG"
  /\ \E without \in SUBSET WireTable :
       /\ IF without = {} THEN UNCHANGED faults ELSE Fault
       /\ config' = IF pcfgs THEN Decode(config, wire, Header + Len(wire.body), without) ELSE config
       /\ before' = [config |-> config, lacked |-> without]
  /\ UNCHANGED pcfgs
OtherRun  == cmd.id \notin {"INIT", "DEINIT", "UPDATE_CFG"} /\ UNCHANGED <<app, faults>>

Run ==
  /\ pc = "run"
  /\ InitRun \/ DeinitRun \/ UpdateRun \/ OtherRun
  /\ ran' = TRUE
  /\ IF cmd.id \in Buffered
     THEN /\ pc' = "open"
          /\ IF cmd.id \in AnswersLate THEN UNCHANGED rsp ELSE Says("done")
     ELSE pc' = "answered" /\ rsp' = [status |-> "done", data |-> DataFields[cmd.id]]
  /\ UNCHANGED <<client, shared, stuck>>

-----------------------------------------------------------------------------
(* UNMAP_SHARED_BUFFER: a first call that fails is only logged, a second    *)
(* that fails skips what the case has left to do.                           *)
Open ==
  /\ pc = "open"
  /\ \/ shared' = [shared EXCEPT ![cmd.buf] = "registered"] /\ UNCHANGED faults
     \/ Fault /\ UNCHANGED shared
  /\ pc' = "deregister"
  /\ UNCHANGED <<client, rsp, app, ran, stuck>>

Deregister ==
  /\ pc = "deregister"
  /\ \/ /\ shared' = [shared EXCEPT ![cmd.buf] = "none"]
        /\ rsp' = [status |-> "done", data |-> DataFields[cmd.id]]
        /\ stuck' = stuck \ {cmd.buf}
        /\ UNCHANGED faults
     \/ Fault /\ stuck' = stuck \cup {cmd.buf} /\ UNCHANGED <<shared, rsp>>
  /\ pc' = "answered"
  /\ UNCHANGED <<client, app, ran>>

(* The client has read the response.                                        *)
Taken ==
  /\ pc \in {"answered", "unanswered"}
  /\ pc' = "idle" /\ cmd' = NoCmd /\ wire' = NoWire /\ room' = 0
  /\ rsp' = Stale /\ ran' = FALSE /\ before' = NoBefore
  /\ UNCHANGED <<shared, pcfgs, config, faults, stuck>>

-----------------------------------------------------------------------------
Client ==
  \/ \E c \in Command \cup {Unknown}, b \in Buffer \cup {NoBuffer} : Send(c, b)
  \/ \E c \in ClientConfig, n \in Rooms, b \in Buffer : SendUpdate(c, n, b)
  \/ Taken
Entry == Refuse \/ Dispatch \/ Register \/ Prepare \/ Run \/ Open \/ Deregister

Next == Client \/ Entry

Spec == Init /\ [][Next]_vars

-----------------------------------------------------------------------------
(* Every variable has its type, and a command's function runs only with its *)
(* buffer readable.                                                         *)
TypeOK ==
  /\ pc \in Label
  /\ cmd \in [id : Command \cup {Unknown}, buf : Buffer \cup {NoBuffer}]
  /\ cmd.buf = NoBuffer <=> cmd.id \notin Buffered
  /\ room \in Rooms \cup {0}
  /\ rsp \in [status : Status, data : 0 .. 3]
  /\ shared \in [Buffer -> {"none", "registered", "secure"}]
  /\ pcfgs \in BOOLEAN /\ ran \in BOOLEAN /\ stuck \subseteq Buffer
  /\ faults \in 0 .. MaxFault
  /\ pc \in {"run", "open"} /\ cmd.id \in Buffered => shared[cmd.buf] = "secure"

(* The answer to a command that got one.                                    *)
AnswerIsOwn ==
  pc = "answered" =>
    /\ rsp.status = "stale" => cmd.id \in AnswersLate /\ cmd.buf \in stuck
    /\ ran <=> rsp.status \in {"done", "stale"}
    /\ ran /\ cmd.buf \notin stuck => rsp.data = DataFields[cmd.id]
    /\ \A b \in Buffer \ stuck : shared[b] = "none"

(* When a command is answered, the answer is its own and tells whether it   *)
(* ran, and the buffer is the client's again.  Excused is a buffer the app  *)
(* could not give back, whose command lost its data fields and, for         *)
(* GET_FINGERPRINTS, its status.  A command that is left unanswered, as the *)
(* response had no room for a status, has not run.                          *)
Answered ==
  /\ pc = "unanswered" => ~ran /\ \A b \in Buffer \ stuck : shared[b] = "none"
  /\ AnswerIsOwn

(* UPDATE_CFG takes over what the client had marked when it filled the      *)
(* buffer, each table from its place, or changes nothing at all: for        *)
(* another sensor, without a configuration, or when the client's            *)
(* configuration had outgrown the buffer.  A table without memory stays as  *)
(* it was, and no other is mistaken for it.                                 *)
Fits == pcfgs /\ wire.chip /\ UpdateLength(wire.rows) <= room
UpdateWhole ==
  cmd.id = "UPDATE_CFG" /\ ran =>
    config = IF Fits THEN Merged(before.config, wire, before.lacked) ELSE before.config
=============================================================================

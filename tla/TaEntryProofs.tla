--------------------------- MODULE TaEntryProofs ---------------------------
(***************************************************************************)
(* Proofs about the command entry of the trusted app, for any number of    *)
(* shared buffers, any configuration tables and any number of failures, and *)
(* about the buffer of UPDATE_CFG: what the client's loops write there is  *)
(* what the app's loops read.                                              *)
(***************************************************************************)
EXTENDS TaEntry, TLAPS, WellFoundedInduction

(* What the response and the buffers are between the calls.                 *)
Before == {"idle", "entry", "register", "prepare", "run"}
Within == {"prepare", "run", "open", "deregister"}

Unanswered == pc \in Before => rsp = Stale /\ ~ran

Ran ==
  pc \in {"open", "deregister"} =>
    ran /\ (rsp.status = "done" \/ (rsp.status = "stale" /\ cmd.id \in AnswersLate))

OnlyOwn == \A b \in Buffer \ stuck : shared[b] # "none" => pc \in Within /\ b = cmd.buf

InSwitch ==
  /\ pc \in {"register", "prepare", "run", "open", "deregister"} => cmd.id \in Command
  /\ pc \in {"register", "prepare", "open", "deregister"} => cmd.id \in Buffered

IInv == TypeOK /\ Unanswered /\ Ran /\ OnlyOwn /\ InSwitch /\ Answered

-----------------------------------------------------------------------------
(* Each case of the switch sets at most three data fields, and a buffered   *)
(* command is one of the cases.                                             *)
LEMMA FewFields == \A c \in Command : DataFields[c] \in 0 .. 3
<1>1. \A c \in DOMAIN SessionCases : SessionCases[c] \in 0 .. 3
  BY DEF SessionCases
<1>2. \A c \in DOMAIN FingerCases : FingerCases[c] \in 0 .. 3
  BY DEF FingerCases
<1>3. \A c \in DOMAIN SensorCases : SensorCases[c] \in 0 .. 3
  BY DEF SensorCases
<1>4. \A c \in DOMAIN SettingCases : SettingCases[c] \in 0 .. 3
  BY DEF SettingCases
<1> QED
  BY <1>1, <1>2, <1>3, <1>4 DEF Command, DataFields

LEMMA BufferedInSwitch == Buffered \subseteq Command
<1>1. {"LOAD_USER_DB", "GET_FINGERPRINTS", "VERIFY_ENROLL_CHALLENGE", "GET_AUTH_OBJ"}
        \subseteq DOMAIN FingerCases
  BY DEF FingerCases
<1>2. {"TEST_IMAGE_CAPTURE", "TEST_SEND_GP_IMG", "SET_KEY_DATA", "CALIBRATE", "CALIBRATE_OPTIC",
       "GET_CONFIG"} \subseteq DOMAIN SensorCases
  BY DEF SensorCases
<1>3. {"SET_ALG_PARAM", "SET_SPI_DEV", "UPDATE_CFG", "INIT2", "LOAD_TEMPLATE", "SAVE_TEMPLATE",
       "UPDATE_TEMPLATE", "TEST_DUMP_DATA", "TEST_SPEED", "TEST_CMD"} \subseteq DOMAIN SettingCases
  BY DEF SettingCases
<1> QED
  BY <1>1, <1>2, <1>3 DEF Buffered, Command

LEMMA UnknownUnbuffered == Unknown \notin Buffered
BY BufferedInSwitch, UnknownAssumption

-----------------------------------------------------------------------------
(* The initial state satisfies the invariant.                               *)
LEMMA InitInv == Init => IInv
<1> SUFFICES ASSUME Init PROVE IInv
  OBVIOUS
<1> USE DEF Init
<1>1. TypeOK
  <2>1. cmd.id = Unknown /\ cmd.buf = NoBuffer /\ rsp.status = "stale" /\ rsp.data = 0
    BY DEF NoCmd, Stale
  <2>2. cmd \in [id : Command \cup {Unknown}, buf : Buffer \cup {NoBuffer}]
    BY DEF NoCmd
  <2>3. rsp \in [status : Status, data : 0 .. 3]
    BY DEF Stale, Status
  <2>4. faults \in 0 .. MaxFault
    BY FaultAssumption
  <2> QED
    BY <2>1, <2>2, <2>3, <2>4, UnknownUnbuffered DEF TypeOK, Label
<1>2. Unanswered /\ Ran /\ OnlyOwn /\ InSwitch /\ Answered
  BY DEF Unanswered, Ran, OnlyOwn, InSwitch, Answered, AnswerIsOwn, Before, Stale
<1> QED
  BY <1>1, <1>2 DEF IInv

(* Every step of the client, of the entry point and of the calls it makes   *)
(* keeps the invariant.                                                     *)
LEMMA SendInv ==
  ASSUME IInv, NEW c \in Command \cup {Unknown}, NEW b \in Buffer \cup {NoBuffer}, Send(c, b)
  PROVE  IInv'
<1> USE DEF IInv, Send, app
<1>1. TypeOK'
  BY DEF TypeOK, Label
<1>2. Unanswered' /\ Ran' /\ InSwitch' /\ Answered'
  BY DEF Unanswered, Ran, InSwitch, Answered, AnswerIsOwn, Before
<1>3. OnlyOwn'
  BY DEF OnlyOwn, Within
<1> QED
  BY <1>1, <1>2, <1>3

LEMMA SendUpdateInv ==
  ASSUME IInv, NEW c \in ClientConfig, NEW n \in Rooms, NEW b \in Buffer, SendUpdate(c, n, b)
  PROVE  IInv'
<1> USE DEF IInv, SendUpdate, app
<1>1. "UPDATE_CFG" \in Buffered
  BY DEF Buffered
<1>2. TypeOK'
  BY <1>1, BufferedInSwitch, BufferAssumption DEF TypeOK, Label
<1>3. Unanswered' /\ Ran' /\ InSwitch' /\ Answered'
  BY DEF Unanswered, Ran, InSwitch, Answered, AnswerIsOwn, Before
<1>4. OnlyOwn'
  BY DEF OnlyOwn, Within
<1> QED
  BY <1>2, <1>3, <1>4

LEMMA TakenInv == ASSUME IInv, Taken PROVE IInv'
<1> USE DEF IInv, Taken
<1>1. TypeOK'
  <2>1. cmd'.id = Unknown /\ cmd'.buf = NoBuffer
    BY DEF NoCmd
  <2>2. cmd' \in [id : Command \cup {Unknown}, buf : Buffer \cup {NoBuffer}]
    BY DEF NoCmd
  <2>3. rsp' \in [status : Status, data : 0 .. 3]
    BY DEF Stale, Status
  <2> QED
    BY <2>1, <2>2, <2>3, UnknownUnbuffered DEF TypeOK, Label
<1>2. Unanswered' /\ Ran' /\ InSwitch' /\ Answered'
  BY DEF Unanswered, Ran, InSwitch, Answered, AnswerIsOwn, Before
<1>3. OnlyOwn'
  BY DEF OnlyOwn, Within
<1> QED
  BY <1>1, <1>2, <1>3

LEMMA RefuseInv == ASSUME IInv, Refuse PROVE IInv'
<1> USE DEF IInv, Refuse, client, app, Says
<1>1. TypeOK'
  BY DEF TypeOK, Label, Status
<1>2. Unanswered' /\ Ran' /\ InSwitch'
  BY DEF Unanswered, Ran, InSwitch, Before
<1>3. OnlyOwn'
  BY DEF OnlyOwn, Within
<1>4. pc' = "answered" => rsp'.status \in {"bad_params", "unsupported"}
  BY DEF TypeOK
<1>5. ~ran'
  BY DEF Unanswered, Before
<1>6. Answered'
  BY <1>3, <1>4, <1>5 DEF Answered, AnswerIsOwn, OnlyOwn, Within
<1> QED
  BY <1>1, <1>2, <1>3, <1>6

LEMMA DispatchInv == ASSUME IInv, Dispatch PROVE IInv'
<1> USE DEF IInv, Dispatch, client, app
<1>1. TypeOK'
  BY DEF TypeOK, Label
<1>2. Unanswered' /\ Ran' /\ Answered'
  BY DEF Unanswered, Ran, Answered, AnswerIsOwn, Before
<1>3. InSwitch'
  BY DEF TypeOK, InSwitch
<1>4. OnlyOwn'
  BY DEF OnlyOwn, Within
<1> QED
  BY <1>1, <1>2, <1>3, <1>4

LEMMA RegisterInv == ASSUME IInv, Register PROVE IInv'
<1> USE DEF IInv, Register, client, app, Says, Fault
<1>1. cmd.buf \in Buffer
  BY DEF TypeOK, InSwitch
<1>2. TypeOK'
  BY <1>1, FaultAssumption DEF TypeOK, Label, Status
<1>3. InSwitch' /\ Ran'
  BY DEF InSwitch, Ran
<1>4. OnlyOwn'
  BY <1>1 DEF TypeOK, OnlyOwn, Within
<1>5. CASE pc' = "prepare"
  BY <1>5, <1>2, <1>3, <1>4 DEF Unanswered, Answered, AnswerIsOwn, Before
<1>6. CASE pc' = "answered"
  <2>1. rsp'.status = "map_failed" /\ ~ran'
    BY <1>6 DEF TypeOK, Unanswered, Before
  <2> QED
    BY <1>6, <2>1, <1>2, <1>3, <1>4 DEF Unanswered, Answered, AnswerIsOwn, Before, OnlyOwn, Within
<1> QED
  BY <1>5, <1>6

LEMMA PrepareInv == ASSUME IInv, Prepare PROVE IInv'
<1> USE DEF IInv, Prepare, client, app, Says, Fault
<1>1. cmd.buf \in Buffer
  BY DEF TypeOK, InSwitch
<1>2. TypeOK'
  BY <1>1, FaultAssumption DEF TypeOK, Label, Status
<1>3. InSwitch' /\ Ran'
  BY DEF InSwitch, Ran
<1>4. OnlyOwn'
  BY <1>1 DEF TypeOK, OnlyOwn, Within
<1>5. CASE pc' = "run"
  BY <1>5, <1>2, <1>3, <1>4 DEF Unanswered, Answered, AnswerIsOwn, Before
<1>6. CASE pc' = "answered"
  <2>1. rsp'.status = "map_failed" /\ ~ran'
    BY <1>6 DEF TypeOK, Unanswered, Before
  <2> QED
    BY <1>6, <2>1, <1>2, <1>3, <1>4 DEF Unanswered, Answered, AnswerIsOwn, Before, OnlyOwn, Within
<1> QED
  BY <1>5, <1>6

LEMMA RunInv == ASSUME IInv, Run PROVE IInv'
<1> USE DEF IInv, Run, client, Says
<1>1. /\ pcfgs' \in BOOLEAN /\ faults' \in 0 .. MaxFault
  BY FaultAssumption
     DEF TypeOK, InitRun, DeinitRun, UpdateRun, OtherRun, Fault, app
<1>2. DataFields[cmd.id] \in 0 .. 3
  BY FewFields DEF InSwitch
<1>3. TypeOK'
  BY <1>1, <1>2 DEF TypeOK, Label, Status
<1>4. InSwitch'
  BY DEF InSwitch
<1>5. OnlyOwn'
  BY BufferAssumption DEF TypeOK, OnlyOwn, Within
<1>6. CASE cmd.id \in Buffered
  <2>1. rsp'.status = "done" \/ (rsp'.status = "stale" /\ cmd.id \in AnswersLate)
    BY <1>6 DEF TypeOK, Unanswered, Before, Stale
  <2> QED
    BY <1>6, <2>1, <1>3, <1>4, <1>5 DEF Unanswered, Ran, Answered, AnswerIsOwn, Before
<1>7. CASE cmd.id \notin Buffered
  <2>1. \A b \in Buffer \ stuck : shared[b] = "none"
    BY <1>7, BufferAssumption DEF TypeOK, OnlyOwn
  <2> QED
    BY <1>7, <2>1, <1>3, <1>4, <1>5 DEF Unanswered, Ran, Answered, AnswerIsOwn, Before
<1> QED
  BY <1>6, <1>7

LEMMA OpenInv == ASSUME IInv, Open PROVE IInv'
<1> USE DEF IInv, Open, client, app, Fault
<1>1. cmd.buf \in Buffer
  BY DEF TypeOK, InSwitch
<1>2. TypeOK'
  BY <1>1, FaultAssumption DEF TypeOK, Label
<1>3. InSwitch' /\ Ran' /\ Unanswered' /\ Answered'
  BY DEF InSwitch, Ran, Unanswered, Answered, AnswerIsOwn, Before
<1>4. OnlyOwn'
  BY <1>1 DEF TypeOK, OnlyOwn, Within
<1> QED
  BY <1>2, <1>3, <1>4

LEMMA DeregisterInv == ASSUME IInv, Deregister PROVE IInv'
<1> USE DEF IInv, Deregister, client, app, Fault
<1>1. cmd.buf \in Buffer /\ DataFields[cmd.id] \in 0 .. 3
  BY FewFields DEF TypeOK, InSwitch
<1>2. TypeOK'
  BY <1>1, FaultAssumption DEF TypeOK, Label, Status
<1>3. InSwitch' /\ Ran' /\ Unanswered'
  BY DEF InSwitch, Ran, Unanswered, Before
<1>4. \A b \in Buffer \ stuck' : shared'[b] = "none"
  BY <1>1 DEF TypeOK, OnlyOwn
<1>5. OnlyOwn'
  BY <1>4 DEF OnlyOwn
<1>6. CASE rsp' = [status |-> "done", data |-> DataFields[cmd.id]]
  <2>1. rsp'.status = "done" /\ rsp'.data = DataFields[cmd.id]
    BY <1>6
  <2> QED
    BY <2>1, <1>2, <1>3, <1>4, <1>5 DEF Ran, Answered, AnswerIsOwn
<1>7. CASE UNCHANGED rsp /\ stuck' = stuck \cup {cmd.buf}
  BY <1>7, <1>2, <1>3, <1>4, <1>5 DEF Ran, Answered, AnswerIsOwn
<1> QED
  BY <1>6, <1>7

LEMMA NextInv == ASSUME IInv, [Next]_vars PROVE IInv'
<1>1. CASE Client
  BY <1>1, SendInv, SendUpdateInv, TakenInv DEF Client
<1>2. CASE Entry
  BY <1>2, RefuseInv, DispatchInv, RegisterInv, PrepareInv, RunInv, OpenInv, DeregisterInv
     DEF Entry
<1>3. CASE UNCHANGED vars
  BY <1>3 DEF vars, client, app, IInv, TypeOK, Unanswered, Ran, OnlyOwn, InSwitch, Answered, AnswerIsOwn
<1> QED
  BY <1>1, <1>2, <1>3 DEF Next

LEMMA Inductive == Spec => []IInv
<1>1. Init => IInv
  BY InitInv
<1>2. IInv /\ [Next]_vars => IInv'
  BY NextInv
<1> QED
  BY <1>1, <1>2, PTL DEF Spec

-----------------------------------------------------------------------------
(* Types of all variables, and a command that needs a shared buffer runs    *)
(* only while the app can read it, whatever fails (fp_ta_entry_def.c:10).   *)
THEOREM TypeCorrect == Spec => []TypeOK
<1>1. IInv => TypeOK
  BY DEF IInv
<1> QED
  BY <1>1, Inductive, PTL

(* Every answer is the one of the command that was sent, tells whether it   *)
(* ran, and leaves no buffer shared but one the app could not give back; a  *)
(* command whose response has no room for an answer does not run.           *)
THEOREM AlwaysAnswered == Spec => []Answered
<1>1. IInv => Answered
  BY DEF IInv
<1> QED
  BY <1>1, Inductive, PTL
-----------------------------------------------------------------------------
(* Induction, stated of sets: a set of numbers that has 0, and with each    *)
(* number the next, has them all.                                           *)
Less == {p \in Nat \X Nat : p[1] < p[2]}

LEMMA LessFounded == IsWellFoundedOn(Less, Nat)
BY NatLessThanWellFounded DEF Less, OpToRel

LEMMA Induct ==
  ASSUME NEW S, 0 \in S, \A n \in Nat : n \in S => n + 1 \in S
  PROVE  Nat \subseteq S
<1> DEFINE T == Nat \ S
<1> SUFFICES ASSUME T # {} PROVE FALSE
  OBVIOUS
<1>1. PICK n \in T : \A m \in T : <<m, n>> \notin Less
  BY LessFounded, WFMin
<1>2. \A m \in T : ~(m < n)
  BY <1>1 DEF Less
<1>3. n # 0 /\ n - 1 \in Nat
  OBVIOUS
<1>4. n - 1 \in S
  BY <1>2, <1>3
<1> QED BY <1>3, <1>4

(* A loop of N passes, each with a step of its own, has values.             *)
Loop(N, base, g, f) == f = [n \in 0 .. N |-> IF n = 0 THEN base ELSE g[n][f[n - 1]]]

LEMMA LoopExists ==
  ASSUME NEW N \in Nat, NEW V, NEW base \in V, NEW g \in [1 .. N -> [V -> V]]
  PROVE  \E f \in [0 .. N -> V] : Loop(N, base, g, f)
<1> DEFINE S == {k \in Nat : k <= N => \E f \in [0 .. k -> V] : Loop(k, base, g, f)}
<1>1. 0 \in S
  <2> DEFINE f == [n \in 0 .. 0 |-> base]
  <2>1. f \in [0 .. 0 -> V]
    OBVIOUS
  <2>2. Loop(0, base, g, f)
    BY DEF Loop
  <2> QED BY <2>1, <2>2
<1>2. ASSUME NEW k \in Nat, k \in S, k + 1 <= N
      PROVE  \E f \in [0 .. k + 1 -> V] : Loop(k + 1, base, g, f)
  <2>1. PICK h \in [0 .. k -> V] : Loop(k, base, g, h)
    BY <1>2
  <2>2. g[k + 1] \in [V -> V] /\ h[k] \in V
    BY <1>2
  <2> DEFINE f == [n \in 0 .. k + 1 |-> IF n = k + 1 THEN g[k + 1][h[k]] ELSE h[n]]
  <2>3. f \in [0 .. k + 1 -> V]
    BY <2>2
  <2>4. \A n \in 0 .. k : h[n] = IF n = 0 THEN base ELSE g[n][h[n - 1]]
    BY <2>1 DEF Loop
  <2>5. \A n \in 0 .. k + 1 : f[n] = IF n = 0 THEN base ELSE g[n][f[n - 1]]
    <3> SUFFICES ASSUME NEW n \in 0 .. k + 1
                 PROVE  f[n] = IF n = 0 THEN base ELSE g[n][f[n - 1]]
      OBVIOUS
    <3>1. CASE n = k + 1
      <4>1. n # 0 /\ n - 1 = k /\ f[n] = g[k + 1][h[k]] /\ f[k] = h[k]
        BY <3>1
      <4> QED BY <4>1, <3>1
    <3>2. CASE n # k + 1
      <4>1. n \in 0 .. k /\ f[n] = h[n] /\ (n # 0 => f[n - 1] = h[n - 1])
        BY <3>2
      <4> QED BY <4>1, <2>4
    <3> QED BY <3>1, <3>2
  <2>6. Loop(k + 1, base, g, f)
    BY <2>3, <2>5 DEF Loop
  <2> QED BY <2>3, <2>6
<1>3. \A k \in Nat : k \in S => k + 1 \in S
  BY <1>2
<1>4. N \in S
  BY <1>1, <1>3, Induct
<1> QED BY <1>4

(* And they are of the type that every pass keeps.                          *)
LEMMA LoopTyped ==
  ASSUME NEW N \in Nat, NEW V, NEW f,
         f[0] \in V, \A n \in 1 .. N : f[n - 1] \in V => f[n] \in V
  PROVE  \A n \in 0 .. N : f[n] \in V
<1> DEFINE S == {n \in Nat : n <= N => f[n] \in V}
<1>1. 0 \in S
  OBVIOUS
<1>2. ASSUME NEW n \in Nat, n \in S PROVE n + 1 \in S
  <2>1. n + 1 <= N => n + 1 \in 1 .. N /\ (n + 1) - 1 = n /\ f[n] \in V
    BY <1>2
  <2> QED BY <2>1
<1>3. Nat \subseteq S
  BY <1>1, <1>2, Induct
<1> QED BY <1>3

-----------------------------------------------------------------------------
LEMMA OrderIs == /\ Len(Order) \in Nat /\ DOMAIN Order = 1 .. Len(Order)
                 /\ \A n \in 1 .. Len(Order) : Order[n] \in WireTable
BY WireAssumption

LEMMA SizeIs ==
  ASSUME NEW rows \in Rows, NEW t \in WireTable
  PROVE  /\ Size(rows, t) \in Nat
         /\ Size(rows, t) = 0 <=> ~(rows[t] > 0)
         /\ rows[t] > 0 => Size(rows, t) = rows[t] * Width[t]
<1>1. rows[t] \in Int /\ Width[t] \in Nat \ {0}
  BY WireAssumption DEF Rows
<1>2. \A a, b \in Nat \ {0} : a * b \in Nat \ {0}
  OBVIOUS
<1> QED BY <1>1, <1>2 DEF Size

LEMMA UptoIs ==
  ASSUME NEW rows \in Rows
  PROVE  /\ \A n \in 0 .. Len(Order) : Upto(rows)[n] \in Nat
         /\ Upto(rows)[0] = Header
         /\ \A n \in 1 .. Len(Order) : Upto(rows)[n] = Upto(rows)[n - 1] + Size(rows, Order[n])
<1> DEFINE N == Len(Order)
           g == [n \in 1 .. N |-> [v \in Nat |-> v + Size(rows, Order[n])]]
           Eq(f) == f = [n \in 0 .. N |-> IF n = 0 THEN Header ELSE f[n - 1] + Size(rows, Order[n])]
<1>1. N \in Nat /\ Header \in Nat
  BY OrderIs, WireAssumption
<1>2. g \in [1 .. N -> [Nat -> Nat]]
  BY OrderIs, SizeIs
<1>3. PICK f \in [0 .. N -> Nat] : Loop(N, Header, g, f)
  <2> HIDE DEF g, N
  <2> QED BY <1>1, <1>2, LoopExists
<1>4. Eq(f)
  <2>1. \A n \in 0 .. N : f[n] = IF n = 0 THEN Header ELSE g[n][f[n - 1]]
    BY <1>3 DEF Loop
  <2>2. \A n \in 1 .. N : f[n - 1] \in Nat
    BY <1>1
  <2>3. \A n \in 1 .. N : g[n][f[n - 1]] = f[n - 1] + Size(rows, Order[n])
    BY <2>2
  <2>4. ASSUME NEW n \in 0 .. N
        PROVE  f[n] = IF n = 0 THEN Header ELSE f[n - 1] + Size(rows, Order[n])
    <3> HIDE DEF g
    <3>1. n # 0 => n \in 1 .. N
      BY <1>1
    <3> QED BY <2>1, <2>3, <3>1
  <2> QED BY <2>4
<1>5. Upto(rows) = CHOOSE h : Eq(h)
  BY DEF Upto
<1>6. Eq(Upto(rows))
  <2> HIDE DEF Eq
  <2> QED BY <1>4, <1>5
<1>7. /\ Upto(rows)[0] = Header
      /\ \A n \in 1 .. N : Upto(rows)[n] = Upto(rows)[n - 1] + Size(rows, Order[n])
  <2> DEFINE u == Upto(rows)
  <2>1. \A n \in 0 .. N : u[n] = IF n = 0 THEN Header ELSE u[n - 1] + Size(rows, Order[n])
    <3> HIDE DEF u
    <3>1. Eq(u)
      BY <1>6 DEF u
    <3> QED BY <3>1
  <2> HIDE DEF u
  <2>2. /\ u[0] = Header
        /\ \A n \in 1 .. N : u[n] = u[n - 1] + Size(rows, Order[n])
    BY <2>1, <1>1
  <2> QED BY <2>2 DEF u
<1>8. \A n \in 1 .. N : Size(rows, Order[n]) \in Nat
  BY OrderIs, SizeIs
<1>9. \A n \in 0 .. N : Upto(rows)[n] \in Nat
  <2>1. \A n \in 1 .. N : Upto(rows)[n - 1] \in Nat => Upto(rows)[n] \in Nat
    BY <1>7, <1>8
  <2> HIDE DEF N
  <2> QED BY <1>1, <1>7, <2>1, LoopTyped
<1> QED BY <1>7, <1>9

LEMMA UptoGrows ==
  ASSUME NEW rows \in Rows, NEW n \in 0 .. Len(Order)
  PROVE  Upto(rows)[n] <= UpdateLength(rows)
<1> DEFINE N == Len(Order)
           u == Upto(rows)
           S == {k \in Nat : n + k <= N => u[n] <= u[n + k]}
<1>1. /\ \A i \in 0 .. N : u[i] \in Nat
      /\ \A i \in 1 .. N : u[i] = u[i - 1] + Size(rows, Order[i]) /\ Size(rows, Order[i]) \in Nat
  BY UptoIs, OrderIs, SizeIs
<1>2. N \in Nat /\ n \in Nat
  BY OrderIs
<1> HIDE DEF u, N
<1>3. 0 \in S
  BY <1>1, <1>2
<1>4. ASSUME NEW k \in Nat, k \in S PROVE k + 1 \in S
  <2> SUFFICES ASSUME n + (k + 1) <= N PROVE u[n] <= u[n + (k + 1)]
    OBVIOUS
  <2> DEFINE m == n + (k + 1)
  <2>1. m \in 1 .. N /\ m - 1 = n + k /\ n + k \in 0 .. N /\ n \in 0 .. N
    BY <1>2
  <2>2. u[n] <= u[n + k]
    BY <1>4, <2>1
  <2>3. u[m] = u[n + k] + Size(rows, Order[m]) /\ Size(rows, Order[m]) \in Nat
    BY <1>1, <2>1
  <2>4. u[n] \in Nat /\ u[n + k] \in Nat
    BY <1>1, <2>1
  <2> QED BY <2>2, <2>3, <2>4
<1>5. N - n \in S
  <2>1. N - n \in Nat
    BY <1>2 DEF N
  <2> QED BY <2>1, <1>3, <1>4, Induct
<1>6. n + (N - n) = N /\ n <= N
  BY <1>2 DEF N
<1>7. u[n] <= u[N]
  BY <1>5, <1>6
<1> QED BY <1>7 DEF u, N, UpdateLength

Word == WireTable \X Int \X Int

LEMMA WordsIs ==
  ASSUME NEW rows \in Rows, NEW t \in WireTable, rows[t] > 0
  PROVE  /\ Words(t, rows[t]) \in Seq(Word) /\ Len(Words(t, rows[t])) = Size(rows, t)
         /\ Words(t, rows[t]) = [i \in 1 .. Size(rows, t) |-> Words(t, rows[t])[i]]
<1>1. Size(rows, t) \in Nat /\ Size(rows, t) = rows[t] * Width[t] /\ rows[t] \in Int
  BY SizeIs DEF Rows
<1>2. Words(t, rows[t]) = [i \in 1 .. Size(rows, t) |-> <<t, rows[t], i>>]
  BY <1>1 DEF Words
<1> QED BY <1>1, <1>2 DEF Word

LEMMA AddedIs ==
  ASSUME NEW c, NEW limit, c.rows \in Rows, NEW t \in WireTable, NEW b \in Seq(Word)
  PROVE  /\ Added(c, limit, t, b) \in Seq(Word)
         /\ \/ Added(c, limit, t, b) = b
               /\ (Size(c.rows, t) = 0 \/ Header + Len(b) + Size(c.rows, t) > limit)
            \/ /\ Added(c, limit, t, b) = b \o Words(t, c.rows[t])
               /\ c.rows[t] > 0 /\ ~(Header + Len(b) + Size(c.rows, t) > limit)
<1>1. Size(c.rows, t) # 0 => c.rows[t] > 0
  BY SizeIs
<1>2. c.rows[t] > 0 => Words(t, c.rows[t]) \in Seq(Word)
  BY WordsIs
<1> QED BY <1>1, <1>2 DEF Added

LEMMA JoinedIs ==
  ASSUME NEW a \in Seq(Word), NEW w \in Seq(Word)
  PROVE  /\ Len(a) \in Nat /\ Len(w) \in Nat /\ Len(a \o w) = Len(a) + Len(w)
         /\ \A i \in 1 .. Len(a) : (a \o w)[i] = a[i]
         /\ \A i \in 1 .. Len(w) : (a \o w)[Len(a) + i] = w[i]
OBVIOUS

LEMMA FilledIs ==
  ASSUME NEW c, NEW limit, c.rows \in Rows
  PROVE  /\ \A n \in 0 .. Len(Order) : Filled(c, limit)[n] \in Seq(Word)
         /\ Filled(c, limit)[0] = <<>>
         /\ \A n \in 1 .. Len(Order) :
              Filled(c, limit)[n] = Added(c, limit, Order[n], Filled(c, limit)[n - 1])
<1> DEFINE N == Len(Order)
           V == Seq(Word)
           g == [n \in 1 .. N |-> [v \in V |-> Added(c, limit, Order[n], v)]]
           Eq(f) == f = [n \in 0 .. N |-> IF n = 0 THEN <<>> ELSE Added(c, limit, Order[n], f[n - 1])]
<1>1. N \in Nat /\ <<>> \in V
  BY OrderIs
<1>0. \A n \in 1 .. N, v \in V : Added(c, limit, Order[n], v) \in V
  BY OrderIs, AddedIs
<1>2. g \in [1 .. N -> [V -> V]]
  <2> HIDE DEF V, N
  <2> QED BY <1>0
<1>3. PICK f \in [0 .. N -> V] : Loop(N, <<>>, g, f)
  <2> HIDE DEF g, N, V
  <2> QED BY <1>1, <1>2, LoopExists
<1>4. Eq(f)
  <2>1. \A n \in 0 .. N : f[n] = IF n = 0 THEN <<>> ELSE g[n][f[n - 1]]
    BY <1>3 DEF Loop
  <2>2. \A n \in 1 .. N : f[n - 1] \in V
    <3> HIDE DEF V
    <3> QED BY <1>1
  <2>3. \A n \in 1 .. N : g[n][f[n - 1]] = Added(c, limit, Order[n], f[n - 1])
    <3> HIDE DEF V
    <3> QED BY <2>2
  <2>4. ASSUME NEW n \in 0 .. N
        PROVE  f[n] = IF n = 0 THEN <<>> ELSE Added(c, limit, Order[n], f[n - 1])
    <3> HIDE DEF g, V
    <3>1. n # 0 => n \in 1 .. N
      BY <1>1
    <3> QED BY <2>1, <2>3, <3>1
  <2> QED BY <2>4
<1>5. Filled(c, limit) = CHOOSE h : Eq(h)
  BY DEF Filled
<1>6. Eq(Filled(c, limit))
  <2> HIDE DEF Eq
  <2> QED BY <1>4, <1>5
<1>7. /\ Filled(c, limit)[0] = <<>>
      /\ \A n \in 1 .. N : Filled(c, limit)[n] = Added(c, limit, Order[n], Filled(c, limit)[n - 1])
  <2> DEFINE u == Filled(c, limit)
  <2>1. \A n \in 0 .. N : u[n] = IF n = 0 THEN <<>> ELSE Added(c, limit, Order[n], u[n - 1])
    <3> HIDE DEF u
    <3>1. Eq(u)
      BY <1>6 DEF u
    <3> QED BY <3>1
  <2> HIDE DEF u
  <2>2. /\ u[0] = <<>>
        /\ \A n \in 1 .. N : u[n] = Added(c, limit, Order[n], u[n - 1])
    BY <2>1, <1>1
  <2> QED BY <2>2 DEF u
<1>8. \A n \in 0 .. N : Filled(c, limit)[n] \in V
  <2>1. \A n \in 1 .. N : Filled(c, limit)[n - 1] \in V => Filled(c, limit)[n] \in V
    BY <1>7, <1>0
  <2> HIDE DEF N, V
  <2> QED BY <1>1, <1>7, <2>1, LoopTyped
<1> QED BY <1>7, <1>8

(* When the whole configuration fits, no table is skipped: the writer is    *)
(* after each table where the reader will be.                               *)
LEMMA NoneSkipped ==
  ASSUME NEW c, NEW limit \in Nat, c.rows \in Rows, UpdateLength(c.rows) <= limit
  PROVE  \A n \in 0 .. Len(Order) : Header + Len(Filled(c, limit)[n]) = Upto(c.rows)[n]
<1> DEFINE N == Len(Order)
           u == Upto(c.rows)
           b == Filled(c, limit)
           S == {k \in Nat : k <= N => Header + Len(b[k]) = u[k]}
<1>1. /\ \A i \in 0 .. N : u[i] \in Nat /\ u[i] <= limit
      /\ u[0] = Header
      /\ \A i \in 1 .. N : u[i] = u[i - 1] + Size(c.rows, Order[i])
  <2>1. UpdateLength(c.rows) \in Nat
    BY UptoIs, OrderIs DEF UpdateLength
  <2>2. \A i \in 0 .. N : u[i] \in Nat /\ u[i] <= UpdateLength(c.rows)
    BY UptoIs, UptoGrows
  <2> QED BY <2>1, <2>2, UptoIs
<1>2. /\ \A i \in 0 .. N : b[i] \in Seq(Word)
      /\ b[0] = <<>>
      /\ \A i \in 1 .. N : b[i] = Added(c, limit, Order[i], b[i - 1])
  BY FilledIs
<1>3. N \in Nat /\ Header \in Nat
  BY OrderIs, WireAssumption
<1>4. \A i \in 1 .. N : Order[i] \in WireTable
  BY OrderIs
<1> HIDE DEF u, b, N
<1>5. 0 \in S
  BY <1>1, <1>2, <1>3
<1>6. ASSUME NEW k \in Nat, k \in S PROVE k + 1 \in S
  <2> SUFFICES ASSUME k + 1 <= N PROVE Header + Len(b[k + 1]) = u[k + 1]
    OBVIOUS
  <2> DEFINE t == Order[k + 1]
             z == Size(c.rows, t)
  <2>1. k + 1 \in 1 .. N /\ (k + 1) - 1 = k /\ k \in 0 .. N /\ k + 1 \in 0 .. N
    BY <1>3
  <2>2. t \in WireTable /\ z \in Nat
    BY <1>4, <2>1, SizeIs
  <2>3. u[k + 1] = u[k] + z /\ u[k + 1] <= limit /\ Header + Len(b[k]) = u[k]
    BY <1>1, <1>6, <2>1
  <2>4. b[k + 1] = Added(c, limit, t, b[k]) /\ b[k] \in Seq(Word)
    BY <1>2, <2>1
  <2> HIDE DEF z
  <2>5. ~(Header + Len(b[k]) + z > limit)
    BY <2>3, <1>1, <2>1
  <2>6. CASE b[k + 1] = b[k] /\ z = 0
    BY <2>6, <2>3, <1>1, <2>1
  <2>7. CASE b[k + 1] = b[k] \o Words(t, c.rows[t]) /\ c.rows[t] > 0
    <3>1. Words(t, c.rows[t]) \in Seq(Word) /\ Len(Words(t, c.rows[t])) = z
      BY <2>2, <2>7, WordsIs DEF z
    <3>2. Len(b[k + 1]) = Len(b[k]) + z /\ Len(b[k]) \in Nat
      BY <3>1, <2>4, <2>7, JoinedIs, ZenonT(60)
    <3> QED BY <3>2, <2>3, <1>3, <2>2
  <2> HIDE DEF t
  <2> QED BY <2>2, <2>4, <2>5, <2>6, <2>7, AddedIs DEF z
<1>7. Nat \subseteq S
  BY <1>5, <1>6, Induct
<1>8. \A n \in 0 .. N : Header + Len(b[n]) = u[n]
  BY <1>3, <1>7
<1> QED BY <1>8 DEF u, b, N

(* However much is skipped, the buffer is never overrun.                    *)
LEMMA NeverOverrun ==
  ASSUME NEW c, NEW limit \in Nat, c.rows \in Rows, Header <= limit
  PROVE  Header + Len(Filled(c, limit)[Len(Order)]) <= limit
<1> DEFINE N == Len(Order)
           b == Filled(c, limit)
           V == {s \in Seq(Word) : Header + Len(s) <= limit}
<1>1. N \in Nat /\ Header \in Nat
  BY OrderIs, WireAssumption
<1>2. b[0] \in V
  BY FilledIs, <1>1
<1>3. ASSUME NEW n \in 1 .. N, b[n - 1] \in V PROVE b[n] \in V
  <2> DEFINE t == Order[n]
             a == b[n - 1]
  <2>1. t \in WireTable /\ b[n] = Added(c, limit, t, a) /\ a \in Seq(Word)
    BY <1>3, OrderIs, FilledIs
  <2>2. Header + Len(a) <= limit
    BY <1>3
  <2> HIDE DEF a, b, t
  <2>3. b[n] \in Seq(Word)
    BY <2>1, AddedIs
  <2>4. CASE b[n] = a
    BY <2>2, <2>3, <2>4
  <2>5. CASE /\ b[n] = a \o Words(t, c.rows[t])
             /\ c.rows[t] > 0 /\ ~(Header + Len(a) + Size(c.rows, t) > limit)
    <3>1. /\ Words(t, c.rows[t]) \in Seq(Word) /\ Len(Words(t, c.rows[t])) = Size(c.rows, t)
          /\ Size(c.rows, t) \in Nat
      BY <2>1, <2>5, WordsIs, SizeIs
    <3>2. Len(b[n]) = Len(a) + Size(c.rows, t) /\ Len(a) \in Nat
      BY <2>1, <2>5, <3>1, JoinedIs
    <3> QED BY <2>3, <2>5, <3>1, <3>2, <1>1
  <2> QED BY <2>1, <2>4, <2>5, AddedIs
<1> HIDE DEF V, b, N
<1>4. \A n \in 0 .. N : b[n] \in V
  BY <1>1, <1>2, <1>3, LoopTyped
<1>5. b[N] \in V
  BY <1>1, <1>4
<1> QED BY <1>5 DEF V, b, N

(* What was written is not written over.                                    *)
LEMMA FilledStays ==
  ASSUME NEW c, NEW limit, c.rows \in Rows, NEW n \in 0 .. Len(Order)
  PROVE  LET b == Filled(c, limit)[n]
             w == Filled(c, limit)[Len(Order)]
         IN  Len(b) <= Len(w) /\ \A i \in 1 .. Len(b) : w[i] = b[i]
<1> DEFINE N == Len(Order)
           b == Filled(c, limit)
           Grown(s) == Len(b[n]) <= Len(s) /\ \A i \in 1 .. Len(b[n]) : s[i] = b[n][i]
           S == {k \in Nat : n + k <= N => Grown(b[n + k])}
<1>1. /\ \A i \in 0 .. N : b[i] \in Seq(Word)
      /\ \A i \in 1 .. N : b[i] = Added(c, limit, Order[i], b[i - 1])
  BY FilledIs
<1>2. N \in Nat /\ n \in Nat /\ n <= N
  BY OrderIs
<1>3. \A i \in 1 .. N : Order[i] \in WireTable
  BY OrderIs
<1> HIDE DEF b, N
<1>4. 0 \in S
  <2>1. n + 0 = n /\ b[n] \in Seq(Word)
    BY <1>1, <1>2
  <2> QED BY <2>1
<1>5. ASSUME NEW k \in Nat, k \in S PROVE k + 1 \in S
  <2> SUFFICES ASSUME n + (k + 1) <= N PROVE Grown(b[n + (k + 1)])
    OBVIOUS
  <2> DEFINE m == n + (k + 1)
             a == b[n + k]
             t == Order[m]
  <2>1. m \in 1 .. N /\ m - 1 = n + k /\ n + k \in 0 .. N /\ n \in 0 .. N /\ n + k <= N
    BY <1>2
  <2>2. b[m] = Added(c, limit, t, a) /\ a \in Seq(Word) /\ t \in WireTable /\ b[n] \in Seq(Word)
    BY <1>1, <1>3, <2>1
  <2>3. Grown(a)
    BY <1>5, <2>1
  <2> HIDE DEF a, t, m
  <2>4. CASE b[m] = a
    BY <2>3, <2>4 DEF m
  <2>5. CASE b[m] = a \o Words(t, c.rows[t]) /\ c.rows[t] > 0
    <3> DEFINE w == Words(t, c.rows[t])
    <3>1. w \in Seq(Word)
      BY <2>2, <2>5, WordsIs
    <3> HIDE DEF w
    <3>2. b[m] = a \o w
      BY <2>5 DEF w
    <3>3. Len(b[m]) = Len(a) + Len(w) /\ \A i \in 1 .. Len(a) : b[m][i] = a[i]
      BY <2>2, <3>1, <3>2
    <3>4. Len(a) \in Nat /\ Len(w) \in Nat /\ Len(b[n]) \in Nat
      BY <2>2, <3>1
    <3>5. Len(b[n]) <= Len(a) /\ \A i \in 1 .. Len(b[n]) : a[i] = b[n][i]
      BY <2>3
    <3>6. ASSUME NEW i \in 1 .. Len(b[n]) PROVE b[m][i] = b[n][i]
      BY <3>3, <3>4, <3>5
    <3>7. Len(b[n]) <= Len(b[m])
      BY <3>3, <3>4, <3>5
    <3>8. Grown(b[m])
      BY <3>6, <3>7
    <3> QED BY <3>8 DEF m
  <2> QED BY <2>2, <2>4, <2>5, AddedIs
<1>6. N - n \in S
  <2>1. N - n \in Nat
    BY <1>2
  <2> QED BY <1>4, <1>5, <2>1, Induct
<1>7. n + (N - n) = N
  BY <1>2
<1>8. Grown(b[N])
  BY <1>2, <1>6, <1>7
<1> QED BY <1>8 DEF b, N

(* The reader finds each table where the writer put it.                     *)
LEMMA FoundWhole ==
  ASSUME NEW c, NEW limit \in Nat, c.rows \in Rows, UpdateLength(c.rows) <= limit,
         NEW t \in WireTable, c.rows[t] > 0
  PROVE  Cut(Encode(c, limit).body, Offset(c.rows, t), Size(c.rows, t)) = Words(t, c.rows[t])
<1> DEFINE n == Position(t)
           b == Filled(c, limit)
           z == Size(c.rows, t)
           w == Words(t, c.rows[t])
           body == b[Len(Order)]
           a == b[n - 1]
<1>1. n \in DOMAIN Order /\ Order[n] = t
  BY DEF WireTable, Position
<1>2. /\ Len(Order) \in Nat /\ n \in 1 .. Len(Order)
      /\ n \in 0 .. Len(Order) /\ n - 1 \in 0 .. Len(Order)
  BY <1>1, OrderIs
<1> HIDE DEF n
<1>3. z \in Nat /\ z # 0
  <2>1. ~(z = 0)
    BY SizeIs
  <2> QED BY <2>1, SizeIs
<1>4. w \in Seq(Word) /\ Len(w) = z /\ w = [i \in 1 .. z |-> w[i]]
  BY WordsIs
<1>5. a \in Seq(Word) /\ b[n] = Added(c, limit, t, a)
  BY <1>1, <1>2, FilledIs
<1>6. Header + Len(a) = Upto(c.rows)[n - 1] /\ Header + Len(b[n]) = Upto(c.rows)[n]
  BY <1>2, NoneSkipped
<1>7. Upto(c.rows)[n] = Upto(c.rows)[n - 1] + z
  BY <1>1, <1>2, UptoIs
<1>8. Header \in Nat /\ Len(a) \in Nat
  BY <1>5, WireAssumption
<1>9. b[n] = a \o w
  <2>1. b[n] # a
    BY <1>3, <1>6, <1>7, <1>8
  <2> QED BY <1>5, <2>1, AddedIs
<1>10. Offset(c.rows, t) = Len(a)
  BY <1>6, <1>8 DEF Offset, n
<1>11. body \in Seq(Word) /\ Encode(c, limit).body = body
  BY <1>2, FilledIs DEF Encode
<1>12. Len(b[n]) <= Len(body) /\ \A i \in 1 .. Len(b[n]) : body[i] = b[n][i]
  BY <1>2, FilledStays
<1> HIDE DEF a, b, w, z, body
<1>13. ASSUME NEW i \in 1 .. z
       PROVE  Len(a) + i \in DOMAIN body /\ body[Len(a) + i] = w[i]
  <2>1. Len(b[n]) = Len(a) + z /\ b[n][Len(a) + i] = w[i]
    BY <1>3, <1>4, <1>5, <1>9
  <2>2. Len(a) + i \in 1 .. Len(b[n])
    BY <2>1, <1>3, <1>8
  <2>3. Len(a) + i \in 1 .. Len(body)
    BY <2>1, <2>2, <1>11, <1>12, <1>3, <1>8
  <2> QED BY <2>1, <2>2, <2>3, <1>11, <1>12
<1>14. Cut(body, Len(a), z) = [i \in 1 .. z |-> w[i]]
  BY <1>13 DEF Cut
<1> QED BY <1>4, <1>10, <1>11, <1>14 DEF w, z

-----------------------------------------------------------------------------
(* The buffer of UPDATE_CFG is a client's configuration, written to it.     *)
WireInv == cmd.id = "UPDATE_CFG" =>
             room \in Rooms /\ \E c \in ClientConfig : wire = Encode(c, room)

LEMMA RoomIs == \A n \in Rooms : n \in Nat /\ Header <= n
<1> SUFFICES ASSUME NEW rows \in Rows
             PROVE  UpdateLength(rows) \in Nat /\ Header <= UpdateLength(rows)
  BY DEF Rooms
<1>1. Upto(rows)[0] <= UpdateLength(rows)
  BY UptoGrows, OrderIs
<1> QED BY <1>1, UptoIs, OrderIs DEF UpdateLength

(* silfp_cfg_update_config takes over all of what silfp_cfg_get_update_buffer *)
(* was given, or nothing: its length check refuses what did not fit.        *)
LEMMA DecodeWhole ==
  ASSUME NEW before0, NEW c \in ClientConfig, NEW n \in Rooms, NEW without, NEW w,
         w = Encode(c, n)
  PROVE  Decode(before0, w, Header + Len(w.body), without)
           = IF w.chip /\ UpdateLength(w.rows) <= n THEN Merged(before0, w, without) ELSE before0
<1>1. w.rows = c.rows /\ w.mask = c.mask /\ w.val = c.val /\ w.rows \in Rows
  BY DEF Encode, ClientConfig
<1>2. n \in Nat /\ Header <= n /\ Header \in Nat
  BY RoomIs, WireAssumption
<1>3. w.body = Filled(c, n)[Len(Order)]
  BY DEF Encode
<1>4. UpdateLength(w.rows) \in Nat /\ Len(w.body) \in Nat
  BY <1>1, <1>3, UptoIs, FilledIs, OrderIs DEF UpdateLength
<1>5. CASE UpdateLength(w.rows) <= n
  <2>1. UpdateLength(w.rows) = Header + Len(w.body)
    BY <1>1, <1>2, <1>3, <1>5, NoneSkipped, OrderIs, SMTT(60) DEF UpdateLength
  <2>2. ASSUME NEW t \in WireTable
        PROVE  (IF Size(w.rows, t) = 0 \/ t \in without THEN before0.tab[t]
                ELSE Cut(w.body, Offset(w.rows, t), Size(w.rows, t)))
               = IF w.rows[t] > 0 /\ t \notin without THEN Words(t, w.rows[t]) ELSE before0.tab[t]
    <3>1. w.rows[t] > 0 => Cut(w.body, Offset(w.rows, t), Size(w.rows, t)) = Words(t, w.rows[t])
      BY <1>1, <1>2, <1>5, FoundWhole
    <3>2. Size(w.rows, t) = 0 <=> ~(w.rows[t] > 0)
      BY <1>1, SizeIs
    <3> QED BY <3>1, <3>2
  <2>3. TakenTables(before0, w, without) = Merged(before0, w, without).tab
    BY <2>2, Zenon DEF TakenTables, Merged
  <2>4. TakenValues(before0, w) = Merged(before0, w, without).val
    BY DEF TakenValues, Merged
  <2>5. TakesOver(before0, w, without) = Merged(before0, w, without)
    BY <2>3, <2>4 DEF TakesOver, Merged
  <2> QED BY <1>5, <2>1, <2>5 DEF Decode
<1>6. CASE ~(UpdateLength(w.rows) <= n)
  <2>1. Header + Len(w.body) <= n
    BY <1>1, <1>2, <1>3, NeverOverrun
  <2>2. UpdateLength(w.rows) # Header + Len(w.body)
    BY <1>4, <1>2, <1>6, <2>1
  <2> QED BY <1>6, <2>2 DEF Decode
<1> QED BY <1>5, <1>6

LEMMA UpdateRunWhole ==
  ASSUME IInv, WireInv, Run, cmd.id = "UPDATE_CFG"
  PROVE  UpdateWhole'
<1>1. UpdateRun /\ pcfgs' = pcfgs /\ UNCHANGED client
  BY DEF Run, InitRun, DeinitRun, OtherRun, UpdateRun
<1>2. PICK without \in SUBSET WireTable :
        /\ config' = IF pcfgs THEN Decode(config, wire, Header + Len(wire.body), without) ELSE config
        /\ before' = [config |-> config, lacked |-> without]
  BY <1>1 DEF UpdateRun
<1>3. before'.config = config /\ before'.lacked = without
  BY <1>2
<1>4. Decode(config, wire, Header + Len(wire.body), without)
        = IF wire.chip /\ UpdateLength(wire.rows) <= room
          THEN Merged(config, wire, without) ELSE config
  BY DecodeWhole, SMTT(60) DEF WireInv
<1>5. wire' = wire /\ room' = room /\ pcfgs' = pcfgs
  BY <1>1 DEF client
<1>6. Fits' <=> Fits
  BY <1>5 DEF Fits
<1>7. config' = IF Fits THEN Merged(config, wire, without) ELSE config
  BY <1>2, <1>4 DEF Fits
<1> QED BY <1>3, <1>5, <1>6, <1>7 DEF UpdateWhole

LEMMA WholeStep == ASSUME IInv, WireInv, UpdateWhole, [Next]_vars PROVE (WireInv /\ UpdateWhole)'
<1>1. ASSUME NEW c \in Command \cup {Unknown}, NEW b \in Buffer \cup {NoBuffer}, Send(c, b)
      PROVE  (WireInv /\ UpdateWhole)'
  <2>1. cmd'.id # "UPDATE_CFG"
    BY <1>1 DEF Send
  <2> QED BY <2>1 DEF WireInv, UpdateWhole
<1>2. ASSUME NEW c \in ClientConfig, NEW n \in Rooms, NEW b \in Buffer, SendUpdate(c, n, b)
      PROVE  (WireInv /\ UpdateWhole)'
  <2>1. ~ran'
    BY <1>2 DEF SendUpdate, IInv, Unanswered, Before
  <2> QED BY <1>2, <2>1 DEF SendUpdate, WireInv, UpdateWhole
<1>3. CASE Taken
  <2>1. cmd'.id # "UPDATE_CFG"
    BY <1>3, UnknownUnbuffered DEF Taken, NoCmd, Buffered
  <2> QED BY <2>1 DEF WireInv, UpdateWhole
<1>4. CASE Refuse \/ Dispatch \/ Register \/ Prepare \/ Open \/ Deregister \/ UNCHANGED vars
  <2>1. UNCHANGED <<cmd, wire, room, pcfgs, config, before, ran>>
    BY <1>4 DEF Refuse, Dispatch, Register, Prepare, Open, Deregister, client, app, vars
  <2>2. WireInv' /\ (Fits' <=> Fits)
    BY <2>1 DEF WireInv, Fits
  <2> QED BY <2>1, <2>2 DEF UpdateWhole
<1>5. CASE Run
  <2>1. UNCHANGED client
    BY <1>5 DEF Run
  <2>2. WireInv'
    BY <2>1 DEF client, WireInv
  <2>3. CASE cmd.id = "UPDATE_CFG"
    BY <1>5, <2>2, <2>3, UpdateRunWhole
  <2>4. CASE cmd.id # "UPDATE_CFG"
    BY <2>1, <2>2, <2>4 DEF client, UpdateWhole
  <2> QED BY <2>3, <2>4
<1> QED
  BY <1>1, <1>2, <1>3, <1>4, <1>5 DEF Next, Client, Entry

(* UPDATE_CFG takes over every marked value and table of the client, each   *)
(* from its place, or nothing at all: for any number of tables of any       *)
(* length, any buffer, and whichever tables find no memory.                 *)
THEOREM UpdatedWhole == Spec => []UpdateWhole
<1>1. Init => WireInv /\ UpdateWhole
  <2>1. Init => cmd.id # "UPDATE_CFG"
    BY UnknownUnbuffered DEF Init, NoCmd, Buffered
  <2> QED BY <2>1 DEF WireInv, UpdateWhole
<1>2. IInv /\ WireInv /\ UpdateWhole /\ [Next]_vars => (WireInv /\ UpdateWhole)'
  BY WholeStep
<1> QED
  BY <1>1, <1>2, Inductive, PTL DEF Spec
=============================================================================

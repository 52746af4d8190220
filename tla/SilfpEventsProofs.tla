------------------------- MODULE SilfpEventsProofs -------------------------
(***************************************************************************)
(* Proofs about what the sensor driver passes on to user space, for any    *)
(* threads, keys, keymaps, room in the client's socket and bounds.         *)
(***************************************************************************)
EXTENDS SilfpEvents, TLAPS

(* The type invariant in parts.                                             *)
ScreenOK  == screen \in Screen /\ scr_off \in BOOLEAN /\ notifier \in Screen \cup {"idle"}
RouteOK   == /\ client \in [lives : BOOLEAN, known : BOOLEAN]
             /\ queue \in Seq(Word) /\ Len(queue) <= Room
             /\ heard \in Screen \cup {"nothing"}
DeviceOK  == /\ init \in 0 .. MaxInit /\ input \in BOOLEAN
             /\ bits \subseteq Code /\ down \subseteq bits /\ (~input => bits = {})
             /\ keymap \in Keymaps /\ held \subseteq Key
ThreadsOK == /\ pc \in [Thread -> Label] /\ DOMAIN arg = Thread
             /\ \A t \in Thread : arg[t] \in ArgOf(pc[t])
RestOK    == faults \in 0 .. MaxFault /\ mix \in Mixes /\ marks \subseteq Mark

Types == ScreenOK /\ RouteOK /\ DeviceOK /\ ThreadsOK /\ RestOK

LEMMA TypeParts == (TypeOK <=> Types) /\ (TypeOK' <=> Types')
BY DEF Types, TypeOK, ScreenOK, RouteOK, DeviceOK, ThreadsOK, RestOK

-----------------------------------------------------------------------------
(* What the helpers of the actions preserve.                                *)
LEMMA Going ==
  ASSUME ThreadsOK, NEW t \in Thread, NEW l \in Label, Go(t, l),
         \/ arg' = arg /\ arg[t] \in ArgOf(l)
         \/ \E a \in ArgOf(l) : arg' = [arg EXCEPT ![t] = a]
  PROVE  ThreadsOK'
BY DEF ThreadsOK, Go

LEMMA Leaving ==
  ASSUME ThreadsOK, NEW t \in Thread, Leave(t)
  PROVE  ThreadsOK'
<1>1. "none" \in Label /\ NoArg \in ArgOf("none")
  BY DEF Label, ArgOf, KeyLabel
<1> QED
  BY <1>1, Going DEF Leave

LEMMA Sending ==
  ASSUME RouteOK, NEW w \in Word, Send(w)
  PROVE  RouteOK'
<1>1. CASE Arrives
  <2>1. queue' \in Seq(Word) /\ Len(queue') <= Room
    BY <1>1, BoundAssumption DEF RouteOK, Send, Arrives
  <2> QED
    BY <2>1 DEF RouteOK, Send
<1>2. CASE ~Arrives
  BY <1>2 DEF RouteOK, Send
<1> QED
  BY <1>1, <1>2

LEMMA Registering ==
  ASSUME NEW map \in Keymaps, Register(map)
  PROVE  input' = TRUE /\ bits' \subseteq Code
BY CodeAssumption DEF Register, Keymaps

LEMMA Faulting == ASSUME RestOK, Fault PROVE faults' \in 0 .. MaxFault
BY BoundAssumption DEF RestOK, Fault

LEMMA MarksTyped ==
  ASSUME RestOK
  PROVE  /\ AfterScreenWord \subseteq Mark
         /\ \A f \in BOOLEAN : KmapMarks(f) \subseteq Mark
BY DEF RestOK, AfterScreenWord, KmapMarks, Mark

-----------------------------------------------------------------------------
(* Every step keeps the types.                                              *)
LEMMA InitTyped == Init => TypeOK
<1> SUFFICES ASSUME Init PROVE TypeOK
  OBVIOUS
<1> USE DEF Init
<1>1. ScreenOK
  BY DEF ScreenOK
<1>2. RouteOK
  <2>1. queue \in Seq(Word) /\ Len(queue) <= Room
    BY BoundAssumption
  <2> QED
    BY <2>1 DEF RouteOK
<1>3. DeviceOK
  <2>1. keymap \in Keymaps
    BY DEF Keymaps
  <2>2. 0 \in 0 .. MaxInit
    BY BoundAssumption
  <2> QED
    BY <2>1, <2>2 DEF DeviceOK
<1>4. ThreadsOK
  BY DEF ThreadsOK, Label, ArgOf, KeyLabel, NoArg
<1>5. RestOK
  BY BoundAssumption DEF RestOK, Mark
<1> QED
  BY <1>1, <1>2, <1>3, <1>4, <1>5, TypeParts DEF Types

LEMMA NetlinkTyped == ASSUME TypeOK, Netlink, UNCHANGED mix PROVE TypeOK'
<1>1. ScreenOK' /\ DeviceOK' /\ ThreadsOK' /\ RestOK'
  BY TypeParts DEF Types, Netlink, Hello, Read, Die, screenVars, inputVars, threads,
                   ScreenOK, DeviceOK, ThreadsOK, RestOK
<1>2. RouteOK'
  <2>1. CASE Hello \/ Die
    <3>1. <<>> \in Seq(Word) /\ Len(<<>>) <= Room
      BY BoundAssumption
    <3>2. queue' = <<>> /\ heard' = "nothing"
      BY <2>1 DEF Hello, Die
    <3>3. client' \in [lives : BOOLEAN, known : BOOLEAN]
      <4>1. CASE Hello
        BY <4>1 DEF Hello
      <4>2. CASE Die
        BY <4>2, TypeParts DEF Types, Die, RouteOK
      <4> QED
        BY <2>1, <4>1, <4>2
    <3> QED
      BY <3>1, <3>2, <3>3 DEF RouteOK
  <2>2. CASE Read
    <3>1. queue \in Seq(Word) /\ Len(queue) <= Room /\ queue # <<>>
      BY <2>2, TypeParts DEF Types, Read, RouteOK
    <3>2. Tail(queue) \in Seq(Word) /\ Len(Tail(queue)) <= Room /\ Head(queue) \in Word
      BY <3>1, BoundAssumption
    <3> QED
      BY <2>2, <3>2, TypeParts DEF Types, Read, RouteOK
  <2> QED
    BY <2>1, <2>2 DEF Netlink
<1> QED
  BY <1>1, <1>2, TypeParts DEF Types

LEMMA NotifierTyped == ASSUME TypeOK, Notifier, UNCHANGED mix PROVE TypeOK'
<1>1. ScreenOK' /\ DeviceOK' /\ ThreadsOK'
  BY TypeParts DEF Types, Notifier, Blank, BlankSend, inputVars, threads,
                   ScreenOK, DeviceOK, ThreadsOK
<1>2. RestOK'
  BY TypeParts, MarksTyped DEF Types, Notifier, Blank, BlankSend, RestOK, Mark
<1>3. RouteOK'
  <2>1. CASE BlankSend
    BY <2>1, TypeParts, Sending DEF Types, BlankSend, ScreenOK, Word
  <2>2. CASE \E s \in Screen : Blank(s)
    BY <2>2, TypeParts DEF Types, Blank, route, RouteOK
  <2> QED
    BY <2>1, <2>2 DEF Notifier
<1> QED
  BY <1>1, <1>2, <1>3, TypeParts DEF Types

LEMMA StatusTyped ==
  ASSUME TypeOK, NEW t \in Thread, Status(t), UNCHANGED mix PROVE TypeOK'
<1> USE TypeParts DEF Types
<1>1. CASE Ask(t)
  <2>1. \E a \in ArgOf("ask") : arg' = [arg EXCEPT ![t] = a]
    BY <1>1 DEF Ask, ArgOf, Screen
  <2>2. ThreadsOK'
    BY <1>1, <2>1, Going DEF Ask, Label
  <2> QED
    BY <1>1, <2>2 DEF Ask, screenVars, route, inputVars, ScreenOK, RouteOK, DeviceOK, RestOK
<1>2. CASE AskSend(t)
  <2>1. arg[t] \in Word
    BY <1>2 DEF AskSend, ThreadsOK, ArgOf, Word
  <2>2. RouteOK'
    BY <1>2, <2>1, Sending DEF AskSend
  <2>3. ThreadsOK'
    BY <1>2, Leaving DEF AskSend
  <2>4. RestOK'
    BY <1>2, MarksTyped DEF AskSend, RestOK
  <2> QED
    BY <1>2, <2>2, <2>3, <2>4 DEF AskSend, screenVars, inputVars, ScreenOK, DeviceOK
<1> QED
  BY <1>1, <1>2 DEF Status

LEMMA UsersTyped ==
  ASSUME TypeOK, NEW t \in Thread, Users(t), UNCHANGED mix PROVE TypeOK'
<1> USE TypeParts DEF Types
<1>1. CASE Initialise(t)
  <2>1. ThreadsOK'
    <3>1. CASE Go(t, "init")
      BY <1>1, <3>1, Going DEF Initialise, Enters, Label, OneLabel, ArgOf, KeyLabel, ThreadsOK
    <3>2. CASE UNCHANGED pc
      BY <1>1, <3>2 DEF Initialise, ThreadsOK
    <3> QED
      BY <1>1, <3>1, <3>2 DEF Initialise
  <2>2. init' \in 0 .. MaxInit
    BY <1>1, BoundAssumption DEF Initialise, DeviceOK
  <2> QED
    BY <1>1, <2>1, <2>2
       DEF Initialise, screenVars, route, ScreenOK, RouteOK, DeviceOK, RestOK
<1>2. CASE InputInit(t)
  <2>1. ThreadsOK'
    BY <1>2, Leaving DEF InputInit
  <2>2. init' \in 0 .. MaxInit /\ faults' \in 0 .. MaxFault
    BY <1>2, Faulting, BoundAssumption DEF InputInit, DeviceOK, RestOK
  <2>3. input' \in BOOLEAN /\ bits' \subseteq Code /\ (~input' => bits' = {})
    BY <1>2, Registering DEF InputInit, DeviceOK
  <2> QED
    BY <1>2, <2>1, <2>2, <2>3
       DEF InputInit, screenVars, route, ScreenOK, RouteOK, DeviceOK, RestOK
<1>3. CASE Deinit(t)
  <2>1. ThreadsOK'
    BY <1>3, Going DEF Deinit, Enters, Label, OneLabel, ArgOf, KeyLabel, ThreadsOK
  <2>2. init' \in 0 .. MaxInit
    BY <1>3, BoundAssumption DEF Deinit, DeviceOK
  <2> QED
    BY <1>3, <2>1, <2>2 DEF Deinit, screenVars, route, ScreenOK, RouteOK, DeviceOK, RestOK
<1>4. CASE InputDeinit(t)
  <2>1. ThreadsOK'
    BY <1>4, Going DEF InputDeinit, Label, OneLabel, ArgOf, KeyLabel, ThreadsOK
  <2> QED
    BY <1>4, <2>1
       DEF InputDeinit, Unregister, screenVars, route, ScreenOK, RouteOK, DeviceOK, RestOK
<1>5. CASE Bye(t)
  <2>1. ThreadsOK' /\ RouteOK'
    BY <1>5, Leaving, Sending DEF Bye, Word
  <2> QED
    BY <1>5, <2>1 DEF Bye, screenVars, inputVars, ScreenOK, DeviceOK, RestOK
<1> QED
  BY <1>1, <1>2, <1>3, <1>4, <1>5 DEF Users

LEMMA KmapTyped ==
  ASSUME TypeOK, NEW t \in Thread, Kmap(t), UNCHANGED mix PROVE TypeOK'
<1> USE TypeParts DEF Types
<1>1. ASSUME NEW map \in Keymaps, SetKmap(t, map) PROVE TypeOK'
  <2>1. ThreadsOK'
    <3>1. CASE UNCHANGED pc
      BY <1>1, <3>1 DEF SetKmap, ThreadsOK
    <3>2. CASE Go(t, IF input THEN "kmap_free" ELSE "kmap_init")
      BY <1>1, <3>2, Going DEF SetKmap, Enters, Label, OneLabel, ArgOf, KeyLabel, ThreadsOK
    <3> QED
      BY <1>1, <3>1, <3>2 DEF SetKmap
  <2>2. keymap' \in Keymaps /\ faults' \in 0 .. MaxFault /\ marks' \subseteq Mark
    BY <1>1, Faulting, MarksTyped DEF SetKmap, DeviceOK, RestOK
  <2> QED
    BY <1>1, <2>1, <2>2 DEF SetKmap, screenVars, route, ScreenOK, RouteOK, DeviceOK, RestOK
<1>2. CASE KmapFree(t)
  <2>1. ThreadsOK'
    BY <1>2, Going DEF KmapFree, Label, OneLabel, ArgOf, KeyLabel, ThreadsOK
  <2> QED
    BY <1>2, <2>1
       DEF KmapFree, Unregister, screenVars, route, ScreenOK, RouteOK, DeviceOK, RestOK
<1>3. CASE KmapInit(t)
  <2>1. ThreadsOK'
    BY <1>3, Leaving DEF KmapInit
  <2>2. faults' \in 0 .. MaxFault /\ marks' \subseteq Mark
    BY <1>3, Faulting DEF KmapInit, RestOK, Mark
  <2>3. input' \in BOOLEAN /\ bits' \subseteq Code /\ (~input' => bits' = {})
    BY <1>3, Registering DEF KmapInit, DeviceOK
  <2> QED
    BY <1>3, <2>1, <2>2, <2>3
       DEF KmapInit, screenVars, route, ScreenOK, RouteOK, DeviceOK, RestOK
<1> QED
  BY <1>1, <1>2, <1>3 DEF Kmap

LEMMA KeysTyped ==
  ASSUME TypeOK, NEW t \in Thread, Keys(t), UNCHANGED mix PROVE TypeOK'
<1> USE TypeParts DEF Types
<1>1. ASSUME NEW key \in Key, NEW flag \in Flag, KeyEvent(t, key, flag) PROVE TypeOK'
  <2>1. \E a \in ArgOf("report") : arg' = [arg EXCEPT ![t] = a]
    <3> DEFINE a == [key |-> key, flag |-> flag, cust |-> key \in Nav /\ keymap[key] # NoCode]
    <3>1. a \in KeyArg
      BY DEF KeyArg
    <3>2. ArgOf("report") = KeyArg
      BY DEF ArgOf, KeyLabel
    <3> QED
      BY <1>1, <3>1, <3>2 DEF KeyEvent
  <2>2. ThreadsOK'
    BY <1>1, <2>1, Going DEF KeyEvent, Label, KeyLabel
  <2> QED
    BY <1>1, <2>2
       DEF KeyEvent, screenVars, route, inputVars, ScreenOK, RouteOK, DeviceOK, RestOK
<1>2. ASSUME pc[t] \in KeyLabel PROVE arg[t] \in KeyArg /\ arg[t].key \in Key
  BY <1>2 DEF ThreadsOK, ArgOf, KeyLabel, KeyArg
<1>3. CASE KeyReport(t)
  <2>1. ThreadsOK'
    <3>1. CASE Go(t, "lift") /\ UNCHANGED arg
      BY <1>3, <3>1, Going DEF KeyReport, Label, ArgOf, KeyLabel, ThreadsOK
    <3>2. CASE Leave(t)
      BY <3>2, Leaving
    <3> QED
      BY <1>3, <3>1, <3>2 DEF KeyReport
  <2>2. down' \subseteq bits /\ held' \subseteq Key
    BY <1>2, <1>3 DEF KeyReport, Press, Lift, DeviceOK, KeyLabel
  <2> QED
    BY <1>3, <2>1, <2>2 DEF KeyReport, screenVars, route, ScreenOK, RouteOK, DeviceOK, RestOK
<1>4. CASE KeyLift(t)
  <2>1. ThreadsOK'
    BY <1>4, Leaving DEF KeyLift
  <2>2. down' \subseteq bits /\ held' \subseteq Key
    BY <1>4 DEF KeyLift, Lift, DeviceOK
  <2> QED
    BY <1>4, <2>1, <2>2 DEF KeyLift, screenVars, route, ScreenOK, RouteOK, DeviceOK, RestOK
<1> QED
  BY <1>1, <1>3, <1>4 DEF Keys

LEMMA StutterTyped == ASSUME TypeOK, UNCHANGED vars PROVE TypeOK'
BY DEF TypeOK, vars, screenVars, route, inputVars, threads

LEMMA NextTyped == ASSUME TypeOK, [Next]_vars PROVE TypeOK'
<1>1. CASE Next
  BY <1>1, NetlinkTyped, NotifierTyped, StatusTyped, UsersTyped, KmapTyped, KeysTyped DEF Next
<1> QED
  BY <1>1, StutterTyped

-----------------------------------------------------------------------------
(* The input device and its users.                                          *)
OneAtATime ==
  \A t, u \in Thread : pc[t] \in OneLabel /\ pc[u] \in OneLabel => t = u

Refused == "refused" \in marks
Agreed  == (input <=> init > 0 /\ ~Refused) /\ (init = 0 => ~Refused)

(* What INIT, DEINIT and SET_KMAP rely on at each of their places.          *)
UserAt(t) ==
  /\ pc[t] = "init" => init = 0 /\ ~input /\ ~Refused
  /\ pc[t] = "unregister" => init = 0
  /\ pc[t] \in {"kmap_free", "kmap_init"} => init > 0

InputInv ==
  /\ OneAtATime
  /\ "outside" \notin marks =>
       /\ \A t \in Thread : UserAt(t)
       /\ (\A t \in Thread : pc[t] \notin {"unregister", "kmap_free", "kmap_init"}) => Agreed

LEMMA InitInput == Init => InputInv
BY DEF Init, InputInv, OneAtATime, UserAt, Agreed, Refused, OneLabel

(* A thread that is alone and enters, moves or leaves stays alone.          *)
LEMMA StaysOne ==
  ASSUME OneAtATime, pc \in [Thread -> Label], NEW t \in Thread, NEW l \in Label, Go(t, l),
         \/ l \notin OneLabel \/ pc[t] \in OneLabel \/ Free(OneLabel)
  PROVE  OneAtATime'
BY DEF OneAtATime, Go, Free

LEMMA UsersInput ==
  ASSUME TypeOK, InputInv, NEW t \in Thread, Users(t) PROVE InputInv'
<1> USE DEF TypeOK
<1>1. CASE Initialise(t)
  <2>1. OneAtATime'
    BY <1>1, StaysOne DEF Initialise, InputInv, Alone, Label, OneLabel, OneAtATime
  <2> QED
    BY <1>1, <2>1 DEF Initialise, InputInv, UserAt, Agreed, Refused, Alone, Free, OneLabel, Go
<1>2. CASE InputInit(t)
  <2>1. OneAtATime'
    BY <1>2, StaysOne DEF InputInit, Leave, InputInv, Label, OneLabel
  <2> QED
    BY <1>2, <2>1 DEF InputInit, Leave, InputInv, UserAt, Agreed, Refused, OneAtATime, OneLabel,
                      Go, Register
<1>3. CASE Deinit(t)
  <2>1. OneAtATime'
    BY <1>3, StaysOne DEF Deinit, InputInv, Alone, Label, OneLabel
  <2> QED
    BY <1>3, <2>1 DEF Deinit, InputInv, UserAt, Agreed, Refused, Alone, Free, OneLabel, Go
<1>4. CASE InputDeinit(t)
  <2>1. OneAtATime'
    BY <1>4, StaysOne DEF InputDeinit, InputInv, Label, OneLabel
  <2> QED
    BY <1>4, <2>1 DEF InputDeinit, Unregister, InputInv, UserAt, Agreed, Refused, OneAtATime,
                      OneLabel, Go
<1>5. CASE Bye(t)
  <2>1. OneAtATime'
    BY <1>5, StaysOne DEF Bye, Leave, InputInv, Label, OneLabel
  <2> QED
    BY <1>5, <2>1 DEF Bye, Leave, InputInv, UserAt, Agreed, Refused, OneAtATime, OneLabel, Go,
                      inputVars
<1> QED
  BY <1>1, <1>2, <1>3, <1>4, <1>5 DEF Users

LEMMA KmapInput ==
  ASSUME TypeOK, InputInv, NEW t \in Thread, Kmap(t) PROVE InputInv'
<1> USE DEF TypeOK
<1>1. ASSUME NEW map \in Keymaps, SetKmap(t, map) PROVE InputInv'
  <2>1. OneAtATime'
    BY <1>1, StaysOne DEF SetKmap, InputInv, Alone, Label, OneLabel, OneAtATime
  <2>2. "outside" \notin marks' => "outside" \notin marks /\ init > 0 /\ (Refused' <=> Refused)
    BY <1>1 DEF SetKmap, KmapMarks, Refused
  <2> QED
    BY <1>1, <2>1, <2>2 DEF SetKmap, InputInv, UserAt, Agreed, Alone, Free, OneLabel, Go
<1>2. CASE KmapFree(t)
  <2>1. OneAtATime'
    BY <1>2, StaysOne DEF KmapFree, InputInv, Label, OneLabel
  <2> QED
    BY <1>2, <2>1 DEF KmapFree, Unregister, InputInv, UserAt, Agreed, Refused, OneAtATime,
                      OneLabel, Go
<1>3. CASE KmapInit(t)
  <2>1. OneAtATime'
    BY <1>3, StaysOne DEF KmapInit, Leave, InputInv, Label, OneLabel
  <2> QED
    BY <1>3, <2>1 DEF KmapInit, Leave, Register, InputInv, UserAt, Agreed, Refused, OneAtATime,
                      OneLabel, Go
<1> QED
  BY <1>1, <1>2, <1>3 DEF Kmap

(* All other steps leave the device, its users and these places alone.      *)
LEMMA OtherInput ==
  ASSUME TypeOK, InputInv, UNCHANGED <<init, input>>,
         \A x \in {"refused", "outside"} : x \in marks' <=> x \in marks,
         \/ UNCHANGED pc
         \/ \E t \in Thread, l \in Label \ OneLabel : pc[t] \notin OneLabel /\ Go(t, l)
  PROVE  InputInv'
<1>1. CASE UNCHANGED pc
  BY <1>1 DEF InputInv, OneAtATime, UserAt, Agreed, Refused
<1>2. ASSUME NEW t \in Thread, NEW l \in Label \ OneLabel, pc[t] \notin OneLabel, Go(t, l)
      PROVE  InputInv'
  BY <1>2 DEF TypeOK, InputInv, OneAtATime, UserAt, Agreed, Refused, Go, OneLabel
<1> QED
  BY <1>1, <1>2

LEMMA NextInput == ASSUME TypeOK, InputInv, [Next]_vars PROVE InputInv'
<1>1. CASE Netlink \/ Notifier
  BY <1>1, OtherInput
     DEF Netlink, Hello, Read, Die, Notifier, Blank, BlankSend, AfterScreenWord, inputVars, threads
<1>2. ASSUME NEW t \in Thread, Status(t) PROVE InputInv'
  BY <1>2, OtherInput
     DEF Status, Ask, AskSend, AfterScreenWord, Enters, Leave, inputVars, Label, OneLabel
<1>3. ASSUME NEW t \in Thread, Keys(t) PROVE InputInv'
  BY <1>3, OtherInput
     DEF Keys, KeyEvent, KeyReport, KeyLift, Enters, Leave, inputVars, Label, OneLabel, KeyLabel
<1>4. CASE UNCHANGED vars
  BY <1>4, OtherInput DEF vars, inputVars, threads
<1> QED
  BY <1>1, <1>2, <1>3, <1>4, UsersInput, KmapInput DEF Next

-----------------------------------------------------------------------------
(* The keys that are pressed.                                               *)
Clear      == marks \cap {"torn", "raced"} = {}
CodeNow(k) == IF k \in Raw THEN k ELSE IF keymap[k] # NoCode THEN keymap[k] ELSE DefaultCode[k]
DownHeld   == \A c \in down : \E k \in held : CodeNow(k) = c
SameCode   == \A t \in Thread : pc[t] \in KeyLabel => CodeOf(arg[t]) = CodeNow(arg[t].key)

KeyInv == Clear => SameCode /\ ((\A t \in Thread : pc[t] # "kmap_free") => DownHeld)

LEMMA InitKeys == Init => KeyInv
BY DEF Init, KeyInv, SameCode, DownHeld, KeyLabel

(* A step outside of KEY_EVENT that leaves keys and map alone, or releases  *)
(* every key.                                                               *)
LEMMA OtherKeys ==
  ASSUME TypeOK, KeyInv, UNCHANGED keymap, Clear' => Clear,
         \/ down' = {}
         \/ UNCHANGED <<down, held>> /\ \A t \in Thread : pc[t] = "kmap_free" => pc'[t] = pc[t],
         \A t \in Thread : pc'[t] \in KeyLabel => pc[t] = pc'[t] /\ arg'[t] = arg[t]
  PROVE  KeyInv'
<1> SUFFICES ASSUME Clear' PROVE SameCode' /\ ((\A t \in Thread : pc'[t] # "kmap_free") => DownHeld')
  BY DEF KeyInv
<1>1. SameCode'
  BY DEF KeyInv, SameCode, CodeOf, CodeNow
<1>2. ASSUME \A t \in Thread : pc'[t] # "kmap_free" PROVE DownHeld'
  BY <1>2 DEF KeyInv, DownHeld, CodeNow
<1> QED
  BY <1>1, <1>2

LEMMA KmapKeys ==
  ASSUME TypeOK, KeyInv, NEW t \in Thread, Kmap(t) PROVE KeyInv'
<1> USE DEF TypeOK
<1>1. ASSUME NEW map \in Keymaps, SetKmap(t, map) PROVE KeyInv'
  <2> SUFFICES ASSUME Clear' PROVE KeyInv'
    BY DEF KeyInv
  <2>1. Free(KeyLabel) /\ faults' = faults /\ pc[t] = "none"
    BY <1>1 DEF SetKmap, KmapMarks, Clear, Enters
  <2>2. Go(t, IF input THEN "kmap_free" ELSE "kmap_init") /\ UNCHANGED down
    BY <1>1, <2>1, BoundAssumption DEF SetKmap, Fault
  <2>3. SameCode'
    BY <2>1, <2>2 DEF SameCode, Free, Go, KeyLabel
  <2>4. CASE input
    BY <2>2, <2>3, <2>4 DEF KeyInv, Go
  <2>5. CASE ~input
    BY <2>2, <2>3, <2>5 DEF KeyInv, DownHeld
  <2> QED
    BY <2>4, <2>5
<1>2. CASE KmapFree(t)
  BY <1>2, OtherKeys DEF KmapFree, Unregister, Go, KeyLabel, Clear
<1>3. CASE KmapInit(t)
  BY <1>3, OtherKeys DEF KmapInit, Leave, Go, KeyLabel, Clear
<1> QED
  BY <1>1, <1>2, <1>3 DEF Kmap

LEMMA UsersKeys ==
  ASSUME TypeOK, KeyInv, NEW t \in Thread, Users(t) PROVE KeyInv'
<1> USE DEF TypeOK
<1>1. CASE Initialise(t)
  BY <1>1, OtherKeys DEF Initialise, Enters, Go, KeyLabel, Clear
<1>2. CASE InputInit(t)
  BY <1>2, OtherKeys DEF InputInit, Leave, Go, KeyLabel, Clear
<1>3. CASE Deinit(t)
  BY <1>3, OtherKeys DEF Deinit, Enters, Go, KeyLabel, Clear
<1>4. CASE InputDeinit(t)
  BY <1>4, OtherKeys DEF InputDeinit, Unregister, Go, KeyLabel, Clear
<1>5. CASE Bye(t)
  BY <1>5, OtherKeys DEF Bye, Leave, Go, KeyLabel, Clear, inputVars
<1> QED
  BY <1>1, <1>2, <1>3, <1>4, <1>5 DEF Users

(* What a key is reported as, when the map is the one it was looked up in.  *)
LEMMA PressHeld ==
  ASSUME DownHeld, UNCHANGED keymap, NEW a, CodeOf(a) = CodeNow(a.key), Press(a) PROVE DownHeld'
BY DEF DownHeld, Press, CodeNow

LEMMA LiftHeld ==
  ASSUME DownHeld, UNCHANGED keymap, NEW a, CodeOf(a) = CodeNow(a.key), Lift(a) PROVE DownHeld'
BY DEF DownHeld, Lift, CodeNow

LEMMA KeysKeys ==
  ASSUME TypeOK, KeyInv, NEW t \in Thread, Keys(t) PROVE KeyInv'
<1> USE DEF TypeOK
<1> SUFFICES ASSUME Clear' PROVE KeyInv'
  BY DEF KeyInv
<1>1. Clear /\ SameCode /\ UNCHANGED keymap
  BY DEF Keys, KeyEvent, KeyReport, KeyLift, Clear, KeyInv, inputVars
<1>2. \A u \in Thread : pc[u] = "kmap_free" => pc'[u] = pc[u]
  BY DEF Keys, KeyEvent, KeyReport, KeyLift, Enters, Leave, Go
<1>3. ASSUME NEW key \in Key, NEW flag \in Flag, KeyEvent(t, key, flag) PROVE KeyInv'
  <2>1. arg'[t].key = key /\ arg'[t].cust = (key \in Nav /\ keymap[key] # NoCode)
    BY <1>3 DEF KeyEvent
  <2>2. key \in Raw \/ key \in Nav
    BY DEF Key
  <2>3. CodeOf(arg[t])' = CodeNow(arg[t].key)'
    BY <1>1, <2>1, <2>2 DEF CodeOf, CodeNow
  <2>4. SameCode'
    BY <1>1, <1>3, <2>3 DEF KeyEvent, SameCode, Go, CodeOf, CodeNow
  <2>5. DownHeld => DownHeld'
    BY <1>3 DEF KeyEvent, inputVars, DownHeld, CodeNow
  <2> QED
    BY <1>1, <1>2, <2>4, <2>5 DEF KeyInv
<1>4. ASSUME KeyReport(t) \/ KeyLift(t) PROVE KeyInv'
  <2>1. pc[t] \in KeyLabel /\ CodeOf(arg[t]) = CodeNow(arg[t].key)
    BY <1>1, <1>4 DEF KeyReport, KeyLift, SameCode, KeyLabel
  <2>2. SameCode'
    BY <1>1, <1>4, <2>1
       DEF KeyReport, KeyLift, Leave, Go, SameCode, CodeOf, CodeNow, KeyLabel
  <2>3. Press(arg[t]) \/ Lift(arg[t])
    BY <1>4 DEF KeyReport, KeyLift
  <2>4. DownHeld => DownHeld'
    BY <1>1, <2>1, <2>3, PressHeld, LiftHeld
  <2> QED
    BY <1>1, <1>2, <2>2, <2>4 DEF KeyInv
<1> QED
  BY <1>3, <1>4 DEF Keys

LEMMA NextKeys == ASSUME TypeOK, KeyInv, [Next]_vars PROVE KeyInv'
<1>1. CASE Netlink \/ Notifier
  BY <1>1, OtherKeys
     DEF Netlink, Hello, Read, Die, Notifier, Blank, BlankSend, AfterScreenWord, inputVars,
         threads, Clear
<1>2. ASSUME NEW t \in Thread, Status(t) PROVE KeyInv'
  BY <1>2, OtherKeys
     DEF TypeOK, Status, Ask, AskSend, AfterScreenWord, Enters, Leave, Go, inputVars, KeyLabel,
         Clear
<1>3. CASE UNCHANGED vars
  BY <1>3, OtherKeys DEF vars, inputVars, threads, Clear
<1> QED
  BY <1>1, <1>2, <1>3, UsersKeys, KmapKeys, KeysKeys DEF Next

-----------------------------------------------------------------------------
(* The word on the screen that the client has read last, once it has read   *)
(* everything, is w or there is none.                                       *)
Last(w) ==
  \/ /\ heard \in {"nothing", w}
     /\ \A i \in DOMAIN queue : queue[i] \notin Screen
  \/ \E i \in DOMAIN queue :
       queue[i] = w /\ \A j \in DOMAIN queue : j > i => queue[j] \notin Screen

Excused(what) == marks \cap what # {}

ScreenInv ==
  /\ notifier # "idle" => notifier = screen
  /\ ~Excused({"unseen"}) => (scr_off <=> screen = "off")
  /\ ~Excused({"unseen", "crossed"}) => \A t \in Thread : pc[t] = "ask" => arg[t] = screen
  /\ ~Excused({"unseen", "crossed", "dropped"}) /\ notifier = "idle" /\ client.lives /\ client.known
       => Last(screen)

LEMMA InitScreen == Init => ScreenInv
BY DEF Init, ScreenInv, Excused

(* What the words that are sent and read do to the last one.                *)
LEMMA LastAppended ==
  ASSUME RouteOK, NEW w \in Screen, queue' = Append(queue, w) PROVE Last(w)'
<1>1. /\ Len(queue') = Len(queue) + 1 /\ queue'[Len(queue) + 1] = w
      /\ DOMAIN queue' = 1 .. (Len(queue) + 1)
  BY DEF RouteOK
<1>2. Len(queue) \in Nat
  BY DEF RouteOK
<1>3. Len(queue) + 1 \in DOMAIN queue'
  BY <1>1, <1>2
<1>4. \A j \in DOMAIN queue' : ~(j > Len(queue) + 1)
  BY <1>1, <1>2
<1> QED
  BY <1>1, <1>3, <1>4 DEF Last

LEMMA LastKept ==
  ASSUME RouteOK, NEW w \in Screen, Last(w), NEW v, v \notin Screen, queue' = Append(queue, v),
         heard' = heard
  PROVE  Last(w)'
<1>1. /\ Len(queue) \in Nat /\ DOMAIN queue = 1 .. Len(queue)
      /\ DOMAIN queue' = 1 .. (Len(queue) + 1) /\ queue'[Len(queue) + 1] = v
      /\ \A i \in DOMAIN queue : queue'[i] = queue[i]
  BY DEF RouteOK
<1>2. \A j \in DOMAIN queue' : j \in DOMAIN queue \/ j = Len(queue) + 1
  BY <1>1
<1>3. DOMAIN queue \subseteq DOMAIN queue'
  BY <1>1
<1>4. CASE heard \in {"nothing", w} /\ \A i \in DOMAIN queue : queue[i] \notin Screen
  BY <1>1, <1>2, <1>4 DEF Last
<1>5. ASSUME NEW i \in DOMAIN queue, queue[i] = w,
             \A j \in DOMAIN queue : j > i => queue[j] \notin Screen
      PROVE  Last(w)'
  BY <1>1, <1>2, <1>3, <1>5 DEF Last
<1> QED
  BY <1>4, <1>5 DEF Last

LEMMA LastRead ==
  ASSUME RouteOK, NEW w \in Screen, Last(w), queue # <<>>, queue' = Tail(queue),
         heard' = IF Head(queue) \in Screen THEN Head(queue) ELSE heard
  PROVE  Last(w)'
<1>1. /\ Len(queue) \in Nat \ {0} /\ DOMAIN queue = 1 .. Len(queue)
      /\ DOMAIN queue' = 1 .. (Len(queue) - 1) /\ Head(queue) = queue[1]
      /\ \A i \in DOMAIN queue' : queue'[i] = queue[i + 1]
  BY DEF RouteOK
<1>2. \A i \in DOMAIN queue' : i + 1 \in DOMAIN queue
  BY <1>1
<1>3. CASE heard \in {"nothing", w} /\ \A i \in DOMAIN queue : queue[i] \notin Screen
  <2>1. heard' = heard
    BY <1>1, <1>3
  <2> QED
    BY <1>1, <1>2, <1>3, <2>1 DEF Last
<1>4. ASSUME NEW i \in DOMAIN queue, queue[i] = w,
             \A j \in DOMAIN queue : j > i => queue[j] \notin Screen
      PROVE  Last(w)'
  <2>1. CASE i = 1
    <3>1. heard' = w
      BY <1>1, <1>4, <2>1
    <3>2. \A j \in DOMAIN queue' : queue'[j] \notin Screen
      BY <1>1, <1>2, <1>4, <2>1
    <3> QED
      BY <3>1, <3>2 DEF Last
  <2>2. CASE i # 1
    <3>1. i - 1 \in DOMAIN queue' /\ queue'[i - 1] = w
      BY <1>1, <1>4, <2>2
    <3>2. \A j \in DOMAIN queue' : j > i - 1 => queue'[j] \notin Screen
      BY <1>1, <1>2, <1>4
    <3> QED
      BY <3>1, <3>2 DEF Last
  <2> QED
    BY <2>1, <2>2
<1> QED
  BY <1>3, <1>4 DEF Last

(* A step that touches neither the screen nor what is sent of it.           *)
LEMMA OtherScreen ==
  ASSUME TypeOK, ScreenInv, UNCHANGED <<screenVars, route>>,
         \A x \in {"unseen", "crossed", "dropped"} : x \in marks' <=> x \in marks,
         \A t \in Thread : pc'[t] = "ask" => pc[t] = "ask" /\ arg'[t] = arg[t]
  PROVE  ScreenInv'
BY DEF ScreenInv, Excused, Last, screenVars, route

LEMMA NetlinkScreen == ASSUME TypeOK, ScreenInv, Netlink PROVE ScreenInv'
<1>1. RouteOK /\ screen \in Screen
  BY TypeParts DEF Types, ScreenOK
<1>2. CASE Hello
  <2>1. Last(screen)'
    BY <1>2 DEF Hello, Last
  <2> QED
    BY <1>2, <2>1 DEF Hello, ScreenInv, Excused, screenVars, threads
<1>3. CASE Read
  <2>1. Last(screen) => Last(screen)'
    BY <1>1, <1>3, LastRead DEF Read, screenVars
  <2> QED
    BY <1>3, <2>1 DEF Read, ScreenInv, Excused, screenVars, threads
<1>4. CASE Die
  <2>1. client'.lives = FALSE
    BY <1>1, <1>4 DEF Die, RouteOK
  <2> QED
    BY <1>4, <2>1 DEF Die, ScreenInv, Excused, screenVars, threads
<1> QED
  BY <1>2, <1>3, <1>4 DEF Netlink

(* Sending a word on the screen when it tells the truth.                    *)
LEMMA TrueWord ==
  ASSUME RouteOK, NEW w \in Screen, Send(w), marks' = AfterScreenWord, UNCHANGED screen,
         ~Excused({"dropped"})'
  PROVE  w = screen => Last(screen)'
<1>1. Arrives
  BY DEF AfterScreenWord, Excused
<1> QED
  BY <1>1, LastAppended DEF Send

LEMMA NotifierScreen == ASSUME TypeOK, ScreenInv, Notifier PROVE ScreenInv'
<1>1. RouteOK /\ screen \in Screen
  BY TypeParts DEF Types, ScreenOK
<1>2. ASSUME NEW s \in Screen, Blank(s) PROVE ScreenInv'
  <2>1. scr_off' = (screen' = "off") /\ notifier' = screen' /\ notifier' # "idle"
    BY <1>2 DEF Blank, Screen
  <2>2. ~Excused({"unseen", "crossed"})' => \A t \in Thread : pc[t] # "ask"
    BY <1>2 DEF Blank, Excused, Asking, Free
  <2> QED
    BY <1>2, <2>1, <2>2 DEF Blank, ScreenInv, threads
<1>3. CASE BlankSend
  <2>1. notifier \in Screen /\ notifier = screen
    BY <1>3, TypeParts DEF Types, ScreenOK, BlankSend, ScreenInv
  <2>2. ~Excused({"dropped"})' => Last(screen)'
    BY <1>1, <1>3, <2>1, TrueWord DEF BlankSend
  <2> QED
    BY <1>3, <2>1, <2>2
       DEF BlankSend, ScreenInv, Excused, AfterScreenWord, threads
<1> QED
  BY <1>2, <1>3 DEF Notifier

LEMMA StatusScreen ==
  ASSUME TypeOK, ScreenInv, NEW t \in Thread, Status(t) PROVE ScreenInv'
<1>1. RouteOK /\ screen \in Screen /\ ThreadsOK
  BY TypeParts DEF Types, ScreenOK
<1>2. CASE Ask(t)
  <2>1. \A u \in Thread : pc'[u] = "ask" /\ u # t => pc[u] = "ask" /\ arg'[u] = arg[u]
    BY <1>1, <1>2 DEF Ask, Go, ThreadsOK
  <2>2. ~Excused({"unseen"}) => arg'[t] = screen
    BY <1>1, <1>2 DEF Ask, ThreadsOK, ScreenInv, Screen
  <2> QED
    BY <1>2, <2>1, <2>2 DEF Ask, ScreenInv, Excused, Last, screenVars, route
<1>3. CASE AskSend(t)
  <2>1. arg[t] \in Screen
    BY <1>1, <1>3 DEF AskSend, ThreadsOK, ArgOf
  <2>2. ~Excused({"dropped"})' => (arg[t] = screen => Last(screen)')
    BY <1>1, <1>3, <2>1, TrueWord DEF AskSend, screenVars
  <2>3. \A u \in Thread : pc'[u] = "ask" => pc[u] = "ask" /\ arg'[u] = arg[u]
    BY <1>1, <1>3 DEF AskSend, Leave, Go, ThreadsOK
  <2>4. \A x \in {"unseen", "crossed"} : x \in marks' <=> x \in marks
    BY <1>3 DEF AskSend, AfterScreenWord
  <2>5. UNCHANGED <<screen, scr_off, notifier>> /\ pc[t] = "ask"
    BY <1>3 DEF AskSend, screenVars
  <2> QED
    BY <2>2, <2>3, <2>4, <2>5 DEF ScreenInv, Excused
<1> QED
  BY <1>2, <1>3 DEF Status

LEMMA UsersScreen ==
  ASSUME TypeOK, ScreenInv, NEW t \in Thread, Users(t) PROVE ScreenInv'
<1>1. RouteOK /\ screen \in Screen /\ ThreadsOK
  BY TypeParts DEF Types, ScreenOK
<1>2. \A u \in Thread : pc'[u] = "ask" => pc[u] = "ask" /\ arg'[u] = arg[u]
  BY <1>1 DEF Users, Initialise, InputInit, Deinit, InputDeinit, Bye, Go, Leave, ThreadsOK
<1>3. CASE Initialise(t) \/ InputInit(t) \/ Deinit(t) \/ InputDeinit(t)
  BY <1>2, <1>3, OtherScreen
     DEF Initialise, InputInit, Deinit, InputDeinit, screenVars, route
<1>4. CASE Bye(t)
  <2>1. Last(screen) => Last(screen)'
    <3>1. CASE Arrives
      BY <1>1, <1>4, <3>1, LastKept DEF Bye, Send, screenVars, Screen
    <3>2. CASE ~Arrives
      BY <1>4, <3>2 DEF Bye, Send, screenVars, Last
    <3> QED
      BY <3>1, <3>2
  <2> QED
    BY <1>2, <1>4, <2>1 DEF Bye, Send, ScreenInv, Excused, screenVars
<1> QED
  BY <1>3, <1>4 DEF Users

LEMMA NextScreen == ASSUME TypeOK, ScreenInv, [Next]_vars PROVE ScreenInv'
<1>1. ASSUME NEW t \in Thread, Kmap(t) PROVE ScreenInv'
  BY <1>1, OtherScreen
     DEF TypeOK, Kmap, SetKmap, KmapFree, KmapInit, KmapMarks, Enters, Go, Leave, screenVars, route
<1>2. ASSUME NEW t \in Thread, Keys(t) PROVE ScreenInv'
  BY <1>2, OtherScreen
     DEF TypeOK, Keys, KeyEvent, KeyReport, KeyLift, Enters, Go, Leave, screenVars, route
<1>3. CASE UNCHANGED vars
  BY <1>3, OtherScreen DEF vars, threads
<1> QED
  BY <1>1, <1>2, <1>3, NetlinkScreen, NotifierScreen, StatusScreen, UsersScreen DEF Next

-----------------------------------------------------------------------------
IInv == TypeOK /\ InputInv /\ KeyInv /\ ScreenInv

LEMMA Inductive == Spec => []IInv
<1>1. Init => IInv
  BY InitTyped, InitInput, InitKeys, InitScreen DEF IInv
<1>2. IInv /\ [Next]_vars => IInv'
  BY NextTyped, NextInput, NextKeys, NextScreen DEF IInv
<1> QED
  BY <1>1, <1>2, PTL DEF Spec

(* Types of all variables; the input system holds no key for pressed that   *)
(* the input device has not announced.                                      *)
THEOREM TypeCorrect == Spec => []TypeOK
<1>1. IInv => TypeOK
  BY DEF IInv
<1> QED
  BY <1>1, Inductive, PTL

(* The last word that a client has read on the screen is true, when none is *)
(* under way and nothing excuses it (silead_fp_platform.c: fb_callback and  *)
(* SCR_STATUS).                                                             *)
THEOREM LastWordTrue == Spec => []LastWordStands
<1>1. IInv => LastWordStands
  <2> SUFFICES ASSUME IInv, Settled PROVE heard = screen
    BY DEF LastWordStands
  <2>1. Last(screen)
    BY DEF IInv, ScreenInv, Settled, Excused
  <2>2. screen \in Screen
    BY DEF IInv, TypeOK
  <2> QED
    BY <2>1, <2>2 DEF Last, Settled
<1> QED
  BY <1>1, Inductive, PTL

(* With no navigation key held, only codes outside of the key map that are  *)
(* held themselves are pressed (silfp_keyevent, SET_KMAP), however the key  *)
(* map changed between the reports of a key, until a SET_KMAP fails to copy *)
(* its map or cuts into a KEY_EVENT.                                        *)
THEOREM KeysReleased == Spec => []NoStuckKey
<1>1. IInv => NoStuckKey
  <2> SUFFICES ASSUME IInv, Free(KeyLabel \cup OneLabel), held \cap Nav = {}, Clear,
                      NEW c \in down
               PROVE  c \in held
    BY DEF NoStuckKey, Clear
  <2>1. \A t \in Thread : pc[t] # "kmap_free"
    BY DEF Free, OneLabel
  <2>2. PICK k \in held : CodeNow(k) = c
    BY <2>1 DEF IInv, KeyInv, DownHeld
  <2>3. k \in Raw
    BY <2>2 DEF IInv, TypeOK, Key
  <2> QED
    BY <2>2, <2>3 DEF CodeNow
<1> QED
  BY <1>1, Inductive, PTL

(* The input device is there for the users of the driver (silfp_input_init, *)
(* silfp_input_deinit, SET_KMAP).                                           *)
THEOREM InputForUsers == Spec => []InputWhileUsed
<1>1. IInv => InputWhileUsed
  BY DEF IInv, InputInv, InputWhileUsed, Agreed, Refused, Free, OneLabel
<1> QED
  BY <1>1, Inductive, PTL
=============================================================================

---------------------------- MODULE SilfpEvents ----------------------------
(***************************************************************************)
(* What the sensor driver passes on to user space                          *)
(* (kernel/drivers/silead/silead_fp_platform.c): the state of the screen,  *)
(* from the frame buffer's notifier and from SCR_STATUS, as words over the *)
(* netlink socket; and the keys of KEY_EVENT, through an input device that *)
(* INIT registers, DEINIT unregisters and SET_KMAP registers anew.         *)
(*                                                                         *)
(* SCR_STATUS runs in any number of threads at once.  KEY_EVENT is issued  *)
(* by one thread at a time, and so are INIT, DEINIT and SET_KMAP; the two  *)
(* groups overlap.  Interrupts and their word are in SilfpDriver.          *)
(***************************************************************************)
EXTENDS Naturals, Sequences, FiniteSets

CONSTANTS
  Thread,       \* threads that issue ioctls
  Nav,          \* navigation keys
  Code,         \* key codes of the input system
  Raw,          \* codes that clients report as they are
  NoCode,       \* an entry of the custom keymap that is not set
  DefaultCode,  \* the built-in keymap
  Room,         \* words the client's socket holds
  Mixes,        \* bound: sets of events and calls that come together
  MaxInit,      \* bound: INITs that are counted
  MaxFault      \* bound: steps that fail

ASSUME CodeAssumption == /\ NoCode \notin Code \cup Nav /\ Nav \cap Code = {} /\ Raw \subseteq Code
                         /\ DefaultCode \in [Nav -> Code]
ASSUME MixAssumption ==
  Mixes \subseteq SUBSET {"hello", "blank", "ask", "init", "deinit", "kmap", "key"}
ASSUME BoundAssumption == Room \in Nat \ {0} /\ MaxInit \in Nat \ {0} /\ MaxFault \in Nat

VARIABLES
  screen,     \* the screen, of which the notifier tells the driver
  scr_off,    \* fp_dev->scr_off
  notifier,   \* the word silfp_fb_callback has still to send, or "idle"
  client,     \* whether the client lives, and whether pid is its port
  queue,      \* words in the client's socket
  heard,      \* the last word on the screen that the client has read
  init,       \* fp_dev->init
  input,      \* fp_dev->input is set
  bits,       \* codes the input device may report
  down,       \* codes the input system holds for pressed
  keymap,     \* fp_dev->keymap_cust
  pc, arg,    \* where each thread is, and with what
  faults,
  mix,        \* the events and calls of this behaviour
  held,       \* auxiliary: keys whose last report was a press
  marks       \* auxiliary: what excuses the two views to differ

screenVars == <<screen, scr_off, notifier>>
route      == <<client, queue, heard>>
inputVars  == <<init, input, bits, down, keymap, held>>
threads    == <<pc, arg>>
vars       == <<screenVars, route, inputVars, threads, faults, mix, marks>>

-----------------------------------------------------------------------------
Screen == {"on", "off"}
Word   == Screen \cup {"disconnect"}
Flag   == {"up", "down", "click"}
Key    == Nav \cup Raw
KeyArg == [key : Key, flag : Flag, cust : BOOLEAN]
NoArg  == "none"
KeyLabel == {"report", "lift"}
OneLabel == {"init", "unregister", "kmap_free", "kmap_init", "bye"}
Label    == {"none", "ask"} \cup KeyLabel \cup OneLabel
ArgOf(label) == IF label = "ask" THEN Screen ELSE IF label \in KeyLabel THEN KeyArg ELSE {NoArg}
Mark     == {"unseen", "crossed", "dropped", "outside", "refused", "torn", "raced"}

Free(labels) == \A t \in Thread : pc[t] \notin labels
Go(t, label) == pc' = [pc EXCEPT ![t] = label]
Enters(t, call) == pc[t] = "none" /\ call \in mix
Leave(t) == Go(t, "none") /\ arg' = [arg EXCEPT ![t] = NoArg]
Fault == faults < MaxFault /\ faults' = faults + 1

Init ==
  /\ screen \in Screen
  /\ scr_off = FALSE
  /\ notifier = "idle"
  /\ client = [lives |-> FALSE, known |-> FALSE]
  /\ queue = <<>> /\ heard = "nothing"
  /\ init = 0 /\ input = FALSE /\ bits = {} /\ down = {} /\ held = {}
  /\ keymap = [n \in Nav |-> NoCode]
  /\ pc = [t \in Thread |-> "none"]
  /\ arg = [t \in Thread |-> NoArg]
  /\ faults = 0
  /\ mix \in Mixes
  /\ marks = {"unseen"}

-----------------------------------------------------------------------------
(* silfp_netlink_send: without a port, or with the socket full, the word is *)
(* dropped.                                                                 *)
Arrives == client.known /\ client.lives /\ Len(queue) < Room
Send(word) ==
  /\ queue' = IF Arrives THEN Append(queue, word) ELSE queue
  /\ UNCHANGED <<client, heard>>

(* Whether the last word on the screen was dropped.                         *)
AfterScreenWord == IF Arrives THEN marks \ {"dropped"} ELSE marks \cup {"dropped"}

(* silfp_netlink_recv, the client's reading, and its end.                   *)
Hello ==
  /\ "hello" \in mix
  /\ ~(client.lives /\ client.known)
  /\ client' = [lives |-> TRUE, known |-> TRUE]
  /\ queue' = <<>> /\ heard' = "nothing"
  /\ marks' = marks \ {"dropped"}
  /\ UNCHANGED <<screenVars, inputVars, threads, faults>>

Read ==
  /\ client.lives /\ queue # <<>>
  /\ queue' = Tail(queue)
  /\ heard' = IF Head(queue) \in Screen THEN Head(queue) ELSE heard
  /\ UNCHANGED <<screenVars, client, inputVars, threads, faults, marks>>

Die ==
  /\ client.lives
  /\ client' = [client EXCEPT !.lives = FALSE]
  /\ queue' = <<>> /\ heard' = "nothing"
  /\ UNCHANGED <<screenVars, inputVars, threads, faults, marks>>

-----------------------------------------------------------------------------
(* silfp_fb_callback for FB_BLANK_UNBLANK and FB_BLANK_POWERDOWN; the other *)
(* modes change nothing.  Frame buffer events come one after the other.     *)
Asking == ~Free({"ask"})

(* Mutant: scr_off is never cleared.                                        *)
Blank_StaysOff(s) ==
  /\ "blank" \in mix
  /\ notifier = "idle"
  /\ screen' = s
  /\ scr_off' = (scr_off \/ s = "off")
  /\ notifier' = s
  /\ marks' = (marks \ {"unseen", "crossed"}) \cup (IF Asking THEN {"crossed"} ELSE {})
  /\ UNCHANGED <<route, inputVars, threads, faults>>

Blank(s) ==
  /\ "blank" \in mix
  /\ notifier = "idle"
  /\ screen' = s
  /\ scr_off' = (s = "off")
  /\ notifier' = s
  /\ marks' = (marks \ {"unseen", "crossed"}) \cup (IF Asking THEN {"crossed"} ELSE {})
  /\ UNCHANGED <<route, inputVars, threads, faults>>

BlankSend ==
  /\ notifier # "idle"
  /\ notifier' = "idle"
  /\ Send(notifier)
  /\ marks' = AfterScreenWord
  /\ UNCHANGED <<screen, scr_off, inputVars, threads, faults>>

(* SCR_STATUS with no argument: scr_off is read, then the word is sent.     *)
Ask(t) ==
  /\ Enters(t, "ask")
  /\ Go(t, "ask")
  /\ arg' = [arg EXCEPT ![t] = IF scr_off THEN "off" ELSE "on"]
  /\ UNCHANGED <<screenVars, route, inputVars, faults, marks>>

AskSend(t) ==
  /\ pc[t] = "ask"
  /\ Send(arg[t])
  /\ marks' = AfterScreenWord
  /\ Leave(t)
  /\ UNCHANGED <<screenVars, inputVars, faults>>

-----------------------------------------------------------------------------
(* The input device.  Unregistering it releases every key.                  *)
Register(map) ==
  /\ input' = TRUE
  /\ bits' = {DefaultCode[n] : n \in Nav} \cup ({map[n] : n \in Nav} \ {NoCode})

(* Mutant: the keys stay pressed.                                           *)
Unregister_KeepsDown ==
  /\ input' = FALSE /\ bits' = {} /\ UNCHANGED down

Unregister ==
  /\ input' = FALSE /\ bits' = {} /\ down' = {}

Alone == Free(OneLabel)

(* SIFP_IOC_INIT, of which only the input device counts here.  An input     *)
(* device that SET_KMAP has registered before is overwritten.               *)
Initialise(t) ==
  /\ Enters(t, "init") /\ Alone
  /\ \/ init \in 1 .. MaxInit - 1 /\ init' = init + 1 /\ UNCHANGED pc
     \/ init = 0 /\ Go(t, "init") /\ UNCHANGED init
  /\ UNCHANGED <<screenVars, route, input, bits, down, keymap, held, arg, faults, marks>>

InputInit(t) ==
  /\ pc[t] = "init"
  /\ \/ Register(keymap) /\ init' = 1 /\ UNCHANGED faults
     \/ Fault /\ input' = FALSE /\ bits' = {} /\ UNCHANGED init
  /\ down' = {}
  /\ Leave(t)
  /\ UNCHANGED <<screenVars, route, keymap, held, marks>>

(* SIFP_IOC_DEINIT; DISCONNECT is sent with users left, too.                *)
Deinit(t) ==
  /\ Enters(t, "deinit") /\ Alone /\ init > 0
  /\ init' = init - 1
  /\ Go(t, IF init = 1 THEN "unregister" ELSE "bye")
  /\ UNCHANGED <<screenVars, route, input, bits, down, keymap, held, arg, faults, marks>>

(* Mutant: the input device stays.                                          *)
InputDeinit_Kept(t) ==
  /\ pc[t] = "unregister"
  /\ Go(t, "bye")
  /\ marks' = marks \ {"refused"}
  /\ UNCHANGED <<screenVars, route, inputVars, arg, faults>>

InputDeinit(t) ==
  /\ pc[t] = "unregister"
  /\ Unregister
  /\ Go(t, "bye")
  /\ marks' = marks \ {"refused"}
  /\ UNCHANGED <<screenVars, route, init, keymap, held, arg, faults>>

Bye(t) ==
  /\ pc[t] = "bye"
  /\ Send("disconnect")
  /\ Leave(t)
  /\ UNCHANGED <<screenVars, inputVars, faults, marks>>

-----------------------------------------------------------------------------
(* A map that is set without users, while a key is being reported, or by a  *)
(* copy that fails.                                                         *)
KmapMarks(failed) ==
  (IF failed THEN marks ELSE marks \ {"torn", "raced"})
    \cup (IF init = 0 THEN {"outside"} ELSE {})
    \cup (IF Free(KeyLabel) THEN {} ELSE {"raced"})
    \cup (IF failed THEN {"torn"} ELSE {})

(* SIFP_IOC_SET_KMAP.  It copies nine entries, two more than the client has *)
(* to give; a copy that fails may have filled in the map all the same, and  *)
(* leaves the input device as it is.                                        *)
(* Mutant: the device is registered anew only if there was none.            *)
SetKmap_NoReinit(t, map) ==
  /\ Enters(t, "kmap") /\ Alone
  /\ \/ keymap' = map /\ (IF input THEN UNCHANGED pc ELSE Go(t, "kmap_init")) /\ UNCHANGED faults
     \/ Fault /\ keymap' \in {keymap, map} /\ UNCHANGED pc
  /\ marks' = KmapMarks(faults' # faults)
  /\ UNCHANGED <<screenVars, route, init, input, bits, down, held, arg>>

SetKmap(t, map) ==
  /\ Enters(t, "kmap") /\ Alone
  /\ \/ keymap' = map /\ Go(t, IF input THEN "kmap_free" ELSE "kmap_init") /\ UNCHANGED faults
     \/ Fault /\ keymap' \in {keymap, map} /\ UNCHANGED pc
  /\ marks' = KmapMarks(faults' # faults)
  /\ UNCHANGED <<screenVars, route, init, input, bits, down, held, arg>>

KmapFree(t) ==
  /\ pc[t] = "kmap_free"
  /\ Unregister
  /\ Go(t, "kmap_init")
  /\ UNCHANGED <<screenVars, route, init, keymap, held, arg, faults, marks>>

KmapInit(t) ==
  /\ pc[t] = "kmap_init"
  /\ \/ Register(keymap) /\ marks' = marks \ {"refused"} /\ UNCHANGED faults
     \/ Fault /\ input' = FALSE /\ bits' = {} /\ marks' = marks \cup {"refused"}
  /\ down' = {}
  /\ Leave(t)
  /\ UNCHANGED <<screenVars, route, init, keymap, held>>

-----------------------------------------------------------------------------
(* SIFP_IOC_KEY_EVENT: silfp_keyevent.  A navigation key goes through the   *)
(* custom keymap or else the built-in one, any other value is reported as a *)
(* code; the map is read again at every report.                             *)
KeyEvent(t, key, flag) ==
  /\ Enters(t, "key") /\ Free(KeyLabel) /\ input
  /\ Go(t, "report")
  /\ arg' = [arg EXCEPT ![t] = [key |-> key, flag |-> flag,
                                 cust |-> key \in Nav /\ keymap[key] # NoCode]]
  /\ UNCHANGED <<screenVars, route, inputVars, faults, marks>>

CodeOf(a) == IF a.key \in Raw THEN a.key
             ELSE IF a.cust THEN keymap[a.key] ELSE DefaultCode[a.key]

(* The input system drops codes the device has not announced.               *)
Press(a) == down' = down \cup ({CodeOf(a)} \cap bits) /\ held' = held \cup {a.key}
Lift(a)  == down' = down \ {CodeOf(a)} /\ held' = held \ {a.key}

(* Without the input device a report is a fault: the thread stays here.  A  *)
(* click of a navigation key is reported down and then up; of any other     *)
(* value there is one report, in which a click counts as down.              *)
KeyReport(t) ==
  /\ pc[t] = "report" /\ input
  /\ IF arg[t].flag = "up" THEN Lift(arg[t]) ELSE Press(arg[t])
  /\ IF arg[t].flag = "click" /\ arg[t].key \in Nav
     THEN Go(t, "lift") /\ UNCHANGED arg
     ELSE Leave(t)
  /\ UNCHANGED <<screenVars, route, init, input, bits, keymap, faults, marks>>

KeyLift(t) ==
  /\ pc[t] = "lift" /\ input
  /\ Lift(arg[t])
  /\ Leave(t)
  /\ UNCHANGED <<screenVars, route, init, input, bits, keymap, faults, marks>>

-----------------------------------------------------------------------------
Keymaps == [Nav -> Code \cup {NoCode}]

Netlink   == Hello \/ Read \/ Die
Notifier  == (\E s \in Screen : Blank(s)) \/ BlankSend
Status(t) == Ask(t) \/ AskSend(t)
Users(t)  == Initialise(t) \/ InputInit(t) \/ Deinit(t) \/ InputDeinit(t) \/ Bye(t)
Kmap(t)   == (\E map \in Keymaps : SetKmap(t, map)) \/ KmapFree(t) \/ KmapInit(t)
Keys(t)   == \/ \E key \in Key, flag \in Flag : KeyEvent(t, key, flag)
             \/ KeyReport(t) \/ KeyLift(t)

Next == /\ \/ Netlink \/ Notifier
           \/ \E t \in Thread : Status(t) \/ Users(t) \/ Kmap(t) \/ Keys(t)
        /\ UNCHANGED mix

Spec == Init /\ [][Next]_vars

-----------------------------------------------------------------------------
(* Every variable has its type.                                             *)
TypeOK ==
  /\ screen \in Screen /\ scr_off \in BOOLEAN /\ notifier \in Screen \cup {"idle"}
  /\ client \in [lives : BOOLEAN, known : BOOLEAN]
  /\ queue \in Seq(Word) /\ Len(queue) <= Room
  /\ heard \in Screen \cup {"nothing"}
  /\ init \in 0 .. MaxInit
  /\ input \in BOOLEAN /\ bits \subseteq Code /\ down \subseteq bits
  /\ ~input => bits = {}
  /\ keymap \in Keymaps
  /\ pc \in [Thread -> Label]
  /\ DOMAIN arg = Thread /\ \A t \in Thread : arg[t] \in ArgOf(pc[t])
  /\ faults \in 0 .. MaxFault /\ mix \in Mixes
  /\ held \subseteq Key /\ marks \subseteq Mark

(* The client has read all there is to read, and nothing excuses it.        *)
Settled ==
  /\ client.lives /\ client.known /\ heard # "nothing"
  /\ notifier = "idle" /\ ~Asking
  /\ \A i \in DOMAIN queue : queue[i] \notin Screen
  /\ marks \cap {"unseen", "crossed", "dropped"} = {}

(* When the client has read all its words and none is under way, the last   *)
(* one on the screen is true: no answer of SCR_STATUS overtakes the news of *)
(* a change with an older state.  Excused are a screen that has not changed *)
(* since probe, a last word that was dropped, and a SCR_STATUS under way    *)
(* when the screen changed.                                                 *)
LastWordStands == Settled => heard = screen

(* Once every navigation key that was reported down has been reported up,   *)
(* nothing is left pressed but codes outside of the key map whose own last  *)
(* report was down or a click.  A SET_KMAP may change the code of a key     *)
(* between the two reports, as it replaces the input device, but two are    *)
(* excused until the next: one whose copy failed, and one in the middle of  *)
(* a KEY_EVENT.                                                             *)
NoStuckKey ==
  Free(KeyLabel \cup OneLabel) /\ held \cap Nav = {} /\ marks \cap {"torn", "raced"} = {}
    => down \subseteq held

(* Outside of INIT, DEINIT and SET_KMAP there is an input device exactly    *)
(* while the driver has users, unless a SET_KMAP was called without users   *)
(* or could not register it.                                                *)
InputWhileUsed ==
  Free(OneLabel) /\ "outside" \notin marks =>
    (input <=> init > 0 /\ "refused" \notin marks)
=============================================================================

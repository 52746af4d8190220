------------------------ MODULE SilfpLifecycleProofs ------------------------
(***************************************************************************)
(* Proofs about the life of the sensor driver and its devices, for any     *)
(* finite sets of devices and clients and any number of failures.          *)
(***************************************************************************)
EXTENDS SilfpLifecycle, FiniteSetTheorems, TLAPS

(* The module and the device at each place of the bus.                      *)
Places ==
  /\ bus \in {"class", "register", "wq"} => module = "loading"
  /\ bus \in ProbeLabel \cup {"probe"} => module \in {"loading", "in"}
  /\ bus \in RemoveLabel => module \in {"in", "leaving"}
  /\ bus = "unload" => module = "leaving"
  /\ bus = "idle" => module \in {"out", "in"}
  /\ bus \notin {"idle", "wq"} \/ module = "out" => bound = NoDev
  /\ bus \in {"r_sock", "r_list"} => "wq" \notin kernel

(* The parts of a device that is bound or worked on, and of any other.      *)
Current(d) == d \in {bound, cur}
SockLabel  == {"notif", "r_wake", "r_spi", "r_notif", "r_wq", "r_sock"}

Parts ==
  \A d \in Dev :
    /\ "list" \in has[d] => Current(d)
    /\ d = cur /\ bus \in {"devt", "node", "err_free"} => "list" \notin has[d]
    /\ Current(d) => {"text", "mem"} \subseteq has[d]
    /\ d = bound \/ (d = cur /\ bus \in SockLabel) => "sock" \in has[d]
    /\ "notif" \in has[d] => d = bound \/ (d = cur /\ bus \in {"r_wake", "r_spi", "r_notif"})
    /\ module = "out" \/ bus \in {"class", "register"} => "text" \notin has[d]
    /\ {"text", "mem"} \subseteq has[d] =>
         Current(d) \/ (module \in {"in", "leaving"} /\ "wq" \notin kernel)

(* Open files.                                                              *)
Files ==
  \A d \in Dev :
    /\ users[d] = Cardinality(Opened(d))
    /\ Opened(d) # {} =>
         /\ "cdev" \in has[d]
         /\ {"text", "mem"} \subseteq has[d] \/ Dangling(d)
         /\ module \in {"loading", "in"} /\ bus \notin {"class", "register"}

(* The handler, the work queue and the notifier.                            *)
Works(d)  == d \in queued \/ (worker # Idle /\ worker.dev = d)
Reporters ==
  /\ notifier # Idle => "notif" \in has[notifier.dev]
  /\ hirq # Idle => "cdev" \in has[hirq.dev]
  /\ worker.at = "send" => Dangling(worker.dev) \/ "sock" \in has[worker.dev]
  /\ \A d \in Dev :
       /\ "irq" \in has[d] => "cdev" \in has[d]
       /\ Works(d) => /\ "cdev" \in has[d]
                      /\ Dangling(d) \/ ("wq" \in kernel /\ Current(d))

IInv == TypeOK /\ Places /\ Parts /\ Files /\ Reporters

-----------------------------------------------------------------------------
(* The initial state satisfies the invariant.                               *)
LEMMA InitInv == Init => IInv
<1> SUFFICES ASSUME Init PROVE IInv
  OBVIOUS
<1> USE DEF Init
<1>1. \A d \in Dev : Opened(d) = {}
  BY DEF Opened
<1>2. 0 \in 0 .. MaxInit /\ 0 \in 0 .. MaxFault
  BY BoundAssumption
<1>3. Cardinality({}) = 0 /\ Cardinality(Client) \in Nat
  BY FS_EmptySet, FS_CardinalityType, DevAssumption
<1>4. TypeOK
  <2>1. Idle \in Actor(HandlerLabel) /\ Idle \in Actor(ReporterLabel)
    BY DEF Actor
  <2>2. bus \notin ProbeLabel \cup RemoveLabel /\ bus \in BusLabel
    BY DEF ProbeLabel, RemoveLabel, BusLabel
  <2> QED
    BY <1>2, <1>3, <2>1, <2>2, DevAssumption DEF TypeOK, ClientLabel, Part
<1>5. Places /\ Parts
  BY DevAssumption DEF Places, Parts, Current, ProbeLabel, RemoveLabel, SockLabel
<1>6. Files /\ Reporters
  BY <1>1, <1>3 DEF Files, Reporters, Works, Idle, At
<1> QED
  BY <1>4, <1>5, <1>6 DEF IInv

-----------------------------------------------------------------------------
(* What a step on the bus must keep, when no client, handler or reporter    *)
(* moves in it.                                                             *)
LEMMA Noted ==
  ASSUME story \in [Dev -> SUBSET Happening],
         UNCHANGED story \/ \E d \in Dev, what \in SUBSET Happening : Note(d, what)
  PROVE  /\ story' \in [Dev -> SUBSET Happening]
         /\ \A d \in Dev : Dangling(d) => Dangling(d)'
<1>1. ASSUME NEW d \in Dev, NEW what \in SUBSET Happening, Note(d, what)
      PROVE  story' \in [Dev -> SUBSET Happening] /\ \A e \in Dev : story[e] \subseteq story'[e]
  BY <1>1 DEF Note
<1> QED
  BY <1>1 DEF Dangling

LEMMA SameFiles ==
  ASSUME Files, UNCHANGED <<users, clients>>,
         \A d \in Dev : Opened(d) # {} =>
           /\ "cdev" \in has'[d]
           /\ {"text", "mem"} \subseteq has'[d] \/ Dangling(d)'
           /\ module' \in {"loading", "in"} /\ bus' \notin {"class", "register"}
  PROVE  Files'
BY DEF Files, Opened, clients

LEMMA SameReporters ==
  ASSUME TypeOK, Reporters, UNCHANGED async,
         \A d \in Dev :
           /\ "cdev" \in has[d] => "cdev" \in has'[d]
           /\ "irq" \in has'[d] => "cdev" \in has'[d]
           /\ "notif" \in has[d] /\ notifier # Idle => "notif" \in has'[d]
           /\ Works(d) =>
                /\ "sock" \in has[d] => "sock" \in has'[d] \/ Dangling(d)'
                /\ Dangling(d) => Dangling(d)'
                /\ "wq" \in kernel /\ Current(d) =>
                     Dangling(d)' \/ ("wq" \in kernel' /\ Current(d)')
  PROVE  Reporters'
<1>1. \A d \in Dev : Works(d)' <=> Works(d)
  BY DEF Works, async
<1>2. /\ notifier # Idle => notifier.dev \in Dev
      /\ hirq # Idle => hirq.dev \in Dev
      /\ worker.at = "send" => worker.dev \in Dev /\ Works(worker.dev)
  BY DEF TypeOK, Actor, Idle, At, Works
<1> QED
  BY <1>1, <1>2 DEF Reporters, async

LEMMA LoadInv == ASSUME IInv, Load PROVE IInv'
<1> USE DEF IInv, Load
<1>1. TypeOK'
  BY DEF TypeOK, BusLabel, ProbeLabel, RemoveLabel, clients, async
<1>2. Places' /\ Parts'
  BY DEF TypeOK, Places, Parts, Current, ProbeLabel, RemoveLabel, SockLabel
<1>3. Files'
  BY SameFiles DEF Files, Dangling
<1>4. Reporters'
  BY SameReporters DEF Reporters, Dangling, Current
<1> QED
  BY <1>1, <1>2, <1>3, <1>4

LEMMA CreateClassInv == ASSUME IInv, CreateClass PROVE IInv'
<1> USE DEF IInv, CreateClass, Fault
<1>1. TypeOK'
  <2>1. faults' \in 0 .. MaxFault
    BY BoundAssumption DEF TypeOK
  <2> QED
    BY <2>1 DEF TypeOK, BusLabel, ProbeLabel, RemoveLabel, clients, async
<1>2. Places' /\ Parts'
  BY DEF TypeOK, Places, Parts, Current, ProbeLabel, RemoveLabel, SockLabel
<1>3. Files'
  BY SameFiles DEF Files, Dangling
<1>4. Reporters'
  BY SameReporters DEF Reporters, Dangling, Current
<1> QED
  BY <1>1, <1>2, <1>3, <1>4

LEMMA RegisterInv == ASSUME IInv, Register PROVE IInv'
<1> USE DEF IInv, Register, Fault
<1>1. TypeOK'
  <2>1. faults' \in 0 .. MaxFault
    BY BoundAssumption DEF TypeOK
  <2> QED
    BY <2>1 DEF TypeOK, BusLabel, ProbeLabel, RemoveLabel, clients, async
<1>2. Places' /\ Parts'
  BY DEF TypeOK, Places, Parts, Current, ProbeLabel, RemoveLabel, SockLabel
<1>3. Files'
  BY SameFiles DEF Files, Dangling
<1>4. Reporters'
  BY SameReporters DEF Reporters, Dangling, Current
<1> QED
  BY <1>1, <1>2, <1>3, <1>4

LEMMA CreateWqInv == ASSUME IInv, CreateWq PROVE IInv'
<1> USE DEF IInv, CreateWq, Fault
<1>0. /\ story' \in [Dev -> SUBSET Happening]
      /\ \A d \in Dev : Dangling(d) => Dangling(d)'
  BY Noted DEF TypeOK, Happening
<1>1. TypeOK'
  <2>1. faults' \in 0 .. MaxFault
    BY BoundAssumption DEF TypeOK
  <2> QED
    BY <1>0, <2>1 DEF TypeOK, BusLabel, ProbeLabel, RemoveLabel, clients, async
<1>2. Places' /\ Parts'
  BY DEF TypeOK, Places, Parts, Current, ProbeLabel, RemoveLabel, SockLabel
<1>3. Files'
  <2>1. UNCHANGED <<has, users, clients>> /\ module' = "in" /\ bus' = "idle"
    OBVIOUS
  <2> QED
    BY <1>0, <2>1, SameFiles DEF Files
<1>4. Reporters'
  BY <1>0, SameReporters DEF Reporters, Current
<1> QED
  BY <1>1, <1>2, <1>3, <1>4

LEMMA BindInv == ASSUME IInv, Bind PROVE IInv'
<1> USE DEF IInv, Bind
<1>1. TypeOK'
  BY DEF TypeOK, BusLabel, ProbeLabel, RemoveLabel, clients, async
<1>2. Places' /\ Parts'
  BY DEF TypeOK, Places, Parts, Current, ProbeLabel, RemoveLabel, SockLabel
<1>3. Files'
  BY SameFiles DEF Files, Dangling
<1>4. Reporters'
  BY SameReporters DEF Reporters, Dangling, Current
<1> QED
  BY <1>1, <1>2, <1>3, <1>4

LEMMA ProbeInv == ASSUME IInv, Probe PROVE IInv'
<1> USE DEF IInv, Probe, Fault
<1>0. /\ story' \in [Dev -> SUBSET Happening]
      /\ \A d \in Dev : Dangling(d) => Dangling(d)'
  BY Noted DEF TypeOK, Fresh, Happening
<1>1. TypeOK'
  <2>1. /\ faults' \in 0 .. MaxFault
        /\ has' \in [Dev -> SUBSET Part]
    BY BoundAssumption DEF TypeOK, Gain, Fresh, Part
  <2> QED
    BY <1>0, <2>1, DevAssumption
       DEF TypeOK, Fresh, Probed, BusLabel, ProbeLabel, RemoveLabel, clients, async
<1>2. Places' /\ Parts'
  BY DevAssumption DEF TypeOK, Places, Parts, Current, ProbeLabel, RemoveLabel, SockLabel, Gain, Fresh, Probed
<1>3. Files'
  BY <1>0, SameFiles DEF TypeOK, Places, Files, Gain, Fresh, Probed
<1>4. Reporters'
  <2>1. \A d \in Dev : has[d] \subseteq has'[d] /\ ("irq" \in has'[d] => "irq" \in has[d])
    BY DEF TypeOK, Gain
  <2>2. cur = NoDev /\ bound = NoDev /\ UNCHANGED <<bound, kernel, async>>
    BY DEF TypeOK, Places, ProbeLabel, RemoveLabel
  <2> QED
    BY <1>0, <2>1, <2>2, SameReporters, DevAssumption DEF Reporters, Current
<1> QED
  BY <1>1, <1>2, <1>3, <1>4

LEMMA AllocDevtInv == ASSUME IInv, AllocDevt PROVE IInv'
<1> USE DEF IInv, AllocDevt, ProbeStep, Fault
<1>0. cur \in Dev
  BY DEF TypeOK, ProbeLabel, RemoveLabel
<1>1. TypeOK'
  <2>1. /\ faults' \in 0 .. MaxFault
        /\ has' \in [Dev -> SUBSET Part]
    BY BoundAssumption DEF TypeOK, Gain, Lose, Part
  <2> QED
    BY <1>0, <2>1 DEF TypeOK, BusLabel, ProbeLabel, RemoveLabel, clients, async
<1>2. Places' /\ Parts'
  BY DEF TypeOK, Places, Parts, Current, ProbeLabel, RemoveLabel, SockLabel, Gain, Lose
<1>3. Files'
  <2>1. \A d \in Dev : has[d] \ {"none"} \subseteq has'[d]
    BY DEF TypeOK, Gain, Lose
  <2> QED
    BY <1>0, <2>1, SameFiles DEF TypeOK, Places, Files, Dangling, ProbeLabel, RemoveLabel
<1>4. Reporters'
  <2>1. \A d \in Dev : has[d] \ {"none"} \subseteq has'[d] /\ ("irq" \in has'[d] => "irq" \in has[d])
    BY <1>0 DEF TypeOK, Gain, Lose
  <2> QED
    BY <1>0, <2>1, SameReporters DEF Reporters, Dangling, Current
<1> QED
  BY <1>1, <1>2, <1>3, <1>4

LEMMA DeviceNodeInv == ASSUME IInv, DeviceNode PROVE IInv'
<1> USE DEF IInv, DeviceNode, ProbeStep, Fault
<1>0. cur \in Dev
  BY DEF TypeOK, ProbeLabel, RemoveLabel
<1>1. TypeOK'
  <2>1. /\ faults' \in 0 .. MaxFault
        /\ has' \in [Dev -> SUBSET Part]
    BY BoundAssumption DEF TypeOK, Gain, Lose, Part
  <2> QED
    BY <1>0, <2>1 DEF TypeOK, BusLabel, ProbeLabel, RemoveLabel, clients, async
<1>2. Places' /\ Parts'
  BY DEF TypeOK, Places, Parts, Current, ProbeLabel, RemoveLabel, SockLabel, Gain, Lose
<1>3. Files'
  <2>1. \A d \in Dev : has[d] \ {"none"} \subseteq has'[d]
    BY DEF TypeOK, Gain, Lose
  <2> QED
    BY <1>0, <2>1, SameFiles DEF TypeOK, Places, Files, Dangling, ProbeLabel, RemoveLabel
<1>4. Reporters'
  <2>1. \A d \in Dev : has[d] \ {"none"} \subseteq has'[d] /\ ("irq" \in has'[d] => "irq" \in has[d])
    BY <1>0 DEF TypeOK, Gain, Lose
  <2> QED
    BY <1>0, <2>1, SameReporters DEF Reporters, Dangling, Current
<1> QED
  BY <1>1, <1>2, <1>3, <1>4

LEMMA CdevAddInv == ASSUME IInv, CdevAdd PROVE IInv'
<1> USE DEF IInv, CdevAdd, ProbeStep, Fault
<1>0. cur \in Dev
  BY DEF TypeOK, ProbeLabel, RemoveLabel
<1>1. TypeOK'
  <2>1. /\ faults' \in 0 .. MaxFault
        /\ has' \in [Dev -> SUBSET Part]
    BY BoundAssumption DEF TypeOK, Gain, Lose, Part
  <2> QED
    BY <1>0, <2>1 DEF TypeOK, BusLabel, ProbeLabel, RemoveLabel, clients, async
<1>2. Places' /\ Parts'
  BY DEF TypeOK, Places, Parts, Current, ProbeLabel, RemoveLabel, SockLabel, Gain, Lose
<1>3. Files'
  <2>1. \A d \in Dev : has[d] \ {"none"} \subseteq has'[d]
    BY DEF TypeOK, Gain, Lose
  <2> QED
    BY <1>0, <2>1, SameFiles DEF TypeOK, Places, Files, Dangling, ProbeLabel, RemoveLabel
<1>4. Reporters'
  <2>1. \A d \in Dev : has[d] \ {"none"} \subseteq has'[d] /\ ("irq" \in has'[d] => "irq" \in has[d])
    BY <1>0 DEF TypeOK, Gain, Lose
  <2> QED
    BY <1>0, <2>1, SameReporters DEF Reporters, Dangling, Current
<1> QED
  BY <1>1, <1>2, <1>3, <1>4

LEMMA NetlinkInitInv == ASSUME IInv, NetlinkInit PROVE IInv'
<1> USE DEF IInv, NetlinkInit, ProbeStep, Fault
<1>0. cur \in Dev
  BY DEF TypeOK, ProbeLabel, RemoveLabel
<1>1. TypeOK'
  <2>1. /\ faults' \in 0 .. MaxFault
        /\ has' \in [Dev -> SUBSET Part]
    BY BoundAssumption DEF TypeOK, Gain, Lose, Part
  <2> QED
    BY <1>0, <2>1 DEF TypeOK, BusLabel, ProbeLabel, RemoveLabel, clients, async
<1>2. Places' /\ Parts'
  BY DEF TypeOK, Places, Parts, Current, ProbeLabel, RemoveLabel, SockLabel, Gain, Lose
<1>3. Files'
  <2>1. \A d \in Dev : has[d] \ {"none"} \subseteq has'[d]
    BY DEF TypeOK, Gain, Lose
  <2> QED
    BY <1>0, <2>1, SameFiles DEF TypeOK, Places, Files, Dangling, ProbeLabel, RemoveLabel
<1>4. Reporters'
  <2>1. \A d \in Dev : has[d] \ {"none"} \subseteq has'[d] /\ ("irq" \in has'[d] => "irq" \in has[d])
    BY <1>0 DEF TypeOK, Gain, Lose
  <2> QED
    BY <1>0, <2>1, SameReporters DEF Reporters, Dangling, Current
<1> QED
  BY <1>1, <1>2, <1>3, <1>4

LEMMA ClearInitInv == ASSUME IInv, ClearInit PROVE IInv'
<1> USE DEF IInv, ClearInit
<1>0. cur \in Dev
  BY DEF TypeOK, ProbeLabel, RemoveLabel
<1>1. TypeOK'
  <2>1. init' \in [Dev -> 0 .. MaxInit]
    <3>1. 0 \in 0 .. MaxInit
      BY BoundAssumption
    <3> QED
      BY <3>1 DEF TypeOK
  <2> QED
    BY <1>0, <2>1 DEF TypeOK, BusLabel, ProbeLabel, RemoveLabel, clients, async
<1>2. Places' /\ Parts'
  BY DEF TypeOK, Places, Parts, Current, ProbeLabel, RemoveLabel, SockLabel, Gain, Lose
<1>3. Files'
  <2>1. \A d \in Dev : has[d] \ {"none"} \subseteq has'[d]
    BY DEF TypeOK, Gain, Lose
  <2> QED
    BY <1>0, <2>1, SameFiles DEF TypeOK, Places, Files, Dangling, ProbeLabel, RemoveLabel
<1>4. Reporters'
  <2>1. \A d \in Dev : has[d] \ {"none"} \subseteq has'[d] /\ ("irq" \in has'[d] => "irq" \in has[d])
    BY <1>0 DEF TypeOK, Gain, Lose
  <2> QED
    BY <1>0, <2>1, SameReporters DEF Reporters, Dangling, Current
<1> QED
  BY <1>1, <1>2, <1>3, <1>4

LEMMA FbRegisterInv == ASSUME IInv, FbRegister PROVE IInv'
<1> USE DEF IInv, FbRegister
<1>0. cur \in Dev /\ bound = NoDev /\ NoDev \notin Dev
  BY DevAssumption DEF TypeOK, Places, ProbeLabel, RemoveLabel
<1>1. TypeOK'
  <2>1. /\ faults' \in 0 .. MaxFault
        /\ has' \in [Dev -> SUBSET Part]
    BY BoundAssumption DEF TypeOK, Gain, Lose, Part
  <2> QED
    BY <1>0, <2>1 DEF TypeOK, BusLabel, ProbeLabel, RemoveLabel, clients, async, Probed
<1>2. Places' /\ Parts'
  <2>1. /\ {"text", "mem", "sock"} \subseteq has[cur]
        /\ has' = [has EXCEPT ![cur] = has[cur] \cup {"notif"}]
    BY <1>0 DEF Parts, Current, SockLabel, Gain
  <2>2. \A d \in Dev : Current(d) => Current(d)'
    BY <1>0 DEF Current
  <2>3. Places'
    BY DEF Places, Probed, ProbeLabel, RemoveLabel
  <2>4. Parts'
    BY <1>0, <2>1, <2>2 DEF TypeOK, Places, Parts, Current, ProbeLabel, Probed, SockLabel
  <2> QED
    BY <2>3, <2>4
<1>3. Files'
  <2>1. \A d \in Dev : has[d] \ {"none"} \subseteq has'[d]
    BY DEF TypeOK, Gain, Lose
  <2> QED
    BY <1>0, <2>1, SameFiles DEF TypeOK, Places, Files, Dangling, ProbeLabel, RemoveLabel, Probed
<1>4. Reporters'
  <2>1. \A d \in Dev : has[d] \ {"none"} \subseteq has'[d] /\ ("irq" \in has'[d] => "irq" \in has[d])
    BY <1>0 DEF TypeOK, Gain, Lose
  <2> QED
    BY <1>0, <2>1, SameReporters DEF Reporters, Dangling, Current, Probed
<1> QED
  BY <1>1, <1>2, <1>3, <1>4

LEMMA ErrListInv == ASSUME IInv, ErrList PROVE IInv'
<1> USE DEF IInv, ErrList
<1>0. cur \in Dev
  BY DEF TypeOK, ProbeLabel, RemoveLabel
<1>1. TypeOK'
  <2>1. /\ faults' \in 0 .. MaxFault
        /\ has' \in [Dev -> SUBSET Part]
    BY BoundAssumption DEF TypeOK, Gain, Lose, Part
  <2> QED
    BY <1>0, <2>1 DEF TypeOK, BusLabel, ProbeLabel, RemoveLabel, clients, async
<1>2. Places' /\ Parts'
  BY DEF TypeOK, Places, Parts, Current, ProbeLabel, RemoveLabel, SockLabel, Gain, Lose
<1>3. Files'
  <2>1. \A d \in Dev : has[d] \ {"list"} \subseteq has'[d]
    BY DEF TypeOK, Gain, Lose
  <2> QED
    BY <1>0, <2>1, SameFiles DEF TypeOK, Places, Files, Dangling, ProbeLabel, RemoveLabel
<1>4. Reporters'
  <2>1. \A d \in Dev : has[d] \ {"list"} \subseteq has'[d] /\ ("irq" \in has'[d] => "irq" \in has[d])
    BY <1>0 DEF TypeOK, Gain, Lose
  <2> QED
    BY <1>0, <2>1, SameReporters DEF Reporters, Dangling, Current
<1> QED
  BY <1>1, <1>2, <1>3, <1>4

LEMMA ErrFreeInv == ASSUME IInv, ErrFree PROVE IInv'
<1> USE DEF IInv, ErrFree
<1>0. /\ cur \in Dev /\ bound = NoDev /\ NoDev \notin Dev
      /\ story' \in [Dev -> SUBSET Happening]
      /\ \A d \in Dev : Dangling(d) => Dangling(d)'
      /\ \A d \in Dev : d = cur /\ "cdev" \in has[d] => Dangling(d)'
  <2>1. cur \in Dev /\ bound = NoDev /\ NoDev \notin Dev
    BY DevAssumption DEF TypeOK, Places, ProbeLabel, RemoveLabel
  <2>2. \A d \in Dev : d = cur /\ "cdev" \in has[d] => Dangling(d)'
    BY <2>1 DEF TypeOK, Note, Dangling
  <2> QED
    BY <2>1, <2>2, Noted DEF TypeOK, Happening
<1>1. TypeOK'
  <2>1. has' \in [Dev -> SUBSET Part] /\ bus' \in {"wq", "idle"}
    BY DEF TypeOK, Lose, Probed
  <2> QED
    BY <1>0, <2>1 DEF TypeOK, BusLabel, ProbeLabel, RemoveLabel, clients, async
<1>2. Places' /\ Parts'
  <2>1. /\ (module = "loading" /\ bus' = "wq") \/ (module = "in" /\ bus' = "idle")
        /\ UNCHANGED <<module, kernel, bound>> /\ cur' = NoDev
    <3>1. module \in {"loading", "in"}
      BY DEF Places, ProbeLabel
    <3> QED
      BY <3>1 DEF Probed
  <2>2. Places'
    BY <1>0, <2>1 DEF Places, ProbeLabel, RemoveLabel
  <2>3. /\ has'[cur] = has[cur] \ {"region", "spi", "mem"}
        /\ \A d \in Dev \ {cur} : has'[d] = has[d]
    BY <1>0 DEF TypeOK, Lose
  <2>4. "list" \notin has[cur] /\ "notif" \notin has[cur]
    BY <1>0 DEF Places, Parts
  <2>5. Parts'
    BY <1>0, <2>1, <2>3, <2>4 DEF Parts, Current, SockLabel
  <2> QED
    BY <2>2, <2>5
<1>3. Files'
  <2>1. \A d \in Dev : /\ "cdev" \in has[d] => "cdev" \in has'[d]
                       /\ d # cur => has'[d] = has[d]
    BY <1>0 DEF TypeOK, Lose
  <2>2. module' \in {"loading", "in"} /\ bus' \notin {"class", "register"}
    BY DEF Places, Probed, ProbeLabel
  <2>3. ASSUME NEW d \in Dev, Opened(d) # {}
        PROVE  "cdev" \in has'[d] /\ ({"text", "mem"} \subseteq has'[d] \/ Dangling(d)')
    BY <1>0, <2>1, <2>3 DEF Files
  <2> QED
    BY <2>2, <2>3, SameFiles
<1>4. Reporters'
  <2>1. \A d \in Dev : has[d] \ {"region", "spi", "mem"} \subseteq has'[d] /\ has'[d] \subseteq has[d]
    BY <1>0 DEF TypeOK, Lose
  <2> QED
    BY <1>0, <2>1, SameReporters DEF Reporters, Current
<1> QED
  BY <1>1, <1>2, <1>3, <1>4

LEMMA UnbindInv == ASSUME IInv, Unbind PROVE IInv'
<1> USE DEF IInv, Unbind, StartRemove
<1>0. /\ story' \in [Dev -> SUBSET Happening]
      /\ \A d \in Dev : Dangling(d) => Dangling(d)'
  BY Noted DEF TypeOK, Happening
<1>c. cur = NoDev /\ NoDev \notin Dev
  BY DevAssumption DEF TypeOK, ProbeLabel, RemoveLabel
<1>1. TypeOK'
  BY <1>0, <1>c DEF TypeOK, BusLabel, ProbeLabel, RemoveLabel, clients, async
<1>2. Places' /\ Parts'
  BY <1>c DEF TypeOK, Places, Parts, Current, ProbeLabel, RemoveLabel, SockLabel
<1>3. Files'
  BY <1>0, SameFiles DEF Files
<1>4. Reporters'
  BY <1>0, <1>c, SameReporters DEF Reporters, Current
<1> QED
  BY <1>1, <1>2, <1>3, <1>4

LEMMA UnloadInv == ASSUME IInv, Unload PROVE IInv'
<1> USE DEF IInv, Unload, StartRemove
<1>0. /\ story' \in [Dev -> SUBSET Happening]
      /\ \A d \in Dev : Dangling(d) => Dangling(d)'
  BY Noted DEF TypeOK, Happening
<1>c. cur = NoDev /\ NoDev \notin Dev
  BY DevAssumption DEF TypeOK, ProbeLabel, RemoveLabel
<1>1. TypeOK'
  BY <1>0, <1>c DEF TypeOK, BusLabel, ProbeLabel, RemoveLabel, clients, async
<1>2. Places' /\ Parts'
  BY <1>c DEF TypeOK, Places, Parts, Current, ProbeLabel, RemoveLabel, SockLabel
<1>3. Files'
  BY <1>0, SameFiles DEF Files
<1>4. Reporters'
  BY <1>0, <1>c, SameReporters DEF Reporters, Current
<1> QED
  BY <1>1, <1>2, <1>3, <1>4

LEMMA RemoveWakeInv == ASSUME IInv, RemoveWake PROVE IInv'
<1> USE DEF IInv, RemoveWake
<1>0. cur \in Dev
  BY DEF TypeOK, ProbeLabel, RemoveLabel
<1>1. TypeOK'
  <2>1. /\ faults' \in 0 .. MaxFault
        /\ has' \in [Dev -> SUBSET Part]
    BY BoundAssumption DEF TypeOK, Gain, Lose, Part
  <2> QED
    BY <1>0, <2>1 DEF TypeOK, BusLabel, ProbeLabel, RemoveLabel, clients, async
<1>2. Places' /\ Parts'
  BY DEF TypeOK, Places, Parts, Current, ProbeLabel, RemoveLabel, SockLabel, Gain, Lose
<1>3. Files'
  <2>1. \A d \in Dev : has[d] \ {"wakelock"} \subseteq has'[d]
    BY DEF TypeOK, Gain, Lose
  <2> QED
    BY <1>0, <2>1, SameFiles DEF TypeOK, Places, Files, Dangling, ProbeLabel, RemoveLabel
<1>4. Reporters'
  <2>1. \A d \in Dev : has[d] \ {"wakelock"} \subseteq has'[d] /\ ("irq" \in has'[d] => "irq" \in has[d])
    BY <1>0 DEF TypeOK, Gain, Lose
  <2> QED
    BY <1>0, <2>1, SameReporters DEF Reporters, Dangling, Current
<1> QED
  BY <1>1, <1>2, <1>3, <1>4

LEMMA RemoveSpiInv == ASSUME IInv, RemoveSpi PROVE IInv'
<1> USE DEF IInv, RemoveSpi
<1>0. cur \in Dev
  BY DEF TypeOK, ProbeLabel, RemoveLabel
<1>1. TypeOK'
  <2>1. /\ faults' \in 0 .. MaxFault
        /\ has' \in [Dev -> SUBSET Part]
    BY BoundAssumption DEF TypeOK, Gain, Lose, Part
  <2> QED
    BY <1>0, <2>1 DEF TypeOK, BusLabel, ProbeLabel, RemoveLabel, clients, async
<1>2. Places' /\ Parts'
  BY DEF TypeOK, Places, Parts, Current, ProbeLabel, RemoveLabel, SockLabel, Gain, Lose
<1>3. Files'
  <2>1. \A d \in Dev : has[d] \ {"spi"} \subseteq has'[d]
    BY DEF TypeOK, Gain, Lose
  <2> QED
    BY <1>0, <2>1, SameFiles DEF TypeOK, Places, Files, Dangling, ProbeLabel, RemoveLabel
<1>4. Reporters'
  <2>1. \A d \in Dev : has[d] \ {"spi"} \subseteq has'[d] /\ ("irq" \in has'[d] => "irq" \in has[d])
    BY <1>0 DEF TypeOK, Gain, Lose
  <2> QED
    BY <1>0, <2>1, SameReporters DEF Reporters, Dangling, Current
<1> QED
  BY <1>1, <1>2, <1>3, <1>4

LEMMA RemoveNotifInv == ASSUME IInv, RemoveNotif PROVE IInv'
<1> USE DEF IInv, RemoveNotif
<1>0. cur \in Dev
  BY DEF TypeOK, ProbeLabel, RemoveLabel
<1>1. TypeOK'
  <2>1. /\ faults' \in 0 .. MaxFault
        /\ has' \in [Dev -> SUBSET Part]
    BY BoundAssumption DEF TypeOK, Gain, Lose, Part
  <2> QED
    BY <1>0, <2>1 DEF TypeOK, BusLabel, ProbeLabel, RemoveLabel, clients, async
<1>2. Places' /\ Parts'
  BY DEF TypeOK, Places, Parts, Current, ProbeLabel, RemoveLabel, SockLabel, Gain, Lose
<1>3. Files'
  <2>1. \A d \in Dev : has[d] \ {"notif"} \subseteq has'[d]
    BY DEF TypeOK, Gain, Lose
  <2> QED
    BY <1>0, <2>1, SameFiles DEF TypeOK, Places, Files, Dangling, ProbeLabel, RemoveLabel
<1>4. Reporters'
  <2>1. \A d \in Dev : has[d] \ {"notif"} \subseteq has'[d] /\ ("irq" \in has'[d] => "irq" \in has[d])
    BY <1>0 DEF TypeOK, Gain, Lose
  <2> QED
    BY <1>0, <2>1, SameReporters DEF Reporters, Dangling, Current
<1> QED
  BY <1>1, <1>2, <1>3, <1>4

LEMMA RemoveWqInv == ASSUME IInv, RemoveWq PROVE IInv'
<1> USE DEF IInv, RemoveWq
<1>0. cur \in Dev
  BY DEF TypeOK, ProbeLabel, RemoveLabel
<1>1. TypeOK'
  <2>1. /\ faults' \in 0 .. MaxFault
        /\ has' \in [Dev -> SUBSET Part]
    BY BoundAssumption DEF TypeOK, Gain, Lose, Part
  <2> QED
    BY <1>0, <2>1 DEF TypeOK, BusLabel, ProbeLabel, RemoveLabel, clients, async
<1>2. Places' /\ Parts'
  BY DEF TypeOK, Places, Parts, Current, ProbeLabel, RemoveLabel, SockLabel, Gain, Lose
<1>3. Files'
  <2>1. \A d \in Dev : has[d] \ {"none"} \subseteq has'[d]
    BY DEF TypeOK, Gain, Lose
  <2> QED
    BY <1>0, <2>1, SameFiles DEF TypeOK, Places, Files, Dangling, ProbeLabel, RemoveLabel
<1>4. Reporters'
  <2>1. \A d \in Dev : Works(d) => "wq" \notin kernel
    BY DEF Works
  <2> QED
    BY <2>1, SameReporters DEF Reporters, Dangling
<1> QED
  BY <1>1, <1>2, <1>3, <1>4

LEMMA RemoveSockInv == ASSUME IInv, RemoveSock PROVE IInv'
<1> USE DEF IInv, RemoveSock
<1>0. cur \in Dev
  BY DEF TypeOK, ProbeLabel, RemoveLabel
<1>1. TypeOK'
  <2>1. /\ faults' \in 0 .. MaxFault
        /\ has' \in [Dev -> SUBSET Part]
    BY BoundAssumption DEF TypeOK, Gain, Lose, Part
  <2> QED
    BY <1>0, <2>1 DEF TypeOK, BusLabel, ProbeLabel, RemoveLabel, clients, async
<1>2. Places' /\ Parts'
  BY DEF TypeOK, Places, Parts, Current, ProbeLabel, RemoveLabel, SockLabel, Gain, Lose
<1>3. Files'
  <2>1. \A d \in Dev : has[d] \ {"sock"} \subseteq has'[d]
    BY DEF TypeOK, Gain, Lose
  <2> QED
    BY <1>0, <2>1, SameFiles DEF TypeOK, Places, Files, Dangling, ProbeLabel, RemoveLabel
<1>4. Reporters'
  <2>1. \A d \in Dev : has[d] \ {"sock"} \subseteq has'[d] /\ has'[d] \subseteq has[d]
    BY <1>0 DEF TypeOK, Lose
  <2>2. "wq" \notin kernel /\ UNCHANGED <<kernel, async, story>>
    BY DEF Places
  <2> QED
    BY <2>1, <2>2, SameReporters DEF Reporters, Dangling
<1> QED
  BY <1>1, <1>2, <1>3, <1>4

(* A device without users has no open files.                                *)
LEMMA Counted ==
  ASSUME NEW d \in Dev, Files
  PROVE  /\ IsFiniteSet(Opened(d)) /\ users[d] \in 0 .. Cardinality(Client)
         /\ users[d] = 0 => Opened(d) = {}
<1>1. Opened(d) \subseteq Client
  BY DEF Opened
<1>2. /\ IsFiniteSet(Opened(d)) /\ Cardinality(Opened(d)) <= Cardinality(Client)
      /\ Cardinality(Opened(d)) \in Nat /\ Cardinality(Client) \in Nat
  BY <1>1, FS_Subset, FS_CardinalityType, DevAssumption
<1>3. Cardinality(Opened(d)) = 0 => Opened(d) = {}
  BY <1>2, FS_EmptySet
<1> QED
  BY <1>2, <1>3 DEF Files

LEMMA CountedNext ==
  ASSUME Files' PROVE \A d \in Dev : users'[d] \in 0 .. Cardinality(Client)
<1> SUFFICES ASSUME NEW d \in Dev PROVE users'[d] \in 0 .. Cardinality(Client)
  OBVIOUS
<1>1. Opened(d)' \subseteq Client
  BY DEF Opened
<1>2. /\ Cardinality(Opened(d)') <= Cardinality(Client)
      /\ Cardinality(Opened(d)') \in Nat /\ Cardinality(Client) \in Nat
  BY <1>1, FS_Subset, FS_CardinalityType, DevAssumption
<1> QED
  BY <1>2 DEF Files

LEMMA RemoveListInv == ASSUME IInv, RemoveList PROVE IInv'
<1> USE DEF IInv, RemoveList, Removed
<1>0. /\ cur \in Dev /\ bound = NoDev /\ NoDev \notin Dev
      /\ story' \in [Dev -> SUBSET Happening]
      /\ \A d \in Dev : Dangling(d) => Dangling(d)'
  BY Noted, DevAssumption DEF TypeOK, Places, ProbeLabel, RemoveLabel, Happening
<1>1. /\ module \in {"in", "leaving"} /\ "wq" \notin kernel
      /\ bus' = (IF module = "leaving" THEN "unload" ELSE "idle")
      /\ UNCHANGED <<module, kernel, bound, async, users, clients>> /\ cur' = NoDev
  BY DEF Places, RemoveLabel
<1>2. /\ has' \in [Dev -> SUBSET Part]
      /\ \A d \in Dev : has[d] \ {"list", "node", "mem"} \subseteq has'[d] /\ has'[d] \subseteq has[d]
      /\ \A d \in Dev : d # cur \/ users[d] > 0 => has[d] \ {"list", "node"} \subseteq has'[d]
      /\ "list" \notin has'[cur]
  <2>1. \A d \in Dev : users[d] \in Nat
    BY DEF TypeOK
  <2> QED
    BY <1>0, <2>1 DEF TypeOK, Lose
<1>3. TypeOK'
  BY <1>0, <1>1, <1>2 DEF TypeOK, BusLabel, ProbeLabel, RemoveLabel, clients, async
<1>4. Places'
  BY <1>0, <1>1 DEF Places, ProbeLabel, RemoveLabel
<1>5. Parts'
  <2>1. "notif" \notin has[cur] /\ \A d \in Dev : d # cur => "list" \notin has[d]
    BY <1>0 DEF Parts, Current
  <2>2. bus' \in {"idle", "unload"}
    BY <1>1
  <2> QED
    BY <1>0, <1>1, <1>2, <2>1, <2>2 DEF Parts, Current, SockLabel
<1>6. Files'
  <2>1. ASSUME NEW d \in Dev, Opened(d) # {}
        PROVE  /\ "cdev" \in has'[d]
               /\ {"text", "mem"} \subseteq has'[d] \/ Dangling(d)'
               /\ module \in {"loading", "in"}
    <3>1. users[d] > 0
      BY <2>1, Counted DEF TypeOK
    <3> QED
      BY <1>0, <1>2, <2>1, <3>1 DEF Files
  <2> QED
    BY <1>1, <2>1, SameFiles
<1>7. Reporters'
  BY <1>0, <1>1, <1>2, SameReporters DEF Reporters
<1> QED
  BY <1>3, <1>4, <1>5, <1>6, <1>7

LEMMA UnloadedInv == ASSUME IInv, Unloaded PROVE IInv'
<1> USE DEF IInv, Unloaded
<1>0. /\ cur = NoDev /\ bound = NoDev /\ NoDev \notin Dev /\ module = "leaving"
  BY DevAssumption DEF TypeOK, Places, ProbeLabel, RemoveLabel
<1>1. \A d \in Dev : has'[d] = has[d] \ {"text"}
  OBVIOUS
<1>2. TypeOK'
  BY <1>0, <1>1 DEF TypeOK, BusLabel, ProbeLabel, RemoveLabel, clients, async
<1>3. Places' /\ Parts'
  BY <1>0, <1>1 DEF Places, Parts, Current, ProbeLabel, RemoveLabel, SockLabel
<1>4. Files'
  BY <1>0, SameFiles DEF Files
<1>5. Reporters'
  BY <1>0, <1>1, SameReporters DEF Reporters, Current, Dangling
<1> QED
  BY <1>2, <1>3, <1>4, <1>5

-----------------------------------------------------------------------------
(* The clients.  Of the parts of a device they change only the interrupt    *)
(* line.                                                                    *)
LEMMA SameOwner ==
  ASSUME Places, Parts, UNCHANGED owner, \A d \in Dev : has'[d] \ {"irq"} = has[d] \ {"irq"}
  PROVE  Places' /\ Parts'
BY DEF Places, Parts, Current, owner

(* A call by an open file leaves the files as they are.                     *)
LEMMA CallFiles ==
  ASSUME Files, UNCHANGED <<owner, users, fd, story>>,
         \A d \in Dev : has'[d] \ {"irq"} = has[d] \ {"irq"},
         \A c \in Client : pc'[c] \in {"closed", "open"} <=> pc[c] \in {"closed", "open"}
  PROVE  Files'
<1>1. \A d \in Dev : Opened(d)' = Opened(d)
  BY DEF Opened
<1> QED
  BY <1>1 DEF Files, Dangling, owner

LEMMA CallTyped ==
  ASSUME TypeOK, UNCHANGED <<owner, users, async, story, fd>>,
         has' \in [Dev -> SUBSET Part], init' \in [Dev -> 0 .. MaxInit],
         faults' \in 0 .. MaxFault, pc' \in [Client -> ClientLabel],
         \A c \in Client : pc'[c] = "closed" <=> pc[c] = "closed"
  PROVE  TypeOK'
BY DEF TypeOK, owner, async

LEMMA OpenDev ==
  ASSUME TypeOK, Files, NEW c \in Client, pc[c] \notin {"closed", "open"}
  PROVE  fd[c] \in Dev /\ "cdev" \in has[fd[c]]
<1>1. fd[c] \in Dev
  BY DEF TypeOK
<1>2. Opened(fd[c]) # {}
  BY DEF Opened
<1> QED
  BY <1>1, <1>2 DEF Files

LEMMA IoctlInv == ASSUME IInv, NEW c \in Client, Ioctl(c) PROVE IInv'
<1> USE DEF IInv
<1>1. pc[c] \notin {"closed", "open"} /\ fd[c] \in Dev /\ "cdev" \in has[fd[c]]
  BY OpenDev DEF Ioctl, Initialise, InitDt, Deinit, FreeIrq, Ask, Send, Calls
<1>2. /\ UNCHANGED <<owner, users, async, story, fd>>
      /\ \E l \in {"idle", "init_dt", "free_irq", "send"} : pc' = [pc EXCEPT ![c] = l] \/ UNCHANGED pc
  BY DEF Ioctl, Initialise, InitDt, Deinit, FreeIrq, Ask, Send, GoClient, Sends, clients
<1>3. /\ has' \in [Dev -> SUBSET Part] /\ \A d \in Dev : has'[d] \ {"irq"} = has[d] \ {"irq"}
      /\ \A d \in Dev : "irq" \in has'[d] => "cdev" \in has[d]
  BY <1>1 DEF TypeOK, Part, Reporters, Ioctl, Initialise, InitDt, Deinit, FreeIrq, Ask, Send, Gain, Lose
<1>4. init' \in [Dev -> 0 .. MaxInit]
  <2>1. CASE Initialise(c)
    BY <1>1, <2>1, BoundAssumption DEF TypeOK, Initialise
  <2>2. CASE InitDt(c)
    BY <1>1, <2>2, BoundAssumption DEF TypeOK, InitDt
  <2>3. CASE Deinit(c)
    BY <1>1, <2>3, BoundAssumption DEF TypeOK, Deinit
  <2> QED
    BY <2>1, <2>2, <2>3 DEF TypeOK, Ioctl, FreeIrq, Ask, Send
<1>5. faults' \in 0 .. MaxFault
  BY BoundAssumption DEF TypeOK, Ioctl, Initialise, InitDt, Deinit, FreeIrq, Ask, Send, Fault
<1>6. /\ pc' \in [Client -> ClientLabel]
      /\ \A b \in Client : pc'[b] \in {"closed", "open"} <=> pc[b] \in {"closed", "open"}
      /\ \A b \in Client : pc'[b] = "closed" <=> pc[b] = "closed"
  BY <1>1, <1>2 DEF TypeOK, ClientLabel
<1>7. TypeOK'
  BY <1>2, <1>3, <1>4, <1>5, <1>6, CallTyped
<1>8. Places' /\ Parts' /\ Files'
  BY <1>2, <1>3, <1>6, SameOwner, CallFiles
<1>9. Reporters'
  BY <1>2, <1>3, SameReporters DEF Reporters, Dangling, Current, owner
<1> QED
  BY <1>7, <1>8, <1>9

LEMMA LookupInv ==
  ASSUME IInv, NEW c \in Client, NEW d \in Dev, Lookup(c, d) PROVE IInv'
<1> USE DEF IInv, Lookup
<1>1. \A e \in Dev : Opened(e)' = Opened(e)
  BY DEF TypeOK, Opened
<1>2. TypeOK'
  BY DevAssumption DEF TypeOK, ClientLabel, owner, async
<1>3. Places' /\ Parts'
  BY SameOwner
<1>4. Files'
  BY <1>1 DEF Files, Dangling, owner
<1>5. Reporters'
  BY SameReporters DEF Reporters, Dangling, Current, owner
<1> QED
  BY <1>2, <1>3, <1>4, <1>5

LEMMA OpenInv == ASSUME IInv, NEW c \in Client, Open(c) PROVE IInv'
<1> USE DEF IInv, Open
<1>0. fd[c] \in Dev /\ NoDev \notin Dev
  BY DevAssumption DEF TypeOK
<1>1. Places' /\ Parts'
  BY SameOwner
<1>2. CASE Closed(c) /\ UNCHANGED <<users, story>>
  <2>1. \A e \in Dev : Opened(e)' = Opened(e)
    BY <1>0, <1>2 DEF TypeOK, Opened, Closed
  <2>2. TypeOK'
    BY <1>2 DEF TypeOK, Closed, ClientLabel, owner, async
  <2>3. Files'
    BY <1>2, <2>1 DEF Files, Dangling, owner
  <2>4. Reporters'
    BY <1>2, SameReporters DEF Reporters, Dangling, Current, owner
  <2> QED
    BY <1>1, <2>2, <2>3, <2>4
<1>3. CASE /\ Finds("open", fd[c]) /\ {"cdev", "list"} \subseteq has[fd[c]]
           /\ module \in {"loading", "in"} /\ OpenFound(c, fd[c])
  <2>1. /\ Opened(fd[c])' = Opened(fd[c]) \cup {c} /\ c \notin Opened(fd[c])
        /\ \A e \in Dev : e # fd[c] => Opened(e)' = Opened(e)
    BY <1>0, <1>3 DEF TypeOK, Opened, OpenFound, GoClient
  <2>2. Cardinality(Opened(fd[c]) \cup {c}) = users[fd[c]] + 1
    <3>1. IsFiniteSet(Opened(fd[c])) /\ Cardinality(Opened(fd[c])) = users[fd[c]]
      BY <1>0, Counted DEF Files
    <3> QED
      BY <2>1, <3>1, FS_AddElement
  <2>3. /\ story' \in [Dev -> SUBSET Happening]
        /\ \A d \in Dev : Dangling(d) => Dangling(d)'
    BY <1>0, <1>3, Noted DEF TypeOK, OpenFound, OpenedWhen, Happening
  <2>4. {"text", "mem"} \subseteq has[fd[c]]
    BY <1>3 DEF Finds, Needs
  <2>5. bus \notin {"class", "register"}
    BY <1>0, <1>3 DEF TypeOK, Places, Parts, Current, ProbeLabel, RemoveLabel
  <2>6. Files'
    <3>1. \A d \in Dev : users'[d] = IF d = fd[c] THEN users[d] + 1 ELSE users[d]
      BY <1>0, <1>3 DEF TypeOK, OpenFound
    <3>2. UNCHANGED <<has, module, bus, fd>>
      BY <1>3 DEF OpenFound, GoClient, owner
    <3>3. ASSUME NEW d \in Dev PROVE users'[d] = Cardinality(Opened(d)')
      BY <1>0, <2>1, <2>2, <3>1, <3>2 DEF Files
    <3>4. ASSUME NEW d \in Dev, Opened(d)' # {}
          PROVE  /\ "cdev" \in has[d] /\ ({"text", "mem"} \subseteq has[d] \/ Dangling(d)')
                 /\ module \in {"loading", "in"}
      BY <1>3, <2>1, <2>3, <2>4, <3>4 DEF Files
    <3> QED
      BY <2>5, <3>2, <3>3, <3>4 DEF Files
  <2>7. TypeOK'
    <3>1. \A d \in Dev : users'[d] \in 0 .. Cardinality(Client)
      BY <2>6, CountedNext
    <3> QED
      BY <1>0, <1>3, <2>3, <3>1 DEF TypeOK, OpenFound, GoClient, ClientLabel, owner, async
  <2>8. Reporters'
    BY <2>3, SameReporters DEF Reporters, Current, owner
  <2> QED
    BY <1>1, <2>6, <2>7, <2>8
<1> QED
  BY <1>2, <1>3

LEMMA CloseInv == ASSUME IInv, NEW c \in Client, Close(c) PROVE IInv'
<1> USE DEF IInv, Close
<1>0. fd[c] \in Dev /\ NoDev \notin Dev
  BY DevAssumption DEF TypeOK
<1>1. Places' /\ Parts'
  BY SameOwner
<1>2. /\ \A d \in Dev : d = fd[c] => Opened(d)' = Opened(d) \ {c} /\ c \in Opened(d)
      /\ \A d \in Dev : d # fd[c] => Opened(d)' = Opened(d)
  BY <1>0 DEF TypeOK, Opened, Closed
<1>3. Cardinality(Opened(fd[c]) \ {c}) = users[fd[c]] - 1
  BY <1>0, <1>2, Counted, FS_RemoveElement DEF Files
<1>4. Files'
  <2>1. \A d \in Dev : users'[d] = IF d = fd[c] THEN users[d] - 1 ELSE users[d]
    BY <1>0 DEF TypeOK
  <2>2. \A d \in Dev : users'[d] = Cardinality(Opened(d)')
    BY <1>0, <1>2, <1>3, <2>1 DEF Files
  <2> QED
    BY <1>2, <2>2 DEF Files, Dangling, owner
<1>5. TypeOK'
  <2>1. \A d \in Dev : users'[d] \in 0 .. Cardinality(Client)
    BY <1>4, CountedNext
  <2> QED
    BY <1>0, <2>1 DEF TypeOK, Closed, ClientLabel, owner, async
<1>6. Reporters'
  BY SameReporters DEF Reporters, Dangling, Current, owner
<1> QED
  BY <1>1, <1>4, <1>5, <1>6

-----------------------------------------------------------------------------
(* The handler, the work queue and the notifier.                            *)
LEMMA AsyncOther ==
  ASSUME TypeOK, Places, Parts, Files, UNCHANGED <<owner, has, users, init, clients, faults, story>>,
         hirq' \in Actor(HandlerLabel), queued' \subseteq Dev,
         worker' \in Actor(ReporterLabel), notifier' \in Actor(ReporterLabel)
  PROVE  TypeOK' /\ Places' /\ Parts' /\ Files'
<1>1. TypeOK'
  BY DEF TypeOK, owner, clients
<1>2. Places' /\ Parts'
  BY SameOwner
<1>3. Files'
  BY DEF Files, Opened, Dangling, owner, clients
<1> QED
  BY <1>1, <1>2, <1>3

LEMMA Labels ==
  /\ \A d \in Dev : /\ At("wake", d) \in Actor(HandlerLabel) /\ At("queue", d) \in Actor(HandlerLabel)
                    /\ At("check", d) \in Actor(ReporterLabel) /\ At("send", d) \in Actor(ReporterLabel)
  /\ \A d : /\ At("wake", d) # Idle /\ At("queue", d) # Idle
            /\ At("check", d) # Idle /\ At("send", d) # Idle
  /\ Idle \in Actor(HandlerLabel) /\ Idle \in Actor(ReporterLabel)
  /\ \A a \in Actor(HandlerLabel) \cup Actor(ReporterLabel) : a # Idle => a.dev \in Dev
  /\ Idle.at = "idle"
  /\ \A l, d : At(l, d).at = l /\ At(l, d).dev = d
BY DEF Actor, At, Idle, HandlerLabel, ReporterLabel

LEMMA HandlerInv == ASSUME IInv, Handler PROVE IInv'
<1> USE DEF IInv
<1>1. hirq \in Actor(HandlerLabel) /\ (hirq # Idle => hirq.dev \in Dev)
  BY Labels DEF TypeOK
<1>2. ASSUME NEW d \in Dev, Interrupt(d) PROVE IInv'
  <2>1. TypeOK' /\ Places' /\ Parts' /\ Files'
    BY <1>2, AsyncOther, Labels DEF Interrupt, TypeOK
  <2>2. Reporters'
    BY <1>2, Labels DEF Interrupt, Reporters, Works, Dangling, Current, owner
  <2> QED
    BY <2>1, <2>2
<1>3. CASE HandlerWake
  <2>1. hirq # Idle
    BY <1>3, Labels DEF HandlerWake
  <2>2. TypeOK' /\ Places' /\ Parts' /\ Files'
    BY <1>1, <1>3, <2>1, AsyncOther, Labels DEF HandlerWake, TypeOK
  <2>3. Reporters'
    BY <1>1, <1>3, <2>1, Labels DEF HandlerWake, Reporters, Works, Dangling, Current, owner
  <2> QED
    BY <2>2, <2>3
<1>4. CASE HandlerQueue
  <2>1. hirq # Idle
    BY <1>4, Labels DEF HandlerQueue
  <2>2. TypeOK' /\ Places' /\ Parts' /\ Files'
    BY <1>1, <1>4, <2>1, AsyncOther, Labels DEF HandlerQueue, TypeOK
  <2>3. Current(hirq.dev) /\ "cdev" \in has[hirq.dev] /\ "wq" \in kernel
    BY <1>1, <1>4, <2>1 DEF HandlerQueue, Finds, Needs, Parts, Reporters
  <2>4. \A d \in Dev : Works(d)' => Works(d) \/ d = hirq.dev
    BY <1>4 DEF HandlerQueue, Works
  <2>5. Reporters'
    BY <1>4, <2>3, <2>4 DEF HandlerQueue, Reporters, Dangling, Current, owner
  <2> QED
    BY <2>2, <2>5
<1> QED
  BY <1>2, <1>3, <1>4 DEF Handler

LEMMA ReporterInv == ASSUME IInv, Reporter PROVE IInv'
<1> USE DEF IInv
<1>1. /\ worker \in Actor(ReporterLabel) /\ (worker # Idle => worker.dev \in Dev)
      /\ notifier \in Actor(ReporterLabel) /\ (notifier # Idle => notifier.dev \in Dev)
  BY Labels DEF TypeOK
<1>2. ASSUME NEW d \in Dev, WorkStart(d) PROVE IInv'
  <2>1. TypeOK' /\ Places' /\ Parts' /\ Files'
    BY <1>2, AsyncOther, Labels DEF WorkStart, TypeOK
  <2>2. \A e \in Dev : Works(e)' => Works(e)
    BY <1>2, Labels DEF WorkStart, Works
  <2>3. worker'.at = "check"
    BY <1>2, Labels DEF WorkStart
  <2>4. Reporters'
    BY <1>2, <2>2, <2>3 DEF WorkStart, Reporters, Dangling, Current, owner
  <2> QED
    BY <2>1, <2>4
<1>3. CASE WorkStep
  <2>1. worker' = Idle \/ (worker' = At("send", worker.dev) /\ "sock" \in has[worker.dev])
    BY <1>3 DEF WorkStep, Reported
  <2>2. TypeOK' /\ Places' /\ Parts' /\ Files'
    BY <1>1, <1>3, <2>1, AsyncOther, Labels DEF WorkStep, TypeOK
  <2>3. \A e \in Dev : Works(e)' => Works(e)
    BY <1>3, <2>1, Labels DEF WorkStep, Works
  <2>4. worker'.at = "send" => "sock" \in has[worker'.dev]
    BY <2>1, Labels
  <2>5. Reporters'
    BY <1>3, <2>3, <2>4 DEF WorkStep, Reporters, Dangling, Current, owner
  <2> QED
    BY <2>2, <2>5
<1>4. ASSUME NEW d \in Dev, Screen(d) PROVE IInv'
  <2>1. TypeOK' /\ Places' /\ Parts' /\ Files'
    BY <1>4, AsyncOther, Labels DEF Screen, TypeOK
  <2>2. Reporters'
    BY <1>4, Labels DEF Screen, Reporters, Works, Dangling, Current, owner
  <2> QED
    BY <2>1, <2>2
<1>5. CASE ScreenStep
  <2>1. notifier' = Idle \/ notifier' = At("send", notifier.dev)
    BY <1>5 DEF ScreenStep, Reported
  <2>2. TypeOK' /\ Places' /\ Parts' /\ Files'
    BY <1>1, <1>5, <2>1, AsyncOther, Labels DEF ScreenStep, TypeOK
  <2>3. Reporters'
    BY <1>5, <2>1, Labels DEF ScreenStep, Reporters, Works, Dangling, Current, owner
  <2> QED
    BY <2>2, <2>3
<1> QED
  BY <1>2, <1>3, <1>4, <1>5 DEF Reporter

-----------------------------------------------------------------------------
LEMMA NextInv == ASSUME IInv, [Next]_vars PROVE IInv'
<1>1. CASE ModuleInit \/ Probing
  BY <1>1, LoadInv, CreateClassInv, RegisterInv, CreateWqInv, BindInv, ProbeInv, AllocDevtInv,
     DeviceNodeInv, CdevAddInv, ClearInitInv, NetlinkInitInv, FbRegisterInv, ErrListInv, ErrFreeInv
     DEF ModuleInit, Probing
<1>2. CASE Removing \/ Leaving
  BY <1>2, RemoveWakeInv, RemoveSpiInv, RemoveNotifInv, RemoveWqInv, RemoveSockInv, RemoveListInv,
     UnbindInv, UnloadInv, UnloadedInv DEF Removing, Leaving
<1>3. ASSUME NEW c \in Client, Ioctl(c) \/ File(c) PROVE IInv'
  BY <1>3, IoctlInv, LookupInv, OpenInv, CloseInv DEF File
<1>4. CASE UNCHANGED vars
  <2>1. TypeOK' /\ Places' /\ Parts' /\ Files'
    BY <1>4, AsyncOther DEF vars, async, IInv, TypeOK
  <2>2. Reporters'
    BY <1>4, SameReporters DEF vars, IInv, Reporters, Dangling, Current, owner
  <2> QED
    BY <2>1, <2>2 DEF IInv
<1> QED
  BY <1>1, <1>2, <1>3, <1>4, HandlerInv, ReporterInv DEF Next

LEMMA Inductive == Spec => []IInv
<1>1. Init => IInv
  BY InitInv
<1>2. IInv /\ [Next]_vars => IInv'
  BY NextInv
<1> QED
  BY <1>1, <1>2, PTL DEF Spec

(* Types of all variables.                                                  *)
THEOREM TypeCorrect == Spec => []TypeOK
<1>1. IInv => TypeOK
  BY DEF IInv
<1> QED
  BY <1>1, Inductive, PTL

(* silfp_remove never frees a device under an open file, and users counts   *)
(* the open files; only an open before the end of a failed probe escapes.   *)
THEOREM MemoryStays == Spec => []MemoryWhileOpen
<1>1. IInv => MemoryWhileOpen
  BY DEF IInv, Files, MemoryWhileOpen
<1> QED
  BY <1>1, Inductive, PTL

(* silfp_work_func and silfp_fb_callback find their device and its socket,  *)
(* whenever the device is removed.                                          *)
THEOREM ReportersAlwaysSafe == Spec => []ReportersSafe
<1>1. IInv => ReportersSafe
  <2> SUFFICES ASSUME IInv, NEW r \in {worker, notifier} \ {Idle}, ~Dangling(r.dev)
               PROVE  Finds(r.at, r.dev)
    BY DEF ReportersSafe
  <2>1. r.dev \in Dev /\ r.at \in {"check", "send"}
    BY Labels DEF IInv, TypeOK, Actor, ReporterLabel
  <2>2. Current(r.dev) /\ {"text", "mem"} \subseteq has[r.dev]
    <3>1. CASE r = worker
      BY <2>1, <3>1 DEF IInv, Reporters, Works, Parts
    <3>2. CASE r = notifier
      BY <2>1, <3>2 DEF IInv, Reporters, Parts, Current
    <3> QED
      BY <3>1, <3>2
  <2>3. r.at = "send" => "sock" \in has[r.dev]
    <3>1. CASE r = worker
      BY <3>1 DEF IInv, Reporters
    <3>2. CASE r = notifier
      BY <2>1, <3>2 DEF IInv, Reporters, Parts, SockLabel
    <3> QED
      BY <3>1, <3>2
  <2> QED
    BY <2>1, <2>2, <2>3 DEF Finds, Needs
<1> QED
  BY <1>1, Inductive, PTL
-----------------------------------------------------------------------------
(* What follows is for the two invariants about the parts themselves: that  *)
(* a device in use is whole, and what is left of it in the end.             *)

(* What module init holds.  A work queue outlives the devices only if the   *)
(* probe of the first one failed.                                           *)
KernelParts ==
  /\ module = "out" \/ bus = "class" => kernel \cap {"class", "driver", "wq"} = {}
  /\ bus = "register" => "driver" \notin kernel
  /\ module = "loading" => "wq" \notin kernel
  /\ bus \in {"err_list", "err_free"} => faults > 0
  /\ "lost_wq" \in kernel \/ (bus = "wq" /\ bound = NoDev) => faults > 0
  /\ "wq" \in kernel /\ bound = NoDev /\ bus \in {"idle", "probe", "unload"} \cup ProbeLabel
       => faults > 0

(* What is left of a device that was removed, or whose probe failed.        *)
Left(d) ==
  {"text", "cdev"}
  \cup (IF "failed" \in story[d] THEN {"node", "wakelock"} ELSE {"region"})
  \cup (IF "late" \in story[d] THEN {"mem", "irq"} ELSE {})
  \cup (IF "early" \in story[d] THEN {"irq"} ELSE {})

InProbe(d) == d = cur /\ bus \in ProbeLabel

Stage(d) ==
  /\ d = bound \/ InProbe(d) => {"spi", "wakelock"} \subseteq has[d]
  /\ InProbe(d) /\ bus # "notif" => "sock" \notin has[d]
  /\ d = cur /\ bus \in RemoveLabel \ {"r_wake"} => "wakelock" \notin has[d]
  /\ d = cur /\ bus \in RemoveLabel \ {"r_wake", "r_spi"} => "spi" \notin has[d]
  /\ d = cur /\ bus = "r_list" => "sock" \notin has[d]
  /\ ~Current(d) => has[d] \subseteq Left(d)
  /\ "failed" \in story[d] => "wakelock" \in has[d] /\ ~Current(d)

Stages == \A d \in Dev : Stage(d)

(* What is noted of a device: whoever uses one that is not bound came early *)
(* or stayed late, and the line is requested for someone.                   *)
Odd(d) == {"late", "early"} \cap story[d] # {}
Freeing(d)  == \E c \in Client : pc[c] = "free_irq" /\ fd[c] = d
Entering(d) == \E c \in Client : pc[c] = "open" /\ fd[c] = d

Tale(d) ==
  /\ Opened(d) # {} \/ init[d] > 0 \/ "irq" \in has[d] => d = bound \/ Odd(d)
  /\ InProbe(d) /\ (Opened(d) # {} \/ "irq" \in has[d]) => "early" \in story[d]
  /\ "irq" \in has[d] => init[d] > 0 \/ Freeing(d) \/ "early" \in story[d]
  /\ "failed" \in story[d] /\ "cdev" \in has[d] => "early" \in story[d]
  /\ module = "in" /\ (d = bound \/ InProbe(d)) => "wq" \in kernel \/ "no_queue" \in story[d]
  /\ "cdev" \in has[d] /\ Entering(d) => Current(d) \/ "late" \in story[d] \/ Dangling(d)
  /\ Opened(d) # {} => d = bound \/ InProbe(d) \/ "late" \in story[d] \/ Dangling(d)

Notes == \A d \in Dev : Tale(d)

Line == hirq # Idle => "irq" \in has[hirq.dev]

(* A client that has seen the socket still finds it.                        *)
Socket(c) ==
  pc[c] = "send" =>
    "sock" \in has[fd[c]] \/ "late" \in story[fd[c]] \/ Dangling(fd[c])
Sockets == \A c \in Client : Socket(c)

WInv == KernelParts /\ Stages /\ Notes /\ Line /\ Sockets

(* While no client moves, nothing about the files changes.                  *)
LEMMA Quiet ==
  ASSUME UNCHANGED clients, NEW d \in Dev
  PROVE  /\ Opened(d)' = Opened(d)
         /\ Freeing(d)' <=> Freeing(d)
         /\ Entering(d)' <=> Entering(d)
<1> USE DEF clients
<1>1. Opened(d)' = Opened(d)
  BY DEF Opened
<1>2. Freeing(d)' <=> Freeing(d)
  BY DEF Freeing
<1>3. Entering(d)' <=> Entering(d)
  BY DEF Entering
<1> QED
  BY <1>1, <1>2, <1>3

(* The line of the handler that runs is not given back.                     *)
LEMMA SameLine ==
  ASSUME TypeOK, Line, UNCHANGED async, \A d \in Dev : "irq" \in has[d] => "irq" \in has'[d]
  PROVE  Line'
<1>1. hirq # Idle => hirq.dev \in Dev
  BY DEF TypeOK, Actor, Idle, At
<1> QED
  BY <1>1 DEF Line, async

(* While no client moves, only a socket that is given back matters.         *)
LEMMA SameSockets ==
  ASSUME TypeOK, Sockets, UNCHANGED clients,
         \A d \in Dev : "sock" \in has[d] => "sock" \in has'[d],
         \A d \in Dev : story[d] \subseteq story'[d]
  PROVE  Sockets'
<1> USE DEF clients
<1> SUFFICES ASSUME NEW c \in Client, pc[c] = "send" PROVE Socket(c)'
  BY DEF Sockets, Socket
<1>1. fd[c] \in Dev
  BY DEF TypeOK
<1> QED
  BY <1>1 DEF Sockets, Socket, Dangling

(* A device that the bus has nothing to do with.                            *)
LEMMA Elsewhere ==
  ASSUME NEW d \in Dev, d \notin {cur, bound, cur', bound'}, Stage(d), Tale(d),
         UNCHANGED <<clients, init>>, has'[d] = has[d], story'[d] = story[d]
  PROVE  Stage(d)' /\ Tale(d)'
<1>1. Stage(d)'
  BY DEF Stage, Left, Current, InProbe
<1>2. Tale(d)'
  BY Quiet DEF Tale, Odd, Dangling, Current, InProbe
<1> QED
  BY <1>1, <1>2

LEMMA InitWhole == Init => WInv
<1> SUFFICES ASSUME Init PROVE WInv
  OBVIOUS
<1> USE DEF Init
<1>1. \A d \in Dev : Opened(d) = {}
  BY DEF Opened
<1>2. KernelParts /\ Stages /\ Line
  BY DevAssumption DEF KernelParts, Stages, Stage, Line, Current, InProbe, ProbeLabel, RemoveLabel
<1>3. Notes
  BY <1>1, DevAssumption DEF Notes, Tale, Current, InProbe, Entering
<1>4. Sockets
  BY DEF Sockets, Socket
<1> QED
  BY <1>2, <1>3, <1>4 DEF WInv

LEMMA ModuleWhole ==
  ASSUME IInv, WInv, Load \/ CreateClass \/ Register \/ Bind \/ Unloaded PROVE WInv'
<1>0. /\ UNCHANGED <<cur, bound, init, story, async>> /\ UNCHANGED clients
      /\ cur = NoDev /\ bound = NoDev /\ NoDev \notin Dev /\ faults \in Nat
      /\ faults' = faults \/ faults' > 0
  BY DevAssumption
     DEF IInv, TypeOK, Places, ProbeLabel, RemoveLabel, Load, CreateClass, Register, Bind, Unloaded, Fault
<1>1. \A d \in Dev : has'[d] = has[d] \/ has'[d] = has[d] \ {"text"}
  BY DEF Load, CreateClass, Register, Bind, Unloaded
<1>2. KernelParts'
  <2>1. CASE Load
    BY <1>0, <2>1 DEF WInv, KernelParts, Load, ProbeLabel
  <2>2. CASE CreateClass
    BY <1>0, <2>2 DEF IInv, Places, WInv, KernelParts, CreateClass, ProbeLabel
  <2>3. CASE Register
    BY <1>0, <2>3 DEF IInv, Places, WInv, KernelParts, Register, ProbeLabel
  <2>4. CASE Bind
    BY <1>0, <2>4 DEF WInv, KernelParts, Bind, ProbeLabel
  <2>5. CASE Unloaded
    BY <1>0, <2>5 DEF IInv, TypeOK, WInv, KernelParts, Unloaded, ProbeLabel
  <2> QED
    BY <2>1, <2>2, <2>3, <2>4, <2>5
<1>3. Stages'
  BY <1>0, <1>1 DEF WInv, Stages, Stage, Left, Current, InProbe
<1>4. Notes'
  BY <1>0, <1>1, Quiet DEF WInv, Notes, Tale, Odd, Dangling, Current, InProbe
<1>5. Line'
  BY <1>0, <1>1, SameLine DEF IInv, WInv
<1>6. Sockets'
  BY <1>0, <1>1, SameSockets DEF IInv, WInv
<1> QED
  BY <1>2, <1>3, <1>4, <1>5, <1>6 DEF WInv

LEMMA CreateWqWhole == ASSUME IInv, WInv, CreateWq PROVE WInv'
<1> USE DEF CreateWq
<1>0. /\ UNCHANGED <<cur, bound, has, init, async>> /\ UNCHANGED clients
      /\ cur = NoDev /\ NoDev \notin Dev /\ faults \in Nat /\ module = "loading"
      /\ faults' = faults \/ faults' > 0
      /\ module' = "in" /\ bus' = "idle"
  BY DevAssumption DEF IInv, TypeOK, Places, ProbeLabel, RemoveLabel, Fault
<1>1. /\ \A d \in Dev : story'[d] = story[d] \/ story'[d] = story[d] \cup {"no_queue"}
      /\ \A d \in Dev : d = bound => "wq" \in kernel' \/ "no_queue" \in story'[d]
  <2>1. bound \in Dev \cup {NoDev} /\ story \in [Dev -> SUBSET Happening] /\ NoDev \notin Dev
    BY <1>0 DEF IInv, TypeOK
  <2>2. CASE kernel' = kernel \cup {"wq"} /\ UNCHANGED <<faults, story>>
    BY <2>2
  <2>3. CASE IF bound # NoDev THEN Note(bound, {"no_queue"}) ELSE UNCHANGED story
    BY <2>1, <2>3 DEF Note
  <2> QED
    BY <2>2, <2>3
<1>2. KernelParts'
  BY <1>0 DEF WInv, KernelParts, ProbeLabel
<1>3. Stages'
  BY <1>0, <1>1 DEF WInv, Stages, Stage, Left, Current, InProbe
<1>4. Notes'
  BY <1>0, <1>1, Quiet DEF WInv, Notes, Tale, Odd, Dangling, Current, InProbe
<1>5. Line'
  BY <1>0, SameLine DEF IInv, WInv
<1>6. Sockets'
  BY <1>0, <1>1, SameSockets DEF IInv, WInv
<1> QED
  BY <1>2, <1>3, <1>4, <1>5, <1>6 DEF WInv

LEMMA ProbeWhole == ASSUME IInv, WInv, Probe PROVE WInv'
<1> USE DEF Probe
<1>0. /\ UNCHANGED <<module, kernel, bound, init, async>> /\ UNCHANGED clients
      /\ cur = NoDev /\ bound = NoDev /\ NoDev \notin Dev /\ faults \in Nat
      /\ module \in {"loading", "in"} /\ bus \notin ProbeLabel
  BY DevAssumption DEF IInv, TypeOK, Places, ProbeLabel, RemoveLabel
<1>1. CASE Fault /\ bus' = Probed /\ UNCHANGED <<cur, has, story>>
  <2>1. faults' > 0 /\ bus' \in {"wq", "idle"}
    BY <1>0, <1>1 DEF Fault, Probed
  <2>2. KernelParts'
    BY <1>0, <2>1 DEF WInv, KernelParts, ProbeLabel
  <2>3. Stages'
    BY <1>0, <1>1 DEF WInv, Stages, Stage, Left, Current, InProbe
  <2>4. Notes'
    BY <1>0, <1>1, Quiet DEF WInv, Notes, Tale, Odd, Dangling, Current, InProbe
  <2>5. Line'
    BY <1>0, <1>1, SameLine DEF IInv, WInv
  <2>6. Sockets'
    BY <1>0, <1>1, SameSockets DEF IInv, WInv
  <2> QED
    BY <2>2, <2>3, <2>4, <2>5, <2>6 DEF WInv
<1>2. ASSUME NEW d \in Fresh,
             /\ cur' = d
             /\ Gain(d, {"text", "mem", "spi", "wakelock"})
             /\ bus' = "devt"
             /\ IF module = "in" /\ "wq" \notin kernel THEN Note(d, {"no_queue"}) ELSE UNCHANGED story
             /\ UNCHANGED faults
      PROVE  WInv'
  <2>1. /\ d \in Dev /\ has[d] = {} /\ has'[d] = {"text", "mem", "spi", "wakelock"}
        /\ \A e \in Dev : e # d => has'[e] = has[e]
    BY <1>2 DEF IInv, TypeOK, Fresh, Gain
  <2>2. /\ \A e \in Dev : story'[e] = story[e] \/ (e = d /\ story'[e] = story[e] \cup {"no_queue"})
        /\ module = "in" => "wq" \in kernel \/ "no_queue" \in story'[d]
    BY <1>2, <2>1 DEF IInv, TypeOK, Note
  <2>3. "failed" \notin story[d] /\ "failed" \notin story'[d]
    BY <2>1, <2>2 DEF WInv, Stages, Stage
  <2>4. KernelParts'
    BY <1>0, <1>2 DEF WInv, KernelParts, ProbeLabel
  <2>5. Stages'
    BY <1>0, <1>2, <2>1, <2>2, <2>3 DEF WInv, Stages, Stage, Left, Current, InProbe, ProbeLabel, RemoveLabel
  <2>6. Opened(d) = {}
    BY <2>1 DEF IInv, Files
  <2>7. Notes'
    BY <1>0, <1>2, <2>1, <2>2, <2>3, <2>6, Quiet DEF WInv, Notes, Tale, Odd, Dangling, Current, InProbe
  <2>8. Line'
    BY <1>0, <2>1, SameLine DEF IInv, WInv
  <2>9. Sockets'
    BY <1>0, <2>1, <2>2, SameSockets DEF IInv, WInv
  <2> QED
    BY <2>4, <2>5, <2>7, <2>8, <2>9 DEF WInv
<1> QED
  BY <1>1, <1>2

LEMMA ProbingWhole ==
  ASSUME IInv, WInv, AllocDevt \/ DeviceNode \/ CdevAdd \/ NetlinkInit \/ ErrList PROVE WInv'
<1> USE DEF AllocDevt, DeviceNode, CdevAdd, NetlinkInit, ErrList, ProbeStep
<1>0. /\ UNCHANGED <<module, kernel, cur, bound, init, story, async>> /\ UNCHANGED clients
      /\ cur \in Dev /\ bound = NoDev /\ NoDev \notin Dev /\ faults \in Nat
      /\ module \in {"loading", "in"} /\ bus \in ProbeLabel /\ bus' \in ProbeLabel
  BY DevAssumption DEF IInv, TypeOK, Places, ProbeLabel, RemoveLabel
<1>1. /\ \A d \in Dev : d # cur => has'[d] = has[d]
      /\ {"spi", "wakelock"} \cap has[cur] = {"spi", "wakelock"} \cap has'[cur]
      /\ "irq" \in has'[cur] <=> "irq" \in has[cur]
      /\ "sock" \in has'[cur] => "sock" \in has[cur] \/ bus' = "notif"
      /\ bus = "notif" => bus' = "notif"
  BY <1>0 DEF IInv, TypeOK, Gain, Lose
<1>2. KernelParts'
  BY <1>0 DEF WInv, KernelParts, ProbeLabel, Fault
<1>3. Stages'
  BY <1>0, <1>1 DEF WInv, Stages, Stage, Left, Current, InProbe, ProbeLabel, RemoveLabel
<1>4. Notes'
  BY <1>0, <1>1, Quiet DEF WInv, Notes, Tale, Stages, Stage, Odd, Dangling, Current, InProbe
<1>5. Line'
  BY <1>0, <1>1, SameLine DEF IInv, WInv
<1>6. Sockets'
  <2>1. "sock" \in has[cur] => "sock" \in has'[cur]
    BY <1>0 DEF IInv, TypeOK, Gain, Lose
  <2> QED
    BY <1>0, <1>1, <2>1, SameSockets DEF IInv, WInv
<1> QED
  BY <1>2, <1>3, <1>4, <1>5, <1>6 DEF WInv

LEMMA ClearInitWhole == ASSUME IInv, WInv, ClearInit PROVE WInv'
<1> USE DEF ClearInit
<1>0. /\ UNCHANGED <<module, kernel, cur, bound, has, faults, story, async>> /\ UNCHANGED clients
      /\ cur \in Dev /\ bound = NoDev /\ NoDev \notin Dev
      /\ bus = "init" /\ bus' = "sock"
  BY DevAssumption DEF IInv, TypeOK, Places, ProbeLabel, RemoveLabel
<1>1. \A d \in Dev : init'[d] = IF d = cur THEN 0 ELSE init[d]
  BY DEF IInv, TypeOK
<1>2. KernelParts'
  BY <1>0 DEF WInv, KernelParts, ProbeLabel
<1>3. Stages'
  BY <1>0 DEF WInv, Stages, Stage, Left, Current, InProbe, ProbeLabel, RemoveLabel
<1>4. Notes'
  BY <1>0, <1>1, Quiet DEF WInv, Notes, Tale, Odd, Dangling, Current, InProbe, ProbeLabel
<1>5. Line'
  BY <1>0, SameLine DEF IInv, WInv
<1>6. Sockets'
  BY <1>0, SameSockets DEF IInv, WInv
<1> QED
  BY <1>2, <1>3, <1>4, <1>5, <1>6 DEF WInv

LEMMA FbRegisterWhole == ASSUME IInv, WInv, FbRegister PROVE WInv'
<1> USE DEF FbRegister
<1>0. /\ UNCHANGED <<module, kernel, init, faults, story, async>> /\ UNCHANGED clients
      /\ cur \in Dev /\ bound = NoDev /\ NoDev \notin Dev
      /\ bound' = cur /\ cur' = NoDev /\ bus' \in {"wq", "idle"}
      /\ bus = "notif"
  BY DevAssumption DEF IInv, TypeOK, Places, ProbeLabel, RemoveLabel, Probed
<1>1. \A d \in Dev : has'[d] = IF d = cur THEN has[d] \cup {"notif"} ELSE has[d]
  BY DEF IInv, TypeOK, Gain
<1>2. Stage(cur) /\ Tale(cur) /\ InProbe(cur) /\ Current(cur)
  BY <1>0 DEF WInv, Stages, Notes, Current, InProbe, ProbeLabel
<1>3. KernelParts'
  BY <1>0 DEF WInv, KernelParts, ProbeLabel
<1>4. ASSUME NEW d \in Dev, d = cur PROVE Stage(d)'
  BY <1>0, <1>1, <1>2, <1>4 DEF Stage, Current, InProbe
<1>5. ASSUME NEW d \in Dev, d = cur PROVE Tale(d)'
  <2>1. /\ Opened(d)' = Opened(d)
        /\ Freeing(d)' <=> Freeing(d)
        /\ Entering(d)' <=> Entering(d)
    BY <1>0, Quiet
  <2>2. d = bound' /\ Current(d)' /\ ~InProbe(d)' /\ Tale(d) /\ InProbe(d)
    BY <1>0, <1>2, <1>5 DEF Current, InProbe
  <2>3. "irq" \in has'[d] <=> "irq" \in has[d]
    <3>1. has'[d] = has[d] \cup {"notif"}
      BY <1>1, <1>5
    <3> QED
      BY <3>1
  <2>4. "failed" \notin story[d]
    BY <1>0, <1>2, <1>5 DEF Stage
  <2>5. UNCHANGED <<init, story, module, kernel>>
    BY <1>0
  <2>7. "irq" \in has'[d] => init[d] > 0 \/ Freeing(d)' \/ "early" \in story[d]
    BY <2>1, <2>2, <2>3 DEF Tale
  <2>8. module = "in" => "wq" \in kernel \/ "no_queue" \in story[d]
    BY <2>2 DEF Tale
  <2> QED
    BY <2>2, <2>4, <2>5, <2>7, <2>8 DEF Tale
<1>6. \A d \in Dev \ {cur} : Stage(d)' /\ Tale(d)'
  BY <1>0, <1>1, Elsewhere DEF WInv, Stages, Notes
<1>7. Line'
  BY <1>0, <1>1, SameLine DEF IInv, WInv
<1>8. Sockets'
  BY <1>0, <1>1, SameSockets DEF IInv, WInv
<1> QED
  BY <1>0, <1>3, <1>4, <1>5, <1>6, <1>7, <1>8 DEF WInv, Stages, Notes

LEMMA ErrFreeWhole == ASSUME IInv, WInv, ErrFree PROVE WInv'
<1> USE DEF ErrFree
<1>0. /\ UNCHANGED <<module, kernel, bound, init, faults, async>> /\ UNCHANGED clients
      /\ cur \in Dev /\ bound = NoDev /\ NoDev \notin Dev
      /\ cur' = NoDev /\ bus' \in {"wq", "idle"} /\ bus = "err_free"
  BY DevAssumption DEF IInv, TypeOK, Places, ProbeLabel, RemoveLabel, Probed
<1>1. \A d \in Dev : has'[d] = IF d = cur THEN has[d] \ {"region", "spi", "mem"} ELSE has[d]
  BY DEF IInv, TypeOK, Lose
<1>2. /\ \A d \in Dev : d # cur => story'[d] = story[d]
      /\ story[cur] \subseteq story'[cur] /\ "failed" \in story'[cur]
      /\ "cdev" \in has[cur] => "early" \in story'[cur]
  BY <1>0 DEF IInv, TypeOK, Note
<1>3. KernelParts'
  BY <1>0 DEF WInv, KernelParts, ProbeLabel
<1>4. /\ "list" \notin has[cur] /\ "sock" \notin has[cur] /\ "notif" \notin has[cur]
      /\ "irq" \in has[cur] => "cdev" \in has[cur]
      /\ Opened(cur) # {} => "cdev" \in has[cur]
      /\ {"spi", "wakelock"} \subseteq has[cur]
      /\ has[cur] \subseteq Part
  <2>1. "list" \notin has[cur] /\ "notif" \notin has[cur] /\ has[cur] \subseteq Part
    BY <1>0 DEF IInv, TypeOK, Parts
  <2>2. "sock" \notin has[cur] /\ {"spi", "wakelock"} \subseteq has[cur]
    BY <1>0 DEF WInv, Stages, Stage, InProbe, ProbeLabel
  <2>3. /\ "irq" \in has[cur] => "cdev" \in has[cur]
        /\ Opened(cur) # {} => "cdev" \in has[cur]
    BY <1>0 DEF IInv, Files, Reporters
  <2> QED
    BY <2>1, <2>2, <2>3
<1>5. ASSUME NEW d \in Dev, d = cur PROVE Stage(d)'
  <2>1. has'[d] \subseteq Left(d)'
    <3>1. has'[d] \subseteq {"text", "cdev", "node", "wakelock", "irq"}
      BY <1>1, <1>4, <1>5 DEF Part
    <3>2. "failed" \in story'[d] /\ ("irq" \in has'[d] => "early" \in story'[d])
      BY <1>1, <1>2, <1>4, <1>5
    <3> QED
      BY <3>1, <3>2 DEF Left
  <2> QED
    BY <1>0, <1>1, <1>2, <1>4, <1>5, <2>1 DEF Stage, Current, InProbe
<1>6. ASSUME NEW d \in Dev, d = cur PROVE Tale(d)'
  BY <1>0, <1>1, <1>2, <1>4, <1>6, Quiet DEF WInv, Notes, Tale, Odd, Dangling, Current, InProbe
<1>7. \A d \in Dev \ {cur} : Stage(d)' /\ Tale(d)'
  BY <1>0, <1>1, <1>2, Elsewhere DEF WInv, Stages, Notes
<1>8. Line'
  BY <1>0, <1>1, SameLine DEF IInv, WInv
<1>9. Sockets'
  BY <1>0, <1>1, <1>2, SameSockets DEF IInv, WInv
<1> QED
  BY <1>0, <1>3, <1>5, <1>6, <1>7, <1>8, <1>9 DEF WInv, Stages, Notes

LEMMA StartWhole == ASSUME IInv, WInv, Unbind \/ Unload PROVE WInv'
<1>0. /\ UNCHANGED <<kernel, has, init, users, faults, async>> /\ UNCHANGED clients
      /\ NoDev \notin Dev /\ cur = NoDev /\ module = "in" /\ bus = "idle"
      /\ module' \in {"in", "leaving"}
  BY DevAssumption DEF IInv, TypeOK, ProbeLabel, RemoveLabel, Unbind, Unload, StartRemove
<1>1. CASE bound = NoDev
  <2>1. UNCHANGED <<cur, bound, story>> /\ bus' = "unload" /\ module' = "leaving"
    BY <1>1 DEF Unbind, Unload
  <2>2. KernelParts'
    BY <1>0, <2>1 DEF WInv, KernelParts, ProbeLabel
  <2>3. Stages'
    BY <1>0, <1>1, <2>1 DEF WInv, Stages, Stage, Left, Current, InProbe
  <2>4. Notes'
    BY <1>0, <1>1, <2>1, Quiet DEF WInv, Notes, Tale, Odd, Dangling, Current, InProbe
  <2>5. Line'
    BY <1>0, SameLine DEF IInv, WInv
  <2>6. Sockets'
    BY <1>0, <2>1, SameSockets DEF IInv, WInv
  <2> QED
    BY <2>2, <2>3, <2>4, <2>5, <2>6 DEF WInv
<1>2. CASE bound # NoDev
  <2>1. /\ bound \in Dev /\ cur' = bound /\ bound' = NoDev /\ bus' = "r_wake"
        /\ IF Reached(bound) THEN Note(bound, {"late"}) ELSE UNCHANGED story
    BY <1>2 DEF IInv, TypeOK, Unbind, Unload, StartRemove
  <2>2. /\ \A d \in Dev : story'[d] = story[d] \/ (d = bound /\ story'[d] = story[d] \cup {"late"})
        /\ Reached(bound) => "late" \in story'[bound]
    BY <2>1 DEF IInv, TypeOK, Note
  <2>3. Opened(bound) # {} \/ Freeing(bound) \/ init[bound] > 0 => Reached(bound)
    <3>1. Freeing(bound) => Opened(bound) # {}
      BY DEF Freeing, Opened
    <3>2. Opened(bound) # {} => users[bound] > 0
      BY <2>1, Counted DEF IInv
    <3> QED
      BY <3>1, <3>2 DEF Reached
  <2>4. KernelParts'
    BY <1>0, <2>1 DEF WInv, KernelParts, ProbeLabel
  <2>5. Stages'
    BY <1>0, <2>1, <2>2 DEF WInv, Stages, Stage, Left, Current, InProbe, ProbeLabel, RemoveLabel
  <2>6. Notes'
    BY <1>0, <2>1, <2>2, <2>3, Quiet DEF WInv, Notes, Tale, Odd, Dangling, Current, InProbe, ProbeLabel
  <2>7. Line'
    BY <1>0, SameLine DEF IInv, WInv
  <2>8. Sockets'
    BY <1>0, <2>2, SameSockets DEF IInv, WInv
  <2> QED
    BY <2>4, <2>5, <2>6, <2>7, <2>8 DEF WInv
<1> QED
  BY <1>1, <1>2

LEMMA RemovingWhole ==
  ASSUME IInv, WInv, RemoveWake \/ RemoveSpi \/ RemoveNotif \/ RemoveWq \/ RemoveSock PROVE WInv'
<1> USE DEF RemoveWake, RemoveSpi, RemoveNotif, RemoveWq, RemoveSock
<1>0. /\ UNCHANGED <<module, cur, bound, init, faults, story, async>> /\ UNCHANGED clients
      /\ cur \in Dev /\ bound = NoDev /\ NoDev \notin Dev
      /\ module \in {"in", "leaving"} /\ bus \in RemoveLabel /\ bus' \in RemoveLabel
      /\ kernel' \subseteq kernel
  BY DevAssumption DEF IInv, TypeOK, Places, ProbeLabel, RemoveLabel
<1>1. /\ \A d \in Dev : d # cur => has'[d] = has[d]
      /\ has'[cur] \subseteq has[cur]
      /\ "irq" \in has'[cur] <=> "irq" \in has[cur]
      /\ "cdev" \in has'[cur] <=> "cdev" \in has[cur]
      /\ bus' # "r_wake" => "wakelock" \notin has'[cur]
      /\ bus' \notin {"r_wake", "r_spi"} => "spi" \notin has'[cur]
      /\ bus' = "r_list" => "sock" \notin has'[cur]
  BY <1>0 DEF IInv, TypeOK, Lose, WInv, Stages, Stage, RemoveLabel
<1>2. KernelParts'
  BY <1>0 DEF WInv, KernelParts, ProbeLabel, RemoveLabel
<1>3. Stages'
  BY <1>0, <1>1 DEF WInv, Stages, Stage, Left, Current, InProbe, ProbeLabel, RemoveLabel
<1>4. Notes'
  BY <1>0, <1>1, Quiet DEF WInv, Notes, Tale, Odd, Dangling, Current, InProbe, ProbeLabel, RemoveLabel
<1>5. Line'
  BY <1>0, <1>1, SameLine DEF IInv, WInv
<1>6. Sockets'
  <2> SUFFICES ASSUME NEW c \in Client, pc[c] = "send" PROVE Socket(c)'
    BY <1>0 DEF Sockets, Socket, clients
  <2>1. fd[c] \in Dev /\ c \in Opened(fd[c])
    BY DEF IInv, TypeOK, Opened
  <2>2. CASE fd[c] = cur
    <3>1. ~InProbe(cur) /\ cur # bound
      BY <1>0 DEF InProbe, ProbeLabel, RemoveLabel
    <3>2. "late" \in story[cur] \/ Dangling(cur)
      BY <1>0, <2>1, <2>2, <3>1 DEF WInv, Notes, Tale
    <3> QED
      BY <1>0, <2>2, <3>2 DEF Socket, Dangling, clients
  <2>3. CASE fd[c] # cur
    BY <1>0, <1>1, <2>1, <2>3 DEF WInv, Sockets, Socket, Dangling, clients
  <2> QED
    BY <2>2, <2>3
<1> QED
  BY <1>2, <1>3, <1>4, <1>5, <1>6 DEF WInv

LEMMA RemoveListWhole == ASSUME IInv, WInv, RemoveList PROVE WInv'
<1> USE DEF RemoveList, Removed
<1>0. /\ UNCHANGED <<module, kernel, bound, init, users, faults, async>> /\ UNCHANGED clients
      /\ cur \in Dev /\ bound = NoDev /\ NoDev \notin Dev
      /\ module \in {"in", "leaving"} /\ "wq" \notin kernel
      /\ bus = "r_list" /\ bus' \in {"unload", "idle"} /\ cur' = NoDev
  BY DevAssumption DEF IInv, TypeOK, Places, ProbeLabel, RemoveLabel
<1>1. /\ \A d \in Dev : d # cur => has'[d] = has[d]
      /\ has'[cur] \subseteq has[cur] \ {"list", "node"}
      /\ has[cur] \ {"list", "node", "mem"} \subseteq has'[cur]
      /\ users[cur] = 0 => "mem" \notin has'[cur]
  BY <1>0 DEF IInv, TypeOK, Lose
<1>2. /\ \A d \in Dev : story'[d] = story[d] \/ (d = cur /\ story'[d] = story[d] \cup {"late"})
      /\ Reached(cur) => "late" \in story'[cur]
  BY <1>0 DEF IInv, TypeOK, Note
<1>3. /\ users[cur] # 0 => Reached(cur)
      /\ Entering(cur) => Reached(cur)
      /\ users[cur] \in Nat
  BY <1>0 DEF Reached, Entering, IInv, TypeOK
<1>4. KernelParts'
  BY <1>0 DEF WInv, KernelParts, ProbeLabel
<1>5. /\ "notif" \notin has[cur] /\ "sock" \notin has[cur] /\ "spi" \notin has[cur]
      /\ "wakelock" \notin has[cur] /\ "failed" \notin story[cur] /\ has[cur] \subseteq Part
      /\ "irq" \in has[cur] => Odd(cur)
  BY <1>0 DEF IInv, TypeOK, Parts, WInv, Stages, Stage, Notes, Tale, RemoveLabel, Current
<1>6. Stages'
  BY <1>0, <1>1, <1>2, <1>3, <1>5 DEF WInv, Stages, Stage, Left, Current, InProbe, Odd, Part
<1>7. ASSUME NEW d \in Dev PROVE Tale(d)'
  <2>1. Tale(d) /\ Stage(d)
    BY DEF WInv, Notes, Stages
  <2>2. CASE d # cur
    BY <1>0, <1>1, <1>2, <2>1, <2>2, Elsewhere
  <2>3. CASE d = cur
    <3>1. /\ Opened(d)' = Opened(d)
          /\ Freeing(d)' <=> Freeing(d)
          /\ Entering(d)' <=> Entering(d)
      BY <1>0, Quiet
    <3>2. ~InProbe(d) /\ ~InProbe(d)' /\ d # bound /\ story[d] \subseteq story'[d]
      BY <1>0, <1>2, <2>3 DEF InProbe, ProbeLabel
    <3>3. /\ "irq" \in has'[d] <=> "irq" \in has[d]
          /\ "failed" \notin story'[d]
      BY <1>1, <1>2, <1>5, <2>3
    <3>4. Entering(d) => "late" \in story'[d]
      BY <1>2, <1>3, <2>3
    <3>5. d # bound' /\ UNCHANGED init
      BY <1>0
    <3> QED
      BY <2>1, <3>1, <3>2, <3>3, <3>4, <3>5 DEF Tale, Odd, Dangling
  <2> QED
    BY <2>2, <2>3
<1>8. Line'
  BY <1>0, <1>1, SameLine DEF IInv, WInv
<1>9. Sockets'
  <2>1. \A d \in Dev : "sock" \in has[d] => "sock" \in has'[d]
    BY <1>1
  <2> QED
    BY <1>0, <1>2, <2>1, SameSockets DEF IInv, WInv
<1> QED
  BY <1>4, <1>6, <1>7, <1>8, <1>9 DEF WInv, Notes

(* Clients keep the bus where it is, and of a device change only the line.  *)
LEMMA SameKernel ==
  ASSUME KernelParts, UNCHANGED owner, faults \in Nat, faults' = faults \/ faults' > 0
  PROVE  KernelParts'
BY DEF KernelParts, owner, ProbeLabel

LEMMA SameStage ==
  ASSUME NEW d \in Dev, Stage(d), UNCHANGED owner, story[d] \subseteq story'[d],
         "failed" \in story'[d] => "failed" \in story[d],
         has'[d] \ {"irq"} = has[d] \ {"irq"},
         "irq" \in has'[d] => "irq" \in has[d] \/ d = bound \/ Odd(d)
  PROVE  Stage(d)'
<1>1. /\ Current(d)' <=> Current(d)
      /\ InProbe(d)' <=> InProbe(d)
  <2>1. Current(d)' <=> Current(d)
    BY DEF Current, owner
  <2>2. InProbe(d)' <=> InProbe(d)
    BY DEF InProbe, owner
  <2> QED
    BY <2>1, <2>2
<1>2. ~Current(d) => has'[d] \subseteq Left(d)'
  BY DEF Stage, Left, Odd, Current
<1> QED
  BY <1>1, <1>2 DEF Stage, owner

LEMMA IoctlWhole == ASSUME IInv, WInv, NEW c \in Client, Ioctl(c) PROVE WInv'
<1>0. /\ UNCHANGED <<owner, users, async, story, fd>>
      /\ fd[c] \in Dev /\ pc[c] \notin {"closed", "open"}
      /\ init \in [Dev -> Nat] /\ has \in [Dev -> SUBSET Part] /\ pc \in [Client -> ClientLabel]
      /\ faults \in Nat /\ (faults' = faults \/ faults' > 0)
  <2>1. fd[c] \in Dev /\ pc[c] \notin {"closed", "open"}
    BY OpenDev DEF IInv, Ioctl, Initialise, InitDt, Deinit, FreeIrq, Ask, Send, Calls
  <2>2. UNCHANGED <<owner, users, async, story, fd>>
    BY DEF Ioctl, Initialise, InitDt, Deinit, FreeIrq, Ask, Send, GoClient, clients
  <2>3. /\ init \in [Dev -> Nat] /\ has \in [Dev -> SUBSET Part] /\ pc \in [Client -> ClientLabel]
        /\ faults \in Nat /\ (faults' = faults \/ faults' > 0)
    BY DEF IInv, TypeOK, Ioctl, Initialise, InitDt, Deinit, FreeIrq, Ask, Send, Fault
  <2> QED
    BY <2>1, <2>2, <2>3
<1>1. /\ \A d \in Dev : d # fd[c] => has'[d] = has[d] /\ init'[d] = init[d]
      /\ has'[fd[c]] \ {"irq"} = has[fd[c]] \ {"irq"}
      /\ \A b \in Client : b # c => pc'[b] = pc[b]
      /\ pc'[c] \notin {"closed", "open"}
  BY <1>0 DEF Ioctl, Initialise, InitDt, Deinit, FreeIrq, Ask, Send, GoClient, Sends, Gain, Lose,
     clients, ClientLabel
<1>2. "irq" \in has'[fd[c]] =>
        \/ init'[fd[c]] > 0 \/ pc'[c] = "free_irq"
        \/ "irq" \in has[fd[c]] /\ init'[fd[c]] = init[fd[c]] /\ pc[c] # "free_irq"
  <2>1. CASE Initialise(c)
    BY <1>0, <2>1 DEF Initialise, Calls
  <2>2. CASE InitDt(c)
    BY <1>0, <2>2 DEF InitDt, Gain
  <2>3. CASE Deinit(c)
    <3>1. init'[fd[c]] = init[fd[c]] - 1 /\ init[fd[c]] > 0 /\ init[fd[c]] \in Nat
      BY <1>0, <2>3 DEF Deinit
    <3>2. init[fd[c]] = 1 => pc'[c] = "free_irq"
      BY <1>0, <2>3 DEF Deinit, GoClient
    <3> QED
      BY <3>1, <3>2
  <2>4. CASE FreeIrq(c)
    BY <1>0, <2>4 DEF FreeIrq, Lose
  <2>5. CASE Ask(c) \/ Send(c)
    BY <1>0, <2>5 DEF Ask, Send, Calls
  <2> QED
    BY <2>1, <2>2, <2>3, <2>4, <2>5 DEF Ioctl
<1>3. Opened(fd[c]) # {}
  BY <1>0 DEF Opened
<1>4. KernelParts'
  BY <1>0, SameKernel DEF WInv
<1>5. ASSUME NEW d \in Dev PROVE Stage(d)'
  <2>1. Stage(d) /\ Tale(d)
    BY DEF WInv, Stages, Notes
  <2>2. "irq" \in has'[d] => "irq" \in has[d] \/ d = bound \/ Odd(d)
    BY <1>1, <1>3, <2>1 DEF Tale
  <2> QED
    BY <1>0, <1>1, <2>1, <2>2, SameStage
<1>6. ASSUME NEW d \in Dev PROVE Tale(d)'
  <2>1. Stage(d) /\ Tale(d)
    BY DEF WInv, Stages, Notes
  <2>2. Opened(d)' = Opened(d) /\ (Entering(d)' <=> Entering(d))
    <3>1. Opened(d)' = Opened(d)
      BY <1>0, <1>1 DEF Opened
    <3>2. Entering(d)' <=> Entering(d)
      BY <1>0, <1>1 DEF Entering
    <3> QED
      BY <3>1, <3>2
  <2>3. "irq" \in has'[d] => init'[d] > 0 \/ Freeing(d)' \/ "early" \in story[d]
    <3>1. CASE d # fd[c]
      <4>1. Freeing(d) => Freeing(d)'
        BY <1>0, <1>1, <3>1 DEF Freeing
      <4> QED
        BY <1>1, <2>1, <3>1, <4>1 DEF Tale
    <3>2. CASE d = fd[c]
      <4>1. pc'[c] = "free_irq" => Freeing(d)'
        BY <1>0, <3>2 DEF Freeing
      <4>2. pc[c] # "free_irq" /\ Freeing(d) => Freeing(d)'
        BY <1>0, <1>1, <3>2 DEF Freeing
      <4> QED
        BY <1>2, <2>1, <3>2, <4>1, <4>2 DEF Tale
    <3> QED
      BY <3>1, <3>2
  <2>4. /\ init'[d] > 0 => init[d] > 0 \/ Opened(d) # {}
        /\ "irq" \in has'[d] => "irq" \in has[d] \/ Opened(d) # {}
        /\ "cdev" \in has'[d] <=> "cdev" \in has[d]
    BY <1>1, <1>3
  <2>5. UNCHANGED <<module, kernel, bus, cur, bound, story>>
    BY <1>0 DEF owner
  <2> QED
    BY <2>1, <2>2, <2>3, <2>4, <2>5 DEF Tale, Odd, Dangling, Current, InProbe
<1>7. Line'
  <2>1. UNCHANGED hirq /\ (hirq # Idle => hirq.dev \in Dev)
    BY <1>0 DEF IInv, TypeOK, Actor, Idle, At, async
  <2>2. hirq.dev # fd[c] \/ ("irq" \in has[fd[c]] => "irq" \in has'[fd[c]])
    BY <1>0 DEF Ioctl, Initialise, InitDt, Deinit, FreeIrq, Ask, Send, Gain
  <2> QED
    BY <1>1, <2>1, <2>2 DEF WInv, Line
<1>8. Sockets'
  <2>1. pc'[c] = "send" => "sock" \in has[fd[c]]
    <3>1. CASE Initialise(c) \/ InitDt(c) \/ Ask(c) \/ Send(c)
      BY <1>0, <3>1 DEF Initialise, InitDt, Ask, Send, GoClient, Sends, Calls, clients
    <3>2. CASE Deinit(c) \/ FreeIrq(c)
      BY <1>0, <3>2 DEF Deinit, FreeIrq, GoClient, Sends
    <3> QED
      BY <3>1, <3>2 DEF Ioctl
  <2>2. \A d \in Dev : "sock" \in has[d] => "sock" \in has'[d]
    BY <1>1
  <2>3. \A b \in Client : pc'[b] = "send" => fd[b] \in Dev
    BY <1>0, <1>1 DEF IInv, TypeOK
  <2> QED
    BY <1>0, <1>1, <2>1, <2>2, <2>3 DEF WInv, Sockets, Socket, Dangling
<1> QED
  BY <1>4, <1>5, <1>6, <1>7, <1>8 DEF WInv, Stages, Notes

LEMMA FileWhole == ASSUME IInv, WInv, NEW c \in Client, File(c) PROVE WInv'
<1>0. /\ UNCHANGED <<owner, has, init, async, faults>> /\ faults \in Nat
      /\ pc \in [Client -> ClientLabel] /\ fd \in [Client -> Dev \cup {NoDev}] /\ NoDev \notin Dev
      /\ pc[c] # "closed" => fd[c] \in Dev
  BY DevAssumption DEF IInv, TypeOK, File, Lookup, Open, Close
<1>1. KernelParts'
  BY <1>0, SameKernel DEF WInv
<1>2. Line'
  BY <1>0, SameLine DEF IInv, WInv
<1>3. \A d \in Dev : Stage(d) /\ Tale(d)
  BY DEF WInv, Stages, Notes
<1>4. CASE pc[c] = "open" /\ Finds("open", fd[c]) /\ {"cdev", "list"} \subseteq has[fd[c]]
           /\ OpenFound(c, fd[c])
  <2>1. /\ Current(fd[c]) /\ fd[c] \in Dev
        /\ story \in [Dev -> SUBSET Happening]
    BY <1>0, <1>4 DEF IInv, TypeOK, Parts
  <2>2. /\ \A d \in Dev : story[d] \subseteq story'[d]
        /\ \A d \in Dev : "failed" \in story'[d] => "failed" \in story[d]
        /\ OpenedWhen(fd[c]) \subseteq story'[fd[c]]
    BY <1>4, <2>1 DEF OpenFound, Note, OpenedWhen
  <2>3. ASSUME NEW d \in Dev PROVE Stage(d)'
    BY <1>0, <1>3, <2>2, SameStage
  <2>4. ASSUME NEW d \in Dev, d = fd[c]
        PROVE  /\ d # bound => Odd(d)'
               /\ InProbe(d) => "early" \in story'[d]
               /\ d = bound \/ InProbe(d) \/ "late" \in story'[d]
    <3>1. d # bound => bus \in RemoveLabel \/ InProbe(d)
      BY <1>0, <2>1, <2>4 DEF IInv, TypeOK, Current, InProbe
    <3>2. bus \in RemoveLabel => ~InProbe(d)
      BY DEF RemoveLabel, ProbeLabel, InProbe
    <3>3. InProbe(d) => d # bound
      BY <1>0, <2>1, <2>4 DEF IInv, Places, InProbe, ProbeLabel
    <3>4. /\ bus \in RemoveLabel => "late" \in story'[d]
          /\ bus \notin RemoveLabel /\ d # bound => "early" \in story'[d]
      BY <2>2, <2>4 DEF OpenedWhen
    <3> QED
      BY <3>1, <3>2, <3>3, <3>4 DEF Odd
  <2>5. ASSUME NEW d \in Dev PROVE Tale(d)'
    <3>1. /\ d # fd[c] => Opened(d)' = Opened(d)
          /\ Freeing(d) => Freeing(d)'
          /\ Entering(d)' => Entering(d)
      <4>1. /\ pc' = [pc EXCEPT ![c] = "idle"] /\ UNCHANGED fd
        BY <1>4 DEF OpenFound, GoClient
      <4>2. d # fd[c] => Opened(d)' = Opened(d)
        BY <1>0, <4>1 DEF Opened
      <4>3. Freeing(d) => Freeing(d)'
        BY <1>0, <1>4, <4>1 DEF Freeing
      <4>4. Entering(d)' => Entering(d)
        BY <1>0, <4>1 DEF Entering
      <4> QED
        BY <4>2, <4>3, <4>4
    <3>2. UNCHANGED <<module, kernel, bus, cur, bound, has, init>>
      BY <1>0 DEF owner
    <3>3. /\ Opened(d)' # {} \/ init[d] > 0 \/ "irq" \in has[d] => d = bound \/ Odd(d)'
          /\ InProbe(d) /\ (Opened(d)' # {} \/ "irq" \in has[d]) => "early" \in story'[d]
          /\ Opened(d)' # {} => d = bound \/ InProbe(d) \/ "late" \in story'[d] \/ Dangling(d)'
      <4>1. CASE d = fd[c]
        BY <2>4, <4>1
      <4>2. CASE d # fd[c]
        BY <1>3, <2>2, <3>1, <4>2 DEF Tale, Odd, Dangling
      <4> QED
        BY <4>1, <4>2
    <3>4. /\ "irq" \in has[d] => init[d] > 0 \/ Freeing(d)' \/ "early" \in story'[d]
          /\ "failed" \in story'[d] /\ "cdev" \in has[d] => "early" \in story'[d]
          /\ module = "in" /\ (d = bound \/ InProbe(d)) => "wq" \in kernel \/ "no_queue" \in story'[d]
          /\ "cdev" \in has[d] /\ Entering(d)' => Current(d) \/ "late" \in story'[d] \/ Dangling(d)'
      BY <1>3, <2>2, <3>1 DEF Tale, Odd, Dangling
    <3> QED
      BY <3>2, <3>3, <3>4 DEF Tale, Current, InProbe
  <2>6. Sockets'
    <3>1. \A b \in Client : pc'[b] = "send" => pc[b] = "send" /\ fd'[b] = fd[b] /\ fd[b] \in Dev
      BY <1>0, <1>4 DEF IInv, TypeOK, OpenFound, GoClient
    <3> QED
      BY <1>0, <2>2, <3>1 DEF WInv, Sockets, Socket, Dangling
  <2> QED
    BY <1>1, <1>2, <2>3, <2>5, <2>6 DEF WInv, Stages, Notes
<1>5. CASE /\ UNCHANGED story
           /\ \A d \in Dev : /\ Opened(d)' \subseteq Opened(d)
                             /\ Freeing(d) => Freeing(d)'
                             /\ Entering(d)' => Entering(d) \/ "node" \in has[d]
           /\ \A b \in Client : pc'[b] = "send" => pc[b] = "send" /\ fd'[b] = fd[b]
  <2>1. ASSUME NEW d \in Dev PROVE Stage(d)'
    BY <1>0, <1>3, <1>5, SameStage
  <2>2. ASSUME NEW d \in Dev PROVE Tale(d)'
    <3>1. UNCHANGED <<module, kernel, bus, cur, bound, has, init, story>>
      BY <1>0, <1>5 DEF owner
    <3>2. "node" \in has[d] /\ "cdev" \in has[d] => Current(d) \/ Dangling(d)
      <4>1. "node" \in has[d] /\ ~Current(d) => "failed" \in story[d]
        BY <1>3 DEF Stage, Left
      <4> QED
        BY <1>3, <4>1 DEF Tale, Odd, Dangling
    <3>3. /\ Opened(d)' # {} => Opened(d) # {}
          /\ Freeing(d) => Freeing(d)'
          /\ Entering(d)' => Entering(d) \/ "node" \in has[d]
      BY <1>5
    <3> QED
      BY <1>3, <3>1, <3>2, <3>3 DEF Tale, Odd, Dangling, Current, InProbe
  <2>3. Sockets'
    <3>1. UNCHANGED <<has, story>>
      BY <1>0, <1>5
    <3> QED
      BY <1>5, <3>1 DEF WInv, Sockets, Socket, Dangling
  <2> QED
    BY <1>1, <1>2, <2>1, <2>2, <2>3 DEF WInv, Stages, Notes
<1>6. ASSUME NEW d \in Dev, Lookup(c, d) PROVE WInv'
  <2>1. /\ UNCHANGED story
        /\ \A e \in Dev : /\ Opened(e)' = Opened(e)
                          /\ Freeing(e) => Freeing(e)'
                          /\ Entering(e)' => Entering(e) \/ e = d
        /\ \A b \in Client : pc'[b] = "send" => pc[b] = "send" /\ fd'[b] = fd[b]
    BY <1>0, <1>6 DEF Lookup, Opened, Freeing, Entering
  <2> QED
    BY <1>5, <1>6, <2>1 DEF Lookup
<1>7. CASE Closed(c) /\ UNCHANGED story /\ pc[c] \in {"open", "idle"}
  <2>1. /\ \A e \in Dev : /\ Opened(e)' \subseteq Opened(e)
                          /\ Freeing(e) => Freeing(e)'
                          /\ Entering(e)' => Entering(e)
        /\ \A b \in Client : pc'[b] = "send" => pc[b] = "send" /\ fd'[b] = fd[b]
    BY <1>0, <1>7 DEF Closed, Opened, Freeing, Entering
  <2> QED
    BY <1>5, <1>7, <2>1
<1>8. \/ \E d \in Dev : Lookup(c, d)
      \/ Closed(c) /\ UNCHANGED story /\ pc[c] \in {"open", "idle"}
      \/ /\ pc[c] = "open" /\ Finds("open", fd[c]) /\ {"cdev", "list"} \subseteq has[fd[c]]
         /\ OpenFound(c, fd[c])
  BY DEF File, Open, Close
<1> QED
  BY <1>4, <1>6, <1>7, <1>8

LEMMA AsyncWhole ==
  ASSUME IInv, WInv, Handler \/ Reporter \/ UNCHANGED vars PROVE WInv'
<1>0. /\ UNCHANGED <<owner, has, init, faults, story>> /\ UNCHANGED clients
      /\ hirq' = hirq \/ (hirq # Idle /\ hirq' \in {At("queue", hirq.dev), Idle})
           \/ \E d \in Dev : "irq" \in has[d] /\ hirq' = At("wake", d)
  BY Labels DEF Handler, Interrupt, HandlerWake, HandlerQueue, Reporter, WorkStart, WorkStep, Screen,
     ScreenStep, vars, async
<1>1. KernelParts'
  BY <1>0, SameKernel DEF IInv, TypeOK, WInv
<1>2. ASSUME NEW d \in Dev PROVE Stage(d)' /\ Tale(d)'
  <2>1. Stage(d) /\ Tale(d)
    BY DEF WInv, Stages, Notes
  <2>2. Stage(d)'
    BY <1>0, <2>1, SameStage
  <2>3. UNCHANGED <<module, kernel, bus, cur, bound, has, init, story>>
    BY <1>0 DEF owner
  <2>4. Tale(d)'
    BY <1>0, <2>1, <2>3, Quiet DEF Tale, Odd, Dangling, Current, InProbe
  <2> QED
    BY <2>2, <2>4
<1>3. Line'
  <2>1. CASE hirq' = hirq
    BY <1>0, <2>1 DEF WInv, Line
  <2>2. CASE hirq # Idle /\ hirq' \in {At("queue", hirq.dev), Idle}
    BY <1>0, <2>2, Labels DEF WInv, Line
  <2>3. ASSUME NEW d \in Dev, "irq" \in has[d], hirq' = At("wake", d) PROVE Line'
    BY <1>0, <2>3, Labels DEF Line
  <2> QED
    BY <1>0, <2>1, <2>2, <2>3
<1>4. Sockets'
  BY <1>0, SameSockets DEF IInv, WInv
<1> QED
  BY <1>1, <1>2, <1>3, <1>4 DEF WInv, Stages, Notes

LEMMA InductiveWhole == Spec => [](IInv /\ WInv)
<1>1. Init => IInv /\ WInv
  BY InitInv, InitWhole
<1>2. IInv /\ WInv /\ [Next]_vars => IInv' /\ WInv'
  <2> SUFFICES ASSUME IInv, WInv, [Next]_vars PROVE IInv' /\ WInv'
    OBVIOUS
  <2>1. WInv'
    <3>1. CASE ModuleInit \/ Probing
      BY <3>1, ModuleWhole, CreateWqWhole, ProbeWhole, ProbingWhole, ClearInitWhole, FbRegisterWhole,
         ErrFreeWhole DEF ModuleInit, Probing
    <3>2. CASE Removing \/ Leaving
      BY <3>2, ModuleWhole, StartWhole, RemovingWhole, RemoveListWhole DEF Removing, Leaving
    <3>3. CASE \E c \in Client : Ioctl(c) \/ File(c)
      BY <3>3, IoctlWhole, FileWhole
    <3>4. CASE Handler \/ Reporter \/ UNCHANGED vars
      BY <3>4, AsyncWhole
    <3> QED
      BY <3>1, <3>2, <3>3, <3>4 DEF Next
  <2> QED
    BY <2>1, NextInv
<1> QED
  BY <1>1, <1>2, PTL DEF Spec

(* silfp_open and every ioctl of silfp_ioctl find all they use of a device  *)
(* that is bound, whatever fails and whoever else opens, closes or uses it; *)
(* silfp_irq_handler does if the device was opened only once it was bound,  *)
(* and the work queue it needs is there but in the three cases named.       *)
THEOREM UsedIsWhole == Spec => []WholeWhileUsed
<1>1. IInv /\ WInv => WholeWhileUsed
  <2> SUFFICES ASSUME IInv, WInv PROVE WholeWhileUsed
    OBVIOUS
  <2>1. \A d \in Dev : Tale(d) /\ Stage(d)
    BY DEF WInv, Notes, Stages
  <2>2. ASSUME NEW c \in Client, fd[c] # NoDev, pc[c] = "open" => "cdev" \in has[fd[c]],
               "late" \notin story[fd[c]], ~Dangling(fd[c])
        PROVE  Finds(pc[c], fd[c])
    <3>1. fd[c] \in Dev /\ pc[c] # "closed" /\ pc[c] \in ClientLabel
      BY <2>2 DEF IInv, TypeOK
    <3>2. pc[c] # "open" => fd[c] = bound \/ InProbe(fd[c])
      <4>1. pc[c] # "open" => Opened(fd[c]) # {}
        BY <3>1 DEF Opened
      <4> QED
        BY <2>1, <2>2, <3>1, <4>1 DEF Tale
    <3>3. pc[c] = "open" => Current(fd[c])
      BY <2>1, <2>2, <3>1 DEF Tale, Entering
    <3>4. {"text", "mem"} \subseteq has[fd[c]]
      BY <3>1, <3>2, <3>3 DEF IInv, Parts, Current, InProbe
    <3>5. pc[c] = "init_dt" => "spi" \in has[fd[c]]
      BY <2>1, <3>1, <3>2 DEF Stage
    <3>6. pc[c] = "send" => "sock" \in has[fd[c]]
      BY <2>2 DEF WInv, Sockets, Socket
    <3> QED
      BY <3>1, <3>4, <3>5, <3>6 DEF Finds, Needs, ClientLabel
  <2>3. ASSUME hirq # Idle, {"early", "late"} \cap story[hirq.dev] = {}
        PROVE  /\ Finds(hirq.at, hirq.dev)
               /\ hirq.at = "queue" => \/ "wq" \in kernel
                                       \/ "no_queue" \in story[hirq.dev]
                                       \/ module = "loading"
    <3>1. hirq.dev \in Dev /\ hirq.at \in {"wake", "queue"} /\ "irq" \in has[hirq.dev]
      BY <2>3 DEF IInv, TypeOK, Actor, HandlerLabel, WInv, Line
    <3>2. hirq.dev = bound
      BY <2>1, <2>3, <3>1 DEF Tale, Odd
    <3>3. {"text", "mem", "wakelock"} \subseteq has[hirq.dev]
      BY <2>1, <3>1, <3>2 DEF Stage, IInv, Parts, Current
    <3>4. module \in {"loading", "in"}
      BY <3>1, <3>2, DevAssumption DEF IInv, TypeOK, Places, BusLabel
    <3> QED
      BY <2>1, <3>1, <3>2, <3>3, <3>4 DEF Tale, Finds, Needs
  <2> QED
    BY <2>2, <2>3 DEF WholeWhileUsed
<1> QED
  BY <1>1, InductiveWhole, PTL

(* silfp_dev_exit and the error paths of silfp_dev_init, silfp_probe and    *)
(* silfp_remove leave no more behind than GivenBack says.                   *)
THEOREM LeftBehind == Spec => []GivenBack
<1>1. IInv /\ WInv => GivenBack
  <2> SUFFICES ASSUME IInv, WInv, module = "out" PROVE GivenBack
    BY DEF GivenBack
  <2>1. bus = "idle" /\ bound = NoDev /\ cur = NoDev /\ NoDev \notin Dev
    BY DevAssumption DEF IInv, TypeOK, Places, BusLabel, ProbeLabel, RemoveLabel
  <2>2. kernel \subseteq {"major"} \cup (IF faults > 0 THEN {"lost_wq"} ELSE {})
    BY DEF IInv, TypeOK, WInv, KernelParts
  <2>3. ASSUME NEW d \in Dev PROVE has[d] \subseteq Left(d) /\ "text" \notin has[d]
    BY <2>1 DEF Current, IInv, Parts, WInv, Stages, Stage
  <2> QED
    BY <2>2, <2>3 DEF GivenBack, Left
<1> QED
  BY <1>1, InductiveWhole, PTL
=============================================================================

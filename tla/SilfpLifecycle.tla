--------------------------- MODULE SilfpLifecycle ---------------------------
(***************************************************************************)
(* The life of the sensor driver and of its devices                        *)
(* (kernel/drivers/silead/silead_fp_platform.c): loading and unloading the *)
(* module, probe with its error paths, remove, open and release, and who   *)
(* still uses a device meanwhile: ioctls, the interrupt handler, the work  *)
(* it queues and the screen notifier.                                      *)
(*                                                                         *)
(* What matters of a device (struct silfp_data) is which of its parts are  *)
(* there.  A step that needs a part that is gone is a fault of the kernel: *)
(* whoever was about to take it stays where it is.  The bus serialises     *)
(* probe, remove, loading and unloading; device_list_lock makes each list  *)
(* operation of open, release, probe and remove one step (the one of       *)
(* probe's error path is not under the lock, l.1299, and is taken to be    *)
(* one too).  SilfpDriver has the inside of INIT and DEINIT.               *)
(***************************************************************************)
EXTENDS Naturals, FiniteSets

CONSTANTS
  Dev,       \* the device structures that probe may allocate
  Client,    \* processes that open the device
  NoDev,
  MaxInit,   \* bound: INITs counted by one device
  MaxFault   \* bound: steps that fail

ASSUME DevAssumption == NoDev \notin Dev /\ IsFiniteSet(Dev) /\ IsFiniteSet(Client)
ASSUME BoundAssumption == MaxInit \in Nat \ {0} /\ MaxFault \in Nat

VARIABLES
  module,    \* what the kernel knows of the module: out, loading, in, leaving
  kernel,    \* what module init holds: major number, class, driver, work queue
  bus,       \* where probe, remove, module init or module exit is
  cur,       \* the device that probe or remove is working on
  bound,     \* the driver data of the platform device
  has,       \* the parts of each device that are there
  users,     \* fp_dev->users
  init,      \* fp_dev->init
  pc, fd,    \* where each client is, and the device of its file
  hirq,      \* the interrupt handler
  queued,    \* devices whose work is queued
  worker,    \* the work queue's thread
  notifier,  \* the frame buffer's notifier chain
  faults,
  story      \* auxiliary: what was out of the ordinary in a device's life

owner   == <<module, kernel, bus, cur, bound>>
clients == <<pc, fd>>
async   == <<hirq, queued, worker, notifier>>
vars    == <<owner, has, users, init, clients, async, faults, story>>

-----------------------------------------------------------------------------
(* The parts of a device.  "text" is the code of the module it came with.   *)
Part == {"text", "mem", "spi", "wakelock", "region", "node", "list", "cdev",
         "sock", "notif", "irq"}

ProbeLabel  == {"devt", "node", "cdev", "init", "sock", "notif", "err_list", "err_free"}
RemoveLabel == {"r_wake", "r_spi", "r_notif", "r_wq", "r_sock", "r_list"}
BusLabel    == {"idle", "class", "register", "probe", "wq", "unload"} \cup ProbeLabel \cup RemoveLabel
ClientLabel == {"closed", "open", "idle", "init_dt", "free_irq", "send"}
HandlerLabel  == {"wake", "queue"}
ReporterLabel == {"check", "send"}

Happening == {"failed", "early", "late", "no_queue"}

At(label, d) == [at |-> label, dev |-> d]
Idle == At("idle", NoDev)
Actor(labels) == {Idle} \cup [at : labels, dev : Dev]

(* The parts that the step at a label reads or writes.                      *)
Needs(label) ==
  {"text", "mem"} \cup
  CASE label = "init_dt" -> {"spi"}
    [] label = "send" -> {"sock"}
    [] label = "wake" -> {"wakelock"}
    [] OTHER -> {}

Finds(label, d) == Needs(label) \subseteq has[d]

Gain(d, parts) == has' = [has EXCEPT ![d] = @ \cup parts]
Lose(d, parts) == has' = [has EXCEPT ![d] = @ \ parts]
Note(d, what)  == story' = [story EXCEPT ![d] = @ \cup what]
Fault == faults < MaxFault /\ faults' = faults + 1

Opened(d) == {c \in Client : fd[c] = d /\ pc[c] \notin {"closed", "open"}}

Init ==
  /\ module = "out" /\ kernel = {}
  /\ bus = "idle" /\ cur = NoDev /\ bound = NoDev
  /\ has = [d \in Dev |-> {}]
  /\ users = [d \in Dev |-> 0]
  /\ init = [d \in Dev |-> 0]
  /\ pc = [c \in Client |-> "closed"]
  /\ fd = [c \in Client |-> NoDev]
  /\ hirq = Idle /\ queued = {} /\ worker = Idle /\ notifier = Idle
  /\ faults = 0
  /\ story = [d \in Dev |-> {}]

-----------------------------------------------------------------------------
(* Module init: silfp_dev_init.  unregister_chrdev of the error paths names *)
(* the major number 0 and releases nothing.                                 *)
Fresh == {d \in Dev : has[d] = {}}

Load ==
  /\ bus = "idle" /\ module = "out" /\ Fresh # {}
  /\ module' = "loading"
  /\ kernel' = kernel \cup {"major"}
  /\ bus' = "class"
  /\ UNCHANGED <<cur, bound, has, users, init, clients, async, faults, story>>

CreateClass ==
  /\ bus = "class"
  /\ \/ /\ kernel' = kernel \cup {"class"}
        /\ bus' = "register"
        /\ UNCHANGED <<module, faults>>
     \/ /\ Fault
        /\ module' = "out" /\ bus' = "idle"
        /\ UNCHANGED kernel
  /\ UNCHANGED <<cur, bound, has, users, init, clients, async, story>>

Register ==
  /\ bus = "register"
  /\ \/ /\ kernel' = kernel \cup {"driver"}
        /\ bus' = "probe"
        /\ UNCHANGED <<module, faults>>
     \/ /\ Fault
        /\ kernel' = kernel \ {"class"}
        /\ module' = "out" /\ bus' = "idle"
  /\ UNCHANGED <<cur, bound, has, users, init, clients, async, story>>

(* The result of create_singlethread_workqueue is not tested.               *)
CreateWq ==
  /\ bus = "wq"
  /\ \/ kernel' = kernel \cup {"wq"} /\ UNCHANGED <<faults, story>>
     \/ /\ Fault
        /\ UNCHANGED kernel
        /\ IF bound # NoDev THEN Note(bound, {"no_queue"}) ELSE UNCHANGED story
  /\ module' = "in" /\ bus' = "idle"
  /\ UNCHANGED <<cur, bound, has, users, init, clients, async>>

-----------------------------------------------------------------------------
(* silfp_probe, called by platform_driver_register or by a later bind.      *)
Bind ==
  /\ bus = "idle" /\ module = "in" /\ bound = NoDev /\ Fresh # {}
  /\ bus' = "probe"
  /\ UNCHANGED <<module, kernel, cur, bound, has, users, init, clients, async, faults, story>>

Probed == IF module = "loading" THEN "wq" ELSE "idle"

Probe ==
  /\ bus = "probe"
  /\ \/ \E d \in Fresh :
          /\ cur' = d
          /\ Gain(d, {"text", "mem", "spi", "wakelock"})
          /\ bus' = "devt"
          /\ IF module = "in" /\ "wq" \notin kernel THEN Note(d, {"no_queue"}) ELSE UNCHANGED story
          /\ UNCHANGED faults
     \/ Fault /\ bus' = Probed /\ UNCHANGED <<cur, has, story>>
  /\ UNCHANGED <<module, kernel, bound, users, init, clients, async>>

(* One step of probe: it adds parts, or fails into an error path.           *)
ProbeStep(label, parts, next, onError) ==
  /\ bus = label
  /\ \/ Gain(cur, parts) /\ bus' = next /\ UNCHANGED faults
     \/ Fault /\ bus' = onError /\ UNCHANGED has
  /\ UNCHANGED <<module, kernel, cur, bound, users, init, clients, async, story>>

AllocDevt  == ProbeStep("devt", {"region"}, "node", "err_free")
DeviceNode == ProbeStep("node", {"node", "list"}, "cdev", "err_free")
CdevAdd    == ProbeStep("cdev", {"cdev"}, "init", "err_list")

(* From cdev_add on a client can open the device and call INIT.             *)
ClearInit ==
  /\ bus = "init"
  /\ init' = [init EXCEPT ![cur] = 0]
  /\ bus' = "sock"
  /\ UNCHANGED <<module, kernel, cur, bound, has, users, clients, async, faults, story>>

NetlinkInit == ProbeStep("sock", {"sock"}, "notif", "err_list")

FbRegister ==
  /\ bus = "notif"
  /\ Gain(cur, {"notif"})
  /\ bound' = cur /\ cur' = NoDev
  /\ bus' = Probed
  /\ UNCHANGED <<module, kernel, users, init, clients, async, faults, story>>

ErrList ==
  /\ bus = "err_list"
  /\ Lose(cur, {"list"})
  /\ bus' = "err_free"
  /\ UNCHANGED <<module, kernel, cur, bound, users, init, clients, async, faults, story>>

(* Mutant: the region of device numbers is not released.                    *)
ErrFree_Region ==
  /\ bus = "err_free"
  /\ Lose(cur, {"spi", "mem"})
  /\ Note(cur, IF "cdev" \in has[cur] THEN {"failed", "early"} ELSE {"failed"})
  /\ cur' = NoDev
  /\ bus' = Probed
  /\ UNCHANGED <<module, kernel, bound, users, init, clients, async, faults>>

(* The node, the wake locks and the cdev inside the freed memory stay.      *)
ErrFree ==
  /\ bus = "err_free"
  /\ Lose(cur, {"region", "spi", "mem"})
  /\ Note(cur, IF "cdev" \in has[cur] THEN {"failed", "early"} ELSE {"failed"})
  /\ cur' = NoDev
  /\ bus' = Probed
  /\ UNCHANGED <<module, kernel, bound, users, init, clients, async, faults>>

-----------------------------------------------------------------------------
(* silfp_remove, called by an unbind or by platform_driver_unregister.  The *)
(* module cannot be unloaded while a file is open.                          *)
Reached(d) == users[d] > 0 \/ init[d] > 0 \/ \E c \in Client : pc[c] = "open" /\ fd[c] = d

StartRemove ==
  /\ cur' = bound /\ bound' = NoDev
  /\ bus' = "r_wake"
  /\ IF Reached(bound) THEN Note(bound, {"late"}) ELSE UNCHANGED story

Unbind ==
  /\ bus = "idle" /\ module = "in" /\ bound # NoDev
  /\ StartRemove
  /\ UNCHANGED <<module, kernel, has, users, init, clients, async, faults>>

Unload ==
  /\ bus = "idle" /\ module = "in"
  /\ \A d \in Dev : Opened(d) = {}
  /\ module' = "leaving"
  /\ IF bound # NoDev THEN StartRemove ELSE bus' = "unload" /\ UNCHANGED <<cur, bound, story>>
  /\ UNCHANGED <<kernel, has, users, init, clients, async, faults>>

RemoveWake ==
  /\ bus = "r_wake"
  /\ Lose(cur, {"wakelock"})
  /\ bus' = "r_spi"
  /\ UNCHANGED <<module, kernel, cur, bound, users, init, clients, async, faults, story>>

RemoveSpi ==
  /\ bus = "r_spi"
  /\ Lose(cur, {"spi"})
  /\ bus' = "r_notif"
  /\ UNCHANGED <<module, kernel, cur, bound, users, init, clients, async, faults, story>>

(* silfp_exit.  fb_unregister_client waits for a notifier that is running,  *)
(* destroy_workqueue for the work that is queued or running.                *)
RemoveNotif ==
  /\ bus = "r_notif"
  /\ notifier = Idle
  /\ Lose(cur, {"notif"})
  /\ bus' = "r_wq"
  /\ UNCHANGED <<module, kernel, cur, bound, users, init, clients, async, faults, story>>

(* Mutant: the work queue is not waited for.                                *)
RemoveWq_NoDrain ==
  /\ bus = "r_wq"
  /\ kernel' = kernel \ {"wq"}
  /\ bus' = "r_sock"
  /\ UNCHANGED <<module, cur, bound, has, users, init, clients, async, faults, story>>

RemoveWq ==
  /\ bus = "r_wq"
  /\ "wq" \in kernel => queued = {} /\ worker = Idle
  /\ kernel' = kernel \ {"wq"}
  /\ bus' = "r_sock"
  /\ UNCHANGED <<module, cur, bound, has, users, init, clients, async, faults, story>>

RemoveSock ==
  /\ bus = "r_sock"
  /\ Lose(cur, {"sock"})
  /\ bus' = "r_list"
  /\ UNCHANGED <<module, kernel, cur, bound, users, init, clients, async, faults, story>>

Removed ==
  /\ cur' = NoDev
  /\ bus' = IF module = "leaving" THEN "unload" ELSE "idle"
  /\ IF Reached(cur) THEN Note(cur, {"late"}) ELSE UNCHANGED story
  /\ UNCHANGED <<module, kernel, bound, users, init, clients, async, faults>>

(* Mutant: the memory is freed under open files.                            *)
RemoveList_Frees ==
  /\ bus = "r_list"
  /\ Lose(cur, {"list", "node", "mem"})
  /\ Removed

(* Under device_list_lock.  The region and the cdev stay.                   *)
RemoveList ==
  /\ bus = "r_list"
  /\ Lose(cur, {"list", "node"} \cup IF users[cur] = 0 THEN {"mem"} ELSE {})
  /\ Removed

(* silfp_dev_exit: the major number stays, and so does the work queue of a  *)
(* module that never removed a device, of which the next one knows nothing. *)
Unloaded ==
  /\ bus = "unload"
  /\ kernel' = (kernel \ {"driver", "class", "wq"})
                 \cup (IF "wq" \in kernel THEN {"lost_wq"} ELSE {})
  /\ has' = [d \in Dev |-> has[d] \ {"text"}]
  /\ module' = "out" /\ bus' = "idle"
  /\ UNCHANGED <<cur, bound, users, init, clients, async, faults, story>>

-----------------------------------------------------------------------------
(* Clients.  The path of the node is looked up before silfp_open runs.      *)
GoClient(c, label) == pc' = [pc EXCEPT ![c] = label] /\ UNCHANGED fd
Closed(c) == pc' = [pc EXCEPT ![c] = "closed"] /\ fd' = [fd EXCEPT ![c] = NoDev]

Lookup(c, d) ==
  /\ pc[c] = "closed"
  /\ "node" \in has[d]
  /\ pc' = [pc EXCEPT ![c] = "open"]
  /\ fd' = [fd EXCEPT ![c] = d]
  /\ UNCHANGED <<owner, has, users, init, async, faults, story>>

(* When a client came to open the device, if not between probe and remove.  *)
OpenedWhen(d) ==
  IF bus \in RemoveLabel THEN {"late"}
  ELSE IF d # bound THEN {"early"} ELSE {}

(* Mutant: the user is not counted.                                         *)
OpenFound_NoCount(c, d) ==
  /\ GoClient(c, "idle")
  /\ Note(d, OpenedWhen(d))
  /\ UNCHANGED users

OpenFound(c, d) ==
  /\ users' = [users EXCEPT ![d] = @ + 1]
  /\ GoClient(c, "idle")
  /\ Note(d, OpenedWhen(d))

(* Opening the cdev takes a reference to the module, which fails while the  *)
(* module leaves; silfp_open then looks for the device in device_list.      *)
Open(c) ==
  /\ pc[c] = "open"
  /\ LET d == fd[c] IN
     \/ /\ "cdev" \in has[d] => Finds("open", d)
        /\ ~({"cdev", "list"} \subseteq has[d] /\ module \in {"loading", "in"})
        /\ Closed(c) /\ UNCHANGED <<users, story>>
     \/ /\ Finds("open", d)
        /\ {"cdev", "list"} \subseteq has[d] /\ module \in {"loading", "in"}
        /\ OpenFound(c, d)
  /\ UNCHANGED <<owner, has, init, async, faults>>

(* silfp_release frees nothing, not even a device that was removed.         *)
Close(c) ==
  /\ pc[c] = "idle" /\ Finds("close", fd[c])
  /\ users' = [users EXCEPT ![fd[c]] = @ - 1]
  /\ Closed(c)
  /\ UNCHANGED <<owner, has, init, async, faults, story>>

(* INIT and DEINIT are issued one at a time, as in SilfpDriver.             *)
Calls(c) == pc[c] = "idle" /\ Finds("idle", fd[c])
Alone == \A c \in Client : pc[c] \notin {"init_dt", "free_irq"}

Initialise(c) ==
  /\ Calls(c) /\ Alone
  /\ \/ /\ init[fd[c]] \in 1 .. MaxInit - 1
        /\ init' = [init EXCEPT ![fd[c]] = @ + 1]
        /\ UNCHANGED clients
     \/ /\ init[fd[c]] = 0
        /\ GoClient(c, "init_dt")
        /\ UNCHANGED init
  /\ UNCHANGED <<owner, has, users, async, faults, story>>

(* The device tree of fp_dev->spi, and everything INIT acquires.  A second  *)
(* device cannot request the line that a first one still holds.             *)
InitDt(c) ==
  /\ pc[c] = "init_dt" /\ Finds("init_dt", fd[c])
  /\ \/ /\ \A d \in Dev : "irq" \notin has[d]
        /\ Gain(fd[c], {"irq"})
        /\ init' = [init EXCEPT ![fd[c]] = 1]
        /\ UNCHANGED faults
     \/ /\ \/ (\E d \in Dev : "irq" \in has[d]) /\ UNCHANGED faults
           \/ Fault
        /\ UNCHANGED <<has, init>>
  /\ GoClient(c, "idle")
  /\ UNCHANGED <<owner, users, async, story>>

(* silfp_netlink_send tests the socket before it sends through it.          *)
Sends(d) == IF "sock" \in has[d] THEN "send" ELSE "idle"

Deinit(c) ==
  /\ Calls(c) /\ Alone /\ init[fd[c]] > 0
  /\ init' = [init EXCEPT ![fd[c]] = @ - 1]
  /\ GoClient(c, IF init[fd[c]] = 1 THEN "free_irq" ELSE Sends(fd[c]))
  /\ UNCHANGED <<owner, has, users, async, faults, story>>

(* Mutant: the line is kept.                                                *)
FreeIrq_Kept(c) ==
  /\ pc[c] = "free_irq" /\ Finds("free_irq", fd[c])
  /\ hirq.dev # fd[c]
  /\ GoClient(c, Sends(fd[c]))
  /\ UNCHANGED <<owner, has, users, init, async, faults, story>>

(* free_irq waits for the handler.                                          *)
FreeIrq(c) ==
  /\ pc[c] = "free_irq" /\ Finds("free_irq", fd[c])
  /\ hirq.dev # fd[c]
  /\ Lose(fd[c], {"irq"})
  /\ GoClient(c, Sends(fd[c]))
  /\ UNCHANGED <<owner, users, init, async, faults, story>>

(* SCR_STATUS with no argument: silfp_netlink_send.                         *)
Ask(c) ==
  /\ Calls(c)
  /\ Sends(fd[c]) = "send"
  /\ GoClient(c, "send")
  /\ UNCHANGED <<owner, has, users, init, async, faults, story>>

Send(c) ==
  /\ pc[c] = "send" /\ Finds("send", fd[c])
  /\ GoClient(c, "idle")
  /\ UNCHANGED <<owner, has, users, init, async, faults, story>>

-----------------------------------------------------------------------------
(* silfp_irq_handler and silfp_work_func.                                   *)
Interrupt(d) ==
  /\ hirq = Idle /\ "irq" \in has[d]
  /\ hirq' = At("wake", d)
  /\ UNCHANGED <<owner, has, users, init, clients, queued, worker, notifier, faults, story>>

(* Unless irq_ignore is set: a wake lock, then the work.                    *)
HandlerWake ==
  /\ hirq.at = "wake" /\ Finds("wake", hirq.dev)
  /\ hirq' \in {At("queue", hirq.dev), Idle}
  /\ UNCHANGED <<owner, has, users, init, clients, queued, worker, notifier, faults, story>>

HandlerQueue ==
  /\ hirq.at = "queue" /\ Finds("queue", hirq.dev)
  /\ "wq" \in kernel
  /\ queued' = queued \cup {hirq.dev}
  /\ hirq' = Idle
  /\ UNCHANGED <<owner, has, users, init, clients, worker, notifier, faults, story>>

(* A reporter tests the socket and then sends through it, or gives up.      *)
Reported(r) ==
  IF r.at = "check" /\ "sock" \in has[r.dev] THEN At("send", r.dev) ELSE Idle

WorkStart(d) ==
  /\ d \in queued /\ worker = Idle
  /\ queued' = queued \ {d}
  /\ worker' = At("check", d)
  /\ UNCHANGED <<owner, has, users, init, clients, hirq, notifier, faults, story>>

WorkStep ==
  /\ worker # Idle /\ Finds(worker.at, worker.dev)
  /\ worker' = Reported(worker)
  /\ UNCHANGED <<owner, has, users, init, clients, hirq, queued, notifier, faults, story>>

(* silfp_fb_callback.                                                       *)
Screen(d) ==
  /\ notifier = Idle /\ "notif" \in has[d]
  /\ notifier' = At("check", d)
  /\ UNCHANGED <<owner, has, users, init, clients, hirq, queued, worker, faults, story>>

ScreenStep ==
  /\ notifier # Idle /\ Finds(notifier.at, notifier.dev)
  /\ notifier' = Reported(notifier)
  /\ UNCHANGED <<owner, has, users, init, clients, hirq, queued, worker, faults, story>>

-----------------------------------------------------------------------------
ModuleInit == Load \/ CreateClass \/ Register \/ CreateWq
Probing  == \/ Bind \/ Probe \/ AllocDevt \/ DeviceNode \/ CdevAdd \/ ClearInit \/ NetlinkInit
            \/ FbRegister \/ ErrList \/ ErrFree
Removing == RemoveWake \/ RemoveSpi \/ RemoveNotif \/ RemoveWq \/ RemoveSock \/ RemoveList
Leaving  == Unbind \/ Unload \/ Unloaded
Ioctl(c) == Initialise(c) \/ InitDt(c) \/ Deinit(c) \/ FreeIrq(c) \/ Ask(c) \/ Send(c)
File(c)  == (\E d \in Dev : Lookup(c, d)) \/ Open(c) \/ Close(c)
Handler  == (\E d \in Dev : Interrupt(d)) \/ HandlerWake \/ HandlerQueue
Reporter == \/ \E d \in Dev : WorkStart(d) \/ Screen(d)
            \/ WorkStep \/ ScreenStep

Next == \/ ModuleInit \/ Probing \/ Removing \/ Leaving
        \/ \E c \in Client : Ioctl(c) \/ File(c)
        \/ Handler \/ Reporter

Spec == Init /\ [][Next]_vars

-----------------------------------------------------------------------------
(* Every variable has its type.                                             *)
TypeOK ==
  /\ module \in {"out", "loading", "in", "leaving"}
  /\ kernel \subseteq {"major", "class", "driver", "wq", "lost_wq"}
  /\ bus \in BusLabel
  /\ cur \in Dev \cup {NoDev} /\ bound \in Dev \cup {NoDev}
  /\ bus \in ProbeLabel \cup RemoveLabel <=> cur # NoDev
  /\ has \in [Dev -> SUBSET Part]
  /\ users \in [Dev -> 0 .. Cardinality(Client)]
  /\ init \in [Dev -> 0 .. MaxInit]
  /\ pc \in [Client -> ClientLabel]
  /\ fd \in [Client -> Dev \cup {NoDev}]
  /\ \A c \in Client : pc[c] = "closed" <=> fd[c] = NoDev
  /\ hirq \in Actor(HandlerLabel)
  /\ queued \subseteq Dev
  /\ worker \in Actor(ReporterLabel) /\ notifier \in Actor(ReporterLabel)
  /\ faults \in 0 .. MaxFault
  /\ story \in [Dev -> SUBSET Happening]

(* A file was opened before the end of a probe that then failed.            *)
Dangling(d) == {"failed", "early"} \subseteq story[d]

(* The memory of a device is not freed under an open file, whenever it is   *)
(* removed, and the driver's count of users is the number of open files;    *)
(* only a file opened before the end of a probe that failed is dangling.    *)
MemoryWhileOpen ==
  \A d \in Dev :
    /\ users[d] = Cardinality(Opened(d))
    /\ Opened(d) # {} => {"text", "mem"} \subseteq has[d] \/ Dangling(d)

(* The notifier and the work queue never find their device or its socket    *)
(* gone, not even when the device is removed while it is in use; except for *)
(* work of a device whose probe failed after a client had opened it.        *)
ReportersSafe ==
  \A r \in {worker, notifier} \ {Idle} : Dangling(r.dev) \/ Finds(r.at, r.dev)

(* A device is complete for every open and every ioctl, unless it was in    *)
(* use when it was removed or its probe failed after a client had opened    *)
(* it.  It is complete for the interrupt handler, unless it was in use when *)
(* it was removed or opened before the end of its probe; the handler finds  *)
(* a work queue too, unless none was created, or an earlier device's        *)
(* removal destroyed it (platform.c:907), or module init has yet to create  *)
(* it (l.1391).                                                             *)
WholeWhileUsed ==
  /\ \A c \in Client :
       fd[c] # NoDev /\ (pc[c] = "open" => "cdev" \in has[fd[c]])
         => "late" \in story[fd[c]] \/ Dangling(fd[c]) \/ Finds(pc[c], fd[c])
  /\ hirq # Idle =>
       \/ {"early", "late"} \cap story[hirq.dev] # {}
       \/ /\ Finds(hirq.at, hirq.dev)
          /\ hirq.at = "queue" => \/ "wq" \in kernel
                                 \/ "no_queue" \in story[hirq.dev]
                                 \/ module = "loading"

(* What is left when the module is out: its major number; the cdev of every *)
(* device, with the device numbers of one whose probe succeeded, or the     *)
(* node and the wake locks of one whose probe failed; the memory and the    *)
(* interrupt line of a device that was in use when it was removed.          *)
GivenBack ==
  module = "out" =>
    /\ kernel \subseteq {"major"} \cup (IF faults > 0 THEN {"lost_wq"} ELSE {})
    /\ \A d \in Dev : has[d] \subseteq
         {"cdev"}
         \cup (IF "failed" \in story[d] THEN {"node", "wakelock"} ELSE {"region"})
         \cup (IF "late" \in story[d] THEN {"mem", "irq"} ELSE {})
         \cup (IF "early" \in story[d] THEN {"irq"} ELSE {})
=============================================================================

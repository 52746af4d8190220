# Verification of the Silead fingerprint stack

TLA+ models of the code in this repository, TLC configurations that check them
on small instances, and TLAPS proofs of their main properties.

    tlc -config MCTplStorage_crash.cfg MCTplStorage.tla      # one run
    tlapm TplStorageProofs.tla                               # the proofs of one module

Contents: 1 the system, 2 the modules, 3 the template store, 4 the sensor
driver, 5 the trusted application, 6 what was found, 7 plan, 8 what is out of
reach and what is not modelled.

## 1. The system

A fingerprint sensor is reached over SPI by a trusted application (TA); power,
reset, interrupt line and key events are the business of a kernel driver. A
client in the normal world (the HAL, not in this repository) talks to both:
ioctls and netlink messages with the driver, commands in a shared buffer with
the TA.

| component | code | state | operations |
|---|---|---|---|
| template store | `fp_storage.c`, `silead_fp_storage.c` | the table of templates in RAM and in two files, two files per template | init, load, save, update, remove, count a failed load |
| fingerprint session | `fp_impl.c` | frame buffers, configuration, the enrolment or authentication in progress, the ids the matching library holds | one function per command |
| TA commands | `fp_ta_entry_cmd.ic`, `fp_ta_entry_def.c`, `silead_ta_entry.c` | the response, and which buffers of the client the app can read | dispatch, one command at a time; map and unmap a buffer |
| TA SPI | `silead_fp_spi.c` | the device chosen, whether it is open | init, open, read, write, transfer, close |
| TA configuration | `silead_config.c` | the scalars and register tables in use | choose, encode, take over an update, release |
| driver: interrupts, reset, power | `silead_fp_platform.c`, `silead_fp_qcom.c` | users, the mask of the line, ignore flag, completion, work queue, supply, reset pin | INIT, DEINIT, RESET, ENABLE/DISABLE/CLR/WAIT_IRQ, PWDN; interrupt handler, work |
| driver: screen | `silead_fp_platform.c` | `scr_off`, the client's port, words in its socket | notifier, early suspend, SCR_STATUS |
| driver: keys | `silead_fp_platform.c` | input device, key map, keys that are down | KEY_EVENT, SET_KMAP, and INIT and DEINIT's part in them |
| driver: lifecycle | `silead_fp_platform.c` | devices and their parts, class, major number, work queue | module init/exit, probe, remove, open, release |
| driver: SPI clock | `silead_fp_qcom.c` | whether the clocks are on | SPICLK_ENABLE/DISABLE |
| driver: message queue | `silead_fp_platform.c` | queue of messages | read, poll (built without netlink only) |
| variants | `silead_fp_mtk.c`, `silead_fp_comm.c`, `silead_fp.c` | as above | compile-time alternatives |
| driver test | `spi_driver_test` | none | an interactive client of the ioctls |

How they interact. The client makes ioctls from several threads; `silfp_ioctl`
takes no lock. The interrupt handler completes `wait_queue` (which WAIT_IRQ
waits for) and queues a work item, which tells the client over netlink. The
client then sends commands to the TA, which reads the sensor and, on enrolment
and authentication, calls the store; the store calls the secure file system.
The TA is single threaded, serves one command at a time and can lose its RAM at
any instant: power loss, or the secure world restarting.

What makes each hard, and what makes it right:

* *template store*: power loss or a failed write between any two of up to six
  file operations of a call; decaying files; a table whose two copies disagree;
  eviction when it is full. Right when a call is atomic and durable, a call
  touches one finger only, and what the caller was told stays true.
* *interrupts, reset, power*: nesting `disable_irq`/`enable_irq`, a RESET that
  unmasks the line for its own pulse, interrupts that come meanwhile, error
  paths of a bring-up in six stages, tear-down while the handler runs. Right
  when the mask is balanced, each resource is released once, an accepted
  interrupt is reported and the sensor is powered when the driver says so.
* *session*: commands in any order, also after DEINIT or without it; a library
  whose enrolled set must agree with the store. Right when a match is always
  for a finger that is enrolled and buffers are neither leaked nor used freed.
* *TA SPI*: the device may be opened before it is chosen, and open may fail.
  Right when the device marked open is the one that was opened.
* *screen*: a notifier on one thread, a client that asks on another, messages
  that are dropped. Right when the client's last word on the screen is not
  older than what SCR_STATUS would answer.
* *keys*: the input device is replaced by SET_KMAP while keys are down. Right
  when no key stays pressed that was reported up.
* *TA commands*: a buffer is shared and given back around a command in four calls
  that can fail, with a `break` hidden in each macro. Right when each command has
  its own answer and no buffer stays shared.
* *TA configuration*: tables of an update travel one after the other without names, and some may
  not fit. Right when an update is taken over as a whole or not at all.
* *lifecycle*: descriptors that outlive the device, a device that is exposed
  before it is complete. Right when no operation reaches freed memory.

`PROJECT.json` lists every component with its status, and every hazard at its
line with the properties that cover it.

## 2. The modules

| module | what it is |
|---|---|
| `TplDb` | what the store promises: an atomic, durable map from finger to template |
| `TplStorage` | the store, one action per file operation |
| `TplStorageProofs` | theorems on `TplStorage`, with every fault |
| `TplStorageDbProofs` | what it promises when no write fails, up to implementing `TplDb` |
| `MCTplStorage` | instances for TLC: runs crash, rot, live, remove |
| `TplPromise` | `TplStorage` with the history of what the caller was promised |
| `MCTplPromise` | instance for TLC: run told |
| `SilfpDriver` | the driver: interrupts, reset, power, bring-up |
| `SilfpDriverProofs` | theorems on `SilfpDriver` |
| `MCSilfpDriver` | instances for TLC: runs share, reset |
| `SilfpLifecycle` | the life of module, devices and files, and who uses a device meanwhile |
| `SilfpLifecycleProofs` | theorems on `SilfpLifecycle` |
| `MCSilfpLifecycle` | instance for TLC: run life |
| `SilfpEvents` | what the driver passes on: the screen and the keys |
| `SilfpEventsProofs` | theorems on `SilfpEvents` |
| `MCSilfpEvents` | instance for TLC: run events |
| `TaSpi` | the trusted app's SPI device, as operators |
| `TaConfig` | its sensor configuration, who owns the tables, as operators |
| `TaSession` | its session, composed of `TaSpi` and `TaConfig`: buffers, enrolment, touches |
| `TaSessionProofs` | theorems on `TaSession` |
| `MCTaSession` | instance for TLC: run touches |
| `TaFingers` | its fingers: in the matching library, in the store's RAM table, on file |
| `TaFingersProofs` | theorems on `TaFingers` |
| `MCTaFingers` | instance for TLC: run users |
| `TaConfigWire` | a configuration as it is encoded, sent and taken over, as operators |
| `TaEntry` | the entry of a command with its shared buffer, composed with `TaConfigWire` |
| `TaEntryProofs` | theorems on `TaEntry` |
| `MCTaEntry` | instance for TLC: run entry |

How they fit. The driver shares no state with the trusted app (they meet only in
the client), so the two are not composed.

The driver's three modules are three views of `silead_fp_platform.c`, each in full
detail for its part and in one step for the others'. `SilfpDriver` has the
interrupt line, power and the stages of INIT and DEINIT. `SilfpLifecycle` has which parts of a
device exist; INIT there is two steps, and what it acquires is the interrupt
line. `SilfpEvents` has the netlink words on the screen and the input device; of INIT and DEINIT
only the input device. `init`, which all three have, obeys the same
guards in each.

Inside the app `TaFingers` and
`TplStorage` look at the same calls at two levels: `TplStorage` splits a call of
the store into file operations, for one database; `TaFingers` takes a call in one
step, failures included, and has what the session does around it, for several
databases. `TaSession` and `TaFingers` split the state of `fp_impl.c` in two
halves that no command makes depend on each other: a command that
`TaSession` refuses (no buffer, no configuration) is no step of `TaFingers`.
`TaEntry` is what happens around each of these commands: a step of `TaSession` or `TaFingers` is
its `Run`. What a command does is not repeated there, but for UPDATE_CFG, of which
`TaConfig` has who owns each table and `TaConfigWire` what is in it.

Each module keeps *mutants* beside the actions they mutate (`InitRead_NoRestore`
beside `InitRead`): the action with a plausible bug. No next-state relation
uses them; with one put in place of its action, TLC finds the property violated
that `PROJECT.json` names with it. They show that each property depends on the
code.

## 3. The template store

### State and actions

`ram` is `T_TPL_SET tpls`, with `inited` the `init_once` of the store.
`setsN`, `setsB` are the table files `silead.tpl` and `silead.bak`; `tplN`,
`tplB` the NORMAL and BACKUP files of each template. `pc` is the file operation
about to happen and `job` the call it belongs to. `todo` is the id list that
`fp_impl_load_user_db` walks and `loaded` the ids that the matching library
holds. `told` is auxiliary: what the last completed call on a finger said.

An action is one file operation with the RAM assignments around it, so that
power can be lost (`Crash`) between any two operations and in the middle of any
write. `fp_storage_update`, for example, is `UpdateLookup` (entry found? same
checksum?), `UpdateTplBackup`, `UpdateSetsBackup`, `UpdateSetsNormal`,
`UpdateTplNormal`. A write that fails (`ErrSetsN` and its like) may have left
the file as it was, written or unreadable; deleting a file may silently fail,
because `silfp_storage_remove_file` reports success in every case. `Rot` is a
template file that no longer matches its checksum.

The calls are those of `fp_impl.c`: `fp_impl_load_user_db` (which
initialises the store anew and loads each id), `fp_impl_enroll_end`,
`fp_impl_auth_end` (an update of a finger the library holds),
`fp_impl_remove_finger`. Nothing in the repository calls
`fp_storage_inc_fail_count`; `IncFailUsed` lets a run include it.

### Abstractions

* A checksum is the content it was computed from: no collisions. The real one
  is a short fold, and a decayed file that collides would be loaded.
* The name of a template file is its id, and `get_next_fid` draws any id that is
  not in the table. Slots are unordered: eviction takes any of the templates
  with the highest count, where the code takes the first.
* `num` and `db_id` are left out: `num` is recounted by `_storage_init`
  and read by nothing else; `db_id` changes exactly when the table is reset.
* Encryption of a file either works or is a failed write; a failed read is a
  file that decayed. Reads do not fail for a moment and then succeed.
* Adding a loaded template to the library succeeds, and the library then holds
  it until it is removed or everything is loaded again.
* The path of the files is fixed (a client could set another one between calls).
* `fp_storage_remove(0)`, which matches a free slot, is a hazard without a model.

### Runs

| run | faults | shows | states |
|---|---|---|---|
| crash | power loss anywhere, torn files | `StoreInv`, `LoadedSurvives`, `ImageKept`, and `ImplementsDb`: the store implements `TplDb` | 733 k |
| rot | power loss, 2 decayed files | `FailedIsUnreadable`, `OthersKept`, `RemovedStaysRemoved` | 244 k |
| told | 1 write error, power loss between writes | `PromiseKept` | 4.7 M |
| live | power loss, torn files, 1 write error, 2 decayed files, all calls, fair store | `TypeOK`, `CallReturns`, `UnreadablePurged` | 348 k |
| remove | 1 write error | `RemovedStaysRemoved` is violated (section 6) | |

Bounds. Two slots and three ids make a full table, an eviction and the reuse of
an id possible; two contents tell an old template from a new one. `MAX_LOAD_FAIL`
2 has a load that only counts and one that drops. `live` uses one slot and two
ids, as liveness is checked on every state without symmetry. Two decays reach both files
of one template, or one each of two. `TPL_MAX_ST < Cardinality(Fid)` is the code's situation:
ten slots, 32-bit ids. The code's `MAX_LOAD_FAIL` is 5.

What `PromiseKept` says. `promised` is every finger whose enrolment or update has reported
success; later calls and restarts do not end a promise, only its removal does, from the moment it is asked
for. One more case ends it: an update whose first write overwrites the BACKUP
file while the NORMAL one is not good, as an earlier write of it was only logged
(`fp_storage.c:457`, and `:455` for its table). Power lost in that write loses the template (section 6).

`CleanCrash` is TRUE where a run asks what write errors and power loss together do to the templates: power loss then
leaves the file being written as it was. A write error together with a torn file
can destroy both copies, and the code makes no attempt at that.

Fairness. `FairSpec` has weak fairness on `StoreStep` only: a command that was
made is served by a thread that runs. Nothing is assumed of the clients, and no fault is
fair. `UnreadablePurged` has its premise in the formula: loads of the database
complete again and again.

Deadlock is checked: the store can always take a call.

### Proofs (`TplStorageProofs`, `TplStorageDbProofs`)

In `TplStorageProofs`:

* `TypeCorrect`: `Spec => []TypeOK`, with every fault of the model and for all
  values of the constants that satisfy the named assumptions. The invariant
  that carries it is `TypeOK` with `JobInv` (at a label of a call the
  job is of that call and its id is a finger): without it the id that an action
  writes to could be `NoFid`. It shows too that a count never reaches
  `MAX_LOAD_FAIL`, the value at which the code drops the entry.
* `ImageNeverLost`: when no write fails (`MaxWriteErr = 0`) and
  nobody calls `fp_storage_inc_fail_count`, `Spec => ImageKept`: the store
  never leaves both table files unreadable, under power loss in the middle of any write
  and decaying template files. `ImageKept` speaks of one step, and is inductive only
  with `ImageInv`: between the BACKUP write and the NORMAL write the BACKUP is
  whole, at all other times of an initialised store the NORMAL is, and the
  branch that resets the database begins with no whole BACKUP.

In `TplStorageDbProofs`, for any ids, contents, slots and calls, and with power loss at
any operation and in the middle of any write. All assume `NoErrors` (no write
reports an error and nobody calls `fp_storage_inc_fail_count`): with a write error
`RemovedStaysRemoved`, and so the refinement, are false (run remove). Template files may decay
any number of times in the first four. The others assume `MaxRot = 0`: a template
whose files have both decayed is gone, which no store can help.

* `StoreSafe` (`StoreInv`), `FailedUnreadable` (`FailedIsUnreadable`), `RemovedStays`
  (`RemovedStaysRemoved`), `OthersUntouched` (`OthersKept`).
* `LoadedSurvive` (`LoadedSurvives`): the library never holds a finger that a restart would not find.
* `Implements` (`ImplementsDb`): the initial state of the store maps to one of `TplDb`, and
  each file operation to the effect of the call, to its begin or end, or to a stutter.
  The effect of a save, an update or a removal is the write of the first table file a restart
  would believe, and that of power loss the end of the call.
* `Durable`: what a completed call told its caller of a finger is what a restart finds. It is
  an invariant of `TplDb`, carried over by `Implements`. `PromisesAreKept`
  (`PromiseKept`) says the same of a finger through later calls on it, from *KeepInv* below: as no
  write fails, some version of it is there at every instant.

None of these properties is inductive alone, as each speaks of the table a restart would read
(`Source`), and a call moves RAM, the BACKUP table and the NORMAL table one after the
other. *DbInv* says where each of them is at each label. *CopyInv*: which of the two files equals
RAM. *GapInv*: while the table that counts is behind RAM, they differ at the finger of the
call, and at others only in an entry that was evicted because it cannot be read. *FailInv*: an entry with a count, in
RAM or in `Source`, has no good file. *LoadInv*: what a load has still to visit and what it holds. *ToldInv*: a finger
that was reported gone is neither in RAM nor in `Source`. *KeepInv*, for the last four, adds that
a loaded finger's NORMAL file matches RAM or is just being rewritten (*Settled*), and that the
BACKUP file, or the old table with the old file, stands in for it meanwhile (*Spare*).
All were checked with TLC on the runs' instances before they were proved.

Checked by TLC only: `PromiseKept` with a write error (run told), where the two tables may disagree for as
long as nobody saves again; liveness.

## 4. The sensor driver

### `SilfpDriver`: state and actions

Each thread has the ioctl it is in (`call`), the place in it (`pc`) and the
local of SIFP_IOC_RESET that remembers `irq_is_disable` (`masked`). Fields of
the device keep their names: `init` (a counter), `irq` (whether the line's number
is known), `irq_is_disable`, `irq_ignore`, `power_is_off`, `pid`. `ports`,
`avdd_port`, `avdd`, `rst` are pins held and pin levels. `requested`, `depth`,
`latched` are the interrupt line inside the kernel, `hirq` the handler,
`queued` and `worker` the work queue, `done` the completion's count.

An action ends where another thread, the handler or the work queue can change or
see what the code goes on to use. `silfp_irq_enable` and `silfp_irq_disable`
hold `irq_lock` and are one step (`IrqEnable`, `IrqDisable`); a RESET is nine.
`free_irq` is two: the line goes, then it waits for a running handler
(`DeinitSync`). `InitFirst` to `InitSync` are the stages of
`silfp_resource_init`, each with its failure and error path; as in the code, the
ioctl ignores the status.

The kernel's parts are external and modelled from their use: a new
line is unmasked, `disable_irq` nests, an edge on a masked line or during its
handler is latched once, a work item is queued once.

### Abstractions

* Supply by GPIO with one supply (`avdd`). `silead_fp.h:171-173` leaves the choice
  of supply to the build. With pinctrl power-off does nothing.
* Wake locks, delays and messages other than the interrupt's are left out (those on the screen, and
  the goodbye, are in `SilfpEvents`). Unread messages are one message. `done` saturates at `MaxDone`, as at two pending
  completions nothing new can happen to one waiter.
* INIT and DEINIT are `Exclusive` in every run and in the proofs: a client makes
  them while it has no other call in progress. The driver has no defence against
  their overlap with anything, and users of it are single clients.
  In the run reset, RESET is exclusive as well: the hazards listed for lines 988 and 992 of
  `silead_fp_platform.c` are what happens otherwise.

### Runs

| run | calls | shows | states |
|---|---|---|---|
| share | 2 threads, all overlaps but of INIT and DEINIT, one step of INIT or one message that fails, fair | `TypeOK`, `MaskAgrees`, `IrqReported` | 734 k |
| reset | 2 threads, RESET exclusive, one failing resource, nested users, PWDN in its three modes, WAIT | `MaskAsAsked`, `PowerAgrees`, `HeldWhileUsed`, `ResetRaises`, `PulseUnheard` | 679 k |

`Send` delivers a message or drops it, as `silfp_netlink_send` does when no buffer can be
allocated or, since it does not wait (`MSG_DONTWAIT`), when the socket is full; nothing sends it again.
`IrqReported` therefore says of an accepted interrupt that a message reaches the client
or that one was dropped since, with no work left that could still report it (`lost`).
`HeldWhileUsed` knows one resource that an error path keeps (`kept`): the supply's pin, see section 6.

Bounds. Two threads make every overlap of two calls; three calls would only add overlaps of the same
steps on the same fields. `MaxInit` 2 has a nested user; one fault visits each
error path. `MaxDone` 1 has a completion and none; share has nobody who waits for one.

Fairness. Threads inside an ioctl, the handler and the work queue are scheduled
by the kernel; weak fairness on each. Edges, calls and the client's reading are
not fair.

Deadlock is not checked in these runs: with all threads in WAIT_IRQ and the line
masked, the system really stops, since WAIT_IRQ cannot be interrupted.

### Proofs (`SilfpDriverProofs`)

For any set of threads and any bounds, assuming
`CallAssumption` (INIT and DEINIT are exclusive). `IInv` conjoins `TypeOK` with
*Alone* (a thread in INIT or DEINIT is the only one in a call), *HeldAt* (what is
held at each label of INIT and DEINIT), *Settled* (with nobody in
INIT or DEINIT, what is held is held exactly for users), "a
requested line has a number" and `MaskAgrees`.

* `TypeCorrect`: `Spec => []TypeOK`.
* `MaskCorrect`: `Spec => []MaskAgrees`. Not inductive alone: INIT unmasks by
  `request_irq` after it has cleared `irq_is_disable`, and no one may mask in
  between, which is *Alone*.
* `HeldCorrect`: `Spec => []HeldWhileUsed`. Not inductive alone: it says nothing
  during INIT and DEINIT, which is what *HeldAt* is for. It has the supply's pin held for users or because of
  an INIT that got no interrupt pin.

`IInv` was checked with TLC first, with nested users and a failing resource.

Four theorems more assume `ResetAlone`, that RESET is exclusive too, as in run reset. Without it they are false: an ENABLE in the middle of a RESET is lost,
of two overlapping RESETs the first to end clears `irq_ignore` under the second's pulse (the hazard
at line 988), and a PWDN between power-on and the flag in a RESET leaves the two apart. All other calls still
overlap one another, the handler and the work queue overlap everything.

* `ResetGivesBack` (`MaskAsAsked`): a RESET leaves the line as masked as the client last asked for.
* `PowerCorrect` (`PowerAgrees`), `ResetCorrect` (`ResetRaises`), `ResetUnheard` (`PulseUnheard`).

`RInv` carries them. *Solo*: nobody else is in a call during INIT, DEINIT or RESET. *ResetAt* and
*OwnAt*: what holds at each place of RESET, and of INIT and PWDN, of the flag, the supply, the
reset pin and `masked`. The two agreements hold at all other places. `MaskAsAsked` is not inductive alone: between
the pulse and the end of a RESET the line is unmasked against the client's word, and only
`masked`, set several steps earlier, says that it will be masked again.

Checked by TLC only: `IrqReported` (liveness). The proofs are for any number of dropped messages.

### `SilfpLifecycle`: state and actions

`has` says which parts of each device (`struct silfp_data`) exist: its memory,
`spi`, wake locks, device numbers, node, place in `device_list`, cdev, socket,
notifier, interrupt line, and "text", the code of the module that made it. `users` and `init` are the
counters of that name. `bus` is the place in module init, probe, remove or
module exit, which the bus runs one at a time, and `cur` the device it works on; `kernel` is
what module init holds. Clients look a node up, open it, call INIT, DEINIT or
SCR_STATUS and close it. `hirq`, `queued` and `worker`, `notifier` are the handler,
the work queue and the frame buffer's notifier, each about to take a step on a device.

A step that needs a part that is gone (`Needs`) is a fault of the kernel; whoever
was about to take it stays there, and the state is what the properties forbid. `story` is
auxiliary: what was out of the ordinary in a device's life: its probe failed, it
was opened before the end of probe ("early") or while the module was loading, it was
in use when it was removed ("late"), or probed without a work queue ("no_queue").

Abstractions. A structure is never allocated at the address of an earlier one. INIT and
DEINIT come one at a time, as in `SilfpDriver`. The ioctls that are left out need
what an idle file needs. The proc node and wake locks at INIT are left out.

| run | instance | shows | states |
|---|---|---|---|
| life | 2 devices, 2 clients, 1 failing step | `TypeOK`, `MemoryWhileOpen`, `ReportersSafe`, `WholeWhileUsed`, `GivenBack` | 1.2 M |

Bounds. Two devices have the next one come while an old one is still open, or holds the
line; two clients have one close while the other uses. With a second failing step the
properties hold too (2.9 million states; not a run, for its time). `MaxInit`
1: nesting is in `SilfpDriver`. Deadlock is not checked: with every structure
used up and every actor in a fault, nothing is left to happen.

What the exceptions mean. A device is reachable as soon as `cdev_add` returns, some lines
before probe has finished with it, and the error path of probe frees it under whoever came
early: `MemoryWhileOpen`, `ReportersSafe` and the clients' half of `WholeWhileUsed` except those files, once the probe
has failed. Clients of a device that was in use when it was removed are excepted too: the guard that
`silfp_ioctl` announces is not there (section 6). The interrupt handler is excepted for a
device that was in use at its removal or opened early, as its line may then outlive it; and
it may find no work queue to queue its work on if none could be created, if another device's removal destroyed
the module's one (l.907), or while the driver is registered before module init has created it (l.1391). `GivenBack`
lists what the code leaves behind.

Proofs (`SilfpLifecycleProofs`), for any devices and clients and any number of
failures: `TypeCorrect`, `MemoryStays` (`MemoryWhileOpen`), `ReportersAlwaysSafe`
(`ReportersSafe`), `UsedIsWhole` (`WholeWhileUsed`) and `LeftBehind` (`GivenBack`): all five properties
of run life. The invariant of the first three is `TypeOK` with *Places* (where the bus can be
with which device), *Parts* (which parts a device has at each label of probe and
remove), *Files* (`users` counts the open files, and an open file's device has its
memory unless it is dangling) and *Reporters* (who may still run at each label of
remove, and what they find). `ReportersSafe` is not inductive alone: that the socket is still there
follows from where `remove` waits, which is *Reporters*.

The last two need *WInv* besides. *KernelParts*: what module init holds at each
place of the bus. *Stage*, of each device: which parts it has at each place of probe and
remove, and once it is neither bound nor being probed, that it has no more than its
`story` accounts for (*Left*). *Tale*: who uses a device that is not bound came early or stayed
late, and its line is requested for a user, for one who is freeing it or for one who came early. *Line*: a running
handler's line is requested. `GivenBack` speaks of the unloaded module only, and
`WholeWhileUsed` of the instant somebody steps; what makes them true is written into
`story` and `has` at probe, open and removal, long before.

### `SilfpEvents`: state and actions

`screen` is the screen, of which the notifier (`Blank`, then `BlankSend`) tells
the driver; `scr_off` what the driver holds of it; `client`, `queue`, `heard` a
client that connects, reads and dies, the words in its socket, and its last
word on the screen. SCR_STATUS reads `scr_off` (`Ask`) and then sends (`AskSend`), in any number
of threads. `init`, `input`, `bits`, `keymap` are the users, the input device with the codes it
announced, and the custom map; `down` what the input system holds for
pressed. KEY_EVENT is one report or two, each of which reads the map again; SET_KMAP
replaces the map, unregisters and registers the device in three steps.
`held` (keys last reported down) and `marks` are auxiliary.

Abstractions. INIT, DEINIT and SET_KMAP come one at a time, and so does KEY_EVENT, but
the two groups and SCR_STATUS overlap. `Mixes` are the events of one behaviour: the screen and
the keys share no state but `init`, so a run takes them in turn, where the proofs
take any mix. A copy of the key map from the client that fails may have changed the map. Codes
beyond the map's nine entries, and the two that SET_KMAP reads beyond the client's seven, are left out.

| run | instance | shows | states |
|---|---|---|---|
| events | 2 threads, 1 navigation key, 2 codes of which one is also reported raw, a socket of 2 words, 1 failing step | `TypeOK`, `LastWordStands`, `NoStuckKey`, `InputWhileUsed` | 76 k |

Bounds. Two threads have SCR_STATUS, KEY_EVENT, and SET_KMAP cross one another. Two codes have the custom map agree with the
built-in one or not. Two words fill the socket with old news, or with DISCONNECT. Deadlock is checked.

What the exceptions mean. `LastWordStands` says that once a client has read everything,
its last word on the screen is `screen`. Three marks excuse it: the screen has not
changed since probe (`scr_off` starts as "on"), the last word was dropped, or an
SCR_STATUS was between its read and its send when the screen changed. In the third
case the client ends with the older state, and nothing corrects it. `NoStuckKey` speaks of the moments when
no navigation key is held: nothing is pressed then but codes outside of the key map whose own last report was a down or a click.
A click of such a code is one report, with the flag 2 as its value, and so a press. It excuses a
SET_KMAP in the middle of a KEY_EVENT and one whose copy failed, `InputWhileUsed` a SET_KMAP without users
and one whose registration failed. With each mark dropped TLC finds the property violated.

Proofs (`SilfpEventsProofs`), for any threads, keys, maps and bounds: `TypeCorrect`, `LastWordTrue`,
`KeysReleased`, `InputForUsers`. The invariant is `TypeOK` with *InputInv* (what is
registered at each label of INIT, DEINIT and SET_KMAP, which come one at a time), *KeyInv* (a code that is
down is the code, under the map as it is, of a key that is held, and the report under way uses that map) and *ScreenInv*:
the word last sent, or about to be, is the screen. `LastWordStands` alone says nothing while a word is under way.

## 5. The trusted application

The app has one thread and answers one command before it reads the next, so a command
is one step, and interleaving is the order in which a client gives commands. The
hard part is that any order is possible, after refusals, without DEINIT and
across a restart of the app, while static variables live on.

### `TaSession`: state and actions

`spi` is `SPI_DEV`, `m_spi_opened` and what the secure OS has open, with two auxiliary fields: the devices
left open (`left`) and whether the device was chosen while another was open (`moved`); `cfg` is
the static `cf_set_t`, a table told by where it lies (constant array, heap or
nowhere); `pcfgs`, `fd` whether `m_pcfgs` and `m_spi_fd` are valid; `frames`
which image buffers are held and how many the library has lent; `bak` is
`buffer_bak`, the static sum of a touch's images, by the set of image numbers
summed up in it, whether anything else is in it, which images could not be summed up (`missed`) and
whether this touch has lost its buffer (`short`); `info` is `s_state_info`;
`touch` the step number a client gives next. `averaged` and `last` are auxiliary.

Actions are the commands of `fp_ta_entry_cmd.ic` that change this state:
`InitCmd`, `Deinit`, `UpdateCfg`, `CiCapture`, `CaptureImage`, `TestCapture`,
`TestSpeed`, `AuthStart`, `AuthStep`, `EnrollStart`, `EnrollStep`, `End`,
`StartBuffers` (those that only get buffers), two calls the library makes back
(`LibraryUpdateEx`, `ControlSpi`) and `Restart`. `AuthStep` has
`_impl_auth_step_reverse` as `ReverseAverage`: `SumUp`, `MatchAverage` at the last step,
`MatchImage` when it frees the sum early. A read through NULL sets `fault`,
after which only `Restart` is possible.

### `TaFingers`: state and actions

`loaded` is what the matching library holds, `ram` the store's RAM table (with
`failing`: entries whose count is not 0) and `table` the table file of each
database; `path` the database in use; `pre` is `m_pre_auth_fid`. Auxiliary:
`owner`, where a finger was enrolled; `seen`, the fingers matched since the last start or
end; `halfGone` and `strayed`, the two ways in which the code does lose
agreement (below). A call of the store is taken in one step with all its
outcomes: `Save` may succeed, fail with the finger in RAM and perhaps on file,
or fail with the slot already emptied.

### `TaEntry` and `TaConfigWire`: state and actions

`pc` is the next call of `fp_ta_entry`; `cmd` the command and the client's
buffer; `rsp` the response (`status`, and how many data fields this command has set);
`shared` says how far each buffer is with the secure OS: none, registered, readable.
`Register` and `Prepare` are the two calls of MAP_SHARED_BUFFER, `Open` and `Deregister` those of
UNMAP_SHARED_BUFFER, `Run` the command's function. `Command` and `Buffered` are the cases of the switch and
those with a buffer. `ran` and `stuck` (buffers not given back) are auxiliary.

`Encode` is `silfp_cfg_get_update_buffer` on the client's side: scalars, mask and lengths
of tables in a header, then the tables that fit; `Decode` is `silfp_cfg_update_config`. A table
is the sequence of its words, each told by its table and place, so that a table taken from a wrong place is
seen.

### Abstractions

* Which finger matches, how many images are still missing, whether a template is
  worth an update and whether memory is given are free choices of the library.
* The scalar values of a configuration, image contents and register traffic are
  left out; so are navigation, calibration, device info and the gain search.
* `m_spi_dev` and the transfer's configuration are data.
* The built-in configuration (`gsl7011a.h:468`, 0x83) retries a mismatch on an
  inverted image (`_impl_auth_step_reverse_grey`, no state); a client's configuration
  can choose averaging instead, which is what `Average` says and what run touches has.
* A new finger's id was never used before: `get_next_fid` draws 32-bit ids at random.
* The response of a command outlives it in the real buffer; here it is cleared when it is taken,
  which shows an answer that is not set as "stale".
* A client gives the length that was filled; one buffer is in use at a time.

### Runs

| run | instance | shows | states |
|---|---|---|---|
| users | 2 fingers, 2 databases, 1 slot | `TypeOK`, `DbsApart`, `LoadedInTable`, `UpdatedMatched` | 46 k |
| entry | all commands; 1 buffer, 2 tables with entries of 2 and 1 words, up to 2 entries; 1 failing call | `TypeOK`, `Answered`, `UpdateWhole` | 1.8 M |
| touches | averaging of 4 images, the first skipped; 1 table; 2 SPI devices, of which the client names one or none; sums, averages, opens and closes that fail | `TypeOK`, `AvgOfThisTouch`, `ConfigOwned`, `SpiAgrees`, `BuffersKept` | 1.2 M |

Bounds. Two databases and two fingers have a stale finger in the wrong one; one
slot is full after one enrolment, and the second finger comes while the first is
matched, or can be evicted. Four images, of which one is skipped, have a
first step, the third one at which the code may give the buffer back, one that follows it and a last; the built-in number is three.
`MaxLent` 1 lets INIT lose a buffer; more of them behave alike.
Tables are owned independently of one another; the one here is built in, and it is the one whose absence the code reads
through. In entry, two tables make one that is skipped before one that is
not; their entries differ in width, as register and parameter tables do.

No fairness is assumed and no liveness stated: nothing in this code waits. Deadlock is
checked: `Restart` and most commands are always possible.

What the exceptions in the properties mean. `LoadedInTable` excepts `halfGone`:
`fp_storage_remove` may fail after the entry is gone from RAM, and
`fp_impl_remove_finger` then leaves the finger in the library. `DbsApart` and
`UpdatedMatched` except `strayed`: LOAD_USER_DB sets the path first, and if it
then gets no buffer, RAM still holds the other user's table. `AvgOfThisTouch`
excepts a touch in which `buffer_bak` was refused, as a buffer granted at a later
step is not zeroed, one whose buffer was given back at the third image, and each image whose sum failed; of an average that
failed it says nothing, as none is matched then. `SpiAgrees` excepts the devices whose close failed and, when INIT chose
another device than the one that was open, those two. Each is listed as a hazard at its line.

### Proofs

`TaFingersProofs`, for any fingers, databases and number of slots:

* `TypeCorrect`: no table ever has more fingers than slots.
* `LoadedAlwaysInTable`: not inductive alone. When the store evicts an entry
  whose count is not 0, the library must not hold it (*FailingApart*), and while
  the RAM table has not been read the library holds nothing (*Unread*).
* `DbsStayApart`: needs *Known*, that a finger which was never enrolled is in no
  table, so that a new one gets one owner only.
* `OnlyMatchedUpdated`: from the two above and *MatchSeen*, `pre` is in `seen`.

`TaSessionProofs`, for any tables, devices and numbers:

* `TypeCorrect`: with it, that step numbers fit their byte. It needs `BlocksMatch` and, as `lent` is
  a natural number from which DEINIT subtracts, that no fewer buffers are lent than held.
* `BuffersAlwaysKept` (`BuffersKept`): from that same fact, and that what a command
  lends it also holds (*Keeps*).
* `SpiAlwaysAgrees` (`SpiAgrees`), whichever devices clients name and whichever opens and closes fail: an invariant of
  `spi` alone, which `AfterOpen`, `AfterClose` and `Chosen` each keep.
* `ConfigAlwaysOwned`: `BlocksMatch` is inductive with the type of `cfg`; the
  lemmas `ReplacedOwned` and `ReleasedOwned` say what each function of
  `silead_config.c` does to it.
* `AvgAlwaysOfThisTouch`, for any numbers of images and of skipped ones: not inductive alone.
  *SoFar* says what the sum holds while a touch is under way: the images from the
  first not skipped to the one before `touch`, less those missed, unless the touch has lost its buffer.

`TaEntryProofs`, for any buffers, tables and number of failures:

* `TypeCorrect`: with it, that a command that reads a buffer runs only while the app may read it.
* `AlwaysAnswered` (`Answered`): inductive with *Unanswered* (what the response is
  before a command's end), *Ran* (at which calls `ran` holds) and *OnlyOwn* (only the buffer
  of the command under way is with the secure OS, but for `stuck`). A request whose response has no room for a status
  ends unanswered, and has not run.

* `UpdatedWhole` (`UpdateWhole`), for any number of tables of any length. With *WireInv* (the buffer of
  UPDATE_CFG holds the encoding of some configuration in the room it was given) it comes down to the loops of
  `silead_config.c`, each a recursive function of the number of tables gone through. `NoneSkipped`: if all fits, the
  writer is after each table where the reader will be. `NeverOverrun`: if not, what was
  written is shorter than the length in the header, so the app's length check refuses it.
  `FilledStays` and `FoundWhole`: the reader finds each table whole.

The last takes an induction over the tables. `Induct` states it of a set of numbers and comes from
the well-foundedness of the naturals (`WFMin`); `LoopExists` shows that a loop has values at all.

## 6. What was found

Run remove shows a violation of what the code says of itself:

* **A removed finger comes back** (`fp_storage.c:731`).
  `fp_storage_remove` clears the RAM entry before it writes the tables. When the
  second write fails it reports the error; the retry finds no entry in RAM and
  reports success, "if the tpl not exist, then report success". The NORMAL table
  still has the entry and the NORMAL file is still there: the next load enrols
  the finger again.

What follows is plain from the code and is what the models do; no property
is stated against it, or a property excepts it by name.

Driver:

* PWDN_FLASH does not flash (`silead_fp_qcom.c:179`). The header
  of the test program says "shutdown avdd 200ms for H/W full reset"; `silfp_pwdn`
  tests its mode for zero only and leaves the supply off.
* A click is never lifted (`silead_fp_platform.c:679`): `silead_fp.h:101` says of a key's flag "key down = 1, key up = 0,
  key down+up = 2", but for a code outside of the key map the driver reports the flag itself as the value, once. The key
  stays pressed until it is reported up or the input device is replaced.
* Nothing guards an ioctl against a removal (line 958): the comments at lines 955 and 1319 promise a
  "guard against device removal before, or while, we issue this ioctl" and that "ops on existing fds can
  abort cleanly", but nothing looks at `fp_dev->spi`, and INIT on a file that stayed open reads the device tree through NULL
  (`silead_fp_qcom.c:403`).
* An INIT that is refused its interrupt pin (`silead_fp_qcom.c:442`) leaves the supply's pin requested until the next
  INIT frees it; and every INIT that fails once the supply is on leaves it on.
* A netlink message that cannot be allocated or finds the socket full is dropped (lines 275 to 296): an interrupt may
  go unreported until the next one.
* `cdev_add` (line 1279) makes a device reachable before probe clears `init`, creates the socket
  and registers the notifier; when a later step fails, probe frees the device under who
  opened it. One who has called INIT by then leaves its interrupt line, and with a second failure even its queued work
  runs on freed memory (`ReportersSafe` excepts it; found by TLC with two failures).
* Never given back: the major number and every cdev; the device numbers of a
  removed device; node and wake locks of a failed probe; the work queue of a module that
  never removed a device; a device that was open when it was removed. `RemoveWq` destroys
  the work queue of the module with the first device that is removed.
* SCR_STATUS reads the screen and then sends (line 1039): a change in between makes the older
  word the client's last.
* SET_KMAP (line 1061) changes the map, and replaces the input device, under a KEY_EVENT; without users
  it registers a device that the next INIT overwrites.

Trusted app:

* A template's only good copy is overwritten (`fp_storage.c:443`): after a failed write of the NORMAL file that
  `fp_storage_update` only logs (line 457), the next update writes the BACKUP file first, and power lost in that write loses the
  template. With two faults in a row the store promises nothing; `PromiseKept` excepts it.
* The average of a touch is divided by the number of images there should be, also when summing one up has failed, and a failed
  average is followed by a match of the last image (`fp_impl.c:632`, `:641`); both are only logged.
* An SPI device whose close fails is marked closed and stays open (`silead_fp_spi.c:68`).
* The wrong SPI device is opened (`silead_fp_spi.c:132`):
  `_fp_impl_init` opens the device before `fp_spi_init` takes its number from
  the client; the second open does nothing, and the log names a device that was never
  opened. DEINIT then closes the one that is not open.
* The default configuration is lost (`silead_config.c:263`): a table that was ever updated is NULL after DEINIT,
  and the next INIT hands the same structure out as the "default config".
* `fp_impl_enroll_end` stores the template before it looks at the client's status (`fp_impl.c:870`), so an
  enrolment ended with an error is answered with a storage error and enrolled at the next load.
* `fp_impl_test_image_capture` dereferences `m_pcfgs` nine lines before it tests it (line 1184).
* A buffer whose second map call fails stays registered; a second unmap call that
  fails leaves what was still to be answered unset, for GET_FINGERPRINTS the status itself.
* UPDATE_CFG answers success whatever became of the update; an update that has outgrown
  its buffer is encoded with the lengths of all tables, without those that did not fit, and it
  is the length check of the app alone that keeps it from being misread.

## 7. Plan

What comes next, in this order.

1. Proof on `TplPromise` of `PromiseKept` under one clean write error: an invariant of
   two tables that disagree at one finger until the next write of the table.
2. `TaFingers` shown to be implemented by `TplStorage` extended by a path: one
   call per step, the map from finger to template as in `TplDb`.
3. `TaCapture`: the gain search with its static `small`, finger detection whose
   status the capture overwrites, the step limits of `pb.agc`.
4. The template commands (LOAD_TEMPLATE, SAVE_TEMPLATE, UPDATE_TEMPLATE) and navigation.
5. `SilfpSpiClock`: the on and off counts of the clocks.

## 8. What is out of reach, and what is not modelled

Out of reach of the provers:

* Liveness under fairness (`CallReturns`, `UnreadablePurged`, `IrqReported`) is
  checked by TLC only: TLAPS does not prove it. The same holds for deadlock freedom
  and anything stated with ENABLED. The library's induction theorems take an operator as a parameter, which
  the provers cannot instantiate; where an induction over data was needed it is made over a set (`Induct` in
  `TaEntryProofs`).

Not proved, though within their reach: `PromiseKept` when a write reports an error.

Not modelled:

* The matching library, the token and HMAC code and the secure file system are
  binaries; they are modelled from their use. Device trees are data.
* `silead_fp_mtk.c`, `silead_fp_comm.c` and `silead_fp.c` are alternatives to
  the files modelled, not parts of the same build; so are early suspend, in place of the
  frame buffer's notifier, and the message queue with its read and poll, compiled only without
  netlink. `SIL_CAL_STORE` is not built.
* The SPI clocks: one flag, set around calls of a vendor's clock framework that
  is not in the repository. The proc node, which holds no state. Wake locks, but for where they are created and destroyed.
* Memory, log, token and utility functions of the app, which wrap the secure OS; the test
  program, which makes ioctls at a user's bidding.
* Delays, register contents, log output, and the sensor's own behaviour.
* Data races below the level of an assignment: RESET's reads of `irq_is_disable`
  without its lock are steps of their own, and the value read is some value written.

---------------------------- MODULE SilfpDriver ----------------------------
(***************************************************************************)
(* The sensor driver between its clients' ioctls and the interrupt line    *)
(* (kernel/drivers/silead/silead_fp_platform.c with silead_fp_qcom.c, GPIO *)
(* power supply, netlink messages).                                        *)
(*                                                                         *)
(* silfp_ioctl takes no lock, so the calls of different threads interleave *)
(* with each other, with the interrupt handler on another CPU and with the *)
(* work queue.  A step below ends where another of these can see or change *)
(* what the code goes on to use; silfp_irq_enable and silfp_irq_disable    *)
(* are one step each because of irq_lock.                                  *)
(*                                                                         *)
(* Modelled from their use, as parts of the kernel: the disable depth of   *)
(* the interrupt line and the edge it latches while masked, request_irq,   *)
(* free_irq, the work queue, completions.  Abstractions: the messages of   *)
(* one kind that the client has not read are one; the two supply pins are  *)
(* one; wake locks, delays and the calls that touch neither power, nor     *)
(* interrupts, nor bring-up are left out.                                  *)
(***************************************************************************)
EXTENDS Naturals, FiniteSets

CONSTANTS
  Thread,      \* threads of the driver's clients
  Calls,       \* the calls the clients make, and "hello" if they say it
  Exclusive,   \* calls the clients make only while no other is in progress
  MaxInit,     \* bound: nested INIT calls
  MaxDone,     \* bound: completions that are told apart
  MaxFault     \* bound: resources that INIT fails to get and messages that are dropped

Op == {"init", "deinit", "reset", "enable", "disable", "clr", "wait",
       "pwdn_none", "pwdn_poweroff", "pwdn_flash"}

(* Bring-up and tear-down are always exclusive: nothing in the driver would *)
(* make them safe against other calls.                                      *)
ASSUME CallAssumption == {"init", "deinit"} \subseteq Exclusive /\ Exclusive \subseteq Op
ASSUME BoundAssumption == MaxInit \in Nat /\ MaxDone \in Nat /\ MaxFault \in Nat

VARIABLES
  pc, call,          \* where each thread is, and in which ioctl
  masked,            \* what a RESET has read of irq_is_disable
  init,              \* users that have brought the device up
  irq,               \* the number of the interrupt line is known
  irq_is_disable, irq_ignore, power_is_off, done,
  ports, input,      \* interrupt and reset pins held; input device there
  avdd_port,         \* pin of the power supply held
  kept,              \* auxiliary: the last bring-up failed to get its interrupt pin
  avdd, rst,         \* the sensor is powered; its reset pin is high
  requested, depth, latched,   \* the interrupt line in the kernel
  hirq,              \* the interrupt handler
  queued, worker,    \* the work queue
  pid,               \* the client has said hello over netlink
  unread,            \* the client has yet to read of an interrupt
  lost,              \* auxiliary: the message of the last work item was dropped
  faults,
  asked              \* auxiliary: the last of ENABLE, DISABLE and INIT asked for interrupts

threads == <<pc, call, masked>>
irqs    == <<irq, irq_is_disable, requested, depth>>
held    == <<init, ports, input, avdd_port, kept>>
setup   == <<held, faults>>
power   == <<power_is_off, avdd, rst>>
async   == <<latched, hirq, queued, worker>>
client  == <<pid, unread, lost>>
vars    == <<threads, irqs, setup, power, async, client, irq_ignore, done, asked>>

-----------------------------------------------------------------------------
InitLabel   == {"init", "init_gpio", "init_irq", "init_mask", "init_rst", "init_input",
                "init_free", "init_sync"}
DeinitLabel == {"deinit", "deinit_mask", "deinit_free", "deinit_sync", "deinit_ports",
                "deinit_send"}
PulseLabel  == {"reset_low", "reset_high", "reset_mask"}
ResetLabel  == {"reset", "reset_power", "reset_ignore", "reset_look", "reset_enable",
                "reset_end"} \cup PulseLabel
PwdnLabel   == {"pwdn", "pwdn_off", "pwdn_mark"}

PwdnOp      == {"pwdn_none", "pwdn_poweroff", "pwdn_flash"}

(* The calls and the places inside them.                                    *)
Place == {<<"none", "idle">>}
         \cup {"init"} \X InitLabel \cup {"deinit"} \X DeinitLabel
         \cup {"reset"} \X ResetLabel \cup PwdnOp \X PwdnLabel
         \cup {<<op, op>> : op \in {"enable", "disable", "clr", "wait"}}

First(op) == IF op \in PwdnOp THEN "pwdn" ELSE op

(* Just probed: silfp_probe has zeroed the device.                          *)
Init ==
  /\ pc = [t \in Thread |-> "idle"]
  /\ call = [t \in Thread |-> "none"]
  /\ masked = [t \in Thread |-> FALSE]
  /\ init = 0
  /\ irq = FALSE /\ irq_is_disable = FALSE /\ irq_ignore = FALSE
  /\ done = 0
  /\ ports = FALSE /\ input = FALSE /\ avdd_port = FALSE /\ kept = FALSE
  /\ power_is_off = FALSE /\ avdd = FALSE /\ rst = FALSE
  /\ requested = FALSE /\ depth = 1
  /\ latched = FALSE /\ hirq = "idle" /\ queued = FALSE /\ worker = "idle"
  /\ pid = FALSE /\ unread = FALSE /\ lost = FALSE
  /\ faults = 0
  /\ asked = FALSE

-----------------------------------------------------------------------------
Goto(t, label) == pc' = [pc EXCEPT ![t] = label] /\ UNCHANGED <<call, masked>>
Return(t) == /\ pc' = [pc EXCEPT ![t] = "idle"]
             /\ call' = [call EXCEPT ![t] = "none"]
             /\ UNCHANGED masked

Call(t, op) ==
  /\ pc[t] = "idle"
  /\ op \in Exclusive => \A u \in Thread : pc[u] = "idle"
  /\ \A u \in Thread : call[u] \notin Exclusive
  /\ op = "init" => init < MaxInit
  /\ pc' = [pc EXCEPT ![t] = First(op)]
  /\ call' = [call EXCEPT ![t] = op]
  /\ UNCHANGED <<masked, irqs, setup, power, async, client, irq_ignore, done, asked>>

(* Mutant: the line is masked again although it is masked already.          *)
IrqDisable_NoCheck ==
  /\ irq_is_disable' = TRUE
  /\ depth' = IF irq THEN depth + 1 ELSE depth

(* Before the first INIT the number of the line is 0, some other line.      *)
IrqDisable ==
  \/ irq_is_disable /\ UNCHANGED <<irq_is_disable, depth>>
  \/ /\ ~irq_is_disable
     /\ irq_is_disable' = TRUE
     /\ depth' = IF irq THEN depth + 1 ELSE depth

IrqEnable ==
  \/ ~irq_is_disable /\ UNCHANGED <<irq_is_disable, depth, done>>
  \/ /\ irq_is_disable
     /\ irq_is_disable' = FALSE
     /\ depth' = IF irq /\ depth > 0 THEN depth - 1 ELSE depth
     /\ done' = 0

Fault == faults < MaxFault /\ faults' = faults + 1

(* silfp_netlink_send of an interrupt: nothing is sent until the client has *)
(* said hello, and a message for which there is no memory, or no room in    *)
(* the client's socket, is dropped.                                         *)
Send ==
  \/ /\ unread' = (pid \/ unread)
     /\ UNCHANGED <<pid, lost, faults>>
  \/ /\ pid
     /\ Fault
     /\ lost' = TRUE
     /\ UNCHANGED <<pid, unread>>

PowerOn  == avdd' = (avdd_port \/ avdd)
PowerOff == avdd' = (~avdd_port /\ avdd)

-----------------------------------------------------------------------------
(* SIFP_IOC_INIT: silfp_resource_init.  Its status is not looked at: the    *)
(* call reports success whatever happens.                                   *)
InitFirst(t) ==
  /\ pc[t] = "init"
  /\ \/ /\ init > 0
        /\ init' = init + 1
        /\ Return(t)
        /\ UNCHANGED <<ports, input, avdd_port, kept, power, faults>>
     \/ /\ init = 0
        /\ avdd_port' = TRUE
        /\ avdd' = TRUE
        /\ power_is_off' = FALSE
        /\ ports' = TRUE
        /\ kept' = FALSE
        /\ Goto(t, "init_gpio")
        /\ UNCHANGED <<init, input, rst, faults>>
     \/ /\ init = 0      \* no supply pin
        /\ Fault
        /\ avdd_port' = FALSE
        /\ ports' = FALSE
        /\ kept' = FALSE
        /\ Return(t)
        /\ UNCHANGED <<init, input, power>>
  /\ UNCHANGED <<irqs, async, client, irq_ignore, done, asked>>

(* Without its interrupt pin the call returns with the supply pin held.     *)
InitGpio(t) ==
  /\ pc[t] = "init_gpio"
  /\ \/ /\ irq' = TRUE
        /\ irq_is_disable' = FALSE
        /\ Goto(t, "init_irq")
        /\ UNCHANGED <<ports, kept, faults>>
     \/ /\ Fault
        /\ ports' = FALSE
        /\ kept' = TRUE
        /\ Return(t)
        /\ UNCHANGED <<irq, irq_is_disable>>
  /\ UNCHANGED <<init, input, avdd_port, requested, depth, power, async, client,
                 irq_ignore, done, asked>>

(* request_irq leaves the line unmasked.                                    *)
InitIrq(t) ==
  /\ pc[t] = "init_irq"
  /\ \/ /\ ~requested
        /\ requested' = TRUE
        /\ depth' = 0
        /\ Goto(t, "init_mask")
        /\ UNCHANGED <<ports, avdd_port, faults>>
     \/ /\ Fault
        /\ ports' = FALSE
        /\ avdd_port' = FALSE
        /\ Return(t)
        /\ UNCHANGED <<requested, depth>>
  /\ UNCHANGED <<init, input, kept, irq, irq_is_disable, power, async, client,
                 irq_ignore, done, asked>>

InitMask(t) ==
  /\ pc[t] = "init_mask"
  /\ IrqDisable
  /\ asked' = FALSE
  /\ Goto(t, "init_rst")
  /\ UNCHANGED <<irq, requested, setup, power, async, client, irq_ignore, done>>

InitRst(t) ==
  /\ pc[t] = "init_rst"
  /\ \/ rst' = TRUE /\ Goto(t, "init_input") /\ UNCHANGED faults
     \/ Fault /\ Goto(t, "init_free") /\ UNCHANGED rst
  /\ UNCHANGED <<held, power_is_off, avdd, irqs, async, client, irq_ignore, done, asked>>

InitInput(t) ==
  /\ pc[t] = "init_input"
  /\ \/ /\ input' = TRUE
        /\ init' = 1
        /\ Return(t)
        /\ UNCHANGED faults
     \/ /\ Fault
        /\ Goto(t, "init_free")
        /\ UNCHANGED <<init, input>>
  /\ UNCHANGED <<ports, avdd_port, kept, power, irqs, async, client, irq_ignore, done, asked>>

(* Mutant: the error path does not free the line.                           *)
InitFree_Kept(t) ==
  /\ pc[t] = "init_free"
  /\ Goto(t, "init_sync")
  /\ UNCHANGED <<irqs, setup, power, async, client, irq_ignore, done, asked>>

(* The error path: free_irq, which waits for a handler that is running.     *)
InitFree(t) ==
  /\ pc[t] = "init_free"
  /\ requested' = FALSE
  /\ depth' = 1
  /\ Goto(t, "init_sync")
  /\ UNCHANGED <<irq, irq_is_disable, setup, power, async, client, irq_ignore, done, asked>>

InitSync(t) ==
  /\ pc[t] = "init_sync"
  /\ hirq = "idle"
  /\ ports' = FALSE
  /\ avdd_port' = FALSE
  /\ Return(t)
  /\ UNCHANGED <<init, input, kept, faults, irqs, power, async, client, irq_ignore, done,
                 asked>>

-----------------------------------------------------------------------------
(* SIFP_IOC_DEINIT: silfp_resource_deinit.                                  *)
(* Mutant: the count is not tested.                                         *)
DeinitFirst_NoCheck(t) ==
  /\ pc[t] = "deinit"
  /\ init' = IF init = 0 THEN MaxInit + 1 ELSE init - 1
  /\ Goto(t, IF init = 1 THEN "deinit_mask" ELSE "deinit_send")
  /\ UNCHANGED <<ports, input, avdd_port, kept, faults, irqs, power, async, client,
                 irq_ignore, done, asked>>

DeinitFirst(t) ==
  /\ pc[t] = "deinit"
  /\ \/ init = 0 /\ Return(t) /\ UNCHANGED init
     \/ /\ init > 0
        /\ init' = init - 1
        /\ Goto(t, IF init = 1 THEN "deinit_mask" ELSE "deinit_send")
  /\ UNCHANGED <<ports, input, avdd_port, kept, faults, irqs, power, async, client,
                 irq_ignore, done, asked>>

DeinitMask(t) ==
  /\ pc[t] = "deinit_mask"
  /\ IrqDisable
  /\ Goto(t, "deinit_free")
  /\ UNCHANGED <<irq, requested, setup, power, async, client, irq_ignore, done, asked>>

DeinitFree(t) ==
  /\ pc[t] = "deinit_free"
  /\ requested' = FALSE
  /\ depth' = 1
  /\ Goto(t, "deinit_sync")
  /\ UNCHANGED <<irq, irq_is_disable, setup, power, async, client, irq_ignore, done, asked>>

DeinitSync(t) ==
  /\ pc[t] = "deinit_sync"
  /\ hirq = "idle"
  /\ Goto(t, "deinit_ports")
  /\ UNCHANGED <<irqs, setup, power, async, client, irq_ignore, done, asked>>

(* The pins, the input device and the power supply; power_is_off stays.     *)
DeinitPorts(t) ==
  /\ pc[t] = "deinit_ports"
  /\ ports' = FALSE
  /\ input' = FALSE
  /\ PowerOff
  /\ avdd_port' = FALSE
  /\ Goto(t, "deinit_send")
  /\ UNCHANGED <<init, kept, faults, power_is_off, rst, irqs, async, client, irq_ignore,
                 done, asked>>

(* The word it sends, DISCONNECT, is in SilfpEvents.                        *)
DeinitSend(t) ==
  /\ pc[t] = "deinit_send"
  /\ Return(t)
  /\ UNCHANGED <<irqs, setup, power, async, client, irq_ignore, done, asked>>

-----------------------------------------------------------------------------
(* SIFP_IOC_RESET.  irq_is_disable is read without irq_lock.                *)
(* Mutant: a sensor that was powered down is not powered up.                *)
ResetFirst_NoPower(t) ==
  /\ pc[t] = "reset"
  /\ Goto(t, "reset_ignore")
  /\ UNCHANGED <<irqs, setup, power, async, client, irq_ignore, done, asked>>

ResetFirst(t) ==
  /\ pc[t] = "reset"
  /\ \/ power_is_off /\ PowerOn /\ Goto(t, "reset_power")
     \/ ~power_is_off /\ Goto(t, "reset_ignore") /\ UNCHANGED avdd
  /\ UNCHANGED <<power_is_off, rst, irqs, setup, async, client, irq_ignore, done, asked>>

ResetPower(t) ==
  /\ pc[t] = "reset_power"
  /\ power_is_off' = FALSE
  /\ Goto(t, "reset_ignore")
  /\ UNCHANGED <<avdd, rst, irqs, setup, async, client, irq_ignore, done, asked>>

ResetIgnore(t) ==
  /\ pc[t] = "reset_ignore"
  /\ irq_ignore' = TRUE
  /\ Goto(t, "reset_look")
  /\ UNCHANGED <<irqs, setup, power, async, client, done, asked>>

ResetLook(t) ==
  /\ pc[t] = "reset_look"
  /\ masked' = [masked EXCEPT ![t] = irq_is_disable]
  /\ pc' = [pc EXCEPT ![t] = IF irq_is_disable THEN "reset_enable" ELSE "reset_low"]
  /\ UNCHANGED <<call, irqs, setup, power, async, client, irq_ignore, done, asked>>

ResetEnable(t) ==
  /\ pc[t] = "reset_enable"
  /\ IrqEnable
  /\ Goto(t, "reset_low")
  /\ UNCHANGED <<irq, requested, setup, power, async, client, irq_ignore, asked>>

(* silfp_hw_reset.                                                          *)
ResetLow(t) ==
  /\ pc[t] = "reset_low"
  /\ rst' = (~ports /\ rst)
  /\ Goto(t, "reset_high")
  /\ UNCHANGED <<power_is_off, avdd, irqs, setup, async, client, irq_ignore, done, asked>>

(* Mutants: the line is not masked again; interrupts are heard before it is.*)
ResetHigh_NoMask(t) ==
  /\ pc[t] = "reset_high"
  /\ rst' = (ports \/ rst)
  /\ Goto(t, "reset_end")
  /\ UNCHANGED <<power_is_off, avdd, irqs, setup, async, client, irq_ignore, done, asked>>

ResetHigh_Hears(t) ==
  /\ pc[t] = "reset_high"
  /\ rst' = (ports \/ rst)
  /\ irq_ignore' = FALSE
  /\ Goto(t, IF masked[t] THEN "reset_mask" ELSE "reset_end")
  /\ UNCHANGED <<power_is_off, avdd, irqs, setup, async, client, done, asked>>

ResetHigh(t) ==
  /\ pc[t] = "reset_high"
  /\ rst' = (ports \/ rst)
  /\ Goto(t, IF masked[t] THEN "reset_mask" ELSE "reset_end")
  /\ UNCHANGED <<power_is_off, avdd, irqs, setup, async, client, irq_ignore, done, asked>>

ResetMask(t) ==
  /\ pc[t] = "reset_mask"
  /\ IrqDisable
  /\ Goto(t, "reset_end")
  /\ UNCHANGED <<irq, requested, setup, power, async, client, irq_ignore, done, asked>>

ResetEnd(t) ==
  /\ pc[t] = "reset_end"
  /\ irq_ignore' = FALSE
  /\ Return(t)
  /\ UNCHANGED <<irqs, setup, power, async, client, done, asked>>

-----------------------------------------------------------------------------
(* SIFP_IOC_ENABLE_IRQ, DISABLE_IRQ, CLR_IRQ and WAIT_IRQ.                  *)
Enable(t) ==
  /\ pc[t] = "enable"
  /\ IrqEnable
  /\ asked' = TRUE
  /\ Return(t)
  /\ UNCHANGED <<irq, requested, setup, power, async, client, irq_ignore>>

Disable(t) ==
  /\ pc[t] = "disable"
  /\ IrqDisable
  /\ asked' = FALSE
  /\ Return(t)
  /\ UNCHANGED <<irq, requested, setup, power, async, client, irq_ignore, done>>

Clr(t) ==
  /\ pc[t] = "clr"
  /\ done' = 0
  /\ Return(t)
  /\ UNCHANGED <<irqs, setup, power, async, client, irq_ignore, asked>>

Wait(t) ==
  /\ pc[t] = "wait"
  /\ done > 0
  /\ done' = done - 1
  /\ Return(t)
  /\ UNCHANGED <<irqs, setup, power, async, client, irq_ignore, asked>>

-----------------------------------------------------------------------------
(* SIFP_IOC_PWDN: silfp_pwdn tests its mode for zero only.                  *)
Pwdn(t) ==
  /\ pc[t] = "pwdn"
  /\ rst' = (~ports /\ rst)
  /\ \/ call[t] = "pwdn_none" /\ Return(t)
     \/ call[t] # "pwdn_none" /\ Goto(t, "pwdn_off")
  /\ UNCHANGED <<power_is_off, avdd, irqs, setup, async, client, irq_ignore, done, asked>>

(* Mutant: power_is_off is not set.                                         *)
PwdnOff_NoMark(t) ==
  /\ pc[t] = "pwdn_off"
  /\ PowerOff
  /\ Return(t)
  /\ UNCHANGED <<power_is_off, rst, irqs, setup, async, client, irq_ignore, done, asked>>

PwdnOff(t) ==
  /\ pc[t] = "pwdn_off"
  /\ PowerOff
  /\ Goto(t, "pwdn_mark")
  /\ UNCHANGED <<power_is_off, rst, irqs, setup, async, client, irq_ignore, done, asked>>

PwdnMark(t) ==
  /\ pc[t] = "pwdn_mark"
  /\ power_is_off' = TRUE
  /\ Return(t)
  /\ UNCHANGED <<avdd, rst, irqs, setup, async, client, irq_ignore, done, asked>>

-----------------------------------------------------------------------------
(* The interrupt line.  An edge while the line is masked or its handler     *)
(* runs is latched and delivered later.                                     *)
Edge ==
  /\ requested
  /\ ~latched
  /\ latched' = TRUE
  /\ UNCHANGED <<threads, irqs, setup, power, hirq, queued, worker, client, irq_ignore,
                 done, asked>>

Deliver ==
  /\ requested
  /\ depth = 0
  /\ latched
  /\ hirq = "idle"
  /\ latched' = FALSE
  /\ hirq' = "entry"
  /\ UNCHANGED <<threads, irqs, setup, power, queued, worker, client, irq_ignore, done, asked>>

(* silfp_irq_handler, and the work it queues.                               *)
HandlerEntry ==
  /\ hirq = "entry"
  /\ hirq' = IF irq_ignore THEN "idle" ELSE "queue"
  /\ UNCHANGED <<threads, irqs, setup, power, latched, queued, worker, client, irq_ignore,
                 done, asked>>

HandlerQueue ==
  /\ hirq = "queue"
  /\ hirq' = "complete"
  /\ queued' = TRUE
  /\ UNCHANGED <<threads, irqs, setup, power, latched, worker, client, irq_ignore, done, asked>>

HandlerComplete ==
  /\ hirq = "complete"
  /\ hirq' = "idle"
  /\ done' = IF done < MaxDone THEN done + 1 ELSE done
  /\ UNCHANGED <<threads, irqs, setup, power, latched, queued, worker, client, irq_ignore, asked>>

WorkStart ==
  /\ queued
  /\ worker = "idle"
  /\ queued' = FALSE
  /\ worker' = "run"
  /\ lost' = FALSE
  /\ UNCHANGED <<threads, irqs, setup, power, latched, hirq, pid, unread, irq_ignore, done,
                 asked>>

(* Mutant: nothing is sent while the line is masked.                        *)
WorkSend_IfEnabled ==
  /\ worker = "run"
  /\ worker' = "idle"
  /\ IF irq_is_disable THEN UNCHANGED <<client, faults>> ELSE Send
  /\ UNCHANGED <<threads, irqs, held, power, latched, hirq, queued, irq_ignore, done, asked>>

WorkSend ==
  /\ worker = "run"
  /\ worker' = "idle"
  /\ Send
  /\ UNCHANGED <<threads, irqs, held, power, latched, hirq, queued, irq_ignore, done, asked>>

(* The client: silfp_netlink_recv, and reading messages.                    *)
Hello ==
  /\ "hello" \in Calls
  /\ ~pid
  /\ pid' = TRUE
  /\ UNCHANGED <<threads, irqs, setup, power, async, unread, lost, irq_ignore, done, asked>>

Read ==
  /\ unread
  /\ unread' = FALSE
  /\ UNCHANGED <<threads, irqs, setup, power, async, pid, lost, irq_ignore, done, asked>>

-----------------------------------------------------------------------------
Bringup(t)  == \/ InitFirst(t) \/ InitGpio(t) \/ InitIrq(t) \/ InitMask(t) \/ InitRst(t)
               \/ InitInput(t) \/ InitFree(t) \/ InitSync(t)
Teardown(t) == \/ DeinitFirst(t) \/ DeinitMask(t) \/ DeinitFree(t) \/ DeinitSync(t)
               \/ DeinitPorts(t) \/ DeinitSend(t)
Reset(t)    == \/ ResetFirst(t) \/ ResetPower(t) \/ ResetIgnore(t) \/ ResetLook(t)
               \/ ResetEnable(t) \/ ResetLow(t) \/ ResetHigh(t) \/ ResetMask(t) \/ ResetEnd(t)
IrqCall(t)  == Enable(t) \/ Disable(t) \/ Clr(t) \/ Wait(t)
PowerDown(t) == Pwdn(t) \/ PwdnOff(t) \/ PwdnMark(t)
Ioctl(t) == Bringup(t) \/ Teardown(t) \/ Reset(t) \/ IrqCall(t) \/ PowerDown(t)

Handler == Deliver \/ HandlerEntry \/ HandlerQueue \/ HandlerComplete
Work    == WorkStart \/ WorkSend

Next == \/ \E t \in Thread, op \in Op \cap Calls : Call(t, op)
        \/ \E t \in Thread : Ioctl(t)
        \/ Edge
        \/ Handler
        \/ Work
        \/ Hello
        \/ Read

Spec == Init /\ [][Next]_vars

(* The kernel runs the threads that are inside an ioctl, the handler and    *)
(* the work queue; edges, calls and the reading of messages are not fair.   *)
FairSpec == /\ Spec
            /\ \A t \in Thread : WF_vars(Ioctl(t))
            /\ WF_vars(Handler)
            /\ WF_vars(Work)

-----------------------------------------------------------------------------
(* Every variable has its type; in particular no thread is at a label of a  *)
(* call it is not in, and the count of users stays within its bound.        *)
TypeOK ==
  /\ call \in [Thread -> Op \cup {"none"}] /\ DOMAIN pc = Thread
  /\ \A t \in Thread : <<call[t], pc[t]>> \in Place
  /\ masked \in [Thread -> BOOLEAN]
  /\ init \in 0 .. MaxInit
  /\ irq \in BOOLEAN /\ irq_is_disable \in BOOLEAN /\ irq_ignore \in BOOLEAN
  /\ requested \in BOOLEAN /\ latched \in BOOLEAN /\ queued \in BOOLEAN
  /\ ports \in BOOLEAN /\ input \in BOOLEAN /\ avdd_port \in BOOLEAN
  /\ power_is_off \in BOOLEAN /\ avdd \in BOOLEAN /\ rst \in BOOLEAN
  /\ pid \in BOOLEAN /\ unread \in BOOLEAN /\ lost \in BOOLEAN /\ kept \in BOOLEAN /\ asked \in BOOLEAN
  /\ done \in 0 .. MaxDone
  /\ depth \in Nat
  /\ hirq \in {"idle", "entry", "queue", "complete"}
  /\ worker \in {"idle", "run"}
  /\ faults \in 0 .. MaxFault

InProgress(ops) == \E t \in Thread : call[t] \in ops

(* irq_is_disable tells the truth about the line the driver holds, whatever *)
(* ENABLE, DISABLE and RESET calls overlap: the line is masked once or not  *)
(* at all, so no enable_irq is unbalanced and no mask is left behind.       *)
MaskAgrees == requested => depth = IF irq_is_disable THEN 1 ELSE 0

(* Outside of INIT and DEINIT the driver holds the line, the interrupt and  *)
(* reset pins and the input device exactly while it has users, through      *)
(* every error path of INIT and at every nesting depth; the pin of the      *)
(* power supply too, except that an INIT that failed to get its interrupt   *)
(* pin leaves it held until the next INIT.                                  *)
HeldWhileUsed ==
  ~InProgress({"init", "deinit"})
    => /\ requested <=> init > 0
       /\ ports <=> init > 0
       /\ input <=> init > 0
       /\ avdd_port <=> init > 0 \/ kept

(* With no other call during a RESET, interrupts are enabled if and only if *)
(* the last of ENABLE, DISABLE and INIT asked for it: a RESET gives the     *)
(* line back as it found it.                                                *)
MaskAsAsked ==
  init > 0 /\ ~InProgress({"init", "deinit", "reset"}) => irq_is_disable = ~asked

(* With no other call during a RESET, power_is_off tells whether the supply *)
(* of a device in use is off.                                               *)
PowerAgrees ==
  init > 0 /\ ~InProgress(Op \ {"enable", "disable", "clr", "wait"}) => avdd = ~power_is_off

(* A RESET leaves a device in use powered and out of reset, powered down as *)
(* it may have been before.                                                 *)
ResetRaises ==
  \A t \in Thread : pc[t] = "reset_end" /\ init > 0 => avdd /\ rst

(* With no other call during a RESET, an interrupt taken while the reset    *)
(* pin is pulsed is never reported.                                         *)
PulseUnheard ==
  [][hirq = "entry" /\ hirq' = "queue" => \A t \in Thread : pc[t] \notin PulseLabel]_vars

(* An interrupt that is not ignored is reported to a client that has said   *)
(* hello, also when several come before the work queue runs or the device   *)
(* is torn down meanwhile, unless the message of the work item that carried *)
(* it, or of a later one, is dropped.                                       *)
IrqReported ==
  pid /\ hirq = "queue"
    ~> unread \/ (lost /\ ~queued /\ hirq # "queue")
=============================================================================

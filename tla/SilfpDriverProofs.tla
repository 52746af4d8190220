------------------------- MODULE SilfpDriverProofs -------------------------
(***************************************************************************)
(* Proofs about the sensor driver, for any number of client threads, any   *)
(* set of exclusive calls that has INIT and DEINIT in it, and any bounds.  *)
(***************************************************************************)
EXTENDS SilfpDriver, TLAPS

(* Bring-up and tear-down are alone.                                        *)
Alone == \A t, u \in Thread : call[t] \in {"init", "deinit"} /\ u # t => call[u] = "none"

(* What is held at each place of bring-up and tear-down.                    *)
HeldAt(t) ==
  /\ pc[t] \in InitLabel => init < MaxInit
  /\ pc[t] \in InitLabel \ {"init"} => init = 0 /\ ~input /\ ~kept
  /\ pc[t] \in {"init_gpio", "init_irq", "init_sync"} => ~requested
  /\ pc[t] = "init_irq" => irq /\ ~irq_is_disable
  /\ pc[t] \in {"init_mask", "init_rst", "init_input", "init_free"} => requested
  /\ pc[t] \in {"init_gpio", "init_irq", "init_mask", "init_rst", "init_input"}
       => ports /\ avdd_port
  /\ pc[t] \in {"deinit_mask", "deinit_free"} => init = 0 /\ requested /\ ~kept
  /\ pc[t] \in {"deinit_sync", "deinit_ports"} => init = 0 /\ ~requested /\ ~kept

(* The places where the driver holds a part of what a user needs.           *)
Between == (InitLabel \cup DeinitLabel) \ {"init", "deinit", "deinit_send"}

AsUsed == /\ requested <=> init > 0
          /\ ports <=> init > 0
          /\ input <=> init > 0
          /\ avdd_port <=> init > 0 \/ kept
          /\ init > 0 => ~kept

Settled == (\A t \in Thread : pc[t] \notin Between) => AsUsed

IInv == /\ TypeOK
        /\ Alone
        /\ \A t \in Thread : HeldAt(t)
        /\ Settled
        /\ requested => irq
        /\ MaskAgrees

-----------------------------------------------------------------------------
(* The initial state satisfies the invariant.                               *)
LEMMA InitInv == Init => IInv
<1> SUFFICES ASSUME Init PROVE IInv
  OBVIOUS
<1> USE DEF Init
<1>1. TypeOK
  <2>1. <<"none", "idle">> \in Place
    BY DEF Place
  <2>2. /\ call \in [Thread -> Op \cup {"none"}] /\ DOMAIN pc = Thread
        /\ \A t \in Thread : <<call[t], pc[t]>> \in Place
    BY <2>1
  <2>3. masked \in [Thread -> BOOLEAN]
    OBVIOUS
  <2>4. init \in 0 .. MaxInit /\ done \in 0 .. MaxDone /\ faults \in 0 .. MaxFault /\ depth \in Nat
    BY BoundAssumption
  <2> QED
    BY <2>2, <2>3, <2>4, Zenon DEF TypeOK
<1>2. Alone /\ Settled
  BY DEF Alone, Settled, AsUsed, Between
<1>3. \A t \in Thread : HeldAt(t)
  BY DEF HeldAt, InitLabel
<1> QED
  BY <1>1, <1>2, <1>3 DEF IInv, MaskAgrees

(* A thread moves on in its call or returns.                                *)
Moves(t) == \E c, l : /\ c \in {"none", call[t]} /\ <<c, l>> \in Place
                      /\ pc' = [pc EXCEPT ![t] = l] /\ call' = [call EXCEPT ![t] = c]

Places == /\ call \in [Thread -> Op \cup {"none"}] /\ DOMAIN pc = Thread
          /\ \A t \in Thread : <<call[t], pc[t]>> \in Place

IdleBut(t) == \A u \in Thread \ {t} : pc[u] = "idle"

LEMMA Moving ==
  ASSUME IInv, NEW t \in Thread, call[t] # "none", Moves(t)
  PROVE  /\ Places' /\ Alone'
         /\ \A u \in Thread \ {t} : pc'[u] = pc[u]
         /\ call[t] \in {"init", "deinit"} => IdleBut(t) /\ IdleBut(t)'
<1>1. Places
  BY DEF IInv, TypeOK, Places
<1>2. PICK c, l : /\ c \in {"none", call[t]} /\ <<c, l>> \in Place
                  /\ pc' = [pc EXCEPT ![t] = l] /\ call' = [call EXCEPT ![t] = c]
  BY DEF Moves
<1>3. Places'
  BY <1>1, <1>2 DEF Places
<1>4. Alone'
  BY <1>1, <1>2 DEF IInv, Alone, Places
<1>5. \A u \in Thread \ {t} : pc'[u] = pc[u]
  BY <1>1, <1>2 DEF Places
<1>6. call[t] \in {"init", "deinit"} => IdleBut(t)
  <2>1. call[t] \in {"init", "deinit"} => \A u \in Thread \ {t} : call[u] = "none"
    BY DEF IInv, Alone
  <2> QED
    BY <1>1, <2>1 DEF Places, Place, PwdnOp, IdleBut
<1> QED
  BY <1>3, <1>4, <1>5, <1>6 DEF IdleBut

(* A step of a call other than bring-up and tear-down, which holds nothing  *)
(* of its own, keeps what is held.                                          *)
LEMMA OtherCall ==
  ASSUME IInv, NEW t \in Thread, call[t] \notin {"none", "init", "deinit"}, Moves(t),
         UNCHANGED <<setup, irq, requested>>
  PROVE  Places' /\ Alone' /\ (\A u \in Thread : HeldAt(u))' /\ Settled'
<1>1. Places /\ Places' /\ Alone'
  BY Moving DEF IInv, TypeOK, Places
<1>2. \A u \in Thread : call[u] \notin {"init", "deinit"} /\ call'[u] \notin {"init", "deinit"}
  BY <1>1 DEF IInv, Alone, Moves, Places
<1>3. \A u \in Thread : /\ pc[u] \notin InitLabel \cup DeinitLabel
                         /\ pc'[u] \notin InitLabel \cup DeinitLabel
  <2>1. ASSUME NEW c \in Op \cup {"none"}, NEW l, c \notin {"init", "deinit"}, <<c, l>> \in Place
        PROVE  l \notin InitLabel \cup DeinitLabel
    BY <2>1 DEF Place, InitLabel, DeinitLabel, ResetLabel, PulseLabel, PwdnLabel, PwdnOp
  <2> QED
    BY <1>1, <1>2, <2>1 DEF Places
<1>4. (\A u \in Thread : HeldAt(u))'
  BY <1>3 DEF HeldAt, InitLabel, DeinitLabel
<1>5. Settled'
  BY <1>3 DEF IInv, Settled, AsUsed, Between, setup, held
<1> QED
  BY <1>1, <1>4, <1>5

(* irq_lock makes the flag and the depth of the line move together.         *)
LEMMA MaskStep ==
  ASSUME TypeOK, MaskAgrees, requested => irq, UNCHANGED <<irq, requested>>,
         IrqDisable \/ IrqEnable
  PROVE  MaskAgrees' /\ (requested => irq)' /\ irq_is_disable' \in BOOLEAN /\ depth' \in Nat
<1>1. CASE UNCHANGED <<irq_is_disable, depth>>
  BY <1>1 DEF TypeOK, MaskAgrees
<1>2. CASE ~irq_is_disable /\ irq_is_disable' /\ depth' = (IF irq THEN depth + 1 ELSE depth)
  <2>1. requested => depth = 0
    BY <1>2 DEF MaskAgrees
  <2>2. requested' => depth' = 1
    BY <1>2, <2>1
  <2>3. MaskAgrees'
    BY <1>2, <2>2 DEF MaskAgrees
  <2>4. depth' \in Nat
    BY <1>2 DEF TypeOK
  <2> QED
    BY <1>2, <2>3, <2>4 DEF IrqDisable, IrqEnable
<1>3. CASE irq_is_disable /\ ~irq_is_disable' /\ depth' = (IF irq /\ depth > 0 THEN depth - 1 ELSE depth)
  <2>1. requested => depth = 1
    BY <1>3 DEF MaskAgrees
  <2>2. requested' => depth' = 0
    BY <1>3, <2>1
  <2>3. MaskAgrees'
    BY <1>3, <2>2 DEF MaskAgrees
  <2>4. depth' \in Nat
    BY <1>3 DEF TypeOK
  <2> QED
    BY <1>3, <2>3, <2>4 DEF IrqDisable, IrqEnable
<1> QED
  BY <1>1, <1>2, <1>3 DEF IrqDisable, IrqEnable
(* A step of the calls that neither bring up nor tear down: nothing is      *)
(* acquired or released.                                                    *)
Keeps == /\ UNCHANGED <<setup, irq, requested, async, client>>
         /\ UNCHANGED <<irq_is_disable, depth>> \/ IrqDisable \/ IrqEnable

(* What TypeOK says of the variables that these calls change.               *)
RestOK == /\ masked \in [Thread -> BOOLEAN]
          /\ irq_ignore \in BOOLEAN /\ power_is_off \in BOOLEAN /\ avdd \in BOOLEAN
          /\ rst \in BOOLEAN /\ asked \in BOOLEAN /\ done \in 0 .. MaxDone

LEMMA OtherStep ==
  ASSUME IInv, NEW t \in Thread, Reset(t) \/ IrqCall(t) \/ PowerDown(t)
  PROVE  call[t] \notin {"none", "init", "deinit"} /\ Moves(t) /\ Keeps /\ RestOK'
<1>1. <<call[t], pc[t]>> \in Place /\ RestOK /\ avdd_port \in BOOLEAN /\ ports \in BOOLEAN
      /\ irq_is_disable \in BOOLEAN
  BY DEF IInv, TypeOK, RestOK
<1>0. call = [call EXCEPT ![t] = call[t]]
  BY DEF IInv, TypeOK
<1>a. ASSUME NEW l, <<call[t], l>> \in Place,
             pc' = [pc EXCEPT ![t] = l], UNCHANGED call
      PROVE  Moves(t)
  BY <1>0, <1>a, Zenon DEF Moves
<1> USE DEF Goto, Return
<1>2. CASE ResetFirst(t)
  <2>1. call[t] \notin {"none", "init", "deinit"} /\ Moves(t)
    BY <1>1, <1>a, <1>2 DEF ResetFirst, Place, InitLabel, DeinitLabel, ResetLabel, PulseLabel, PwdnLabel, PwdnOp
  <2>2. Keeps
    BY <1>2 DEF ResetFirst, Keeps, setup, held, irqs, power, async, client
  <2>3. RestOK'
    BY <1>1, <1>2, BoundAssumption DEF ResetFirst, RestOK, power, PowerOn, PowerOff
  <2> QED
    BY <2>1, <2>2, <2>3
<1>3. CASE ResetPower(t)
  <2>1. call[t] \notin {"none", "init", "deinit"} /\ Moves(t)
    BY <1>1, <1>a, <1>3 DEF ResetPower, Place, InitLabel, DeinitLabel, ResetLabel, PulseLabel, PwdnLabel, PwdnOp
  <2>2. Keeps
    BY <1>3 DEF ResetPower, Keeps, setup, held, irqs, power, async, client
  <2>3. RestOK'
    BY <1>1, <1>3, BoundAssumption DEF ResetPower, RestOK, power
  <2> QED
    BY <2>1, <2>2, <2>3
<1>4. CASE ResetIgnore(t)
  <2>1. call[t] \notin {"none", "init", "deinit"} /\ Moves(t)
    BY <1>1, <1>a, <1>4 DEF ResetIgnore, Place, InitLabel, DeinitLabel, ResetLabel, PulseLabel, PwdnLabel, PwdnOp
  <2>2. Keeps
    BY <1>4 DEF ResetIgnore, Keeps, setup, held, irqs, power, async, client
  <2>3. RestOK'
    BY <1>1, <1>4, BoundAssumption DEF ResetIgnore, RestOK, power
  <2> QED
    BY <2>1, <2>2, <2>3
<1>5. CASE ResetLook(t)
  <2>1. call[t] \notin {"none", "init", "deinit"} /\ Moves(t)
    BY <1>1, <1>a, <1>5 DEF ResetLook, Place, InitLabel, DeinitLabel, ResetLabel, PulseLabel, PwdnLabel, PwdnOp
  <2>2. Keeps
    BY <1>5 DEF ResetLook, Keeps, setup, held, irqs, power, async, client
  <2>3. RestOK'
    BY <1>1, <1>5, BoundAssumption DEF ResetLook, RestOK, power
  <2> QED
    BY <2>1, <2>2, <2>3
<1>6. CASE ResetEnable(t)
  <2>1. call[t] \notin {"none", "init", "deinit"} /\ Moves(t)
    BY <1>1, <1>a, <1>6 DEF ResetEnable, Place, InitLabel, DeinitLabel, ResetLabel, PulseLabel, PwdnLabel, PwdnOp
  <2>2. Keeps
    BY <1>6 DEF ResetEnable, Keeps, setup, held, irqs, power, async, client
  <2>3. RestOK'
    BY <1>1, <1>6, BoundAssumption DEF ResetEnable, RestOK, power, IrqEnable, IrqDisable
  <2> QED
    BY <2>1, <2>2, <2>3
<1>7. CASE ResetLow(t)
  <2>1. call[t] \notin {"none", "init", "deinit"} /\ Moves(t)
    BY <1>1, <1>a, <1>7 DEF ResetLow, Place, InitLabel, DeinitLabel, ResetLabel, PulseLabel, PwdnLabel, PwdnOp
  <2>2. Keeps
    BY <1>7 DEF ResetLow, Keeps, setup, held, irqs, power, async, client
  <2>3. RestOK'
    BY <1>1, <1>7, BoundAssumption DEF ResetLow, RestOK, power
  <2> QED
    BY <2>1, <2>2, <2>3
<1>8. CASE ResetHigh(t)
  <2>1. call[t] \notin {"none", "init", "deinit"} /\ Moves(t)
    BY <1>1, <1>a, <1>8 DEF ResetHigh, Place, InitLabel, DeinitLabel, ResetLabel, PulseLabel, PwdnLabel, PwdnOp
  <2>2. Keeps
    BY <1>8 DEF ResetHigh, Keeps, setup, held, irqs, power, async, client
  <2>3. RestOK'
    BY <1>1, <1>8, BoundAssumption DEF ResetHigh, RestOK, power
  <2> QED
    BY <2>1, <2>2, <2>3
<1>9. CASE ResetMask(t)
  <2>1. call[t] \notin {"none", "init", "deinit"} /\ Moves(t)
    BY <1>1, <1>a, <1>9 DEF ResetMask, Place, InitLabel, DeinitLabel, ResetLabel, PulseLabel, PwdnLabel, PwdnOp
  <2>2. Keeps
    BY <1>9 DEF ResetMask, Keeps, setup, held, irqs, power, async, client
  <2>3. RestOK'
    BY <1>1, <1>9, BoundAssumption DEF ResetMask, RestOK, power, IrqEnable, IrqDisable
  <2> QED
    BY <2>1, <2>2, <2>3
<1>10. CASE ResetEnd(t)
  <2>1. call[t] \notin {"none", "init", "deinit"} /\ Moves(t)
    BY <1>1, <1>10 DEF ResetEnd, Moves, Place, InitLabel, DeinitLabel, ResetLabel, PulseLabel, PwdnLabel, PwdnOp
  <2>2. Keeps
    BY <1>10 DEF ResetEnd, Keeps, setup, held, irqs, power, async, client
  <2>3. RestOK'
    BY <1>1, <1>10, BoundAssumption DEF ResetEnd, RestOK, power
  <2> QED
    BY <2>1, <2>2, <2>3
<1>11. CASE Enable(t)
  <2>1. call[t] \notin {"none", "init", "deinit"} /\ Moves(t)
    BY <1>1, <1>11 DEF Enable, Moves, Place, InitLabel, DeinitLabel, ResetLabel, PulseLabel, PwdnLabel, PwdnOp
  <2>2. Keeps
    BY <1>11 DEF Enable, Keeps, setup, held, irqs, power, async, client
  <2>3. RestOK'
    BY <1>1, <1>11, BoundAssumption DEF Enable, RestOK, power, IrqEnable, IrqDisable
  <2> QED
    BY <2>1, <2>2, <2>3
<1>12. CASE Disable(t)
  <2>1. call[t] \notin {"none", "init", "deinit"} /\ Moves(t)
    BY <1>1, <1>12 DEF Disable, Moves, Place, InitLabel, DeinitLabel, ResetLabel, PulseLabel, PwdnLabel, PwdnOp
  <2>2. Keeps
    BY <1>12 DEF Disable, Keeps, setup, held, irqs, power, async, client
  <2>3. RestOK'
    BY <1>1, <1>12, BoundAssumption DEF Disable, RestOK, power, IrqEnable, IrqDisable
  <2> QED
    BY <2>1, <2>2, <2>3
<1>13. CASE Clr(t)
  <2>1. call[t] \notin {"none", "init", "deinit"} /\ Moves(t)
    BY <1>1, <1>13 DEF Clr, Moves, Place, InitLabel, DeinitLabel, ResetLabel, PulseLabel, PwdnLabel, PwdnOp
  <2>2. Keeps
    BY <1>13 DEF Clr, Keeps, setup, held, irqs, power, async, client
  <2>3. RestOK'
    BY <1>1, <1>13, BoundAssumption DEF Clr, RestOK, power
  <2> QED
    BY <2>1, <2>2, <2>3
<1>14. CASE Wait(t)
  <2>1. call[t] \notin {"none", "init", "deinit"} /\ Moves(t)
    BY <1>1, <1>14 DEF Wait, Moves, Place, InitLabel, DeinitLabel, ResetLabel, PulseLabel, PwdnLabel, PwdnOp
  <2>2. Keeps
    BY <1>14 DEF Wait, Keeps, setup, held, irqs, power, async, client
  <2>3. RestOK'
    BY <1>1, <1>14, BoundAssumption DEF Wait, RestOK, power
  <2> QED
    BY <2>1, <2>2, <2>3
<1>15. CASE Pwdn(t)
  <2>1. call[t] \notin {"none", "init", "deinit"} /\ Moves(t)
    BY <1>1, <1>a, <1>15 DEF Pwdn, Moves, Place, InitLabel, DeinitLabel, ResetLabel, PulseLabel, PwdnLabel, PwdnOp
  <2>2. Keeps
    BY <1>15 DEF Pwdn, Keeps, setup, held, irqs, power, async, client
  <2>3. RestOK'
    BY <1>1, <1>15, BoundAssumption DEF Pwdn, RestOK, power
  <2> QED
    BY <2>1, <2>2, <2>3
<1>16. CASE PwdnOff(t)
  <2>1. call[t] \notin {"none", "init", "deinit"} /\ Moves(t)
    BY <1>1, <1>a, <1>16 DEF PwdnOff, Place, InitLabel, DeinitLabel, ResetLabel, PulseLabel, PwdnLabel, PwdnOp
  <2>2. Keeps
    BY <1>16 DEF PwdnOff, Keeps, setup, held, irqs, power, async, client
  <2>3. RestOK'
    BY <1>1, <1>16, BoundAssumption DEF PwdnOff, RestOK, power, PowerOn, PowerOff
  <2> QED
    BY <2>1, <2>2, <2>3
<1>17. CASE PwdnMark(t)
  <2>1. call[t] \notin {"none", "init", "deinit"} /\ Moves(t)
    BY <1>1, <1>17 DEF PwdnMark, Moves, Place, InitLabel, DeinitLabel, ResetLabel, PulseLabel, PwdnLabel, PwdnOp
  <2>2. Keeps
    BY <1>17 DEF PwdnMark, Keeps, setup, held, irqs, power, async, client
  <2>3. RestOK'
    BY <1>1, <1>17, BoundAssumption DEF PwdnMark, RestOK, power
  <2> QED
    BY <2>1, <2>2, <2>3
<1> QED
  BY <1>2, <1>3, <1>4, <1>5, <1>6, <1>7, <1>8, <1>9, <1>10, <1>11, <1>12, <1>13, <1>14, <1>15, <1>16, <1>17 DEF Reset, IrqCall, PowerDown
(* What TypeOK says of the variables that bring-up and tear-down change.    *)
HeldOK == init \in 0 .. MaxInit /\ depth \in Nat
BoolOK == /\ ports \in BOOLEAN /\ input \in BOOLEAN /\ requested \in BOOLEAN
          /\ irq \in BOOLEAN /\ irq_is_disable \in BOOLEAN
          /\ avdd_port \in BOOLEAN /\ kept \in BOOLEAN /\ lost \in BOOLEAN
          /\ asked \in BOOLEAN
          /\ power_is_off \in BOOLEAN /\ avdd \in BOOLEAN /\ rst \in BOOLEAN
          /\ pid \in BOOLEAN /\ unread \in BOOLEAN
Aside == BoolOK' /\ faults' \in 0 .. MaxFault /\ UNCHANGED <<masked, irq_ignore, done, async>>

(* What is left to show of each step of bring-up and tear-down, by what it  *)
(* does to the line, the pins, the input device and the count of users.     *)
LEMMA OwnCall ==
  ASSUME IInv, NEW t \in Thread, call[t] \in {"init", "deinit"}, Moves(t), Aside,
         HeldOK', HeldAt(t)', Settled', (requested => irq)', MaskAgrees'
  PROVE  IInv'
<1>1. /\ Places' /\ Alone' /\ IdleBut(t)'
  BY Moving
<1>2. ASSUME NEW u \in Thread \ {t} PROVE HeldAt(u)'
  BY <1>1 DEF HeldAt, InitLabel, IdleBut
<1>3. TypeOK'
  BY <1>1 DEF IInv, TypeOK, Places, Aside, BoolOK, HeldOK, async
<1> QED
  BY <1>1, <1>2, <1>3 DEF IInv

(* While one thread brings up or tears down the others are outside.         *)
LEMMA Waiting ==
  ASSUME IInv, NEW t \in Thread, call[t] \in {"init", "deinit"}
  PROVE  IdleBut(t)
<1>1. \A u \in Thread \ {t} : call[u] = "none"
  BY DEF IInv, Alone
<1> QED
  BY <1>1 DEF IInv, TypeOK, Place, PwdnOp, IdleBut

LEMMA OwnStep ==
  ASSUME IInv, NEW t \in Thread, Bringup(t) \/ Teardown(t)
  PROVE  IInv'
<1>1. /\ <<call[t], pc[t]>> \in Place /\ HeldOK /\ BoolOK /\ HeldAt(t) /\ DOMAIN pc = Thread
      /\ MaskAgrees /\ (requested => irq) /\ faults \in 0 .. MaxFault
  BY DEF IInv, TypeOK, HeldOK, BoolOK
<1>0. BoolOK
  BY <1>1
<1>2. call = [call EXCEPT ![t] = call[t]]
  BY DEF IInv, TypeOK
<1>3. ASSUME NEW l, <<call[t], l>> \in Place, pc' = [pc EXCEPT ![t] = l], UNCHANGED call
      PROVE  Moves(t)
  BY <1>2, <1>3, Zenon DEF Moves
<1>4. ASSUME call[t] \in {"init", "deinit"}, pc[t] \in {"init", "deinit_send", "deinit"}
      PROVE  AsUsed
  <2>1. IdleBut(t)
    BY <1>4, Waiting
  <2>2. "idle" \notin Between /\ pc[t] \notin Between
    BY <1>4 DEF Between, InitLabel, DeinitLabel
  <2>3. \A u \in Thread : pc[u] \notin Between
    BY <2>1, <2>2 DEF IdleBut
  <2> QED
    BY <2>3 DEF IInv, Settled, AsUsed
<1>5. ASSUME UNCHANGED irqs
      PROVE  (requested => irq)' /\ MaskAgrees' /\ depth' \in Nat
  BY <1>1, <1>5 DEF irqs, MaskAgrees, HeldOK
<1>6. CASE InitFirst(t)
  <2>1. call[t] = "init" /\ Moves(t)
    BY <1>1, <1>3, <1>6 DEF InitFirst, Goto, Return, Moves, Place, InitLabel, DeinitLabel, ResetLabel, PulseLabel, PwdnLabel, PwdnOp
  <2>2. init < MaxInit /\ AsUsed
    BY <1>1, <1>4, <1>6, <2>1 DEF InitFirst, HeldAt, InitLabel
  <2>3. BoolOK'
    <3>1. /\ ports' \in BOOLEAN /\ input' \in BOOLEAN /\ requested' \in BOOLEAN
          /\ irq' \in BOOLEAN /\ irq_is_disable' \in BOOLEAN
      BY <1>0, <1>6 DEF InitFirst, BoolOK, setup, held, irqs, power, client
    <3>2. avdd_port' \in BOOLEAN /\ kept' \in BOOLEAN /\ lost' \in BOOLEAN
      BY <1>0, <1>6 DEF InitFirst, BoolOK, setup, held, irqs, power, client
    <3>3. asked' \in BOOLEAN /\ power_is_off' \in BOOLEAN /\ avdd' \in BOOLEAN /\ rst' \in BOOLEAN
      BY <1>0, <1>6 DEF InitFirst, BoolOK, setup, held, irqs, power, client
    <3>4. pid' \in BOOLEAN /\ unread' \in BOOLEAN
      BY <1>0, <1>6 DEF InitFirst, BoolOK, setup, held, irqs, power, client
    <3> QED
      BY <3>1, <3>2, <3>3, <3>4 DEF BoolOK
  <2>4. Aside
    BY <1>1, <1>6, <2>3, BoundAssumption DEF InitFirst, Aside, Fault, setup, held, Goto, Return
  <2>5. CASE pc'[t] = "idle" /\ init > 0 /\ init' = init + 1 /\ UNCHANGED <<irqs, ports, input, avdd_port, kept>>
    <3>1. HeldOK'
      BY <1>1, <1>5, <2>2, <2>5, BoundAssumption DEF HeldOK, irqs
    <3>2. (requested => irq)' /\ MaskAgrees'
      BY <1>5, <2>5 DEF irqs
    <3>3. HeldAt(t)'
      BY <1>1, <2>2, <2>5 DEF BoolOK, HeldAt, AsUsed, InitLabel, irqs
    <3>4. Settled'
      BY <1>1, <2>2, <2>5 DEF HeldOK, BoolOK, Settled, AsUsed, Between, InitLabel, DeinitLabel, irqs
    <3> QED
      BY <2>1, <2>4, <3>1, <3>2, <3>3, <3>4, OwnCall
  <2>6. CASE pc'[t] = "init_gpio" /\ init = 0 /\ ports' /\ avdd_port' /\ ~kept' /\ UNCHANGED <<irqs, init, input>>
    <3>1. HeldOK'
      BY <1>1, <1>5, <2>2, <2>6, BoundAssumption DEF HeldOK, irqs
    <3>2. (requested => irq)' /\ MaskAgrees'
      BY <1>5, <2>6 DEF irqs
    <3>3. HeldAt(t)'
      BY <1>1, <2>2, <2>6 DEF BoolOK, HeldAt, AsUsed, InitLabel, irqs
    <3>4. Settled'
      BY <1>1, <2>2, <2>6 DEF HeldOK, BoolOK, Settled, AsUsed, Between, InitLabel, DeinitLabel, irqs
    <3> QED
      BY <2>1, <2>4, <3>1, <3>2, <3>3, <3>4, OwnCall
  <2>7. CASE pc'[t] = "idle" /\ init = 0 /\ ~ports' /\ ~avdd_port' /\ ~kept' /\ UNCHANGED <<irqs, init, input>>
    <3>1. HeldOK'
      BY <1>1, <1>5, <2>2, <2>7, BoundAssumption DEF HeldOK, irqs
    <3>2. (requested => irq)' /\ MaskAgrees'
      BY <1>5, <2>7 DEF irqs
    <3>3. HeldAt(t)'
      BY <1>1, <2>2, <2>7 DEF BoolOK, HeldAt, AsUsed, InitLabel, irqs
    <3>4. Settled'
      BY <1>1, <2>2, <2>7 DEF HeldOK, BoolOK, Settled, AsUsed, Between, InitLabel, DeinitLabel, irqs
    <3> QED
      BY <2>1, <2>4, <3>1, <3>2, <3>3, <3>4, OwnCall
  <2> QED
    BY <1>1, <1>6, <2>5, <2>6, <2>7 DEF InitFirst, Goto, Return, setup, held, irqs, HeldOK
<1>7. CASE InitGpio(t)
  <2>1. call[t] = "init" /\ Moves(t)
    BY <1>1, <1>3, <1>7 DEF InitGpio, Goto, Return, Moves, Place, InitLabel, DeinitLabel, ResetLabel, PulseLabel, PwdnLabel, PwdnOp
  <2>2. init < MaxInit /\ init = 0 /\ ~input /\ ~requested /\ ports /\ avdd_port /\ ~kept
    BY <1>1, <1>7, <2>1 DEF InitGpio, HeldAt, InitLabel
  <2>3. BoolOK'
    <3>1. /\ ports' \in BOOLEAN /\ input' \in BOOLEAN /\ requested' \in BOOLEAN
          /\ irq' \in BOOLEAN /\ irq_is_disable' \in BOOLEAN
      BY <1>0, <1>7 DEF InitGpio, BoolOK, setup, held, irqs, power, client
    <3>2. avdd_port' \in BOOLEAN /\ kept' \in BOOLEAN /\ lost' \in BOOLEAN
      BY <1>0, <1>7 DEF InitGpio, BoolOK, setup, held, irqs, power, client
    <3>3. asked' \in BOOLEAN /\ power_is_off' \in BOOLEAN /\ avdd' \in BOOLEAN /\ rst' \in BOOLEAN
      BY <1>0, <1>7 DEF InitGpio, BoolOK, setup, held, irqs, power, client
    <3>4. pid' \in BOOLEAN /\ unread' \in BOOLEAN
      BY <1>0, <1>7 DEF InitGpio, BoolOK, setup, held, irqs, power, client
    <3> QED
      BY <3>1, <3>2, <3>3, <3>4 DEF BoolOK
  <2>4. Aside
    BY <1>1, <1>7, <2>3, BoundAssumption DEF InitGpio, Aside, Fault, setup, held, Goto, Return
  <2>5. CASE pc'[t] = "init_irq" /\ irq' /\ ~irq_is_disable' /\ UNCHANGED <<requested, depth, init, ports, input, avdd_port, kept>>
    <3>1. HeldOK'
      BY <1>1, <2>2, <2>5, BoundAssumption DEF HeldOK
    <3>2. (requested => irq)' /\ MaskAgrees'
      BY <1>1, <2>2, <2>5 DEF MaskAgrees
    <3>3. HeldAt(t)'
      BY <1>1, <2>2, <2>5 DEF BoolOK, HeldAt, AsUsed, InitLabel, irqs
    <3>4. Settled'
      BY <1>1, <2>2, <2>5 DEF HeldOK, BoolOK, Settled, AsUsed, Between, InitLabel, DeinitLabel, irqs
    <3> QED
      BY <2>1, <2>4, <3>1, <3>2, <3>3, <3>4, OwnCall
  <2>6. CASE pc'[t] = "idle" /\ ~ports' /\ avdd_port' /\ kept' /\ UNCHANGED <<irqs, init, input>>
    <3>1. HeldOK'
      BY <1>1, <1>5, <2>2, <2>6, BoundAssumption DEF HeldOK, irqs
    <3>2. (requested => irq)' /\ MaskAgrees'
      BY <1>5, <2>6 DEF irqs
    <3>3. HeldAt(t)'
      BY <1>1, <2>2, <2>6 DEF BoolOK, HeldAt, AsUsed, InitLabel, irqs
    <3>4. Settled'
      BY <1>1, <2>2, <2>6 DEF HeldOK, BoolOK, Settled, AsUsed, Between, InitLabel, DeinitLabel, irqs
    <3> QED
      BY <2>1, <2>4, <3>1, <3>2, <3>3, <3>4, OwnCall
  <2> QED
    BY <1>1, <1>7, <2>2, <2>5, <2>6 DEF InitGpio, Goto, Return, setup, held, irqs, HeldOK
<1>8. CASE InitIrq(t)
  <2>1. call[t] = "init" /\ Moves(t)
    BY <1>1, <1>3, <1>8 DEF InitIrq, Goto, Return, Moves, Place, InitLabel, DeinitLabel, ResetLabel, PulseLabel, PwdnLabel, PwdnOp
  <2>2. init < MaxInit /\ init = 0 /\ ~input /\ ~requested /\ ports /\ avdd_port /\ ~kept /\ irq /\ ~irq_is_disable
    BY <1>1, <1>8, <2>1 DEF InitIrq, HeldAt, InitLabel
  <2>3. BoolOK'
    <3>1. /\ ports' \in BOOLEAN /\ input' \in BOOLEAN /\ requested' \in BOOLEAN
          /\ irq' \in BOOLEAN /\ irq_is_disable' \in BOOLEAN
      BY <1>0, <1>8 DEF InitIrq, BoolOK, setup, held, irqs, power, client
    <3>2. avdd_port' \in BOOLEAN /\ kept' \in BOOLEAN /\ lost' \in BOOLEAN
      BY <1>0, <1>8 DEF InitIrq, BoolOK, setup, held, irqs, power, client
    <3>3. asked' \in BOOLEAN /\ power_is_off' \in BOOLEAN /\ avdd' \in BOOLEAN /\ rst' \in BOOLEAN
      BY <1>0, <1>8 DEF InitIrq, BoolOK, setup, held, irqs, power, client
    <3>4. pid' \in BOOLEAN /\ unread' \in BOOLEAN
      BY <1>0, <1>8 DEF InitIrq, BoolOK, setup, held, irqs, power, client
    <3> QED
      BY <3>1, <3>2, <3>3, <3>4 DEF BoolOK
  <2>4. Aside
    BY <1>1, <1>8, <2>3, BoundAssumption DEF InitIrq, Aside, Fault, setup, held, Goto, Return
  <2>5. CASE pc'[t] = "init_mask" /\ requested' /\ depth' = 0 /\ UNCHANGED <<irq, irq_is_disable, init, ports, input, avdd_port, kept>>
    <3>1. HeldOK'
      BY <1>1, <2>2, <2>5, BoundAssumption DEF HeldOK
    <3>2. (requested => irq)' /\ MaskAgrees'
      BY <1>1, <2>2, <2>5 DEF MaskAgrees
    <3>3. HeldAt(t)'
      BY <1>1, <2>2, <2>5 DEF BoolOK, HeldAt, AsUsed, InitLabel, irqs
    <3>4. Settled'
      BY <1>1, <2>2, <2>5 DEF HeldOK, BoolOK, Settled, AsUsed, Between, InitLabel, DeinitLabel, irqs
    <3> QED
      BY <2>1, <2>4, <3>1, <3>2, <3>3, <3>4, OwnCall
  <2>6. CASE pc'[t] = "idle" /\ ~ports' /\ ~avdd_port' /\ ~kept' /\ UNCHANGED <<irqs, init, input>>
    <3>1. HeldOK'
      BY <1>1, <1>5, <2>2, <2>6, BoundAssumption DEF HeldOK, irqs
    <3>2. (requested => irq)' /\ MaskAgrees'
      BY <1>5, <2>6 DEF irqs
    <3>3. HeldAt(t)'
      BY <1>1, <2>2, <2>6 DEF BoolOK, HeldAt, AsUsed, InitLabel, irqs
    <3>4. Settled'
      BY <1>1, <2>2, <2>6 DEF HeldOK, BoolOK, Settled, AsUsed, Between, InitLabel, DeinitLabel, irqs
    <3> QED
      BY <2>1, <2>4, <3>1, <3>2, <3>3, <3>4, OwnCall
  <2> QED
    BY <1>1, <1>8, <2>2, <2>5, <2>6 DEF InitIrq, Goto, Return, setup, held, irqs, HeldOK
<1>9. CASE InitMask(t)
  <2>1. call[t] = "init" /\ Moves(t)
    BY <1>1, <1>3, <1>9 DEF InitMask, Goto, Return, Moves, Place, InitLabel, DeinitLabel, ResetLabel, PulseLabel, PwdnLabel, PwdnOp
  <2>2. init < MaxInit /\ init = 0 /\ ~input /\ requested /\ ports /\ avdd_port /\ ~kept
    BY <1>1, <1>9, <2>1 DEF InitMask, HeldAt, InitLabel
  <2>3. BoolOK'
    <3>1. /\ ports' \in BOOLEAN /\ input' \in BOOLEAN /\ requested' \in BOOLEAN
          /\ irq' \in BOOLEAN /\ irq_is_disable' \in BOOLEAN
          /\ avdd_port' \in BOOLEAN /\ kept' \in BOOLEAN
      BY <1>0, <1>9 DEF InitMask, BoolOK, setup, held, irqs, power, client, IrqDisable
    <3>2. /\ lost' \in BOOLEAN /\ asked' \in BOOLEAN
          /\ power_is_off' \in BOOLEAN /\ avdd' \in BOOLEAN /\ rst' \in BOOLEAN
          /\ pid' \in BOOLEAN /\ unread' \in BOOLEAN
      BY <1>0, <1>9 DEF InitMask, BoolOK, setup, held, irqs, power, client, IrqDisable
    <3> QED
      BY <3>1, <3>2 DEF BoolOK
  <2>4. Aside
    BY <1>1, <1>9, <2>3, BoundAssumption DEF InitMask, Aside, Fault, setup, held, Goto, Return
  <2>5. pc'[t] = "init_rst" /\ IrqDisable /\ UNCHANGED <<irq, requested, init, ports, input, avdd_port, kept>>
    BY <1>1, <1>9 DEF InitMask, Goto, Return, setup, held, irqs, HeldOK
  <2>6. HeldOK'
    BY <1>1, <2>5, MaskStep DEF HeldOK, IInv
  <2>7. (requested => irq)' /\ MaskAgrees'
    BY <1>1, <2>5, MaskStep DEF IInv
  <2>8. HeldAt(t)'
    BY <1>1, <2>2, <2>5 DEF BoolOK, HeldAt, AsUsed, InitLabel, irqs
  <2>9. Settled'
    BY <1>1, <2>2, <2>5 DEF HeldOK, BoolOK, Settled, AsUsed, Between, InitLabel, DeinitLabel, irqs
  <2> QED
    BY <2>1, <2>4, <2>6, <2>7, <2>8, <2>9, OwnCall
<1>10. CASE InitRst(t)
  <2>1. call[t] = "init" /\ Moves(t)
    BY <1>1, <1>3, <1>10 DEF InitRst, Goto, Return, Moves, Place, InitLabel, DeinitLabel, ResetLabel, PulseLabel, PwdnLabel, PwdnOp
  <2>2. init < MaxInit /\ init = 0 /\ ~input /\ requested /\ ports /\ avdd_port /\ ~kept
    BY <1>1, <1>10, <2>1 DEF InitRst, HeldAt, InitLabel
  <2>3. BoolOK'
    <3>1. /\ ports' \in BOOLEAN /\ input' \in BOOLEAN /\ requested' \in BOOLEAN
          /\ irq' \in BOOLEAN /\ irq_is_disable' \in BOOLEAN
      BY <1>0, <1>10 DEF InitRst, BoolOK, setup, held, irqs, power, client
    <3>2. avdd_port' \in BOOLEAN /\ kept' \in BOOLEAN /\ lost' \in BOOLEAN
      BY <1>0, <1>10 DEF InitRst, BoolOK, setup, held, irqs, power, client
    <3>3. asked' \in BOOLEAN /\ power_is_off' \in BOOLEAN /\ avdd' \in BOOLEAN /\ rst' \in BOOLEAN
      BY <1>0, <1>10 DEF InitRst, BoolOK, setup, held, irqs, power, client
    <3>4. pid' \in BOOLEAN /\ unread' \in BOOLEAN
      BY <1>0, <1>10 DEF InitRst, BoolOK, setup, held, irqs, power, client
    <3> QED
      BY <3>1, <3>2, <3>3, <3>4 DEF BoolOK
  <2>4. Aside
    BY <1>1, <1>10, <2>3, BoundAssumption DEF InitRst, Aside, Fault, setup, held, Goto, Return
  <2>5. CASE pc'[t] = "init_input" /\ UNCHANGED <<irqs, init, ports, input, avdd_port, kept>>
    <3>1. HeldOK'
      BY <1>1, <1>5, <2>2, <2>5, BoundAssumption DEF HeldOK, irqs
    <3>2. (requested => irq)' /\ MaskAgrees'
      BY <1>5, <2>5 DEF irqs
    <3>3. HeldAt(t)'
      BY <1>1, <2>2, <2>5 DEF BoolOK, HeldAt, AsUsed, InitLabel, irqs
    <3>4. Settled'
      BY <1>1, <2>2, <2>5 DEF HeldOK, BoolOK, Settled, AsUsed, Between, InitLabel, DeinitLabel, irqs
    <3> QED
      BY <2>1, <2>4, <3>1, <3>2, <3>3, <3>4, OwnCall
  <2>6. CASE pc'[t] = "init_free" /\ UNCHANGED <<irqs, init, ports, input, avdd_port, kept>>
    <3>1. HeldOK'
      BY <1>1, <1>5, <2>2, <2>6, BoundAssumption DEF HeldOK, irqs
    <3>2. (requested => irq)' /\ MaskAgrees'
      BY <1>5, <2>6 DEF irqs
    <3>3. HeldAt(t)'
      BY <1>1, <2>2, <2>6 DEF BoolOK, HeldAt, AsUsed, InitLabel, irqs
    <3>4. Settled'
      BY <1>1, <2>2, <2>6 DEF HeldOK, BoolOK, Settled, AsUsed, Between, InitLabel, DeinitLabel, irqs
    <3> QED
      BY <2>1, <2>4, <3>1, <3>2, <3>3, <3>4, OwnCall
  <2> QED
    BY <1>1, <1>10, <2>5, <2>6 DEF InitRst, Goto, Return, setup, held, irqs, HeldOK
<1>11. CASE InitInput(t)
  <2>1. call[t] = "init" /\ Moves(t)
    BY <1>1, <1>3, <1>11 DEF InitInput, Goto, Return, Moves, Place, InitLabel, DeinitLabel, ResetLabel, PulseLabel, PwdnLabel, PwdnOp
  <2>2. init < MaxInit /\ init = 0 /\ ~input /\ requested /\ ports /\ avdd_port /\ ~kept
    BY <1>1, <1>11, <2>1 DEF InitInput, HeldAt, InitLabel
  <2>3. BoolOK'
    <3>1. /\ ports' \in BOOLEAN /\ input' \in BOOLEAN /\ requested' \in BOOLEAN
          /\ irq' \in BOOLEAN /\ irq_is_disable' \in BOOLEAN
      BY <1>0, <1>11 DEF InitInput, BoolOK, setup, held, irqs, power, client
    <3>2. avdd_port' \in BOOLEAN /\ kept' \in BOOLEAN /\ lost' \in BOOLEAN
      BY <1>0, <1>11 DEF InitInput, BoolOK, setup, held, irqs, power, client
    <3>3. asked' \in BOOLEAN /\ power_is_off' \in BOOLEAN /\ avdd' \in BOOLEAN /\ rst' \in BOOLEAN
      BY <1>0, <1>11 DEF InitInput, BoolOK, setup, held, irqs, power, client
    <3>4. pid' \in BOOLEAN /\ unread' \in BOOLEAN
      BY <1>0, <1>11 DEF InitInput, BoolOK, setup, held, irqs, power, client
    <3> QED
      BY <3>1, <3>2, <3>3, <3>4 DEF BoolOK
  <2>4. Aside
    BY <1>1, <1>11, <2>3, BoundAssumption DEF InitInput, Aside, Fault, setup, held, Goto, Return
  <2>5. CASE pc'[t] = "idle" /\ input' /\ init' = 1 /\ UNCHANGED <<irqs, ports, avdd_port, kept>>
    <3>1. HeldOK'
      BY <1>1, <1>5, <2>2, <2>5, BoundAssumption DEF HeldOK, irqs
    <3>2. (requested => irq)' /\ MaskAgrees'
      BY <1>5, <2>5 DEF irqs
    <3>3. HeldAt(t)'
      BY <1>1, <2>2, <2>5 DEF BoolOK, HeldAt, AsUsed, InitLabel, irqs
    <3>4. Settled'
      BY <1>1, <2>2, <2>5 DEF HeldOK, BoolOK, Settled, AsUsed, Between, InitLabel, DeinitLabel, irqs
    <3> QED
      BY <2>1, <2>4, <3>1, <3>2, <3>3, <3>4, OwnCall
  <2>6. CASE pc'[t] = "init_free" /\ UNCHANGED <<irqs, init, ports, input, avdd_port, kept>>
    <3>1. HeldOK'
      BY <1>1, <1>5, <2>2, <2>6, BoundAssumption DEF HeldOK, irqs
    <3>2. (requested => irq)' /\ MaskAgrees'
      BY <1>5, <2>6 DEF irqs
    <3>3. HeldAt(t)'
      BY <1>1, <2>2, <2>6 DEF BoolOK, HeldAt, AsUsed, InitLabel, irqs
    <3>4. Settled'
      BY <1>1, <2>2, <2>6 DEF HeldOK, BoolOK, Settled, AsUsed, Between, InitLabel, DeinitLabel, irqs
    <3> QED
      BY <2>1, <2>4, <3>1, <3>2, <3>3, <3>4, OwnCall
  <2> QED
    BY <1>1, <1>11, <2>5, <2>6 DEF InitInput, Goto, Return, setup, held, irqs, HeldOK
<1>12. CASE InitFree(t)
  <2>1. call[t] = "init" /\ Moves(t)
    BY <1>1, <1>3, <1>12 DEF InitFree, Goto, Return, Moves, Place, InitLabel, DeinitLabel, ResetLabel, PulseLabel, PwdnLabel, PwdnOp
  <2>2. init < MaxInit /\ init = 0 /\ ~input /\ requested /\ ~kept
    BY <1>1, <1>12, <2>1 DEF InitFree, HeldAt, InitLabel
  <2>3. BoolOK'
    <3>1. /\ ports' \in BOOLEAN /\ input' \in BOOLEAN /\ requested' \in BOOLEAN
          /\ irq' \in BOOLEAN /\ irq_is_disable' \in BOOLEAN
          /\ avdd_port' \in BOOLEAN /\ kept' \in BOOLEAN
      BY <1>0, <1>12 DEF InitFree, BoolOK, setup, held, irqs, power, client
    <3>2. /\ lost' \in BOOLEAN /\ asked' \in BOOLEAN
          /\ power_is_off' \in BOOLEAN /\ avdd' \in BOOLEAN /\ rst' \in BOOLEAN
          /\ pid' \in BOOLEAN /\ unread' \in BOOLEAN
      BY <1>0, <1>12 DEF InitFree, BoolOK, setup, held, irqs, power, client
    <3> QED
      BY <3>1, <3>2 DEF BoolOK
  <2>4. Aside
    BY <1>1, <1>12, <2>3, BoundAssumption DEF InitFree, Aside, Fault, setup, held, Goto, Return
  <2>5. pc'[t] = "init_sync" /\ ~requested' /\ depth' = 1 /\ UNCHANGED <<irq, irq_is_disable, init, ports, input, avdd_port, kept>>
    BY <1>1, <1>12 DEF InitFree, Goto, Return, setup, held, irqs, HeldOK
  <2>6. HeldOK'
    BY <1>1, <2>2, <2>5, BoundAssumption DEF HeldOK
  <2>7. (requested => irq)' /\ MaskAgrees'
    BY <1>1, <2>2, <2>5 DEF MaskAgrees
  <2>8. HeldAt(t)'
    BY <1>1, <2>2, <2>5 DEF BoolOK, HeldAt, AsUsed, InitLabel, irqs
  <2>9. Settled'
    BY <1>1, <2>2, <2>5 DEF HeldOK, BoolOK, Settled, AsUsed, Between, InitLabel, DeinitLabel, irqs
  <2> QED
    BY <2>1, <2>4, <2>6, <2>7, <2>8, <2>9, OwnCall
<1>13. CASE InitSync(t)
  <2>1. call[t] = "init" /\ Moves(t)
    BY <1>1, <1>3, <1>13 DEF InitSync, Goto, Return, Moves, Place, InitLabel, DeinitLabel, ResetLabel, PulseLabel, PwdnLabel, PwdnOp
  <2>2. init < MaxInit /\ init = 0 /\ ~input /\ ~requested /\ ~kept
    BY <1>1, <1>13, <2>1 DEF InitSync, HeldAt, InitLabel
  <2>3. BoolOK'
    <3>1. /\ ports' \in BOOLEAN /\ input' \in BOOLEAN /\ requested' \in BOOLEAN
          /\ irq' \in BOOLEAN /\ irq_is_disable' \in BOOLEAN
          /\ avdd_port' \in BOOLEAN /\ kept' \in BOOLEAN
      BY <1>0, <1>13 DEF InitSync, BoolOK, setup, held, irqs, power, client
    <3>2. /\ lost' \in BOOLEAN /\ asked' \in BOOLEAN
          /\ power_is_off' \in BOOLEAN /\ avdd' \in BOOLEAN /\ rst' \in BOOLEAN
          /\ pid' \in BOOLEAN /\ unread' \in BOOLEAN
      BY <1>0, <1>13 DEF InitSync, BoolOK, setup, held, irqs, power, client
    <3> QED
      BY <3>1, <3>2 DEF BoolOK
  <2>4. Aside
    BY <1>1, <1>13, <2>3, BoundAssumption DEF InitSync, Aside, Fault, setup, held, Goto, Return
  <2>5. pc'[t] = "idle" /\ ~ports' /\ ~avdd_port' /\ ~kept' /\ UNCHANGED <<irqs, init, input>>
    BY <1>1, <1>13, <2>2 DEF InitSync, Goto, Return, setup, held, irqs, HeldOK
  <2>6. HeldOK'
    BY <1>1, <1>5, <2>2, <2>5, BoundAssumption DEF HeldOK, irqs
  <2>7. (requested => irq)' /\ MaskAgrees'
    BY <1>5, <2>5 DEF irqs
  <2>8. HeldAt(t)'
    BY <1>1, <2>2, <2>5 DEF BoolOK, HeldAt, AsUsed, InitLabel, irqs
  <2>9. Settled'
    BY <1>1, <2>2, <2>5 DEF HeldOK, BoolOK, Settled, AsUsed, Between, InitLabel, DeinitLabel, irqs
  <2> QED
    BY <2>1, <2>4, <2>6, <2>7, <2>8, <2>9, OwnCall
<1>14. CASE DeinitFirst(t)
  <2>1. call[t] = "deinit" /\ Moves(t)
    BY <1>1, <1>3, <1>14 DEF DeinitFirst, Goto, Return, Moves, Place, InitLabel, DeinitLabel, ResetLabel, PulseLabel, PwdnLabel, PwdnOp
  <2>2. AsUsed
    BY <1>1, <1>4, <1>14, <2>1 DEF DeinitFirst, HeldAt, InitLabel
  <2>3. BoolOK'
    <3>1. /\ ports' \in BOOLEAN /\ input' \in BOOLEAN /\ requested' \in BOOLEAN
          /\ irq' \in BOOLEAN /\ irq_is_disable' \in BOOLEAN
          /\ avdd_port' \in BOOLEAN /\ kept' \in BOOLEAN
      BY <1>0, <1>14 DEF DeinitFirst, BoolOK, setup, held, irqs, power, client
    <3>2. /\ lost' \in BOOLEAN /\ asked' \in BOOLEAN
          /\ power_is_off' \in BOOLEAN /\ avdd' \in BOOLEAN /\ rst' \in BOOLEAN
          /\ pid' \in BOOLEAN /\ unread' \in BOOLEAN
      BY <1>0, <1>14 DEF DeinitFirst, BoolOK, setup, held, irqs, power, client
    <3> QED
      BY <3>1, <3>2 DEF BoolOK
  <2>4. Aside
    BY <1>1, <1>14, <2>3, BoundAssumption DEF DeinitFirst, Aside, Fault, setup, held, Goto, Return
  <2>5. CASE pc'[t] = "idle" /\ init = 0 /\ UNCHANGED <<irqs, init, ports, input, avdd_port, kept>>
    <3>1. HeldOK'
      BY <1>1, <1>5, <2>2, <2>5, BoundAssumption DEF HeldOK, irqs
    <3>2. (requested => irq)' /\ MaskAgrees'
      BY <1>5, <2>5 DEF irqs
    <3>3. HeldAt(t)'
      BY <1>1, <2>2, <2>5 DEF BoolOK, HeldAt, AsUsed, InitLabel, irqs
    <3>4. Settled'
      BY <1>1, <2>2, <2>5 DEF HeldOK, BoolOK, Settled, AsUsed, Between, InitLabel, DeinitLabel, irqs
    <3> QED
      BY <2>1, <2>4, <3>1, <3>2, <3>3, <3>4, OwnCall
  <2>6. CASE pc'[t] = "deinit_mask" /\ init = 1 /\ init' = 0 /\ UNCHANGED <<irqs, ports, input, avdd_port, kept>>
    <3>1. HeldOK'
      BY <1>1, <1>5, <2>2, <2>6, BoundAssumption DEF HeldOK, irqs
    <3>2. (requested => irq)' /\ MaskAgrees'
      BY <1>5, <2>6 DEF irqs
    <3>3. HeldAt(t)'
      BY <1>1, <2>2, <2>6 DEF BoolOK, HeldAt, AsUsed, InitLabel, irqs
    <3>4. Settled'
      BY <1>1, <2>2, <2>6 DEF HeldOK, BoolOK, Settled, AsUsed, Between, InitLabel, DeinitLabel, irqs
    <3> QED
      BY <2>1, <2>4, <3>1, <3>2, <3>3, <3>4, OwnCall
  <2>7. CASE pc'[t] = "deinit_send" /\ init > 1 /\ init' = init - 1 /\ UNCHANGED <<irqs, ports, input, avdd_port, kept>>
    <3>1. HeldOK'
      BY <1>1, <1>5, <2>2, <2>7, BoundAssumption DEF HeldOK, irqs
    <3>2. (requested => irq)' /\ MaskAgrees'
      BY <1>5, <2>7 DEF irqs
    <3>3. HeldAt(t)'
      BY <1>1, <2>2, <2>7 DEF BoolOK, HeldAt, AsUsed, InitLabel, irqs
    <3>4. Settled'
      BY <1>1, <2>2, <2>7 DEF HeldOK, BoolOK, Settled, AsUsed, Between, InitLabel, DeinitLabel, irqs
    <3> QED
      BY <2>1, <2>4, <3>1, <3>2, <3>3, <3>4, OwnCall
  <2> QED
    BY <1>1, <1>14, <2>5, <2>6, <2>7 DEF DeinitFirst, Goto, Return, setup, held, irqs, HeldOK
<1>15. CASE DeinitMask(t)
  <2>1. call[t] = "deinit" /\ Moves(t)
    BY <1>1, <1>3, <1>15 DEF DeinitMask, Goto, Return, Moves, Place, InitLabel, DeinitLabel, ResetLabel, PulseLabel, PwdnLabel, PwdnOp
  <2>2. init = 0 /\ requested /\ ~kept
    BY <1>1, <1>15, <2>1 DEF DeinitMask, HeldAt, InitLabel
  <2>3. BoolOK'
    <3>1. /\ ports' \in BOOLEAN /\ input' \in BOOLEAN /\ requested' \in BOOLEAN
          /\ irq' \in BOOLEAN /\ irq_is_disable' \in BOOLEAN
      BY <1>0, <1>15 DEF DeinitMask, BoolOK, setup, held, irqs, power, client, IrqDisable
    <3>2. avdd_port' \in BOOLEAN /\ kept' \in BOOLEAN /\ lost' \in BOOLEAN
      BY <1>0, <1>15 DEF DeinitMask, BoolOK, setup, held, irqs, power, client, IrqDisable
    <3>3. asked' \in BOOLEAN /\ power_is_off' \in BOOLEAN /\ avdd' \in BOOLEAN /\ rst' \in BOOLEAN
      BY <1>0, <1>15 DEF DeinitMask, BoolOK, setup, held, irqs, power, client, IrqDisable
    <3>4. pid' \in BOOLEAN /\ unread' \in BOOLEAN
      BY <1>0, <1>15 DEF DeinitMask, BoolOK, setup, held, irqs, power, client, IrqDisable
    <3> QED
      BY <3>1, <3>2, <3>3, <3>4 DEF BoolOK
  <2>4. Aside
    BY <1>1, <1>15, <2>3, BoundAssumption DEF DeinitMask, Aside, Fault, setup, held, Goto, Return
  <2>5. pc'[t] = "deinit_free" /\ IrqDisable /\ UNCHANGED <<irq, requested, init, ports, input, avdd_port, kept>>
    BY <1>1, <1>15 DEF DeinitMask, Goto, Return, setup, held, irqs, HeldOK
  <2>6. HeldOK'
    BY <1>1, <2>5, MaskStep DEF HeldOK, IInv
  <2>7. (requested => irq)' /\ MaskAgrees'
    BY <1>1, <2>5, MaskStep DEF IInv
  <2>8. HeldAt(t)'
    BY <1>1, <2>2, <2>5 DEF BoolOK, HeldAt, AsUsed, InitLabel, irqs
  <2>9. Settled'
    BY <1>1, <2>2, <2>5 DEF HeldOK, BoolOK, Settled, AsUsed, Between, InitLabel, DeinitLabel, irqs
  <2> QED
    BY <2>1, <2>4, <2>6, <2>7, <2>8, <2>9, OwnCall
<1>16. CASE DeinitFree(t)
  <2>1. call[t] = "deinit" /\ Moves(t)
    BY <1>1, <1>3, <1>16 DEF DeinitFree, Goto, Return, Moves, Place, InitLabel, DeinitLabel, ResetLabel, PulseLabel, PwdnLabel, PwdnOp
  <2>2. init = 0 /\ requested /\ ~kept
    BY <1>1, <1>16, <2>1 DEF DeinitFree, HeldAt, InitLabel
  <2>3. BoolOK'
    <3>1. /\ ports' \in BOOLEAN /\ input' \in BOOLEAN /\ requested' \in BOOLEAN
          /\ irq' \in BOOLEAN /\ irq_is_disable' \in BOOLEAN
          /\ avdd_port' \in BOOLEAN /\ kept' \in BOOLEAN
      BY <1>0, <1>16 DEF DeinitFree, BoolOK, setup, held, irqs, power, client
    <3>2. /\ lost' \in BOOLEAN /\ asked' \in BOOLEAN
          /\ power_is_off' \in BOOLEAN /\ avdd' \in BOOLEAN /\ rst' \in BOOLEAN
          /\ pid' \in BOOLEAN /\ unread' \in BOOLEAN
      BY <1>0, <1>16 DEF DeinitFree, BoolOK, setup, held, irqs, power, client
    <3> QED
      BY <3>1, <3>2 DEF BoolOK
  <2>4. Aside
    BY <1>1, <1>16, <2>3, BoundAssumption DEF DeinitFree, Aside, Fault, setup, held, Goto, Return
  <2>5. pc'[t] = "deinit_sync" /\ ~requested' /\ depth' = 1 /\ UNCHANGED <<irq, irq_is_disable, init, ports, input, avdd_port, kept>>
    BY <1>1, <1>16 DEF DeinitFree, Goto, Return, setup, held, irqs, HeldOK
  <2>6. HeldOK'
    BY <1>1, <2>2, <2>5, BoundAssumption DEF HeldOK
  <2>7. (requested => irq)' /\ MaskAgrees'
    BY <1>1, <2>2, <2>5 DEF MaskAgrees
  <2>8. HeldAt(t)'
    BY <1>1, <2>2, <2>5 DEF BoolOK, HeldAt, AsUsed, InitLabel, irqs
  <2>9. Settled'
    BY <1>1, <2>2, <2>5 DEF HeldOK, BoolOK, Settled, AsUsed, Between, InitLabel, DeinitLabel, irqs
  <2> QED
    BY <2>1, <2>4, <2>6, <2>7, <2>8, <2>9, OwnCall
<1>17. CASE DeinitSync(t)
  <2>1. call[t] = "deinit" /\ Moves(t)
    BY <1>1, <1>3, <1>17 DEF DeinitSync, Goto, Return, Moves, Place, InitLabel, DeinitLabel, ResetLabel, PulseLabel, PwdnLabel, PwdnOp
  <2>2. init = 0 /\ ~requested /\ ~kept
    BY <1>1, <1>17, <2>1 DEF DeinitSync, HeldAt, InitLabel
  <2>3. BoolOK'
    <3>1. /\ ports' \in BOOLEAN /\ input' \in BOOLEAN /\ requested' \in BOOLEAN
          /\ irq' \in BOOLEAN /\ irq_is_disable' \in BOOLEAN
          /\ avdd_port' \in BOOLEAN /\ kept' \in BOOLEAN
      BY <1>0, <1>17 DEF DeinitSync, BoolOK, setup, held, irqs, power, client
    <3>2. /\ lost' \in BOOLEAN /\ asked' \in BOOLEAN
          /\ power_is_off' \in BOOLEAN /\ avdd' \in BOOLEAN /\ rst' \in BOOLEAN
          /\ pid' \in BOOLEAN /\ unread' \in BOOLEAN
      BY <1>0, <1>17 DEF DeinitSync, BoolOK, setup, held, irqs, power, client
    <3> QED
      BY <3>1, <3>2 DEF BoolOK
  <2>4. Aside
    BY <1>1, <1>17, <2>3, BoundAssumption DEF DeinitSync, Aside, Fault, setup, held, Goto, Return
  <2>5. pc'[t] = "deinit_ports" /\ UNCHANGED <<irqs, init, ports, input, avdd_port, kept>>
    BY <1>1, <1>17 DEF DeinitSync, Goto, Return, setup, held, irqs, HeldOK
  <2>6. HeldOK'
    BY <1>1, <1>5, <2>2, <2>5, BoundAssumption DEF HeldOK, irqs
  <2>7. (requested => irq)' /\ MaskAgrees'
    BY <1>5, <2>5 DEF irqs
  <2>8. HeldAt(t)'
    BY <1>1, <2>2, <2>5 DEF BoolOK, HeldAt, AsUsed, InitLabel, irqs
  <2>9. Settled'
    BY <1>1, <2>2, <2>5 DEF HeldOK, BoolOK, Settled, AsUsed, Between, InitLabel, DeinitLabel, irqs
  <2> QED
    BY <2>1, <2>4, <2>6, <2>7, <2>8, <2>9, OwnCall
<1>18. CASE DeinitPorts(t)
  <2>1. call[t] = "deinit" /\ Moves(t)
    BY <1>1, <1>3, <1>18 DEF DeinitPorts, Goto, Return, Moves, Place, InitLabel, DeinitLabel, ResetLabel, PulseLabel, PwdnLabel, PwdnOp
  <2>2. init = 0 /\ ~requested /\ ~kept
    BY <1>1, <1>18, <2>1 DEF DeinitPorts, HeldAt, InitLabel
  <2>3. BoolOK'
    <3>1. /\ ports' \in BOOLEAN /\ input' \in BOOLEAN /\ requested' \in BOOLEAN
          /\ irq' \in BOOLEAN /\ irq_is_disable' \in BOOLEAN
          /\ avdd_port' \in BOOLEAN /\ kept' \in BOOLEAN
      BY <1>0, <1>18 DEF DeinitPorts, BoolOK, setup, held, irqs, power, client, PowerOff
    <3>2. /\ lost' \in BOOLEAN /\ asked' \in BOOLEAN
          /\ power_is_off' \in BOOLEAN /\ avdd' \in BOOLEAN /\ rst' \in BOOLEAN
          /\ pid' \in BOOLEAN /\ unread' \in BOOLEAN
      BY <1>0, <1>18 DEF DeinitPorts, BoolOK, setup, held, irqs, power, client, PowerOff
    <3> QED
      BY <3>1, <3>2 DEF BoolOK
  <2>4. Aside
    BY <1>1, <1>18, <2>3, BoundAssumption DEF DeinitPorts, Aside, Fault, setup, held, Goto, Return
  <2>5. pc'[t] = "deinit_send" /\ ~ports' /\ ~input' /\ ~avdd_port' /\ ~kept' /\ UNCHANGED <<irqs, init>>
    BY <1>1, <1>18, <2>2 DEF DeinitPorts, Goto, Return, setup, held, irqs, HeldOK
  <2>6. HeldOK'
    BY <1>1, <1>5, <2>2, <2>5, BoundAssumption DEF HeldOK, irqs
  <2>7. (requested => irq)' /\ MaskAgrees'
    BY <1>5, <2>5 DEF irqs
  <2>8. HeldAt(t)'
    BY <1>1, <2>2, <2>5 DEF BoolOK, HeldAt, AsUsed, InitLabel, irqs
  <2>9. Settled'
    BY <1>1, <2>2, <2>5 DEF HeldOK, BoolOK, Settled, AsUsed, Between, InitLabel, DeinitLabel, irqs
  <2> QED
    BY <2>1, <2>4, <2>6, <2>7, <2>8, <2>9, OwnCall
<1>19. CASE DeinitSend(t)
  <2>1. call[t] = "deinit" /\ Moves(t)
    BY <1>1, <1>3, <1>19 DEF DeinitSend, Goto, Return, Moves, Place, InitLabel, DeinitLabel, ResetLabel, PulseLabel, PwdnLabel, PwdnOp
  <2>2. AsUsed
    BY <1>1, <1>4, <1>19, <2>1 DEF DeinitSend, HeldAt, InitLabel
  <2>3. BoolOK'
    <3>1. /\ ports' \in BOOLEAN /\ input' \in BOOLEAN /\ requested' \in BOOLEAN
          /\ irq' \in BOOLEAN /\ irq_is_disable' \in BOOLEAN
      BY <1>0, <1>19 DEF DeinitSend, BoolOK, setup, held, irqs, power, client
    <3>2. avdd_port' \in BOOLEAN /\ kept' \in BOOLEAN /\ lost' \in BOOLEAN
      BY <1>0, <1>19 DEF DeinitSend, BoolOK, setup, held, irqs, power, client
    <3>3. asked' \in BOOLEAN /\ power_is_off' \in BOOLEAN /\ avdd' \in BOOLEAN /\ rst' \in BOOLEAN
      BY <1>0, <1>19 DEF DeinitSend, BoolOK, setup, held, irqs, power, client
    <3>4. pid' \in BOOLEAN /\ unread' \in BOOLEAN
      BY <1>0, <1>19 DEF DeinitSend, BoolOK, setup, held, irqs, power, client
    <3> QED
      BY <3>1, <3>2, <3>3, <3>4 DEF BoolOK
  <2>4. Aside
    BY <1>1, <1>19, <2>3, BoundAssumption DEF DeinitSend, Aside, setup, held, Goto, Return
  <2>5. pc'[t] = "idle" /\ UNCHANGED <<irqs, init, ports, input, avdd_port, kept>>
    BY <1>1, <1>19 DEF DeinitSend, Goto, Return, setup, held, irqs, HeldOK
  <2>6. HeldOK'
    BY <1>1, <1>5, <2>2, <2>5, BoundAssumption DEF HeldOK, irqs
  <2>7. (requested => irq)' /\ MaskAgrees'
    BY <1>5, <2>5 DEF irqs
  <2>8. HeldAt(t)'
    BY <1>1, <2>2, <2>5 DEF BoolOK, HeldAt, AsUsed, InitLabel, irqs
  <2>9. Settled'
    BY <1>1, <2>2, <2>5 DEF HeldOK, BoolOK, Settled, AsUsed, Between, InitLabel, DeinitLabel, irqs
  <2> QED
    BY <2>1, <2>4, <2>6, <2>7, <2>8, <2>9, OwnCall
<1> QED
  BY <1>6, <1>7, <1>8, <1>9, <1>10, <1>11, <1>12, <1>13, <1>14, <1>15, <1>16, <1>17, <1>18, <1>19 DEF Bringup, Teardown

(* The start of a call.                                                     *)
LEMMA CallStep ==
  ASSUME IInv, NEW t \in Thread, NEW op \in Op, Call(t, op)
  PROVE  IInv'
<1> USE DEF Call
<1>1. /\ call' \in [Thread -> Op \cup {"none"}] /\ DOMAIN pc' = Thread
      /\ \A u \in Thread \ {t} : call'[u] = call[u] /\ pc'[u] = pc[u]
      /\ call'[t] = op /\ pc'[t] = First(op)
  BY DEF IInv, TypeOK
<1>2. <<op, First(op)>> \in Place
  BY DEF Op, First, Place, InitLabel, DeinitLabel, ResetLabel, PwdnLabel, PwdnOp
<1>3. First(op) \notin Between /\ (First(op) \in InitLabel => op = "init")
  BY DEF Op, First, Between, InitLabel, DeinitLabel, PwdnOp
<1>4. TypeOK'
  BY <1>1, <1>2 DEF IInv, TypeOK, irqs, setup, held, power, async, client
<1>5. Alone'
  <2>1. op \in {"init", "deinit"} => \A u \in Thread : call[u] = "none"
    <3>1. ASSUME op \in {"init", "deinit"}, NEW u \in Thread PROVE call[u] = "none"
      <4>1. pc[u] = "idle" /\ <<call[u], pc[u]>> \in Place
        BY <3>1, CallAssumption DEF IInv, TypeOK
      <4> QED
        BY <4>1 DEF Place, InitLabel, DeinitLabel, ResetLabel, PulseLabel, PwdnLabel, PwdnOp
    <3> QED
      BY <3>1
  <2>2. \A u \in Thread : call[u] \notin {"init", "deinit"}
    BY CallAssumption
  <2> QED
    BY <1>1, <2>1, <2>2 DEF Alone
<1>6. ASSUME NEW u \in Thread PROVE HeldAt(u)'
  <2>1. CASE u # t
    BY <1>1, <2>1 DEF IInv, HeldAt, setup, held, irqs
  <2>2. CASE u = t
    <3>1. pc'[t] \in InitLabel => init < MaxInit /\ pc'[t] = "init"
      BY <1>1, <1>3 DEF First, PwdnOp
    <3>2. pc'[t] \notin {"init_gpio", "init_irq", "init_sync", "init_mask", "init_rst",
                         "init_input", "init_free"}
      BY <3>1 DEF InitLabel
    <3>3. pc'[t] \notin {"deinit_mask", "deinit_free", "deinit_sync", "deinit_ports"}
      BY <1>1, <1>3 DEF Between, DeinitLabel
    <3> QED
      BY <2>2, <3>1, <3>2, <3>3 DEF HeldAt, setup, held
  <2> QED
    BY <2>1, <2>2
<1>7. Settled'
  <2>1. pc[t] \notin Between
    BY DEF Between, InitLabel, DeinitLabel
  <2>2. (\A u \in Thread : pc'[u] \notin Between) => (\A u \in Thread : pc[u] \notin Between)
    BY <1>1, <2>1
  <2> QED
    BY <2>2 DEF IInv, Settled, AsUsed, irqs, setup, held
<1>8. (requested => irq)' /\ MaskAgrees'
  BY DEF IInv, MaskAgrees, irqs
<1> QED
  BY <1>4, <1>5, <1>6, <1>7, <1>8 DEF IInv

(* The interrupt, the work queue and the client's reading leave the line,   *)
(* the pins and the threads alone.                                          *)
LEMMA AsyncStep ==
  ASSUME IInv, Edge \/ Handler \/ Work \/ Hello \/ Read
  PROVE  IInv'
<1>1. UNCHANGED <<threads, irqs, held, power, irq_ignore, asked>>
  BY DEF Edge, Handler, Deliver, HandlerEntry, HandlerQueue, HandlerComplete, Work, WorkStart,
         WorkSend, Hello, Read, async, setup
<1>2. latched' \in BOOLEAN /\ queued' \in BOOLEAN /\ pid' \in BOOLEAN /\ lost' \in BOOLEAN
  BY DEF IInv, TypeOK, Edge, Handler, Deliver, HandlerEntry, HandlerQueue, HandlerComplete, Work,
         WorkStart, WorkSend, Hello, Read, Send, async, client
<1>3. hirq' \in {"idle", "entry", "queue", "complete"} /\ worker' \in {"idle", "run"}
  BY DEF IInv, TypeOK, Edge, Handler, Deliver, HandlerEntry, HandlerQueue, HandlerComplete, Work,
         WorkStart, WorkSend, Hello, Read, async
<1>4. unread' \in BOOLEAN
  BY DEF IInv, TypeOK, Edge, Handler, Deliver, HandlerEntry, HandlerQueue, HandlerComplete, Work,
         WorkStart, WorkSend, Hello, Read, Send, async, client
<1>5. done' \in 0 .. MaxDone
  BY BoundAssumption
     DEF IInv, TypeOK, Edge, Handler, Deliver, HandlerEntry, HandlerQueue, HandlerComplete, Work,
         WorkStart, WorkSend, Hello, Read, async
<1>0. faults' \in 0 .. MaxFault
  BY BoundAssumption
     DEF IInv, TypeOK, Edge, Handler, Deliver, HandlerEntry, HandlerQueue, HandlerComplete, Work,
         WorkStart, WorkSend, Hello, Read, Send, Fault, setup
<1>6. TypeOK'
  BY <1>0, <1>1, <1>2, <1>3, <1>4, <1>5 DEF IInv, TypeOK, threads, irqs, setup, held, power
<1>7. Alone' /\ (\A t \in Thread : HeldAt(t))'
  BY <1>1 DEF IInv, Alone, HeldAt, threads, irqs, setup, held
<1>8. Settled' /\ (requested => irq)' /\ MaskAgrees'
  BY <1>1 DEF IInv, Settled, AsUsed, MaskAgrees, threads, irqs, setup, held
<1> QED
  BY <1>6, <1>7, <1>8 DEF IInv

(* The invariant is kept by every step.                                     *)
LEMMA NextInv == IInv /\ [Next]_vars => IInv'
<1> SUFFICES ASSUME IInv, [Next]_vars PROVE IInv'
  OBVIOUS
<1>1. ASSUME NEW t \in Thread, NEW op \in Op, Call(t, op) PROVE IInv'
  BY <1>1, CallStep
<1>2. ASSUME NEW t \in Thread, Bringup(t) \/ Teardown(t) PROVE IInv'
  BY <1>2, OwnStep
<1>3. ASSUME NEW t \in Thread, Reset(t) \/ IrqCall(t) \/ PowerDown(t) PROVE IInv'
  <2>1. call[t] \notin {"none", "init", "deinit"} /\ Moves(t) /\ Keeps /\ RestOK'
    BY <1>3, OtherStep
  <2>2. Places' /\ Alone' /\ (\A u \in Thread : HeldAt(u))' /\ Settled'
    BY <2>1, OtherCall DEF Keeps
  <2>3. (requested => irq)' /\ MaskAgrees' /\ irq_is_disable' \in BOOLEAN /\ depth' \in Nat
    <3>1. CASE UNCHANGED <<irq_is_disable, depth>>
      BY <2>1, <3>1 DEF IInv, TypeOK, MaskAgrees, Keeps
    <3>2. CASE IrqDisable \/ IrqEnable
      BY <2>1, <3>2, MaskStep DEF IInv, Keeps
    <3> QED
      BY <2>1, <3>1, <3>2 DEF Keeps
  <2>4. TypeOK'
    BY <2>1, <2>2, <2>3 DEF IInv, TypeOK, Places, Keeps, RestOK, setup, held, async, client
  <2> QED
    BY <2>2, <2>3, <2>4 DEF IInv
<1>4. ASSUME Edge \/ Handler \/ Work \/ Hello \/ Read PROVE IInv'
  BY <1>4, AsyncStep
<1>5. ASSUME UNCHANGED vars PROVE IInv'
  BY <1>5 DEF vars, threads, irqs, setup, held, power, async, client, IInv, TypeOK, Alone, HeldAt,
              Settled, AsUsed, MaskAgrees
<1> QED
  BY <1>1, <1>2, <1>3, <1>4, <1>5 DEF Next, Ioctl

-----------------------------------------------------------------------------
(* The invariant holds in every state.                                      *)
LEMMA Inductive == Spec => []IInv
BY InitInv, NextInv, PTL DEF Spec

(* Every variable of the driver keeps its type, for any number of threads.  *)
THEOREM TypeCorrect == Spec => []TypeOK
<1>1. IInv => TypeOK
  BY DEF IInv
<1> QED
  BY <1>1, Inductive, PTL

(* silfp_irq_enable and silfp_irq_disable never leave the line of the       *)
(* sensor masked twice or unmasked behind the flag's back, for any number   *)
(* of threads whose ENABLE, DISABLE and RESET calls overlap.                *)
THEOREM MaskCorrect == Spec => []MaskAgrees
<1>1. IInv => MaskAgrees
  BY DEF IInv
<1> QED
  BY <1>1, Inductive, PTL

(* Through every error path of INIT and however many times it is nested,    *)
(* the driver holds the line, its interrupt and reset pins and the input    *)
(* device exactly while it has users.  The supply pin is held while it has  *)
(* users, and after an INIT that failed to get its interrupt pin, until the *)
(* next INIT; nowhere else.                                                 *)
THEOREM HeldCorrect == Spec => []HeldWhileUsed
<1>1. IInv => HeldWhileUsed
  <2> SUFFICES ASSUME IInv, ~InProgress({"init", "deinit"}) PROVE HeldWhileUsed
    BY DEF HeldWhileUsed
  <2>1. \A t \in Thread : <<call[t], pc[t]>> \in Place /\ call[t] \notin {"init", "deinit"}
    BY DEF IInv, TypeOK, InProgress
  <2>2. \A t \in Thread : pc[t] \notin Between
    BY <2>1 DEF Place, Between, InitLabel, DeinitLabel, ResetLabel, PulseLabel, PwdnLabel, PwdnOp
  <2> QED
    BY <2>2 DEF IInv, Settled, AsUsed, HeldWhileUsed
<1> QED
  BY <1>1, Inductive, PTL

-----------------------------------------------------------------------------
(* With RESET exclusive too, nothing else runs during it.                   *)
ResetAlone == "reset" \in Exclusive
SoloOp    == {"init", "deinit", "reset"}
SoloLabel == InitLabel \cup DeinitLabel \cup ResetLabel
Solo == \A t, u \in Thread : call[t] \in SoloOp /\ u # t => call[u] = "none"

(* What each place of a RESET says of the line, the supply and the reset    *)
(* pin, and what the places of the other calls say of the supply.           *)
Pulsing == {"reset_look", "reset_enable", "reset_low", "reset_high", "reset_mask", "reset_end"}
ResetAt(t) ==
  /\ pc[t] = "reset_enable" => masked[t] /\ irq_is_disable
  /\ pc[t] \in {"reset_low", "reset_high"}
       => ~irq_is_disable /\ (init > 0 => (asked <=> ~masked[t]))
  /\ pc[t] = "reset_mask" => masked[t] /\ ~irq_is_disable /\ (init > 0 => ~asked)
  /\ pc[t] \in Pulsing => irq_ignore
  /\ pc[t] \in Pulsing \cup {"reset_power", "reset_ignore"} /\ init > 0 => avdd
  /\ pc[t] \in {"reset_mask", "reset_end"} /\ init > 0 => rst
OwnAt(t) ==
  /\ pc[t] \in {"init_rst", "init_input"} => irq_is_disable /\ ~asked
  /\ pc[t] \in {"init_gpio", "init_irq", "init_mask", "init_rst", "init_input"}
       => avdd_port /\ avdd /\ ~power_is_off
  /\ pc[t] = "pwdn_mark" /\ init > 0 => ~avdd

(* The two agreements, and the places where they do not hold.               *)
AskedSo   == init > 0 => (irq_is_disable <=> ~asked)
PowerSo   == init > 0 => (avdd <=> ~power_is_off)
MaskBusy  == {"reset_low", "reset_high", "reset_mask"}
PowerBusy == {"pwdn_mark", "reset_power"}

RInv == /\ Solo
        /\ \A t \in Thread : ResetAt(t) /\ OwnAt(t)
        /\ (\A t \in Thread : pc[t] \notin MaskBusy) => AskedSo
        /\ (\A t \in Thread : pc[t] \notin PowerBusy) => PowerSo
        /\ init > 0 => avdd_port

(* What every step of a call does to the places of the threads.             *)
Steps(t) == /\ \A u \in Thread \ {t} : pc'[u] = pc[u] /\ call'[u] = call[u]
            /\ call'[t] \in {call[t], "none"}

LEMMA IoctlSteps ==
  ASSUME TypeOK, NEW t \in Thread, Ioctl(t)
  PROVE  Steps(t)
<1> USE DEF TypeOK, Steps, Goto, Return
<1>1. Bringup(t) => Steps(t)
  BY DEF Bringup, InitFirst, InitGpio, InitIrq, InitMask, InitRst, InitInput, InitFree, InitSync
<1>2. Teardown(t) => Steps(t)
  BY DEF Teardown, DeinitFirst, DeinitMask, DeinitFree, DeinitSync, DeinitPorts, DeinitSend
<1>3. Reset(t) => Steps(t)
  BY DEF Reset, ResetFirst, ResetPower, ResetIgnore, ResetLook, ResetEnable, ResetLow, ResetHigh, ResetMask, ResetEnd
<1>4. IrqCall(t) => Steps(t)
  BY DEF IrqCall, Enable, Disable, Clr, Wait
<1>5. PowerDown(t) => Steps(t)
  BY DEF PowerDown, Pwdn, PwdnOff, PwdnMark
<1> QED BY <1>1, <1>2, <1>3, <1>4, <1>5 DEF Ioctl

LEMMA SoloKept == ASSUME Solo, NEW t \in Thread, Steps(t) PROVE Solo'
BY DEF Solo, Steps, SoloOp

(* Where the calls are, by the places of the threads.                       *)
LEMMA SoloCall ==
  ASSUME TypeOK, NEW t \in Thread
  PROVE  /\ pc[t] \in SoloLabel <=> call[t] \in SoloOp
         /\ call[t] = "none" <=> pc[t] = "idle"
<1>1. <<call[t], pc[t]>> \in Place
  BY DEF TypeOK
<1> QED
  BY <1>1 DEF Place, SoloOp, SoloLabel, InitLabel, DeinitLabel, ResetLabel, PulseLabel, PwdnLabel, PwdnOp

(* A call that runs alone finds the agreements that hold at its own place.  *)
LEMMA SoloIn ==
  ASSUME IInv, RInv, NEW t \in Thread, pc[t] \in SoloLabel
  PROVE  /\ IdleBut(t)
         /\ pc[t] \notin MaskBusy => AskedSo
         /\ pc[t] \notin PowerBusy => PowerSo
<1>1. IdleBut(t)
  BY SoloCall DEF RInv, Solo, IInv, IdleBut
<1> QED BY <1>1 DEF IdleBut, RInv, MaskBusy, PowerBusy

LEMMA SoloOut ==
  ASSUME RInv, NEW t \in Thread, IdleBut(t), Steps(t), ResetAt(t)', OwnAt(t)',
         (pc[t] \notin MaskBusy => AskedSo)', (pc[t] \notin PowerBusy => PowerSo)',
         (init > 0 => avdd_port)'
  PROVE  RInv'
<1>1. Solo'
  BY SoloKept DEF RInv
<1>2. \A u \in Thread \ {t} : pc'[u] = "idle"
  BY DEF IdleBut, Steps
<1>3. \A u \in Thread : ResetAt(u)' /\ OwnAt(u)'
  BY <1>2 DEF ResetAt, OwnAt, Pulsing
<1> QED BY <1>1, <1>3 DEF RInv

LEMMA PortsHeld ==
  ASSUME IInv, NEW t \in Thread, IdleBut(t), pc[t] \in ResetLabel, init > 0
  PROVE  ports
<1>1. \A u \in Thread : pc[u] \notin Between
  BY DEF IdleBut, ResetLabel, PulseLabel, Between, InitLabel, DeinitLabel
<1> QED BY <1>1 DEF IInv, Settled, AsUsed

LEMMA SharedIn ==
  ASSUME IInv, RInv, NEW t \in Thread, IrqCall(t) \/ PowerDown(t)
  PROVE  \A u \in Thread : pc[u] \notin SoloLabel
<1>1. pc[t] \notin SoloLabel /\ pc[t] # "idle"
  BY DEF IrqCall, Enable, Disable, Clr, Wait, PowerDown, Pwdn, PwdnOff, PwdnMark, SoloLabel,
         InitLabel, DeinitLabel, ResetLabel, PulseLabel
<1> QED BY <1>1, SoloCall DEF RInv, Solo, IInv

(* The steps of the calls that run alone.                                   *)
LEMMA SoloStep ==
  ASSUME ResetAlone, IInv, RInv, NEW t \in Thread, Bringup(t) \/ Teardown(t) \/ Reset(t)
  PROVE  RInv'
<1>1. Steps(t) /\ pc[t] \in SoloLabel
  <2>1. Steps(t)
    BY IoctlSteps DEF IInv, Ioctl
  <2>2. pc[t] \in SoloLabel
    BY DEF Bringup, Teardown, Reset, InitFirst, InitGpio, InitIrq, InitMask, InitRst, InitInput, InitFree, InitSync, DeinitFirst, DeinitMask, DeinitFree, DeinitSync, DeinitPorts, DeinitSend,
           ResetFirst, ResetPower, ResetIgnore, ResetLook, ResetEnable, ResetLow, ResetHigh, ResetMask, ResetEnd, SoloLabel, InitLabel,
           DeinitLabel, ResetLabel, PulseLabel
  <2> QED BY <2>1, <2>2
<1>2. IdleBut(t) /\ (pc[t] \notin MaskBusy => AskedSo) /\ (pc[t] \notin PowerBusy => PowerSo)
  BY <1>1, SoloIn
<1>3. /\ ResetAt(t) /\ OwnAt(t) /\ HeldAt(t) /\ (init > 0 => avdd_port) /\ DOMAIN pc = Thread
      /\ masked \in [Thread -> BOOLEAN]
  BY DEF RInv, IInv, TypeOK
<1>4. pc[t] \in ResetLabel /\ init > 0 => ports
  BY <1>2, PortsHeld
<1>5. /\ irq_is_disable \in BOOLEAN /\ avdd \in BOOLEAN /\ asked \in BOOLEAN /\ init \in Nat
      /\ ports \in BOOLEAN /\ rst \in BOOLEAN /\ power_is_off \in BOOLEAN /\ avdd_port \in BOOLEAN
  BY BoundAssumption DEF IInv, TypeOK
<1> DEFINE Good == /\ ResetAt(t)' /\ OwnAt(t)' /\ (init > 0 => avdd_port)'
                   /\ (pc[t] \notin MaskBusy => AskedSo)' /\ (pc[t] \notin PowerBusy => PowerSo)'
<1>6. ASSUME InitFirst(t) PROVE Good
  BY <1>2, <1>3, <1>4, <1>5, <1>6
     DEF InitFirst, Goto, Return, irqs, setup, held, power, ResetAt, OwnAt, HeldAt, InitLabel,
         ResetLabel, PulseLabel, Pulsing, MaskBusy, PowerBusy, AskedSo, PowerSo
<1>7. ASSUME InitGpio(t) PROVE Good
  <2>1. /\ init' = 0 /\ pc[t] = "init_gpio" /\ UNCHANGED power
        /\ pc'[t] = "idle" \/ (pc'[t] = "init_irq" /\ avdd_port' = avdd_port)
    BY <1>3, <1>7 DEF InitGpio, Goto, Return, setup, held, HeldAt, InitLabel
  <2>2. avdd_port /\ avdd /\ ~power_is_off
    BY <1>3, <2>1 DEF OwnAt
  <2>3. ResetAt(t)'
    BY <2>1 DEF ResetAt, Pulsing
  <2>4. OwnAt(t)'
    BY <2>1, <2>2 DEF power, OwnAt
  <2>5. ~(init' > 0)
    BY <2>1
  <2> QED BY <2>3, <2>4, <2>5 DEF AskedSo, PowerSo
<1>8. ASSUME InitIrq(t) PROVE Good
  <2>1. /\ init' = 0 /\ pc[t] = "init_irq" /\ UNCHANGED power
        /\ pc'[t] = "idle" \/ (pc'[t] = "init_mask" /\ avdd_port' = avdd_port)
    BY <1>3, <1>8 DEF InitIrq, Goto, Return, setup, held, HeldAt, InitLabel
  <2>2. avdd_port /\ avdd /\ ~power_is_off
    BY <1>3, <2>1 DEF OwnAt
  <2>3. ResetAt(t)'
    BY <2>1 DEF ResetAt, Pulsing
  <2>4. OwnAt(t)'
    BY <2>1, <2>2 DEF power, OwnAt
  <2>5. ~(init' > 0)
    BY <2>1
  <2> QED BY <2>3, <2>4, <2>5 DEF AskedSo, PowerSo
<1>9. ASSUME InitMask(t) PROVE Good
  BY <1>2, <1>3, <1>4, <1>5, <1>9
     DEF InitMask, Goto, Return, IrqDisable, irqs, setup, held, power, ResetAt, OwnAt, HeldAt, InitLabel,
         ResetLabel, PulseLabel, Pulsing, MaskBusy, PowerBusy, AskedSo, PowerSo
<1>10. ASSUME InitRst(t) PROVE Good
  BY <1>2, <1>3, <1>4, <1>5, <1>10
     DEF InitRst, Goto, Return, irqs, setup, held, power, ResetAt, OwnAt, HeldAt, InitLabel,
         ResetLabel, PulseLabel, Pulsing, MaskBusy, PowerBusy, AskedSo, PowerSo
<1>11. ASSUME InitInput(t) PROVE Good
  BY <1>2, <1>3, <1>4, <1>5, <1>11
     DEF InitInput, Goto, Return, irqs, setup, held, power, ResetAt, OwnAt, HeldAt, InitLabel,
         ResetLabel, PulseLabel, Pulsing, MaskBusy, PowerBusy, AskedSo, PowerSo
<1>12. ASSUME InitFree(t) PROVE Good
  BY <1>2, <1>3, <1>4, <1>5, <1>12
     DEF InitFree, Goto, Return, irqs, setup, held, power, ResetAt, OwnAt, HeldAt, InitLabel,
         ResetLabel, PulseLabel, Pulsing, MaskBusy, PowerBusy, AskedSo, PowerSo
<1>13. ASSUME InitSync(t) PROVE Good
  BY <1>2, <1>3, <1>4, <1>5, <1>13
     DEF InitSync, Goto, Return, irqs, setup, held, power, ResetAt, OwnAt, HeldAt, InitLabel,
         ResetLabel, PulseLabel, Pulsing, MaskBusy, PowerBusy, AskedSo, PowerSo
<1>14. ASSUME DeinitFirst(t) PROVE Good
  BY <1>2, <1>3, <1>4, <1>5, <1>14
     DEF DeinitFirst, Goto, Return, irqs, setup, held, power, ResetAt, OwnAt, HeldAt, InitLabel,
         ResetLabel, PulseLabel, Pulsing, MaskBusy, PowerBusy, AskedSo, PowerSo
<1>15. ASSUME DeinitMask(t) PROVE Good
  BY <1>2, <1>3, <1>4, <1>5, <1>15
     DEF DeinitMask, Goto, Return, IrqDisable, irqs, setup, held, power, ResetAt, OwnAt, HeldAt, InitLabel,
         ResetLabel, PulseLabel, Pulsing, MaskBusy, PowerBusy, AskedSo, PowerSo
<1>16. ASSUME DeinitFree(t) PROVE Good
  BY <1>2, <1>3, <1>4, <1>5, <1>16
     DEF DeinitFree, Goto, Return, irqs, setup, held, power, ResetAt, OwnAt, HeldAt, InitLabel,
         ResetLabel, PulseLabel, Pulsing, MaskBusy, PowerBusy, AskedSo, PowerSo
<1>17. ASSUME DeinitSync(t) PROVE Good
  BY <1>2, <1>3, <1>4, <1>5, <1>17
     DEF DeinitSync, Goto, Return, irqs, setup, held, power, ResetAt, OwnAt, HeldAt, InitLabel,
         ResetLabel, PulseLabel, Pulsing, MaskBusy, PowerBusy, AskedSo, PowerSo
<1>18. ASSUME DeinitPorts(t) PROVE Good
  BY <1>2, <1>3, <1>4, <1>5, <1>18
     DEF DeinitPorts, Goto, Return, PowerOff, irqs, setup, held, power, ResetAt, OwnAt, HeldAt, InitLabel,
         ResetLabel, PulseLabel, Pulsing, MaskBusy, PowerBusy, AskedSo, PowerSo
<1>19. ASSUME DeinitSend(t) PROVE Good
  BY <1>2, <1>3, <1>4, <1>5, <1>19
     DEF DeinitSend, Goto, Return, irqs, setup, held, power, ResetAt, OwnAt, HeldAt, InitLabel,
         ResetLabel, PulseLabel, Pulsing, MaskBusy, PowerBusy, AskedSo, PowerSo
<1>20. ASSUME ResetFirst(t) PROVE Good
  BY <1>2, <1>3, <1>4, <1>5, <1>20
     DEF ResetFirst, Goto, Return, PowerOn, irqs, setup, held, power, ResetAt, OwnAt, HeldAt, InitLabel,
         ResetLabel, PulseLabel, Pulsing, MaskBusy, PowerBusy, AskedSo, PowerSo
<1>21. ASSUME ResetPower(t) PROVE Good
  BY <1>2, <1>3, <1>4, <1>5, <1>21
     DEF ResetPower, Goto, Return, irqs, setup, held, power, ResetAt, OwnAt, HeldAt, InitLabel,
         ResetLabel, PulseLabel, Pulsing, MaskBusy, PowerBusy, AskedSo, PowerSo
<1>22. ASSUME ResetIgnore(t) PROVE Good
  BY <1>2, <1>3, <1>4, <1>5, <1>22
     DEF ResetIgnore, Goto, Return, irqs, setup, held, power, ResetAt, OwnAt, HeldAt, InitLabel,
         ResetLabel, PulseLabel, Pulsing, MaskBusy, PowerBusy, AskedSo, PowerSo
<1>23. ASSUME ResetLook(t) PROVE Good
  BY <1>2, <1>3, <1>4, <1>5, <1>23
     DEF ResetLook, Goto, Return, irqs, setup, held, power, ResetAt, OwnAt, HeldAt, InitLabel,
         ResetLabel, PulseLabel, Pulsing, MaskBusy, PowerBusy, AskedSo, PowerSo
<1>24. ASSUME ResetEnable(t) PROVE Good
  BY <1>2, <1>3, <1>4, <1>5, <1>24
     DEF ResetEnable, Goto, Return, IrqEnable, irqs, setup, held, power, ResetAt, OwnAt, HeldAt, InitLabel,
         ResetLabel, PulseLabel, Pulsing, MaskBusy, PowerBusy, AskedSo, PowerSo
<1>25. ASSUME ResetLow(t) PROVE Good
  BY <1>2, <1>3, <1>4, <1>5, <1>25
     DEF ResetLow, Goto, Return, irqs, setup, held, power, ResetAt, OwnAt, HeldAt, InitLabel,
         ResetLabel, PulseLabel, Pulsing, MaskBusy, PowerBusy, AskedSo, PowerSo
<1>26. ASSUME ResetHigh(t) PROVE Good
  BY <1>2, <1>3, <1>4, <1>5, <1>26
     DEF ResetHigh, Goto, Return, irqs, setup, held, power, ResetAt, OwnAt, HeldAt, InitLabel,
         ResetLabel, PulseLabel, Pulsing, MaskBusy, PowerBusy, AskedSo, PowerSo
<1>27. ASSUME ResetMask(t) PROVE Good
  BY <1>2, <1>3, <1>4, <1>5, <1>27
     DEF ResetMask, Goto, Return, IrqDisable, irqs, setup, held, power, ResetAt, OwnAt, HeldAt, InitLabel,
         ResetLabel, PulseLabel, Pulsing, MaskBusy, PowerBusy, AskedSo, PowerSo
<1>28. ASSUME ResetEnd(t) PROVE Good
  BY <1>2, <1>3, <1>4, <1>5, <1>28
     DEF ResetEnd, Goto, Return, irqs, setup, held, power, ResetAt, OwnAt, HeldAt, InitLabel,
         ResetLabel, PulseLabel, Pulsing, MaskBusy, PowerBusy, AskedSo, PowerSo
<1>29. Good
  BY <1>6, <1>7, <1>8, <1>9, <1>10, <1>11, <1>12, <1>13, <1>14, <1>15, <1>16, <1>17,
     <1>18, <1>19, <1>20, <1>21, <1>22, <1>23, <1>24, <1>25, <1>26, <1>27, <1>28
     DEF Bringup, Teardown, Reset
<1> QED BY <1>1, <1>2, <1>29, SoloOut

(* The steps of the calls that may overlap.                                 *)
LEMMA SharedStep ==
  ASSUME ResetAlone, IInv, RInv, NEW t \in Thread, IrqCall(t) \/ PowerDown(t)
  PROVE  RInv'
<1>1. Steps(t)
  BY IoctlSteps DEF IInv, Ioctl
<1>2. \A u \in Thread : pc[u] \notin SoloLabel
  BY SharedIn
<1>3. \A u \in Thread : pc[u] \notin MaskBusy /\ pc[u] # "reset_power"
  BY <1>2 DEF SoloLabel, ResetLabel, PulseLabel, MaskBusy
<1>4. AskedSo /\ (init > 0 => avdd_port) /\ DOMAIN pc = Thread /\ OwnAt(t)
      /\ ((\A u \in Thread : pc[u] # "pwdn_mark") => PowerSo)
      /\ (\A u \in Thread : pc[u] = "pwdn_mark" /\ init > 0 => ~avdd)
  BY <1>3 DEF RInv, OwnAt, PowerBusy, IInv, TypeOK
<1>5. irq_is_disable \in BOOLEAN /\ avdd \in BOOLEAN /\ asked \in BOOLEAN
      /\ power_is_off \in BOOLEAN /\ avdd_port \in BOOLEAN
  BY DEF IInv, TypeOK
<1> DEFINE Good == /\ pc'[t] \in {"idle", "pwdn_off", "pwdn_mark"} /\ AskedSo' /\ (init > 0 => avdd_port)'
                   /\ ((\A u \in Thread : pc[u] # "pwdn_mark") => PowerSo)'
                   /\ (\A u \in Thread : pc[u] = "pwdn_mark" /\ init > 0 => ~avdd)'
<1>6. ASSUME Enable(t) PROVE Good
  BY <1>1, <1>4, <1>5, <1>6
     DEF Enable, Goto, Return, IrqEnable, Steps, OwnAt, irqs, setup, held, power, AskedSo, PowerSo
<1>7. ASSUME Disable(t) PROVE Good
  BY <1>1, <1>4, <1>5, <1>7
     DEF Disable, Goto, Return, IrqDisable, Steps, OwnAt, irqs, setup, held, power, AskedSo, PowerSo
<1>8. ASSUME Clr(t) PROVE Good
  BY <1>1, <1>4, <1>5, <1>8
     DEF Clr, Goto, Return, Steps, OwnAt, irqs, setup, held, power, AskedSo, PowerSo
<1>9. ASSUME Wait(t) PROVE Good
  BY <1>1, <1>4, <1>5, <1>9
     DEF Wait, Goto, Return, Steps, OwnAt, irqs, setup, held, power, AskedSo, PowerSo
<1>10. ASSUME Pwdn(t) PROVE Good
  BY <1>1, <1>4, <1>5, <1>10
     DEF Pwdn, Goto, Return, Steps, OwnAt, irqs, setup, held, power, AskedSo, PowerSo
<1>11. ASSUME PwdnOff(t) PROVE Good
  BY <1>1, <1>4, <1>5, <1>11
     DEF PwdnOff, Goto, Return, PowerOff, Steps, OwnAt, irqs, setup, held, power, AskedSo, PowerSo
<1>12. ASSUME PwdnMark(t) PROVE Good
  BY <1>1, <1>4, <1>5, <1>12
     DEF PwdnMark, Goto, Return, Steps, OwnAt, irqs, setup, held, power, AskedSo, PowerSo
<1>13. Good
  BY <1>6, <1>7, <1>8, <1>9, <1>10, <1>11, <1>12 DEF IrqCall, PowerDown
<1> HIDE DEF Good
<1>14. \A u \in Thread : pc'[u] \notin SoloLabel
  <2>1. {"idle", "pwdn_off", "pwdn_mark"} \cap SoloLabel = {}
    BY DEF SoloLabel, InitLabel, DeinitLabel, ResetLabel, PulseLabel
  <2> QED BY <1>1, <1>2, <1>13, <2>1 DEF Steps, Good
<1>15. \A u \in Thread : ResetAt(u)' /\ OwnAt(u)'
  BY <1>13, <1>14 DEF Good, ResetAt, OwnAt, SoloLabel, InitLabel, ResetLabel, PulseLabel, Pulsing
<1>16. (\A u \in Thread : pc[u] \notin PowerBusy)' => PowerSo'
  BY <1>13 DEF Good, PowerBusy
<1>17. Solo'
  BY <1>1, SoloKept DEF RInv
<1> QED BY <1>13, <1>15, <1>16, <1>17 DEF Good, RInv

LEMMA StartStep ==
  ASSUME ResetAlone, IInv, RInv, NEW t \in Thread, NEW op \in Op, Call(t, op)
  PROVE  RInv'
<1>1. /\ \A u \in Thread \ {t} : pc'[u] = pc[u] /\ call'[u] = call[u]
      /\ pc[t] = "idle" /\ pc'[t] = First(op) /\ call'[t] = op
      /\ UNCHANGED <<masked, irqs, setup, power, irq_ignore, asked>>
  BY DEF Call, IInv, TypeOK
<1>2. First(op) \in {"init", "deinit", "reset", "enable", "disable", "clr", "wait", "pwdn"}
  BY DEF First, Op, PwdnOp
<1>3. Solo'
  <2>1. op \in SoloOp => \A u \in Thread : call[u] = "none"
    BY SoloCall, CallAssumption DEF Call, ResetAlone, SoloOp, IInv
  <2>2. \A u \in Thread : call[u] \notin SoloOp
    BY CallAssumption DEF Call, ResetAlone, SoloOp
  <2> QED BY <1>1, <2>1, <2>2 DEF Solo
<1>4. ASSUME NEW u \in Thread PROVE ResetAt(u)' /\ OwnAt(u)'
  <2>1. CASE u = t
    BY <1>1, <1>2, <2>1 DEF ResetAt, OwnAt, Pulsing
  <2>2. CASE u # t
    BY <1>1, <2>2 DEF RInv, ResetAt, OwnAt, irqs, setup, held, power
  <2> QED BY <2>1, <2>2
<1>5. ASSUME NEW S \in {MaskBusy, PowerBusy}, (\A u \in Thread : pc[u] \notin S)'
      PROVE  \A u \in Thread : pc[u] \notin S
  BY <1>1, <1>5 DEF MaskBusy, PowerBusy
<1>6. /\ (\A u \in Thread : pc[u] \notin MaskBusy)' => AskedSo'
      /\ (\A u \in Thread : pc[u] \notin PowerBusy)' => PowerSo'
      /\ (init > 0 => avdd_port)'
  BY <1>1, <1>5 DEF RInv, AskedSo, PowerSo, irqs, setup, held, power
<1> QED BY <1>3, <1>4, <1>6 DEF RInv

LEMMA ResetNext ==
  ASSUME ResetAlone, IInv, RInv, [Next]_vars
  PROVE  RInv'
<1>1. ASSUME NEW t \in Thread, NEW op \in Op, Call(t, op) PROVE RInv'
  BY <1>1, StartStep
<1>2. ASSUME NEW t \in Thread, Ioctl(t) PROVE RInv'
  BY <1>2, SoloStep, SharedStep DEF Ioctl
<1>3. ASSUME UNCHANGED <<threads, irqs, held, power, irq_ignore, asked>> PROVE RInv'
  BY <1>3 DEF RInv, Solo, ResetAt, OwnAt, AskedSo, PowerSo, threads, irqs, setup, held, power
<1>4. ASSUME Edge \/ Handler \/ Work \/ Hello \/ Read PROVE RInv'
  BY <1>3, <1>4 DEF Edge, Handler, Deliver, HandlerEntry, HandlerQueue, HandlerComplete, Work,
         WorkStart, WorkSend, Hello, Read, async, setup
<1>5. ASSUME UNCHANGED vars PROVE RInv'
  BY <1>3, <1>5 DEF vars, setup
<1> QED BY <1>1, <1>2, <1>4, <1>5 DEF Next

LEMMA ResetInductive == ASSUME ResetAlone PROVE Spec => [](IInv /\ RInv)
<1>1. Init => RInv
  BY DEF Init, RInv, Solo, SoloOp, ResetAt, OwnAt, Pulsing, AskedSo, PowerSo
<1>2. RInv /\ IInv /\ [Next]_vars => RInv'
  BY ResetNext
<1> QED BY <1>1, <1>2, Inductive, PTL DEF Spec

(* When no two RESETs overlap and no other call runs during one, a RESET    *)
(* gives the line back masked or unmasked as it found it: interrupts are    *)
(* enabled exactly if the last of ENABLE, DISABLE and INIT asked for them.  *)
THEOREM ResetGivesBack == ASSUME ResetAlone PROVE Spec => []MaskAsAsked
<1>1. IInv /\ RInv => MaskAsAsked
  <2> SUFFICES ASSUME IInv, RInv, init > 0, ~InProgress({"init", "deinit", "reset"})
               PROVE  irq_is_disable = ~asked
    BY DEF MaskAsAsked
  <2>1. \A t \in Thread : pc[t] \notin MaskBusy
    BY SoloCall DEF InProgress, SoloOp, SoloLabel, ResetLabel, PulseLabel, MaskBusy, IInv
  <2>2. irq_is_disable \in BOOLEAN /\ asked \in BOOLEAN /\ (irq_is_disable <=> ~asked)
    BY <2>1 DEF RInv, AskedSo, IInv, TypeOK
  <2> QED BY <2>2
<1> QED BY <1>1, ResetInductive, PTL

(* Under the same condition power_is_off tells whether a device in use is   *)
(* powered whenever no call is on its way to change it, however many        *)
(* power-downs overlap.                                                     *)
THEOREM PowerCorrect == ASSUME ResetAlone PROVE Spec => []PowerAgrees
<1>1. IInv /\ RInv => PowerAgrees
  <2> SUFFICES ASSUME IInv, RInv, init > 0, ~InProgress(Op \ {"enable", "disable", "clr", "wait"})
               PROVE  avdd = ~power_is_off
    BY DEF PowerAgrees
  <2>1. \A t \in Thread : <<call[t], pc[t]>> \in Place
                          /\ call[t] \in {"none", "enable", "disable", "clr", "wait"}
    BY DEF InProgress, IInv, TypeOK
  <2>2. \A t \in Thread : pc[t] \notin PowerBusy
    BY <2>1 DEF PowerBusy, Place, PwdnOp
  <2>3. power_is_off \in BOOLEAN /\ avdd \in BOOLEAN /\ (avdd <=> ~power_is_off)
    BY <2>2 DEF RInv, PowerSo, IInv, TypeOK
  <2> QED BY <2>3
<1> QED BY <1>1, ResetInductive, PTL

(* A RESET of a device in use ends with the sensor powered and its reset    *)
(* pin high, whatever power-down came before it.                            *)
THEOREM ResetCorrect == ASSUME ResetAlone PROVE Spec => []ResetRaises
<1>1. RInv => ResetRaises
  BY DEF RInv, ResetAt, Pulsing, ResetRaises
<1> QED BY <1>1, ResetInductive, PTL

(* While the reset pin is pulsed the handler reports nothing.               *)
THEOREM ResetUnheard == ASSUME ResetAlone PROVE Spec => PulseUnheard
<1>1. ASSUME RInv, [Next]_vars, hirq = "entry", hirq' = "queue"
      PROVE  \A t \in Thread : pc[t] \notin PulseLabel
  <2>1. ~irq_ignore
    <3>1. UNCHANGED hirq \/ Handler
      BY <1>1 DEF Next, Call, Ioctl, Bringup, InitFirst, InitGpio, InitIrq, InitMask, InitRst,
             InitInput, InitFree, InitSync, Teardown, DeinitFirst, DeinitMask, DeinitFree,
             DeinitSync, DeinitPorts, DeinitSend, Reset, ResetFirst, ResetPower, ResetIgnore,
             ResetLook, ResetEnable, ResetLow, ResetHigh, ResetMask, ResetEnd, IrqCall, Enable,
             Disable, Clr, Wait, PowerDown, Pwdn, PwdnOff, PwdnMark, Edge, Work, WorkStart,
             WorkSend, Hello, Read, async, vars
    <3> QED BY <1>1, <3>1 DEF Handler, Deliver, HandlerEntry, HandlerQueue, HandlerComplete
  <2> QED BY <1>1, <2>1 DEF RInv, ResetAt, Pulsing, PulseLabel
<1>2. RInv /\ [Next]_vars
        => [hirq = "entry" /\ hirq' = "queue" => \A t \in Thread : pc[t] \notin PulseLabel]_vars
  BY <1>1
<1> QED BY <1>2, ResetInductive, PTL DEF Spec, PulseUnheard
=============================================================================

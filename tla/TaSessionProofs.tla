-------------------------- MODULE TaSessionProofs --------------------------
(***************************************************************************)
(* Proofs about the session, for any devices, any configuration tables and *)
(* any bounds.                                                             *)
(***************************************************************************)
EXTENDS TaSession, FiniteSetTheorems, TLAPS

-----------------------------------------------------------------------------
(* The configuration alone.                                                 *)
LEMMA StartOwned == CfgStart \in CfgState /\ BlocksMatch(CfgStart)
  BY DEF CfgStart, CfgState, BlocksMatch

LEMMA ReplacedOwned ==
  ASSUME NEW c \in CfgState, BlocksMatch(c), NEW T \in SUBSET Table
  PROVE  Replaced(c, T) \in CfgState /\ BlocksMatch(Replaced(c, T))
<1> DEFINE r == Replaced(c, T)
<1>1. /\ r.at = [t \in Table |-> IF t \in T THEN "heap" ELSE c.at[t]]
      /\ r.updated = [t \in Table |-> t \in T \/ c.updated[t]]
      /\ r.blocks = [t \in Table |-> IF t \in T /\ ~c.updated[t] THEN c.blocks[t] + 1
                                     ELSE c.blocks[t]]
  BY DEF Replaced, CfgState
<1>2. \A t \in Table : /\ c.updated[t] \in BOOLEAN /\ c.blocks[t] \in Nat
                       /\ c.at[t] \in {"none", "builtin", "heap"}
  BY DEF CfgState
<1>3. r \in CfgState
  <2> DEFINE at == [t \in Table |-> IF t \in T THEN "heap" ELSE c.at[t]]
             updated == [t \in Table |-> t \in T \/ c.updated[t]]
             blocks == [t \in Table |-> IF t \in T /\ ~c.updated[t] THEN c.blocks[t] + 1
                                        ELSE c.blocks[t]]
  <2>1. at \in [Table -> {"none", "builtin", "heap"}] /\ blocks \in [Table -> Nat]
        /\ updated \in [Table -> BOOLEAN]
    BY <1>2
  <2>2. r = [c EXCEPT !.at = at, !.updated = updated, !.blocks = blocks]
    BY DEF Replaced
  <2> HIDE DEF at, updated, blocks, r
  <2> QED
    BY <2>1, <2>2 DEF CfgState
<1>4. ASSUME NEW t \in Table
      PROVE  /\ r.updated[t] <=> r.at[t] = "heap"
             /\ r.blocks[t] = IF r.updated[t] THEN 1 ELSE 0
  <2>1. /\ c.updated[t] <=> c.at[t] = "heap"
        /\ c.blocks[t] = IF c.updated[t] THEN 1 ELSE 0
    BY DEF BlocksMatch
  <2>2. /\ r.at[t] = IF t \in T THEN "heap" ELSE c.at[t]
        /\ r.updated[t] <=> (t \in T \/ c.updated[t])
        /\ r.blocks[t] = IF t \in T /\ ~c.updated[t] THEN c.blocks[t] + 1 ELSE c.blocks[t]
    BY <1>1
  <2> HIDE DEF r
  <2>3. CASE t \in T
    <3>1. r.blocks[t] = 1
      BY <2>1, <2>2, <2>3, <1>2
    <3> QED
      BY <2>2, <2>3, <3>1
  <2>4. CASE t \notin T
    BY <2>1, <2>2, <2>4, <1>2
  <2> QED
    BY <2>3, <2>4
<1> QED
  BY <1>3, <1>4 DEF BlocksMatch

LEMMA ReleasedOwned ==
  ASSUME NEW c \in CfgState, BlocksMatch(c)
  PROVE  Released(c) \in CfgState /\ BlocksMatch(Released(c))
<1> DEFINE r == Released(c)
<1>1. /\ r.at = [t \in Table |-> IF c.updated[t] THEN "none" ELSE c.at[t]]
      /\ r.updated = [t \in Table |-> FALSE]
      /\ r.blocks = [t \in Table |-> IF c.updated[t] THEN c.blocks[t] - 1 ELSE c.blocks[t]]
  BY DEF Released, CfgState
<1>2. \A t \in Table : /\ c.updated[t] \in BOOLEAN /\ c.blocks[t] \in Nat
                       /\ c.at[t] \in {"none", "builtin", "heap"}
                       /\ c.updated[t] => c.blocks[t] = 1
                       /\ ~c.updated[t] => c.blocks[t] = 0 /\ c.at[t] # "heap"
  BY DEF CfgState, BlocksMatch
<1>3. \A t \in Table : r.blocks[t] = 0 /\ r.at[t] \in {"none", "builtin"}
  BY <1>1, <1>2
<1>4. BlocksMatch(r)
  BY <1>1, <1>3 DEF BlocksMatch
<1>5. r \in CfgState
  <2> DEFINE at == [t \in Table |-> IF c.updated[t] THEN "none" ELSE c.at[t]]
             updated == [t \in Table |-> FALSE]
             blocks == [t \in Table |-> IF c.updated[t] THEN c.blocks[t] - 1 ELSE c.blocks[t]]
  <2>1. at \in [Table -> {"none", "builtin", "heap"}] /\ blocks \in [Table -> Nat]
        /\ updated \in [Table -> BOOLEAN]
    BY <1>2
  <2>2. r = [c EXCEPT !.at = at, !.updated = updated, !.blocks = blocks]
    BY DEF Released
  <2> HIDE DEF at, updated, blocks, r
  <2> QED
    BY <2>1, <2>2 DEF CfgState
<1> QED
  BY <1>4, <1>5

Owned == cfg \in CfgState /\ BlocksMatch(cfg)

(* Every step leaves the configuration alone, or starts it anew, or         *)
(* replaces or releases tables.                                             *)
LEMMA OwnedStep == Owned /\ [Next]_vars => Owned'
<1> SUFFICES ASSUME Owned, [Next]_vars PROVE Owned'
  OBVIOUS
<1>1. CASE UNCHANGED cfg
  BY <1>1 DEF Owned
<1>2. CASE Deinit
  BY <1>2, ReleasedOwned DEF Deinit, Owned
<1>3. ASSUME NEW T \in SUBSET Table, UpdateCfg(T) PROVE Owned'
  BY <1>3, ReplacedOwned DEF UpdateCfg, AfterUpdate, Owned
<1>4. ASSUME NEW t \in Table, LibraryUpdateEx(t) PROVE Owned'
  BY <1>4, ReplacedOwned DEF LibraryUpdateEx, AfterUpdateEx, Owned
<1>5. CASE Restart
  BY <1>5, StartOwned DEF Restart, Owned
<1>6. CASE StartBuffers \/ CiCapture \/ CaptureImage \/ TestCapture \/ TestSpeed \/ AuthStart
           \/ EnrollStart \/ EnrollStep \/ End
  BY <1>1, <1>6 DEF StartBuffers, Expose, CiCapture, CaptureImage, TestCapture, TestSpeed, AuthStart,
                    EnrollStart, EnrollStep, End
<1>7. ASSUME NEW d \in ClientDevice, InitCmd(d) PROVE Owned'
  BY <1>1, <1>7 DEF InitCmd
<1>8. ASSUME NEW onoff \in BOOLEAN, ControlSpi(onoff) PROVE Owned'
  BY <1>1, <1>8 DEF ControlSpi
<1>9. ASSUME NEW step \in {0, touch}, AuthStep(step) PROVE Owned'
  BY <1>1, <1>9 DEF AuthStep
<1> QED
  BY <1>1, <1>2, <1>3, <1>4, <1>5, <1>6, <1>7, <1>8, <1>9 DEF Next, Command, vars

(* Through updates, releases and refused memory, and for any set of tables, *)
(* no block of the configuration is leaked or freed twice.                  *)
THEOREM ConfigAlwaysOwned == Spec => []ConfigOwned
<1>1. Init => Owned
  BY StartOwned DEF Init, Owned
<1>2. Owned => ConfigOwned
  BY DEF Owned, ConfigOwned
<1> QED
  BY <1>1, <1>2, OwnedStep, PTL DEF Spec

-----------------------------------------------------------------------------
(* The averaged image.  In the middle of a touch the buffer holds the sum   *)
(* of the images of this touch so far that could be summed up, or was       *)
(* refused or given back in this touch.                                     *)
BakSet == [held : BOOLEAN, clean : BOOLEAN, sum : SUBSET Nat, missed : SUBSET Nat, short : BOOLEAN]

BakType ==
  /\ bak \in BakSet
  /\ touch \in Nat

SoFar ==
  (Average /\ ReverseStep > 0 /\ touch # 0)
    => \/ bak.short
       \/ /\ bak.held /\ bak.clean /\ bak.sum = {s \in AvgSteps : s < touch} \ bak.missed
          /\ \A s \in bak.missed : s < touch

AvgInv == BakType /\ SoFar /\ AvgOfThisTouch

LEMMA NoBakType == NoBak \in BakSet
  BY DEF NoBak, BakSet

LEMMA AvgStepsNat == AvgSteps \subseteq Nat
  BY NumberAssumption DEF AvgSteps

(* What a step sums up is of this touch: the first step zeroes, a later one *)
(* goes on from the steps before, and a sum that fails is noted.            *)
LEMMA SumOfThisTouch ==
  ASSUME BakType, SoFar, Average, ReverseStep > 0, NEW step \in {0, touch},
         NEW b \in AfterSum(Turned(bak, step), step)
  PROVE  /\ b \in BakSet
         /\ \/ b.short
            \/ /\ b.held /\ b.clean /\ b.sum = {s \in AvgSteps : s < step + 1} \ b.missed
               /\ \A s \in b.missed : s < step + 1
         /\ b.held \/ b.short
<1> USE DEF BakType
<1> DEFINE t == Turned(bak, step)
           got == IF t.held THEN t
                  ELSE [t EXCEPT !.held = TRUE, !.clean = FALSE, !.sum = {}]
           zero == Zeroed(got, step)
<1>1. /\ t \in BakSet
      /\ step # 0 => t = bak
      /\ step = 0 => t.missed = {}
  BY DEF Turned, BakSet
<1>2. got \in BakSet /\ got.held /\ got.short = t.short /\ got.missed = t.missed
  <2> HIDE DEF t
  <2> QED
    BY <1>1 DEF BakSet
<1>3. /\ zero \in BakSet /\ zero.held /\ zero.short = t.short /\ zero.missed = t.missed
      /\ step = 0 => zero.clean /\ zero.sum = {}
      /\ step # 0 => zero = got
  <2> HIDE DEF got, t
  <2> QED
    BY <1>2 DEF Zeroed, BakSet
<1>4. step \in Nat /\ \A s \in AvgSteps : s \in Nat
  BY AvgStepsNat
<1>5. \/ zero.short
      \/ /\ zero.clean /\ zero.sum = {s \in AvgSteps : s < step} \ zero.missed
         /\ \A s \in zero.missed : s < step
  <2> HIDE DEF zero, got, t
  <2>1. CASE step = 0
    <3>1. {s \in AvgSteps : s < 0} = {}
      BY <1>4
    <3> QED
      BY <1>1, <1>3, <2>1, <3>1
  <2>2. CASE step # 0
    <3>1. t = bak /\ zero = got
      BY <1>1, <1>3, <2>2
    <3>2. \/ bak.short
          \/ /\ bak.held /\ bak.clean /\ bak.sum = {s \in AvgSteps : s < step} \ bak.missed
             /\ \A s \in bak.missed : s < step
      BY <2>2 DEF SoFar
    <3>3. bak.held => zero = bak
      BY <3>1 DEF got
    <3> QED
      BY <1>3, <3>1, <3>2, <3>3
  <2> QED
    BY <2>1, <2>2
<1>6. {s \in AvgSteps : s < step + 1} = {s \in AvgSteps : s < step} \cup ({step} \cap AvgSteps)
  BY <1>4
<1>12. ~zero.short => \A s \in zero.missed : s < step + 1 /\ s # step
  BY <1>3, <1>4, <1>5 DEF BakSet
<1>7. \/ b = [zero EXCEPT !.sum = @ \cup {step}] /\ step \in AvgSteps
      \/ b = [zero EXCEPT !.missed = @ \cup {step}] /\ step \in AvgSteps
      \/ b = zero /\ step \notin AvgSteps
      \/ b = [t EXCEPT !.short = TRUE]
  BY DEF AfterSum
<1> HIDE DEF zero, got
<1>8. CASE b = [t EXCEPT !.short = TRUE]
  <2> HIDE DEF t
  <2> QED
    BY <1>1, <1>8 DEF BakSet
<1>9. CASE b = zero /\ step \notin AvgSteps
  <2>1. {s \in AvgSteps : s < step + 1} = {s \in AvgSteps : s < step}
    BY <1>6, <1>9
  <2> QED
    BY <1>3, <1>5, <1>9, <1>12, <2>1
<1>10. CASE b = [zero EXCEPT !.sum = @ \cup {step}] /\ step \in AvgSteps
  <2>1. /\ b \in BakSet /\ b.held /\ b.short = zero.short /\ b.clean = zero.clean
        /\ b.missed = zero.missed /\ b.sum = zero.sum \cup {step}
    BY <1>3, <1>4, <1>10 DEF BakSet
  <2> QED
    BY <1>5, <1>6, <1>10, <1>12, <2>1
<1>11. CASE b = [zero EXCEPT !.missed = @ \cup {step}] /\ step \in AvgSteps
  <2>1. /\ b \in BakSet /\ b.held /\ b.short = zero.short /\ b.clean = zero.clean
        /\ b.missed = zero.missed \cup {step} /\ b.sum = zero.sum
    BY <1>3, <1>4, <1>11 DEF BakSet
  <2>2. \A s \in {r \in AvgSteps : r < step} : s # step
    BY <1>4
  <2> QED
    BY <1>4, <1>5, <1>6, <1>11, <1>12, <2>1, <2>2
<1> QED
  BY <1>7, <1>8, <1>9, <1>10, <1>11

LEMMA AvgInit == Init => AvgInv
  BY NoBakType DEF Init, AvgInv, BakType, SoFar, AvgOfThisTouch

(* One step of a touch.                                                     *)
LEMMA AvgAuthStep ==
  ASSUME AvgInv, NEW step \in {0, touch}, AuthStep(step)
  PROVE  AvgInv'
<1> USE DEF BakType
<1>1. step \in Nat /\ ReverseStep \in Nat
  BY NumberAssumption DEF AvgInv
<1>2. PICK match \in BOOLEAN :
       /\ IF Average /\ ReverseStep > 0 THEN ReverseAverage(step, match)
          ELSE UNCHANGED <<bak, averaged>>
       /\ touch' = IF ~match /\ ~IsLast(step) THEN step + 1 ELSE 0
  BY DEF AuthStep
<1>3. touch' \in Nat
  BY <1>1, <1>2
<1>4. CASE ~(Average /\ ReverseStep > 0)
  BY <1>2, <1>3, <1>4 DEF AvgInv, SoFar, AvgOfThisTouch
<1>5. CASE Average /\ ReverseStep > 0
  <2>1. CASE SumUp(step, match)
    <3>1. /\ bak' \in AfterSum(Turned(bak, step), step) /\ UNCHANGED averaged
          /\ touch' = step + 1
      BY <1>2, <2>1 DEF SumUp
    <3>2. /\ bak' \in BakSet
          /\ \/ bak'.short
             \/ /\ bak'.held /\ bak'.clean /\ bak'.sum = {s \in AvgSteps : s < step + 1} \ bak'.missed
                /\ \A s \in bak'.missed : s < step + 1
      BY <1>5, <3>1, SumOfThisTouch DEF AvgInv
    <3> QED
      BY <1>3, <3>1, <3>2 DEF AvgInv, SoFar, AvgOfThisTouch
  <2>2. CASE MatchAverage(step, match)
    <3>1. bak' = NoBak /\ touch' = 0
      BY <1>2, <2>2 DEF MatchAverage
    <3>2. PICK b \in AfterSum(Turned(bak, step), step) :
            \/ step + 1 = ReverseStep /\ averaged' = Averaged(b)
            \/ UNCHANGED averaged
      BY <2>2 DEF MatchAverage
    <3>3. \/ b.short
          \/ b.held /\ b.clean /\ b.sum = {s \in AvgSteps : s < step + 1} \ b.missed
      BY <1>5, SumOfThisTouch DEF AvgInv
    <3>4. step + 1 = ReverseStep => {s \in AvgSteps : s < step + 1} = AvgSteps
      BY <1>1 DEF AvgSteps
    <3>5. AvgOfThisTouch'
      <4>1. CASE step + 1 = ReverseStep /\ averaged' = Averaged(b)
        <5>1. /\ averaged'.short = b.short /\ averaged'.clean = b.clean
              /\ b.sum = AvgSteps \ b.missed => averaged'.astray = {}
          BY <4>1 DEF Averaged
        <5>2. b.short \/ (b.clean /\ b.sum = AvgSteps \ b.missed)
          BY <3>3, <3>4, <4>1
        <5>3. averaged'.short \/ (averaged'.clean /\ averaged'.astray = {})
          BY <5>1, <5>2, Zenon
        <5> QED
          BY <5>3 DEF AvgOfThisTouch
      <4>2. CASE UNCHANGED averaged
        BY <4>2 DEF AvgInv, AvgOfThisTouch
      <4> QED
        BY <3>2, <4>1, <4>2
    <3> QED
      BY <3>1, <3>5, NoBakType DEF AvgInv, SoFar
  <2>3. CASE MatchImage(step, match)
    <3>1. bak' = [NoBak EXCEPT !.short = ~match /\ ~IsLast(step)] /\ UNCHANGED averaged
      BY <2>3 DEF MatchImage
    <3>2. bak' \in BakSet /\ (bak'.short <=> ~match /\ ~IsLast(step))
      BY <3>1 DEF NoBak, BakSet, IsLast
    <3>3. touch' # 0 => bak'.short
      BY <1>2, <3>2
    <3> QED
      BY <1>3, <3>1, <3>2, <3>3 DEF AvgInv, SoFar, AvgOfThisTouch
  <2> QED
    BY <1>2, <1>5, <2>1, <2>2, <2>3 DEF ReverseAverage
<1> QED
  BY <1>4, <1>5

LEMMA AvgStep == AvgInv /\ [Next]_vars => AvgInv'
<1> SUFFICES ASSUME AvgInv, [Next]_vars PROVE AvgInv'
  OBVIOUS
<1>1. ASSUME UNCHANGED <<bak, averaged>>, touch' \in {0, touch} PROVE AvgInv'
  BY <1>1 DEF AvgInv, BakType, SoFar, AvgOfThisTouch
<1>2. ASSUME NEW step \in {0, touch}, AuthStep(step) PROVE AvgInv'
  BY <1>2, AvgAuthStep
<1>3. CASE Restart
  BY <1>3, NoBakType DEF Restart, AvgInv, BakType, SoFar, AvgOfThisTouch
<1>4. CASE StartBuffers \/ Deinit \/ CiCapture \/ CaptureImage \/ TestCapture \/ TestSpeed \/ AuthStart
           \/ EnrollStart \/ EnrollStep \/ End
  BY <1>1, <1>4 DEF StartBuffers, Expose, Deinit, CiCapture, CaptureImage, TestCapture, TestSpeed, AuthStart,
                    EnrollStart, EnrollStep, End
<1>5. ASSUME NEW d \in ClientDevice, InitCmd(d) PROVE AvgInv'
  BY <1>1, <1>5 DEF InitCmd
<1>6. ASSUME NEW T \in SUBSET Table, UpdateCfg(T) PROVE AvgInv'
  BY <1>1, <1>6 DEF UpdateCfg
<1>7. ASSUME NEW t \in Table, LibraryUpdateEx(t) PROVE AvgInv'
  BY <1>1, <1>7 DEF LibraryUpdateEx
<1>8. ASSUME NEW onoff \in BOOLEAN, ControlSpi(onoff) PROVE AvgInv'
  BY <1>1, <1>8 DEF ControlSpi
<1>9. CASE UNCHANGED vars
  BY <1>1, <1>9 DEF vars
<1> QED
  BY <1>2, <1>3, <1>4, <1>5, <1>6, <1>7, <1>8, <1>9 DEF Next, Command

(* However many images a touch has and are skipped, whatever buffers are    *)
(* refused and sums fail, and whatever comes between two images, an average *)
(* is of exactly this touch's images that could be summed up, unless the    *)
(* buffer was refused or given back within the touch.                       *)
THEOREM AvgAlwaysOfThisTouch == Spec => []AvgOfThisTouch
<1>1. AvgInv => AvgOfThisTouch
  BY DEF AvgInv
<1>2. AvgInv /\ [Next]_vars => AvgInv'
  BY AvgStep
<1> QED
  BY <1>1, <1>2, AvgInit, PTL DEF Spec

-----------------------------------------------------------------------------
(* The SPI device: what each function of silead_fp_spi.c makes of it.       *)
Sound(s) == s \in SpiState /\ DeviceIsOpen(s)

LEMMA SpiOpened == ASSUME NEW s, Sound(s), NEW r \in AfterOpen(s) PROVE Sound(r)
<1>1. s \in SpiState /\ s.dev \in Device
  BY DEF Sound, SpiState
<1>2. CASE r = s
  BY <1>2
<1>3. CASE r = [s EXCEPT !.opened = TRUE, !.bus = @ \cup {s.dev}, !.left = @ \ {s.dev}] /\ ~s.opened
  <2>1. /\ r \in SpiState /\ r.dev = s.dev /\ r.opened
        /\ r.bus = s.bus \cup {s.dev} /\ r.left = s.left \ {s.dev}
    BY <1>1, <1>3 DEF SpiState
  <2> QED
    BY <1>3, <2>1 DEF Sound, DeviceIsOpen
<1>4. CASE r = [s EXCEPT !.bus = @ \ {s.dev}, !.left = @ \ {s.dev}] /\ ~s.opened
  <2>1. /\ r \in SpiState /\ r.opened = s.opened
        /\ r.bus = s.bus \ {s.dev} /\ r.left = s.left \ {s.dev}
    BY <1>1, <1>4 DEF SpiState
  <2> QED
    BY <1>4, <2>1 DEF Sound, DeviceIsOpen
<1> QED
  BY <1>2, <1>3, <1>4 DEF AfterOpen

LEMMA SpiClosed == ASSUME NEW s, Sound(s), NEW r \in AfterClose(s) PROVE Sound(r)
<1>1. s \in SpiState /\ s.dev \in Device
  BY DEF Sound, SpiState
<1>2. CASE r = s
  BY <1>2
<1>3. CASE r = [s EXCEPT !.opened = FALSE, !.moved = FALSE,
                         !.bus = @ \ {s.dev}, !.left = @ \ {s.dev}]
  <2>1. /\ r \in SpiState /\ ~r.opened
        /\ r.bus = s.bus \ {s.dev} /\ r.left = s.left \ {s.dev}
    BY <1>1, <1>3 DEF SpiState
  <2> QED
    BY <2>1 DEF Sound, DeviceIsOpen
<1>4. CASE r = [s EXCEPT !.opened = FALSE, !.moved = FALSE, !.left = @ \cup ({s.dev} \cap s.bus)]
  <2>1. /\ r \in SpiState /\ ~r.opened
        /\ r.bus = s.bus /\ r.left = s.left \cup ({s.dev} \cap s.bus)
    BY <1>1, <1>4 DEF SpiState
  <2> QED
    BY <2>1 DEF Sound, DeviceIsOpen
<1> QED
  BY <1>2, <1>3, <1>4 DEF AfterClose

LEMMA SpiChosen == ASSUME NEW s, Sound(s), NEW d PROVE Sound(Chosen(s, d))
<1>1. s \in SpiState /\ s.dev \in Device
  BY DEF Sound, SpiState
<1>2. CASE d \notin Device \/ d = s.dev
  BY <1>2 DEF Chosen
<1>3. CASE d \in Device /\ d # s.dev
  <2> DEFINE r == Chosen(s, d)
             left == IF s.opened THEN s.left \cup ({s.dev} \cap s.bus) ELSE s.left
  <2>1. r = [s EXCEPT !.dev = d, !.moved = s.opened, !.left = left]
    BY <1>1, <1>3 DEF Chosen, SpiState
  <2>2. left \in SUBSET Device /\ s.opened \in BOOLEAN
    BY <1>1 DEF SpiState
  <2>3. /\ r \in SpiState /\ r.opened = s.opened /\ r.moved = s.opened
        /\ r.bus = s.bus /\ r.left = left
    <3> HIDE DEF r, left
    <3> QED
      BY <1>1, <1>3, <2>1, <2>2 DEF SpiState
  <2> QED
    BY <2>3 DEF Sound, DeviceIsOpen
<1> QED
  BY <1>2, <1>3

LEMMA SpiBegins == Sound(SpiStart)
BY DeviceAssumption DEF Sound, SpiStart, SpiState, DeviceIsOpen

LEMMA SpiInited ==
  ASSUME NEW d \in ClientDevice, Sound(spi), InitCmd(d) PROVE Sound(spi')
<1>1. PICK s1 \in AfterOpen(spi) : \E s2 \in AfterInit(s1, d) :
        \E s3 \in AfterTransfer(s2), found \in BOOLEAN :
          spi' \in IF found THEN {s3} ELSE AfterClose(s3)
  BY DEF InitCmd
<1>2. Sound(s1)
  BY SpiOpened
<1>3. PICK s2 \in AfterOpen(Chosen(s1, d)) :
        \E s3 \in AfterOpen(s2), found \in BOOLEAN :
          spi' \in IF found THEN {s3} ELSE AfterClose(s3)
  BY <1>1 DEF AfterInit, AfterTransfer
<1>4. Sound(s2)
  BY <1>2, SpiChosen, SpiOpened
<1>5. PICK s3 \in AfterOpen(s2), found \in BOOLEAN :
        spi' \in IF found THEN {s3} ELSE AfterClose(s3)
  BY <1>3
<1>6. Sound(s3)
  BY <1>4, SpiOpened
<1> QED
  BY <1>5, <1>6, SpiClosed

SpiInv == Sound(spi)

LEMMA SpiStep == ASSUME SpiInv, [Next]_vars PROVE SpiInv'
<1>1. ASSUME spi' \in AfterOpen(spi) \cup AfterClose(spi) \cup {spi, SpiStart} PROVE SpiInv'
  BY <1>1, SpiOpened, SpiClosed, SpiBegins DEF SpiInv
<1>2. ASSUME NEW d \in ClientDevice, InitCmd(d) PROVE SpiInv'
  BY <1>2, SpiInited DEF SpiInv
<1>3. CASE StartBuffers \/ CiCapture \/ CaptureImage \/ TestSpeed
  BY <1>1, <1>3 DEF StartBuffers, CiCapture, CaptureImage, TestSpeed, Expose, AfterTransfer
<1>4. ASSUME NEW onoff \in BOOLEAN, ControlSpi(onoff) PROVE SpiInv'
  BY <1>1, <1>4 DEF ControlSpi
<1>5. CASE Deinit \/ Restart
  BY <1>1, <1>5 DEF Deinit, Restart
<1>6. CASE TestCapture \/ AuthStart \/ EnrollStart \/ EnrollStep \/ End \/ UNCHANGED vars
  BY <1>1, <1>6 DEF TestCapture, AuthStart, EnrollStart, EnrollStep, End, vars
<1>7. ASSUME NEW T \in SUBSET Table, UpdateCfg(T) PROVE SpiInv'
  BY <1>1, <1>7 DEF UpdateCfg
<1>8. ASSUME NEW t \in Table, LibraryUpdateEx(t) PROVE SpiInv'
  BY <1>1, <1>8 DEF LibraryUpdateEx
<1>9. ASSUME NEW step \in {0, touch}, AuthStep(step) PROVE SpiInv'
  BY <1>1, <1>9 DEF AuthStep
<1> QED
  BY <1>2, <1>3, <1>4, <1>5, <1>6, <1>7, <1>8, <1>9 DEF Next, Command

(* Whatever devices the client names and whichever opens and closes fail,   *)
(* the device marked open is open unless another one was when it was        *)
(* chosen, and no other device is open but one whose close failed or that   *)
(* was open when another was chosen (silead_fp_spi.c:64, :131).             *)
THEOREM SpiAlwaysAgrees == Spec => []SpiAgrees
<1>1. Init => SpiInv
  BY SpiBegins DEF Init, SpiInv
<1>2. SpiInv => SpiAgrees
  BY DEF SpiInv, Sound, SpiAgrees
<1>3. SpiInv /\ [Next]_vars => SpiInv'
  BY SpiStep
<1> QED
  BY <1>1, <1>2, <1>3, PTL DEF Spec

-----------------------------------------------------------------------------
(* Image buffers: how many are lent and not referred to.                    *)
FrameSet == [buf : BOOLEAN, prev : BOOLEAN, qa : BOOLEAN, lent : Nat]
One(b)   == IF b THEN 1 ELSE 0
Sum(fr)  == One(fr.buf) + One(fr.prev) + One(fr.qa)
FrameOK(fr) == fr \in FrameSet /\ fr.lent >= Sum(fr)

LEMMA OneOfKinds ==
  ASSUME NEW S, IsFiniteSet(S), NEW x, x \notin S, NEW b \in BOOLEAN
  PROVE  /\ IsFiniteSet(S \cup {y \in {x} : b})
         /\ Cardinality(S \cup {y \in {x} : b}) = Cardinality(S) + One(b)
<1>1. CASE b
  <2>1. S \cup {y \in {x} : b} = S \cup {x}
    BY <1>1
  <2>2. Cardinality(S \cup {x}) = Cardinality(S) + 1 /\ IsFiniteSet(S \cup {x})
    BY FS_AddElement
  <2> QED
    BY <1>1, <2>1, <2>2 DEF One
<1>2. CASE ~b
  <2>1. S \cup {y \in {x} : b} = S
    BY <1>2
  <2> QED
    BY <1>2, <2>1, FS_CardinalityType DEF One
<1> QED
  BY <1>1, <1>2

LEMMA HeldIsSum == ASSUME NEW fr \in FrameSet PROVE HeldOf(fr, Kinds) = Sum(fr)
<1> DEFINE A == {} \cup {y \in {"buf"} : fr.buf}
           B == A \cup {y \in {"prev"} : fr.prev}
           C == B \cup {y \in {"qa"} : fr.qa}
<1>1. fr.buf \in BOOLEAN /\ fr.prev \in BOOLEAN /\ fr.qa \in BOOLEAN
  BY DEF FrameSet
<1>2. IsFiniteSet({}) /\ Cardinality({}) = 0
  BY FS_EmptySet
<1>3. IsFiniteSet(A) /\ Cardinality(A) = One(fr.buf)
  <2>1. IsFiniteSet(A) /\ Cardinality(A) = Cardinality({}) + One(fr.buf)
    BY <1>1, <1>2, OneOfKinds
  <2> QED
    BY <1>2, <2>1 DEF One
<1>4. "prev" \notin A /\ "qa" \notin B
  OBVIOUS
<1>5. IsFiniteSet(B) /\ Cardinality(B) = Cardinality(A) + One(fr.prev)
  <2> HIDE DEF A
  <2> QED
    BY <1>1, <1>3, <1>4, OneOfKinds
<1>6. Cardinality(C) = Cardinality(B) + One(fr.qa)
  <2> HIDE DEF B
  <2> QED
    BY <1>1, <1>4, <1>5, OneOfKinds
<1>7. {b \in Kinds : fr[b]} = C
  BY DEF Kinds
<1> QED
  BY <1>3, <1>5, <1>6, <1>7 DEF HeldOf, Sum

LEMMA SumType ==
  ASSUME NEW fr \in FrameSet
  PROVE  /\ fr.lent \in Nat /\ Sum(fr) \in Nat
         /\ One(fr.buf) \in 0 .. 1 /\ One(fr.prev) \in 0 .. 1 /\ One(fr.qa) \in 0 .. 1
<1>1. fr.buf \in BOOLEAN /\ fr.prev \in BOOLEAN /\ fr.qa \in BOOLEAN /\ fr.lent \in Nat
  BY DEF FrameSet
<1>2. One(fr.buf) \in 0 .. 1 /\ One(fr.prev) \in 0 .. 1 /\ One(fr.qa) \in 0 .. 1
  BY DEF One
<1> QED
  BY <1>1, <1>2 DEF Sum

(* A step that lends buffers and keeps them.                                *)
Keeps(fr, gr) == FrameOK(gr) /\ gr.lent - Sum(gr) = fr.lent - Sum(fr)

LEMMA LentKeeps ==
  ASSUME NEW fr, FrameOK(fr), NEW gr,
         \/ gr = [fr EXCEPT !.buf = TRUE, !.lent = @ + 1] /\ ~fr.buf
         \/ gr = [fr EXCEPT !.prev = TRUE, !.lent = @ + 1] /\ ~fr.prev
         \/ gr = [fr EXCEPT !.qa = TRUE, !.lent = @ + 1] /\ ~fr.qa
  PROVE  Keeps(fr, gr)
<1>1. fr \in FrameSet /\ fr.lent >= Sum(fr) /\ fr.lent + 1 \in Nat
  BY SumType DEF FrameOK
<1>2. CASE gr = [fr EXCEPT !.buf = TRUE, !.lent = @ + 1] /\ ~fr.buf
  <2>1. gr \in FrameSet /\ gr.lent = fr.lent + 1
    BY <1>1, <1>2 DEF FrameSet
  <2>2. One(gr.buf) = 1 /\ One(fr.buf) = 0
    BY <1>1, <1>2 DEF FrameSet, One
  <2>3. gr.prev = fr.prev /\ gr.qa = fr.qa
    BY <1>1, <1>2 DEF FrameSet
  <2>4. Sum(gr) = Sum(fr) + 1
    BY <1>1, <2>2, <2>3, SumType DEF Sum
  <2> QED
    BY <1>1, <2>1, <2>4, SumType DEF Keeps, FrameOK
<1>3. CASE gr = [fr EXCEPT !.prev = TRUE, !.lent = @ + 1] /\ ~fr.prev
  <2>1. gr \in FrameSet /\ gr.lent = fr.lent + 1
    BY <1>1, <1>3 DEF FrameSet
  <2>2. One(gr.prev) = 1 /\ One(fr.prev) = 0
    BY <1>1, <1>3 DEF FrameSet, One
  <2>3. gr.buf = fr.buf /\ gr.qa = fr.qa
    BY <1>1, <1>3 DEF FrameSet
  <2>4. Sum(gr) = Sum(fr) + 1
    BY <1>1, <2>2, <2>3, SumType DEF Sum
  <2> QED
    BY <1>1, <2>1, <2>4, SumType DEF Keeps, FrameOK
<1>4. CASE gr = [fr EXCEPT !.qa = TRUE, !.lent = @ + 1] /\ ~fr.qa
  <2>1. gr \in FrameSet /\ gr.lent = fr.lent + 1
    BY <1>1, <1>4 DEF FrameSet
  <2>2. One(gr.qa) = 1 /\ One(fr.qa) = 0
    BY <1>1, <1>4 DEF FrameSet, One
  <2>3. gr.buf = fr.buf /\ gr.prev = fr.prev
    BY <1>1, <1>4 DEF FrameSet
  <2>4. Sum(gr) = Sum(fr) + 1
    BY <1>1, <2>2, <2>3, SumType DEF Sum
  <2> QED
    BY <1>1, <2>1, <2>4, SumType DEF Keeps, FrameOK
<1> QED
  BY <1>2, <1>3, <1>4

LEMMA GotKeeps ==
  ASSUME NEW fr, FrameOK(fr), NEW b \in Kinds PROVE Keeps(fr, Got(fr, b))
<1>1. CASE fr[b]
  BY <1>1 DEF Got, Keeps
<1>2. CASE ~fr[b] /\ b = "buf"
  BY <1>2, LentKeeps DEF Got
<1>3. CASE ~fr[b] /\ b = "prev"
  BY <1>3, LentKeeps DEF Got
<1>4. CASE ~fr[b] /\ b = "qa"
  BY <1>4, LentKeeps DEF Got
<1> QED
  BY <1>1, <1>2, <1>3, <1>4 DEF Kinds

LEMMA KeepsTwice ==
  ASSUME NEW fr, NEW gr, NEW hr, Keeps(fr, gr), Keeps(gr, hr) PROVE Keeps(fr, hr)
BY DEF Keeps

LEMMA StartKeeps ==
  ASSUME NEW fr, FrameOK(fr), NEW gr \in AfterAllStart(fr) PROVE Keeps(fr, gr)
<1>1. Keeps(fr, fr) /\ "buf" \in Kinds /\ "prev" \in Kinds
  BY DEF Keeps, Kinds
<1>2. Keeps(fr, Got(fr, "buf")) /\ Keeps(fr, Got(Got(fr, "buf"), "prev"))
  BY <1>1, GotKeeps, KeepsTwice DEF Keeps
<1> QED
  BY <1>1, <1>2 DEF AfterAllStart

LEMMA QaKeeps ==
  ASSUME NEW fr, FrameOK(fr), NEW gr \in AfterQa(fr) PROVE Keeps(fr, gr)
BY GotKeeps DEF AfterQa, Keeps, Kinds

FramesFine == FrameOK(frames)
NotLost == \/ frames'.lent - Sum(frames') <= frames.lent - Sum(frames)
           \/ last' = "init"

LEMMA FramesInit == FrameOK(NoFrame) /\ NoFrame.lent = 0 /\ Sum(NoFrame) = 0
BY DEF NoFrame, FrameOK, FrameSet, Sum, One

LEMMA FramesStep ==
  ASSUME FramesFine, [Next]_vars PROVE FramesFine' /\ NotLost
<1> USE DEF FramesFine
<1>1. ASSUME frames' = frames \/ Keeps(frames, frames') PROVE FramesFine' /\ NotLost
  BY <1>1 DEF Keeps, NotLost, FrameOK, FrameSet, Sum, One
<1>2. CASE StartBuffers \/ AuthStart \/ EnrollStart
  BY <1>1, <1>2, StartKeeps DEF StartBuffers, AuthStart, EnrollStart
<1>3. CASE TestCapture
  BY <1>1, <1>3, QaKeeps DEF TestCapture
<1>4. CASE TestSpeed
  <2>1. PICK fr \in AfterAllStart(frames) : frames' \in {fr} \cup AfterQa(fr)
    BY <1>4 DEF TestSpeed
  <2>2. Keeps(frames, fr)
    BY StartKeeps
  <2>3. frames' = fr \/ Keeps(fr, frames')
    BY <2>1, <2>2, QaKeeps DEF Keeps
  <2> QED
    BY <1>1, <2>2, <2>3, KeepsTwice
<1>5. ASSUME NEW step \in {0, touch}, AuthStep(step) PROVE FramesFine' /\ NotLost
  BY <1>1, <1>5, QaKeeps DEF AuthStep
<1>6. ASSUME NEW d \in ClientDevice, InitCmd(d) PROVE FramesFine' /\ NotLost
  <2>1. frames' = [frames EXCEPT !.buf = FALSE, !.prev = FALSE] /\ last' = "init"
    BY <1>6 DEF InitCmd
  <2>2. /\ frames' \in FrameSet /\ frames'.lent = frames.lent
        /\ ~frames'.buf /\ ~frames'.prev /\ frames'.qa = frames.qa
    BY <2>1 DEF FrameOK, FrameSet
  <2>3. Sum(frames') <= Sum(frames) /\ Sum(frames') \in Nat /\ Sum(frames) \in Nat
    BY <2>2 DEF Sum, One
  <2> QED
    BY <2>1, <2>2, <2>3 DEF NotLost, FrameOK, FrameSet
<1>7. CASE Deinit
  <2>1. frames' = [NoFrame EXCEPT !.lent = frames.lent - Sum(frames)]
    BY <1>7, HeldIsSum DEF Deinit, Given, FrameOK
  <2> QED
    <3>1. Sum(frames) \in Nat /\ frames.lent \in Nat /\ frames.lent >= Sum(frames)
      BY SumType DEF FrameOK
    <3>2. frames.lent - Sum(frames) \in Nat
      BY <3>1
    <3>3. frames' \in FrameSet /\ frames'.lent = frames.lent - Sum(frames)
      BY <2>1, <3>2 DEF NoFrame, FrameSet
    <3>4. One(frames'.buf) = 0 /\ One(frames'.prev) = 0 /\ One(frames'.qa) = 0
      BY <2>1 DEF NoFrame, One
    <3>5. Sum(frames') = 0
      BY <3>4 DEF Sum
    <3> QED
      BY <3>1, <3>2, <3>3, <3>5 DEF NotLost, FrameOK
<1>8. CASE Restart
  BY <1>8, FramesInit DEF Restart, NotLost, FrameOK, FrameSet, Sum, One
<1>9. CASE CiCapture \/ CaptureImage \/ EnrollStep \/ End \/ UNCHANGED vars
  BY <1>1, <1>9 DEF CiCapture, CaptureImage, EnrollStep, End, vars
<1>10. ASSUME NEW T \in SUBSET Table, UpdateCfg(T) PROVE FramesFine' /\ NotLost
  BY <1>1, <1>10 DEF UpdateCfg
<1>11. ASSUME NEW t \in Table, LibraryUpdateEx(t) PROVE FramesFine' /\ NotLost
  BY <1>1, <1>11 DEF LibraryUpdateEx
<1>12. ASSUME NEW onoff \in BOOLEAN, ControlSpi(onoff) PROVE FramesFine' /\ NotLost
  BY <1>1, <1>12 DEF ControlSpi
<1> QED
  BY <1>2, <1>3, <1>4, <1>5, <1>6, <1>7, <1>8, <1>9, <1>10, <1>11, <1>12 DEF Next, Command

(* Buffers are given back once, and only INIT loses any (fp_impl.c:947).    *)
THEOREM BuffersAlwaysKept == Spec => BuffersKept
<1>1. Init => FramesFine
  BY FramesInit DEF Init, FramesFine
<1>2. FramesFine /\ [Next]_vars
        => [/\ frames'.lent >= HeldOf(frames', Kinds)
            /\ frames'.lent - HeldOf(frames', Kinds) > frames.lent - HeldOf(frames, Kinds)
                 => last' = "init"]_vars
  <2> SUFFICES ASSUME FramesFine, [Next]_vars
               PROVE  /\ frames'.lent >= HeldOf(frames', Kinds)
                      /\ frames'.lent - HeldOf(frames', Kinds) > frames.lent - HeldOf(frames, Kinds)
                           => last' = "init"
    OBVIOUS
  <2>1. FrameOK(frames) /\ FrameOK(frames') /\ NotLost
    BY FramesStep DEF FramesFine
  <2>2. HeldOf(frames, Kinds) = Sum(frames) /\ HeldOf(frames', Kinds) = Sum(frames')
    BY <2>1, HeldIsSum DEF FrameOK
  <2> QED
    BY <2>1, <2>2 DEF NotLost, FrameOK, FrameSet, Sum, One
<1>3. FramesFine /\ [Next]_vars => FramesFine'
  BY FramesStep
<1> QED
  BY <1>1, <1>2, <1>3, PTL DEF Spec, BuffersKept

-----------------------------------------------------------------------------
(* Types.                                                                   *)
AvgSet == [clean : BOOLEAN, astray : SUBSET Nat, short : BOOLEAN]
InfoSet == [state : {"idle", "auth", "enroll"}, step : 0 .. 255, aec : BOOLEAN]

Rest ==
  /\ spi \in SpiState /\ fd \in BOOLEAN /\ pcfgs \in BOOLEAN
  /\ bak \in BakSet /\ averaged \in AvgSet /\ info \in InfoSet
  /\ fault \in {"none", "cfgs", "param"}
  /\ touch \in 0 .. 127 /\ last \in {"other", "init"}

IInv == Rest /\ Owned /\ FramesFine

LEMMA OpenedTyped == ASSUME NEW s \in SpiState, NEW r \in AfterOpen(s) PROVE r \in SpiState
<1>1. s.dev \in Device
  BY DEF SpiState
<1>2. /\ [s EXCEPT !.opened = TRUE, !.bus = @ \cup {s.dev}, !.left = @ \ {s.dev}] \in SpiState
      /\ [s EXCEPT !.bus = @ \ {s.dev}, !.left = @ \ {s.dev}] \in SpiState
  BY <1>1 DEF SpiState
<1> QED
  BY <1>2 DEF AfterOpen

LEMMA ClosedTyped == ASSUME NEW s \in SpiState, NEW r \in AfterClose(s) PROVE r \in SpiState
<1>1. s.dev \in Device
  BY DEF SpiState
<1>2. /\ [s EXCEPT !.opened = FALSE, !.moved = FALSE, !.bus = @ \ {s.dev}, !.left = @ \ {s.dev}] \in SpiState
      /\ [s EXCEPT !.opened = FALSE, !.moved = FALSE, !.left = @ \cup ({s.dev} \cap s.bus)] \in SpiState
  BY <1>1 DEF SpiState
<1> QED
  BY <1>2 DEF AfterClose

LEMMA ChosenTyped == ASSUME NEW s \in SpiState, NEW d PROVE Chosen(s, d) \in SpiState
<1> DEFINE left == IF s.opened THEN s.left \cup ({s.dev} \cap s.bus) ELSE s.left
<1>1. left \in SUBSET Device /\ s.opened \in BOOLEAN
  BY DEF SpiState
<1>2. d \in Device => [s EXCEPT !.dev = d, !.moved = s.opened, !.left = left] \in SpiState
  <2> HIDE DEF left
  <2> QED
    BY <1>1 DEF SpiState
<1>3. Chosen(s, d) = IF d \notin Device \/ d = s.dev THEN s
                     ELSE [s EXCEPT !.dev = d, !.moved = s.opened, !.left = left]
  BY DEF Chosen, SpiState
<1> QED
  BY <1>2, <1>3

LEMMA SumTyped ==
  ASSUME NEW b \in BakSet, NEW step \in Nat, NEW c \in AfterSum(Turned(b, step), step)
  PROVE  c \in BakSet
<1> DEFINE t == Turned(b, step)
           got == IF t.held THEN t ELSE [t EXCEPT !.held = TRUE, !.clean = FALSE, !.sum = {}]
           zero == Zeroed(got, step)
<1>1. t \in BakSet
  BY DEF Turned, BakSet
<1>2. \/ c = [zero EXCEPT !.sum = @ \cup {step}]
      \/ c = [zero EXCEPT !.missed = @ \cup {step}]
      \/ c = zero
      \/ c = [t EXCEPT !.short = TRUE]
  BY DEF AfterSum
<1> HIDE DEF t
<1>3. got \in BakSet
  BY <1>1 DEF BakSet
<1> HIDE DEF got
<1>4. zero \in BakSet
  BY <1>3 DEF Zeroed, BakSet
<1> HIDE DEF zero
<1>5. [zero EXCEPT !.sum = @ \cup {step}] \in BakSet /\ [zero EXCEPT !.missed = @ \cup {step}] \in BakSet
  BY <1>4 DEF BakSet
<1>6. [t EXCEPT !.short = TRUE] \in BakSet
  BY <1>1 DEF BakSet
<1> QED
  BY <1>2, <1>4, <1>5, <1>6

LEMMA InfoTyped ==
  ASSUME NEW i \in InfoSet
  PROVE  /\ \A n \in 0 .. 255 : [i EXCEPT !.step = n] \in InfoSet
         /\ \A b \in BOOLEAN : [i EXCEPT !.aec = b] \in InfoSet
         /\ \A s \in {"idle", "auth", "enroll"} : [i EXCEPT !.state = s] \in InfoSet
BY DEF InfoSet

LEMMA AuthTyped ==
  ASSUME IInv, NEW step \in {0, touch}, AuthStep(step) PROVE Rest'
<1>1. step \in 0 .. 127 /\ bak \in BakSet /\ averaged \in AvgSet /\ ReverseStep \in 0 .. 127
  BY NumberAssumption DEF IInv, Rest
<1>2. PICK match \in BOOLEAN :
       /\ IF Average /\ ReverseStep > 0 THEN ReverseAverage(step, match)
          ELSE UNCHANGED <<bak, averaged>>
       /\ touch' = IF ~match /\ ~IsLast(step) THEN step + 1 ELSE 0
  BY DEF AuthStep
<1>3. touch' \in 0 .. 127
  BY <1>1, <1>2 DEF IsLast
<1>4. \A b \in BOOLEAN : [NoBak EXCEPT !.short = b] \in BakSet /\ NoBak \in BakSet
  BY DEF NoBak, BakSet
<1>5. \A b \in AfterSum(Turned(bak, step), step) : b \in BakSet
  BY <1>1, SumTyped
<1>6. bak' \in BakSet
  BY <1>1, <1>2, <1>4, <1>5 DEF ReverseAverage, SumUp, MatchAverage, MatchImage
<1>7. averaged' \in AvgSet
  <2>1. CASE MatchAverage(step, match)
    <3>1. PICK b \in AfterSum(Turned(bak, step), step) :
            \/ averaged' = Averaged(b)
            \/ UNCHANGED averaged
      BY <2>1 DEF MatchAverage
    <3>2. b \in BakSet
      BY <1>5
    <3>3. Averaged(b) \in AvgSet
      <4>1. /\ b.clean \in BOOLEAN /\ b.short \in BOOLEAN
            /\ b.sum \subseteq Nat /\ b.missed \subseteq Nat
        BY <3>2 DEF BakSet
      <4>2. (b.sum \ (AvgSteps \ b.missed)) \cup ((AvgSteps \ b.missed) \ b.sum) \in SUBSET Nat
        BY <4>1, AvgStepsNat
      <4> QED
        BY <4>1, <4>2 DEF Averaged, AvgSet
    <3> QED
      BY <1>1, <3>1, <3>3
  <2>2. CASE UNCHANGED averaged
    BY <1>1, <2>2
  <2> QED
    BY <1>2, <2>1, <2>2 DEF ReverseAverage, SumUp, MatchImage
<1>8. info' \in InfoSet /\ fault' \in {"none", "cfgs", "param"} /\ last' = "other"
  <2>1. step + 1 \in 0 .. 255 /\ info \in InfoSet
    BY <1>1 DEF IInv, Rest
  <2>2. info' = [info EXCEPT !.step = step + 1]
    BY DEF AuthStep
  <2>3. info' \in InfoSet
    BY <2>1, <2>2, InfoTyped, ZenonT(60)
  <2> QED
    BY <2>3 DEF AuthStep, Quiet
<1>9. UNCHANGED <<spi, fd, pcfgs>>
  BY DEF AuthStep
<1> QED
  BY <1>3, <1>6, <1>7, <1>8, <1>9 DEF IInv, Rest

LEMMA EnrollTyped == ASSUME IInv, EnrollStep PROVE Rest'
<1>1. PICK r \in 0 .. EnrollNum : info' = [info EXCEPT !.step = r]
  BY DEF EnrollStep
<1>2. r \in 0 .. 255 /\ info \in InfoSet
  BY NumberAssumption DEF IInv, Rest
<1>3. info' \in InfoSet
  BY <1>1, <1>2, InfoTyped, ZenonT(60)
<1> QED
  BY <1>3 DEF EnrollStep, IInv, Rest, Quiet

LEMMA ExposeTyped == ASSUME IInv, Expose PROVE spi' \in SpiState /\ info' \in InfoSet
<1>1. PICK differ \in BOOLEAN : info' = [info EXCEPT !.aec = differ]
  BY DEF Expose
<1>2. info' \in InfoSet
  BY <1>1, InfoTyped DEF IInv, Rest
<1> QED
  BY <1>2, OpenedTyped DEF Expose, AfterTransfer, IInv, Rest

LEMMA InitTyped == ASSUME IInv, NEW d \in ClientDevice, InitCmd(d) PROVE Rest'
<1>1. PICK s1 \in AfterOpen(spi) : \E s2 \in AfterInit(s1, d) :
       \E s3 \in AfterTransfer(s2), found \in BOOLEAN :
         /\ spi' \in IF found THEN {s3} ELSE AfterClose(s3)
         /\ fd' = found /\ pcfgs' = found
  BY DEF InitCmd
<1>2. s1 \in SpiState
  BY OpenedTyped DEF IInv, Rest
<1>3. Chosen(s1, d) \in SpiState
  BY <1>2, ChosenTyped
<1>4. PICK s2 \in AfterInit(s1, d) :
       \E s3 \in AfterTransfer(s2), found \in BOOLEAN :
         /\ spi' \in IF found THEN {s3} ELSE AfterClose(s3)
         /\ fd' = found /\ pcfgs' = found
  BY <1>1
<1>5. s2 \in SpiState
  BY <1>3, <1>4, OpenedTyped DEF AfterInit
<1>6. PICK s3 \in AfterTransfer(s2), found \in BOOLEAN :
         /\ spi' \in IF found THEN {s3} ELSE AfterClose(s3)
         /\ fd' = found /\ pcfgs' = found
  BY <1>4
<1>7. s3 \in SpiState
  BY <1>5, OpenedTyped DEF AfterTransfer
<1>8. spi' \in SpiState /\ fd' \in BOOLEAN /\ pcfgs' \in BOOLEAN
  BY <1>6, <1>7, ClosedTyped
<1>9. touch' = 0 /\ last' = "init" /\ UNCHANGED <<bak, info, fault, averaged>>
  BY DEF InitCmd
<1> QED
  BY <1>8, <1>9 DEF IInv, Rest

LEMMA StartTyped ==
  /\ SpiStart \in SpiState /\ NoBak \in BakSet /\ NoInfo \in InfoSet /\ 0 \in 0 .. 127
  /\ [state |-> "enroll", step |-> 99, aec |-> FALSE] \in InfoSet
<1>1. NoBak \in BakSet
  BY DEF NoBak, BakSet
<1>2. /\ NoInfo \in InfoSet /\ 0 \in 0 .. 127
      /\ [state |-> "enroll", step |-> 99, aec |-> FALSE] \in InfoSet
  BY DEF NoInfo, InfoSet
<1> QED
  BY <1>1, <1>2, SpiBegins DEF Sound

LEMMA RestStep == ASSUME IInv, [Next]_vars PROVE Rest'
<1>1. CASE StartBuffers \/ CiCapture \/ CaptureImage
  BY <1>1, ExposeTyped DEF StartBuffers, CiCapture, CaptureImage, IInv, Rest, Quiet
<1>2. CASE TestSpeed
  <2>1. fault' \in {"none", "param"}
    BY <1>2 DEF TestSpeed
  <2>2. Expose /\ last' = "other" /\ UNCHANGED <<fd, pcfgs, bak, touch, averaged>>
    BY <1>2 DEF TestSpeed, Quiet
  <2> QED
    BY <2>1, <2>2, ExposeTyped DEF IInv, Rest
<1>3. CASE TestCapture
  BY <1>3 DEF TestCapture, IInv, Rest, Quiet
<1>4. CASE AuthStart \/ EnrollStart \/ End
  <2>1. info' \in InfoSet
    BY <1>4, StartTyped, InfoTyped, ZenonT(60) DEF AuthStart, EnrollStart, End, IInv, Rest
  <2> QED
    BY <1>4, <2>1, StartTyped, SMTT(60) DEF AuthStart, EnrollStart, End, IInv, Rest, Quiet
<1>5. CASE EnrollStep
  BY <1>5, EnrollTyped
<1>6. CASE Deinit
  BY <1>6, ClosedTyped DEF Deinit, IInv, Rest, Quiet
<1>7. ASSUME NEW d \in ClientDevice, InitCmd(d) PROVE Rest'
  BY <1>7, InitTyped
<1>8. ASSUME NEW T \in SUBSET Table, UpdateCfg(T) PROVE Rest'
  BY <1>8 DEF UpdateCfg, IInv, Rest, Quiet
<1>9. ASSUME NEW t \in Table, LibraryUpdateEx(t) PROVE Rest'
  BY <1>9 DEF LibraryUpdateEx, IInv, Rest, Quiet
<1>10. ASSUME NEW onoff \in BOOLEAN, ControlSpi(onoff) PROVE Rest'
  <2>1. spi' \in SpiState
    BY <1>10, OpenedTyped, ClosedTyped DEF ControlSpi, IInv, Rest
  <2> QED
    BY <1>10, <2>1 DEF ControlSpi, IInv, Rest, Quiet
<1>11. ASSUME NEW step \in {0, touch}, AuthStep(step) PROVE Rest'
  BY <1>11, AuthTyped
<1>12. CASE Restart
  BY <1>12, StartTyped DEF Restart, IInv, Rest, Quiet
<1>13. CASE UNCHANGED vars
  BY <1>13 DEF vars, IInv, Rest
<1> QED
  BY <1>1, <1>2, <1>3, <1>4, <1>5, <1>6, <1>7, <1>8, <1>9, <1>10, <1>11, <1>12, <1>13
     DEF Next, Command

(* Types of all variables; the step number of a touch fits its byte.        *)
THEOREM TypeCorrect == Spec => []TypeOK
<1>1. Init => IInv
  <2>1. Init => Rest
    <3>1. [clean |-> TRUE, astray |-> {}, short |-> FALSE] \in AvgSet
      BY DEF AvgSet
    <3> QED
      BY <3>1, StartTyped DEF Init, Rest
  <2> QED
    BY <2>1, StartOwned, FramesInit DEF Init, IInv, Owned, FramesFine
<1>2. IInv /\ [Next]_vars => IInv'
  BY RestStep, OwnedStep, FramesStep DEF IInv
<1>3. IInv => TypeOK
  BY DEF IInv, Rest, Owned, FramesFine, FrameOK, TypeOK, FrameSet, BakSet, AvgSet, InfoSet
<1> QED
  BY <1>1, <1>2, <1>3, PTL DEF Spec
=============================================================================

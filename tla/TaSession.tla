----------------------------- MODULE TaSession -----------------------------
(***************************************************************************)
(* What a session of the trusted app holds, fp_impl.c: the SPI device, the *)
(* configuration, the image buffers, and where it stands in an enrolment   *)
(* or a touch.  The commands of fp_ta_entry_cmd.ic drive it; the app has   *)
(* one thread and serves one command at a time, so a command is one step.  *)
(* A command that returns early and changes nothing is no step.            *)
(*                                                                         *)
(* Composed of TaSpi and TaConfig.  The fingers are in TaFingers; here a   *)
(* match is a free choice, as is what the external matching library makes  *)
(* of an image.  The build has an optical sensor (fp_impl_is_optics).      *)
(*                                                                         *)
(* Left out: navigation, calibration, device info, and the registers that  *)
(* are written to the sensor.                                              *)
(***************************************************************************)
EXTENDS Naturals, FiniteSets, TaSpi, TaConfig

CONSTANTS
  ClientDevice,    \* device numbers a client gives to INIT
  ReduceParam,     \* CFG_PB_PARAM_REDUCE_NOISE
  Average,         \* the averaging kind of ci.auth_reverse_grey, not the grey one
  ReverseStep,     \* the number of images of a touch (auth_reverse_grey & 0x7F)
  ReverseSkip,     \* ci.auth_reverse_skip
  EnrollNum,       \* images of an enrolment (pb.threshold.enrolNum)
  PostNum,         \* pp.enroll_post_num
  PostCheck,       \* fp_impl_optics_post_enroll_check_finger()
  MaxLent          \* bound: no INIT when more image buffers are out

ASSUME ClientAssumption == ClientDevice \subseteq Device \cup {NoDevice}
ASSUME ParamAssumption == ReduceParam \in Table
ASSUME NumberAssumption ==
  /\ Average \in BOOLEAN /\ PostCheck \in BOOLEAN
  /\ ReverseStep \in 0 .. 127 /\ ReverseSkip \in Nat
  /\ EnrollNum \in 0 .. 98 /\ PostNum \in Nat
  /\ MaxLent \in Nat

VARIABLES
  spi, fd,         \* SPI state; m_spi_fd is not negative
  cfg, pcfgs,      \* the configuration; m_pcfgs is not NULL
  frames,          \* m_buf, m_buf_prev, m_qa_buf held; image buffers the library lent
  bak,             \* buffer_bak: held, nothing but this touch in it, steps summed
                   \* up, steps whose sum failed, and that in this touch it was
                   \* refused, or given back before the last step
  info,            \* s_state_info; aec: the two values differ
  fault,           \* a NULL pointer was read: "cfgs", "param" or "none"
  touch,           \* the client: step number of the next image of this touch
  (* auxiliary *)
  averaged,        \* of the last average: nothing else in it, the images of its
                   \* touch wrongly in or out, and "short" as in bak
  last             \* whether the last command was INIT

vars == <<spi, fd, cfg, pcfgs, frames, bak, info, fault, touch, averaged, last>>

NoInfo  == [state |-> "idle", step |-> 0, aec |-> FALSE]
NoFrame == [buf |-> FALSE, prev |-> FALSE, qa |-> FALSE, lent |-> 0]
NoBak   == [held |-> FALSE, clean |-> TRUE, sum |-> {}, missed |-> {}, short |-> FALSE]

(* The images of one touch that are meant to be averaged.                   *)
AvgSteps == {s \in 0 .. ReverseStep : ReverseSkip <= s /\ s < ReverseStep}

Quiet == last' = "other"

Init ==
  /\ spi = SpiStart /\ fd = FALSE
  /\ cfg = CfgStart /\ pcfgs = FALSE
  /\ frames = NoFrame /\ bak = NoBak /\ info = NoInfo
  /\ fault = "none" /\ touch = 0
  /\ averaged = [clean |-> TRUE, astray |-> {}, short |-> FALSE]
  /\ last = "other"

-----------------------------------------------------------------------------
(* Image buffers.  The library lends one, or has no memory for it.          *)
Kinds == {"buf", "prev", "qa"}
HeldOf(fr, K) == Cardinality({b \in K : fr[b]})
Got(fr, b) == IF fr[b] THEN fr ELSE [fr EXCEPT ![b] = TRUE, !.lent = @ + 1]

(* fp_impl_all_start.                                                       *)
AfterAllStart(fr) ==
  IF fd /\ pcfgs THEN {fr, Got(fr, "buf"), Got(Got(fr, "buf"), "prev")} ELSE {fr}

(* fp_impl_get_qa_buf reads a parameter table before it gets the buffer.    *)
AfterQa(fr) == {fr, Got(fr, "qa")}
QaFault == cfg.at[ReduceParam] = "none"

(* An image is taken from the sensor; its two exposures may differ.         *)
Expose ==
  /\ \E differ \in BOOLEAN : info' = [info EXCEPT !.aec = differ]
  /\ spi' \in AfterTransfer(spi)

(* NAV_START, TEST_GET_IMG_INFO, TEST_DEADPX, and a TEST_SPEED that gets no *)
(* buffer or no image.                                                      *)
StartBuffers ==
  /\ frames' \in AfterAllStart(frames)
  /\ Expose
  /\ Quiet
  /\ UNCHANGED <<fd, cfg, pcfgs, bak, fault, touch, averaged>>

-----------------------------------------------------------------------------
(* INIT.  fp_impl_init forgets what it had, then opens and sets up the      *)
(* device and reads the chip id; a chip that is not known closes it again.  *)
InitCmd(d) ==
  /\ frames.lent <= MaxLent
  /\ \E s1 \in AfterOpen(spi) : \E s2 \in AfterInit(s1, d) :
     \E s3 \in AfterTransfer(s2), found \in BOOLEAN :
        /\ found => s3.opened
        /\ spi' \in IF found THEN {s3} ELSE AfterClose(s3)
        /\ fd' = found /\ pcfgs' = found
  /\ frames' = [frames EXCEPT !.buf = FALSE, !.prev = FALSE]
  /\ touch' = 0
  /\ last' = "init"
  /\ UNCHANGED <<cfg, bak, info, fault, averaged>>

(* DEINIT gives back the device, the configuration and the buffers;         *)
(* m_spi_fd and m_pcfgs stay as they are.                                   *)
Given(K) == [NoFrame EXCEPT !.lent = frames.lent - HeldOf(frames, K)]

Deinit_KeepsQa ==
  /\ spi' \in AfterClose(spi)
  /\ cfg' = IF pcfgs THEN Released(cfg) ELSE cfg
  /\ frames' = Given({"buf", "prev"})
  /\ Quiet
  /\ UNCHANGED <<fd, pcfgs, bak, info, fault, touch, averaged>>

Deinit ==
  /\ spi' \in AfterClose(spi)
  /\ cfg' = IF pcfgs THEN Released(cfg) ELSE cfg
  /\ frames' = Given(Kinds)
  /\ Quiet
  /\ UNCHANGED <<fd, pcfgs, bak, info, fault, touch, averaged>>

(* UPDATE_CFG, with the tables of an XML configuration.                     *)
UpdateCfg(T) ==
  /\ pcfgs
  /\ cfg' \in AfterUpdate(cfg, T)
  /\ Quiet
  /\ UNCHANGED <<spi, fd, pcfgs, frames, bak, info, fault, touch, averaged>>

(* The library changes a register of a table, or closes or opens the        *)
(* device (fp_impl_control_spi), while it serves a command; a transfer      *)
(* opens it too.                                                            *)
LibraryUpdateEx(t) ==
  /\ pcfgs
  /\ cfg' \in AfterUpdateEx(cfg, t)
  /\ Quiet
  /\ UNCHANGED <<spi, fd, pcfgs, frames, bak, info, fault, touch, averaged>>

ControlSpi(onoff) ==
  /\ spi' \in IF onoff THEN AfterOpen(spi) ELSE AfterClose(spi)
  /\ Quiet
  /\ UNCHANGED <<fd, cfg, pcfgs, frames, bak, info, fault, touch, averaged>>

-----------------------------------------------------------------------------
(* CI_CHK_FINGER, CI_ADJ_GAIN and CI_SHOT take no image in the last steps   *)
(* of an enrolment; CAPTURE_IMG does.                                       *)
LastEnrollStep == info.state = "enroll" /\ info.step < PostNum

CiCapture ==
  /\ pcfgs /\ frames.buf /\ ~(LastEnrollStep /\ ~PostCheck)
  /\ Expose
  /\ Quiet
  /\ UNCHANGED <<fd, cfg, pcfgs, frames, bak, fault, touch, averaged>>

CaptureImage ==
  /\ pcfgs /\ frames.buf
  /\ Expose
  /\ Quiet
  /\ UNCHANGED <<fd, cfg, pcfgs, frames, bak, fault, touch, averaged>>

(* TEST_IMAGE_CAPTURE reads the size from m_pcfgs before it asks whether    *)
(* there is one.                                                            *)
TestCapture ==
  /\ pcfgs => frames.buf
  /\ fault' = IF ~pcfgs THEN "cfgs" ELSE IF QaFault THEN "param" ELSE "none"
  /\ frames' \in IF fault' = "none" THEN AfterQa(frames) ELSE {frames}
  /\ Quiet
  /\ UNCHANGED <<spi, fd, cfg, pcfgs, bak, info, touch, averaged>>

(* TEST_SPEED.                                                              *)
TestSpeed ==
  /\ fd /\ pcfgs
  /\ \E fr \in AfterAllStart(frames) :
       /\ fr.buf /\ fr.prev
       /\ fault' = IF QaFault THEN "param" ELSE "none"
       /\ frames' \in IF QaFault THEN {fr} ELSE AfterQa(fr)
  /\ Expose
  /\ Quiet
  /\ UNCHANGED <<fd, cfg, pcfgs, bak, touch, averaged>>

-----------------------------------------------------------------------------
(* AUTH_START, ENROLL_START.                                                *)
AuthStart ==
  /\ touch' = 0
  /\ info' = [NoInfo EXCEPT !.state = "auth"]
  /\ frames' \in AfterAllStart(frames)
  /\ Quiet
  /\ UNCHANGED <<spi, fd, cfg, pcfgs, bak, fault, averaged>>

EnrollStart ==
  /\ info' = [state |-> "enroll", step |-> 99, aec |-> FALSE]
  /\ frames' \in AfterAllStart(frames)
  /\ Quiet
  /\ UNCHANGED <<spi, fd, cfg, pcfgs, bak, fault, touch, averaged>>

(* A touch begins: what buffer_bak has summed up is of another one.         *)
Turned(b, step) ==
  IF step = 0
  THEN [b EXCEPT !.clean = @ /\ b.sum = {}, !.sum = {}, !.missed = {}, !.short = FALSE]
  ELSE b

(* _impl_auth_step_reverse, lines 620 to 636: a new buffer, whose contents  *)
(* are what they are, if there is none; zeroed at the first step; one more  *)
(* image in it, unless silfp_algo_optic_buffer_add fails, which is only     *)
(* logged.  The buffer may be refused.                                      *)
Zeroed_Never(b, step) == b
Zeroed(b, step) ==
  IF step = 0 THEN [b EXCEPT !.clean = TRUE, !.sum = {}] ELSE b

AfterSum(b, step) ==
  LET got  == IF b.held THEN b ELSE [b EXCEPT !.held = TRUE, !.clean = FALSE, !.sum = {}]
      zero == Zeroed(got, step)
      more == IF step \in AvgSteps
              THEN {[zero EXCEPT !.sum = @ \cup {step}], [zero EXCEPT !.missed = @ \cup {step}]}
              ELSE {zero} IN
  more \cup IF b.held THEN {} ELSE {[b EXCEPT !.short = TRUE]}

(* _impl_auth_step_reverse: match each image of a touch, and at its last    *)
(* step the average of them; if silfp_algo_optic_buffer_avg fails, which is *)
(* only logged, the last image is matched as it is.                         *)
Averaged(b) ==
  LET due == AvgSteps \ b.missed IN
  [clean |-> b.clean, astray |-> (b.sum \ due) \cup (due \ b.sum), short |-> b.short]

IsLast(step) == step + 1 >= ReverseStep
AecDiffers(step) == step + 1 = 3 /\ info.aec

SumUp(step, match) ==
  /\ ~AecDiffers(step) /\ ~IsLast(step) /\ ~match
  /\ bak' \in AfterSum(Turned(bak, step), step)
  /\ UNCHANGED averaged

MatchAverage(step, match) ==
  /\ ~AecDiffers(step) /\ IsLast(step)
  /\ bak' = NoBak
  /\ \E b \in AfterSum(Turned(bak, step), step) :
       IF b.held /\ step + 1 = ReverseStep /\ ReverseSkip < ReverseStep
       THEN averaged' \in {Averaged(b), averaged}
       ELSE ~match /\ UNCHANGED averaged

MatchImage(step, match) ==
  /\ AecDiffers(step) \/ (match /\ step + 1 # ReverseStep)
  /\ bak' = [NoBak EXCEPT !.short = ~match /\ ~IsLast(step)]
  /\ UNCHANGED averaged

ReverseAverage(step, match) ==
  SumUp(step, match) \/ MatchAverage(step, match) \/ MatchImage(step, match)

(* AUTH_STEP with the step number a client gives: 0 for the first image of  *)
(* a touch, then one more each time until a match or the last step.  The    *)
(* quality check that follows the match may read a missing table.           *)
AuthStep(step) ==
  /\ frames.buf /\ pcfgs
  /\ \E match \in BOOLEAN :
       /\ IF Average /\ ReverseStep > 0 THEN ReverseAverage(step, match)
          ELSE UNCHANGED <<bak, averaged>>
       /\ touch' = IF ~match /\ ~IsLast(step) THEN step + 1 ELSE 0
  /\ info' = [info EXCEPT !.step = step + 1]
  /\ fault' = IF QaFault THEN "param" ELSE "none"
  /\ frames' \in IF QaFault THEN {frames} ELSE AfterQa(frames)
  /\ Quiet
  /\ UNCHANGED <<spi, fd, cfg, pcfgs>>

(* ENROLL_STEP adds an image, of which r are then still missing, until      *)
(* fewer than PostNum are: the last steps finish the template.              *)
EnrollStep ==
  /\ frames.buf /\ pcfgs
  /\ \E r \in 0 .. EnrollNum :
       /\ IF LastEnrollStep THEN r = 0 \/ r = info.step \/ (info.step > 1 /\ r = info.step - 1)
          ELSE info.state = "enroll" => r <= info.step
       /\ info' = [info EXCEPT !.step = r]
  /\ Quiet
  /\ UNCHANGED <<spi, fd, cfg, pcfgs, frames, bak, fault, touch, averaged>>

(* AUTH_END, ENROLL_END.                                                    *)
End ==
  /\ info' = [info EXCEPT !.state = "idle"]
  /\ Quiet
  /\ UNCHANGED <<spi, fd, cfg, pcfgs, frames, bak, fault, touch, averaged>>

(* The app starts anew: power was lost, or it has read a NULL pointer.      *)
Restart ==
  /\ spi' = SpiStart /\ fd' = FALSE
  /\ cfg' = CfgStart /\ pcfgs' = FALSE
  /\ frames' = NoFrame /\ bak' = NoBak /\ info' = NoInfo
  /\ fault' = "none" /\ touch' = 0
  /\ Quiet
  /\ UNCHANGED averaged

-----------------------------------------------------------------------------
Command ==
  \/ StartBuffers \/ Deinit \/ CiCapture \/ CaptureImage \/ TestCapture \/ TestSpeed
  \/ AuthStart \/ EnrollStart \/ EnrollStep \/ End
  \/ \E d \in ClientDevice : InitCmd(d)
  \/ \E T \in SUBSET Table : UpdateCfg(T)
  \/ \E t \in Table : LibraryUpdateEx(t)
  \/ \E onoff \in BOOLEAN : ControlSpi(onoff)
  \/ \E step \in {0, touch} : AuthStep(step)

Next == (fault = "none" /\ Command) \/ Restart

Spec == Init /\ [][Next]_vars

-----------------------------------------------------------------------------
(* Every variable has its type; a step number fits its byte.                *)
TypeOK ==
  /\ spi \in SpiState /\ fd \in BOOLEAN
  /\ cfg \in CfgState /\ pcfgs \in BOOLEAN
  /\ frames \in [buf : BOOLEAN, prev : BOOLEAN, qa : BOOLEAN, lent : Nat]
  /\ bak \in [held : BOOLEAN, clean : BOOLEAN, sum : SUBSET Nat, missed : SUBSET Nat, short : BOOLEAN]
  /\ info \in [state : {"idle", "auth", "enroll"}, step : 0 .. 255, aec : BOOLEAN]
  /\ fault \in {"none", "cfgs", "param"}
  /\ touch \in 0 .. 127
  /\ averaged \in [clean : BOOLEAN, astray : SUBSET Nat, short : BOOLEAN]
  /\ last \in {"other", "init"}

(* The average that is matched at the last step of a touch is made of       *)
(* exactly the images of this touch from ReverseSkip on that could be       *)
(* summed up, none of an earlier touch and nothing the buffer held before   *)
(* it was zeroed: unless in this touch the buffer was refused, or given     *)
(* back at the third image because its exposures differ (fp_impl.c:656).    *)
AvgOfThisTouch ==
  averaged.short \/ (averaged.clean /\ averaged.astray = {})

(* An image buffer is given back once, and lost (lent but no longer         *)
(* referred to) by no command but INIT, which clears m_buf and m_buf_prev   *)
(* without a look at them.                                                  *)
BuffersKept ==
  [][/\ frames'.lent >= HeldOf(frames', Kinds)
     /\ frames'.lent - HeldOf(frames', Kinds) > frames.lent - HeldOf(frames, Kinds)
          => last' = "init"]_vars

(* Through updates by the client and the library, refused memory and        *)
(* releases in any order no block of the heap is leaked or freed twice and  *)
(* no constant table is freed.                                              *)
ConfigOwned == BlocksMatch(cfg)

(* The device marked open is open, unless another one was when INIT chose   *)
(* it, and no other is, but for a device whose close failed and for one     *)
(* that was open when INIT chose another: through opens and closes of the   *)
(* client and of the library, failing at will, and restarts.                *)
SpiAgrees == DeviceIsOpen(spi)
=============================================================================

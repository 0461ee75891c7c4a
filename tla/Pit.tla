-------------------------------- MODULE Pit --------------------------------
(***************************************************************************)
(* The timer of the 68230 (src/src/pit.c): the machine's clock tick.       *)
(*                                                                         *)
(* The counter is decremented by sys_device_tick at a rate taken from the  *)
(* host's clock.  At zero it sets ZDS, which holds the level 6 line up     *)
(* until software writes a one to it.  Whoever writes the registers is     *)
(* arbitrary here; a step is one register write or one pulse.              *)
(*                                                                         *)
(* Abstracted: the parallel ports and the vector registers, which are only *)
(* stored, and TOUT control, of which only "5 or 7" matters.  The history  *)
(* variables `since' and `even' only observe: `even' is whether nothing but*)
(* pulses and clearing ZDS happened since the counter was last at zero or  *)
(* loaded by switching on, and `since' counts the pulses from there.       *)
(***************************************************************************)
EXTENDS Integers

CONSTANTS
  Byte,       (* 256: the values of one preload or counter register        *)
  CounterWrap (* 2^32: the UINT32 the emulator keeps the counter in        *)

Size == Byte * Byte * Byte    \* a 24 bit register, three bytes of it
Max  == Size - 1              \* 0xffffff

ASSUME PitAssumption ==
  /\ Byte \in Nat /\ Byte > 1
  /\ CounterWrap \in Nat /\ CounterWrap > Byte * Byte * Byte

VARIABLES
  enabled,    (* TCR bit 0                                                 *)
  rollover,   (* TCR bit 4                                                 *)
  tintr,      (* TCR bits 7-5 are 5 or 7: TOUT is the interrupt request    *)
  zds,        (* TSR bit 0                                                 *)
  counter,    (* counterValue                                              *)
  preload,    (* counterPreloadValue                                       *)
  asserted,   (* pitIntAsserted                                            *)
  line,       (* the level 6 bit of the CPU's virq_state                   *)
  since, even (* history, see above                                        *)

tcr  == <<enabled, rollover, tintr>>
irq  == <<asserted, line>>
past == <<since, even>>
vars == <<tcr, zds, counter, preload, irq, past>>

TypeOK ==
  /\ enabled \in BOOLEAN /\ rollover \in BOOLEAN /\ tintr \in BOOLEAN
  /\ zds \in BOOLEAN
  /\ counter \in 0 .. CounterWrap - 1
  /\ preload \in 0 .. Max
  /\ asserted \in BOOLEAN /\ line \in BOOLEAN
  /\ since \in Nat /\ even \in BOOLEAN

Init ==
  /\ enabled = FALSE /\ rollover = FALSE /\ tintr = FALSE
  /\ zds = FALSE
  /\ counter = 0 /\ preload = 0
  /\ asserted = FALSE /\ line = FALSE
  /\ since = 0 /\ even = FALSE

-----------------------------------------------------------------------------
(* pit_update_irq: the line is touched only when the request changes.      *)
Request == enabled /\ zds /\ tintr

UpdateIrq ==
  /\ asserted' = Request'
  /\ line' = IF Request' = asserted THEN line ELSE Request'

(* pit_check_interrupt, when it is called with the TCR and the counter     *)
(* already new: ZDS is set only while TOUT is the interrupt request.       *)
Detect == enabled' /\ counter' = 0 /\ tintr'

(* Faulty: switching the timer on keeps what the counter held.             *)
WriteTCRKeepsCounter(en, ro, ti) ==
  /\ enabled' = en /\ rollover' = ro /\ tintr' = ti
  /\ UNCHANGED <<counter, preload>>
  /\ zds' = (zds \/ (~enabled /\ Detect))
  /\ since' = 0 /\ even' = (~enabled /\ en /\ ~ro)
  /\ UpdateIrq

(* A write to TCR.  Switching the timer on loads the counter from the      *)
(* preload, unless the timer is to roll over.                              *)
WriteTCR(en, ro, ti) ==
  LET on == ~enabled /\ en
  IN /\ enabled' = en /\ rollover' = ro /\ tintr' = ti
     /\ counter' = IF on /\ ~ro THEN preload ELSE counter
     /\ zds' = (zds \/ (on /\ Detect))
     /\ since' = 0 /\ even' = (on /\ ~ro)
     /\ UNCHANGED preload
     /\ UpdateIrq

(* A write to TSR: a one clears ZDS.                                       *)
WriteTSR(clear) ==
  /\ zds' = (zds /\ ~clear)
  /\ UNCHANGED <<tcr, counter, preload, past>>
  /\ UpdateIrq

(* Byte k of x becomes b, and what a UINT32 holds above 24 bits is cut.    *)
SetByte(x, k, b) ==
  LET w == << 1, Byte, Byte * Byte >>[k + 1]
  IN ((x \div (w * Byte)) * (w * Byte) + b * w + (x % w)) % Size

WriteCounter(k, b) ==
  /\ counter' = SetByte(counter, k, b)
  /\ since' = 0 /\ even' = FALSE
  /\ UNCHANGED <<tcr, zds, preload, irq>>

WritePreload(k, b) ==
  /\ preload' = SetByte(preload, k, b)
  /\ since' = 0 /\ even' = FALSE
  /\ UNCHANGED <<tcr, zds, counter, irq>>

(* The counter after a pulse; from 0 it is loaded before it is decremented. *)
Decremented ==
  LET from == IF counter # 0 THEN counter ELSE IF rollover THEN Max ELSE preload
  IN IF from = 0 THEN CounterWrap - 1 ELSE from - 1

(* Faulty: the counter stays at zero / the load takes a pulse of its own.  *)
PulseStops ==
  /\ enabled
  /\ UNCHANGED <<tcr, preload>>
  /\ counter' = IF counter = 0 THEN 0 ELSE counter - 1
  /\ zds' = (zds \/ (counter # 0 /\ Detect))
  /\ since' = 0 /\ even' = FALSE
  /\ IF zds' # zds THEN UpdateIrq ELSE UNCHANGED irq
PulseLoadsFirst ==
  /\ enabled
  /\ UNCHANGED <<tcr, preload>>
  /\ counter' = IF counter = 0 THEN (IF rollover THEN Max ELSE preload)
                               ELSE counter - 1
  /\ zds' = (zds \/ Detect)
  /\ since' = IF counter' = 0 \/ ~even THEN 0 ELSE since + 1
  /\ even' = (even \/ counter' = 0)
  /\ IF Detect THEN UpdateIrq ELSE UNCHANGED irq

(* pit_pulse_counter.                                                      *)
Pulse ==
  /\ enabled
  /\ UNCHANGED <<tcr, preload>>
  /\ counter' = Decremented
  /\ zds' = (zds \/ Detect)
  /\ since' = IF counter' = 0 \/ ~even THEN 0 ELSE since + 1
  /\ even' = (even \/ counter' = 0)
  /\ IF Detect THEN UpdateIrq ELSE UNCHANGED irq

PulseReset ==
  /\ enabled' = FALSE /\ rollover' = FALSE /\ tintr' = FALSE
  /\ zds' = FALSE
  /\ counter' = 0 /\ preload' = 0
  /\ asserted' = FALSE /\ line' = FALSE
  /\ since' = 0 /\ even' = FALSE

-----------------------------------------------------------------------------
HostSetsUp ==
  \/ \E en, ro, ti \in BOOLEAN : WriteTCR(en, ro, ti)
  \/ \E k \in 0 .. 2, b \in 0 .. Byte - 1 : WriteCounter(k, b)
  \/ \E k \in 0 .. 2, b \in 0 .. Byte - 1 : WritePreload(k, b)
  \/ PulseReset

Next == HostSetsUp \/ Pulse \/ \E clear \in BOOLEAN : WriteTSR(clear)

Spec == Init /\ [][Next]_vars

(* The kernel's level 6 handler, which writes a one to ZDS.                *)
ServeTick == line /\ WriteTSR(TRUE)

(* The host's clock goes on, and an interrupt that is up is answered.      *)
FairSpec == Spec /\ WF_vars(Pulse) /\ WF_vars(ServeTick)

-----------------------------------------------------------------------------
(* "While ZDS is set, the timer is enabled and the TOUT control selects an *)
(* interrupt mode, the request line is asserted": the line, the static     *)
(* that guards it and the registers agree, whatever was written.           *)
LineFollowsRequest == line = Request /\ asserted = line

(* Pulses from one zero to the next.  A preload of 0 costs a whole turn of *)
(* the 32 bit variable.                                                    *)
Period == IF rollover THEN Max ELSE IF preload = 0 THEN CounterWrap ELSE preload

(* The clock neither gains nor loses a pulse: between two zeros, or from   *)
(* switching on to the first, lie exactly as many pulses as the preload    *)
(* says, if nobody writes the registers in between.                        *)
PeriodExact == [][Pulse /\ even /\ counter' = 0 => since + 1 = Period]_vars

(* Why: what is left to count and what was counted make up one period.     *)
OnSchedule ==
  even => \/ since = 0 /\ counter = 0
          \/ since = 0 /\ counter = preload /\ ~rollover
          \/ since + counter = Period /\ counter # 0

IInv == TypeOK /\ LineFollowsRequest /\ OnSchedule

(* A kernel that set up the timer once and then only answers its interrupt *)
(* gets the next tick, again and again, whatever it inherited before: "the *)
(* counter sat at sixteen million" is a delay but not a stop.              *)
KeepsTicking ==
  <>[](enabled /\ tintr) /\ <>[][~HostSetsUp]_vars
    => []<><<ServeTick>>_vars
=============================================================================

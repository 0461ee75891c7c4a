------------------------------- MODULE WdIrq -------------------------------
(***************************************************************************)
(* How the Winchester controller asks for its level 2 interrupt.           *)
(*                                                                         *)
(* A finished command only flags what it has to announce and starts a      *)
(* counter; wd_processContinue raises the line when the counter has run    *)
(* down and the line is free, and wd_irq_ack takes the line back with one  *)
(* of the flags.  Who finishes commands and writes the control register is *)
(* arbitrary here: Wd is the controller that does.                         *)
(*                                                                         *)
(* The interrupt side of the one installed controller (WD1_INSTALLED is 0) *)
(* is a record, and what the functions of wd.c do to it are operators.     *)
(***************************************************************************)
EXTENDS Naturals

CONSTANTS IntComplete, IntSeek    (* WD_INT_COMPLETE_COUNT, WD_INT_SEEK_COUNT *)

ASSUME IrqAssumption ==
  /\ IntComplete \in Nat \ {0}
  /\ IntSeek \in Nat \ {0}

VARIABLE irq

Units == {0, 1}

IrqType ==
  [complete : SUBSET Units,   (* intPendingComplete                        *)
   seek     : SUBSET Units,   (* intPendingSeek                            *)
   busErr   : BOOLEAN,        (* busErrorIntPending                        *)
   asserted : BOOLEAN,        (* wdIntAsserted                             *)
   line     : BOOLEAN,        (* the level 2 bit of the CPU's virq_state   *)
   counter  : Nat]            (* wdIntrCounter                             *)

IrqInit ==
  irq = [complete |-> {}, seek |-> {}, busErr |-> FALSE,
         asserted |-> FALSE, line |-> FALSE, counter |-> 0]

Least(S) == IF 0 \in S THEN 0 ELSE 1    \* the unit its loops come to first

-----------------------------------------------------------------------------
(* wd_update_irq.                                                          *)
UpdateIrq(q, on) == [q EXCEPT !.line = on, !.asserted = on]

(* wd_clear_outstanding_ints: the line is dropped if this controller has it *)
(* up.  The counter runs on.                                               *)
ClearedFlagsOnly(q) ==    \* faulty: the line is left up
  [q EXCEPT !.complete = {}, !.seek = {}, !.busErr = FALSE]
Cleared(q) ==
  LET r == [q EXCEPT !.complete = {}, !.seek = {}, !.busErr = FALSE]
  IN IF q.asserted THEN UpdateIrq(r, FALSE) ELSE r

BusErrInt(q) == UpdateIrq([q EXCEPT !.busErr = TRUE], TRUE)

(* wd_set_raise_flags, for unit u and the interrupts that are enabled.     *)
FlaggedIfIdle(q, u, inten, seekDone) ==    \* faulty: lost while it is running
  IF q.counter # 0 THEN q
  ELSE [q EXCEPT !.complete = IF inten THEN @ \cup {u} ELSE @,
                 !.seek = IF seekDone THEN @ \cup {u} ELSE @,
                 !.counter = IF inten THEN IntComplete
                             ELSE IF seekDone THEN IntSeek ELSE 0]
Flagged(q, u, inten, seekDone) ==
  [q EXCEPT !.complete = IF inten THEN @ \cup {u} ELSE @,
            !.seek = IF seekDone THEN @ \cup {u} ELSE @,
            !.counter = IF @ # 0 THEN @
                        ELSE IF inten THEN IntComplete
                        ELSE IF seekDone THEN IntSeek ELSE 0]

(* processPendingInterrupts: it waits while the line is up, and looks again *)
(* after every interrupt that it raises.                                   *)
ProcessPendingInterrupts(q) ==
  IF q.asserted THEN [q EXCEPT !.counter = IntComplete]
  ELSE IF q.busErr \/ q.complete \cup q.seek # {}
    THEN UpdateIrq([q EXCEPT !.busErr = FALSE, !.counter = IntComplete], TRUE)
  ELSE q

(* The last line of wd_processContinue.                                    *)
Ticked(q) ==
  LET r == [q EXCEPT !.counter = @ - 1]
  IN IF q.counter = 0 THEN q
     ELSE IF r.counter = 0 THEN ProcessPendingInterrupts(r) ELSE r

(* wd_irq_ack, which answers for a bus error, then for a completion, then  *)
(* for a seek, and leaves the line as it is if there is none of them.      *)
Acked(q) ==
  IF q.busErr
    THEN UpdateIrq([q EXCEPT !.busErr = FALSE], FALSE)
  ELSE IF q.complete # {}
    THEN UpdateIrq([q EXCEPT !.complete = @ \ {Least(@)}], FALSE)
  ELSE IF q.seek # {}
    THEN UpdateIrq([q EXCEPT !.seek = @ \ {Least(@)}], FALSE)
  ELSE q

-----------------------------------------------------------------------------
(* One call of wd_processContinue in which a command may have ended.       *)
IrqTick == irq' = Ticked(irq)
IrqCommandEnds ==
  \E u \in Units, inten, seekDone \in BOOLEAN :
    irq' = Ticked(Flagged(irq, u, inten, seekDone))

(* A write to the control register, which resets or announces a bus error  *)
(* or does both in this order; wd_pulse_reset does the first.              *)
IrqControl ==
  \/ irq' = Cleared(irq)
  \/ irq' = BusErrInt(irq)
  \/ irq' = BusErrInt(Cleared(irq))

IrqAck == irq.line /\ irq' = Acked(irq)

IrqNext == IrqTick \/ IrqCommandEnds \/ IrqControl \/ IrqAck
IrqSpec == IrqInit /\ [][IrqNext]_irq

-----------------------------------------------------------------------------
Announced(q) == q.complete \cup q.seek

(* wdIntAsserted says what the line is, and the line is up only when there *)
(* is something to announce: an acknowledge never comes back spurious, as  *)
(* that would leave the line up for ever.                                  *)
NeverSpurious ==
  /\ irq.line = irq.asserted
  /\ irq.line => irq.busErr \/ Announced(irq) # {}

(* "If there is already an active int, do that later via                   *)
(* wd_processContinue": while an interrupt is outstanding the counter that *)
(* leads to it is running, whatever came in between.                       *)
StaysArmed == Announced(irq) # {} => irq.counter # 0

(* A bus error is announced at once, never by processPendingInterrupts.    *)
BusErrorOnLine == irq.busErr => irq.line

IrqInv == irq \in IrqType /\ NeverSpurious /\ StaysArmed /\ BusErrorOnLine
=============================================================================

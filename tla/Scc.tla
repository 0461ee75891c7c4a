-------------------------------- MODULE Scc --------------------------------
(***************************************************************************)
(* The Z8530 serial controller of the console (src/src/scc.c).             *)
(*                                                                         *)
(* A channel's registers are reached through the pointer in its WR0: one   *)
(* write selects, the next access uses the register and falls back to 0.   *)
(* The chip drives the level 5 line from the pending bits and the master   *)
(* interrupt enable in WR9.  scc_update_irq remembers in a static variable *)
(* what it drove last and touches the line only when that changes; a reset *)
(* clears the line behind its back.                                        *)
(*                                                                         *)
(* One step is one register access, one scc_pollStatus, or one command of  *)
(* the debugger.  Abstracted: what is sent (it leaves the machine at once),*)
(* the bits of the registers nothing depends on, the baud rate latches and *)
(* the number of data bits a loopback transfer is cut to.                  *)
(***************************************************************************)
EXTENDS Naturals

CONSTANTS
  Chars,      (* characters that can be received                           *)
  NoChar,     (* the zero in recBuf after a reset                          *)
  Regs,       (* registers the host selects                                *)
  MaxFile     (* bound: length of a file loaded for port B                 *)

Channels == {"A", "B"}
Commands == {"null", "resetTx", "resetIUS"}   \* WR0 commands 5, 7 and the rest

ASSUME SccAssumption ==
  /\ Regs \subseteq 0 .. 15
  /\ 0 \in Regs
  /\ MaxFile \in Nat
  /\ NoChar \notin Chars

VARIABLES
  ptr,        (* register selected by WR0                                  *)
  txie,       (* WR1 bit 1                                                 *)
  rxie,       (* WR1 bits 4 and 3, any of them                             *)
  loop,       (* WR14 bit 4, local loopback                                *)
  mie,        (* sccWr9 bit 3                                              *)
  avail,      (* RR0 bit 0, receive character available                    *)
  recBuf,     (* recBuf                                                    *)
  txPend,     (* sccTxPend                                                 *)
  rxPend,     (* sccRxPend                                                 *)
  asserted,   (* the static of scc_update_irq                              *)
  line,       (* the level 5 bit of the CPU's virq_state                   *)
  writeRegs,  (* cmb_writeRegs of the main board, the bits that are set     *)
  fileLeft    (* fileLen - filePos of port B's file, 0 once it is used up  *)

regVars  == <<txie, rxie, loop>>
pendVars == <<txPend, rxPend>>
irqVars  == <<asserted, line>>
vars == <<ptr, regVars, mie, avail, recBuf, pendVars, irqVars, writeRegs,
          fileLeft>>

TypeOK ==
  /\ ptr \in [Channels -> 0 .. 15]
  /\ txie \in [Channels -> BOOLEAN]
  /\ rxie \in [Channels -> BOOLEAN]
  /\ loop \in [Channels -> BOOLEAN]
  /\ mie \in BOOLEAN
  /\ avail \in [Channels -> BOOLEAN]
  /\ recBuf \in [Channels -> Chars \cup {NoChar}]
  /\ txPend \in [Channels -> BOOLEAN]
  /\ rxPend \in [Channels -> BOOLEAN]
  /\ asserted \in BOOLEAN
  /\ line \in BOOLEAN
  /\ writeRegs \subseteq {4, 16}
  /\ fileLeft \in 0 .. MaxFile

None == [c \in Channels |-> FALSE]

Init ==
  /\ ptr = [c \in Channels |-> 0]
  /\ txie = None /\ rxie = None /\ loop = None
  /\ mie = FALSE
  /\ avail = None
  /\ recBuf = [c \in Channels |-> NoChar]
  /\ txPend = None /\ rxPend = None
  /\ asserted = FALSE /\ line = FALSE
  /\ writeRegs = {}
  /\ fileLeft = 0

-----------------------------------------------------------------------------
(* scc_update_irq, called after the pending bits or WR9 were changed.      *)
Wanted == mie /\ \E c \in Channels : txPend[c] \/ rxPend[c]

UpdateIrqRaiseOnly ==   \* faulty: never takes the line down
  /\ asserted' = Wanted'
  /\ line' = (line \/ Wanted')

UpdateIrq ==
  /\ asserted' = Wanted'
  /\ line' = IF Wanted' = asserted THEN line ELSE Wanted'

(* The pending source that comes first: receive above transmit, A above B. *)
Sources == Channels \X {"rx", "tx"}
Ranked  == << <<"A", "rx">>, <<"A", "tx">>, <<"B", "rx">>, <<"B", "tx">> >>
Pending(s) == IF s[2] = "rx" THEN rxPend[s[1]] ELSE txPend[s[1]]
Highest(s) ==
  \E i \in 1 .. 4 : /\ s = Ranked[i] /\ Pending(s)
                    /\ \A j \in 1 .. (i - 1) : ~Pending(Ranked[j])

(* Faulty: command 5 answers the transmit interrupts of both channels.     *)
SelectRegResetsBoth(p, r, cmd) ==
  /\ ptr[p] = 0
  /\ r > 7 => cmd = "null"
  /\ ptr' = [ptr EXCEPT ![p] = r]
  /\ txPend' = IF cmd = "resetTx" THEN None ELSE txPend
  /\ UNCHANGED <<rxPend, regVars, mie, avail, recBuf, writeRegs, fileLeft>>
  /\ IF cmd = "null" THEN UNCHANGED irqVars ELSE UpdateIrq

(* A write to WR0: it selects the next register and may carry a command.   *)
SelectReg(p, r, cmd) ==
  /\ ptr[p] = 0
  /\ r > 7 => cmd = "null"      \* "point high" is itself a command
  /\ ptr' = [ptr EXCEPT ![p] = r]
  /\ txPend' = [c \in Channels |->
       /\ txPend[c]
       /\ ~(cmd = "resetTx" /\ c = p)
       /\ ~(cmd = "resetIUS" /\ Highest(<<c, "tx">>))]
  /\ rxPend' = [c \in Channels |->
       rxPend[c] /\ ~(cmd = "resetIUS" /\ Highest(<<c, "rx">>))]
  /\ UNCHANGED <<regVars, mie, avail, recBuf, writeRegs, fileLeft>>
  /\ IF cmd = "null" THEN UNCHANGED irqVars ELSE UpdateIrq

WriteWR1(p, tx, rx) ==
  /\ ptr[p] = 1
  /\ ptr' = [ptr EXCEPT ![p] = 0]
  /\ txie' = [txie EXCEPT ![p] = tx]
  /\ rxie' = [rxie EXCEPT ![p] = rx]
  /\ UNCHANGED <<loop, mie, avail, recBuf, pendVars, irqVars, writeRegs,
                 fileLeft>>

(* Faulty: the line is not looked at when the master enable changes.       *)
WriteWR9Silent(p, m, R) ==
  /\ ptr[p] = 9
  /\ ptr' = [ptr EXCEPT ![p] = 0]
  /\ mie' = m
  /\ UNCHANGED <<regVars, avail, recBuf, pendVars, irqVars, writeRegs,
                 fileLeft>>

(* WR9 belongs to the chip: whichever channel it is written through, it    *)
(* sets the master enable and resets the channels of R (scc_channel_reset). *)
WriteWR9(p, m, R) ==
  /\ ptr[p] = 9
  /\ ptr' = [ptr EXCEPT ![p] = 0]
  /\ mie' = m
  /\ txie' = [c \in Channels |-> txie[c] /\ c \notin R]
  /\ rxie' = [c \in Channels |-> rxie[c] /\ c \notin R]
  /\ txPend' = [c \in Channels |-> txPend[c] /\ c \notin R]
  /\ rxPend' = [c \in Channels |-> rxPend[c] /\ c \notin R]
  /\ UpdateIrq
  /\ UNCHANGED <<loop, avail, recBuf, writeRegs, fileLeft>>

WriteWR14(p, l) ==
  /\ ptr[p] = 14
  /\ ptr' = [ptr EXCEPT ![p] = 0]
  /\ loop' = [loop EXCEPT ![p] = l]
  /\ UNCHANGED <<txie, rxie, mie, avail, recBuf, pendVars, irqVars, writeRegs,
                 fileLeft>>

WriteOther(p) ==
  /\ ptr[p] \notin {0, 1, 9, 14}
  /\ ptr' = [ptr EXCEPT ![p] = 0]
  /\ UNCHANGED <<regVars, mie, avail, recBuf, pendVars, irqVars, writeRegs,
                 fileLeft>>

(* scc_cmdRead: the pointer goes back to 0.  A status read of port B with  *)
(* part of a file left sets bit 0 of WR0, where RR0 must have been meant.  *)
ReadCmd(p) ==
  /\ ptr' = [ptr EXCEPT ![p] =
       IF p = "B" /\ @ = 0 /\ fileLeft > 0 THEN 1 ELSE 0]
  /\ UNCHANGED <<regVars, mie, avail, recBuf, pendVars, irqVars, writeRegs,
                 fileLeft>>

(* Faulty: the pending bit outlives the character / both ports' bits go.   *)
DataReadKeepsPending(p) ==
  /\ avail[p]
  /\ avail' = [avail EXCEPT ![p] = FALSE]
  /\ UNCHANGED <<ptr, regVars, mie, recBuf, pendVars, irqVars, writeRegs,
                 fileLeft>>
DataReadClearsBoth(p) ==
  /\ avail[p]
  /\ avail' = [avail EXCEPT ![p] = FALSE]
  /\ rxPend' = None
  /\ UNCHANGED <<ptr, regVars, mie, recBuf, txPend, writeRegs, fileLeft>>
  /\ UpdateIrq

(* scc_dataRead hands over the character once.  Port B returns the next    *)
(* byte of a loaded file in its place, beyond the file's end as well.      *)
DataRead(p) ==
  /\ avail[p]
  /\ avail' = [avail EXCEPT ![p] = FALSE]
  /\ rxPend' = [rxPend EXCEPT ![p] = FALSE]
  /\ fileLeft' = IF p = "B" /\ ~loop[p] /\ fileLeft > 0 THEN fileLeft - 1
                                                        ELSE fileLeft
  /\ UNCHANGED <<ptr, regVars, mie, recBuf, txPend, writeRegs>>
  /\ UpdateIrq

(* scc_dataWrite.  In loopback the character c comes back, without any     *)
(* interrupt; otherwise the transmitter is empty again at once.            *)
DataWrite(p, c) ==
  /\ UNCHANGED <<ptr, regVars, mie, rxPend, writeRegs, fileLeft>>
  /\ IF loop[p]
       THEN /\ recBuf' = [recBuf EXCEPT ![p] = c]
            /\ avail' = [avail EXCEPT ![p] = TRUE]
            /\ UNCHANGED <<txPend, irqVars>>
       ELSE /\ txPend' = [txPend EXCEPT ![p] = @ \/ txie[p]]
            /\ UNCHANGED <<recBuf, avail>>
            /\ IF txie[p] THEN UpdateIrq ELSE UNCHANGED irqVars

(* The two latches of the main board that matter to the chip.  The input   *)
(* is inhibited by the bit of value 16, the fourth, though the latch that  *)
(* is named so sets the sixteenth.                                         *)
Latches == [INHPAR |-> 4, INHSER |-> 16]
SerialInhibited == 4 \in writeRegs

(***************************************************************************)
(* scc_pollStatus: got maps the channels a character came in for to the    *)
(* character.  Whether the previous one was read is not asked.             *)
(***************************************************************************)
PollStatus(got) ==
  LET D == DOMAIN got
  IN /\ ~SerialInhibited
     /\ \A p \in D : ~loop[p]
     /\ avail' = [p \in Channels |-> avail[p] \/ p \in D]
     /\ recBuf' = [p \in Channels |-> IF p \in D THEN got[p] ELSE recBuf[p]]
     /\ rxPend' = [p \in Channels |-> rxPend[p] \/ (p \in D /\ rxie[p])]
     /\ UNCHANGED <<ptr, regVars, mie, txPend, writeRegs, fileLeft>>
     /\ IF \E p \in D : rxie[p] THEN UpdateIrq ELSE UNCHANGED irqVars

(***************************************************************************)
(* cmb_write_byte, cmb_write_word: v is whether the value is not zero.     *)
(* cmb_setWriteRegs takes the latch's name for the number of a bit.  The   *)
(* other latches set or clear bits nothing looks at: 1, 2 and 8, and for   *)
(* the two names beyond the width of an int whatever the shift yields, the *)
(* bit 0 or none.                                                          *)
(***************************************************************************)
WriteLatch(l, v) ==
  /\ writeRegs' = IF v THEN writeRegs \cup {Latches[l]}
                       ELSE writeRegs \ {Latches[l]}
  /\ UNCHANGED <<ptr, regVars, mie, avail, recBuf, pendVars, irqVars,
                 fileLeft>>

(* "scc file" of the debugger: n is 0 if the file cannot be loaded.        *)
LoadFile(n) ==
  /\ fileLeft' = n
  /\ UNCHANGED <<ptr, regVars, mie, avail, recBuf, pendVars, irqVars,
                 writeRegs>>

(* "rese" of the debugger, the latches (cmb_pulse_reset) and then the chip  *)
(* (scc_pulse_reset): the line goes down, `asserted' keeps its value.      *)
PulseReset ==
  /\ ptr' = [c \in Channels |-> 0]
  /\ txie' = None /\ rxie' = None /\ loop' = None
  /\ mie' = FALSE
  /\ avail' = None
  /\ recBuf' = [c \in Channels |-> NoChar]
  /\ txPend' = None /\ rxPend' = None
  /\ line' = FALSE
  /\ writeRegs' = {}
  /\ UNCHANGED <<asserted, fileLeft>>

-----------------------------------------------------------------------------
HostAccess ==
  \E p \in Channels :
    \/ \E r \in Regs, cmd \in Commands : SelectReg(p, r, cmd)
    \/ \E tx, rx \in BOOLEAN : WriteWR1(p, tx, rx)
    \/ \E m \in BOOLEAN, R \in SUBSET Channels : WriteWR9(p, m, R)
    \/ \E l \in BOOLEAN : WriteWR14(p, l)
    \/ WriteOther(p)
    \/ ReadCmd(p)
    \/ DataRead(p)
    \/ \E c \in Chars : DataWrite(p, c)

Poll == \E D \in SUBSET Channels : \E got \in [D -> Chars] : PollStatus(got)

Next ==
  \/ HostAccess
  \/ Poll
  \/ \E l \in DOMAIN Latches, v \in BOOLEAN : WriteLatch(l, v)
  \/ \E n \in 0 .. MaxFile : LoadFile(n)
  \/ PulseReset

Spec == Init /\ [][Next]_vars

-----------------------------------------------------------------------------
(* "it does not drive /INT at all while bit 3, the master interrupt enable, *)
(* is clear": the line is up exactly while the chip is enabled and some     *)
(* source is pending, although scc_update_irq compares with a static that a *)
(* reset leaves behind.                                                     *)
LineIsWanted == line <=> Wanted

(* The static differs from the line only after a reset, and then nothing   *)
(* can be wanted before scc_update_irq has run once and repaired it.       *)
StaleIsHarmless ==
  asserted # line => ~mie /\ \A c \in Channels : ~txPend[c] /\ ~rxPend[c]

(* A receive interrupt is pending only while there is a character to read: *)
(* its handler never finds the receiver empty.                             *)
PendingHasCharacter == \A c \in Channels : rxPend[c] => avail[c]

IInv == TypeOK /\ LineIsWanted /\ StaleIsHarmless /\ PendingHasCharacter
=============================================================================

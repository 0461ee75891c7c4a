--------------------------------- MODULE Wd ---------------------------------
(***************************************************************************)
(* The Winchester disk controller (src/src/wd.c): the SASI phase ladder of *)
(* the one installed controller, over the interrupts of WdIrq.             *)
(*                                                                         *)
(* The CPU's register accesses and the calls of wd_processContinue happen  *)
(* in any order; everything the controller does by itself, it does in such *)
(* a call, when one of its counters has run down.  The registers are a     *)
(* record, wd; what a function of wd.c does to them is an operator.        *)
(*                                                                         *)
(* Abstracted: of a command block only the operation code and the unit are *)
(* kept; the data are counted but not kept, DataLen bytes either way, and a *)
(* command that can have no data at all is issued with some; what           *)
(* a transfer to an image or by DMA meets is chosen by `Results', and the  *)
(* sense bytes say only whether there is anything to report.  Units that   *)
(* the controller does not have, which index behind its unit array, are    *)
(* not addressed.                                                          *)
(***************************************************************************)
EXTENDS WdIrq

CONSTANTS
  PhaseCount, CmdCount,  (* WD_PHASE_COUNT, WD_CMD_COUNT                   *)
  ShortCdb, LongCdb,     (* bytes of a class 0 and a class 1 command, 6, 10 *)
  DataLen,               (* bytes of a transfer that goes byte by byte     *)
  BufMax,                (* WD_SCSICMD_MAX                                 *)
  Attached,              (* the units that have an image to begin with     *)
  Opcodes                (* the commands issued, a subset of AllOpcodes    *)

NoData   == {"TESTREADY", "REZEROUNIT", "SEEK", "STARTSTOP", "VERIFY"}
Reads    == {"READ", "READ2"}
Writes   == {"WRITE", "WRITE2", "WRITEVERIFY"}
Class1   == {"READCAPACITY", "READ2", "WRITE2", "WRITEVERIFY", "VERIFY"}
AllOpcodes == NoData \cup Reads \cup Writes \cup Class1 \cup
  {"REQUESTSENSE", "SENDDIAG", "RECDIAG", "MODESENSE", "MODESELECT",
   "FORMAT", "WRITEBUF", "READBUFRAM", "TRANSLATE", "UNKNOWN", "CLASS2"}

ASSUME WdAssumption ==
  /\ PhaseCount \in Nat \ {0} /\ CmdCount \in Nat \ {0}
  /\ ShortCdb \in Nat \ {0, 1} /\ LongCdb \in Nat \ {0, 1}
  /\ DataLen \in Nat \ {0} /\ BufMax \in Nat
  /\ Attached \subseteq Units /\ Opcodes \subseteq AllOpcodes

VARIABLE wd

vars == <<wd, irq>>

StatusBits == {"SCMD", "SBUSY", "SMSG", "SRESET", "INPFULL", "OPCOMP",
               "OUTEMPTY", "BUSERR"}
CtlBits    == {"SRST", "INTEN", "SEQEN", "INTEND0", "INTEND1"}
ScsiStates == {"IDLE", "MESSAGE", "COMPLETE", "READRESULTS", "STATUS",
               "MESSAGEBYTE"}
WdCommands == {"RESET", "RESET_OUTREGFULL", "PROCESS_SCSICMD", "SET_INPFULL"}

(* The values of the status register that the driver tests for.            *)
Selected42 == {"SCMD", "SBUSY", "OUTEMPTY"}                       \* 0xc2
DataIn48   == {"SBUSY", "INPFULL"}                                \* 0x48
StatusCC   == {"SCMD", "SBUSY", "OPCOMP", "INPFULL"}              \* 0xcc
MessageE8  == {"SCMD", "SMSG", "SBUSY", "INPFULL"}                \* 0xe8

WdType ==
  [status : SUBSET StatusBits, ctl : SUBSET CtlBits, selected : BOOLEAN,
   state : ScsiStates, stateCounter : 0 .. PhaseCount,
   command : WdCommands, cmdCounter : 0 .. 2 * CmdCount,
   scsiIdx : 0 .. BufMax, dataIdx : Nat,
   opcode : AllOpcodes, unit : Units,      \* scsiBuf[0] and scsiBuf[1]
   replyLeft : 0 .. DataLen,
   check : BOOLEAN,                        \* statusByte is 2
   sense : BOOLEAN,                        \* sense[0] is not 0
   lastSeek : SUBSET Units,                \* lastScsiCmd is SCSI_SEEK
   images : SUBSET Units]                  \* an image is attached

(* The units keep what they have through a reset, the registers do not.    *)
ResetRegs(lastSeek, images) ==
  [status |-> Selected42, ctl |-> {}, selected |-> FALSE,
   state |-> "IDLE", stateCounter |-> 0,
   command |-> "RESET", cmdCounter |-> 0, scsiIdx |-> 0, dataIdx |-> 0,
   opcode |-> "TESTREADY", unit |-> 0, replyLeft |-> 0,
   check |-> FALSE, sense |-> FALSE,
   lastSeek |-> lastSeek, images |-> images]

Init == IrqInit /\ wd = ResetRegs({}, Attached)

-----------------------------------------------------------------------------
(* What the drive and the DMA engine may answer to the command in scsiBuf. *)
DmaOn(w) == "SEQEN" \in w.ctl

Results(w) ==
  LET dma == IF DmaOn(w) THEN {"dma"} ELSE {}
      op  == w.opcode
  IN IF w.unit \notin w.images /\ op # "REQUESTSENSE" THEN {"notready"}
     ELSE IF op = "UNKNOWN" \/ (op \in Writes /\ ~DmaOn(w)) THEN {"invalid"}
     ELSE IF op \in {"WRITEBUF", "MODESELECT"} /\ ~DmaOn(w) /\ w.dataIdx # DataLen
       THEN {"argument"}
     ELSE {"ok"}
          \cup (IF op \notin NoData THEN dma ELSE {})
          \cup (IF op \in Reads \cup Writes THEN {"image"} ELSE {})
          \cup (IF op = "MODESELECT" \/ (op \in Reads /\ ~DmaOn(w))
                THEN {"argument"} ELSE {})
          \cup (IF op = "FORMAT" THEN {"argument", "readonly", "gone", "image"}
                                 ELSE {})

(* The bytes that a command that went well returns one by one.             *)
Reply(w) ==
  IF \/ DmaOn(w) /\ w.opcode = "READCAPACITY"
     \/ ~DmaOn(w) /\ w.opcode \in Reads \cup {"REQUESTSENSE", "MODESENSE",
                                              "READBUFRAM", "TRANSLATE"}
    THEN DataLen ELSE 0

(* A format whose writing fails goes on to clear the sense bytes.          *)
SenseAfter(w, r) ==
  IF r # "ok" THEN ~(w.opcode = "FORMAT" /\ r = "image")
  ELSE w.sense /\ w.opcode \notin NoData \cup
         {"REQUESTSENSE", "SENDDIAG", "FORMAT", "WRITEBUF", "READBUFRAM",
          "TRANSLATE"}

(* Where DMA has brought the data, they count as arrived.                  *)
DataIdxAfter(w, r) ==
  IF /\ DmaOn(w)
     /\ \/ w.opcode = "FORMAT" /\ r \in {"ok", "readonly", "gone", "image"}
        \/ w.opcode = "WRITEBUF" /\ r = "ok"
    THEN DataLen ELSE w.dataIdx

(* The command, which starts the phases that follow it.                    *)
ExecuteKeepsCheck(w, r) ==    \* faulty: the check condition of the last one
  [w EXCEPT
    !.check = @ \/ r # "ok", !.sense = SenseAfter(w, r),
    !.replyLeft = IF r = "ok" THEN Reply(w) ELSE 0,
    !.dataIdx = DataIdxAfter(w, r),
    !.status = IF r = "dma" THEN @ \cup {"BUSERR"} ELSE @,
    !.lastSeek = IF w.opcode = "SEEK" THEN @ \cup {w.unit} ELSE @ \ {w.unit},
    !.images = IF r = "gone" THEN @ \ {w.unit} ELSE @,
    !.state = "COMPLETE", !.stateCounter = PhaseCount]
Execute(w, r) ==
  [w EXCEPT
    !.check = r # "ok", !.sense = SenseAfter(w, r),
    !.replyLeft = IF r = "ok" THEN Reply(w) ELSE 0,
    !.dataIdx = DataIdxAfter(w, r),
    !.status = IF r = "dma" THEN @ \cup {"BUSERR"} ELSE @,
    !.lastSeek = IF w.opcode = "SEEK" THEN @ \cup {w.unit} ELSE @ \ {w.unit},
    !.images = IF r = "gone" THEN @ \ {w.unit} ELSE @,
    !.state = "COMPLETE", !.stateCounter = PhaseCount]

EnterStatus(w) ==
  [w EXCEPT !.replyLeft = 1, !.status = StatusCC, !.state = "STATUS"]

(* processScsiNextPhase, one phase per call.                               *)
NextPhase(w, r) ==
  CASE w.state = "IDLE" -> w
    [] w.state = "MESSAGE" ->
         IF w.opcode = "CLASS2" THEN EnterStatus(w) ELSE Execute(w, r)
    [] w.state = "COMPLETE" ->
         IF w.replyLeft = 0 THEN EnterStatus(w)
         ELSE [w EXCEPT !.status = DataIn48, !.state = "READRESULTS"]
    [] w.state = "READRESULTS" -> EnterStatus(w)
    [] w.state = "STATUS" ->
         [w EXCEPT !.replyLeft = 0, !.status = MessageE8,
                   !.state = "MESSAGEBYTE"]
    [] w.state = "MESSAGEBYTE" ->
         [w EXCEPT !.status = {}, !.state = "IDLE", !.selected = FALSE]

-----------------------------------------------------------------------------
(* numNonDmaBytesToBeTransferedFromHost.  It masks the operation code to   *)
(* five bits, which makes WRITE2 a WRITE and WRITEVERIFY nothing it knows. *)
FromHost(w) ==
  IF ~DmaOn(w) /\ w.opcode \in {"FORMAT", "WRITE", "WRITE2", "WRITEBUF",
                                "MODESELECT", "SENDDIAG"}
    THEN DataLen ELSE 0

CdbLen(w) == IF w.opcode \in Class1 THEN LongCdb ELSE ShortCdb

ToMessage(w) ==
  [w EXCEPT !.state = "MESSAGE", !.status = @ \cup {"SMSG"},
            !.stateCounter = PhaseCount]

(* processScsiCommand, called with RESET_OUTREGFULL to come next: a byte   *)
(* has arrived that completes the command block, or follows it as data, or *)
(* neither.                                                                *)
ProcessScsiCommand(w) ==
  IF w.scsiIdx < ShortCdb \/ w.opcode = "CLASS2" \/ w.scsiIdx < CdbLen(w)
    THEN w
  ELSE IF w.scsiIdx = CdbLen(w)
    THEN IF FromHost(w) = 0 THEN ToMessage(w)
         ELSE [w EXCEPT !.cmdCounter = 2 * CmdCount, !.status = @ \ {"SCMD"}]
  ELSE IF FromHost(w) = w.dataIdx THEN ToMessage(w)
  ELSE IF FromHost(w) = w.dataIdx + 1
    THEN ToMessage([w EXCEPT !.dataIdx = @ + 1])
  ELSE [w EXCEPT !.dataIdx = @ + 1]

(* processCommand.                                                         *)
ProcessCommand(w, r) ==
  CASE w.command = "RESET" -> [w EXCEPT !.status = {}]
    [] w.command = "RESET_OUTREGFULL" ->
         [w EXCEPT !.status = @ \cup {"OUTEMPTY"}]
    [] w.command = "PROCESS_SCSICMD" ->
         ProcessScsiCommand([w EXCEPT !.command = "RESET_OUTREGFULL",
                                      !.cmdCounter = CmdCount])
    [] w.command = "SET_INPFULL" ->
         IF w.replyLeft # 0 THEN [w EXCEPT !.status = @ \cup {"INPFULL"}]
         ELSE IF w.state \in {"COMPLETE", "READRESULTS", "STATUS",
                              "MESSAGEBYTE"}
           THEN NextPhase(w, r)
         ELSE w

(***************************************************************************)
(* wd_processContinue: both counters of the controller, then the counter   *)
(* of the interrupts.  The status phase is entered at most once in a call, *)
(* and that is what flags the interrupts.                                  *)
(***************************************************************************)
PhaseStep(w, r) ==
  LET d == [w EXCEPT !.stateCounter = @ - 1]
  IN IF w.stateCounter = 0 THEN w
     ELSE IF d.stateCounter = 0 THEN NextPhase(d, r) ELSE d

CommandStep(w, r) ==
  LET d == [w EXCEPT !.cmdCounter = @ - 1]
  IN IF w.cmdCounter = 0 THEN w
     ELSE IF d.cmdCounter = 0 THEN ProcessCommand(d, r) ELSE d

SeekDone(w) ==
  w.unit \in w.lastSeek /\ (IF w.unit = 0 THEN "INTEND0" ELSE "INTEND1") \in w.ctl

StatusEntered(v, w) == w.state = "STATUS" /\ v.state # "STATUS"
Announce(w) == Flagged(irq, w.unit, "INTEN" \in w.ctl, SeekDone(w))

Continue(r) ==
  LET p == PhaseStep(wd, r)
      w == CommandStep(p, r)
  IN /\ r \in Results(wd)
     /\ wd' = w
     /\ irq' = Ticked(IF StatusEntered(wd, p) THEN Announce(p)
                      ELSE IF StatusEntered(p, w) THEN Announce(w)
                      ELSE irq)

-----------------------------------------------------------------------------
(* What a read of the status register shows.                               *)
StatusRead ==
  IF "SRST" \in wd.ctl THEN {"SRESET"} \cup (wd.status \cap {"BUSERR"})
  ELSE wd.status

(* A read of the input register: the next byte of the reply, or the        *)
(* message byte, which is not counted.                                     *)
Handed(w) ==
  [w EXCEPT !.status = @ \ {"INPFULL"}, !.cmdCounter = CmdCount,
            !.stateCounter = 0, !.command = "SET_INPFULL"]
ReadInpKeepsCounter(w) ==    \* faulty: what the read should start is not
  LET v == [w EXCEPT !.scsiIdx = 0, !.dataIdx = 0]
  IN IF v.replyLeft # 0
       THEN [v EXCEPT !.replyLeft = @ - 1, !.status = @ \ {"INPFULL"}]
     ELSE IF v.state = "MESSAGEBYTE" THEN Handed(v) ELSE v
ReadInpOf(w) ==
  LET v == [w EXCEPT !.scsiIdx = 0, !.dataIdx = 0]
  IN IF v.replyLeft # 0 THEN Handed([v EXCEPT !.replyLeft = @ - 1])
     ELSE IF v.state = "MESSAGEBYTE" THEN Handed(v) ELSE v
ReadInp ==
  /\ wd.selected
  /\ wd' = ReadInpOf(wd)
  /\ UNCHANGED irq

(* A write to the control register.  SRST resets the controller but does   *)
(* not stop stateCounter.                                                  *)
SoftResetKeepsState(w) ==    \* faulty: a phase that was due still comes
  [w EXCEPT !.cmdCounter = CmdCount, !.command = "RESET", !.replyLeft = 0,
            !.scsiIdx = 0, !.dataIdx = 0, !.selected = FALSE]
SoftReset(w) ==
  [w EXCEPT !.cmdCounter = CmdCount, !.command = "RESET", !.replyLeft = 0,
            !.scsiIdx = 0, !.dataIdx = 0, !.selected = FALSE,
            !.state = "IDLE"]
WriteCtl2Disables(v) ==    \* faulty: without INTEN the line drops
  /\ wd' = [IF "SRST" \in v THEN SoftReset(wd) ELSE wd EXCEPT !.ctl = v]
  /\ irq' = IF "SRST" \in v THEN Cleared(irq)
            ELSE [irq EXCEPT !.line = @ /\ "INTEN" \in v]
WriteCtl2(v) ==
  LET reset  == "SRST" \in v
      busErr == "INTEN" \in v \ wd.ctl /\ "BUSERR" \in wd.status
      q      == IF reset THEN Cleared(irq) ELSE irq
  IN /\ wd' = [IF reset THEN SoftReset(wd) ELSE wd EXCEPT !.ctl = v]
     /\ irq' = IF busErr THEN BusErrInt(q) ELSE q

(* A write to the output register, a byte for the selected drive.          *)
HostWrite(op, u) ==
  /\ wd.selected
  /\ wd.scsiIdx < BufMax
  /\ wd' = [wd EXCEPT
       !.opcode = IF wd.scsiIdx = 0 THEN op ELSE @,
       !.unit = IF wd.scsiIdx = 1 THEN u ELSE @,
       !.scsiIdx = @ + 1, !.cmdCounter = CmdCount,
       !.command = "PROCESS_SCSICMD", !.status = @ \ {"OUTEMPTY"}]
  /\ UNCHANGED irq

(* The same on a free bus with DMA on reads a word of memory, which may    *)
(* not be there.                                                           *)
DmaTest ==
  /\ ~wd.selected /\ DmaOn(wd)
  /\ wd' = [wd EXCEPT !.status = @ \cup {"BUSERR"}]
  /\ UNCHANGED irq

(* A write to the select register, which leaves the state as it is.        *)
Select(on) ==
  /\ wd' = [wd EXCEPT !.selected = on, !.scsiIdx = 0, !.dataIdx = 0,
                      !.status = Selected42, !.cmdCounter = 0]
  /\ UNCHANGED irq

ClearBusErr ==
  /\ wd' = [wd EXCEPT !.status = @ \ {"BUSERR"}]
  /\ UNCHANGED irq

WdIrqAck == IrqAck /\ UNCHANGED wd

(* The debugger's commands that attach and detach an image, and its reset. *)
AttachImage(u, there) ==
  /\ wd' = [wd EXCEPT !.images = IF there THEN @ \cup {u} ELSE @ \ {u}]
  /\ UNCHANGED irq
PulseReset ==
  /\ irq' = Cleared(irq)
  /\ wd' = ResetRegs(wd.lastSeek, wd.images)

-----------------------------------------------------------------------------
Next ==
  \/ \E r \in Results(wd) : Continue(r)
  \/ ReadInp
  \/ \E v \in SUBSET CtlBits : WriteCtl2(v)
  \/ \E op \in Opcodes, u \in Units : HostWrite(op, u)
  \/ DmaTest
  \/ \E on \in BOOLEAN : Select(on)
  \/ ClearBusErr
  \/ WdIrqAck
  \/ \E u \in Units, there \in BOOLEAN : AttachImage(u, there)
  \/ PulseReset

Spec == Init /\ [][Next]_vars

TypeOK == wd \in WdType /\ irq \in IrqType
=============================================================================

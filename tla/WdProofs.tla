------------------------------ MODULE WdProofs ------------------------------
(***************************************************************************)
(* Proofs about the Winchester controller: that its interrupt flags, its   *)
(* counter and the line stay in step for every value of the counts, and    *)
(* that the phase ladder, under any sequence of register accesses, uses    *)
(* them in no other way than WdIrq allows, and that the driver of WdHost   *)
(* has each command run once, learns how it ended and is woken up.         *)
(***************************************************************************)
EXTENDS WdHost, TLAPS

(* What IrqInv says of the record.                                         *)
GoodIrq(q) ==
  /\ q \in IrqType
  /\ q.line = q.asserted
  /\ q.line => q.busErr \/ q.complete \cup q.seek # {}
  /\ q.complete \cup q.seek # {} => q.counter # 0
  /\ q.busErr => q.line

LEMMA GoodIsInv == GoodIrq(irq) <=> IrqInv
BY DEF GoodIrq, IrqInv, NeverSpurious, StaysArmed, BusErrorOnLine, Announced

LEMMA LeastIn ==
  ASSUME NEW S \in SUBSET Units, S # {}
  PROVE  Least(S) \in S
BY DEF Least, Units

LEMMA ClearedGood ==
  ASSUME NEW q, GoodIrq(q)
  PROVE  GoodIrq(Cleared(q))
BY DEF GoodIrq, Cleared, UpdateIrq, IrqType

LEMMA BusErrIntGood ==
  ASSUME NEW q, GoodIrq(q)
  PROVE  GoodIrq(BusErrInt(q))
BY DEF GoodIrq, BusErrInt, UpdateIrq, IrqType

LEMMA FlaggedGood ==
  ASSUME NEW q, GoodIrq(q), NEW u \in Units,
         NEW inten \in BOOLEAN, NEW seekDone \in BOOLEAN
  PROVE  GoodIrq(Flagged(q, u, inten, seekDone))
BY IrqAssumption DEF GoodIrq, Flagged, IrqType

LEMMA TickedGood ==
  ASSUME NEW q, GoodIrq(q)
  PROVE  GoodIrq(Ticked(q))
<1> DEFINE r == [q EXCEPT !.counter = @ - 1]
<1>1. CASE q.counter = 0
  BY <1>1 DEF Ticked
<1>2. CASE q.counter # 0 /\ r.counter # 0
  <2>1. Ticked(q) = r
    BY <1>2 DEF Ticked
  <2> QED
    BY <1>2, <2>1 DEF GoodIrq, IrqType
<1>3. CASE q.counter # 0 /\ r.counter = 0
  <2>1. Ticked(q) = ProcessPendingInterrupts(r)
    BY <1>3 DEF Ticked
  <2>2. r \in IrqType /\ r.line = q.line /\ r.asserted = q.asserted
        /\ r.busErr = q.busErr /\ r.complete = q.complete /\ r.seek = q.seek
    BY <1>3 DEF GoodIrq, IrqType
  <2> HIDE DEF r
  <2>3. GoodIrq(ProcessPendingInterrupts(r))
    BY <2>2, IrqAssumption
       DEF GoodIrq, ProcessPendingInterrupts, UpdateIrq, IrqType
  <2> QED
    BY <2>1, <2>3
<1> QED
  BY <1>1, <1>2, <1>3

(* An acknowledge is only taken while the line is up.                      *)
LEMMA AckedGood ==
  ASSUME NEW q, GoodIrq(q), q.line
  PROVE  GoodIrq(Acked(q))
<1>1. q.complete \in SUBSET Units /\ q.seek \in SUBSET Units
  BY DEF GoodIrq, IrqType
<1> QED
  BY <1>1 DEF GoodIrq, Acked, UpdateIrq, IrqType

(* The interrupt side keeps its invariant, whoever ends commands, writes   *)
(* the control register and takes the interrupts, and whatever the counts. *)
THEOREM IrqInvariant == IrqSpec => []IrqInv
<1>1. IrqInit => IrqInv
  BY DEF IrqInit, IrqInv, IrqType, NeverSpurious, StaysArmed, BusErrorOnLine,
         Announced
<1>2. IrqInv /\ [IrqNext]_irq => IrqInv'
  <2> SUFFICES ASSUME GoodIrq(irq), [IrqNext]_irq
               PROVE  GoodIrq(irq')
    BY GoodIsInv
       DEF GoodIrq, IrqInv, NeverSpurious, StaysArmed, BusErrorOnLine, Announced
  <2>1. CASE IrqTick
    BY <2>1, TickedGood DEF IrqTick
  <2>2. CASE IrqCommandEnds
    <3>1. PICK u \in Units, inten \in BOOLEAN, seekDone \in BOOLEAN :
            irq' = Ticked(Flagged(irq, u, inten, seekDone))
      BY <2>2 DEF IrqCommandEnds
    <3> QED
      BY <3>1, FlaggedGood, TickedGood
  <2>3. CASE IrqControl
    BY <2>3, ClearedGood, BusErrIntGood DEF IrqControl
  <2>4. CASE IrqAck
    BY <2>4, AckedGood DEF IrqAck
  <2>5. CASE UNCHANGED irq
    BY <2>5
  <2> QED
    BY <2>1, <2>2, <2>3, <2>4, <2>5 DEF IrqNext
<1> QED
  BY <1>1, <1>2, PTL DEF IrqSpec

-----------------------------------------------------------------------------
(* The registers keep their types in every operator of the ladder.         *)
LEMMA Counts ==
  /\ PhaseCount \in 0 .. PhaseCount
  /\ CmdCount \in 0 .. 2 * CmdCount
  /\ 2 * CmdCount \in 0 .. 2 * CmdCount
  /\ 0 \in 0 .. 2 * CmdCount
  /\ 0 \in 0 .. PhaseCount
  /\ 0 \in 0 .. DataLen /\ 1 \in 0 .. DataLen /\ DataLen \in 0 .. DataLen
BY WdAssumption

LEMMA ExecutedType ==
  ASSUME NEW w \in WdType, NEW check \in BOOLEAN, NEW sense \in BOOLEAN,
         NEW reply \in 0 .. DataLen, NEW status \in SUBSET StatusBits,
         NEW seeks \in SUBSET Units, NEW images \in SUBSET Units, NEW idx \in Nat
  PROVE  [w EXCEPT !.check = check, !.sense = sense, !.replyLeft = reply,
                   !.dataIdx = idx, !.status = status, !.lastSeek = seeks,
                   !.images = images, !.state = "COMPLETE",
                   !.stateCounter = PhaseCount] \in WdType
<1>1. "COMPLETE" \in ScsiStates
  BY DEF ScsiStates
<1> QED
  BY <1>1, Counts DEF WdType

LEMMA ExecuteType ==
  ASSUME NEW w \in WdType, NEW r
  PROVE  Execute(w, r) \in WdType
<1> DEFINE check  == r # "ok"
           sense  == SenseAfter(w, r)
           reply  == IF r = "ok" THEN Reply(w) ELSE 0
           idx    == DataIdxAfter(w, r)
           status == IF r = "dma" THEN w.status \cup {"BUSERR"} ELSE w.status
           seeks  == IF w.opcode = "SEEK" THEN w.lastSeek \cup {w.unit}
                     ELSE w.lastSeek \ {w.unit}
           images == IF r = "gone" THEN w.images \ {w.unit} ELSE w.images
<1>1. check \in BOOLEAN
  OBVIOUS
<1>2. sense \in BOOLEAN
  <2>1. w.sense \in BOOLEAN
    BY DEF WdType
  <2> QED
    BY <2>1, Zenon DEF SenseAfter
<1>3. reply \in 0 .. DataLen
  BY WdAssumption DEF Reply
<1>4. status \in SUBSET StatusBits
  BY DEF WdType, StatusBits
<1>5. seeks \in SUBSET Units
  BY DEF WdType
<1>6. images \in SUBSET Units
  BY DEF WdType
<1>7. idx \in Nat
  BY WdAssumption DEF DataIdxAfter, WdType
<1>8. Execute(w, r) =
        [w EXCEPT !.check = check, !.sense = sense, !.replyLeft = reply,
                  !.dataIdx = idx, !.status = status, !.lastSeek = seeks,
                  !.images = images, !.state = "COMPLETE",
                  !.stateCounter = PhaseCount]
  BY Zenon DEF Execute
<1> HIDE DEF check, sense, reply, idx, status, seeks, images
<1>9. [w EXCEPT !.check = check, !.sense = sense, !.replyLeft = reply,
                !.dataIdx = idx, !.status = status, !.lastSeek = seeks,
                !.images = images, !.state = "COMPLETE",
                !.stateCounter = PhaseCount] \in WdType
  BY <1>1, <1>2, <1>3, <1>4, <1>5, <1>6, <1>7, ExecutedType, ZenonT(30)
<1> QED
  BY <1>8, <1>9, Zenon

LEMMA EnterStatusType ==
  ASSUME NEW w \in WdType
  PROVE  EnterStatus(w) \in WdType
<1>1. StatusCC \in SUBSET StatusBits /\ "STATUS" \in ScsiStates
  BY DEF StatusCC, StatusBits, ScsiStates
<1> QED
  BY <1>1, Counts DEF EnterStatus, WdType

LEMMA NextPhaseType ==
  ASSUME NEW w \in WdType, NEW r
  PROVE  NextPhase(w, r) \in WdType
<1>1. w.state \in ScsiStates
  BY DEF WdType
<1>2. [w EXCEPT !.status = DataIn48, !.state = "READRESULTS"] \in WdType
  BY DEF WdType, StatusBits, DataIn48, ScsiStates
<1>3. [w EXCEPT !.replyLeft = 0, !.status = MessageE8,
                !.state = "MESSAGEBYTE"] \in WdType
  <2>1. MessageE8 \in SUBSET StatusBits /\ "MESSAGEBYTE" \in ScsiStates
    BY DEF MessageE8, StatusBits, ScsiStates
  <2> QED
    BY <2>1, Counts DEF WdType
<1>4. [w EXCEPT !.status = {}, !.state = "IDLE", !.selected = FALSE] \in WdType
  BY DEF WdType, StatusBits, ScsiStates
<1> QED
  BY <1>1, <1>2, <1>3, <1>4, ExecuteType, EnterStatusType
     DEF NextPhase, ScsiStates

LEMMA ToMessageType ==
  ASSUME NEW w \in WdType
  PROVE  ToMessage(w) \in WdType
<1>1. w.status \cup {"SMSG"} \in SUBSET StatusBits /\ "MESSAGE" \in ScsiStates
  BY DEF WdType, StatusBits, ScsiStates
<1> QED
  BY <1>1, Counts DEF ToMessage, WdType

LEMMA ProcessScsiCommandType ==
  ASSUME NEW w \in WdType
  PROVE  ProcessScsiCommand(w) \in WdType
<1>1. [w EXCEPT !.cmdCounter = 2 * CmdCount, !.status = @ \ {"SCMD"}] \in WdType
  BY Counts DEF WdType
<1>2. [w EXCEPT !.dataIdx = @ + 1] \in WdType
  BY DEF WdType
<1> QED
  BY <1>1, <1>2, ToMessageType DEF ProcessScsiCommand

LEMMA ProcessCommandType ==
  ASSUME NEW w \in WdType, NEW r
  PROVE  ProcessCommand(w, r) \in WdType
<1>1. w.command \in WdCommands
  BY DEF WdType
<1>2. [w EXCEPT !.status = {}] \in WdType
  BY DEF WdType
<1>3. [w EXCEPT !.status = @ \cup {"OUTEMPTY"}] \in WdType
  BY DEF WdType, StatusBits
<1>4. [w EXCEPT !.status = @ \cup {"INPFULL"}] \in WdType
  BY DEF WdType, StatusBits
<1>5. [w EXCEPT !.command = "RESET_OUTREGFULL", !.cmdCounter = CmdCount]
        \in WdType
  BY Counts DEF WdType, WdCommands
<1> QED
  BY <1>1, <1>2, <1>3, <1>4, <1>5, NextPhaseType, ProcessScsiCommandType
     DEF ProcessCommand, WdCommands

LEMMA StepsType ==
  ASSUME NEW w \in WdType, NEW r
  PROVE  PhaseStep(w, r) \in WdType /\ CommandStep(w, r) \in WdType
<1>1. ASSUME w.stateCounter # 0
      PROVE  [w EXCEPT !.stateCounter = @ - 1] \in WdType
  BY <1>1, WdAssumption DEF WdType
<1>2. ASSUME w.cmdCounter # 0
      PROVE  [w EXCEPT !.cmdCounter = @ - 1] \in WdType
  BY <1>2, WdAssumption DEF WdType
<1> QED
  BY <1>1, <1>2, NextPhaseType, ProcessCommandType DEF PhaseStep, CommandStep

LEMMA ResetRegsType ==
  ASSUME NEW seeks \in SUBSET Units, NEW images \in SUBSET Units
  PROVE  ResetRegs(seeks, images) \in WdType
<1>1. Selected42 \in SUBSET StatusBits /\ "IDLE" \in ScsiStates
      /\ "RESET" \in WdCommands /\ "TESTREADY" \in AllOpcodes /\ 0 \in Units
  BY DEF Selected42, StatusBits, ScsiStates, WdCommands, AllOpcodes, NoData, Units
<1>2. 0 \in 0 .. BufMax /\ 0 \in Nat
  BY WdAssumption
<1> QED
  BY <1>1, <1>2, Counts DEF ResetRegs, WdType

LEMMA ReadInpType ==
  ASSUME NEW w \in WdType
  PROVE  ReadInpOf(w) \in WdType
<1> DEFINE v == [w EXCEPT !.scsiIdx = 0, !.dataIdx = 0]
<1>1. v \in WdType
  <2>1. 0 \in 0 .. BufMax /\ 0 \in Nat
    BY WdAssumption
  <2> QED
    BY <2>1 DEF WdType
<1>2. ASSUME NEW x \in WdType, x.replyLeft # 0
      PROVE  [x EXCEPT !.replyLeft = @ - 1] \in WdType
  <2>1. x.replyLeft - 1 \in 0 .. DataLen
    BY <1>2, WdAssumption DEF WdType
  <2> QED
    BY <2>1 DEF WdType
<1>3. ASSUME NEW x \in WdType
      PROVE  Handed(x) \in WdType
  <2>1. "SET_INPFULL" \in WdCommands
    BY DEF WdCommands
  <2> QED
    BY <2>1, Counts DEF Handed, WdType
<1>4. ReadInpOf(w) =
        IF v.replyLeft # 0 THEN Handed([v EXCEPT !.replyLeft = @ - 1])
        ELSE IF v.state = "MESSAGEBYTE" THEN Handed(v) ELSE v
  BY DEF ReadInpOf
<1> HIDE DEF v
<1> QED
  BY <1>1, <1>2, <1>3, <1>4

LEMMA SoftResetType ==
  ASSUME NEW w \in WdType
  PROVE  SoftReset(w) \in WdType
<1>1. "RESET" \in WdCommands /\ "IDLE" \in ScsiStates /\ 0 \in 0 .. BufMax
  BY WdAssumption DEF WdCommands, ScsiStates
<1> QED
  BY <1>1, Counts DEF SoftReset, WdType

(* The type of the registers, as a predicate of the state.                 *)
Registers == wd \in WdType

(* No register access, counter or command takes a register out of its      *)
(* range, whatever the counts and lengths: no counter is ever counted down *)
(* from zero, and the reply never has fewer than no bytes left.            *)
THEOREM RegistersTyped == Spec => []Registers
<1>1. Init => Registers
  <2>1. {} \in SUBSET Units /\ Attached \in SUBSET Units
    BY WdAssumption
  <2> QED
    BY <2>1, ResetRegsType DEF Init, Registers
<1>2. Registers /\ [Next]_vars => Registers'
  <2> SUFFICES ASSUME wd \in WdType, [Next]_vars
               PROVE  wd' \in WdType
    BY DEF Registers
  <2>1. ASSUME NEW r \in Results(wd), Continue(r)
        PROVE  wd' \in WdType
    <3>1. PhaseStep(wd, r) \in WdType
      BY StepsType
    <3>2. CommandStep(PhaseStep(wd, r), r) \in WdType
      BY <3>1, StepsType
    <3> QED
      BY <2>1, <3>2 DEF Continue
  <2>2. CASE ReadInp
    BY <2>2, ReadInpType DEF ReadInp
  <2>3. ASSUME NEW v \in SUBSET CtlBits, WriteCtl2(v)
        PROVE  wd' \in WdType
    <3> DEFINE w == IF "SRST" \in v THEN SoftReset(wd) ELSE wd
    <3>1. w \in WdType
      BY SoftResetType
    <3>2. wd' = [w EXCEPT !.ctl = v]
      BY <2>3 DEF WriteCtl2
    <3> HIDE DEF w
    <3> QED
      BY <3>1, <3>2 DEF WdType
  <2>4. ASSUME NEW op \in Opcodes, NEW u \in Units, HostWrite(op, u)
        PROVE  wd' \in WdType
    <3>1. op \in AllOpcodes /\ "PROCESS_SCSICMD" \in WdCommands
      BY WdAssumption DEF WdCommands
    <3>2. wd.scsiIdx + 1 \in 0 .. BufMax
      BY <2>4, WdAssumption DEF HostWrite, WdType
    <3> QED
      BY <2>4, <3>1, <3>2, Counts DEF HostWrite, WdType
  <2>5. CASE DmaTest
    <3>1. "BUSERR" \in StatusBits
      BY DEF StatusBits
    <3> QED
      BY <2>5, <3>1 DEF DmaTest, WdType
  <2>6. ASSUME NEW on \in BOOLEAN, Select(on)
        PROVE  wd' \in WdType
    <3>1. Selected42 \in SUBSET StatusBits /\ 0 \in 0 .. BufMax
      BY WdAssumption DEF Selected42, StatusBits
    <3> QED
      BY <2>6, <3>1, Counts DEF Select, WdType
  <2>7. CASE ClearBusErr
    BY <2>7 DEF ClearBusErr, WdType
  <2>8. CASE WdIrqAck
    BY <2>8 DEF WdIrqAck
  <2>9. ASSUME NEW u \in Units, NEW there \in BOOLEAN, AttachImage(u, there)
        PROVE  wd' \in WdType
    BY <2>9 DEF AttachImage, WdType
  <2>10. CASE PulseReset
    <3>1. wd.lastSeek \in SUBSET Units /\ wd.images \in SUBSET Units
      BY DEF WdType
    <3> QED
      BY <2>10, <3>1, ResetRegsType DEF PulseReset
  <2>11. CASE UNCHANGED vars
    BY <2>11 DEF vars
  <2> QED
    BY <2>1, <2>2, <2>3, <2>4, <2>5, <2>6, <2>7, <2>8, <2>9, <2>10, <2>11
       DEF Next
<1> QED
  BY <1>1, <1>2, PTL DEF Spec

-----------------------------------------------------------------------------
(* A call of wd_processContinue does to the interrupts what a command that *)
(* ends does, or one that does not.                                        *)
LEMMA ContinueImplements ==
  ASSUME wd \in WdType, NEW r, Continue(r)
  PROVE  IrqNext
<1> DEFINE p == PhaseStep(wd, r)
           w == CommandStep(p, r)
<1>1. p \in WdType
  BY StepsType
<1>2. w \in WdType
  BY <1>1, StepsType
<1>3. irq' = Ticked(IF StatusEntered(wd, p) THEN Announce(p)
                    ELSE IF StatusEntered(p, w) THEN Announce(w)
                    ELSE irq)
  BY DEF Continue
<1>4. ASSUME NEW x \in WdType, irq' = Ticked(Announce(x))
      PROVE  IrqNext
  <2>1. x.unit \in Units
    BY <1>4 DEF WdType
  <2>2. ("INTEN" \in x.ctl) \in BOOLEAN
    OBVIOUS
  <2>3. SeekDone(x) \in BOOLEAN
    BY Zenon DEF SeekDone
  <2> QED
    BY <1>4, <2>1, <2>2, <2>3, Zenon DEF Announce, IrqNext, IrqCommandEnds
<1>5. ASSUME irq' = Ticked(irq)
      PROVE  IrqNext
  BY <1>5 DEF IrqNext, IrqTick
<1> HIDE DEF p, w
<1> QED
  BY <1>1, <1>2, <1>3, <1>4, <1>5

(* The phase ladder uses the interrupts in no other way than WdIrq allows: *)
(* the completion of a command is flagged for one of its units and counted *)
(* in the same call, and a write to the control register clears before it  *)
(* announces.                                                              *)
THEOREM ImplementsIrq == Spec => IrqSpec
<1>1. Init => IrqInit
  BY DEF Init
<1>2. Registers /\ [Next]_vars => [IrqNext]_irq
  <2> SUFFICES ASSUME wd \in WdType, [Next]_vars
               PROVE  [IrqNext]_irq
    BY DEF Registers
  <2>1. ASSUME NEW r \in Results(wd), Continue(r)
        PROVE  IrqNext
    BY <2>1, ContinueImplements
  <2>2. ASSUME NEW v \in SUBSET CtlBits, WriteCtl2(v)
        PROVE  [IrqNext]_irq
    BY <2>2 DEF WriteCtl2, IrqNext, IrqControl
  <2>3. CASE WdIrqAck
    BY <2>3 DEF WdIrqAck, IrqNext
  <2>4. CASE PulseReset
    BY <2>4 DEF PulseReset, IrqNext, IrqControl
  <2>5. CASE \/ ReadInp \/ DmaTest \/ ClearBusErr \/ UNCHANGED vars
             \/ \E op \in Opcodes, u \in Units : HostWrite(op, u)
             \/ \E on \in BOOLEAN : Select(on)
             \/ \E u \in Units, there \in BOOLEAN : AttachImage(u, there)
    BY <2>5 DEF ReadInp, DmaTest, ClearBusErr, HostWrite, Select, AttachImage, vars
  <2> QED
    BY <2>1, <2>2, <2>3, <2>4, <2>5 DEF Next
<1> QED
  BY <1>1, <1>2, RegistersTyped, PTL DEF Spec, IrqSpec

(* So the invariant of the interrupt side is one of the whole controller,  *)
(* whatever the driver does: no acknowledge comes back spurious, and no    *)
(* interrupt waits without a counter that leads to it.                     *)
THEOREM WdIrqInvariant == Spec => []IrqInv
BY ImplementsIrq, IrqInvariant, PTL

(* Both records of the controller keep their types.                        *)
THEOREM WdTypeInvariant == Spec => []TypeOK
<1>1. Registers /\ IrqInv => TypeOK
  BY DEF IrqInv, TypeOK, Registers
<1> QED
  BY <1>1, RegistersTyped, WdIrqInvariant, PTL

-----------------------------------------------------------------------------
(* From here on the controller has the driver of WdHost.                   *)
JobKnown == job \in Jobs

LEMMA JobsKnown == HostSpec => []JobKnown
<1>1. HostInit => JobKnown
  BY DEF HostInit, JobKnown
<1>2. JobKnown /\ [HostNext]_allVars => JobKnown'
  <2> SUFFICES ASSUME job \in Jobs, [HostNext]_allVars
               PROVE  job' \in Jobs
    BY DEF JobKnown
  <2>1. ASSUME NEW j \in Jobs, Start(j)
        PROVE  job' \in Jobs
    BY <2>1 DEF Start
  <2>2. CASE UNCHANGED job
    BY <2>2
  <2>3. CASE Works
    <3>1. UNCHANGED job
      BY <2>3 DEF Works, SeesEmpty, WriteByte, SeesData, ReadData, SeesStatus,
           LooksAgain, ReadStatusByte, SeesMessage, ReadMessage, SeesFree, Looks
    <3> QED
      BY <3>1
  <2>4. CASE Tick
    BY <2>4 DEF Tick, Ticks, hostVars
  <2>5. CASE \/ TakeInterrupt \/ TestDma \/ ForgetBusErr \/ GiveUp \/ Reboot
             \/ UNCHANGED allVars
             \/ \E m \in Modes : SetMode(m)
             \/ \E u \in Attached, there \in BOOLEAN : ChangeImage(u, there)
    BY <2>5 DEF TakeInterrupt, TestDma, ForgetBusErr, GiveUp, Reboot, SetMode,
         ChangeImage, allVars, hostVars
  <2> QED
    BY <2>1, <2>3, <2>4, <2>5 DEF HostNext
<1> QED
  BY <1>1, <1>2, PTL DEF HostSpec

(* The driver and the user do nothing that Spec does not allow for.        *)
LEMMA DriverIsHost == HostSpec => Spec
<1>1. HostInit => Init
  BY DEF HostInit
<1>2. JobKnown /\ [HostNext]_allVars => [Next]_vars
  <2> SUFFICES ASSUME job \in Jobs, [HostNext]_allVars
               PROVE  [Next]_vars
    BY DEF JobKnown
  <2>1. CASE Tick
    BY <2>1 DEF Tick, Ticks, Next
  <2>2. ASSUME NEW m \in Modes, SetMode(m)
        PROVE  Next
    <3>1. m \in SUBSET CtlBits
      BY HostAssumption
    <3> QED
      BY <2>2, <3>1 DEF SetMode, Next
  <2>3. CASE GiveUp
    <3>1. {"SRST"} \in SUBSET CtlBits
      BY DEF CtlBits
    <3> QED
      BY <2>3, <3>1 DEF GiveUp, Next
  <2>4. CASE WriteByte
    <3>1. job.op \in Opcodes /\ job.unit \in Units
      BY HostAssumption
    <3> QED
      BY <2>4, <3>1 DEF WriteByte, Next
  <2>5. ASSUME NEW j \in Jobs, Start(j)
        PROVE  Next
    BY <2>5 DEF Start, Next
  <2>6. ASSUME NEW u \in Attached, NEW there \in BOOLEAN, ChangeImage(u, there)
        PROVE  Next
    <3>1. u \in Units
      BY WdAssumption
    <3> QED
      BY <2>6, <3>1 DEF ChangeImage, Next
  <2>7. CASE ReadData \/ ReadStatusByte \/ ReadMessage
    BY <2>7 DEF ReadData, ReadStatusByte, ReadMessage, Next
  <2>8. CASE \/ SeesEmpty \/ SeesData \/ SeesStatus \/ LooksAgain
             \/ SeesMessage \/ SeesFree \/ UNCHANGED allVars
    <3>1. UNCHANGED vars
      BY <2>8 DEF SeesEmpty, SeesData, SeesStatus, LooksAgain, SeesMessage,
           SeesFree, Looks, allVars
    <3> QED
      BY <3>1
  <2>9. CASE TakeInterrupt \/ TestDma \/ ForgetBusErr \/ Reboot
    BY <2>9 DEF TakeInterrupt, TestDma, ForgetBusErr, Reboot, Next
  <2> QED
    BY <2>1, <2>2, <2>3, <2>4, <2>5, <2>6, <2>7, <2>8, <2>9
       DEF HostNext, Works
<1> QED
  BY <1>1, <1>2, JobsKnown, PTL DEF HostSpec, Spec

-----------------------------------------------------------------------------
(* What the lemmas on one call of wd_processContinue assume of the driver. *)
Driver == pc \in Pcs /\ job \in Jobs /\ sent \in Nat

Runs(w) == w.stateCounter = 1 /\ w.state = "MESSAGE"

LEMMA JobParts ==
  ASSUME job \in Jobs
  PROVE  /\ job.op \in Opcodes /\ job.op \in AllOpcodes /\ job.unit \in Units
         /\ job = [op |-> job.op, unit |-> job.unit]
<1>1. job \in [op : Opcodes, unit : Units]
  BY HostAssumption
<1> QED
  BY <1>1, WdAssumption

(* A command is executed once it has been written, and not before.         *)
LEMMA RunsTheJob ==
  ASSUME NEW w \in WdType, NEW ex, NEW fl, Driver, LadderInv(w, ex, fl), Runs(w)
  PROVE  /\ ex = <<>> /\ Coming(w)
         /\ pc \in {"wait", "sleep", "woken"}
         /\ w.opcode # "CLASS2" /\ w.opcode = job.op
         /\ [op |-> w.opcode, unit |-> w.unit] = job
<1>1. pc \notin {"free", "reset"} /\ UnderWay(w, ex, fl)
  BY DEF LadderInv, AtRest, Runs
<1>2. ex = <<>> /\ Coming(w)
  BY <1>1 DEF UnderWay, Executed, Runs
<1>3. pc \in {"wait", "sleep", "woken"} /\ sent >= 2 /\ w.opcode # "CLASS2"
  BY <1>2 DEF Coming, Runs
<1>4. w.opcode = job.op /\ w.unit = job.unit
  BY <1>2, <1>3 DEF Coming, Driver
<1> QED
  BY <1>2, <1>3, <1>4, JobParts DEF Driver

(* What an execution leaves behind, whatever became of the command.        *)
ExecutedFrom(w, r, x) ==
  /\ x.state = "COMPLETE" /\ x.stateCounter = PhaseCount
  /\ x.command = w.command /\ x.cmdCounter = w.cmdCounter
  /\ x.ctl = w.ctl /\ x.opcode = w.opcode /\ x.unit = w.unit
  /\ x.status \in {w.status, w.status \cup {"BUSERR"}}
  /\ x.check = (r # "ok") /\ x.sense = SenseAfter(w, r)

LEMMA ExecuteFields ==
  ASSUME NEW w \in WdType, NEW r
  PROVE  ExecutedFrom(w, r, Execute(w, r))
BY DEF ExecutedFrom, Execute, WdType

LEMMA EnterStatusFields ==
  ASSUME NEW w \in WdType
  PROVE  LET x == EnterStatus(w)
         IN /\ x.state = "STATUS" /\ x.status = StatusCC
            /\ x.stateCounter = w.stateCounter
            /\ x.command = w.command /\ x.cmdCounter = w.cmdCounter
            /\ x.ctl = w.ctl /\ x.opcode = w.opcode /\ x.unit = w.unit
            /\ x.check = w.check /\ x.sense = w.sense
BY DEF EnterStatus, WdType

(* What the phases that do not execute the command may change.             *)
LaterPhase(w, x) ==
  /\ x.state \notin {"MESSAGE", "COMPLETE"}
  /\ x.stateCounter = w.stateCounter
  /\ x.command = w.command /\ x.cmdCounter = w.cmdCounter
  /\ x.ctl = w.ctl /\ x.opcode = w.opcode /\ x.unit = w.unit
  /\ x.check = w.check /\ x.sense = w.sense
  /\ w.state = "IDLE" => x = w
  /\ x.state # "IDLE" => w.state # "IDLE" /\ "SBUSY" \in x.status
  /\ x.state \in {"READRESULTS", "STATUS"} <=>
       w.state \in {"COMPLETE", "READRESULTS"}
  /\ x.state = "STATUS" => x.status = StatusCC

LEMMA LaterPhaseFields ==
  ASSUME NEW w \in WdType, NEW r, w.state # "MESSAGE"
  PROVE  LaterPhase(w, NextPhase(w, r))
<1>1. w.state \in {"IDLE", "COMPLETE", "READRESULTS", "STATUS", "MESSAGEBYTE"}
  BY DEF WdType, ScsiStates
<1>2. CASE w.state = "IDLE"
  BY <1>2 DEF NextPhase, LaterPhase
<1>3. CASE w.state = "READRESULTS" \/ (w.state = "COMPLETE" /\ w.replyLeft = 0)
  <2>1. NextPhase(w, r) = EnterStatus(w)
    BY <1>3 DEF NextPhase
  <2> QED
    BY <1>3, <2>1, EnterStatusFields DEF StatusCC, LaterPhase
<1>4. CASE w.state = "COMPLETE" /\ w.replyLeft # 0
  <2>1. NextPhase(w, r) = [w EXCEPT !.status = DataIn48, !.state = "READRESULTS"]
    BY <1>4 DEF NextPhase
  <2> QED
    BY <1>4, <2>1 DEF WdType, DataIn48, LaterPhase
<1>5. CASE w.state = "STATUS"
  <2>1. NextPhase(w, r) = [w EXCEPT !.replyLeft = 0, !.status = MessageE8,
                                    !.state = "MESSAGEBYTE"]
    BY <1>5 DEF NextPhase
  <2> QED
    BY <1>5, <2>1 DEF WdType, MessageE8, LaterPhase
<1>6. CASE w.state = "MESSAGEBYTE"
  <2>1. NextPhase(w, r) = [w EXCEPT !.status = {}, !.state = "IDLE",
                                    !.selected = FALSE]
    BY <1>6 DEF NextPhase
  <2> QED
    BY <1>6, <2>1 DEF WdType, LaterPhase
<1> QED
  BY <1>1, <1>2, <1>3, <1>4, <1>5, <1>6

-----------------------------------------------------------------------------
(* The ladder's invariant looks at these registers only.                   *)
LEMMA LadderSame ==
  ASSUME NEW w, NEW x, NEW ex, NEW fl, LadderInv(w, ex, fl),
         x.status = w.status, x.ctl = w.ctl, x.state = w.state,
         x.cmdCounter = 0 <=> w.cmdCounter = 0, x.command = w.command,
         x.scsiIdx = w.scsiIdx, x.dataIdx = w.dataIdx, x.opcode = w.opcode,
         x.unit = w.unit, x.check = w.check, x.sense = w.sense
  PROVE  LadderInv(x, ex, fl)
<1>1. BytesOf(x) = BytesOf(w) /\ \A n : DataAmong(x, n) = DataAmong(w, n)
  BY DEF BytesOf, CdbLen, FromHost, DmaOn, DataAmong
<1>2. \A c : Pending(x, c) <=> Pending(w, c)
  BY DEF Pending
<1>3. AtRest(w) => AtRest(x)
  BY <1>2 DEF AtRest
<1>4. Coming(w) => Coming(x)
  BY <1>1, <1>2 DEF Coming
<1>5. Executed(w, fl) => Executed(x, fl)
  BY <1>2, Zenon DEF Executed
<1>6. UnderWay(w, ex, fl) => UnderWay(x, ex, fl)
  BY <1>2, <1>4, <1>5, Zenon DEF UnderWay
<1> QED
  BY <1>3, <1>6, Zenon DEF LadderInv

(* A phase that is over keeps it, with the command recorded if it is the   *)
(* one in which it is executed.                                            *)
LEMMA PhaseKeeps ==
  ASSUME NEW w \in WdType, NEW r, NEW ex, NEW fl, Driver, LadderInv(w, ex, fl)
  PROVE  LadderInv(PhaseStep(w, r), IF Runs(w) THEN <<job>> ELSE ex,
                   IF Runs(w) THEN r # "ok" ELSE fl)
<1> DEFINE d == [w EXCEPT !.stateCounter = @ - 1]
           p == NextPhase(d, r)
<1>1. d.status = w.status /\ d.ctl = w.ctl /\ d.state = w.state
      /\ d.cmdCounter = w.cmdCounter /\ d.command = w.command
      /\ d.scsiIdx = w.scsiIdx /\ d.dataIdx = w.dataIdx
      /\ d.opcode = w.opcode /\ d.unit = w.unit /\ d.check = w.check
      /\ d.sense = w.sense /\ d.stateCounter = w.stateCounter - 1
  BY DEF WdType
<1>2. LadderInv(d, ex, fl)
  BY <1>1, LadderSame
<1>3. ASSUME w.stateCounter # 0
      PROVE  d \in WdType
  BY <1>3, WdAssumption DEF WdType
<1>4. w.stateCounter \in Nat
  BY WdAssumption DEF WdType
<1>5. PhaseStep(w, r) = IF w.stateCounter = 0 THEN w
                        ELSE IF w.stateCounter = 1 THEN p ELSE d
  BY <1>1, <1>4 DEF PhaseStep
<1>6. CASE Runs(w)
  <2>1. /\ ex = <<>> /\ Coming(w) /\ pc \in {"wait", "sleep", "woken"}
        /\ w.opcode # "CLASS2" /\ w.opcode = job.op
    BY <1>6, RunsTheJob
  <2>2. d \in WdType
    BY <1>3, <1>6 DEF Runs
  <2>3. PhaseStep(w, r) = Execute(d, r)
    BY <1>1, <1>5, <1>6, <2>1 DEF Runs, NextPhase
  <2> DEFINE x == Execute(d, r)
  <2>4. /\ x.state = "COMPLETE" /\ x.command = w.command
        /\ x.cmdCounter = w.cmdCounter /\ x.ctl = w.ctl /\ x.opcode = w.opcode
        /\ x.status \in {w.status, w.status \cup {"BUSERR"}}
        /\ x.check = (r # "ok") /\ x.sense = SenseAfter(d, r)
    <3>1. ExecutedFrom(d, r, x)
      BY <2>2, ExecuteFields
    <3> HIDE DEF d, x
    <3> QED
      BY <1>1, <3>1 DEF ExecutedFrom
  <2>5. /\ UnderWay(w, ex, fl) /\ "SRST" \notin w.ctl
    BY <2>1 DEF LadderInv
  <2>6. "SBUSY" \in x.status /\ ~Pending(x, "RESET")
    BY <2>1, <2>4, <2>5 DEF UnderWay, Pending
  <2>7. ~Pending(x, "PROCESS_SCSICMD")
    BY <1>6, <2>1, <2>4 DEF Coming, Pending, Runs
  <2>8. r # "ok" /\ job.op # "FORMAT" => x.sense
    <3>1. r # "ok" /\ job.op # "FORMAT" => SenseAfter(d, r)
      BY <1>1, <2>1, Zenon DEF SenseAfter
    <3> QED
      BY <2>4, <3>1, Zenon
  <2> HIDE DEF x
  <2>9. Executed(x, r # "ok")
    BY <2>1, <2>4, <2>7, <2>8, Zenon DEF Executed
  <2>10. UnderWay(x, <<job>>, r # "ok")
    <3>1. <<job>> # <<>>
      OBVIOUS
    <3> QED
      BY <2>6, <2>9, <3>1, Zenon DEF UnderWay
  <2>11. LadderInv(x, <<job>>, r # "ok")
    BY <2>1, <2>4, <2>5, <2>10 DEF LadderInv
  <2> QED
    BY <1>6, <2>3, <2>11 DEF x
<1>7. CASE ~Runs(w) /\ w.stateCounter = 1
  <2>1. d \in WdType /\ d.state # "MESSAGE" /\ PhaseStep(w, r) = p
    BY <1>1, <1>3, <1>5, <1>7 DEF Runs
  <2>2. LaterPhase(d, p)
    BY <2>1, LaterPhaseFields
  <2> HIDE DEF p
  <2>3. CASE d.state = "IDLE"
    BY <1>2, <1>7, <2>1, <2>2, <2>3 DEF LaterPhase
  <2>4. CASE d.state # "IDLE"
    <3>1. pc \notin {"free", "reset"} /\ UnderWay(d, ex, fl)
      BY <1>2, <2>4 DEF LadderInv, AtRest
    <3>2. ex # <<>> /\ Executed(d, fl)
      BY <2>1, <2>4, <3>1 DEF UnderWay, Coming
    <3>3. \A c : Pending(p, c) <=> Pending(d, c)
      BY <2>2 DEF Pending, LaterPhase
    <3>4. p.state # "MESSAGE" /\ p.check = d.check /\ p.sense = d.sense
          /\ p.ctl = d.ctl
      BY <2>2 DEF LaterPhase
    <3>5. p.state # "IDLE" => "SBUSY" \in p.status
      BY <2>2 DEF LaterPhase
    <3> HIDE DEF d
    <3>6. Executed(p, fl)
      BY <3>2, <3>3, <3>4, Zenon DEF Executed
    <3>7. UnderWay(p, ex, fl)
      BY <3>1, <3>2, <3>3, <3>5, <3>6, Zenon DEF UnderWay
    <3>8. LadderInv(p, ex, fl)
      BY <1>2, <3>1, <3>4, <3>7, Zenon DEF LadderInv
    <3> QED
      BY <1>7, <2>1, <3>8
  <2> QED
    BY <2>3, <2>4
<1>8. CASE w.stateCounter # 1
  <2>1. ~Runs(w)
    BY <1>8 DEF Runs
  <2> HIDE DEF d, p
  <2> QED
    BY <1>2, <1>5, <1>8, <2>1
<1> QED
  BY <1>6, <1>7, <1>8

LEMMA Lengths ==
  ASSUME NEW w \in WdType
  PROVE  /\ FromHost(w) \in Nat /\ CdbLen(w) \in Nat /\ CdbLen(w) >= 2
         /\ ShortCdb <= CdbLen(w)
         /\ w.opcode = "CLASS2" => FromHost(w) = 0
BY WdAssumption, LadderAssumption DEF FromHost, CdbLen

(* A byte that is dealt with brings the command on its way, or completes   *)
(* it: then, and only then, the driver has written all of its bytes.       *)
LEMMA ByteKeeps ==
  ASSUME NEW w \in WdType, NEW ex, NEW fl, Driver, LadderInv(w, ex, fl),
         Pending(w, "PROCESS_SCSICMD"), NEW e \in WdType,
         e = [w EXCEPT !.command = "RESET_OUTREGFULL", !.cmdCounter = CmdCount]
  PROVE  LadderInv(ProcessScsiCommand(e), ex, fl)
<1>1. /\ e.status = w.status /\ e.ctl = w.ctl /\ e.state = w.state
      /\ e.cmdCounter = CmdCount /\ e.command = "RESET_OUTREGFULL"
      /\ e.scsiIdx = w.scsiIdx /\ e.dataIdx = w.dataIdx /\ e.opcode = w.opcode
      /\ e.unit = w.unit /\ e.check = w.check /\ e.sense = w.sense
  BY DEF WdType
<1>2. /\ pc \notin {"free", "reset"} /\ UnderWay(w, ex, fl)
      /\ ex = <<>> /\ Coming(w) /\ "SRST" \notin w.ctl
  BY DEF LadderInv, AtRest, UnderWay, Executed
<1>3. /\ w.state = "IDLE" /\ w.scsiIdx = sent /\ "SBUSY" \in w.status
      /\ w.status \cap {"INPFULL", "OPCOMP"} = {}
      /\ pc \in {"poll", "wait", "sleep", "woken"}
      /\ sent >= 1 /\ w.opcode = job.op /\ (sent >= 2 => w.unit = job.unit)
      /\ IF pc = "poll" THEN sent < BytesOf(w) ELSE sent >= 2
      /\ sent <= BytesOf(w) /\ w.dataIdx = DataAmong(w, sent - 1)
      /\ sent \in Nat
  BY <1>2 DEF Coming, UnderWay, Driver
<1>4. /\ FromHost(e) = FromHost(w) /\ CdbLen(e) = CdbLen(w)
      /\ BytesOf(w) = CdbLen(w) + FromHost(w)
      /\ FromHost(w) \in Nat /\ CdbLen(w) \in Nat /\ CdbLen(w) >= 2
      /\ ShortCdb <= CdbLen(w) /\ ShortCdb \in Nat
      /\ w.opcode = "CLASS2" => FromHost(w) = 0
  <2>1. FromHost(e) = FromHost(w) /\ CdbLen(e) = CdbLen(w)
    BY <1>1 DEF FromHost, CdbLen, DmaOn
  <2> QED
    BY <2>1, Lengths, WdAssumption DEF BytesOf
(* What the result has to be, in which the command is not yet complete, or *)
(* is.                                                                     *)
<1>5. ASSUME NEW x, x.state = "IDLE", x.command = "RESET_OUTREGFULL",
             x.status \in {w.status, w.status \ {"SCMD"}}, x.ctl = w.ctl,
             x.scsiIdx = w.scsiIdx, x.opcode = w.opcode, x.unit = w.unit,
             x.dataIdx = DataAmong(w, sent)
      PROVE  LadderInv(x, ex, fl)
  <2>1. BytesOf(x) = BytesOf(w) /\ DataAmong(x, sent) = DataAmong(w, sent)
    BY <1>5 DEF BytesOf, CdbLen, FromHost, DmaOn, DataAmong
  <2>2. \A c : Pending(x, c) => c = "RESET_OUTREGFULL"
    BY <1>5 DEF Pending
  <2>3. Coming(x)
    BY <1>3, <1>5, <2>1, <2>2 DEF Coming
  <2>4. UnderWay(x, ex, fl)
    BY <1>2, <1>3, <1>5, <2>2, <2>3 DEF UnderWay
  <2> QED
    BY <1>2, <1>5, <2>4 DEF LadderInv
<1>6. ASSUME NEW x, x.state = "MESSAGE", x.command = "RESET_OUTREGFULL",
             x.status = w.status \cup {"SMSG"}, x.ctl = w.ctl,
             x.scsiIdx = w.scsiIdx, x.opcode = w.opcode, x.unit = w.unit,
             sent >= BytesOf(w), w.opcode # "CLASS2"
      PROVE  LadderInv(x, ex, fl)
  <2>1. pc \in {"wait", "sleep", "woken"} /\ sent >= 2
    BY <1>3, <1>4, <1>6
  <2>2. \A c : Pending(x, c) => c = "RESET_OUTREGFULL"
    BY <1>6 DEF Pending
  <2>3. Coming(x)
    BY <1>3, <1>6, <2>1, <2>2 DEF Coming
  <2>4. UnderWay(x, ex, fl)
    BY <1>2, <1>3, <1>6, <2>2, <2>3 DEF UnderWay
  <2> QED
    BY <1>2, <1>6, <2>4 DEF LadderInv
<1> HIDE DEF Pending, LadderInv
<1>7. CASE w.scsiIdx < ShortCdb \/ w.opcode = "CLASS2" \/ w.scsiIdx < CdbLen(w)
  <2>1. ProcessScsiCommand(e) = e
    BY <1>1, <1>4, <1>7 DEF ProcessScsiCommand
  <2>2. w.dataIdx = DataAmong(w, sent)
    BY <1>3, <1>4, <1>7 DEF DataAmong
  <2> QED
    BY <1>1, <1>3, <1>5, <2>1, <2>2
<1>8. CASE /\ ~(w.scsiIdx < ShortCdb) /\ w.opcode # "CLASS2"
           /\ w.scsiIdx = CdbLen(w)
  <2>1. CASE FromHost(w) = 0
    <3>1. ProcessScsiCommand(e) = ToMessage(e)
      BY <1>1, <1>4, <1>8, <2>1 DEF ProcessScsiCommand
    <3> DEFINE x == ToMessage(e)
    <3>2. /\ x.state = "MESSAGE" /\ x.command = e.command
          /\ x.status = e.status \cup {"SMSG"} /\ x.ctl = e.ctl
          /\ x.scsiIdx = e.scsiIdx /\ x.opcode = e.opcode /\ x.unit = e.unit
      BY DEF ToMessage, WdType
    <3>3. sent >= BytesOf(w)
      BY <1>3, <1>4, <1>8, <2>1
    <3> HIDE DEF x
    <3>4. LadderInv(x, ex, fl)
      BY <1>1, <1>6, <1>8, <3>2, <3>3
    <3> QED
      BY <3>1, <3>4 DEF x
  <2>2. CASE FromHost(w) # 0
    <3> DEFINE x == [e EXCEPT !.cmdCounter = 2 * CmdCount,
                              !.status = @ \ {"SCMD"}]
    <3>1. ProcessScsiCommand(e) = x
      BY <1>1, <1>4, <1>8, <2>2 DEF ProcessScsiCommand
    <3>2. /\ x.state = e.state /\ x.command = e.command
          /\ x.status = e.status \ {"SCMD"} /\ x.ctl = e.ctl
          /\ x.scsiIdx = e.scsiIdx /\ x.opcode = e.opcode /\ x.unit = e.unit
          /\ x.dataIdx = e.dataIdx
      BY DEF WdType
    <3>3. w.dataIdx = DataAmong(w, sent)
      BY <1>3, <1>4, <1>8 DEF DataAmong
    <3> HIDE DEF x
    <3>4. LadderInv(x, ex, fl)
      BY <1>1, <1>3, <1>5, <3>2, <3>3
    <3> QED
      BY <3>1, <3>4
  <2> QED
    BY <2>1, <2>2
<1>9. CASE /\ ~(w.scsiIdx < ShortCdb) /\ w.opcode # "CLASS2"
           /\ ~(w.scsiIdx < CdbLen(w)) /\ w.scsiIdx # CdbLen(w)
  <2> DEFINE v == [e EXCEPT !.dataIdx = @ + 1]
  <2>1. w.dataIdx = sent - 1 - CdbLen(w) /\ DataAmong(w, sent) = w.dataIdx + 1
        /\ FromHost(w) # w.dataIdx /\ w.dataIdx \in Nat
    BY <1>3, <1>4, <1>9 DEF DataAmong
  <2>2. /\ v \in WdType
        /\ v.state = e.state /\ v.command = e.command /\ v.status = e.status
        /\ v.ctl = e.ctl /\ v.scsiIdx = e.scsiIdx /\ v.opcode = e.opcode
        /\ v.unit = e.unit /\ v.dataIdx = e.dataIdx + 1
    <3>1. e.dataIdx + 1 \in Nat
      BY DEF WdType
    <3>2. v \in WdType
      BY <3>1 DEF WdType
    <3> QED
      BY <3>2 DEF WdType
  <2>3. ProcessScsiCommand(e) =
          IF FromHost(w) = w.dataIdx + 1 THEN ToMessage(v) ELSE v
    BY <1>1, <1>4, <1>9, <2>1 DEF ProcessScsiCommand
  <2> HIDE DEF v
  <2>4. CASE FromHost(w) = w.dataIdx + 1
    <3> DEFINE x == ToMessage(v)
    <3>1. /\ x.state = "MESSAGE" /\ x.command = v.command
          /\ x.status = v.status \cup {"SMSG"} /\ x.ctl = v.ctl
          /\ x.scsiIdx = v.scsiIdx /\ x.opcode = v.opcode /\ x.unit = v.unit
      BY <2>2 DEF ToMessage, WdType
    <3>2. sent >= BytesOf(w)
      BY <1>3, <1>4, <2>1, <2>4
    <3> HIDE DEF x
    <3>3. LadderInv(x, ex, fl)
      BY <1>1, <1>6, <1>9, <2>2, <3>1, <3>2
    <3> QED
      BY <2>3, <2>4, <3>3 DEF x
  <2>5. CASE FromHost(w) # w.dataIdx + 1
    <3>1. LadderInv(v, ex, fl)
      BY <1>1, <1>3, <1>5, <2>1, <2>2
    <3> QED
      BY <2>3, <2>5, <3>1
  <2> QED
    BY <2>4, <2>5
<1>10. w.scsiIdx \in Nat
  BY <1>3
<1> QED
  BY <1>4, <1>7, <1>8, <1>9, <1>10

(* A command that is carried out without a byte to deal with changes the   *)
(* status register, or goes on to the next phase.                          *)
LEMMA OtherCommandKeeps ==
  ASSUME NEW w \in WdType, NEW r, NEW ex, NEW fl, Driver, LadderInv(w, ex, fl),
         w.cmdCounter # 0, w.command # "PROCESS_SCSICMD",
         NEW d \in WdType, d = [w EXCEPT !.cmdCounter = 0]
  PROVE  LadderInv(ProcessCommand(d, r), ex, fl)
<1>1. /\ d.status = w.status /\ d.ctl = w.ctl /\ d.state = w.state
      /\ d.cmdCounter = 0 /\ d.command = w.command
      /\ d.scsiIdx = w.scsiIdx /\ d.dataIdx = w.dataIdx
      /\ d.opcode = w.opcode /\ d.unit = w.unit /\ d.check = w.check
      /\ d.sense = w.sense
  BY DEF WdType
<1>2. w.command \in {"RESET", "RESET_OUTREGFULL", "SET_INPFULL"}
  BY DEF WdType, WdCommands
<1>3. "SRST" \notin w.ctl \/ pc = "reset"
  BY DEF LadderInv
<1>4. ex \in {<<>>, <<job>>}
  BY DEF LadderInv
<1>5. ASSUME NEW x, x.status \subseteq StatusBits, x.ctl = w.ctl,
             x.state = w.state, x.cmdCounter = 0, x.scsiIdx = w.scsiIdx,
             x.dataIdx = w.dataIdx, x.opcode = w.opcode, x.unit = w.unit,
             x.check = w.check, x.sense = w.sense,
             pc \notin {"free", "reset"} => w.status \subseteq x.status,
             pc \notin {"free", "reset"} /\ ex = <<>> =>
               x.status \subseteq w.status \cup {"OUTEMPTY"}
      PROVE  LadderInv(x, ex, fl)
  <2>1. BytesOf(x) = BytesOf(w) /\ DataAmong(x, sent) = DataAmong(w, sent)
    BY <1>5 DEF BytesOf, CdbLen, FromHost, DmaOn, DataAmong
  <2>2. \A c : ~Pending(x, c)
    BY <1>5 DEF Pending
  <2>3. ~Pending(w, "PROCESS_SCSICMD")
    BY DEF Pending
  <2>4. CASE pc \in {"free", "reset"}
    BY <1>3, <1>4, <1>5, <2>2, <2>4 DEF LadderInv, AtRest
  <2>5. CASE pc \notin {"free", "reset"}
    <3>1. UnderWay(w, ex, fl)
      BY <2>5 DEF LadderInv
    <3>2. CASE ex = <<>>
      <4>1. Coming(w) /\ "SBUSY" \in w.status
        BY <3>1, <3>2 DEF UnderWay
      <4>2. x.status \cap {"INPFULL", "OPCOMP"} = {}
        BY <1>5, <2>5, <3>2, <4>1 DEF Coming
      <4>3. Coming(x)
        BY <1>5, <2>1, <2>2, <2>3, <4>1, <4>2 DEF Coming
      <4> QED
        BY <1>3, <1>4, <1>5, <2>2, <2>5, <3>2, <4>1, <4>3
           DEF LadderInv, UnderWay
    <3>3. CASE ex # <<>>
      <4>1. Executed(w, fl)
        BY <3>1, <3>3 DEF UnderWay
      <4>2. Executed(x, fl)
        BY <1>5, <2>2, <4>1, Zenon DEF Executed
      <4>3. x.state # "IDLE" => "SBUSY" \in x.status
        BY <1>5, <2>5, <3>1 DEF UnderWay
      <4>4. UnderWay(x, ex, fl)
        BY <2>2, <3>3, <4>2, <4>3, Zenon DEF UnderWay
      <4> QED
        BY <1>3, <1>4, <1>5, <2>5, <4>4 DEF LadderInv
    <3> QED
      BY <3>2, <3>3
  <2> QED
    BY <2>4, <2>5
<1>6. CASE w.command = "RESET"
  <2> DEFINE x == [d EXCEPT !.status = {}]
  <2>1. ProcessCommand(d, r) = x
    BY <1>1, <1>6 DEF ProcessCommand
  <2>2. pc \in {"free", "reset"}
    BY <1>6 DEF LadderInv, UnderWay, Pending
  <2>3. /\ x.status = {} /\ x.ctl = d.ctl /\ x.state = d.state
        /\ x.cmdCounter = d.cmdCounter /\ x.scsiIdx = d.scsiIdx
        /\ x.dataIdx = d.dataIdx /\ x.opcode = d.opcode /\ x.unit = d.unit
        /\ x.check = d.check /\ x.sense = d.sense
    BY DEF WdType
  <2> HIDE DEF x
  <2>4. LadderInv(x, ex, fl)
    BY <1>1, <1>5, <2>2, <2>3
  <2> QED
    BY <2>1, <2>4
<1>7. ASSUME NEW bit \in {"OUTEMPTY", "INPFULL"},
             bit = "INPFULL" => pc \in {"free", "reset"} \/ ex # <<>>
      PROVE  LadderInv([d EXCEPT !.status = @ \cup {bit}], ex, fl)
  <2> DEFINE x == [d EXCEPT !.status = @ \cup {bit}]
  <2>1. /\ x.status = d.status \cup {bit} /\ x.ctl = d.ctl /\ x.state = d.state
        /\ x.cmdCounter = d.cmdCounter /\ x.scsiIdx = d.scsiIdx
        /\ x.dataIdx = d.dataIdx /\ x.opcode = d.opcode /\ x.unit = d.unit
        /\ x.check = d.check /\ x.sense = d.sense
    BY DEF WdType
  <2>2. x.status \subseteq StatusBits
    BY <2>1 DEF WdType, StatusBits
  <2> HIDE DEF x
  <2>3. LadderInv(x, ex, fl)
    BY <1>1, <1>5, <1>7, <2>1, <2>2
  <2> QED
    BY <2>3 DEF x
<1>8. CASE w.command = "RESET_OUTREGFULL"
  <2>1. ProcessCommand(d, r) = [d EXCEPT !.status = @ \cup {"OUTEMPTY"}]
    BY <1>1, <1>8 DEF ProcessCommand
  <2> QED
    BY <1>7, <2>1
<1>9. CASE w.command = "SET_INPFULL"
  <2>1. pc \in {"free", "reset"} \/ (UnderWay(w, ex, fl) /\ ex # <<>> /\ Executed(w, fl))
    BY <1>9 DEF LadderInv, UnderWay, Coming, Pending
  <2>2. w.state # "MESSAGE"
    BY <2>1 DEF LadderInv, AtRest, Executed
  <2>3. ProcessCommand(d, r) \in
          {[d EXCEPT !.status = @ \cup {"INPFULL"}], NextPhase(d, r), d}
    BY <1>1, <1>9 DEF ProcessCommand
  <2>4. CASE ProcessCommand(d, r) = [d EXCEPT !.status = @ \cup {"INPFULL"}]
    BY <1>7, <2>1, <2>4
  <2>5. LadderInv(d, ex, fl)
    <3>1. d.status \subseteq StatusBits
      BY DEF WdType
    <3> QED
      BY <1>1, <1>5, <3>1
  <2>6. CASE ProcessCommand(d, r) = NextPhase(d, r)
    <3> DEFINE p == NextPhase(d, r)
    <3>1. LaterPhase(d, p)
      BY <1>1, <2>2, LaterPhaseFields
    <3> HIDE DEF p
    <3>2. CASE d.state = "IDLE"
      <4>1. p = d
        BY <3>1, <3>2 DEF LaterPhase
      <4> QED
        BY <2>5, <2>6, <4>1 DEF p
    <3>3. CASE d.state # "IDLE"
      <4>1. /\ pc \notin {"free", "reset"} /\ UnderWay(d, ex, fl)
            /\ ex # <<>> /\ Executed(d, fl)
        <5>1. pc \notin {"free", "reset"} /\ UnderWay(d, ex, fl)
          BY <2>5, <3>3 DEF LadderInv, AtRest
        <5> QED
          BY <2>1, <5>1 DEF UnderWay
      <4>2. \A c : Pending(p, c) <=> Pending(d, c)
        BY <3>1 DEF Pending, LaterPhase
      <4>3. p.state # "MESSAGE" /\ p.check = d.check /\ p.sense = d.sense
            /\ p.ctl = d.ctl /\ (p.state # "IDLE" => "SBUSY" \in p.status)
        BY <3>1 DEF LaterPhase
      <4>4. Executed(p, fl)
        BY <4>1, <4>2, <4>3, Zenon DEF Executed
      <4>5. UnderWay(p, ex, fl)
        BY <4>1, <4>2, <4>3, <4>4, Zenon DEF UnderWay
      <4>6. LadderInv(p, ex, fl)
        BY <2>5, <4>1, <4>3, <4>5, Zenon DEF LadderInv
      <4> QED
        BY <2>6, <4>6 DEF p
    <3> QED
      BY <3>2, <3>3
  <2> QED
    BY <2>3, <2>4, <2>5, <2>6
<1> QED
  BY <1>2, <1>6, <1>8, <1>9

LEMMA CommandKeeps ==
  ASSUME NEW w \in WdType, NEW r, NEW ex, NEW fl, Driver, LadderInv(w, ex, fl)
  PROVE  LadderInv(CommandStep(w, r), ex, fl)
<1> DEFINE d == [w EXCEPT !.cmdCounter = @ - 1]
<1>1. CASE w.cmdCounter = 0
  BY <1>1 DEF CommandStep
<1>2. CASE w.cmdCounter # 0
  <2>1. d \in WdType /\ d.cmdCounter = w.cmdCounter - 1 /\ w.cmdCounter \in Nat
    BY <1>2, WdAssumption DEF WdType
  <2>2. CommandStep(w, r) = IF w.cmdCounter = 1 THEN ProcessCommand(d, r) ELSE d
    BY <1>2, <2>1 DEF CommandStep
  <2>3. CASE w.cmdCounter # 1
    <3>1. /\ d.status = w.status /\ d.ctl = w.ctl /\ d.state = w.state
          /\ d.command = w.command
          /\ d.scsiIdx = w.scsiIdx /\ d.dataIdx = w.dataIdx
          /\ d.opcode = w.opcode /\ d.unit = w.unit /\ d.check = w.check
          /\ d.sense = w.sense
      BY DEF WdType
    <3>2. d.cmdCounter # 0
      BY <2>1, <2>3
    <3> HIDE DEF d
    <3>3. LadderInv(d, ex, fl)
      BY <1>2, <3>1, <3>2, LadderSame
    <3> QED
      BY <2>2, <2>3, <3>3
  <2>4. CASE w.cmdCounter = 1
    <3>1. d = [w EXCEPT !.cmdCounter = 0]
      BY <2>4 DEF WdType
    <3>2. CASE w.command # "PROCESS_SCSICMD"
      <4> HIDE DEF d
      <4> QED
        BY <1>2, <2>1, <2>2, <2>4, <3>1, <3>2, OtherCommandKeeps
    <3>3. CASE w.command = "PROCESS_SCSICMD"
      <4> DEFINE e == [w EXCEPT !.command = "RESET_OUTREGFULL",
                                !.cmdCounter = CmdCount]
      <4>1. e \in WdType
        BY Counts DEF WdType, WdCommands
      <4>2. ProcessCommand(d, r) = ProcessScsiCommand(e)
        <5>1. d.command = "PROCESS_SCSICMD"
              /\ [d EXCEPT !.command = "RESET_OUTREGFULL",
                           !.cmdCounter = CmdCount] = e
          BY <3>3 DEF WdType
        <5> QED
          BY <5>1 DEF ProcessCommand
      <4>3. Pending(w, "PROCESS_SCSICMD")
        BY <1>2, <3>3 DEF Pending
      <4>4. LadderInv(ProcessScsiCommand(e), ex, fl)
        BY <4>1, <4>3, ByteKeeps
      <4> QED
        BY <2>2, <2>4, <4>2, <4>4
    <3> QED
      BY <3>2, <3>3
  <2> QED
    BY <2>3, <2>4
<1> QED
  BY <1>1, <1>2

-----------------------------------------------------------------------------
(* While the driver sleeps, the phases follow one another and the handling *)
(* of its last byte is over before the status phase is entered.            *)
LEMMA SleepPhase ==
  ASSUME NEW w \in WdType, NEW r, SleepInv(w, 0),
         w.state = "MESSAGE" => w.opcode # "CLASS2"
  PROVE  LET p == PhaseStep(w, r)
         IN SleepInv(p, 1) /\ p.unit = w.unit /\ p.ctl = w.ctl
            /\ (w.state = "STATUS" => p = w)
<1> DEFINE d == [w EXCEPT !.stateCounter = @ - 1]
           p == NextPhase(d, r)
<1> USE DEF RunsDown
<1>1. /\ d.status = w.status /\ d.ctl = w.ctl /\ d.state = w.state
      /\ d.cmdCounter = w.cmdCounter /\ d.command = w.command
      /\ d.opcode = w.opcode /\ d.unit = w.unit
      /\ d.stateCounter = w.stateCounter - 1
  BY DEF WdType
<1>2. /\ w.stateCounter \in Nat /\ w.cmdCounter \in Nat
      /\ PhaseCount \in Nat /\ CmdCount \in Nat /\ CmdCount < 2 * PhaseCount
  BY WdAssumption, LadderAssumption DEF WdType
<1>3. /\ Sleeps(w) /\ w.state # "MESSAGEBYTE"
      /\ w.cmdCounter # 0 => w.command \in {"PROCESS_SCSICMD", "RESET_OUTREGFULL"}
  BY DEF SleepInv
<1>4. PhaseStep(w, r) = IF w.stateCounter = 0 THEN w
                        ELSE IF w.stateCounter = 1 THEN p ELSE d
  BY <1>1, <1>2 DEF PhaseStep
<1>5. CASE w.stateCounter = 0
  <2>1. PhaseStep(w, r) = w
    BY <1>4, <1>5
  <2>2. SleepInv(w, 1)
    BY <1>2 DEF SleepInv
  <2> QED
    BY <2>1, <2>2
<1>6. ASSUME w.stateCounter # 0
      PROVE  w.state \notin {"STATUS", "READRESULTS"}
  BY <1>6 DEF SleepInv
<1>7. CASE w.stateCounter \notin {0, 1}
  <2>1. PhaseStep(w, r) = d
    BY <1>4, <1>7
  <2> HIDE DEF d
  <2>2. Sleeps(d)
    BY <1>1, <1>3 DEF Sleeps
  <2>3. SleepInv(d, 1)
    BY <1>1, <1>2, <1>3, <1>6, <1>7, <2>2 DEF SleepInv
  <2> QED
    BY <1>1, <1>6, <1>7, <2>1, <2>3
<1>8. CASE w.stateCounter = 1
  <2>1. PhaseStep(w, r) = p /\ d \in WdType
    <3>1. d \in WdType
      BY <1>8, WdAssumption DEF WdType
    <3> QED
      BY <1>4, <1>8, <3>1
  <2>2. CASE w.state = "MESSAGE"
    <3>1. p = Execute(d, r)
      BY <1>1, <2>2 DEF NextPhase
    <3>2. ExecutedFrom(d, r, p)
      BY <2>1, <3>1, ExecuteFields
    <3> HIDE DEF d, p
    <3>3. p.state = "COMPLETE" /\ p.stateCounter = PhaseCount
          /\ p.command = w.command /\ p.cmdCounter = w.cmdCounter
          /\ p.ctl = w.ctl /\ p.unit = w.unit
      BY <1>1, <3>2 DEF ExecutedFrom
    <3>4. w.cmdCounter # 0 => w.cmdCounter + PhaseCount <= 1 + CmdCount
      BY <1>2, <1>8, <2>2 DEF SleepInv
    <3>5. Sleeps(p) /\ (p.cmdCounter # 0 =>
                          p.cmdCounter + 2 * PhaseCount <= p.stateCounter + CmdCount + 1)
      BY <1>2, <1>3, <3>3, <3>4 DEF Sleeps
    <3>6. SleepInv(p, 1)
      BY <1>3, <3>3, <3>5 DEF SleepInv
    <3> QED
      BY <2>1, <2>2, <3>3, <3>6
  <2>3. CASE w.state # "MESSAGE"
    <3>1. LaterPhase(d, p)
      BY <1>1, <2>1, <2>3, LaterPhaseFields
    <3> HIDE DEF d, p
    <3>2. /\ p.stateCounter = 0 /\ p.command = w.command
          /\ p.cmdCounter = w.cmdCounter /\ p.ctl = w.ctl /\ p.unit = w.unit
          /\ p.state \notin {"MESSAGE", "COMPLETE"}
          /\ (p.state = "STATUS" => p.status = StatusCC)
      BY <1>1, <1>8, <3>1 DEF LaterPhase
    <3>3. p.state \in {"READRESULTS", "STATUS"} <=> w.state = "COMPLETE"
      BY <1>1, <1>6, <1>8, <3>1 DEF LaterPhase
    <3>4. w.state = "COMPLETE" => w.cmdCounter = 0
      BY <1>2, <1>8 DEF SleepInv
    <3>5. p.state # "MESSAGEBYTE" /\ Sleeps(p)
      <4>1. Sleeps(p)
        BY <1>3, <3>2 DEF Sleeps
      <4>2. CASE w.state = "COMPLETE"
        BY <3>3, <4>1, <4>2
      <4>3. CASE w.state = "IDLE"
        BY <1>1, <1>3, <3>1, <4>1, <4>3 DEF LaterPhase
      <4>4. w.state \in {"COMPLETE", "IDLE"}
        BY <1>3, <1>6, <1>8, <2>3 DEF WdType, ScsiStates
      <4> QED
        BY <4>2, <4>3, <4>4
    <3>6. SleepInv(p, 1)
      BY <1>3, <3>2, <3>3, <3>4, <3>5 DEF SleepInv
    <3> QED
      BY <1>6, <1>8, <2>1, <3>2, <3>6
  <2> QED
    BY <2>2, <2>3
<1> QED
  BY <1>5, <1>7, <1>8

LEMMA SleepCommand ==
  ASSUME NEW w \in WdType, NEW r, SleepInv(w, 1),
         Pending(w, "PROCESS_SCSICMD") => w.state = "IDLE"
  PROVE  LET x == CommandStep(w, r)
         IN SleepInv(x, 0) /\ x.unit = w.unit /\ x.ctl = w.ctl
            /\ (x.state = "STATUS" <=> w.state = "STATUS")
<1> DEFINE d == [w EXCEPT !.cmdCounter = @ - 1]
<1> USE DEF RunsDown
<1>1. /\ d.status = w.status /\ d.ctl = w.ctl /\ d.state = w.state
      /\ d.command = w.command /\ d.scsiIdx = w.scsiIdx
      /\ d.opcode = w.opcode /\ d.unit = w.unit
      /\ d.stateCounter = w.stateCounter /\ d.cmdCounter = w.cmdCounter - 1
  BY DEF WdType
<1>2. /\ w.stateCounter \in Nat /\ w.cmdCounter \in Nat
      /\ PhaseCount \in Nat /\ CmdCount \in Nat
  BY WdAssumption DEF WdType
<1>3. /\ Sleeps(w) /\ w.state # "MESSAGEBYTE"
      /\ w.cmdCounter # 0 => w.command \in {"PROCESS_SCSICMD", "RESET_OUTREGFULL"}
      /\ w.cmdCounter # 0 => w.state \notin {"READRESULTS", "STATUS"}
  BY DEF SleepInv
<1>4. CASE w.cmdCounter = 0
  <2>1. CommandStep(w, r) = w
    BY <1>4 DEF CommandStep
  <2>2. SleepInv(w, 0)
    BY <1>4 DEF SleepInv
  <2> QED
    BY <2>1, <2>2
<1>5. CASE w.cmdCounter \notin {0, 1}
  <2>1. CommandStep(w, r) = d
    BY <1>1, <1>2, <1>5 DEF CommandStep
  <2> HIDE DEF d
  <2>2. Sleeps(d)
    BY <1>1, <1>3 DEF Sleeps
  <2>3. SleepInv(d, 0)
    BY <1>1, <1>2, <1>3, <1>5, <2>2 DEF SleepInv
  <2> QED
    BY <1>1, <2>1, <2>3
<1>6. CASE w.cmdCounter = 1 /\ w.command = "RESET_OUTREGFULL"
  <2> DEFINE x == [d EXCEPT !.status = @ \cup {"OUTEMPTY"}]
  <2>1. CommandStep(w, r) = x
    BY <1>1, <1>6 DEF CommandStep, ProcessCommand
  <2>2. /\ x.ctl = w.ctl /\ x.state = w.state /\ x.unit = w.unit
        /\ x.cmdCounter = 0 /\ x.stateCounter = w.stateCounter
    BY <1>1, <1>6 DEF WdType
  <2> HIDE DEF x
  <2>3. Sleeps(x)
    BY <1>3, <2>2 DEF Sleeps
  <2>4. SleepInv(x, 0)
    BY <1>3, <1>6, <2>2, <2>3 DEF SleepInv
  <2> QED
    BY <2>1, <2>2, <2>4
<1>7. CASE w.cmdCounter = 1 /\ w.command = "PROCESS_SCSICMD"
  <2> DEFINE e == [w EXCEPT !.command = "RESET_OUTREGFULL", !.cmdCounter = CmdCount]
             x == ProcessScsiCommand(e)
  <2>0. w.state = "IDLE"
    BY <1>7 DEF Pending
  <2>1. e \in WdType /\ CommandStep(w, r) = x
    <3>1. e \in WdType
      BY Counts DEF WdType, WdCommands
    <3>2. d.cmdCounter = 0 /\ d.command = "PROCESS_SCSICMD"
      BY <1>1, <1>7
    <3>3. [d EXCEPT !.command = "RESET_OUTREGFULL", !.cmdCounter = CmdCount] = e
      BY DEF WdType
    <3>4. CommandStep(w, r) = ProcessCommand(d, r)
      BY <1>7, <3>2 DEF CommandStep
    <3>5. ProcessCommand(d, r) = x
      BY <3>2, <3>3 DEF ProcessCommand
    <3> QED
      BY <3>1, <3>4, <3>5
  <2>2. /\ e.ctl = w.ctl /\ e.state = w.state /\ e.unit = w.unit
        /\ e.stateCounter = w.stateCounter /\ e.command = "RESET_OUTREGFULL"
        /\ e.cmdCounter = CmdCount /\ e.status = w.status
    BY DEF WdType
  <2>3. FromHost(e) = 0
    BY <1>3, <2>2 DEF FromHost, DmaOn, Sleeps
  <2>4. ASSUME NEW v \in WdType, v.ctl = e.ctl, v.unit = e.unit,
               v.command = e.command, v.cmdCounter = e.cmdCounter,
               x = ToMessage(v)
        PROVE  SleepInv(x, 0) /\ x.unit = w.unit /\ x.ctl = w.ctl
               /\ x.state = "MESSAGE"
    <3> HIDE DEF e, x
    <3>1. /\ x.ctl = v.ctl /\ x.unit = v.unit /\ x.state = "MESSAGE"
          /\ x.command = v.command /\ x.cmdCounter = v.cmdCounter
          /\ x.stateCounter = PhaseCount
      BY <2>4 DEF ToMessage, WdType
    <3>2. Sleeps(x)
      BY <1>3, <2>2, <2>4, <3>1 DEF Sleeps
    <3>3. SleepInv(x, 0)
      BY <1>2, <2>2, <2>4, <3>1, <3>2 DEF SleepInv
    <3> QED
      BY <2>2, <2>4, <3>1, <3>3
  <2>5. CASE x = e
    <3> HIDE DEF e, x
    <3>1. Sleeps(e)
      BY <1>3, <2>2 DEF Sleeps
    <3>2. SleepInv(e, 0)
      BY <1>2, <2>0, <2>2, <3>1 DEF SleepInv
    <3> QED
      BY <2>1, <2>2, <2>5, <3>2
  <2>6. CASE x = [e EXCEPT !.dataIdx = @ + 1]
    <3>1. /\ x.ctl = w.ctl /\ x.state = w.state /\ x.unit = w.unit
          /\ x.stateCounter = w.stateCounter /\ x.command = "RESET_OUTREGFULL"
          /\ x.cmdCounter = CmdCount
      BY <2>1, <2>2, <2>6 DEF WdType
    <3> HIDE DEF e, x
    <3>2. Sleeps(x)
      BY <1>3, <3>1 DEF Sleeps
    <3>3. SleepInv(x, 0)
      BY <1>2, <2>0, <3>1, <3>2 DEF SleepInv
    <3> QED
      BY <2>1, <3>1, <3>3
  <2>7. \/ x = e \/ x = [e EXCEPT !.dataIdx = @ + 1]
        \/ x = ToMessage(e) \/ x = ToMessage([e EXCEPT !.dataIdx = @ + 1])
    BY <2>3 DEF ProcessScsiCommand
  <2>8. CASE x = ToMessage(e)
    <3> HIDE DEF e, x
    <3> QED
      BY <1>3, <1>7, <2>1, <2>4, <2>8
  <2>9. CASE x = ToMessage([e EXCEPT !.dataIdx = @ + 1])
    <3> DEFINE v == [e EXCEPT !.dataIdx = @ + 1]
    <3>1. v \in WdType /\ v.ctl = e.ctl /\ v.unit = e.unit
          /\ v.command = e.command /\ v.cmdCounter = e.cmdCounter
      <4> HIDE DEF e
      <4> QED
        BY <2>1 DEF WdType
    <3>2. x = ToMessage(v)
      BY <2>9
    <3> HIDE DEF e, x, v
    <3> QED
      BY <1>3, <1>7, <2>1, <2>4, <3>1, <3>2
  <2> HIDE DEF e, x
  <2> QED
    BY <2>5, <2>6, <2>7, <2>8, <2>9
<1> QED
  BY <1>2, <1>3, <1>4, <1>5, <1>6, <1>7

-----------------------------------------------------------------------------
LEMMA TickedKeepsFlags ==
  ASSUME NEW q \in IrqType
  PROVE  Ticked(q).complete = q.complete
BY DEF Ticked, ProcessPendingInterrupts, UpdateIrq, IrqType

LEMMA FlaggedFlags ==
  ASSUME NEW q \in IrqType, NEW u \in Units, NEW seekDone \in BOOLEAN
  PROVE  Flagged(q, u, TRUE, seekDone) \in IrqType
         /\ u \in Flagged(q, u, TRUE, seekDone).complete
BY IrqAssumption DEF Flagged, IrqType

(* The invariant for registers that have changed while the driver is where *)
(* it was.                                                                 *)
LEMMA SameDriver ==
  ASSUME LadderInv(wd', ran', failed'), UNCHANGED hostVars
  PROVE  LadderInv(wd, ran, failed)'
<1>1. pc' = pc /\ job' = job /\ sent' = sent /\ got' = got
  BY DEF hostVars
<1>2. BytesOf(wd)' = BytesOf(wd') /\ \A n : DataAmong(wd, n)' = DataAmong(wd', n)
  BY DEF BytesOf, CdbLen, FromHost, DmaOn, DataAmong
<1>3. \A c : Pending(wd, c)' <=> Pending(wd', c)
  BY DEF Pending
<1>4. Coming(wd') => Coming(wd)'
  BY <1>1, <1>2, <1>3 DEF Coming
<1>5. Executed(wd', failed') => Executed(wd, failed)'
  BY <1>1, <1>3, Zenon DEF Executed
<1>6. AtRest(wd') => AtRest(wd)'
  BY <1>3 DEF AtRest
<1>7. UnderWay(wd', ran', failed') => UnderWay(wd, ran, failed)'
  BY <1>3, <1>4, <1>5, Zenon DEF UnderWay
<1> QED
  BY <1>1, <1>6, <1>7, Zenon DEF LadderInv

LEMMA TickKeeps ==
  ASSUME wd \in WdType, irq \in IrqType, HostIInv, Tick
  PROVE  HostIInv'
<1>1. PICK r \in Results(wd) : Ticks(r)
  BY DEF Tick
<1> DEFINE p == PhaseStep(wd, r)
           w == CommandStep(p, r)
<1>2. p \in WdType /\ w \in WdType
  BY StepsType
<1>3. Driver /\ LadderInv(wd, ran, failed)
  BY DEF Driver, HostIInv
<1>4. /\ wd' = w /\ UNCHANGED hostVars
      /\ irq' = Ticked(IF StatusEntered(wd, p) THEN Announce(p)
                       ELSE IF StatusEntered(p, w) THEN Announce(w)
                       ELSE irq)
  BY <1>1 DEF Ticks, Continue
<1>5. /\ ran' = IF Runs(wd) THEN <<job>> ELSE ran
      /\ failed' = IF Runs(wd) THEN r # "ok" ELSE failed
  <2>1. CASE Runs(wd)
    <3>1. ran' = Append(ran, [op |-> wd.opcode, unit |-> wd.unit])
          /\ failed' = (r # "ok")
      BY <1>1, <2>1 DEF Ticks, Runs
    <3>2. ran = <<>> /\ [op |-> wd.opcode, unit |-> wd.unit] = job
      BY <1>3, <2>1, RunsTheJob
    <3>3. ran' = Append(<<>>, job)
      BY <3>1, <3>2
    <3>4. Append(<<>>, job) = <<job>>
      OBVIOUS
    <3> QED
      BY <2>1, <3>1, <3>3, <3>4, Zenon
  <2>2. CASE ~Runs(wd)
    BY <1>1, <2>2, Zenon DEF Ticks, Runs, history
  <2> QED
    BY <2>1, <2>2
<1> DEFINE ex == IF Runs(wd) THEN <<job>> ELSE ran
           fl == IF Runs(wd) THEN r # "ok" ELSE failed
<1>6. LadderInv(p, ex, fl)
  BY <1>3, PhaseKeeps
<1> HIDE DEF p, ex, fl
<1>7. LadderInv(w, ex, fl)
  BY <1>2, <1>3, <1>6, CommandKeeps
<1>8. LadderInv(wd, ran, failed)'
  <2>1. ran' = ex /\ failed' = fl
    BY <1>5, Zenon DEF ex, fl
  <2>2. LadderInv(wd', ran', failed')
    BY <1>4, <1>7, <2>1, Zenon
  <2> QED
    BY <1>4, <2>2, SameDriver
<1>9. ASSUME pc \in {"sleep", "woken"}
      PROVE  /\ SleepInv(w, 0) /\ SleepInv(p, 1)
             /\ p.unit = wd.unit /\ w.unit = wd.unit
             /\ p.ctl = wd.ctl /\ (w.state = "STATUS" <=> p.state = "STATUS")
             /\ (wd.state = "STATUS" => p = wd)
  <2>1. SleepInv(wd, 0)
    BY <1>9 DEF HostIInv
  <2>2. wd.state = "MESSAGE" => wd.opcode # "CLASS2"
    BY <1>3, <1>9 DEF LadderInv, UnderWay, Coming, Executed
  <2>3. /\ SleepInv(p, 1) /\ p.unit = wd.unit /\ p.ctl = wd.ctl
        /\ (wd.state = "STATUS" => p = wd)
    BY <2>1, <2>2, SleepPhase DEF p
  <2>4. Pending(p, "PROCESS_SCSICMD") => p.state = "IDLE"
    BY <1>6, <1>9 DEF LadderInv, UnderWay, Coming, Executed
  <2>5. /\ SleepInv(w, 0) /\ w.unit = p.unit
        /\ (w.state = "STATUS" <=> p.state = "STATUS")
    BY <1>2, <2>3, <2>4, SleepCommand
  <2> QED
    BY <2>3, <2>5
<1>10. (pc \in {"sleep", "woken"} => SleepInv(wd, 0))'
  <2>1. pc' = pc
    BY <1>4 DEF hostVars
  <2> HIDE DEF w
  <2>2. SleepInv(wd', 0) => SleepInv(wd, 0)'
    BY DEF SleepInv, Sleeps, RunsDown
  <2> QED
    BY <1>4, <1>9, <2>1, <2>2
<1>11. NoLostWakeup'
  <2> SUFFICES ASSUME pc = "sleep", w.state = "STATUS"
               PROVE  w.unit \in irq'.complete
    BY <1>4 DEF NoLostWakeup, hostVars
  <2>1. p.state = "STATUS" /\ p.unit = wd.unit /\ w.unit = wd.unit
        /\ wd.unit \in Units
    BY <1>9 DEF WdType
  <2>2. CASE wd.state = "STATUS"
    <3>1. ~StatusEntered(wd, p) /\ ~StatusEntered(p, w)
      BY <2>1, <2>2 DEF StatusEntered
    <3>2. irq' = Ticked(irq)
      BY <1>4, <3>1
    <3>3. wd.unit \in irq.complete
      BY <2>2 DEF HostIInv, NoLostWakeup
    <3> QED
      BY <2>1, <3>2, <3>3, TickedKeepsFlags
  <2>3. CASE wd.state # "STATUS"
    <3>1. irq' = Ticked(Announce(p))
      BY <1>4, <2>1, <2>3 DEF StatusEntered
    <3>2. "INTEN" \in p.ctl
      BY <1>9 DEF SleepInv, Sleeps
    <3>3. SeekDone(p) \in BOOLEAN
      BY Zenon DEF SeekDone
    <3>4. Announce(p) = Flagged(irq, p.unit, TRUE, SeekDone(p))
      <4>1. ("INTEN" \in p.ctl) = TRUE
        BY <3>2
      <4> QED
        BY <4>1, Zenon DEF Announce
    <3>5. Announce(p) \in IrqType /\ p.unit \in Announce(p).complete
      BY <2>1, <3>3, <3>4, FlaggedFlags
    <3> QED
      BY <2>1, <3>1, <3>5, TickedKeepsFlags
  <2> QED
    BY <2>2, <2>3
<1>12. (pc \in Pcs /\ job \in Jobs /\ sent \in Nat)'
  BY <1>4 DEF HostIInv, hostVars
<1> QED
  BY <1>8, <1>10, <1>11, <1>12 DEF HostIInv

-----------------------------------------------------------------------------
(* What a read of the input register may change.                           *)
ReadFrom(w, x) ==
  /\ x.state = w.state /\ x.ctl = w.ctl /\ x.opcode = w.opcode
  /\ x.unit = w.unit /\ x.check = w.check /\ x.sense = w.sense
  /\ x.status \in {w.status, w.status \ {"INPFULL"}}
  /\ x.command \in {w.command, "SET_INPFULL"}
  /\ x.command = w.command /\ x.cmdCounter # 0 =>
       w.cmdCounter # 0 \/ w.command = "SET_INPFULL"

LEMMA ReadInpFields ==
  ASSUME NEW w \in WdType
  PROVE  ReadFrom(w, ReadInpOf(w))
<1> DEFINE v == [w EXCEPT !.scsiIdx = 0, !.dataIdx = 0]
           u == [v EXCEPT !.replyLeft = @ - 1]
<1>1. /\ v.state = w.state /\ v.ctl = w.ctl /\ v.opcode = w.opcode
      /\ v.unit = w.unit /\ v.check = w.check /\ v.sense = w.sense
      /\ v.status = w.status /\ v.command = w.command
      /\ v.cmdCounter = w.cmdCounter
  BY DEF WdType
<1>2. /\ u.state = w.state /\ u.ctl = w.ctl /\ u.opcode = w.opcode
      /\ u.unit = w.unit /\ u.check = w.check /\ u.sense = w.sense
      /\ u.status = w.status /\ u.command = w.command
      /\ u.cmdCounter = w.cmdCounter
  BY DEF WdType
<1>3. ReadFrom(w, v)
  BY <1>1 DEF ReadFrom
<1>4. ReadFrom(w, Handed(u))
  <2> DEFINE x == Handed(u)
  <2>1. /\ x.state = u.state /\ x.ctl = u.ctl /\ x.opcode = u.opcode
        /\ x.unit = u.unit /\ x.check = u.check /\ x.sense = u.sense
        /\ x.status = u.status \ {"INPFULL"} /\ x.command = "SET_INPFULL"
    BY DEF Handed, WdType
  <2> HIDE DEF u, x
  <2>2. ReadFrom(w, x)
    BY <1>2, <2>1 DEF ReadFrom
  <2> QED
    BY <2>2 DEF x
<1>5. ReadFrom(w, Handed(v))
  <2> DEFINE x == Handed(v)
  <2>1. /\ x.state = v.state /\ x.ctl = v.ctl /\ x.opcode = v.opcode
        /\ x.unit = v.unit /\ x.check = v.check /\ x.sense = v.sense
        /\ x.status = v.status \ {"INPFULL"} /\ x.command = "SET_INPFULL"
    BY DEF Handed, WdType
  <2> HIDE DEF v, x
  <2>2. ReadFrom(w, x)
    BY <1>1, <2>1 DEF ReadFrom
  <2> QED
    BY <2>2 DEF x
<1>6. ReadInpOf(w) = IF v.replyLeft # 0 THEN Handed(u)
                     ELSE IF v.state = "MESSAGEBYTE" THEN Handed(v) ELSE v
  BY DEF ReadInpOf
<1> HIDE DEF u, v
<1> QED
  BY <1>3, <1>4, <1>5, <1>6

(* A read of the input register, or a look at the status register, of a    *)
(* driver whose command has been executed.                                 *)
LEMMA ReaderKeeps ==
  ASSUME wd \in WdType, HostIInv, ran # <<>>,
         pc \notin {"free", "reset"},
         UNCHANGED <<job, sent, ran, failed>>,
         wd' = wd \/ wd' = ReadInpOf(wd),
         pc' \in {"wait", "data", "sleep", "woken", "status", "waitmsg", "msg",
                  "waitfree"},
         pc' = "waitmsg" => got' = wd.check \/ (pc = "waitmsg" /\ got' = got)
  PROVE  LadderInv(wd, ran, failed)'
<1>1. ReadFrom(wd, wd')
  <2>1. ReadFrom(wd, wd)
    BY DEF ReadFrom
  <2> QED
    BY <2>1, ReadInpFields
<1>2. UnderWay(wd, ran, failed) /\ Executed(wd, failed) /\ "SRST" \notin wd.ctl
      /\ ran \in {<<>>, <<job>>}
  BY DEF HostIInv, LadderInv, UnderWay
<1>3. \A c : Pending(wd, c)' => Pending(wd, c) \/ c = "SET_INPFULL"
  BY <1>1 DEF ReadFrom, Pending
<1>4. ~Pending(wd, "PROCESS_SCSICMD")' /\ ~Pending(wd, "RESET")'
  BY <1>2, <1>3 DEF Executed, UnderWay
<1>5. wd'.state = wd.state /\ wd'.ctl = wd.ctl /\ wd'.check = wd.check
      /\ wd'.sense = wd.sense
      /\ ("SBUSY" \in wd.status => "SBUSY" \in wd'.status)
  BY <1>1 DEF ReadFrom
<1>6. wd.state # "MESSAGE" /\ wd.check = failed
      /\ (failed /\ job.op # "FORMAT" => wd.sense)
      /\ (pc = "waitmsg" => got = failed)
  BY <1>2, Zenon DEF Executed
<1>7. pc' = "waitmsg" => got' = failed'
  BY <1>6, Zenon
<1>8. Executed(wd, failed)'
  <2>1. wd'.check = failed' /\ (failed' /\ job'.op # "FORMAT" => wd'.sense)
    BY <1>5, <1>6, Zenon
  <2>2. wd'.state # "MESSAGE" /\ pc' \notin {"poll", "write"}
    BY <1>5, <1>6
  <2> QED
    BY <1>4, <1>7, <2>1, <2>2, Zenon DEF Executed
<1>9. UnderWay(wd, ran, failed)'
  <2>1. (wd.state # "IDLE" => "SBUSY" \in wd.status)
    BY <1>2 DEF UnderWay
  <2>2. ran' # <<>>
    OBVIOUS
  <2> QED
    BY <1>4, <1>5, <1>8, <2>1, <2>2, Zenon DEF UnderWay
<1>10. pc' \notin {"free", "reset"}
  OBVIOUS
<1>11. ran' \in {<<>>, <<job'>>} /\ "SRST" \notin wd'.ctl
  BY <1>2, <1>5
<1> QED
  BY <1>9, <1>10, <1>11, Zenon DEF LadderInv

(* When the input register is full, the command has been executed; what    *)
(* the driver sees is the status register itself, and it is never empty    *)
(* before.                                                                 *)
LEMMA SeenStatus ==
  ASSUME HostIInv, pc \notin {"free", "reset"}
  PROVE  /\ StatusRead = wd.status
         /\ "INPFULL" \in wd.status \/ wd.status = {} => ran # <<>>
         /\ pc \notin {"poll", "write", "wait", "sleep", "woken"} => ran # <<>>
         /\ wd.status = {} => wd.state = "IDLE"
<1>1. UnderWay(wd, ran, failed) /\ "SRST" \notin wd.ctl
  BY DEF HostIInv, LadderInv
<1>2. StatusRead = wd.status
  BY <1>1 DEF StatusRead
<1>3. ran = <<>> => Coming(wd)
  BY <1>1 DEF UnderWay
<1>4. wd.state # "IDLE" \/ ran = <<>> => "SBUSY" \in wd.status
  BY <1>1 DEF UnderWay
<1> QED
  BY <1>2, <1>3, <1>4 DEF Coming

LEMMA WorksKeeps ==
  ASSUME wd \in WdType, HostIInv, Works
  PROVE  HostIInv'
<1> USE DEF Go
<1>1. pc \in Pcs /\ job \in Jobs /\ sent \in Nat /\ Driver
      /\ LadderInv(wd, ran, failed)
  BY DEF HostIInv, Driver
<1>2. CASE SeesEmpty
  <2>1. /\ pc = "poll" /\ pc' = "write" /\ "OUTEMPTY" \in StatusRead
        /\ UNCHANGED <<wd, irq, job, sent, got, ran, failed>>
    BY <1>2 DEF SeesEmpty, Looks, vars, history
  <2>2. "OUTEMPTY" \in wd.status
    BY <2>1, SeenStatus
  <2>3. UnderWay(wd, ran, failed) /\ ran = <<>> /\ Coming(wd)
    BY <1>1, <2>1 DEF LadderInv, UnderWay, Executed
  <2>4. ~Pending(wd, "PROCESS_SCSICMD")
    BY <2>2, <2>3 DEF Coming
  <2>5. Coming(wd)'
    BY <2>1, <2>3, <2>4
       DEF Coming, Pending, BytesOf, CdbLen, FromHost, DmaOn, DataAmong
  <2>6. UnderWay(wd, ran, failed)'
    BY <2>1, <2>3, <2>5 DEF UnderWay, Pending
  <2>7. LadderInv(wd, ran, failed)'
    BY <1>1, <2>1, <2>6 DEF LadderInv
  <2> QED
    BY <1>1, <2>1, <2>7 DEF HostIInv, NoLostWakeup, Pcs
<1>3. CASE WriteByte
  <2>1. /\ pc = "write" /\ HostWrite(job.op, job.unit) /\ sent' = sent + 1
        /\ pc' = IF sent' < BytesOf(wd') THEN "poll"
                 ELSE IF Sleeps(wd) THEN "sleep" ELSE "wait"
        /\ UNCHANGED <<job, got, ran, failed>>
    BY <1>3 DEF WriteByte, history
  <2>2. UnderWay(wd, ran, failed) /\ ran = <<>> /\ Coming(wd)
        /\ "SRST" \notin wd.ctl /\ "SBUSY" \in wd.status
    BY <1>1, <2>1 DEF LadderInv, UnderWay, Executed
  <2>3. /\ wd.state = "IDLE" /\ wd.scsiIdx = sent
        /\ wd.status \cap {"INPFULL", "OPCOMP"} = {}
        /\ ~Pending(wd, "PROCESS_SCSICMD")
        /\ wd.dataIdx = DataAmong(wd, sent)
        /\ (sent = 0 \/ sent < BytesOf(wd))
        /\ (sent >= 1 => wd.opcode = job.op)
        /\ (sent >= 2 => wd.unit = job.unit)
    BY <2>1, <2>2 DEF Coming
  <2>4. /\ wd'.state = wd.state /\ wd'.ctl = wd.ctl
        /\ wd'.scsiIdx = wd.scsiIdx + 1 /\ wd'.dataIdx = wd.dataIdx
        /\ wd'.status = wd.status \ {"OUTEMPTY"}
        /\ wd'.command = "PROCESS_SCSICMD" /\ wd'.cmdCounter = CmdCount
        /\ wd'.opcode = (IF wd.scsiIdx = 0 THEN job.op ELSE wd.opcode)
        /\ wd'.unit = (IF wd.scsiIdx = 1 THEN job.unit ELSE wd.unit)
    BY <2>1 DEF HostWrite, WdType
  <2>5. sent' \in Nat /\ sent' >= 1 /\ sent' - 1 = sent /\ CmdCount # 0
    BY <1>1, <2>1, WdAssumption
  <2>6. wd'.opcode = job.op /\ (sent' >= 2 => wd'.unit = job.unit)
    BY <1>1, <2>1, <2>3, <2>4
  <2>7. wd' \in WdType
    <3>1. job.op \in AllOpcodes /\ job.unit \in Units
          /\ "PROCESS_SCSICMD" \in WdCommands
      BY <1>1, JobParts DEF WdCommands
    <3>2. wd.scsiIdx + 1 \in 0 .. BufMax
      BY <2>1, WdAssumption DEF HostWrite, WdType
    <3> QED
      BY <2>1, <3>1, <3>2, Counts DEF HostWrite, WdType
  <2>8. /\ FromHost(wd') \in Nat /\ CdbLen(wd') \in Nat /\ CdbLen(wd') >= 2
        /\ CdbLen(wd) \in Nat /\ CdbLen(wd) >= 2
        /\ BytesOf(wd') = CdbLen(wd') + FromHost(wd')
    BY <2>7, Lengths DEF BytesOf
  <2>9. /\ sent' <= BytesOf(wd') /\ wd'.dataIdx = DataAmong(wd', sent)
    <3>1. CASE sent = 0
      BY <2>1, <2>3, <2>4, <2>8, <3>1 DEF DataAmong
    <3>2. CASE sent # 0
      <4>1. wd'.opcode = wd.opcode
        BY <1>1, <2>3, <2>4, <3>2
      <4>2. CdbLen(wd') = CdbLen(wd) /\ BytesOf(wd') = BytesOf(wd)
        BY <2>4, <4>1 DEF CdbLen, BytesOf, FromHost, DmaOn
      <4> QED
        BY <1>1, <2>1, <2>3, <2>4, <2>8, <3>2, <4>2 DEF DataAmong
    <3> QED
      BY <3>1, <3>2
  <2>10. /\ pc' \in {"poll", "wait", "sleep"}
         /\ (IF pc' = "poll" THEN sent' < BytesOf(wd') ELSE sent' >= 2)
         /\ (pc' = "sleep" => Sleeps(wd))
    BY <2>1, <2>5, <2>8
  <2>11. BytesOf(wd)' = BytesOf(wd') /\ (\A n : DataAmong(wd, n)' = DataAmong(wd', n))
    BY DEF BytesOf, CdbLen, FromHost, DmaOn, DataAmong
  <2>12. Pending(wd, "PROCESS_SCSICMD")' /\ ~Pending(wd, "SET_INPFULL")'
         /\ ~Pending(wd, "RESET")'
    BY <2>4, <2>5 DEF Pending
  <2>13. DataAmong(wd, sent - 1)' = DataAmong(wd', sent)
    <3>1. DataAmong(wd, sent - 1)' = DataAmong(wd', sent' - 1)
      BY DEF DataAmong, CdbLen
    <3> QED
      BY <2>5, <3>1
  <2>14. Coming(wd)'
    BY <1>1, <2>1, <2>3, <2>4, <2>5, <2>6, <2>9, <2>10, <2>11, <2>12, <2>13
       DEF Coming
  <2>15. UnderWay(wd, ran, failed)'
    <3>1. "SBUSY" \in wd'.status /\ ran' = <<>>
      BY <2>1, <2>2, <2>4
    <3> QED
      BY <2>12, <2>14, <3>1 DEF UnderWay
  <2>16. LadderInv(wd, ran, failed)'
    BY <1>1, <2>1, <2>2, <2>4, <2>10, <2>15 DEF LadderInv
  <2>17. (pc \in {"sleep", "woken"} => SleepInv(wd, 0))'
    <3> SUFFICES ASSUME pc' = "sleep"
                 PROVE  SleepInv(wd, 0)'
      BY <2>10
    <3>1. Sleeps(wd)'
      BY <2>4, <2>10 DEF Sleeps
    <3> QED
      BY <2>3, <2>4, <3>1 DEF SleepInv
  <2>18. NoLostWakeup'
    BY <2>3, <2>4 DEF NoLostWakeup
  <2>19. (pc \in Pcs /\ job \in Jobs /\ sent \in Nat)'
    BY <1>1, <2>1, <2>5, <2>10 DEF Pcs
  <2> QED
    BY <2>16, <2>17, <2>18, <2>19 DEF HostIInv
<1>4. CASE SeesData \/ SeesStatus \/ ReadData \/ ReadStatusByte \/ SeesMessage
           \/ ReadMessage
  <2>1. /\ pc \in {"wait", "data", "status", "waitmsg", "msg"}
        /\ pc' \in {"wait", "data", "status", "waitmsg", "msg", "waitfree"}
        /\ pc \in {"wait", "waitmsg"} => "INPFULL" \in StatusRead
    BY <1>4 DEF SeesData, SeesStatus, ReadData, ReadStatusByte, SeesMessage,
         ReadMessage, Looks, StatusCC, DataIn48, MessageE8
  <2>2. ran # <<>>
    BY <2>1, SeenStatus
  <2>3. UNCHANGED <<job, sent, ran, failed>>
    BY <1>4 DEF SeesData, SeesStatus, ReadData, ReadStatusByte, SeesMessage,
         ReadMessage, Looks, history
  <2>4. wd' = wd \/ wd' = ReadInpOf(wd)
    BY <1>4 DEF SeesData, SeesStatus, ReadData, ReadStatusByte, SeesMessage,
         ReadMessage, Looks, ReadInp, vars
  <2>5. pc' = "waitmsg" => got' = wd.check
    BY <1>4 DEF SeesData, SeesStatus, ReadData, ReadStatusByte, SeesMessage,
         ReadMessage, Looks
  <2>6. LadderInv(wd, ran, failed)'
    BY <2>1, <2>2, <2>3, <2>4, <2>5, ReaderKeeps
  <2> QED
    BY <1>1, <2>1, <2>3, <2>6 DEF HostIInv, NoLostWakeup, Pcs
<1>5. CASE LooksAgain
  <2>1. /\ pc = "woken" /\ UNCHANGED <<wd, irq, job, sent, got, ran, failed>>
        /\ pc' = IF StatusRead = StatusCC THEN "status" ELSE "sleep"
    BY <1>5 DEF LooksAgain, Looks, vars, history
  <2>2. StatusRead = wd.status
    BY <2>1, SeenStatus
  <2>3. SleepInv(wd, 0)
    BY <2>1 DEF HostIInv
  <2>4. CASE pc' = "status"
    <3>1. ran # <<>>
      BY <2>1, <2>4, SeenStatus DEF StatusCC
    <3>2. LadderInv(wd, ran, failed)'
      BY <2>1, <2>4, <3>1, ReaderKeeps
    <3> QED
      BY <1>1, <2>1, <2>4, <3>2 DEF HostIInv, NoLostWakeup, Pcs
  <2>5. CASE pc' = "sleep"
    <3>1. wd.state # "STATUS"
      BY <2>1, <2>2, <2>3, <2>5 DEF SleepInv
    <3>2. CASE ran # <<>>
      <4>1. LadderInv(wd, ran, failed)'
        BY <2>1, <2>5, <3>2, ReaderKeeps
      <4> QED
        BY <1>1, <2>1, <2>3, <2>5, <3>1, <4>1
           DEF HostIInv, NoLostWakeup, Pcs, SleepInv, Sleeps, RunsDown
    <3>3. CASE ran = <<>>
      <4>1. UnderWay(wd, ran, failed) /\ Coming(wd)
        BY <1>1, <2>1, <3>3 DEF LadderInv, UnderWay
      <4>2. Coming(wd)'
        BY <2>1, <2>5, <4>1
           DEF Coming, Pending, BytesOf, CdbLen, FromHost, DmaOn, DataAmong
      <4>3. UnderWay(wd, ran, failed)'
        BY <2>1, <3>3, <4>1, <4>2 DEF UnderWay, Pending
      <4>4. LadderInv(wd, ran, failed)'
        BY <1>1, <2>1, <2>5, <4>3 DEF LadderInv
      <4> QED
        BY <1>1, <2>1, <2>3, <2>5, <3>1, <4>4
           DEF HostIInv, NoLostWakeup, Pcs, SleepInv, Sleeps, RunsDown
    <3> QED
      BY <3>2, <3>3
  <2> QED
    BY <2>1, <2>4, <2>5
<1>6. CASE SeesFree
  <2>1. /\ pc = "waitfree" /\ pc' = "free" /\ StatusRead = {} /\ sent' = 0
        /\ UNCHANGED <<wd, irq, job, ran, failed>>
    BY <1>6 DEF SeesFree, vars, history
  <2>2. wd.state = "IDLE" /\ ran # <<>>
    BY <2>1, SeenStatus
  <2>3. ~Pending(wd, "PROCESS_SCSICMD")
    BY <1>1, <2>1, <2>2 DEF LadderInv, UnderWay, Executed
  <2>4. LadderInv(wd, ran, failed)'
    BY <1>1, <2>1, <2>2, <2>3 DEF LadderInv, AtRest, Pending
  <2> QED
    BY <1>1, <2>1, <2>4 DEF HostIInv, NoLostWakeup, Pcs
<1> QED
  BY <1>2, <1>3, <1>4, <1>5, <1>6 DEF Works

(* What the driver and the user do outside of a command, or to end it.     *)
LEMMA OthersKeep ==
  ASSUME wd \in WdType, irq \in IrqType, HostIInv,
         \/ TakeInterrupt \/ TestDma \/ ForgetBusErr \/ GiveUp \/ Reboot
         \/ \E m \in Modes : SetMode(m)
         \/ \E j \in Jobs : Start(j)
         \/ \E u \in Attached, there \in BOOLEAN : ChangeImage(u, there)
         \/ UNCHANGED allVars
  PROVE  HostIInv'
<1> USE DEF Go
<1>1. /\ pc \in Pcs /\ job \in Jobs /\ sent \in Nat /\ LadderInv(wd, ran, failed)
      /\ ran \in {<<>>, <<job>>}
  BY DEF HostIInv, LadderInv
(* At rest nothing is said of the command, so that what the driver does    *)
(* there is harmless as long as the controller stays idle.                 *)
<1>2. ASSUME pc' \in {"free", "reset"}, pc' = "free" => "SRST" \notin wd'.ctl,
             AtRest(wd'), UNCHANGED <<job, ran, failed>>, sent' \in Nat
      PROVE  HostIInv'
  <2>1. AtRest(wd)'
    BY <1>2 DEF AtRest, Pending
  <2>2. LadderInv(wd, ran, failed)'
    BY <1>1, <1>2, <2>1 DEF LadderInv
  <2> QED
    BY <1>1, <1>2, <2>2 DEF HostIInv, NoLostWakeup, Pcs
<1>3. CASE TakeInterrupt
  <2>1. /\ UNCHANGED <<wd, job, sent, got, ran, failed>>
        /\ pc' = (IF pc = "sleep" THEN "woken" ELSE pc)
    BY <1>3 DEF TakeInterrupt, WdIrqAck, history
  <2>2. (\A c : Pending(wd, c)' <=> Pending(wd, c)) /\ BytesOf(wd)' = BytesOf(wd)
        /\ DataAmong(wd, sent)' = DataAmong(wd, sent)
        /\ DataAmong(wd, sent - 1)' = DataAmong(wd, sent - 1)
    BY <2>1 DEF Pending, BytesOf, CdbLen, FromHost, DmaOn, DataAmong
  <2>3. Coming(wd) => Coming(wd)'
    BY <2>1, <2>2 DEF Coming
  <2>4. Executed(wd, failed) => Executed(wd, failed)'
    <3>1. (pc' = "waitmsg" => pc = "waitmsg")
          /\ (pc' \in {"poll", "write"} => pc \in {"poll", "write"})
      BY <2>1
    <3> QED
      BY <2>1, <2>2, <3>1, Zenon DEF Executed
  <2>5. UnderWay(wd, ran, failed) => UnderWay(wd, ran, failed)'
    BY <2>1, <2>2, <2>3, <2>4, Zenon DEF UnderWay
  <2>6. AtRest(wd) => AtRest(wd)'
    BY <2>1, <2>2 DEF AtRest
  <2>7. LadderInv(wd, ran, failed)'
    BY <1>1, <2>1, <2>5, <2>6 DEF LadderInv
  <2>8. (pc \in {"sleep", "woken"} => SleepInv(wd, 0))'
    BY <2>1 DEF HostIInv, SleepInv, Sleeps, RunsDown
  <2>9. NoLostWakeup'
    BY <2>1 DEF NoLostWakeup
  <2> QED
    BY <1>1, <2>1, <2>7, <2>8, <2>9 DEF HostIInv, Pcs
<1>4. CASE TestDma \/ ForgetBusErr
  <2>1. /\ pc = "free" /\ UNCHANGED <<pc, job, sent, ran, failed>>
        /\ wd' \in {[wd EXCEPT !.status = @ \cup {"BUSERR"}],
                    [wd EXCEPT !.status = @ \ {"BUSERR"}]}
    BY <1>4 DEF TestDma, ForgetBusErr, DmaTest, ClearBusErr, hostVars, history
  <2>2. wd'.state = wd.state /\ wd'.ctl = wd.ctl /\ wd'.command = wd.command
        /\ wd'.cmdCounter = wd.cmdCounter
    BY <2>1 DEF WdType
  <2>3. AtRest(wd') /\ "SRST" \notin wd'.ctl
    BY <1>1, <2>1, <2>2 DEF LadderInv, AtRest, Pending
  <2> QED
    BY <1>1, <1>2, <2>1, <2>3
<1>5. CASE GiveUp
  <2>1. /\ pc' = "reset" /\ UNCHANGED <<job, ran, failed>> /\ sent' = 0
        /\ wd' = [SoftReset(wd) EXCEPT !.ctl = {"SRST"}]
    BY <1>5 DEF GiveUp, WriteCtl2, history
  <2>2. wd'.state = "IDLE" /\ wd'.command = "RESET"
    BY <2>1 DEF SoftReset, WdType
  <2>3. AtRest(wd')
    BY <2>2 DEF AtRest, Pending
  <2> QED
    BY <1>2, <2>1, <2>3
<1>6. CASE Reboot
  <2>1. /\ pc' = "free" /\ UNCHANGED <<job, ran, failed>> /\ sent' = 0
        /\ wd' = ResetRegs(wd.lastSeek, wd.images)
    BY <1>6 DEF Reboot, PulseReset, history
  <2>2. AtRest(wd') /\ "SRST" \notin wd'.ctl
    BY <2>1 DEF ResetRegs, AtRest, Pending
  <2> QED
    BY <1>2, <2>1, <2>2
<1>7. ASSUME NEW m \in Modes, SetMode(m)
      PROVE  HostIInv'
  <2>1. /\ pc \in {"free", "reset"} /\ pc' = "free"
        /\ UNCHANGED <<job, sent, ran, failed>>
        /\ "SRST" \notin m
    BY <1>7, HostAssumption DEF SetMode, history
  <2>2. wd' = [wd EXCEPT !.ctl = m]
    BY <1>7, <2>1 DEF SetMode, WriteCtl2
  <2>3. wd'.state = wd.state /\ wd'.ctl = m /\ wd'.command = wd.command
        /\ wd'.cmdCounter = wd.cmdCounter
    BY <2>2 DEF WdType
  <2>4. AtRest(wd')
    BY <1>1, <2>1, <2>3 DEF LadderInv, AtRest, Pending
  <2> QED
    BY <1>1, <1>2, <2>1, <2>3, <2>4
<1>8. ASSUME NEW j \in Jobs, Start(j)
      PROVE  HostIInv'
  <2>1. /\ pc = "free" /\ pc' = "poll" /\ job' = j /\ sent' = 0
        /\ ran' = <<>> /\ failed' = FALSE /\ Select(TRUE)
    BY <1>8 DEF Start
  <2>2. /\ wd'.state = wd.state /\ wd'.status = Selected42 /\ wd'.ctl = wd.ctl
        /\ wd'.cmdCounter = 0 /\ wd'.scsiIdx = 0 /\ wd'.dataIdx = 0
        /\ wd'.opcode = wd.opcode
    BY <2>1 DEF Select, WdType
  <2>3. wd.state = "IDLE" /\ "SRST" \notin wd.ctl
    BY <1>1, <2>1 DEF LadderInv, AtRest
  <2>4. \A c : ~Pending(wd, c)'
    BY <2>2 DEF Pending
  <2>5. DataAmong(wd, sent)' = 0
    <3>1. CdbLen(wd') \in Nat
      BY WdAssumption DEF CdbLen
    <3>2. DataAmong(wd, sent)' = DataAmong(wd', sent')
      BY DEF DataAmong, CdbLen
    <3> QED
      BY <2>1, <3>1, <3>2 DEF DataAmong
  <2>6. Coming(wd)'
    BY <2>1, <2>2, <2>3, <2>4, <2>5 DEF Coming, Selected42
  <2>7. UnderWay(wd, ran, failed)'
    BY <2>1, <2>2, <2>4, <2>6 DEF UnderWay, Selected42
  <2>8. LadderInv(wd, ran, failed)'
    BY <2>1, <2>2, <2>3, <2>7 DEF LadderInv
  <2> QED
    BY <2>1, <2>8 DEF HostIInv, NoLostWakeup, Pcs
<1>9. CASE \/ \E u \in Attached, there \in BOOLEAN : ChangeImage(u, there)
           \/ UNCHANGED allVars
  <2>1. UNCHANGED <<irq, ran, failed>> /\ UNCHANGED hostVars
    BY <1>9 DEF ChangeImage, AttachImage, allVars, history, vars
  <2>2. /\ wd'.status = wd.status /\ wd'.ctl = wd.ctl /\ wd'.state = wd.state
        /\ wd'.cmdCounter = wd.cmdCounter /\ wd'.command = wd.command
        /\ wd'.scsiIdx = wd.scsiIdx /\ wd'.dataIdx = wd.dataIdx
        /\ wd'.opcode = wd.opcode /\ wd'.unit = wd.unit
        /\ wd'.check = wd.check /\ wd'.sense = wd.sense
        /\ wd'.stateCounter = wd.stateCounter
    BY <1>9 DEF ChangeImage, AttachImage, allVars, vars, WdType
  <2>3. LadderInv(wd, ran, failed)'
    <3>1. LadderInv(wd', ran, failed)
      BY <1>1, <2>2, LadderSame
    <3>2. LadderInv(wd', ran', failed')
      BY <2>1, <3>1, Zenon
    <3> QED
      BY <2>1, <3>2, SameDriver
  <2>4. (pc \in {"sleep", "woken"} => SleepInv(wd, 0))'
    BY <2>1, <2>2 DEF HostIInv, SleepInv, Sleeps, RunsDown, hostVars
  <2>5. NoLostWakeup'
    BY <2>1, <2>2 DEF HostIInv, NoLostWakeup, hostVars
  <2> QED
    BY <1>1, <2>1, <2>3, <2>4, <2>5 DEF HostIInv, hostVars
<1> QED
  BY <1>3, <1>4, <1>5, <1>6, <1>7, <1>8, <1>9

(* The driver's knowledge of the controller is an invariant, through given *)
(* up commands, resets and image changes, for any counts, lengths,         *)
(* commands, modes and images.                                             *)
THEOREM DriverInvariant == HostSpec => []HostIInv
<1>1. HostInit => HostIInv
  <2> SUFFICES ASSUME HostInit
               PROVE  HostIInv
    OBVIOUS
  <2>1. wd = ResetRegs({}, Attached) /\ pc = "free" /\ job \in Jobs /\ sent = 0
        /\ ran = <<>>
    BY DEF HostInit, Init
  <2>2. AtRest(wd) /\ "SRST" \notin wd.ctl
    BY <2>1 DEF ResetRegs, AtRest, Pending
  <2>3. LadderInv(wd, ran, failed)
    BY <2>1, <2>2 DEF LadderInv
  <2> QED
    BY <2>1, <2>3 DEF HostIInv, NoLostWakeup, Pcs
<1>2. HostIInv /\ Registers /\ IrqInv /\ [HostNext]_allVars => HostIInv'
  <2> SUFFICES ASSUME HostIInv, wd \in WdType, irq \in IrqType,
                      [HostNext]_allVars
               PROVE  HostIInv'
    BY DEF Registers, IrqInv
  <2>1. CASE Tick
    BY <2>1, TickKeeps
  <2>2. CASE Works
    BY <2>2, WorksKeeps
  <2>3. CASE \/ TakeInterrupt \/ TestDma \/ ForgetBusErr \/ GiveUp \/ Reboot
             \/ \E m \in Modes : SetMode(m)
             \/ \E j \in Jobs : Start(j)
             \/ \E u \in Attached, there \in BOOLEAN : ChangeImage(u, there)
             \/ UNCHANGED allVars
    BY <2>3, OthersKeep
  <2> QED
    BY <2>1, <2>2, <2>3 DEF HostNext
<1> QED
  BY <1>1, <1>2, DriverIsHost, RegistersTyped, WdIrqInvariant, PTL DEF HostSpec

(* A command runs at most once, it is the one that was started, and it has *)
(* run when the driver comes to read its status.                           *)
THEOREM RunsOnce == HostSpec => []ExecutedOnce
<1>1. HostIInv => ExecutedOnce
  BY DEF HostIInv, LadderInv, UnderWay, Coming, ExecutedOnce
<1> QED
  BY <1>1, DriverInvariant, PTL

(* The status byte that the driver has read is the one of its command.     *)
THEOREM StatusIsTrue == HostSpec => []FailureReported
<1>1. HostIInv => FailureReported
  <2> SUFFICES ASSUME HostIInv, pc = "waitmsg"
               PROVE  got = failed /\ (failed /\ job.op # "FORMAT" => wd.sense)
    BY Zenon DEF FailureReported
  <2>1. UnderWay(wd, ran, failed)
    BY DEF HostIInv, LadderInv
  <2>2. ran # <<>>
    BY <2>1 DEF UnderWay, Coming
  <2> QED
    BY <2>1, <2>2, Zenon DEF UnderWay, Executed
<1> QED
  BY <1>1, DriverInvariant, PTL

(* A sleeping driver whose status is ready has its interrupt to come.      *)
THEOREM WakesUp == HostSpec => []NoLostWakeup
<1>1. HostIInv => NoLostWakeup
  BY DEF HostIInv
<1> QED
  BY <1>1, DriverInvariant, PTL
=============================================================================

------------------------------ MODULE FdProofs ------------------------------
(***************************************************************************)
(* Proofs about the floppy controller.  What holds whatever the CPU does   *)
(* (FdInv) is proved of Fd; the driver is shown to do nothing else with    *)
(* the controller, and what it may rely on follows from an invariant about *)
(* where it stands in a command.                                           *)
(***************************************************************************)
EXTENDS FdHost, TLAPS

-----------------------------------------------------------------------------
(* A command: what it leaves, whether it is accepted or not.               *)
LEMMA RegsTyped ==
  /\ 0 \in Reg /\ 1 \in Reg /\ 0 \in 0 .. ExecCount
  /\ ResetFd \in FdType /\ BlankDisk \in DiskType
<1>1. 0 \in Reg /\ 1 \in Reg /\ 0 \in 0 .. ExecCount /\ Blank \in Values
  BY FdAssumption DEF Reg
<1>2. ResetFd \in FdType
  BY <1>1 DEF ResetFd, FdType, CmdValues, Commands, Moves, StatBits, Options, Drives,
              Sides
<1>3. BlankDisk \in DiskType
  BY <1>1 DEF BlankDisk, DiskType
<1> QED
  BY <1>1, <1>2, <1>3

LEMMA InitInv == Init => FdInv
<1> SUFFICES ASSUME Init PROVE FdInv
  OBVIOUS
<1>1. fd \in FdType /\ disk \in DiskType
  BY RegsTyped DEF Init
<1>2. irq \in IrqType /\ ~irq.line
  BY DEF Init, IrqType
<1>3. ~fd.running /\ ~fd.intra /\ ~Ready(fd)
  BY DEF Init, ResetFd, Ready
<1> QED
  BY <1>1, <1>2, <1>3 DEF Init, FdInv, TypeOK, TurnToCome, NoFalseIntr, Images

LEMMA IrqKept ==
  ASSUME NEW q \in IrqType, NEW want \in BOOLEAN, q.line => q.asserted
  PROVE  /\ UpdateIrq(q, want) \in IrqType
         /\ UpdateIrq(q, want).line => UpdateIrq(q, want).asserted
BY DEF UpdateIrq, IrqType

LEMMA InterruptKept ==
  ASSUME NEW q \in IrqType, NEW w, q.line => q.asserted
  PROVE  /\ Interrupt(q, w) \in IrqType
         /\ Interrupt(q, w).line => Interrupt(q, w).asserted
BY IrqKept DEF Interrupt

LEMMA LbaTyped ==
  ASSUME NEW w \in FdType, NEW c, Accepted(w, c), c \in Transfers
  PROVE  Lba(w) \in 0 .. Blocks - 1
<1>1. /\ w.track \in Nat /\ w.side \in {0, 1} /\ w.sector \in Nat
      /\ w.sector >= 1 /\ SectorsPerTrack \in Nat /\ Blocks \in Nat
  BY FdAssumption DEF FdType, Reg, Sides, Accepted, Addressed, Moves, Transfers
<1>2. w.track * Sides + w.side \in Nat
  BY <1>1 DEF Sides
<1>3. (w.track * Sides + w.side) * SectorsPerTrack \in Nat
  BY <1>1, <1>2
<1>4. Lba(w) < Blocks
  BY DEF Accepted, Moves, Transfers
<1> QED
  BY <1>1, <1>3, <1>4 DEF Lba

LEMMA StartedTyped ==
  ASSUME NEW w \in FdType, NEW c \in Commands, Accepted(w, c), disk \in DiskType
  PROVE  Started(w, c) \in FdType
<1>1. c = "READ_REC" => disk[Lba(w)] \in Values
  BY LbaTyped DEF DiskType, Transfers
<1>2. ExecCount \in 0 .. ExecCount
  BY FdAssumption
<1> QED
  BY <1>1, <1>2 DEF Started, FdType, CmdValues, StatBits

LEMMA RefusedTyped ==
  ASSUME NEW w \in FdType, NEW c \in Commands
  PROVE  [w EXCEPT !.cmd = c, !.stat = Refusal(w, c)] \in FdType
<1>1. Refusal(w, c) \in SUBSET StatBits
  BY DEF Refusal, FdType, StatBits, LostData, BadId
<1> QED
  BY <1>1 DEF FdType, CmdValues

LEMMA ExecuteInv ==
  ASSUME NEW w \in FdType, NEW c \in Commands, FdInv, Execute(w, c), img' = img,
         w.running = fd.running, w.intra = fd.intra, w.sel = fd.sel
  PROVE  FdInv'
<1>1. CASE Accepted(w, c) /\ fd' = Started(w, c)
  <2>1. fd' \in FdType
    BY <1>1, StartedTyped DEF FdInv, TypeOK
  <2>2. irq' \in IrqType /\ (irq'.line => irq'.asserted) /\ armed' = TRUE
    BY <1>1, InterruptKept DEF Execute, FdInv, TypeOK, NoFalseIntr
  <2>3. disk' \in DiskType
    BY <1>1, LbaTyped DEF Execute, FdInv, TypeOK, DiskType, FdType, Transfers
  <2>4. fd'.intra = FALSE
    BY <1>1 DEF Started, FdType
  <2> QED
    BY <2>1, <2>2, <2>3, <2>4 DEF FdInv, TypeOK, TurnToCome, NoFalseIntr
<1>2. CASE ~Accepted(w, c) /\ fd' = [w EXCEPT !.cmd = c, !.stat = Refusal(w, c)]
  <2>1. UNCHANGED <<irq, disk, armed>>
    BY <1>2 DEF Execute
  <2>2. fd' \in FdType
    BY <1>2, RefusedTyped
  <2>3. fd'.running = fd.running /\ fd'.intra = fd.intra /\ fd'.sel = fd.sel
    BY <1>2 DEF FdType
  <2> QED
    BY <2>1, <2>2, <2>3 DEF FdInv, TypeOK, TurnToCome, NoFalseIntr, Ready
<1> QED
  BY <1>1, <1>2 DEF Execute

-----------------------------------------------------------------------------
(* One lemma per operation of the controller.                              *)
LEMMA CommandInv ==
  ASSUME FdInv, NEW c \in Commands, Command(c)
  PROVE  FdInv'
<1>1. fd \in FdType
  BY DEF FdInv, TypeOK
<1>2. Execute(fd, c) /\ UNCHANGED img
  BY DEF Command
<1> QED
  BY <1>1, <1>2, ExecuteInv

LEMMA ForceInv ==
  ASSUME FdInv, NEW flags \in SUBSET IntFlags, ForceIntr(flags)
  PROVE  FdInv'
<1>1. fd' \in FdType /\ ~fd'.running
  <2>1. fd \in FdType /\ "FORCE_INTR" \in CmdValues
        /\ ("NOTREADY" \in flags) \in BOOLEAN
    BY DEF FdInv, TypeOK, CmdValues
  <2>2. fd' = [fd EXCEPT !.cmd = "FORCE_INTR", !.running = FALSE,
                         !.onStart = "NOTREADY" \in flags, !.stat = @ \ {"BUSY"}]
    BY DEF ForceIntr
  <2>3. fd.stat \ {"BUSY"} \in SUBSET StatBits
    BY <2>1 DEF FdType
  <2> DEFINE on == "NOTREADY" \in flags
             st == fd.stat \ {"BUSY"}
  <2>4. on \in BOOLEAN /\ st \in SUBSET StatBits
        /\ fd' = [fd EXCEPT !.cmd = "FORCE_INTR", !.running = FALSE,
                            !.onStart = on, !.stat = st]
    BY <2>1, <2>2, <2>3
  <2> HIDE DEF on, st
  <2> QED
    BY <2>1, <2>4 DEF FdType
<1>2. irq' \in IrqType /\ (irq'.line => irq'.asserted)
  BY IrqKept, InterruptKept DEF FdInv, TypeOK, NoFalseIntr, ForceIntr
<1> QED
  BY <1>1, <1>2 DEF FdInv, TypeOK, TurnToCome, NoFalseIntr, ForceIntr

LEMMA WriteRegInv ==
  ASSUME FdInv, NEW r \in {"track", "sector", "data"}, NEW v \in Reg, WriteReg(r, v)
  PROVE  FdInv'
<1>1. fd' \in FdType /\ fd'.running = fd.running /\ fd'.intra = fd.intra
      /\ fd'.sel = fd.sel
  <2>1. CASE r = "track"
    BY <2>1 DEF FdInv, TypeOK, WriteReg, FdType
  <2>2. CASE r = "sector"
    BY <2>2 DEF FdInv, TypeOK, WriteReg, FdType
  <2>3. CASE r = "data"
    BY <2>3 DEF FdInv, TypeOK, WriteReg, FdType
  <2> QED
    BY <2>1, <2>2, <2>3
<1> QED
  BY <1>1 DEF FdInv, TypeOK, TurnToCome, NoFalseIntr, WriteReg, Ready

LEMMA WriteBufferInv ==
  ASSUME FdInv, NEW v \in Values, WriteBuffer(v)
  PROVE  FdInv'
BY DEF FdInv, TypeOK, TurnToCome, NoFalseIntr, WriteBuffer, Ready, FdType

LEMMA WriteOptionsInv ==
  ASSUME FdInv, NEW o \in SUBSET Options, WriteOptions(o)
  PROVE  FdInv'
<1> DEFINE w == [fd EXCEPT !.opt = o]
<1>1. w \in FdType /\ w.running = fd.running /\ w.intra = fd.intra /\ w.sel = fd.sel
  BY DEF FdInv, TypeOK, FdType
<1>2. CASE "FRES" \notin o
  <2>1. fd' \in FdType /\ fd'.running = fd.running /\ fd'.intra = fd.intra
        /\ fd'.sel = {}
    <3>1. fd' = [w EXCEPT !.sel = {}, !.side = 0, !.cmd = "RESTORE", !.track = 0,
                          !.sector = 1, !.data = 0, !.stat = {}]
      BY <1>2 DEF WriteOptions
    <3>2. /\ {} \in SUBSET Drives /\ 0 \in 0 .. Sides - 1 /\ "RESTORE" \in CmdValues
          /\ {} \in SUBSET StatBits
      BY DEF Sides, CmdValues, Commands, Moves
    <3> HIDE DEF w
    <3> QED
      BY <1>1, <3>1, <3>2, RegsTyped DEF FdType
  <2> QED
    BY <1>2, <2>1 DEF FdInv, TypeOK, TurnToCome, NoFalseIntr, WriteOptions, Ready
<1>3. CASE "FRES" \in o /\ "FRES" \notin fd.opt
  <2>1. Execute(w, "RESTORE") /\ UNCHANGED img
    BY <1>3 DEF WriteOptions
  <2>2. "RESTORE" \in Commands
    BY DEF Commands, Moves
  <2> QED
    BY <1>1, <2>1, <2>2, ExecuteInv
<1>4. CASE "FRES" \in o /\ "FRES" \in fd.opt
  BY <1>4, <1>1 DEF FdInv, TypeOK, TurnToCome, NoFalseIntr, WriteOptions, Ready
<1> QED
  BY <1>2, <1>3, <1>4

LEMMA WriteControlInv ==
  ASSUME FdInv, NEW s \in SUBSET Drives, NEW side \in 0 .. Sides - 1,
         WriteControl(s, side)
  PROVE  FdInv'
<1>1. fd' \in FdType /\ fd'.running = fd.running /\ fd'.intra = fd.intra
  BY DEF FdInv, TypeOK, WriteControl, FdType
<1>2. Ready(fd)' => armed'
  BY DEF WriteControl, Ready
<1>3. armed => armed'
  BY DEF WriteControl
<1>4. armed' \in BOOLEAN
  BY DEF WriteControl
<1> QED
  BY <1>1, <1>2, <1>3, <1>4 DEF FdInv, TypeOK, TurnToCome, NoFalseIntr, WriteControl

LEMMA ReadStatusInv == FdInv /\ ReadStatus => FdInv'
BY DEF FdInv, TypeOK, TurnToCome, NoFalseIntr, ReadStatus, Ready, FdType, StatBits

LEMMA FdIrqAckInv == FdInv /\ FdIrqAck => FdInv'
<1> SUFFICES ASSUME FdInv, FdIrqAck PROVE FdInv'
  OBVIOUS
<1>1. irq' \in IrqType /\ (irq'.line => irq'.asserted)
  BY IrqKept DEF FdInv, TypeOK, NoFalseIntr, FdIrqAck
<1> QED
  BY <1>1 DEF FdInv, TypeOK, TurnToCome, NoFalseIntr, FdIrqAck, Ready

-----------------------------------------------------------------------------
(* A call of fd_processContinue.                                           *)
LEMMA HeadTyped ==
  ASSUME NEW w \in FdType
  PROVE  HeadAfter(w) \in Reg /\ DirAfter(w) \in {-1, 0, 1}
<1>1. w.data \in Reg /\ w.head \in Reg /\ w.dir \in {-1, 0, 1}
  BY DEF FdType
<1>2. Step(w) \in {-1, 0, 1}
  BY <1>1 DEF Step
<1>3. HeadAfter(w) \in Reg
  BY <1>1, RegsTyped DEF HeadAfter
<1>4. DirAfter(w) \in {-1, 0, 1}
  BY <1>1, <1>2 DEF DirAfter
<1> QED
  BY <1>3, <1>4

LEMMA CompletedTyped ==
  ASSUME NEW w \in FdType
  PROVE  /\ Completed(w) \in FdType
         /\ Completed(w).running = FALSE
         /\ Completed(w).sel = w.sel
<1> DEFINE v == [w EXCEPT !.running = FALSE]
<1>1. v \in FdType
  BY DEF FdType
<1>2. HeadAfter(v) \in Reg /\ DirAfter(v) \in {-1, 0, 1}
  BY <1>1, HeadTyped
<1>3. CASE w.cmd \in Moves
  <2>1. Completed(w) = [MovedHead(v) EXCEPT !.intra = TRUE]
    BY <1>3 DEF Completed
  <2>2. MovedHead(v) \in FdType /\ MovedHead(v).running = FALSE
        /\ MovedHead(v).sel = w.sel
    BY <1>1, <1>2 DEF MovedHead, FdType, StatBits
  <2> QED
    BY <2>1, <2>2 DEF FdType
<1>4. CASE w.cmd \notin Moves
  BY <1>1, <1>4 DEF Completed, FdType, StatBits
<1> QED
  BY <1>3, <1>4

LEMMA ProcessInv == FdInv /\ ProcessContinue => FdInv'
<1> SUFFICES ASSUME FdInv, ProcessContinue PROVE FdInv'
  OBVIOUS
<1>1. irq' \in IrqType /\ (irq'.line => irq'.asserted)
  BY InterruptKept DEF FdInv, TypeOK, NoFalseIntr, ProcessContinue
<1>2. fd' \in FdType /\ fd'.sel = fd.sel
      /\ (fd'.running => fd.running) /\ (fd'.intra => fd.intra \/ ~fd'.running)
  <2>1. CASE fd' = fd
    BY <2>1 DEF FdInv, TypeOK
  <2>2. CASE fd' = [fd EXCEPT !.countdown = @ - 1] /\ fd.countdown > 0
    <3>1. fd.countdown - 1 \in 0 .. ExecCount
      BY <2>2, FdAssumption DEF FdInv, TypeOK, FdType
    <3> QED
      BY <2>2, <3>1 DEF FdInv, TypeOK, FdType
  <2>3. CASE fd' = Completed(fd)
    BY <2>3, CompletedTyped DEF FdInv, TypeOK
  <2> QED
    BY <2>1, <2>2, <2>3 DEF ProcessContinue
<1>3. fd'.running \/ Ready(fd') => armed'
  <2>1. Ready(fd') <=> Ready(fd)
    BY <1>2 DEF Ready, ProcessContinue
  <2> QED
    BY <1>2, <2>1 DEF ProcessContinue, ProcessStops
<1> QED
  BY <1>1, <1>2, <1>3
     DEF FdInv, TypeOK, TurnToCome, NoFalseIntr, ProcessContinue, Ready

LEMMA AttachInv ==
  ASSUME FdInv, NEW kind \in {"rw", "ro"}, NEW content \in DiskType,
         Attach(kind, content)
  PROVE  FdInv'
BY DEF FdInv, TypeOK, TurnToCome, NoFalseIntr, Attach, Images

LEMMA DetachInv == FdInv /\ Detach => FdInv'
BY RegsTyped DEF FdInv, TypeOK, TurnToCome, NoFalseIntr, Detach, Ready, Images

LEMMA AttachOtherInv == FdInv /\ AttachOther => FdInv'
BY DEF FdInv, TypeOK, TurnToCome, NoFalseIntr, AttachOther

LEMMA PulseResetInv == FdInv /\ PulseReset => FdInv'
<1> SUFFICES ASSUME FdInv, PulseReset PROVE FdInv'
  OBVIOUS
<1>1. fd' \in FdType /\ disk' \in DiskType
  BY RegsTyped DEF PulseReset
<1>2. ~fd'.running /\ ~fd'.intra
  BY DEF PulseReset, ResetFd
<1>3. irq' \in IrqType /\ ~irq'.line
  BY DEF PulseReset, FdInv, TypeOK, IrqType
<1> QED
  BY <1>1, <1>2, <1>3
     DEF FdInv, TypeOK, TurnToCome, NoFalseIntr, PulseReset, Ready, Images

LEMMA StepInv == FdInv /\ [Next]_vars => FdInv'
<1> SUFFICES ASSUME FdInv, [Next]_vars PROVE FdInv'
  OBVIOUS
<1>1. CASE UNCHANGED vars
  BY <1>1 DEF vars, FdInv, TypeOK, TurnToCome, NoFalseIntr, Ready
<1>2. CASE Next
  BY <1>2, CommandInv, ForceInv, WriteRegInv, WriteBufferInv, WriteOptionsInv,
     WriteControlInv, ReadStatusInv, FdIrqAckInv, ProcessInv, AttachInv, DetachInv,
     AttachOtherInv, PulseResetInv DEF Next
<1> QED
  BY <1>1, <1>2

(* Whatever the CPU and the user do, a command that was accepted and a     *)
(* selected disk have a call of fd_processContinue to come (FdInv).        *)
THEOREM TurnsToCome == Spec => []FdInv
<1> QED
  BY InitInv, StepInv, PTL DEF Spec

-----------------------------------------------------------------------------
(* The driver does with the controller what the CPU can do.                *)
LEMMA HostStep == [HostNext]_allVars => [Next]_vars
<1> SUFFICES ASSUME [HostNext]_allVars PROVE [Next]_vars
  OBVIOUS
<1>1. CASE UNCHANGED allVars
  BY <1>1 DEF allVars
<1>2. CASE Configure
  <2>1. ASSUME NEW o \in OptionValues, WriteOptions(o)
        PROVE  Next
    BY <2>1, HostAssumption DEF Next
  <2>2. ASSUME NEW c \in Controls, WriteControl(c.sel, c.side)
        PROVE  Next
    BY <2>2, HostAssumption DEF Next
  <2>3. ASSUME NEW r \in Settable, NEW v \in Reg, WriteReg(r, v)
        PROVE  Next
    BY <2>3, HostAssumption DEF Next
  <2>4. ASSUME NEW v \in Values, WriteBuffer(v)
        PROVE  Next
    BY <2>4 DEF Next
  <2> QED
    BY <1>2, <2>1, <2>2, <2>3, <2>4 DEF Configure
<1>3. CASE \E c \in Issued : Issue(c)
  BY <1>3, HostAssumption DEF Issue, Next
<1>4. CASE \E flags \in ForceFlags : GivesUp(flags)
  BY <1>4, HostAssumption DEF GivesUp, Next, IntFlags
<1>5. CASE \E kind \in {"rw", "ro"} : ChangeDisk(kind)
  BY <1>5, RegsTyped DEF ChangeDisk, Next
<1>6. CASE Looks \/ TakeInterrupt \/ Tick \/ RemoveDisk \/ OtherDrive \/ Reboot
  BY <1>6 DEF Looks, TakeInterrupt, Tick, RemoveDisk, OtherDrive, Reboot, Next
<1> QED
  BY <1>1, <1>2, <1>3, <1>4, <1>5, <1>6 DEF HostNext

LEMMA HostFdStep == FdInv /\ [HostNext]_allVars => FdInv'
BY HostStep, StepInv

(* What the driver may do is among what fd.c has to stand (Spec).          *)
THEOREM DriverIsCpu == HostSpec => Spec
<1>1. HostInit => Init
  BY DEF HostInit
<1> QED
  BY <1>1, HostStep, PTL DEF HostSpec, Spec

-----------------------------------------------------------------------------
(* Where the driver stands: between commands the line is down and nothing  *)
(* runs; the line rises only where it waits for it.                        *)
DriverInv ==
  /\ pc \in Pcs
  /\ InterruptMeansDone
  /\ ~fd.onStart
  /\ irq.line => Sleeps
  /\ fd.running => fd.cmd \in Moves \cup Transfers /\ pc \in {"wait", "seen"}
  /\ pc \in {"idle", "woken"} => ~irq.line
  /\ pc = "seen" => ~Sleeps

LEMMA DriverInit == HostInit => DriverInv
BY DEF HostInit, Init, ResetFd, DriverInv, InterruptMeansDone, Pcs

LEMMA ExecuteDriver ==
  ASSUME FdInv, DriverInv, pc = "idle", pc' = "wait",
         NEW w \in FdType, NEW c \in Commands, Execute(w, c),
         w.running = fd.running, w.stat = fd.stat, ~w.onStart
  PROVE  DriverInv'
<1>1. ~irq.line /\ ~fd.running /\ "BUSY" \notin fd.stat /\ irq' = irq
  BY DEF DriverInv, InterruptMeansDone, Execute
<1>2. CASE Accepted(w, c) /\ fd' = Started(w, c)
  <2>1. fd'.running = TRUE /\ "BUSY" \in fd'.stat /\ fd'.cmd = c /\ ~fd'.onStart
    BY <1>2 DEF Started, FdType
  <2>2. c \in Moves \cup Transfers
    BY <1>2 DEF Accepted
  <2> QED
    BY <1>1, <2>1, <2>2 DEF DriverInv, InterruptMeansDone, Pcs
<1>3. CASE ~Accepted(w, c) /\ fd' = [w EXCEPT !.cmd = c, !.stat = Refusal(w, c)]
  <2>1. ~fd'.running /\ fd'.stat = Refusal(w, c) /\ ~fd'.onStart
    BY <1>1, <1>3 DEF FdType
  <2>2. "BUSY" \notin Refusal(w, c)
    BY <1>1 DEF Refusal, LostData, BadId
  <2> QED
    BY <1>1, <2>1, <2>2 DEF DriverInv, InterruptMeansDone, Pcs
<1> QED
  BY <1>2, <1>3 DEF Execute

LEMMA IssueDriver ==
  ASSUME FdInv, DriverInv, NEW c \in Issued, Issue(c)
  PROVE  DriverInv'
<1>1. fd \in FdType /\ c \in Commands /\ Execute(fd, c) /\ ~fd.onStart
  BY HostAssumption DEF FdInv, TypeOK, Issue, Command, DriverInv
<1>2. pc = "idle" /\ pc' = "wait"
  BY DEF Issue
<1> QED
  BY <1>1, <1>2, ExecuteDriver

LEMMA ConfigureDriver == FdInv /\ DriverInv /\ Configure => DriverInv'
<1> SUFFICES ASSUME FdInv, DriverInv, Configure PROVE DriverInv'
  OBVIOUS
<1>1. pc = "idle" /\ ~irq.line /\ ~fd.running /\ "BUSY" \notin fd.stat
      /\ ~fd.onStart /\ fd \in FdType
  BY DEF Configure, DriverInv, InterruptMeansDone, FdInv, TypeOK
<1>2. ASSUME NEW o \in OptionValues, WriteOptions(o),
             pc' = IF "FRES" \in o \ fd.opt THEN "wait" ELSE "idle"
      PROVE  DriverInv'
  <2> DEFINE w == [fd EXCEPT !.opt = o]
  <2>1. o \in SUBSET Options
    BY HostAssumption
  <2>2. w \in FdType /\ w.running = fd.running /\ w.stat = fd.stat /\ ~w.onStart
    BY <1>1, <2>1 DEF FdType
  <2>3. CASE "FRES" \in o /\ "FRES" \notin fd.opt
    <3>1. Execute(w, "RESTORE") /\ "RESTORE" \in Commands /\ pc' = "wait"
      BY <1>2, <2>3 DEF WriteOptions, Commands, Moves
    <3> QED
      BY <1>1, <2>2, <3>1, ExecuteDriver
  <2>4. CASE "FRES" \notin o \/ "FRES" \in fd.opt
    <3>1. irq' = irq /\ pc' = "idle"
      BY <1>2, <2>4 DEF WriteOptions
    <3>2. ~fd'.running /\ "BUSY" \notin fd'.stat /\ ~fd'.onStart
      BY <1>1, <1>2, <2>2, <2>4 DEF WriteOptions, FdType
    <3> QED
      BY <1>1, <3>1, <3>2 DEF DriverInv, InterruptMeansDone, Pcs
  <2> QED
    BY <2>3, <2>4
<1>3. ASSUME UNCHANGED pc, UNCHANGED irq,
             fd'.running = fd.running, fd'.stat = fd.stat, fd'.onStart = fd.onStart
      PROVE  DriverInv'
  BY <1>1, <1>3 DEF DriverInv, InterruptMeansDone, Pcs
<1>4. ASSUME NEW c \in Controls, WriteControl(c.sel, c.side), UNCHANGED pc
      PROVE  DriverInv'
  BY <1>1, <1>3, <1>4 DEF WriteControl, FdType
<1>5. ASSUME NEW v \in Values, WriteBuffer(v), UNCHANGED pc
      PROVE  DriverInv'
  BY <1>1, <1>3, <1>5 DEF WriteBuffer, FdType
<1>6. ASSUME NEW r \in Settable, NEW v \in Reg, WriteReg(r, v), UNCHANGED pc
      PROVE  DriverInv'
  <2>1. r = "track" \/ r = "sector" \/ r = "data"
    BY HostAssumption
  <2> QED
    BY <1>1, <1>3, <1>6, <2>1 DEF WriteReg, FdType
<1> QED
  BY <1>2, <1>4, <1>5, <1>6 DEF Configure

LEMMA LooksDriver == FdInv /\ DriverInv /\ Looks => DriverInv'
<1> SUFFICES ASSUME FdInv, DriverInv, Looks PROVE DriverInv'
  OBVIOUS
<1>1. /\ irq' = irq /\ fd \in FdType
      /\ fd'.running = fd.running /\ fd'.onStart = fd.onStart
      /\ fd'.cmd = fd.cmd /\ fd'.opt = fd.opt
      /\ "BUSY" \in fd'.stat <=> "BUSY" \in fd.stat
  BY DEF Looks, ReadStatus, FdInv, TypeOK, FdType
<1>2. CASE "BUSY" \in fd'.stat /\ pc' = IF Sleeps THEN "wait" ELSE "seen"
  BY <1>1, <1>2 DEF DriverInv, InterruptMeansDone, Sleeps, Pcs
<1>3. CASE "BUSY" \notin fd'.stat /\ pc' = "idle"
  <2>1. ~fd.running
    BY <1>1, <1>3 DEF DriverInv, InterruptMeansDone
  <2>2. ~irq.line
    BY DEF Looks, DriverInv
  <2> QED
    BY <1>1, <1>3, <2>1, <2>2 DEF DriverInv, InterruptMeansDone, Pcs
<1> QED
  BY <1>2, <1>3 DEF Looks, Succeeds

LEMMA GivesUpDriver ==
  ASSUME FdInv, DriverInv, NEW flags \in ForceFlags, GivesUp(flags)
  PROVE  DriverInv'
<1>1. /\ ~fd'.running /\ "BUSY" \notin fd'.stat /\ fd'.opt = fd.opt
      /\ fd'.onStart = ("NOTREADY" \in flags)
  BY DEF GivesUp, ForceIntr, FdInv, TypeOK, FdType
<1>2. "NOTREADY" \notin flags
  BY HostAssumption
<1>3. ~UpdateIrq(irq, FALSE).line
  BY DEF UpdateIrq, FdInv, TypeOK, IrqType, NoFalseIntr
<1>4. CASE Sleeps /\ "IMMEDIATE" \in flags
  BY <1>1, <1>2, <1>4 DEF GivesUp, DriverInv, InterruptMeansDone, Sleeps, Pcs
<1>5. CASE ~(Sleeps /\ "IMMEDIATE" \in flags)
  <2>1. irq' = UpdateIrq(irq, FALSE) /\ pc' = "idle"
    BY <1>5 DEF GivesUp, ForceIntr, Interrupt, Sleeps
  <2> QED
    BY <1>1, <1>2, <1>3, <2>1 DEF DriverInv, InterruptMeansDone, Pcs
<1> QED
  BY <1>4, <1>5

LEMMA TakeInterruptDriver == FdInv /\ DriverInv /\ TakeInterrupt => DriverInv'
<1> SUFFICES ASSUME FdInv, DriverInv, TakeInterrupt PROVE DriverInv'
  OBVIOUS
<1>1. fd' = fd /\ ~fd.running
  BY DEF TakeInterrupt, FdIrqAck, DriverInv, InterruptMeansDone
<1>2. ~irq'.line
  BY DEF TakeInterrupt, FdIrqAck, UpdateIrq, FdInv, NoFalseIntr
<1>3. pc' \in Pcs /\ (pc' = "seen" => pc = "seen")
  BY DEF TakeInterrupt, DriverInv, Pcs
<1> QED
  BY <1>1, <1>2, <1>3 DEF DriverInv, InterruptMeansDone, Sleeps

LEMMA TickDriver == FdInv /\ DriverInv /\ Tick => DriverInv'
<1> SUFFICES ASSUME FdInv, DriverInv, Tick PROVE DriverInv'
  OBVIOUS
<1>1. fd \in FdType /\ pc' = pc
  BY DEF Tick, FdInv, TypeOK
<1>2. CASE irq' = irq /\ fd'.running = fd.running /\ fd'.stat = fd.stat
           /\ fd'.onStart = fd.onStart /\ fd'.cmd = fd.cmd /\ fd'.opt = fd.opt
  BY <1>1, <1>2 DEF DriverInv, InterruptMeansDone, Sleeps
<1>3. CASE ~ProcessStops(fd) /\ fd.countdown = 0 /\ fd.running
  <2>1. fd.cmd \in Moves \cup Transfers /\ pc \in {"wait", "seen"}
    BY <1>3 DEF DriverInv
  <2>2. fd' = Completed(fd) /\ irq' = Interrupt(irq, fd)
    BY <1>1, <1>3, <2>1 DEF Tick, ProcessContinue, FdType
  <2>3. ~fd'.running /\ "BUSY" \notin fd'.stat /\ fd'.opt = fd.opt
        /\ fd'.onStart = fd.onStart
    BY <1>1, <2>1, <2>2 DEF Completed, MovedHead, FdType
  <2>4. irq'.line => Sleeps
    BY <2>2 DEF Interrupt, UpdateIrq, Sleeps, DriverInv
  <2> QED
    BY <1>1, <2>1, <2>3, <2>4 DEF DriverInv, InterruptMeansDone, Sleeps
<1>4. CASE ProcessStops(fd) \/ fd.countdown # 0 \/ ~fd.running
  <2>1. irq' = irq
    BY <1>4 DEF Tick, ProcessContinue
  <2>2. fd' = fd \/ fd' = [fd EXCEPT !.countdown = @ - 1]
    <3>1. fd.countdown \in Nat
      BY <1>1, FdAssumption DEF FdType
    <3> QED
      BY <1>4, <3>1 DEF Tick, ProcessContinue
  <2> QED
    BY <1>1, <1>2, <2>1, <2>2 DEF FdType
<1> QED
  BY <1>3, <1>4

LEMMA UserDriver ==
  ASSUME FdInv, DriverInv,
         \/ \E kind \in {"rw", "ro"} : ChangeDisk(kind)
         \/ RemoveDisk \/ OtherDrive \/ Reboot
  PROVE  DriverInv'
<1>1. CASE Reboot
  BY <1>1 DEF Reboot, PulseReset, ResetFd, DriverInv, InterruptMeansDone, Pcs, FdInv,
              TypeOK, IrqType
<1>2. CASE UNCHANGED <<fd, irq, pc>>
  BY <1>2 DEF DriverInv, InterruptMeansDone, Sleeps
<1> QED
  BY <1>1, <1>2 DEF ChangeDisk, Attach, RemoveDisk, Detach, OtherDrive, AttachOther

LEMMA DriverStep == FdInv /\ DriverInv /\ [HostNext]_allVars => DriverInv'
<1> SUFFICES ASSUME FdInv, DriverInv, [HostNext]_allVars PROVE DriverInv'
  OBVIOUS
<1>1. CASE UNCHANGED allVars
  BY <1>1 DEF allVars, vars, DriverInv, InterruptMeansDone, Sleeps
<1>2. CASE HostNext
  BY <1>2, ConfigureDriver, IssueDriver, LooksDriver, GivesUpDriver,
     TakeInterruptDriver, TickDriver, UserDriver DEF HostNext
<1> QED
  BY <1>1, <1>2

(* The CPU is not interrupted, and the status does not show the controller *)
(* free, before the command is over.                                       *)
THEOREM DoneIsDone == HostSpec => []InterruptMeansDone
<1>1. HostInit => FdInv /\ DriverInv
  BY InitInv, DriverInit DEF HostInit
<1>2. FdInv /\ DriverInv /\ [HostNext]_allVars => (FdInv /\ DriverInv)'
  BY HostFdStep, DriverStep
<1>3. DriverInv => InterruptMeansDone
  BY DEF DriverInv
<1> QED
  BY <1>1, <1>2, <1>3, PTL DEF HostSpec

THEOREM DriverTurnsToCome == HostSpec => []FdInv
BY DriverIsCpu, TurnsToCome, PTL

-----------------------------------------------------------------------------
(* Two places of a disk have two block numbers.                            *)
LEMMA RowsApart ==
  ASSUME NEW S \in Nat, NEW a \in Nat, NEW b \in Nat, NEW s \in 1 .. S,
         NEW t \in 1 .. S, a < b
  PROVE  a * S + s - 1 # b * S + t - 1
<1>1. /\ a * S \in Nat /\ b * S \in Nat /\ (b - a) \in Nat /\ (b - a - 1) \in Nat
  OBVIOUS
<1>2. b * S = a * S + S + (b - a - 1) * S
  OBVIOUS
<1>3. (b - a - 1) * S \in Nat
  BY <1>1
<1>4. b * S >= a * S + S
  BY <1>1, <1>2, <1>3
<1> QED
  BY <1>1, <1>4

BlockAt(track, side, sector) == (track * Sides + side) * SectorsPerTrack + sector - 1

LEMMA BlocksApart ==
  ASSUME NEW t1 \in Nat, NEW t2 \in Nat, NEW h1 \in {0, 1}, NEW h2 \in {0, 1},
         NEW s1 \in 1 .. SectorsPerTrack, NEW s2 \in 1 .. SectorsPerTrack,
         BlockAt(t1, h1, s1) = BlockAt(t2, h2, s2)
  PROVE  t1 = t2 /\ h1 = h2 /\ s1 = s2
<1> DEFINE a == t1 * Sides + h1
           b == t2 * Sides + h2
<1>1. a \in Nat /\ b \in Nat /\ SectorsPerTrack \in Nat
  BY FdAssumption DEF Sides
<1>2. a * SectorsPerTrack + s1 - 1 = b * SectorsPerTrack + s2 - 1
  BY DEF BlockAt
<1>3. ~(a < b) /\ ~(b < a)
  <2> HIDE DEF a, b
  <2> QED
    BY <1>1, <1>2, RowsApart
<1>4. a = b
  <2> HIDE DEF a, b
  <2> QED
    BY <1>1, <1>3
<1>5. t1 = t2 /\ h1 = h2
  BY <1>4 DEF Sides
<1>6. s1 = s2
  <2>1. a * SectorsPerTrack \in Nat
    <3> HIDE DEF a, b
    <3> QED
      BY <1>1
  <2> HIDE DEF a, b
  <2> QED
    BY <1>1, <1>2, <1>4, <2>1
<1> QED
  BY <1>5, <1>6

WatchedBlock == BlockAt(Watched[1], Watched[2], Watched[3])

LEMMA WatchedAlone ==
  ASSUME NEW w \in FdType, Addressed(w)
  PROVE  Lba(w) = WatchedBlock <=> <<w.track, w.side, w.sector>> = Watched
<1>1. /\ w.track \in Nat /\ w.side \in {0, 1} /\ w.sector \in 1 .. SectorsPerTrack
  BY FdAssumption DEF FdType, Reg, Sides, Addressed
<1>2. /\ Watched[1] \in Nat /\ Watched[2] \in {0, 1}
      /\ Watched[3] \in 1 .. SectorsPerTrack
      /\ Watched = <<Watched[1], Watched[2], Watched[3]>>
  BY HostAssumption, FdAssumption DEF Reg, Sides
<1>3. Lba(w) = BlockAt(w.track, w.side, w.sector)
  BY DEF Lba, BlockAt
<1>4. ASSUME Lba(w) = WatchedBlock
      PROVE  w.track = Watched[1] /\ w.side = Watched[2] /\ w.sector = Watched[3]
  <2>1. BlockAt(w.track, w.side, w.sector) = BlockAt(Watched[1], Watched[2], Watched[3])
    BY <1>3, <1>4 DEF WatchedBlock
  <2>2. /\ Watched[1] \in Nat /\ Watched[2] \in {0, 1}
        /\ Watched[3] \in 1 .. SectorsPerTrack
    BY <1>2
  <2> QED
    BY <1>1, <2>1, <2>2, BlocksApart
<1>5. ASSUME <<w.track, w.side, w.sector>> = Watched
      PROVE  Lba(w) = WatchedBlock
  BY <1>2, <1>3, <1>5 DEF WatchedBlock
<1> QED
  BY <1>2, <1>4, <1>5

-----------------------------------------------------------------------------
(* What the watched sector holds is among what the driver may expect, and  *)
(* a transfer that was accepted has been made between it and the buffer.   *)
OnDisk == WatchedBlock \in 0 .. Blocks - 1
Writing == pc \in Waiting /\ fd.cmd = "WRITE_REC" /\ OnWatched /\ same
Taken ==
  same /\ fd.cmd \in Transfers /\ (fd.running \/ irq.line \/ pc \in {"seen", "woken"})
SectorInv ==
  /\ possible \subseteq Values /\ same \in BOOLEAN
  /\ same => pc \in Waiting
  /\ Taken => /\ Addressed(fd) /\ Lba(fd) \in 0 .. Blocks - 1
              /\ disk[Lba(fd)] = fd.buf
  /\ OnDisk => disk[WatchedBlock] \in possible \/ (Writing /\ disk[WatchedBlock] = fd.buf)

IInv == FdInv /\ DriverInv /\ SectorInv

LEMMA SectorInit == HostInit => SectorInv
BY FdAssumption DEF HostInit, Init, SectorInv, Taken, OnDisk, BlankDisk

LEMMA ConfigureSector == IInv /\ Configure => SectorInv'
<1> SUFFICES ASSUME IInv, Configure PROVE SectorInv'
  OBVIOUS
<1>1. pc = "idle" /\ ~same /\ possible' = possible /\ same' = same
  BY DEF Configure, IInv, SectorInv, Waiting
<1>2. disk' = disk
  <2>1. ASSUME NEW o, WriteOptions(o)
        PROVE  disk' = disk
    BY <2>1 DEF WriteOptions, Execute
  <2> QED
    BY <2>1 DEF Configure, WriteControl, WriteReg, WriteBuffer
<1>3. OnDisk => disk[WatchedBlock] \in possible
  BY <1>1 DEF IInv, SectorInv, Writing
<1> QED
  BY <1>1, <1>2, <1>3 DEF IInv, SectorInv, Taken, OnDisk

LEMMA IssueSector ==
  ASSUME IInv, NEW c \in Issued, Issue(c)
  PROVE  SectorInv'
<1>1. /\ c \in Commands /\ pc = "idle" /\ pc' = "wait" /\ possible' = possible
      /\ same' = TRUE /\ fd \in FdType /\ disk \in DiskType /\ Execute(fd, c)
  BY HostAssumption DEF Issue, Command, IInv, FdInv, TypeOK
<1>2. OnDisk => disk[WatchedBlock] \in possible
  BY <1>1 DEF IInv, SectorInv, Writing, Waiting
<1>3. /\ fd'.track = fd.track /\ fd'.side = fd.side /\ fd'.sector = fd.sector
      /\ fd'.cmd = c
  BY <1>1 DEF Execute, Started, FdType
<1>4. CASE Accepted(fd, c) /\ c \in Transfers
  <2>1. fd' = Started(fd, c)
    BY <1>1, <1>4 DEF Execute
  <2>2. Lba(fd) \in 0 .. Blocks - 1 /\ Addressed(fd)
    BY <1>1, <1>4, LbaTyped DEF Accepted, Moves, Transfers
  <2>3. Lba(fd') = Lba(fd) /\ Addressed(fd')
    BY <1>3, <2>2 DEF Lba, Addressed
  <2>4. CASE c = "READ_REC"
    <3>1. disk' = disk /\ fd'.buf = disk[Lba(fd)]
      BY <1>1, <1>4, <2>1, <2>4 DEF Execute, Started, FdType
    <3> QED
      BY <1>1, <1>2, <2>2, <2>3, <3>1 DEF IInv, SectorInv, Waiting, OnDisk
  <2>5. CASE c = "WRITE_REC"
    <3>1. disk' = [disk EXCEPT ![Lba(fd)] = fd.buf] /\ fd'.buf = fd.buf
      BY <1>1, <1>4, <2>1, <2>5 DEF Execute, Started, FdType
    <3>2. disk'[Lba(fd)] = fd'.buf
      BY <1>1, <2>2, <3>1 DEF DiskType
    <3>3. CASE Lba(fd) = WatchedBlock
      <4>1. OnWatched'
        BY <1>1, <1>3, <2>2, <3>3, WatchedAlone DEF OnWatched
      <4>2. Writing'
        BY <1>1, <1>3, <2>5, <4>1 DEF Writing, Waiting
      <4> QED
        BY <1>1, <2>2, <2>3, <3>2, <3>3, <4>2 DEF IInv, SectorInv, Waiting
    <3>4. CASE Lba(fd) # WatchedBlock
      <4>1. OnDisk => disk'[WatchedBlock] = disk[WatchedBlock]
        BY <1>1, <3>1, <3>4 DEF DiskType, OnDisk
      <4> QED
        BY <1>1, <1>2, <2>2, <2>3, <3>2, <4>1 DEF IInv, SectorInv, Waiting, OnDisk
    <3> QED
      BY <3>3, <3>4
  <2> QED
    BY <1>4, <2>4, <2>5 DEF Transfers
<1>5. CASE ~(Accepted(fd, c) /\ c \in Transfers)
  <2>1. disk' = disk /\ irq' = irq
    BY <1>1, <1>5 DEF Execute, Transfers, IInv, DriverInv
  <2>2. ~Taken'
    <3>1. CASE c \notin Transfers
      BY <1>3, <3>1 DEF Taken
    <3>2. CASE c \in Transfers
      <4>1. ~fd'.running
        BY <1>1, <1>5, <3>2 DEF Execute, FdType, IInv, DriverInv
      <4>2. ~irq'.line
        BY <1>1, <2>1 DEF IInv, DriverInv
      <4> QED
        BY <1>1, <4>1, <4>2 DEF Taken
    <3> QED
      BY <3>1, <3>2
  <2> QED
    BY <1>1, <1>2, <2>1, <2>2 DEF IInv, SectorInv, Waiting, OnDisk
<1> QED
  BY <1>4, <1>5

(* Success: the sector holds what the driver takes it to hold.             *)
LEMMA SuccessSector == IInv /\ Looks /\ Succeeds => SectorInv'
<1> SUFFICES ASSUME IInv, Looks, Succeeds PROVE SectorInv'
  OBVIOUS
<1>1. /\ fd \in FdType /\ disk' = disk /\ same' = FALSE /\ fd'.buf = fd.buf
      /\ pc \in {"seen", "woken"} /\ possible \subseteq Values /\ fd.buf \in Values
  BY DEF IInv, FdInv, TypeOK, SectorInv, Looks, ReadStatus, Succeeds, Knows, FdType
<1>2. ~Taken'
  BY <1>1 DEF Taken
<1>3. CASE Writing
  <2>1. possible' = {fd.buf}
    BY <1>3 DEF Succeeds, Knows, Writing
  <2>2. Taken
    BY <1>1, <1>3 DEF Taken, Writing, Transfers
  <2>3. Lba(fd) = WatchedBlock
    BY <1>1, <1>3, <2>2, WatchedAlone DEF Writing, OnWatched, IInv, SectorInv
  <2>4. disk[WatchedBlock] = fd.buf
    BY <2>2, <2>3 DEF IInv, SectorInv
  <2> QED
    BY <1>1, <1>2, <2>1, <2>4 DEF SectorInv
<1>4. CASE ~Writing
  <2>1. possible' = possible
    BY <1>4 DEF Succeeds, Knows, Writing
  <2>2. OnDisk => disk[WatchedBlock] \in possible
    BY <1>4 DEF IInv, SectorInv
  <2> QED
    BY <1>1, <1>2, <2>1, <2>2 DEF SectorInv, OnDisk
<1> QED
  BY <1>3, <1>4

(* Anything else that ends a command leaves the sector as it was or with   *)
(* what was to be written.                                                 *)
LEMMA WroteMaybeSector ==
  ASSUME IInv, WroteMaybe, disk' = disk
  PROVE  SectorInv'
<1>1. same' = FALSE /\ possible \subseteq Values /\ fd.buf \in Values
  BY DEF IInv, FdInv, TypeOK, FdType, SectorInv, WroteMaybe, Knows
<1>2. possible' = IF Writing THEN possible \cup {fd.buf} ELSE possible
  BY DEF WroteMaybe, Knows, Writing
<1>3. OnDisk => disk[WatchedBlock] \in possible'
  BY <1>2 DEF IInv, SectorInv
<1>4. ~Taken'
  BY <1>1 DEF Taken
<1> QED
  BY <1>1, <1>2, <1>3, <1>4 DEF SectorInv, OnDisk

LEMMA LooksSector == IInv /\ Looks => SectorInv'
<1> SUFFICES ASSUME IInv, Looks PROVE SectorInv'
  OBVIOUS
<1>1. disk' = disk /\ irq' = irq
  BY DEF Looks, ReadStatus
<1>2. CASE "BUSY" \in fd'.stat /\ pc' = (IF Sleeps THEN "wait" ELSE "seen")
           /\ UNCHANGED <<possible, same>>
  <2>1. /\ fd'.track = fd.track /\ fd'.side = fd.side /\ fd'.sector = fd.sector
        /\ fd'.cmd = fd.cmd /\ fd'.buf = fd.buf /\ fd'.running = fd.running
        /\ "BUSY" \in fd.stat
    BY <1>2 DEF Looks, ReadStatus, IInv, FdInv, TypeOK, FdType
  <2>2. fd.running
    BY <2>1 DEF IInv, DriverInv, InterruptMeansDone
  <2>3. Lba(fd') = Lba(fd) /\ (Addressed(fd') <=> Addressed(fd))
    BY <2>1 DEF Lba, Addressed
  <2>4. Taken' => Taken
    BY <1>2, <2>1, <2>2 DEF Taken
  <2>5. pc \in Waiting /\ pc' \in Waiting
    BY <1>2 DEF Looks, Waiting
  <2>6. Writing => Writing'
    BY <1>2, <2>1, <2>5 DEF Writing, OnWatched
  <2> QED
    BY <1>1, <1>2, <2>1, <2>3, <2>4, <2>5, <2>6 DEF IInv, SectorInv, OnDisk
<1>3. CASE Succeeds
  BY <1>3, SuccessSector
<1>4. CASE WroteMaybe
  BY <1>1, <1>4, WroteMaybeSector
<1> QED
  BY <1>2, <1>3, <1>4 DEF Looks

LEMMA GivesUpSector ==
  ASSUME IInv, NEW flags \in ForceFlags, GivesUp(flags)
  PROVE  SectorInv'
BY WroteMaybeSector DEF GivesUp, ForceIntr

LEMMA TakeInterruptSector == IInv /\ TakeInterrupt => SectorInv'
<1> SUFFICES ASSUME IInv, TakeInterrupt PROVE SectorInv'
  OBVIOUS
<1>1. UNCHANGED <<fd, disk, possible, same>> /\ irq.line
  BY DEF TakeInterrupt, FdIrqAck
<1>2. ~irq'.line
  BY DEF TakeInterrupt, FdIrqAck, UpdateIrq, IInv, FdInv, NoFalseIntr
<1>3. Taken' => Taken
  BY <1>1, <1>2 DEF Taken, TakeInterrupt
<1>4. pc \in Waiting => pc' \in Waiting
  BY DEF TakeInterrupt, Waiting
<1>5. Writing => Writing'
  BY <1>1, <1>4 DEF Writing, OnWatched
<1> QED
  BY <1>1, <1>3, <1>4, <1>5 DEF IInv, SectorInv, OnDisk, Lba, Addressed

LEMMA TickSector == IInv /\ Tick => SectorInv'
<1> SUFFICES ASSUME IInv, Tick PROVE SectorInv'
  OBVIOUS
<1>1. UNCHANGED <<pc, possible, same, disk>> /\ fd \in FdType
  BY DEF Tick, ProcessContinue, IInv, FdInv, TypeOK
<1>2. fd'.cmd = fd.cmd /\ fd'.buf = fd.buf
  BY <1>1 DEF Tick, ProcessContinue, Completed, MovedHead, FdType
<1>3. fd.cmd \in Transfers
        => fd'.track = fd.track /\ fd'.side = fd.side /\ fd'.sector = fd.sector
  BY <1>1 DEF Tick, ProcessContinue, Completed, MovedHead, FdType, Moves, Transfers
<1>4. fd'.running => fd.running
  BY <1>1 DEF Tick, ProcessContinue, Completed, MovedHead, FdType
<1>5. irq'.line => irq.line \/ fd.running
  BY DEF Tick, ProcessContinue
<1>6. Taken' => Taken
  BY <1>1, <1>2, <1>4, <1>5 DEF Taken
<1>7. fd.cmd \in Transfers =>
        Lba(fd') = Lba(fd) /\ (Addressed(fd') <=> Addressed(fd))
  BY <1>3 DEF Lba, Addressed
<1>8. Writing => Writing'
  BY <1>1, <1>2, <1>3 DEF Writing, OnWatched, Transfers
<1> QED
  BY <1>1, <1>2, <1>6, <1>7, <1>8 DEF IInv, SectorInv, OnDisk, Taken

LEMMA UserSector ==
  ASSUME IInv,
         \/ \E kind \in {"rw", "ro"} : ChangeDisk(kind)
         \/ RemoveDisk \/ OtherDrive \/ Reboot
  PROVE  SectorInv'
<1>1. CASE OtherDrive
  BY <1>1 DEF OtherDrive, AttachOther, IInv, SectorInv, Taken, Writing, OnWatched,
              OnDisk, Lba, Addressed
<1>2. CASE disk' = BlankDisk /\ NewDisk
  BY <1>2, FdAssumption DEF NewDisk, SectorInv, Taken, OnDisk, BlankDisk
<1> QED
  BY <1>1, <1>2 DEF ChangeDisk, Attach, RemoveDisk, Detach, Reboot, PulseReset

LEMMA SectorStep == IInv /\ [HostNext]_allVars => SectorInv'
<1> SUFFICES ASSUME IInv, [HostNext]_allVars PROVE SectorInv'
  OBVIOUS
<1>1. CASE UNCHANGED allVars
  BY <1>1 DEF allVars, vars, IInv, SectorInv, Taken, Writing, OnWatched, OnDisk, Lba,
              Addressed
<1>2. CASE HostNext
  BY <1>2, ConfigureSector, IssueSector, LooksSector, GivesUpSector,
     TakeInterruptSector, TickSector, UserSector DEF HostNext
<1> QED
  BY <1>1, <1>2

(* What a read returns is what was written last to that place of the disk, *)
(* for every geometry, and wherever the sector is that one looks at.       *)
THEOREM LastWriteRead == HostSpec => ReadsLastWrite
<1>1. HostInit => IInv
  BY InitInv, DriverInit, SectorInit DEF HostInit, IInv
<1>2. IInv /\ [HostNext]_allVars => IInv'
  BY HostFdStep, DriverStep, SectorStep DEF IInv
<1>3. IInv => (Succeeds /\ fd.cmd = "READ_REC" /\ OnWatched /\ same => fd.buf \in possible)
  <2> SUFFICES ASSUME IInv, Succeeds, fd.cmd = "READ_REC", OnWatched, same
               PROVE  fd.buf \in possible
    OBVIOUS
  <2>1. Taken /\ ~Writing
    BY DEF Taken, Writing, Succeeds, Transfers
  <2>2. Lba(fd) = WatchedBlock
    BY <2>1, WatchedAlone DEF OnWatched, IInv, SectorInv, FdInv, TypeOK
  <2> QED
    BY <2>1, <2>2 DEF IInv, SectorInv, OnDisk
<1>4. IInv /\ [HostNext]_allVars =>
        [Succeeds /\ fd.cmd = "READ_REC" /\ OnWatched /\ same
           => fd.buf \in possible]_allVars
  BY <1>3
<1> QED
  BY <1>1, <1>2, <1>4, PTL DEF HostSpec, ReadsLastWrite
=============================================================================

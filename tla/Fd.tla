--------------------------------- MODULE Fd ---------------------------------
(***************************************************************************)
(* The floppy disk controller (src/src/fd.c): a WD1793 with the latches    *)
(* 13J (options), 13K (control) and 13L (status) and a sector buffer.      *)
(*                                                                         *)
(* The CPU's accesses, the debugger's commands and the calls of            *)
(* fd_processContinue happen in any order.  A command moves its data when  *)
(* it is issued; that it is over comes FD_CONTINUE_TICKS later, in such a  *)
(* call, for which the count in sim.c has to be running (`armed').         *)
(*                                                                         *)
(* Abstracted: a sector is one value, and only the first of the buffer is  *)
(* kept; the eight bits of a register go up to RegMax; of the latches, the *)
(* bits that the code looks at are kept, and of 13L those that are not     *)
(* copies of 13J (its BUSY bit is the one of the status register).  Left    *)
(* out are the index pulse, the loaded head and the write protection, which *)
(* are only shown; that the pulses keep coming is `armed'.  Of the flags of *)
(* a forced interrupt, the one is kept that a later command heeds.  Drive 1 *)
(* has no state, because driveIsSelected tests SEL0 twice: with SEL1 alone  *)
(* nothing is selected, and with both drive 0 is.                          *)
(***************************************************************************)
EXTENDS Integers

CONSTANTS
  RegMax,           (* the largest value of a register, 255                *)
  SectorsPerTrack,  (* FD_SECTORS_PER_TRACK                                *)
  Blocks,           (* imgBlocks, the sectors of an image                  *)
  ExecCount,        (* FD_SEEK_EXEC_COUNT and FD_RW_EXEC_COUNT             *)
  Values, Blank     (* what a sector may hold, and what one holds at first *)

ASSUME FdAssumption ==
  /\ RegMax \in Nat \ {0} /\ SectorsPerTrack \in 1 .. RegMax
  /\ Blocks \in Nat \ {0} /\ ExecCount \in Nat
  /\ Blank \in Values

VARIABLES
  fd,      (* the registers and latches, fd_t                              *)
  irq,     (* fdIntAsserted and the line of level 3 at the CPU             *)
  armed,   (* fdInstrCount is not 0                                        *)
  img,     (* the image of drive 0: none, or may it be written?            *)
  disk     (* its sectors; Blank where there is no image                   *)

vars == <<fd, irq, armed, img, disk>>

Sides     == 2                                               \* FD_SIDES
Reg       == 0 .. RegMax
Moves     == {"RESTORE", "SEEK", "STEP", "STEP_U", "STEP_IN", "STEP_IN_U",
              "STEP_OUT", "STEP_OUT_U"}
Transfers == {"READ_REC", "WRITE_REC"}
Commands  == Moves \cup Transfers \cup {"UNSUPPORTED"}
CmdValues == Commands \cup {"FORCE_INTR"}
Options   == {"CMD", "ENBINTR", "FRES"}
IntFlags  == {"NOTREADY", "IMMEDIATE"}     \* the two that have an effect
Images    == {"none", "rw", "ro"}
Drives    == {0, 1}

(* The bits of the status register; TRACK0 is also LOSTDATA, and CRCERR    *)
(* with NOTFOUND is BADID.                                                 *)
StatBits == {"BUSY", "TRACK0", "CRCERR", "NOTFOUND", "NOTREADY"}
LostData == {"TRACK0"}
BadId    == {"CRCERR", "NOTFOUND"}

FdType ==
  [cmd : CmdValues, track : Reg, sector : Reg, data : Reg,
   stat : SUBSET StatBits,
   opt : SUBSET Options, intra : BOOLEAN,
   sel : SUBSET Drives, side : 0 .. Sides - 1, buf : Values,
   running : BOOLEAN, countdown : 0 .. ExecCount,
   dir : {-1, 0, 1}, head : Reg, onStart : BOOLEAN]
IrqType  == [asserted : BOOLEAN, line : BOOLEAN]
DiskType == [0 .. Blocks - 1 -> Values]

(* fd_pulse_reset: everything is 0, but for the latches 13J and 13K.       *)
ResetFd ==
  [cmd |-> "RESTORE", track |-> 0, sector |-> 0, data |-> 0, stat |-> {},
   opt |-> Options, intra |-> FALSE, sel |-> Drives, side |-> 1, buf |-> Blank,
   running |-> FALSE, countdown |-> 0, dir |-> 0, head |-> 0,
   onStart |-> FALSE]
BlankDisk == [b \in 0 .. Blocks - 1 |-> Blank]

Init ==
  /\ fd = ResetFd /\ irq = [asserted |-> FALSE, line |-> FALSE]
  /\ armed = FALSE /\ img = "none" /\ disk = BlankDisk

-----------------------------------------------------------------------------
(* The line follows fdIntAsserted only when that changes.                  *)
UpdateIrq(q, want) ==
  IF want # q.asserted THEN [asserted |-> want, line |-> want] ELSE q
Interrupt(q, w) == IF "ENBINTR" \in w.opt THEN UpdateIrq(q, TRUE) ELSE q

Ready(w) == 0 \in w.sel /\ img # "none"    \* driveIsReady

LbaOneSided(w) ==    \* faulty: the tracks of the two sides overlap
  (w.track + w.side) * SectorsPerTrack + w.sector - 1
Lba(w) == (w.track * Sides + w.side) * SectorsPerTrack + w.sector - 1
Addressed(w) == w.sector \in 1 .. SectorsPerTrack

Accepted(w, c) ==
  \/ c \in Moves
  \/ /\ c \in Transfers
     /\ Ready(w) /\ Addressed(w) /\ "CMD" \in w.opt /\ Lba(w) < Blocks
     /\ c = "WRITE_REC" => img = "rw"

(* What a command that is not accepted leaves in the status: nothing when  *)
(* the drive is not ready, and nothing is taken away but for lost data.    *)
Refusal(w, c) ==
  IF c = "UNSUPPORTED" THEN w.stat \cup {"CRCERR"}
  ELSE IF ~Ready(w) THEN w.stat
  ELSE IF ~Addressed(w) THEN w.stat \cup {"NOTFOUND"}
  ELSE IF "CMD" \notin w.opt THEN LostData
  ELSE w.stat \cup BadId

Started(w, c) ==
  [w EXCEPT !.cmd = c,
            !.stat = {"BUSY"}, !.intra = FALSE,
            !.running = TRUE, !.countdown = ExecCount,
            !.buf = IF c = "READ_REC" THEN disk[Lba(w)] ELSE @]

(* fd_exec_command with the registers w.                                   *)
Execute(w, c) ==
  \/ /\ Accepted(w, c)
     /\ fd' = Started(w, c)
     /\ irq' = IF w.onStart THEN Interrupt(irq, w) ELSE irq
     /\ disk' = IF c = "WRITE_REC" THEN [disk EXCEPT ![Lba(w)] = w.buf] ELSE disk
     /\ armed' = TRUE
  \/ /\ ~Accepted(w, c)
     /\ fd' = [w EXCEPT !.cmd = c, !.stat = Refusal(w, c)]
     /\ UNCHANGED <<irq, disk, armed>>

Command(c) == Execute(fd, c) /\ UNCHANGED img

(* FORCE INTERRUPT ends the command without completing it.                 *)
ForceKeepsLine(flags) ==    \* faulty: an interrupt that was raised stays
  /\ fd' = [fd EXCEPT !.cmd = "FORCE_INTR", !.running = FALSE,
                      !.onStart = "NOTREADY" \in flags, !.stat = @ \ {"BUSY"}]
  /\ irq' = IF "IMMEDIATE" \in flags THEN Interrupt(irq, fd) ELSE irq
  /\ armed' = TRUE
  /\ UNCHANGED <<img, disk>>
ForceIntr(flags) ==
  /\ fd' = [fd EXCEPT !.cmd = "FORCE_INTR", !.running = FALSE,
                      !.onStart = "NOTREADY" \in flags, !.stat = @ \ {"BUSY"}]
  /\ irq' = IF "IMMEDIATE" \in flags THEN Interrupt(UpdateIrq(irq, FALSE), fd)
            ELSE UpdateIrq(irq, FALSE)
  /\ armed' = TRUE
  /\ UNCHANGED <<img, disk>>

-----------------------------------------------------------------------------
(* The registers that are plain stores, and a byte into the sector buffer. *)
WriteReg(r, v) ==
  /\ r \in {"track", "sector", "data"}
  /\ fd' = [fd EXCEPT ![r] = v]
  /\ UNCHANGED <<irq, armed, img, disk>>
WriteBuffer(v) ==
  /\ fd' = [fd EXCEPT !.buf = v]
  /\ UNCHANGED <<irq, armed, img, disk>>

(* 13J.  With FRES low 13K and the WD1793 are reset, but not what keeps a  *)
(* command going; when FRES goes up, RESTORE is executed.                  *)
WriteOptions(o) ==
  LET w == [fd EXCEPT !.opt = o]
  IN /\ \/ /\ "FRES" \notin o
           /\ fd' = [w EXCEPT !.sel = {}, !.side = 0, !.cmd = "RESTORE",
                              !.track = 0, !.sector = 1, !.data = 0, !.stat = {}]
           /\ UNCHANGED <<irq, disk, armed>>
        \/ /\ "FRES" \in o /\ "FRES" \notin fd.opt
           /\ Execute(w, "RESTORE")
        \/ /\ "FRES" \in o /\ "FRES" \in fd.opt
           /\ fd' = w
           /\ armed' = (armed \/ Ready(w))
           /\ UNCHANGED <<irq, disk>>
     /\ UNCHANGED img

(* 13K selects the drive and the side.  A drive that is ready turns.       *)
WriteControlOnly(s, side) ==    \* faulty: nothing starts the index pulses
  /\ fd' = [fd EXCEPT !.sel = s, !.side = side]
  /\ UNCHANGED <<irq, armed, img, disk>>
WriteControl(s, side) ==
  /\ fd' = [fd EXCEPT !.sel = s, !.side = side]
  /\ armed' = (armed \/ Ready(fd'))
  /\ UNCHANGED <<irq, img, disk>>

(* Reading the status brings it up to date with the drive.                 *)
ReadStatus ==
  /\ fd' = [fd EXCEPT !.stat = IF Ready(fd) THEN @ \ {"NOTREADY"}
                              ELSE @ \cup {"NOTREADY"}]
  /\ UNCHANGED <<irq, armed, img, disk>>

(* fd_irq_ack: the acknowledge cycle of level 3.                           *)
FdIrqAck ==
  /\ irq' = UpdateIrq(irq, FALSE)
  /\ UNCHANGED <<fd, armed, img, disk>>

-----------------------------------------------------------------------------
(* STEP repeats the last direction, and moves nothing before the first.    *)
Step(w) ==
  CASE w.cmd \in {"STEP_IN", "STEP_IN_U"}   -> 1
    [] w.cmd \in {"STEP_OUT", "STEP_OUT_U"} -> -1
    [] w.cmd \in {"STEP", "STEP_U"}         -> w.dir
    [] OTHER                                -> 0
HeadAfter(w) ==
  CASE w.cmd = "RESTORE" -> 0
    [] w.cmd = "SEEK"    -> w.data
    [] OTHER -> IF w.head + Step(w) \in Reg THEN w.head + Step(w) ELSE w.head
DirAfter(w) ==
  CASE w.cmd = "RESTORE" -> w.dir
    [] w.cmd = "SEEK"    -> IF w.data > w.head THEN 1
                            ELSE IF w.data < w.head THEN -1 ELSE w.dir
    [] OTHER -> Step(w)
UpdatesTrack(w) ==
  /\ w.cmd \notin {"STEP_U", "STEP_IN_U", "STEP_OUT_U"}
  /\ w.cmd = "STEP" => w.dir # 0

MovedHead(w) ==
  [w EXCEPT !.head = HeadAfter(w), !.dir = DirAfter(w),
            !.track = IF UpdatesTrack(w) THEN HeadAfter(w) ELSE @,
            !.stat = IF HeadAfter(w) = 0 THEN {"TRACK0"} ELSE {}]

(* The command is over; the end of one that was overwritten in the command *)
(* register by one that is not supported shows nowhere.                    *)
Completed(w) ==
  LET v == [w EXCEPT !.running = FALSE]
  IN IF w.cmd \in Moves THEN [MovedHead(v) EXCEPT !.intra = TRUE]
     ELSE IF w.cmd \in Transfers
       THEN [v EXCEPT !.stat = @ \ {"BUSY"}, !.intra = TRUE]
     ELSE v

(* A call of fd_processContinue.  It asks for the next one unless the      *)
(* drive is not ready and no command is running.                           *)
ProcessStops(w) == ~Ready(w) /\ ~w.running
ProcessForgets ==    \* faulty: no next call while the countdown runs
  /\ armed
  /\ armed' = (~ProcessStops(fd) /\ fd.countdown = 0)
  /\ fd' = IF ProcessStops(fd) THEN fd
           ELSE IF fd.countdown > 0 THEN [fd EXCEPT !.countdown = @ - 1]
           ELSE IF fd.running THEN Completed(fd) ELSE fd
  /\ irq' = IF ~ProcessStops(fd) /\ fd.countdown = 0 /\ fd.running
               /\ fd.cmd \in Moves \cup Transfers
            THEN Interrupt(irq, fd) ELSE irq
  /\ UNCHANGED <<img, disk>>
ProcessContinue ==
  /\ armed
  /\ armed' = ~ProcessStops(fd)
  /\ fd' = IF ProcessStops(fd) THEN fd
           ELSE IF fd.countdown > 0 THEN [fd EXCEPT !.countdown = @ - 1]
           ELSE IF fd.running THEN Completed(fd) ELSE fd
  /\ irq' = IF ~ProcessStops(fd) /\ fd.countdown = 0 /\ fd.running
               /\ fd.cmd \in Moves \cup Transfers
            THEN Interrupt(irq, fd) ELSE irq
  /\ UNCHANGED <<img, disk>>

(* The debugger's commands.  An image that cannot be opened detaches the   *)
(* one before it; one for drive 1 only sets the count going.               *)
Attach(kind, content) ==
  /\ img' = kind /\ disk' = content
  /\ armed' = TRUE
  /\ UNCHANGED <<fd, irq>>
Detach ==
  /\ img' = "none" /\ disk' = BlankDisk
  /\ UNCHANGED <<fd, irq, armed>>
AttachOther == armed' = TRUE /\ UNCHANGED <<fd, irq, img, disk>>

(* The reset of the machine clears the CPU's line but not fdIntAsserted,   *)
(* and forgets the image.                                                  *)
PulseReset ==
  /\ fd' = ResetFd
  /\ irq' = [irq EXCEPT !.line = FALSE]
  /\ img' = "none" /\ disk' = BlankDisk
  /\ UNCHANGED armed

Next ==
  \/ \E c \in Commands : Command(c)
  \/ \E flags \in SUBSET IntFlags : ForceIntr(flags)
  \/ \E r \in {"track", "sector", "data"}, v \in Reg : WriteReg(r, v)
  \/ \E v \in Values : WriteBuffer(v)
  \/ \E o \in SUBSET Options : WriteOptions(o)
  \/ \E s \in SUBSET Drives, side \in 0 .. Sides - 1 : WriteControl(s, side)
  \/ ReadStatus
  \/ FdIrqAck
  \/ ProcessContinue
  \/ \E kind \in {"rw", "ro"}, content \in DiskType : Attach(kind, content)
  \/ Detach
  \/ AttachOther
  \/ PulseReset

Spec == Init /\ [][Next]_vars

-----------------------------------------------------------------------------
TypeOK ==
  /\ fd \in FdType /\ irq \in IrqType /\ armed \in BOOLEAN
  /\ img \in Images /\ disk \in DiskType

(* Whatever the CPU does, a command that has been accepted and a disk that *)
(* turns have a call of fd_processContinue to come.                        *)
TurnToCome == fd.running \/ Ready(fd) => armed

(* INTR+A in 13L says that the last command accepted is over, and the CPU  *)
(* has no interrupt from a controller that has none raised.                *)
NoFalseIntr ==
  /\ fd.intra => ~fd.running
  /\ irq.line => irq.asserted

FdInv == TypeOK /\ TurnToCome /\ NoFalseIntr
=============================================================================

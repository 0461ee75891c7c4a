------------------------------- MODULE WdHost -------------------------------
(***************************************************************************)
(* The Winchester controller with the driver that wd.c describes: it       *)
(* selects the drive, writes the command byte by byte whenever it sees the *)
(* output register empty, spins on the status register until it is exactly *)
(* 0xcc, or sleeps until the interrupt when it uses interrupts and DMA, and *)
(* then reads the status byte, waits for 0xe8, reads the message byte and  *)
(* waits for the bus to be free.  It may give up and reset the controller  *)
(* at any moment.  What it sees in the status register and what it does    *)
(* about it are two steps, between which anything may happen.              *)
(*                                                                         *)
(* The history variables are `ran', the commands executed since the last   *)
(* one was started, `failed', whether the last of them did, and `got', the *)
(* status byte that the driver read.                                       *)
(***************************************************************************)
EXTENDS Wd, Sequences

CONSTANTS
  Modes,    (* what the driver writes to the control register              *)
  Jobs      (* the commands that it issues, each to a unit                 *)

ASSUME HostAssumption ==
  /\ Modes \subseteq SUBSET (CtlBits \ {"SRST"})
  /\ Jobs \subseteq [op : Opcodes, unit : Units]

(* A class 1 command is no shorter than one of class 0, and a byte is dealt *)
(* with before two phases are over.                                        *)
ASSUME LadderAssumption ==
  ShortCdb <= LongCdb /\ CmdCount < 2 * PhaseCount

VARIABLES pc, job, sent, ran, failed, got

history  == <<ran, failed>>
hostVars == <<pc, job, sent, got>>
allVars  == <<vars, hostVars, history>>

Pcs == {"free", "poll", "write", "wait", "data", "sleep", "woken", "status",
        "waitmsg", "msg", "waitfree", "reset"}

HostInit ==
  /\ Init
  /\ pc = "free" /\ job \in Jobs /\ sent = 0
  /\ ran = <<>> /\ failed = FALSE /\ got = FALSE

Go(from, to) == pc = from /\ pc' = to
Looks(from, to) ==    \* nothing but the driver's place changes
  Go(from, to) /\ UNCHANGED <<vars, job, sent, got, history>>

-----------------------------------------------------------------------------
(* wd_processContinue goes on whatever the driver does.                    *)
Ticks(r) ==
  /\ wd.stateCounter # 0 \/ wd.cmdCounter # 0 \/ irq.counter # 0
  /\ Continue(r)
  /\ IF wd.stateCounter = 1 /\ wd.state = "MESSAGE"
       THEN /\ ran' = Append(ran, [op |-> wd.opcode, unit |-> wd.unit])
            /\ failed' = (r # "ok")
       ELSE UNCHANGED history
  /\ UNCHANGED hostVars
Tick == \E r \in Results(wd) : Ticks(r)

(* The handler of level 2, which wakes up a driver that sleeps.            *)
TakeInterrupt ==
  /\ WdIrqAck
  /\ pc' = IF pc = "sleep" THEN "woken" ELSE pc
  /\ UNCHANGED <<job, sent, got, history>>

SetMode(m) ==
  /\ pc \in {"free", "reset"} /\ pc' = "free"
  /\ WriteCtl2(m)
  /\ UNCHANGED <<job, sent, got, history>>

TestDma ==
  /\ pc = "free" /\ DmaTest
  /\ UNCHANGED <<hostVars, history>>

ForgetBusErr ==
  /\ pc = "free" /\ "BUSERR" \in StatusRead /\ ClearBusErr
  /\ UNCHANGED <<hostVars, history>>

Start(j) ==
  /\ Go("free", "poll")
  /\ Select(TRUE)
  /\ job' = j /\ sent' = 0
  /\ ran' = <<>> /\ failed' = FALSE
  /\ UNCHANGED got

SeesEmpty == "OUTEMPTY" \in StatusRead /\ Looks("poll", "write")

BytesOf(w) == CdbLen(w) + FromHost(w)
Sleeps(w)  == {"INTEN", "SEQEN"} \subseteq w.ctl

WriteByte ==
  /\ pc = "write"
  /\ HostWrite(job.op, job.unit)
  /\ sent' = sent + 1
  /\ pc' = IF sent' < BytesOf(wd') THEN "poll"
           ELSE IF Sleeps(wd) THEN "sleep" ELSE "wait"
  /\ UNCHANGED <<job, got, history>>

SeesData   == StatusRead = DataIn48 /\ Looks("wait", "data")
ReadData   == Go("data", "wait") /\ ReadInp /\ UNCHANGED <<job, sent, got, history>>
SeesStatus == StatusRead = StatusCC /\ Looks("wait", "status")

(* Woken up by its interrupt, or by another that was still to come.        *)
LooksAgain == Looks("woken", IF StatusRead = StatusCC THEN "status" ELSE "sleep")

ReadStatusByte ==
  /\ Go("status", "waitmsg")
  /\ ReadInp
  /\ got' = wd.check
  /\ UNCHANGED <<job, sent, history>>
SeesMessage == StatusRead = MessageE8 /\ Looks("waitmsg", "msg")
ReadMessage ==
  /\ Go("msg", "waitfree")
  /\ ReadInp
  /\ UNCHANGED <<job, sent, got, history>>
SeesFree ==
  /\ Go("waitfree", "free")
  /\ StatusRead = {}
  /\ got' = FALSE /\ sent' = 0
  /\ UNCHANGED <<vars, job, history>>

GiveUp ==
  /\ pc # "reset" /\ pc' = "reset"
  /\ WriteCtl2({"SRST"})
  /\ got' = FALSE /\ sent' = 0
  /\ UNCHANGED <<job, history>>

(* The user resets the machine, or changes a disk image under the driver.  *)
Reboot ==
  /\ PulseReset
  /\ pc' = "free" /\ got' = FALSE /\ sent' = 0
  /\ UNCHANGED <<job, history>>
ChangeImage(u, there) == AttachImage(u, there) /\ UNCHANGED <<hostVars, history>>

Works ==
  \/ SeesEmpty \/ WriteByte \/ SeesData \/ ReadData \/ SeesStatus
  \/ LooksAgain \/ ReadStatusByte \/ SeesMessage \/ ReadMessage \/ SeesFree

HostNext ==
  \/ Tick
  \/ TakeInterrupt
  \/ \E m \in Modes : SetMode(m)
  \/ TestDma
  \/ ForgetBusErr
  \/ \E j \in Jobs : Start(j)
  \/ Works
  \/ GiveUp
  \/ Reboot
  \/ \E u \in Attached, there \in BOOLEAN : ChangeImage(u, there)

(* The machine goes on calling wd_processContinue, the CPU takes interrupts *)
(* and the driver goes on with a command that it has started.              *)
HostSpec == HostInit /\ [][HostNext]_allVars
FairHostSpec ==
  HostSpec /\ WF_allVars(Tick) /\ WF_allVars(TakeInterrupt) /\ WF_allVars(Works)

-----------------------------------------------------------------------------
(* A command is executed once, and it is the one that the driver started,  *)
(* when the driver comes to read its status, also when the driver reset    *)
(* the controller in the middle of another one just before.                *)
ExecutedOnce ==
  /\ ran \in {<<>>, <<job>>}
  /\ pc \in {"status", "waitmsg", "msg", "waitfree"} => ran = <<job>>

(* The status byte that the driver reads tells whether this command went   *)
(* wrong, and REQUEST SENSE has something to say about it then, except for *)
(* a format that fails while it is writing, which clears the sense bytes.  *)
FailureReported ==
  pc = "waitmsg" =>
    /\ got = failed
    /\ failed /\ job.op # "FORMAT" => wd.sense

(* A driver that is asleep when its status is ready has its interrupt yet  *)
(* to come: the wakeup is not consumed by what was announced before.       *)
NoLostWakeup ==
  pc = "sleep" /\ wd.state = "STATUS" => wd.unit \in irq.complete

(***************************************************************************)
(* Why these hold.  The registers w, the history ex and fl of the command  *)
(* and the interrupts' flags are parameters, as a call of                  *)
(* wd_processContinue passes through a state between its two counters.     *)
(***************************************************************************)
Pending(w, c) == w.cmdCounter # 0 /\ w.command = c
AtRest(w)     == w.state = "IDLE" /\ ~Pending(w, "PROCESS_SCSICMD")

(* The bytes of data among the first n bytes of a command.                 *)
DataAmong(w, n) == IF n <= CdbLen(w) THEN 0 ELSE n - CdbLen(w)

(* The driver is still writing, or the command that it has written is      *)
(* coming, and the controller holds the bytes that were written.           *)
Coming(w) ==
  /\ w.state \in {"IDLE", "MESSAGE"}
  /\ w.status \cap {"INPFULL", "OPCOMP"} = {}
  /\ ~Pending(w, "SET_INPFULL")
  /\ pc \in {"poll", "write", "wait", "sleep", "woken"}
  /\ w.scsiIdx = sent
  /\ sent >= 1 => w.opcode = job.op
  /\ sent >= 2 => w.unit = job.unit
  /\ IF pc \in {"poll", "write"}
       THEN w.state = "IDLE" /\ (sent = 0 \/ sent < BytesOf(w))
       ELSE sent >= 2
  /\ w.state = "MESSAGE" => w.opcode # "CLASS2"
  /\ IF Pending(w, "PROCESS_SCSICMD")
       THEN /\ w.state = "IDLE" /\ "OUTEMPTY" \notin w.status
            /\ pc # "write" /\ sent >= 1 /\ sent <= BytesOf(w)
            /\ w.dataIdx = DataAmong(w, sent - 1)
       ELSE pc \in {"poll", "write"} => w.dataIdx = DataAmong(w, sent)

(* It has been executed, and nothing leads to another execution.           *)
Executed(w, fl) ==
  /\ w.state # "MESSAGE" /\ ~Pending(w, "PROCESS_SCSICMD")
  /\ pc \notin {"poll", "write"}
  /\ w.check = fl
  /\ fl /\ job.op # "FORMAT" => w.sense
  /\ pc = "waitmsg" => got = fl

UnderWay(w, ex, fl) ==
  /\ ~Pending(w, "RESET")
  /\ w.state # "IDLE" \/ ex = <<>> => "SBUSY" \in w.status
  /\ IF ex = <<>> THEN Coming(w) ELSE Executed(w, fl)

LadderInv(w, ex, fl) ==
  /\ ex \in {<<>>, <<job>>}
  /\ pc # "reset" => "SRST" \notin w.ctl
  /\ IF pc \in {"free", "reset"} THEN AtRest(w) ELSE UnderWay(w, ex, fl)

(* What is left of the last byte's handling runs down before the status    *)
(* phase, n phases of which are over; k is 1 between the two counters.     *)
RunsDown(w, n, k) ==
  w.cmdCounter # 0 =>
    w.cmdCounter + n * PhaseCount <= w.stateCounter + CmdCount + k

(* The status phase of a sleeping driver's command shows exactly 0xcc.     *)
SleepInv(w, k) ==
  /\ Sleeps(w)
  /\ w.state # "MESSAGEBYTE"
  /\ w.cmdCounter # 0 => w.command \in {"PROCESS_SCSICMD", "RESET_OUTREGFULL"}
  /\ w.state = "MESSAGE" => RunsDown(w, 1, k)
  /\ w.state = "COMPLETE" => RunsDown(w, 2, k)
  /\ w.state \in {"READRESULTS", "STATUS"} =>
       w.stateCounter = 0 /\ w.cmdCounter = 0
  /\ w.state = "STATUS" => w.status = StatusCC

HostIInv ==
  /\ pc \in Pcs /\ job \in Jobs /\ sent \in Nat
  /\ LadderInv(wd, ran, failed)
  /\ pc \in {"sleep", "woken"} => SleepInv(wd, 0)
  /\ NoLostWakeup

(* A driver that does not give up gets to the end of every command.        *)
CommandEnds == <>[][~GiveUp]_allVars => []<>(pc \in {"free", "reset"})
=============================================================================

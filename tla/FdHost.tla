------------------------------- MODULE FdHost -------------------------------
(***************************************************************************)
(* The floppy controller with a driver, and a user who changes the disk    *)
(* and resets the machine.  With ENBINTR the driver sleeps until the       *)
(* interrupt of level 3; without it, it reads the status register until    *)
(* it has seen BUSY come and go.  It may give up on a command at any       *)
(* moment and force an interrupt, and it uses the options, the control     *)
(* latch, the registers and the buffer only between commands.              *)
(*                                                                         *)
(* One sector of the disk is watched.  What it may hold is kept in         *)
(* `possible': what the driver knows that it wrote there, and what it may  *)
(* have written with a command that failed or that it gave up.  `same'     *)
(* says that the disk has not been changed since the command was issued.   *)
(***************************************************************************)
EXTENDS Fd

CONSTANTS
  OptionValues,   (* what the driver writes to 13J                         *)
  Controls,       (* ... and to 13K                                        *)
  Settable,       (* the registers that it writes                          *)
  Issued,         (* the commands that it issues                           *)
  ForceFlags,     (* ... and the flags with which it forces an interrupt:  *)
                  (* not the one that interrupts at the start of a command *)
  Watched         (* the track, side and sector that is watched            *)

ASSUME HostAssumption ==
  /\ OptionValues \subseteq SUBSET Options
  /\ Controls \subseteq [sel : SUBSET Drives, side : 0 .. Sides - 1]
  /\ Settable \subseteq {"track", "sector", "data"}
  /\ Issued \subseteq Commands
  /\ ForceFlags \subseteq SUBSET {"IMMEDIATE"}
  /\ Watched \in Reg \X (0 .. Sides - 1) \X (1 .. SectorsPerTrack)

VARIABLES pc, possible, same

allVars == <<vars, pc, possible, same>>

Pcs     == {"idle", "wait", "seen", "woken", "forced"}
Waiting == {"wait", "seen", "woken"}

OnWatched == <<fd.track, fd.side, fd.sector>> = Watched

HostInit == Init /\ pc = "idle" /\ possible = {Blank} /\ same = FALSE

Sleeps == "ENBINTR" \in fd.opt

-----------------------------------------------------------------------------
(* Between commands.  FRES going up starts a command, too.                 *)
Configure ==
  /\ pc = "idle"
  /\ \/ \E o \in OptionValues :
          /\ WriteOptions(o)
          /\ pc' = IF "FRES" \in o \ fd.opt THEN "wait" ELSE "idle"
     \/ \E c \in Controls : WriteControl(c.sel, c.side) /\ UNCHANGED pc
     \/ \E r \in Settable, v \in Reg : WriteReg(r, v) /\ UNCHANGED pc
     \/ \E v \in Values : WriteBuffer(v) /\ UNCHANGED pc
  /\ UNCHANGED <<possible, same>>

Issue(c) ==
  /\ pc = "idle" /\ "FRES" \in fd.opt
  /\ Command(c)
  /\ pc' = "wait" /\ same' = TRUE
  /\ UNCHANGED possible

-----------------------------------------------------------------------------
(* The end of a command, as the driver sees it, of which it now knows what *)
(* it may have written.                                                    *)
Errors(w) ==
  {"CRCERR", "NOTFOUND", "NOTREADY"} \cup
  (IF w.cmd \in Transfers THEN LostData ELSE {})

Knows(content) ==
  /\ same' = FALSE
  /\ possible' = IF pc \in Waiting /\ fd.cmd = "WRITE_REC" /\ OnWatched /\ same
                 THEN content ELSE possible
WroteMaybe == Knows(possible \cup {fd.buf})

Succeeds ==
  /\ pc \in {"seen", "woken"} /\ pc' = "idle"
  /\ fd'.stat \cap ({"BUSY"} \cup Errors(fd)) = {}
  /\ Knows({fd.buf})

(* A look at the status register.                                          *)
Looks ==
  /\ pc \in {"seen", "woken"} \/ (pc = "wait" /\ ~Sleeps)
  /\ ReadStatus
  /\ \/ /\ "BUSY" \in fd'.stat
        /\ pc' = IF Sleeps THEN "wait" ELSE "seen"
        /\ UNCHANGED <<possible, same>>
     \/ Succeeds
     \/ /\ "BUSY" \notin fd'.stat
        /\ pc = "wait" \/ fd'.stat \cap Errors(fd) # {}
        /\ pc' = "idle"
        /\ WroteMaybe

(* The driver gives up; an interrupt that it forces is awaited.            *)
GivesUp(flags) ==
  /\ pc # "forced"
  /\ ForceIntr(flags)
  /\ pc' = IF Sleeps /\ "IMMEDIATE" \in flags THEN "forced" ELSE "idle"
  /\ WroteMaybe

(* The handler of level 3 wakes the driver up.                             *)
TakeInterrupt ==
  /\ irq.line
  /\ FdIrqAck
  /\ pc' = IF pc = "wait" THEN "woken" ELSE IF pc = "forced" THEN "idle" ELSE pc
  /\ UNCHANGED <<possible, same>>

Tick == ProcessContinue /\ UNCHANGED <<pc, possible, same>>

-----------------------------------------------------------------------------
(* The user.                                                               *)
NewDisk == possible' = {Blank} /\ same' = FALSE
ChangeDisk(kind) == Attach(kind, BlankDisk) /\ NewDisk /\ UNCHANGED pc
RemoveDisk == Detach /\ NewDisk /\ UNCHANGED pc
OtherDrive == AttachOther /\ UNCHANGED <<pc, possible, same>>
Reboot     == PulseReset /\ NewDisk /\ pc' = "idle"

HostNext ==
  \/ Configure
  \/ \E c \in Issued : Issue(c)
  \/ Looks
  \/ \E flags \in ForceFlags : GivesUp(flags)
  \/ TakeInterrupt
  \/ Tick
  \/ \E kind \in {"rw", "ro"} : ChangeDisk(kind)
  \/ RemoveDisk
  \/ OtherDrive
  \/ Reboot

(* The machine goes on executing, takes interrupts, and the driver looks   *)
(* at the status when it is its turn.                                      *)
HostSpec == HostInit /\ [][HostNext]_allVars
FairHostSpec ==
  /\ HostSpec
  /\ WF_allVars(Tick) /\ WF_allVars(TakeInterrupt) /\ WF_allVars(Looks)

-----------------------------------------------------------------------------
(* The status says BUSY while a command runs and no longer, and the CPU is *)
(* not interrupted before it is over: fd_genInterrupt, FORCE INTERRUPT and *)
(* the next command leave nothing of the command before.                   *)
InterruptMeansDone ==
  /\ "BUSY" \in fd.stat <=> fd.running
  /\ irq.line => ~fd.running

(* What a read returns is what was written last to that place of the disk  *)
(* that is in the drive, whatever failed, was given up or reset since.     *)
ReadsLastWrite ==
  [][Succeeds /\ fd.cmd = "READ_REC" /\ OnWatched /\ same
       => fd.buf \in possible]_allVars

(* A command that was accepted is answered, though its disk is taken out,  *)
(* and a forced interrupt comes, unless the machine was reset with the     *)
(* interrupt raised, after which the line stays down until it is forced.   *)
Deaf == irq.asserted /\ ~irq.line
AcceptedAnswered ==
  /\ (pc \in Waiting /\ fd.running /\ ~Deaf) ~> (pc \notin Waiting)
  /\ (pc = "forced") ~> (pc # "forced")
=============================================================================

------------------------------ MODULE SccHost ------------------------------
(***************************************************************************)
(* The serial chip with the console driver of BOSS/IX, as the comments of  *)
(* scc.c describe it: the driver writes WR1 = 0x17, pushes one byte into   *)
(* the data register, sets its busy flag and sleeps until the transmit     *)
(* interrupt clears it.  The handler asks RR2 of channel B for the source, *)
(* answers a transmit interrupt with WR0 command 5 and a receive interrupt *)
(* by reading the character.                                               *)
(*                                                                         *)
(* The driver's main line masks level 5 while it is between two accesses   *)
(* that belong together; as soon as it does not, the CPU takes a pending   *)
(* interrupt before the next instruction.  scc_pollStatus comes in between *)
(* any two accesses, as sys_device_tick calls it on an instruction count.  *)
(***************************************************************************)
EXTENDS Scc

(* The registers this driver selects beside WR0.                           *)
ASSUME DriverAssumption == {1, 2, 9} \subseteq Regs

VARIABLES
  pc,       (* where the driver is                                         *)
  source,   (* the source RR2 named, or the channel the main line uses     *)
  busy      (* the driver's busy flag of each channel                      *)

hostVars == <<pc, source, busy>>
allVars  == <<vars, hostVars>>

Phases == {"main", "wr9", "wr1", "flag", "vector", "serve"}

HostTypeOK ==
  /\ TypeOK
  /\ pc \in Phases
  /\ source \in Sources
  /\ busy \in [Channels -> BOOLEAN]

HostInit ==
  /\ Init
  /\ pc = "main"
  /\ source = <<"A", "rx">>
  /\ busy = None

(* Main line code runs on only when no interrupt is waiting.               *)
MainLine == pc = "main" /\ ~line

SelectMaster ==
  /\ MainLine
  /\ SelectReg("A", 9, "null")
  /\ pc' = "wr9"
  /\ UNCHANGED <<source, busy>>

SetMaster ==
  /\ pc = "wr9"
  /\ WriteWR9("A", TRUE, {})
  /\ pc' = "main"
  /\ UNCHANGED <<source, busy>>

SelectEnables(p) ==
  /\ MainLine
  /\ SelectReg(p, 1, "null")
  /\ pc' = "wr1"
  /\ source' = <<p, "tx">>
  /\ UNCHANGED busy

SetEnables ==
  /\ pc = "wr1"
  /\ WriteWR1(source[1], TRUE, TRUE)
  /\ pc' = "main"
  /\ UNCHANGED <<source, busy>>

PutByte(p, c) ==
  /\ MainLine
  /\ txie[p] /\ ~busy[p]
  /\ DataWrite(p, c)
  /\ pc' = "flag"
  /\ source' = <<p, "tx">>
  /\ UNCHANGED busy

SetFlag ==
  /\ pc = "flag"
  /\ busy' = [busy EXCEPT ![source[1]] = TRUE]
  /\ pc' = "main"
  /\ UNCHANGED <<vars, source>>

Interrupt ==
  /\ pc = "main" /\ line
  /\ SelectReg("B", 2, "null")
  /\ pc' = "vector"
  /\ UNCHANGED <<source, busy>>

(* RR2 of channel B: without a pending source it reports "nothing".        *)
ReadVector ==
  /\ pc = "vector"
  /\ ReadCmd("B")
  /\ IF \E s \in Sources : Highest(s)
       THEN pc' = "serve" /\ source' = CHOOSE s \in Sources : Highest(s)
       ELSE pc' = "main" /\ UNCHANGED source
  /\ UNCHANGED busy

ServeTx ==
  /\ pc = "serve" /\ source[2] = "tx"
  /\ SelectReg(source[1], 0, "resetTx")
  /\ busy' = [busy EXCEPT ![source[1]] = FALSE]
  /\ pc' = "main"
  /\ UNCHANGED source

ServeRx ==
  /\ pc = "serve" /\ source[2] = "rx"
  /\ IF avail[source[1]] THEN DataRead(source[1]) ELSE UNCHANGED vars
  /\ pc' = "main"
  /\ UNCHANGED <<source, busy>>

Typing == Poll /\ UNCHANGED hostVars

HostNext ==
  \/ SelectMaster
  \/ SetMaster
  \/ \E p \in Channels : SelectEnables(p)
  \/ SetEnables
  \/ \E p \in Channels, c \in Chars : PutByte(p, c)
  \/ SetFlag
  \/ Interrupt
  \/ ReadVector
  \/ ServeTx
  \/ ServeRx
  \/ Typing

(* The CPU takes an unmasked interrupt, and the driver's code runs on.     *)
Fairness ==
  /\ WF_allVars(SetMaster) /\ WF_allVars(SetEnables) /\ WF_allVars(SetFlag)
  /\ WF_allVars(Interrupt) /\ WF_allVars(ReadVector)
  /\ WF_allVars(ServeTx) /\ WF_allVars(ServeRx)

HostSpec     == HostInit /\ [][HostNext]_allVars
FairHostSpec == HostSpec /\ Fairness

-----------------------------------------------------------------------------
(* "Without a transmit-empty interrupt the flag never clears": the driver  *)
(* sleeps on a channel only while its transmit interrupt is pending, and   *)
(* none is pending that nobody sleeps or is about to sleep for.            *)
SleepsOnInterrupt ==
  \A p \in Channels :
    txPend[p] <=> busy[p] \/ (pc = "flag" /\ source[1] = p)

(* The handler always finds the source of its interrupt in RR2.            *)
HandlerFindsSource == pc = "vector" => \E s \in Sources : Highest(s)

(* What makes both inductive: the driver never selects loopback, and what  *)
(* interrupted it is still wanted when it asks for the source.             *)
HostIInv ==
  /\ IInv /\ HostTypeOK
  /\ \A p \in Channels : ~loop[p]
  /\ pc = "vector" => Wanted
  /\ SleepsOnInterrupt

(* No byte blocks the console: once the terminals fall silent and the      *)
(* master enable is set, every busy flag is cleared.                       *)
ByteAnswered ==
  <>[][~Typing]_allVars /\ <>mie => \A p \in Channels : busy[p] ~> ~busy[p]

(* And every character that was announced is read, the port with the lower *)
(* priority included.                                                      *)
CharacterRead ==
  <>[][~Typing]_allVars /\ <>mie => \A p \in Channels : rxPend[p] ~> ~avail[p]
=============================================================================

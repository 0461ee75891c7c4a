---------------------------- MODULE FourWayHost ----------------------------
(***************************************************************************)
(* The 4-Way boards with the host that uses them the way the header and    *)
(* the comments of fourway.c describe the BOSS/IX driver: it completes the *)
(* handshake of every board, issues a command on a port only when the      *)
(* previous one has answered with its interrupt, and reads the receive     *)
(* register once for every receive interrupt, before it takes the next     *)
(* interrupt (the CPU runs the handler with level 4 masked).               *)
(*                                                                         *)
(* A character is a pair of the port it was typed on and a stamp that      *)
(* counts modulo Stamps, which is more than the characters one port can    *)
(* have under way, so that a lost, repeated or misplaced one is seen.      *)
(***************************************************************************)
EXTENDS FourWay

CONSTANT Stamps

VARIABLES
  outstanding,   (* ports with a command that has not interrupted yet      *)
  serving,       (* ports whose receive interrupt is being served          *)
  typed,         (* stamp of the next character the port's terminal sends  *)
  expected,      (* stamp of the next character the host reads from it     *)
  misread,       (* the host read something else than it expected          *)
  overwritten    (* ports whose queued receive interrupt was overwritten   *)

hostVars == <<outstanding, serving, typed, expected, misread, overwritten>>
allVars  == <<vars, hostVars>>

ASSUME HostAssumption ==
  /\ Stamps \in Nat
  /\ Stamps > MaxQueue + 1
  /\ Chars = Slots \X (0 .. Stamps - 1)

HostInit ==
  /\ Init
  /\ outstanding = {}
  /\ serving = {}
  /\ typed = [s \in Slots |-> 0]
  /\ expected = [s \in Slots |-> 0]
  /\ misread = FALSE
  /\ overwritten = {}

TypeKey(s) ==
  /\ Arrive(s, <<s, typed[s]>>)
  /\ typed' = [typed EXCEPT ![s] = (@ + 1) % Stamps]
  /\ UNCHANGED <<outstanding, serving, expected, misread, overwritten>>

StartBoard(n) ==
  /\ Handshake(n, FALSE)
  /\ UNCHANGED hostVars

(* The host clears the status word of the block before it sets the bit.    *)
Issue(n, cmd) ==
  LET S == {n} \X DOMAIN cmd
  IN /\ S # {}
     /\ S \cap outstanding = {}
     /\ RunCommands(n, FALSE, cmd)
     /\ outstanding' = outstanding \cup S
     /\ overwritten' = overwritten \cup
          {s \in S : pend[s] = "RXCHAR" /\ pend'[s] = "CMDEXECUTED"}
     /\ UNCHANGED <<serving, typed, expected, misread>>

PollStatus(n) ==
  /\ StatusRead(n)
  /\ UNCHANGED hostVars

Tick ==
  /\ ProcessPendingCompletes
  /\ UNCHANGED hostVars

TakeInterrupt ==
  /\ serving = {}
  /\ IrqAck
  /\ IF raised.cond = "RXCHAR"
       THEN serving' = {raised.slot} /\ UNCHANGED outstanding
       ELSE outstanding' = outstanding \ {raised.slot} /\ UNCHANGED serving
  /\ UNCHANGED <<typed, expected, misread, overwritten>>

ReadChar(s) ==
  /\ s \in serving
  /\ RecvRead(s[1])
  /\ serving' = serving \ {s}
  /\ misread' = (misread \/ recvData[s[1]] # <<s, expected[s]>>)
  /\ expected' = [expected EXCEPT ![s] = (@ + 1) % Stamps]
  /\ UNCHANGED <<outstanding, typed, overwritten>>

IssueAny == \E n \in Boards, R \in SUBSET Ports :
              \E cmd \in [R -> HostCommands] : Issue(n, cmd)

HostNext ==
  \/ \E s \in Slots : TypeKey(s)
  \/ \E n \in Boards : StartBoard(n)
  \/ IssueAny
  \/ \E n \in Boards : PollStatus(n)
  \/ Tick
  \/ TakeInterrupt
  \/ \E s \in Slots : ReadChar(s)

(***************************************************************************)
(* sys_device_tick comes back to fw_processPendingCompletes for as long as *)
(* the machine runs, and a driver neither leaves level 4 masked nor stops  *)
(* in the middle of its receive handler.  Nobody has to type or to issue a *)
(* command.                                                                *)
(***************************************************************************)
Fairness ==
  /\ WF_allVars(Tick)
  /\ WF_allVars(TakeInterrupt)
  /\ \A s \in Slots : WF_allVars(ReadChar(s))

HostSpec     == HostInit /\ [][HostNext]_allVars
FairHostSpec == HostSpec /\ Fairness

-----------------------------------------------------------------------------
(* A port's completion is on its way for exactly as long as the host waits *)
(* for it: waiting in the port's entry, or on the interrupt line, never in *)
(* both and never overwritten, however many ports complete at once.        *)
CompletionAccounted ==
  \A s \in Slots :
    LET queued == pend[s] = "CMDEXECUTED"
        onLine == raised # NoInt /\ raised.slot = s
                                 /\ raised.cond = "CMDEXECUTED"
    IN /\ s \in outstanding <=> queued \/ onLine
       /\ ~(queued /\ onLine)

(* The receive register is full only while somebody will come to empty it: *)
(* its interrupt is queued, on the line or being served by the host.  The   *)
(* one exception is a queued receive interrupt that a completion of the     *)
(* same port overwrote in fw_addPendingComplete.                            *)
FullIsAnnounced ==
  \A n \in Boards : hostReadRegFull[n] =>
    \E s \in {n} \X Ports :
      \/ pend[s] = "RXCHAR"
      \/ raised # NoInt /\ raised.slot = s /\ raised.cond = "RXCHAR"
      \/ s \in serving
      \/ s \in overwritten

(* Every read of the receive register made for a port's receive interrupt  *)
(* returns the next character typed on that port.                          *)
ReadsInOrder == ~misread

(* Why the reads are in order.  A receive interrupt, wherever it is, is of *)
(* the port whose character is in the register, and it is in one place.    *)
OnLine(s, c)  == raised # NoInt /\ raised.slot = s /\ raised.cond = c
InReg(s)      == hostReadRegFull[s[1]] /\ recvData[s[1]][1] = s

OneAnnouncement ==
  \A s \in Slots :
    /\ pend[s] = "RXCHAR" \/ OnLine(s, "RXCHAR") \/ s \in serving => InReg(s)
    /\ ~(pend[s] = "RXCHAR" /\ OnLine(s, "RXCHAR"))
    /\ ~(pend[s] = "RXCHAR" /\ s \in serving)
    /\ ~(OnLine(s, "RXCHAR") /\ s \in serving)

(* The characters q of port s are stamped one after the other, from a up   *)
(* to the one before b.                                                    *)
Succ(k) == (k + 1) % Stamps
InSequence(q, s, a, b) ==
  IF q = <<>> THEN a = b
  ELSE /\ q[1] = <<s, a>>
       /\ \A i \in 1 .. Len(q) - 1 : q[i + 1] = <<s, Succ(q[i][2])>>
       /\ b = Succ(q[Len(q)][2])

LinesInOrder ==
  \A s \in Slots :
    /\ InReg(s) => recvData[s[1]] = <<s, expected[s]>>
    /\ InSequence(sockQ[s], s,
               IF InReg(s) THEN Succ(expected[s]) ELSE expected[s],
               typed[s])

HostTypes ==
  /\ serving \subseteq Slots
  /\ typed \in [Slots -> 0 .. Stamps - 1]
  /\ expected \in [Slots -> 0 .. Stamps - 1]
  /\ \A n \in Boards : ~inhibit[n]

HostIInv ==
  /\ IInv /\ HostTypes
  /\ CompletionAccounted /\ FullIsAnnounced
  /\ OneAnnouncement /\ LinesInOrder /\ ReadsInOrder

(* "FIXME, already waiting, should not happen" in fw_addPendingComplete:   *)
(* a queued receive interrupt is never overwritten by a completion.        *)
NeverAlreadyWaiting ==
  [][\A s \in Slots : pend[s] = "RXCHAR" => pend'[s] # "CMDEXECUTED"]_allVars

-----------------------------------------------------------------------------
(* Once the host stops issuing commands, all its commands are answered.    *)
QueueDrains ==
  <>[][~IssueAny]_allVars => <>[](outstanding = {})

(* Once the host stops issuing commands, which are answered first for the  *)
(* boards before it, a full receive register is emptied, so that the board  *)
(* goes on receiving: unless the interrupt that announced the character was *)
(* overwritten, for then nothing ever empties it.                           *)
RegisterFreed ==
  <>[][~IssueAny]_allVars =>
    \A n \in Boards :
      hostReadRegFull[n] ~>
        ~hostReadRegFull[n] \/ \E p \in Ports : <<n, p>> \in overwritten

(* fw_processPendingCompletes takes a port's characters once the ports that *)
(* come before it on its board fall silent and the host stops issuing       *)
(* commands: until then both have priority over it, for as long as they     *)
(* like, as the first port with data fills the board's one register and the *)
(* scan is skipped while a completion is queued.                            *)
ServedInTurn ==
  \A s \in Slots :
    /\ <>[][~IssueAny]_allVars
    /\ \A t \in Slots : t[1] = s[1] /\ t[2] < s[2] => <>[](sockQ[t] = <<>>)
    /\ <>(initState[s[1]] = "DONE")
    /\ [](\A p \in Ports : <<s[1], p>> \notin overwritten)
    => (sockQ[s] # <<>> ~> sockQ[s] = <<>>)

(* The boards implement the lines of TermLines: a character is unread      *)
(* while it is in the socket's buffer or in the full receive register.     *)
InRegister(s) ==
  IF hostReadRegFull[s[1]] /\ recvData[s[1]][1] = s THEN <<recvData[s[1]]>>
                                                   ELSE <<>>

TL == INSTANCE TermLines WITH
        Lines <- Slots, Keys <- Chars, Wrap <- Stamps, reads <- expected,
        unread <- [s \in Slots |-> InRegister(s) \o sockQ[s]]

ImplementsLines == TL!Spec
=============================================================================

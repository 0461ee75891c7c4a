------------------------------ MODULE FourWay ------------------------------
(***************************************************************************)
(* The 4-Way serial controllers of the MAI 2000 (src/src/fourway.c).       *)
(*                                                                         *)
(* Every board shares one interrupt line, so a completion that cannot be   *)
(* raised is parked in fw_pendingComplete, one entry per port, and is      *)
(* raised by fw_processPendingCompletes, which sys_device_tick calls every *)
(* 600 instructions.  The same routine moves a received character into the *)
(* board's single receive register and parks its interrupt.                *)
(*                                                                         *)
(* One step is one register access by the host CPU, one call of            *)
(* fw_processPendingCompletes, one interrupt acknowledge or one debugger   *)
(* reset: the emulator runs all of them in one thread, between two         *)
(* instructions.  Only the arrival of characters is concurrent.            *)
(*                                                                         *)
(* Abstracted: the command block address and the data packets (the host's  *)
(* memory is read when the command runs, which is when the model chooses   *)
(* the command), DSR bits, and the port registers nothing ever reads       *)
(* (flow control, XON and XOFF values, baud rate).                         *)
(***************************************************************************)
EXTENDS Integers, FiniteSets, Sequences

CONSTANTS
  NBoards,    (* FW_INSTALLED                                              *)
  NPorts,     (* FW_PORTS                                                  *)
  Chars,      (* what a terminal can send                                  *)
  NoChar,     (* the receive register before the first character           *)
  NoInt,      (* fwIntPending = 0                                          *)
  HostCommands, (* the commands the host uses                              *)
  MaxQueue    (* bound: characters waiting in one socket ring buffer       *)

Boards == 0 .. NBoards - 1
Ports  == 0 .. NPorts - 1
Slots  == Boards \X Ports   \* entry n * 4 + port of fw_pendingComplete

Conditions == {"RXCHAR", "CMDEXECUTED"}
InitStates == {"CBLOCK_LOW", "CBLOCK_HIGH", "VECTOR", "DONE"}
StatusBits == {"BUSY", "NOCMDBLOCK", "NOVECTOR"}

(***************************************************************************)
(* fwIntVector is base + 4 * port + condition.  The vector is kept apart   *)
(* by what it encodes; `owned' is false when the base is still the zero of *)
(* a board that has not been handed one.                                   *)
(***************************************************************************)
Vectors == [slot : Slots, cond : Conditions, owned : BOOLEAN]

(***************************************************************************)
(* The commands, told apart by what they do: DATA is SINGL and DT, SET is  *)
(* every command that only stores a port register (or nothing), EIGHT1 and *)
(* EIGHTN are FW_CMD_EIGHT with byte count 1 and any other, BAD is a       *)
(* command the board does not know.                                        *)
(***************************************************************************)
Commands    == {"DATA", "SET", "EIGHT1", "EIGHTN", "STAT", "BAD"}
CmdStatuses == {"zero", "EXECUTED", "NOTUNDERSTOOD"}

ASSUME FWAssumption ==
  /\ NBoards \in Nat \ {0}
  /\ NPorts \in Nat \ {0}
  /\ HostCommands \subseteq Commands
  /\ MaxQueue \in Nat \ {0}
  /\ NoInt \notin Vectors
  /\ NoChar \notin Chars

VARIABLES
  initState,        (* fw[n].initState                                     *)
  status,           (* fw[n].status                                        *)
  inhibit,          (* FW_IR_INTINHIBIT of fw[n].instr                     *)
  recvData,         (* fw[n].recvData                                      *)
  hostReadRegFull,  (* fw[n].hostReadRegFull                               *)
  is8bit,           (* fw[n].portRegs[p].is8bit                            *)
  pend,             (* fw_pendingComplete: "free" is waiting = 0           *)
  numPending,       (* numPendingComplete                                  *)
  raised,           (* fwIntPending and fwIntVector                        *)
  line,             (* the level 4 bit of the CPU's virq_state             *)
  cbStatus,         (* FW_CB_STATUS of the port's command block, in RAM    *)
  sockQ             (* recvData of the port's socket, oldest first         *)

boardVars == <<initState, status, inhibit, is8bit>>
rxVars    == <<recvData, hostReadRegFull, sockQ>>
intVars   == <<pend, numPending, raised, line>>
vars      == <<boardVars, rxVars, intVars, cbStatus>>

TypeOK ==
  /\ initState \in [Boards -> InitStates]
  /\ status \in [Boards -> SUBSET StatusBits]
  /\ inhibit \in [Boards -> BOOLEAN]
  /\ recvData \in [Boards -> Chars \cup {NoChar}]
  /\ hostReadRegFull \in [Boards -> BOOLEAN]
  /\ is8bit \in [Slots -> BOOLEAN]
  /\ pend \in [Slots -> Conditions \cup {"free"}]
  /\ numPending \in Int
  /\ raised \in Vectors \cup {NoInt}
  /\ line \in BOOLEAN
  /\ cbStatus \in [Slots -> CmdStatuses]
  /\ sockQ \in [Slots -> Seq(Chars)]

(* fw_pulse_reset at power on, before any character has arrived.           *)
Init ==
  /\ initState = [n \in Boards |-> "CBLOCK_LOW"]
  /\ status = [n \in Boards |-> {"NOCMDBLOCK", "NOVECTOR"}]
  /\ inhibit = [n \in Boards |-> FALSE]
  /\ recvData = [n \in Boards |-> NoChar]
  /\ hostReadRegFull = [n \in Boards |-> FALSE]
  /\ is8bit = [s \in Slots |-> FALSE]
  /\ pend = [s \in Slots |-> "free"]
  /\ numPending = 0
  /\ raised = NoInt
  /\ line = FALSE
  /\ cbStatus = [s \in Slots |-> "zero"]
  /\ sockQ = [s \in Slots |-> <<>>]

-----------------------------------------------------------------------------
(* The order in which the loops of fourway.c visit the entries.            *)
Before(s, t) == s[1] < t[1] \/ (s[1] = t[1] /\ s[2] < t[2])
First(S)     == CHOOSE s \in S : \A t \in S \ {s} : Before(s, t)

Waiting(p) == {s \in Slots : p[s] # "free"}

Vector(s, c) ==
  [slot |-> s, cond |-> c, owned |-> "NOVECTOR" \notin status[s[1]]]

(***************************************************************************)
(* fw_addPendingComplete for a set of entries: the condition is stored     *)
(* whether or not the entry was taken, the count grows only if it was not. *)
(***************************************************************************)
AddPending(p, S, c) == [s \in Slots |-> IF s \in S THEN c ELSE p[s]]
CountNever(S) == 0                \* faulty: numPendingComplete++ forgotten
NewlyPending(S)     == Cardinality({s \in S : pend[s] = "free"})

(* Faulty: what cannot be raised at once is dropped, not queued.           *)
CompleteDropping(S) ==
  /\ raised' = IF raised = NoInt /\ S # {} THEN Vector(First(S), "CMDEXECUTED")
                                         ELSE raised
  /\ line' = (line \/ S # {})
  /\ UNCHANGED <<pend, numPending>>

(***************************************************************************)
(* fw_complete(n, port, CMDEXECUTED) called in turn for every entry of S:  *)
(* nothing while the board inhibits interrupts; otherwise the first call   *)
(* raises the interrupt if none is pending and every other one is queued.  *)
(***************************************************************************)
Complete(S) ==
  LET now    == IF raised = NoInt /\ S # {} THEN {First(S)} ELSE {}
      queued == S \ now
  IN /\ raised' = IF now = {} THEN raised ELSE Vector(First(S), "CMDEXECUTED")
     /\ line' = (line \/ now # {})
     /\ pend' = AddPending(pend, queued, "CMDEXECUTED")
     /\ numPending' = numPending + NewlyPending(queued)

-----------------------------------------------------------------------------
(* A character reaches the ring buffer of the port's socket (external).    *)
Arrive(s, c) ==
  /\ Len(sockQ[s]) < MaxQueue
  /\ sockQ' = [sockQ EXCEPT ![s] = Append(@, c)]
  /\ UNCHANGED <<boardVars, recvData, hostReadRegFull, intVars, cbStatus>>

(***************************************************************************)
(* fw_instrWrite during the initialisation handshake: the two halves of    *)
(* the command block address, then the base vector.  The byte is also      *)
(* stored as the instruction register, so its top bit inhibits interrupts. *)
(***************************************************************************)
Handshake(n, inh) ==
  /\ initState[n] # "DONE"
  /\ inhibit' = [inhibit EXCEPT ![n] = inh]
  /\ initState' = [initState EXCEPT ![n] =
       CASE @ = "CBLOCK_LOW"  -> "CBLOCK_HIGH"
         [] @ = "CBLOCK_HIGH" -> "VECTOR"
         [] @ = "VECTOR"      -> "DONE"]
  /\ status' = [status EXCEPT ![n] = (@ \cup {"BUSY"}) \
       CASE initState[n] = "CBLOCK_LOW"  -> {}
         [] initState[n] = "CBLOCK_HIGH" -> {"NOCMDBLOCK"}
         [] initState[n] = "VECTOR"      -> {"NOVECTOR"}]
  /\ UNCHANGED <<is8bit, rxVars, intVars, cbStatus>>

(* What fw_runCommand writes into the command block when it is done.       *)
Termination(cmd) ==
  CASE cmd = "BAD"  -> "NOTUNDERSTOOD"
    [] cmd = "STAT" -> "zero"           \* testRetCode
    [] OTHER        -> "EXECUTED"

(***************************************************************************)
(* fw_instrWrite after the handshake: every port whose ready bit is set    *)
(* runs the command of its block.  cmd is the part of host memory the      *)
(* board reads, one command per ready port.                                *)
(***************************************************************************)
RunCommands(n, inh, cmd) ==
  LET S == {n} \X DOMAIN cmd
  IN /\ initState[n] = "DONE"
     /\ inhibit' = [inhibit EXCEPT ![n] = inh]
     /\ cbStatus' = [s \in Slots |->
          IF s \in S THEN Termination(cmd[s[2]]) ELSE cbStatus[s]]
     /\ is8bit' = [s \in Slots |->
          is8bit[s] \/ (s \in S /\ cmd[s[2]] \in {"EIGHT1", "EIGHTN"})]
     /\ IF inh THEN UNCHANGED intVars ELSE Complete(S)
     /\ UNCHANGED <<initState, status, rxVars>>

(* Faulty: the read clears every bit that is set during the handshake.     *)
StatusReadClearsAll(n) ==
  /\ status' = [status EXCEPT ![n] = {}]
  /\ UNCHANGED <<initState, inhibit, is8bit, rxVars, intVars, cbStatus>>

(* A read of the status register clears BUSY.                              *)
StatusRead(n) ==
  /\ status' = [status EXCEPT ![n] = @ \ {"BUSY"}]
  /\ UNCHANGED <<initState, inhibit, is8bit, rxVars, intVars, cbStatus>>

(* Faulty: the register stays full after it was read.                      *)
RecvReadKeeps(n) == UNCHANGED vars

(* A read of FW_REG_RECV hands over recvData and empties the register.     *)
RecvRead(n) ==
  /\ hostReadRegFull' = [hostReadRegFull EXCEPT ![n] = FALSE]
  /\ UNCHANGED <<boardVars, recvData, sockQ, intVars, cbStatus>>

(***************************************************************************)
(* fw_processPendingCompletes.  Only when nothing is queued does it look   *)
(* for received characters, and takes at most one per board, as the first  *)
(* one fills the register the others would need.  Then the first entry     *)
(* waiting is taken off the queue and completed.                           *)
(***************************************************************************)
HasData(n) == {p \in Ports : sockQ[<<n, p>>] # <<>>}
CanReceiveFull(n) ==    \* faulty: does not ask whether the register is free
  "NOVECTOR" \notin status[n] /\ HasData(n) # {}
CanReceiveEarly(n) ==   \* faulty: does not wait for the base vector
  ~hostReadRegFull[n] /\ HasData(n) # {}
CanReceive(n) ==
  "NOVECTOR" \notin status[n] /\ ~hostReadRegFull[n] /\ HasData(n) # {}
RxSlot(n)  == First({n} \X HasData(n))
Scanned ==
  IF numPending = 0 THEN {RxSlot(n) : n \in {m \in Boards : CanReceive(m)}}
                    ELSE {}

(* Faulty: the character stays at the head of the socket's buffer.         *)
ReceiveWithoutDequeue(S) ==
  /\ recvData' = [n \in Boards |->
       IF CanReceive(n) /\ RxSlot(n) \in S THEN Head(sockQ[RxSlot(n)])
                                           ELSE recvData[n]]
  /\ hostReadRegFull' = [n \in Boards |->
       hostReadRegFull[n] \/ (CanReceive(n) /\ RxSlot(n) \in S)]
  /\ UNCHANGED sockQ

ReceiveInto(S) ==
  /\ recvData' = [n \in Boards |->
       IF CanReceive(n) /\ RxSlot(n) \in S THEN Head(sockQ[RxSlot(n)])
                                           ELSE recvData[n]]
  /\ hostReadRegFull' = [n \in Boards |->
       hostReadRegFull[n] \/ (CanReceive(n) /\ RxSlot(n) \in S)]
  /\ sockQ' = [s \in Slots |-> IF s \in S THEN Tail(sockQ[s]) ELSE sockQ[s]]

ProcessPendingCompletes ==
  LET queue == AddPending(pend, Scanned, "RXCHAR")
      next  == First(Waiting(queue))
  IN /\ raised = NoInt
     /\ numPending # 0 \/ Scanned # {}
     /\ Waiting(queue) # {}
     /\ ReceiveInto(Scanned)
     /\ pend' = [queue EXCEPT ![next] = "free"]
     /\ numPending' = numPending + NewlyPending(Scanned) - 1
     /\ IF inhibit[next[1]]
          THEN UNCHANGED <<raised, line>>
          ELSE /\ raised' = Vector(next, queue[next])
               /\ line' = TRUE
     /\ UNCHANGED <<boardVars, cbStatus>>

(* Faulty: the queue is lost with the acknowledge.                         *)
IrqAckEmptiesQueue ==
  /\ line /\ raised # NoInt
  /\ raised' = NoInt /\ line' = FALSE
  /\ pend' = [s \in Slots |-> "free"] /\ numPending' = 0
  /\ UNCHANGED <<boardVars, rxVars, cbStatus>>

(* The CPU takes the level 4 interrupt and fw_irq_ack hands over the vector. *)
IrqAck ==
  /\ line
  /\ raised # NoInt
  /\ raised' = NoInt
  /\ line' = FALSE
  /\ UNCHANGED <<boardVars, rxVars, pend, numPending, cbStatus>>

(***************************************************************************)
(* fw_pulse_reset.  It zeroes the count of queued completions and leaves   *)
(* the entries themselves as they are.                                     *)
(***************************************************************************)
PulseReset ==
  /\ initState' = [n \in Boards |-> "CBLOCK_LOW"]
  /\ status' = [n \in Boards |-> {"NOCMDBLOCK", "NOVECTOR"}]
  /\ inhibit' = [n \in Boards |-> FALSE]
  /\ recvData' = [n \in Boards |-> NoChar]
  /\ hostReadRegFull' = [n \in Boards |-> FALSE]
  /\ is8bit' = [s \in Slots |-> FALSE]
  /\ numPending' = 0
  /\ raised' = NoInt
  /\ line' = FALSE
  /\ UNCHANGED <<pend, cbStatus, sockQ>>

-----------------------------------------------------------------------------
Run ==
  \/ \E s \in Slots, c \in Chars : Arrive(s, c)
  \/ \E n \in Boards, inh \in BOOLEAN : Handshake(n, inh)
  \/ \E n \in Boards, inh \in BOOLEAN, R \in SUBSET Ports :
       \E cmd \in [R -> HostCommands] : RunCommands(n, inh, cmd)
  \/ \E n \in Boards : StatusRead(n)
  \/ \E n \in Boards : RecvRead(n)
  \/ ProcessPendingCompletes
  \/ IrqAck

(* A power cycle of the emulated machine, and one that is never reset.     *)
Spec      == Init /\ [][Run]_vars
ResetSpec == Init /\ [][Run \/ PulseReset]_vars

-----------------------------------------------------------------------------
(* The interrupt line is up exactly while an interrupt is waiting for its  *)
(* acknowledge, whatever the host does and across resets: fw_complete,     *)
(* fw_irq_ack and fw_pulse_reset keep fwIntPending and the line together.  *)
LineTracksPending == line <=> raised # NoInt

(* numPendingComplete counts the entries that are waiting: the scan for    *)
(* received characters and the drain of the queue are both decided on it.  *)
CountMatches == numPending = Cardinality(Waiting(pend))

(* An interrupt on the line carries a vector made from a base the board    *)
(* was handed in the handshake, never from the zero of an idle board.      *)
OnlyOwnedVectors == raised # NoInt => raised.owned

(* Each board has at most one received character announced and not yet     *)
(* raised: it has one receive register.                                    *)
OneRxQueuedPerBoard ==
  \A s, t \in Slots :
    s[1] = t[1] /\ pend[s] = "RXCHAR" /\ pend[t] = "RXCHAR" => s = t

(* The status bits the host polls follow the handshake.                    *)
StatusTracksHandshake ==
  \A n \in Boards :
    /\ "NOVECTOR" \in status[n] <=> initState[n] # "DONE"
    /\ "NOCMDBLOCK" \in status[n]
         <=> initState[n] \in {"CBLOCK_LOW", "CBLOCK_HIGH"}

(* The inductive invariant of a machine that is not reset.                 *)
QueuedBoardsReady ==
  \A s \in Slots : pend[s] # "free" => initState[s[1]] = "DONE"

IInv ==
  /\ TypeOK
  /\ LineTracksPending
  /\ CountMatches
  /\ OnlyOwnedVectors
  /\ OneRxQueuedPerBoard
  /\ StatusTracksHandshake
  /\ QueuedBoardsReady
=============================================================================

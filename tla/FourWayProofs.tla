--------------------------- MODULE FourWayProofs ---------------------------
(***************************************************************************)
(* Proofs about FourWay, for any number of boards and ports.               *)
(*                                                                         *)
(* The lemmas come in three groups: what the helpers return (First picks a *)
(* member of its set, Scanned takes one port with data of each board),     *)
(* how the queue's count changes when entries are added and removed, and   *)
(* one lemma per conjunct of the inductive invariant IInv.                 *)
(***************************************************************************)
EXTENDS FourWayHost, FiniteSetTheorems, SequenceTheorems,
        WellFoundedInduction, TLAPS

-----------------------------------------------------------------------------
LEMMA LeastOfNats ==
  ASSUME NEW S \in SUBSET Nat, S # {}
  PROVE  \E m \in S : \A k \in S : m <= k
<1> DEFINE Below == {0 .. k : k \in S}
<1>1. Below \subseteq FiniteSubsetsOf(Nat) /\ Below # {}
  <2>1. \A k \in S : 0 .. k \subseteq Nat /\ IsFiniteSet(0 .. k)
    BY FS_Interval
  <2>2. QED
    BY <2>1 DEF FiniteSubsetsOf
<1> HIDE DEF Below
<1>2. PICK B \in Below :
        \A C \in Below : <<C, B>> \notin StrictSubsetOrdering(Nat)
  BY <1>1, FS_StrictSubsetOrderingWellFounded, WFMin
<1>3. PICK m \in S : B = 0 .. m
  BY <1>2 DEF Below
<1>4. ASSUME NEW k \in S PROVE m <= k
  <2> SUFFICES ASSUME k < m PROVE FALSE
    OBVIOUS
  <2>1. (0 .. k) \subseteq (0 .. m) /\ 0 .. k # 0 .. m
    <3>1. m \in 0 .. m /\ m \notin 0 .. k
      OBVIOUS
    <3>2. QED
      BY <3>1
  <2>2. 0 .. k \in Below
    BY DEF Below
  <2>3. 0 .. k \in FiniteSubsetsOf(Nat) /\ B \in FiniteSubsetsOf(Nat)
    BY <2>2, <1>1
  <2>4. <<0 .. k, B>> \in StrictSubsetOrdering(Nat)
    BY <2>1, <2>3, <1>3 DEF StrictSubsetOrdering, FiniteSubsetsOf
  <2>5. QED
    BY <2>2, <2>4, <1>2
<1>5. QED
  BY <1>4

(* The loops of fourway.c stop at an entry of the set they look for.       *)
LEMMA FirstIsMember ==
  ASSUME NEW S \in SUBSET Slots, S # {}
  PROVE  First(S) \in S
<1> USE FWAssumption DEF Slots, Boards, Ports
<1>1. {s[1] : s \in S} \in SUBSET Nat /\ {s[1] : s \in S} # {}
  OBVIOUS
<1>2. PICK n \in {s[1] : s \in S} : \A k \in {s[1] : s \in S} : n <= k
  BY <1>1, LeastOfNats
<1> DEFINE Row == {s \in S : s[1] = n}
<1>3. {s[2] : s \in Row} \in SUBSET Nat /\ {s[2] : s \in Row} # {}
  BY <1>2
<1>4. PICK p \in {s[2] : s \in Row} : \A k \in {s[2] : s \in Row} : p <= k
  BY <1>3, LeastOfNats
<1>5. PICK s \in Row : s[2] = p
  BY <1>4
<1>6. \A t \in S \ {s} : Before(s, t)
  <2> SUFFICES ASSUME NEW t \in S \ {s} PROVE Before(s, t)
    OBVIOUS
  <2>1. n <= t[1]
    BY <1>2
  <2>2. CASE t[1] = n
    <3>1. p <= t[2]
      BY <2>2, <1>4
    <3>2. t[2] # p
      BY <2>2, <1>5
    <3>3. QED
      BY <2>2, <3>1, <3>2, <1>5 DEF Before
  <2>3. CASE t[1] # n
    BY <2>1, <2>3, <1>5 DEF Before
  <2>4. QED
    BY <2>2, <2>3
<1>7. QED
  BY <1>5, <1>6 DEF First

(* The scan for received characters takes entries of ports with data, at   *)
(* most one per board, and only from boards that were handed a vector and  *)
(* whose register is free.                                                 *)
LEMMA ScannedPorts ==
  /\ Scanned \in SUBSET Slots
  /\ \A s \in Scanned : sockQ[s] # <<>> /\ "NOVECTOR" \notin status[s[1]]
  /\ \A s, t \in Scanned : s[1] = t[1] => s = t
  /\ \A s \in Scanned : CanReceive(s[1]) /\ s = RxSlot(s[1])
<1>1. ASSUME NEW n \in Boards, CanReceive(n)
      PROVE  RxSlot(n) \in {n} \X HasData(n)
  <2>1. HasData(n) \subseteq Ports /\ HasData(n) # {}
    BY <1>1 DEF CanReceive, HasData
  <2>2. {n} \X HasData(n) \subseteq Slots
    BY <2>1 DEF Slots
  <2>3. {n} \X HasData(n) # {}
    <3>1. PICK p \in HasData(n) : TRUE
      BY <2>1
    <3>2. <<n, p>> \in {n} \X HasData(n)
      BY <3>1
    <3>3. QED
      BY <3>2
  <2>4. QED
    BY <2>2, <2>3, FirstIsMember DEF RxSlot
<1>2. ASSUME NEW n \in Boards, CanReceive(n)
      PROVE  /\ RxSlot(n) \in Slots
             /\ RxSlot(n)[1] = n
             /\ sockQ[RxSlot(n)] # <<>>
             /\ "NOVECTOR" \notin status[n]
  <2>1. PICK p \in HasData(n) : RxSlot(n) = <<n, p>>
    BY <1>1, <1>2
  <2>2. QED
    BY <2>1, <1>2 DEF HasData, Slots, CanReceive
<1>3. \A s \in Scanned : \E n \in Boards : CanReceive(n) /\ s = RxSlot(n)
  BY DEF Scanned
<1>4. QED
  BY <1>2, <1>3

LEMMA FiniteSlots == IsFiniteSet(Slots)
<1>1. IsFiniteSet(Boards) /\ IsFiniteSet(Ports)
  BY FS_Interval, FWAssumption DEF Boards, Ports
<1>2. QED
  BY <1>1, FS_Product DEF Slots

LEMMA FiniteWaiting ==
  ASSUME NEW p
  PROVE  IsFiniteSet(Waiting(p)) /\ Waiting(p) \in SUBSET Slots
BY FiniteSlots, FS_Subset DEF Waiting

(* fw_addPendingComplete adds to the count what it adds to the queue.      *)
LEMMA CountAdded ==
  ASSUME NEW S \in SUBSET Slots, NEW c \in Conditions
  PROVE  Cardinality(Waiting(AddPending(pend, S, c)))
           = Cardinality(Waiting(pend)) + NewlyPending(S)
<1> DEFINE New == {s \in S : pend[s] = "free"}
<1>1. Waiting(AddPending(pend, S, c)) = Waiting(pend) \cup New
  BY DEF Waiting, AddPending, Conditions
<1>2. IsFiniteSet(New) /\ IsFiniteSet(Waiting(pend))
  BY FiniteSlots, FiniteWaiting, FS_Subset
<1>3. Waiting(pend) \cap New = {}
  BY DEF Waiting
<1>4. /\ Cardinality(Waiting(pend) \cup New)
            = Cardinality(Waiting(pend)) + Cardinality(New) - 0
      /\ Cardinality(Waiting(pend)) \in Nat /\ Cardinality(New) \in Nat
  BY <1>2, <1>3, FS_Union, FS_EmptySet, FS_CardinalityType
<1>5. QED
  BY <1>1, <1>4 DEF NewlyPending

LEMMA NewlyPendingNat ==
  ASSUME NEW S \in SUBSET Slots
  PROVE  NewlyPending(S) \in Nat
BY FiniteSlots, FS_Subset, FS_CardinalityType DEF NewlyPending

(* Taking an entry off the queue takes one off the count.                  *)
LEMMA CountRemoved ==
  ASSUME NEW q \in [Slots -> Conditions \cup {"free"}], NEW s \in Waiting(q)
  PROVE  Cardinality(Waiting([q EXCEPT ![s] = "free"]))
           = Cardinality(Waiting(q)) - 1
<1>1. Waiting([q EXCEPT ![s] = "free"]) = Waiting(q) \ {s}
  BY DEF Waiting
<1>2. QED
  BY <1>1, FiniteWaiting, FS_RemoveElement

LEMMA AddPendingType ==
  ASSUME NEW p \in [Slots -> Conditions \cup {"free"}],
         NEW S \in SUBSET Slots, NEW c \in Conditions
  PROVE  AddPending(p, S, c) \in [Slots -> Conditions \cup {"free"}]
BY DEF AddPending

(* Without the vectors of another base a vector is never NoInt.            *)
LEMMA VectorType ==
  ASSUME NEW s \in Slots, NEW c \in Conditions
  PROVE  Vector(s, c) \in Vectors /\ Vector(s, c) # NoInt
<1>1. Vector(s, c) \in Vectors
  BY DEF Vector, Vectors
<1>2. QED
  BY <1>1, FWAssumption

(* fw_complete, seen from outside: part of the entries are queued, and the *)
(* line changes only together with the vector.                             *)
LEMMA CompleteEffect ==
  ASSUME NEW S \in SUBSET Slots, Complete(S), line \in BOOLEAN
  PROVE  /\ \E Q \in SUBSET S :
              /\ pend' = AddPending(pend, Q, "CMDEXECUTED")
              /\ numPending' = numPending + NewlyPending(Q)
         /\ \/ raised' = raised /\ line' = line
            \/ /\ line' = TRUE
               /\ \E s \in S : raised' = Vector(s, "CMDEXECUTED")
<1>1. CASE raised = NoInt /\ S # {}
  <2>1. First(S) \in S
    BY <1>1, FirstIsMember
  <2>2. S \ {First(S)} \in SUBSET S
    OBVIOUS
  <2>3. /\ pend' = AddPending(pend, S \ {First(S)}, "CMDEXECUTED")
        /\ numPending' = numPending + NewlyPending(S \ {First(S)})
        /\ raised' = Vector(First(S), "CMDEXECUTED")
        /\ line' = TRUE
    BY <1>1, Zenon DEF Complete
  <2>4. QED
    BY <2>1, <2>2, <2>3
<1>2. CASE ~(raised = NoInt /\ S # {})
  <2>1. S \ {} = S
    OBVIOUS
  <2>2. /\ pend' = AddPending(pend, S, "CMDEXECUTED")
        /\ numPending' = numPending + NewlyPending(S)
        /\ raised' = raised
        /\ line' = (line \/ FALSE)
    BY <1>2, <2>1, Zenon DEF Complete
  <2>3. line' = line
    BY <2>2
  <2>4. S \in SUBSET S
    OBVIOUS
  <2>5. QED
    BY <2>2, <2>3, <2>4, Zenon
<1>3. QED
  BY <1>1, <1>2

(* The queue after the scan, and the entry that is taken off it.           *)
Queue == AddPending(pend, Scanned, "RXCHAR")
Taken == First(Waiting(Queue))

LEMMA DrainEffect ==
  ASSUME TypeOK, ProcessPendingCompletes
  PROVE  /\ Queue \in [Slots -> Conditions \cup {"free"}]
         /\ Taken \in Waiting(Queue)
         /\ Taken \in Slots
         /\ Queue[Taken] \in Conditions
         /\ pend' = [Queue EXCEPT ![Taken] = "free"]
         /\ numPending' = numPending + NewlyPending(Scanned) - 1
         /\ \/ raised' = raised /\ line' = line
            \/ raised' = Vector(Taken, Queue[Taken]) /\ line' = TRUE
         /\ ReceiveInto(Scanned)
         /\ UNCHANGED <<boardVars, cbStatus>>
<1>1. Queue \in [Slots -> Conditions \cup {"free"}]
  BY ScannedPorts, AddPendingType DEF TypeOK, Queue, Conditions
<1>2. Waiting(Queue) \in SUBSET Slots /\ Waiting(Queue) # {}
  BY FiniteWaiting DEF ProcessPendingCompletes, Queue
<1>3. Taken \in Waiting(Queue)
  BY <1>2, FirstIsMember DEF Taken
<1>4. Taken \in Slots /\ Queue[Taken] \in Conditions
  BY <1>1, <1>3 DEF Waiting
<1>5. /\ pend' = [Queue EXCEPT ![Taken] = "free"]
      /\ numPending' = numPending + NewlyPending(Scanned) - 1
      /\ \/ raised' = raised /\ line' = line
         \/ raised' = Vector(Taken, Queue[Taken]) /\ line' = TRUE
      /\ ReceiveInto(Scanned)
      /\ UNCHANGED <<boardVars, cbStatus>>
  BY Zenon DEF ProcessPendingCompletes, Queue, Taken
<1>6. QED
  BY <1>1, <1>3, <1>4, <1>5

(* Taking the next character of the scanned ports keeps the types.         *)
LEMMA ReceiveType ==
  ASSUME TypeOK, ReceiveInto(Scanned)
  PROVE  /\ recvData' \in [Boards -> Chars \cup {NoChar}]
         /\ hostReadRegFull' \in [Boards -> BOOLEAN]
         /\ sockQ' \in [Slots -> Seq(Chars)]
<1>1. ASSUME NEW s \in Scanned
      PROVE  Head(sockQ[s]) \in Chars /\ Tail(sockQ[s]) \in Seq(Chars)
  <2>1. sockQ[s] \in Seq(Chars) /\ sockQ[s] # <<>>
    BY <1>1, ScannedPorts DEF TypeOK
  <2>2. QED
    BY <2>1
<1>2. recvData' \in [Boards -> Chars \cup {NoChar}]
  <2>1. \A n \in Boards :
          IF CanReceive(n) /\ RxSlot(n) \in Scanned
            THEN Head(sockQ[RxSlot(n)]) \in Chars \cup {NoChar}
            ELSE recvData[n] \in Chars \cup {NoChar}
    BY <1>1 DEF TypeOK
  <2>2. QED
    BY <2>1 DEF ReceiveInto
<1>3. hostReadRegFull' \in [Boards -> BOOLEAN]
  BY DEF ReceiveInto, TypeOK
<1>4. sockQ' \in [Slots -> Seq(Chars)]
  BY <1>1 DEF ReceiveInto, TypeOK
<1>5. QED
  BY <1>2, <1>3, <1>4

LEMMA CommandSlots ==
  ASSUME NEW n \in Boards, NEW R \in SUBSET Ports,
         NEW cmd \in [R -> HostCommands]
  PROVE  {n} \X DOMAIN cmd \in SUBSET Slots
BY DEF Slots

(* What RunCommands does to the interrupt variables: nothing, or fw_complete. *)
LEMMA CommandEffect ==
  ASSUME TypeOK,
         NEW n \in Boards, NEW inh, NEW R \in SUBSET Ports,
         NEW cmd \in [R -> HostCommands], RunCommands(n, inh, cmd)
  PROVE  /\ initState[n] = "DONE"
         /\ UNCHANGED <<initState, status, rxVars>>
         /\ \/ UNCHANGED <<pend, numPending>>
            \/ \E Q \in SUBSET ({n} \X DOMAIN cmd) :
                 /\ pend' = AddPending(pend, Q, "CMDEXECUTED")
                 /\ numPending' = numPending + NewlyPending(Q)
         /\ \/ raised' = raised /\ line' = line
            \/ /\ line' = TRUE
               /\ \E s \in {n} \X DOMAIN cmd :
                    raised' = Vector(s, "CMDEXECUTED")
<1>1. /\ initState[n] = "DONE"
      /\ UNCHANGED <<initState, status, rxVars>>
      /\ UNCHANGED intVars \/ Complete({n} \X DOMAIN cmd)
  BY Zenon DEF RunCommands
<1>2. CASE UNCHANGED intVars
  BY <1>1, <1>2 DEF intVars
<1>3. CASE Complete({n} \X DOMAIN cmd)
  <2>1. line \in BOOLEAN
    BY DEF TypeOK
  <2>2. {n} \X DOMAIN cmd \in SUBSET Slots
    BY CommandSlots
  <2>3. QED
    BY <1>1, <1>3, <2>1, <2>2, CompleteEffect
<1>4. QED
  BY <1>1, <1>2, <1>3

-----------------------------------------------------------------------------
LEMMA ResetTypes ==
  "CBLOCK_LOW" \in InitStates /\ {"NOCMDBLOCK", "NOVECTOR"} \in SUBSET StatusBits
BY DEF InitStates, StatusBits

LEMMA TypeInit == Init => TypeOK
<1> SUFFICES ASSUME Init PROVE TypeOK
  OBVIOUS
<1>1. <<>> \in Seq(Chars)
  OBVIOUS
<1>2. sockQ \in [Slots -> Seq(Chars)]
  BY <1>1 DEF Init
<1>3. /\ initState \in [Boards -> InitStates]
      /\ status \in [Boards -> SUBSET StatusBits]
  BY ResetTypes DEF Init
<1>4. cbStatus \in [Slots -> CmdStatuses]
  BY DEF Init, CmdStatuses
<1>5. /\ inhibit \in [Boards -> BOOLEAN]
      /\ recvData \in [Boards -> Chars \cup {NoChar}]
      /\ hostReadRegFull \in [Boards -> BOOLEAN]
      /\ is8bit \in [Slots -> BOOLEAN]
  BY DEF Init
<1>6. /\ pend \in [Slots -> Conditions \cup {"free"}]
      /\ numPending \in Int
      /\ raised \in Vectors \cup {NoInt}
  BY DEF Init
<1>7. line \in BOOLEAN
  BY Zenon DEF Init
<1>8. QED
  BY <1>2, <1>3, <1>4, <1>5, <1>6, <1>7 DEF TypeOK

LEMMA TypeStep == TypeOK /\ [Run \/ PulseReset]_vars => TypeOK'
<1> SUFFICES ASSUME TypeOK, [Run \/ PulseReset]_vars PROVE TypeOK'
  OBVIOUS
<1> USE DEF boardVars, rxVars, intVars
<1>1. ASSUME NEW s \in Slots, NEW c \in Chars, Arrive(s, c)
      PROVE  TypeOK'
  <2>1. sockQ' \in [Slots -> Seq(Chars)]
    BY <1>1 DEF Arrive, TypeOK
  <2>2. QED
    BY <1>1, <2>1 DEF Arrive, TypeOK
<1>2. ASSUME NEW n \in Boards, NEW inh \in BOOLEAN, Handshake(n, inh)
      PROVE  TypeOK'
  <2>1. initState[n] \in InitStates \ {"DONE"}
    BY <1>2 DEF Handshake, TypeOK
  <2>2. initState' \in [Boards -> InitStates]
    BY <1>2, <2>1 DEF Handshake, TypeOK, InitStates
  <2>3. status' \in [Boards -> SUBSET StatusBits]
    BY <1>2, <2>1 DEF Handshake, TypeOK, InitStates, StatusBits
  <2>4. QED
    BY <1>2, <2>2, <2>3 DEF Handshake, TypeOK
<1>3. ASSUME NEW n \in Boards, NEW inh \in BOOLEAN, NEW R \in SUBSET Ports,
             NEW cmd \in [R -> HostCommands], RunCommands(n, inh, cmd)
      PROVE  TypeOK'
  <2> DEFINE S == {n} \X DOMAIN cmd
  <2>1. S \in SUBSET Slots
    BY <1>3, CommandSlots
  <2>2. /\ UNCHANGED <<initState, status, recvData, hostReadRegFull, sockQ>>
        /\ inhibit' \in [Boards -> BOOLEAN]
        /\ is8bit' \in [Slots -> BOOLEAN]
    BY <1>3 DEF RunCommands, TypeOK
  <2>3. cbStatus' \in [Slots -> CmdStatuses]
    BY <1>3 DEF RunCommands, TypeOK, Termination, CmdStatuses
  <2>4. /\ pend' \in [Slots -> Conditions \cup {"free"}]
        /\ numPending' \in Int
        /\ raised' \in Vectors \cup {NoInt}
        /\ line' \in BOOLEAN
    <3>1. "CMDEXECUTED" \in Conditions
      BY DEF Conditions
    <3>2. ASSUME NEW Q \in SUBSET S,
                 pend' = AddPending(pend, Q, "CMDEXECUTED"),
                 numPending' = numPending + NewlyPending(Q)
          PROVE  /\ pend' \in [Slots -> Conditions \cup {"free"}]
                 /\ numPending' \in Int
      <4>1. Q \in SUBSET Slots
        BY <2>1
      <4>2. NewlyPending(Q) \in Nat
        BY <4>1, NewlyPendingNat
      <4>3. pend' \in [Slots -> Conditions \cup {"free"}]
        BY <3>1, <3>2, <4>1, AddPendingType DEF TypeOK
      <4>4. QED
        BY <3>2, <4>2, <4>3 DEF TypeOK
    <3>3. \A s \in S : Vector(s, "CMDEXECUTED") \in Vectors
      BY <2>1, <3>1, VectorType
    <3>4. /\ \/ UNCHANGED <<pend, numPending>>
             \/ \E Q \in SUBSET S :
                  /\ pend' = AddPending(pend, Q, "CMDEXECUTED")
                  /\ numPending' = numPending + NewlyPending(Q)
          /\ \/ raised' = raised /\ line' = line
             \/ /\ line' = TRUE
                /\ \E s \in S : raised' = Vector(s, "CMDEXECUTED")
      BY <1>3, CommandEffect
    <3>5. QED
      BY <3>2, <3>3, <3>4 DEF TypeOK
  <2>5. QED
    BY <2>2, <2>3, <2>4 DEF TypeOK
<1>4. ASSUME NEW n \in Boards, StatusRead(n)
      PROVE  TypeOK'
  BY <1>4 DEF StatusRead, TypeOK
<1>5. ASSUME NEW n \in Boards, RecvRead(n)
      PROVE  TypeOK'
  BY <1>5 DEF RecvRead, TypeOK
<1>6. CASE ProcessPendingCompletes
  <2>1. /\ recvData' \in [Boards -> Chars \cup {NoChar}]
        /\ hostReadRegFull' \in [Boards -> BOOLEAN]
        /\ sockQ' \in [Slots -> Seq(Chars)]
    BY <1>6, DrainEffect, ReceiveType
  <2>2. pend' \in [Slots -> Conditions \cup {"free"}]
    BY <1>6, DrainEffect
  <2>3. numPending' \in Int
    <3>1. NewlyPending(Scanned) \in Nat
      BY ScannedPorts, NewlyPendingNat
    <3>2. numPending' = numPending + NewlyPending(Scanned) - 1
      BY <1>6, DrainEffect
    <3>3. QED
      BY <3>1, <3>2 DEF TypeOK
  <2>4. raised' \in Vectors \cup {NoInt} /\ line' \in BOOLEAN
    BY <1>6, DrainEffect, VectorType DEF TypeOK
  <2>5. UNCHANGED <<boardVars, cbStatus>>
    BY <1>6, DrainEffect
  <2>6. QED
    BY <2>1, <2>2, <2>3, <2>4, <2>5 DEF TypeOK
<1>7. CASE IrqAck
  BY <1>7 DEF IrqAck, TypeOK
<1>8. CASE PulseReset
  <2>1. /\ initState' \in [Boards -> InitStates]
        /\ status' \in [Boards -> SUBSET StatusBits]
    BY <1>8, ResetTypes DEF PulseReset
  <2>2. /\ inhibit' \in [Boards -> BOOLEAN]
        /\ recvData' \in [Boards -> Chars \cup {NoChar}]
        /\ hostReadRegFull' \in [Boards -> BOOLEAN]
        /\ is8bit' \in [Slots -> BOOLEAN]
    BY <1>8 DEF PulseReset
  <2>3. /\ UNCHANGED <<pend, cbStatus, sockQ>>
        /\ numPending' \in Int
        /\ raised' \in Vectors \cup {NoInt}
    BY <1>8 DEF PulseReset
  <2>4. line' \in BOOLEAN
    BY <1>8, Zenon DEF PulseReset
  <2>5. QED
    BY <2>1, <2>2, <2>3, <2>4 DEF TypeOK
<1>9. CASE UNCHANGED vars
  BY <1>9 DEF vars, TypeOK
<1>10. QED
  BY <1>1, <1>2, <1>3, <1>4, <1>5, <1>6, <1>7, <1>8, <1>9 DEF Run

(* The variables keep their types, whatever the host does and across resets. *)
THEOREM TypeCorrect == ResetSpec => []TypeOK
BY TypeInit, TypeStep, PTL DEF ResetSpec

-----------------------------------------------------------------------------
(* The steps that leave the interrupt variables alone.                     *)
Quiet ==
  \/ \E s \in Slots, c \in Chars : Arrive(s, c)
  \/ \E n \in Boards, inh \in BOOLEAN : Handshake(n, inh)
  \/ \E n \in Boards : StatusRead(n)
  \/ \E n \in Boards : RecvRead(n)
  \/ UNCHANGED vars

Commanded ==
  \E n \in Boards, inh \in BOOLEAN, R \in SUBSET Ports :
    \E cmd \in [R -> HostCommands] : RunCommands(n, inh, cmd)

LEMMA QuietEffect == Quiet => UNCHANGED intVars
BY DEF Quiet, Arrive, Handshake, StatusRead, RecvRead, vars, intVars, boardVars,
       rxVars

LEMMA RunCases ==
  [Run]_vars => Quiet \/ Commanded \/ ProcessPendingCompletes \/ IrqAck
BY Zenon DEF Run, Quiet, Commanded

LEMMA LineInit == Init => LineTracksPending
BY Zenon DEF Init, LineTracksPending

LEMMA LineStep ==
  TypeOK /\ LineTracksPending /\ [Run \/ PulseReset]_vars => LineTracksPending'
<1> SUFFICES ASSUME TypeOK, LineTracksPending, [Run \/ PulseReset]_vars
             PROVE  LineTracksPending'
  OBVIOUS
<1>1. CASE Quiet
  BY <1>1, QuietEffect DEF intVars, LineTracksPending
<1>2. CASE Commanded
  <2>1. PICK n \in Boards, inh \in BOOLEAN, R \in SUBSET Ports :
          \E cmd \in [R -> HostCommands] : RunCommands(n, inh, cmd)
    BY <1>2 DEF Commanded
  <2>2. PICK cmd \in [R -> HostCommands] : RunCommands(n, inh, cmd)
    BY <2>1
  <2>3. \A s \in {n} \X DOMAIN cmd : Vector(s, "CMDEXECUTED") # NoInt
    BY CommandSlots, VectorType DEF Conditions
  <2>4. \/ raised' = raised /\ line' = line
        \/ line' = TRUE /\ raised' # NoInt
    BY <2>2, <2>3, CommandEffect
  <2>5. QED
    BY <2>4 DEF LineTracksPending
<1>3. CASE ProcessPendingCompletes
  <2>1. \/ raised' = raised /\ line' = line
        \/ line' = TRUE /\ raised' # NoInt
    BY <1>3, DrainEffect, VectorType
  <2>2. QED
    BY <2>1 DEF LineTracksPending
<1>4. CASE IrqAck
  BY <1>4, Zenon DEF IrqAck, LineTracksPending
<1>5. CASE PulseReset
  BY <1>5, Zenon DEF PulseReset, LineTracksPending
<1>6. QED
  BY <1>1, <1>2, <1>3, <1>4, <1>5, RunCases

(* The level 4 line and fwIntPending never part, resets included.          *)
THEOREM LineCorrect == ResetSpec => []LineTracksPending
<1>1. Init => TypeOK /\ LineTracksPending
  BY TypeInit, LineInit
<1>2. TypeOK /\ LineTracksPending /\ [Run \/ PulseReset]_vars
        => (TypeOK /\ LineTracksPending)'
  BY TypeStep, LineStep
<1>3. QED
  BY <1>1, <1>2, PTL DEF ResetSpec

-----------------------------------------------------------------------------
(* Only the handshake moves the state it follows in the status register,   *)
(* and it never leaves DONE.                                               *)
LEMMA StatusStep ==
  TypeOK /\ StatusTracksHandshake /\ [Run]_vars
    => /\ StatusTracksHandshake'
       /\ \A n \in Boards : initState[n] = "DONE" => initState'[n] = "DONE"
<1> SUFFICES ASSUME TypeOK, StatusTracksHandshake, [Run]_vars
             PROVE  /\ StatusTracksHandshake'
                    /\ \A n \in Boards :
                         initState[n] = "DONE" => initState'[n] = "DONE"
  OBVIOUS
<1>1. ASSUME UNCHANGED <<initState, status>>
      PROVE  /\ StatusTracksHandshake'
             /\ \A n \in Boards :
                  initState[n] = "DONE" => initState'[n] = "DONE"
  BY <1>1 DEF StatusTracksHandshake
<1>2. ASSUME NEW n \in Boards, NEW inh, Handshake(n, inh)
      PROVE  /\ StatusTracksHandshake'
             /\ \A m \in Boards :
                  initState[m] = "DONE" => initState'[m] = "DONE"
  BY <1>2 DEF Handshake, StatusTracksHandshake, TypeOK, InitStates, StatusBits
<1>3. ASSUME NEW n \in Boards, StatusRead(n)
      PROVE  /\ StatusTracksHandshake'
             /\ \A m \in Boards :
                  initState[m] = "DONE" => initState'[m] = "DONE"
  BY <1>3 DEF StatusRead, StatusTracksHandshake, TypeOK
<1>4. CASE Commanded
  BY <1>1, <1>4 DEF Commanded, RunCommands
<1>5. CASE ProcessPendingCompletes
  BY <1>1, <1>5, DrainEffect DEF boardVars
<1>6. CASE IrqAck
  BY <1>1, <1>6 DEF IrqAck, boardVars
<1>7. CASE Quiet
  BY <1>1, <1>2, <1>3, <1>7
     DEF Quiet, Arrive, RecvRead, vars, boardVars
<1>8. QED
  BY <1>4, <1>5, <1>6, <1>7, RunCases

(* Entries are queued only for boards that completed the handshake.        *)
LEMMA ReadyStep ==
  TypeOK /\ StatusTracksHandshake /\ QueuedBoardsReady /\ [Run]_vars
    => QueuedBoardsReady'
<1> SUFFICES ASSUME TypeOK, StatusTracksHandshake, QueuedBoardsReady, [Run]_vars,
                    NEW s \in Slots, pend'[s] # "free"
             PROVE  initState'[s[1]] = "DONE"
  BY DEF QueuedBoardsReady
<1>1. s[1] \in Boards
  BY DEF Slots
<1>2. SUFFICES initState[s[1]] = "DONE"
  BY <1>1, StatusStep
<1>3. CASE pend[s] # "free"
  BY <1>3 DEF QueuedBoardsReady
<1>4. CASE pend[s] = "free"
  <2>1. pend[s] # pend'[s]
    BY <1>4
  <2>2. CASE Commanded
    <3>1. PICK n \in Boards, inh \in BOOLEAN, R \in SUBSET Ports :
            \E cmd \in [R -> HostCommands] : RunCommands(n, inh, cmd)
      BY <2>2 DEF Commanded
    <3>2. PICK cmd \in [R -> HostCommands] : RunCommands(n, inh, cmd)
      BY <3>1
    <3>3. PICK Q \in SUBSET ({n} \X DOMAIN cmd) :
            pend' = AddPending(pend, Q, "CMDEXECUTED")
      <4>1. pend' # pend
        BY <2>1
      <4>2. \/ UNCHANGED <<pend, numPending>>
            \/ \E Q \in SUBSET ({n} \X DOMAIN cmd) :
                 pend' = AddPending(pend, Q, "CMDEXECUTED")
        BY <3>2, CommandEffect
      <4>3. QED
        BY <4>1, <4>2
    <3>4. s \in Q
      BY <2>1, <3>3 DEF AddPending
    <3>5. s[1] = n
      BY <3>4
    <3>6. initState[n] = "DONE"
      BY <3>2, CommandEffect
    <3>7. QED
      BY <3>5, <3>6
  <2>3. CASE ProcessPendingCompletes
    <3>1. s \in Scanned
      BY <2>1, <1>4, <2>3, DrainEffect DEF AddPending, Queue
    <3>2. QED
      BY <3>1, <1>1, ScannedPorts DEF StatusTracksHandshake
  <2>4. CASE Quiet
    BY <2>1, <2>4, QuietEffect DEF intVars
  <2>5. CASE IrqAck
    BY <2>1, <2>5 DEF IrqAck
  <2>6. QED
    BY <2>2, <2>3, <2>4, <2>5, RunCases
<1>5. QED
  BY <1>3, <1>4

(* Vectors are made only for boards past the handshake.                    *)
LEMMA OwnedStep ==
  /\ TypeOK /\ StatusTracksHandshake /\ QueuedBoardsReady /\ OnlyOwnedVectors
  /\ [Run]_vars
  => OnlyOwnedVectors'
<1> SUFFICES ASSUME TypeOK, StatusTracksHandshake, QueuedBoardsReady,
                    OnlyOwnedVectors, [Run]_vars
             PROVE  OnlyOwnedVectors'
  OBVIOUS
<1>1. ASSUME NEW s \in Slots, NEW c, initState[s[1]] = "DONE",
             raised' = Vector(s, c)
      PROVE  OnlyOwnedVectors'
  <2>1. "NOVECTOR" \notin status[s[1]]
    BY <1>1 DEF StatusTracksHandshake, Slots
  <2>2. QED
    BY <1>1, <2>1 DEF Vector, OnlyOwnedVectors
<1>2. ASSUME raised' = raised PROVE OnlyOwnedVectors'
  BY <1>2 DEF OnlyOwnedVectors
<1>3. CASE Quiet
  BY <1>2, <1>3, QuietEffect DEF intVars
<1>4. CASE Commanded
  <2>1. PICK n \in Boards, inh \in BOOLEAN, R \in SUBSET Ports :
          \E cmd \in [R -> HostCommands] : RunCommands(n, inh, cmd)
    BY <1>4 DEF Commanded
  <2>2. PICK cmd \in [R -> HostCommands] : RunCommands(n, inh, cmd)
    BY <2>1
  <2>3. \A s \in {n} \X DOMAIN cmd : s \in Slots /\ initState[s[1]] = "DONE"
    BY <2>2, CommandSlots, CommandEffect
  <2>4. \/ raised' = raised
        \/ \E s \in {n} \X DOMAIN cmd : raised' = Vector(s, "CMDEXECUTED")
    BY <2>2, CommandEffect
  <2>5. QED
    BY <1>1, <1>2, <2>3, <2>4
<1>5. CASE ProcessPendingCompletes
  <2>1. initState[Taken[1]] = "DONE"
    <3>1. Taken \in Slots /\ Queue[Taken] # "free"
      BY <1>5, DrainEffect DEF Waiting
    <3>2. CASE Taken \in Scanned
      BY <3>1, <3>2, ScannedPorts DEF StatusTracksHandshake, Slots
    <3>3. CASE Taken \notin Scanned
      BY <3>1, <3>3 DEF Queue, AddPending, QueuedBoardsReady
    <3>4. QED
      BY <3>2, <3>3
  <2>2. Taken \in Slots
        /\ (raised' = raised \/ raised' = Vector(Taken, Queue[Taken]))
    BY <1>5, DrainEffect
  <2>3. QED
    BY <1>1, <1>2, <2>1, <2>2
<1>6. CASE IrqAck
  BY <1>6 DEF IrqAck, OnlyOwnedVectors
<1>7. QED
  BY <1>3, <1>4, <1>5, <1>6, RunCases

(* The count follows the queue.                                            *)
LEMMA CountStep ==
  TypeOK /\ CountMatches /\ [Run]_vars => CountMatches'
<1> SUFFICES ASSUME TypeOK, CountMatches, [Run]_vars PROVE CountMatches'
  OBVIOUS
<1>1. ASSUME UNCHANGED <<pend, numPending>> PROVE CountMatches'
  BY <1>1 DEF CountMatches, Waiting
<1>2. Cardinality(Waiting(pend)) \in Nat
  BY FiniteWaiting, FS_CardinalityType
<1>3. CASE Quiet
  BY <1>1, <1>3, QuietEffect DEF intVars
<1>4. CASE Commanded
  <2>1. PICK n \in Boards, inh \in BOOLEAN, R \in SUBSET Ports :
          \E cmd \in [R -> HostCommands] : RunCommands(n, inh, cmd)
    BY <1>4 DEF Commanded
  <2>2. PICK cmd \in [R -> HostCommands] : RunCommands(n, inh, cmd)
    BY <2>1
  <2>3. ASSUME NEW Q \in SUBSET ({n} \X DOMAIN cmd),
               pend' = AddPending(pend, Q, "CMDEXECUTED"),
               numPending' = numPending + NewlyPending(Q)
        PROVE  CountMatches'
    <3>1. Q \in SUBSET Slots /\ "CMDEXECUTED" \in Conditions
      BY CommandSlots DEF Conditions
    <3>2. Cardinality(Waiting(pend'))
            = Cardinality(Waiting(pend)) + NewlyPending(Q)
      BY <2>3, <3>1, CountAdded
    <3>3. QED
      BY <2>3, <3>2 DEF CountMatches
  <2>4. \/ UNCHANGED <<pend, numPending>>
        \/ \E Q \in SUBSET ({n} \X DOMAIN cmd) :
             /\ pend' = AddPending(pend, Q, "CMDEXECUTED")
             /\ numPending' = numPending + NewlyPending(Q)
    BY <2>2, CommandEffect
  <2>5. QED
    BY <1>1, <2>3, <2>4
<1>5. CASE ProcessPendingCompletes
  <2>1. /\ Queue \in [Slots -> Conditions \cup {"free"}]
        /\ Taken \in Waiting(Queue)
        /\ pend' = [Queue EXCEPT ![Taken] = "free"]
        /\ numPending' = numPending + NewlyPending(Scanned) - 1
    BY <1>5, DrainEffect
  <2>2. Scanned \in SUBSET Slots /\ "RXCHAR" \in Conditions
    BY ScannedPorts DEF Conditions
  <2>3. Cardinality(Waiting(Queue))
          = Cardinality(Waiting(pend)) + NewlyPending(Scanned)
    BY <2>2, CountAdded DEF Queue
  <2>4. Cardinality(Waiting(pend')) = Cardinality(Waiting(Queue)) - 1
    BY <2>1, CountRemoved
  <2>5. NewlyPending(Scanned) \in Nat
    BY <2>2, NewlyPendingNat
  <2>6. QED
    BY <1>2, <2>1, <2>3, <2>4, <2>5 DEF CountMatches
<1>6. CASE IrqAck
  BY <1>1, <1>6 DEF IrqAck
<1>7. QED
  BY <1>3, <1>4, <1>5, <1>6, RunCases

(* The scan runs only while the queue is empty and takes one per board.    *)
LEMMA OneRxStep ==
  TypeOK /\ CountMatches /\ OneRxQueuedPerBoard /\ [Run]_vars
    => OneRxQueuedPerBoard'
<1> SUFFICES ASSUME TypeOK, CountMatches, OneRxQueuedPerBoard, [Run]_vars
             PROVE  OneRxQueuedPerBoard'
  OBVIOUS
<1>1. ASSUME \A s \in Slots : pend'[s] = "RXCHAR" => pend[s] = "RXCHAR"
      PROVE  OneRxQueuedPerBoard'
  BY <1>1 DEF OneRxQueuedPerBoard
<1>2. CASE Quiet
  BY <1>1, <1>2, QuietEffect DEF intVars
<1>3. CASE Commanded
  <2>1. PICK n \in Boards, inh \in BOOLEAN, R \in SUBSET Ports :
          \E cmd \in [R -> HostCommands] : RunCommands(n, inh, cmd)
    BY <1>3 DEF Commanded
  <2>2. PICK cmd \in [R -> HostCommands] : RunCommands(n, inh, cmd)
    BY <2>1
  <2>3. \/ UNCHANGED <<pend, numPending>>
        \/ \E Q \in SUBSET ({n} \X DOMAIN cmd) :
             pend' = AddPending(pend, Q, "CMDEXECUTED")
    BY <2>2, CommandEffect
  <2>4. QED
    BY <1>1, <2>3 DEF AddPending
<1>4. CASE ProcessPendingCompletes
  <2>1. /\ Queue \in [Slots -> Conditions \cup {"free"}]
        /\ pend' = [Queue EXCEPT ![Taken] = "free"]
    BY <1>4, DrainEffect
  <2>2. \A s \in Slots : pend'[s] = "RXCHAR" => Queue[s] = "RXCHAR"
    BY <2>1
  <2>3. CASE Scanned = {}
    BY <1>1, <2>2, <2>3 DEF Queue, AddPending
  <2>4. CASE Scanned # {}
    <3>1. numPending = 0
      BY <2>4 DEF Scanned
    <3>2. Waiting(pend) = {}
      BY <3>1, FiniteWaiting, FS_EmptySet DEF CountMatches
    <3>3. \A s \in Slots : Queue[s] = "RXCHAR" => s \in Scanned
      BY <3>2 DEF Queue, AddPending, Waiting
    <3>4. QED
      BY <2>2, <3>3, ScannedPorts DEF OneRxQueuedPerBoard
  <2>5. QED
    BY <2>3, <2>4
<1>5. CASE IrqAck
  BY <1>1, <1>5 DEF IrqAck
<1>6. QED
  BY <1>2, <1>3, <1>4, <1>5, RunCases

-----------------------------------------------------------------------------
LEMMA IInvInit == Init => IInv
<1> SUFFICES ASSUME Init PROVE IInv
  OBVIOUS
<1>1. TypeOK /\ LineTracksPending
  BY TypeInit, LineInit
<1>2. CountMatches
  <2>1. Waiting(pend) = {} /\ numPending = 0
    BY DEF Init, Waiting
  <2>2. QED
    BY <2>1, FS_EmptySet DEF CountMatches
<1>3. OnlyOwnedVectors /\ OneRxQueuedPerBoard /\ QueuedBoardsReady
  BY DEF Init, OnlyOwnedVectors, OneRxQueuedPerBoard, QueuedBoardsReady
<1>4. StatusTracksHandshake
  BY DEF Init, StatusTracksHandshake
<1>5. QED
  BY <1>1, <1>2, <1>3, <1>4 DEF IInv

LEMMA IInvStep == IInv /\ [Run]_vars => IInv'
<1> SUFFICES ASSUME IInv, [Run]_vars PROVE IInv'
  OBVIOUS
<1>1. TypeOK' /\ LineTracksPending'
  <2>1. [Run \/ PulseReset]_vars
    OBVIOUS
  <2>2. QED
    BY <2>1, TypeStep, LineStep DEF IInv
<1>2. CountMatches' /\ OneRxQueuedPerBoard'
  BY CountStep, OneRxStep DEF IInv
<1>3. StatusTracksHandshake' /\ QueuedBoardsReady' /\ OnlyOwnedVectors'
  BY StatusStep, ReadyStep, OwnedStep DEF IInv
<1>4. QED
  BY <1>1, <1>2, <1>3 DEF IInv

(* The inductive invariant of a machine that is not reset.                 *)
THEOREM Invariant == Spec => []IInv
BY IInvInit, IInvStep, PTL DEF Spec

(* numPendingComplete counts the waiting entries of fw_pendingComplete.    *)
THEOREM CountCorrect == Spec => []CountMatches
<1>1. IInv => CountMatches
  BY DEF IInv
<1>2. QED
  BY <1>1, Invariant, PTL

(* Every vector on the line was made from a base the board was handed.     *)
THEOREM VectorsOwned == Spec => []OnlyOwnedVectors
<1>1. IInv => OnlyOwnedVectors
  BY DEF IInv
<1>2. QED
  BY <1>1, Invariant, PTL

(* At most one received character of a board waits in the queue.           *)
THEOREM OneRxCorrect == Spec => []OneRxQueuedPerBoard
<1>1. IInv => OneRxQueuedPerBoard
  BY DEF IInv
<1>2. QED
  BY <1>1, Invariant, PTL

-----------------------------------------------------------------------------
(* The boards with their host.  Sequences of stamped characters first: one *)
(* that is typed goes on the end, and the one that is received is the next. *)
LEMMA SuccType == \A k \in 0 .. Stamps - 1 : Succ(k) \in 0 .. Stamps - 1
<1>1. Stamps \in Nat \ {0}
  BY HostAssumption, FWAssumption
<1>2. \A k \in 0 .. Stamps - 1 : (k + 1) % Stamps \in 0 .. Stamps - 1
  BY <1>1
<1>3. QED
  BY <1>2 DEF Succ

LEMMA SequenceGrows ==
  ASSUME NEW q \in Seq(Chars), NEW s \in Slots, NEW a,
         NEW b \in 0 .. Stamps - 1, InSequence(q, s, a, b)
  PROVE  InSequence(Append(q, <<s, b>>), s, a, Succ(b))
<1> DEFINE r == Append(q, <<s, b>>)
<1>1. <<s, b>> \in Chars
  BY HostAssumption
<1>2. /\ r # <<>> /\ Len(r) = Len(q) + 1 /\ r[Len(q) + 1] = <<s, b>>
      /\ \A i \in 1 .. Len(q) : r[i] = q[i]
      /\ Len(q) \in Nat
  BY <1>1, AppendProperties
<1> HIDE DEF r
<1>3. CASE q = <<>>
  BY <1>2, <1>3 DEF InSequence
<1>4. CASE q # <<>>
  <2>1. Len(q) > 0
    BY <1>4
  <2>2. r[1] = <<s, a>>
    BY <1>2, <1>4, <2>1 DEF InSequence
  <2>3. ASSUME NEW i \in 1 .. Len(r) - 1 PROVE r[i + 1] = <<s, Succ(r[i][2])>>
    <3>1. CASE i = Len(q)
      BY <1>2, <1>4, <2>1, <3>1 DEF InSequence
    <3>2. CASE i # Len(q)
      <4>1. i \in 1 .. Len(q) - 1 /\ i + 1 \in 1 .. Len(q)
        BY <1>2, <3>2
      <4>2. q[i + 1] = <<s, Succ(q[i][2])>>
        BY <1>4, <4>1 DEF InSequence
      <4>3. QED
        BY <1>2, <4>1, <4>2
    <3>3. QED
      BY <3>1, <3>2
  <2>4. r[Len(r)][2] = b
    BY <1>2
  <2>5. QED
    BY <1>2, <2>2, <2>3, <2>4 DEF InSequence
<1>5. QED
  BY <1>3, <1>4 DEF r

LEMMA SequenceShrinks ==
  ASSUME NEW q \in Seq(Chars), q # <<>>, NEW s \in Slots, NEW a, NEW b,
         InSequence(q, s, a, b)
  PROVE  Head(q) = <<s, a>> /\ InSequence(Tail(q), s, Succ(a), b)
<1> DEFINE r == Tail(q)
<1>1. /\ r \in Seq(Chars) /\ Len(r) = Len(q) - 1 /\ Len(q) \in Nat
      /\ \A i \in 1 .. Len(r) : r[i] = q[i + 1]
      /\ Head(q) = q[1] /\ Len(q) > 0
  BY HeadTailProperties
<1>2. /\ q[1] = <<s, a>>
      /\ \A i \in 1 .. Len(q) - 1 : q[i + 1] = <<s, Succ(q[i][2])>>
      /\ b = Succ(q[Len(q)][2])
  BY DEF InSequence
<1> HIDE DEF r
<1>3. CASE r = <<>>
  <2>1. Len(q) = 1
    BY <1>1, <1>3
  <2>2. QED
    BY <1>1, <1>2, <1>3, <2>1 DEF InSequence, r
<1>4. CASE r # <<>>
  <2>1. Len(r) > 0
    BY <1>1, <1>4
  <2>2. r[1] = <<s, Succ(a)>>
    BY <1>1, <1>2, <2>1
  <2>3. ASSUME NEW i \in 1 .. Len(r) - 1 PROVE r[i + 1] = <<s, Succ(r[i][2])>>
    <3>1. i \in 1 .. Len(r) /\ i + 1 \in 1 .. Len(r) /\ i + 1 \in 1 .. Len(q) - 1
      BY <1>1
    <3>2. r[i] = q[i + 1] /\ r[i + 1] = q[i + 1 + 1]
      BY <1>1, <3>1
    <3>3. QED
      BY <1>2, <3>1, <3>2
  <2>4. r[Len(r)] = q[Len(q)]
    BY <1>1, <2>1
  <2>5. QED
    BY <1>1, <1>2, <1>4, <2>2, <2>3, <2>4 DEF InSequence, r
<1>5. QED
  BY <1>3, <1>4

-----------------------------------------------------------------------------
LEMMA VectorFields ==
  ASSUME NEW s \in Slots, NEW c \in Conditions
  PROVE  Vector(s, c) # NoInt /\ Vector(s, c).slot = s /\ Vector(s, c).cond = c
BY VectorType DEF Vector

(* Every step of the host is one of the boards.                            *)
LEMMA HostRuns ==
  ASSUME HostTypes, [HostNext]_allVars
  PROVE  [Run]_vars
<1>1. ASSUME NEW s \in Slots, TypeKey(s) PROVE Run
  <2>1. <<s, typed[s]>> \in Chars
    BY HostAssumption DEF HostTypes
  <2>2. QED
    BY <1>1, <2>1 DEF TypeKey, Run
<1>2. ASSUME NEW n \in Boards, StartBoard(n) PROVE Run
  BY <1>2 DEF StartBoard, Run
<1>3. CASE IssueAny
  BY <1>3 DEF IssueAny, Issue, Run
<1>4. ASSUME NEW n \in Boards, PollStatus(n) PROVE Run
  BY <1>4 DEF PollStatus, Run
<1>5. CASE Tick \/ TakeInterrupt
  BY <1>5 DEF Tick, TakeInterrupt, Run
<1>6. ASSUME NEW s \in Slots, ReadChar(s) PROVE Run
  <2>1. s[1] \in Boards
    BY DEF Slots
  <2>2. QED
    BY <1>6, <2>1 DEF ReadChar, Run
<1>7. CASE UNCHANGED allVars
  BY <1>7 DEF allVars
<1>8. QED
  BY <1>1, <1>2, <1>3, <1>4, <1>5, <1>6, <1>7 DEF HostNext

(* Issuing commands: one of the ports may raise its interrupt at once, if  *)
(* none is raised, and all the others are queued.                          *)
LEMMA IssueEffect ==
  ASSUME TypeOK, NEW n \in Boards, NEW R \in SUBSET Ports,
         NEW cmd \in [R -> HostCommands], Issue(n, cmd)
  PROVE  \E S \in SUBSET Slots : \E Q \in SUBSET S :
           /\ S \cap outstanding = {} /\ outstanding' = outstanding \cup S
           /\ pend' = AddPending(pend, Q, "CMDEXECUTED")
           /\ \/ raised' = raised /\ Q = S
              \/ \E f \in S : /\ raised = NoInt /\ Q = S \ {f}
                              /\ raised' = Vector(f, "CMDEXECUTED")
           /\ overwritten' = overwritten \cup
                {s \in S : pend[s] = "RXCHAR" /\ pend'[s] = "CMDEXECUTED"}
           /\ UNCHANGED <<initState, status, rxVars, serving, typed, expected,
                          misread>>
           /\ inhibit' = [inhibit EXCEPT ![n] = FALSE]
<1> DEFINE S == {n} \X DOMAIN cmd
<1>1. S \in SUBSET Slots
  BY CommandSlots
<1>2. /\ S \cap outstanding = {} /\ outstanding' = outstanding \cup S
      /\ overwritten' = overwritten \cup
           {s \in S : pend[s] = "RXCHAR" /\ pend'[s] = "CMDEXECUTED"}
      /\ UNCHANGED <<serving, typed, expected, misread>>
      /\ RunCommands(n, FALSE, cmd)
  BY Zenon DEF Issue
<1>3. /\ Complete(S) /\ UNCHANGED <<initState, status, rxVars>>
      /\ inhibit' = [inhibit EXCEPT ![n] = FALSE]
  BY <1>2, Zenon DEF RunCommands
<1> HIDE DEF S
<1>4. CASE raised = NoInt /\ S # {}
  <2>1. First(S) \in S
    BY <1>1, <1>4, FirstIsMember
  <2>2. /\ pend' = AddPending(pend, S \ {First(S)}, "CMDEXECUTED")
        /\ raised' = Vector(First(S), "CMDEXECUTED")
    BY <1>3, <1>4, Zenon DEF Complete
  <2>3. S \ {First(S)} \in SUBSET S
    OBVIOUS
  <2>4. QED
    BY <1>1, <1>2, <1>3, <1>4, <2>1, <2>2, <2>3
<1>5. CASE ~(raised = NoInt /\ S # {})
  <2>1. S \ {} = S
    OBVIOUS
  <2>2. pend' = AddPending(pend, S, "CMDEXECUTED") /\ raised' = raised
    BY <1>3, <1>5, <2>1, Zenon DEF Complete
  <2>3. S \in SUBSET S
    OBVIOUS
  <2>4. QED
    BY <1>1, <1>2, <1>3, <2>2, <2>3
<1>6. QED
  BY <1>4, <1>5

(* A scan that finds something finds the queue empty.                      *)
LEMMA ScanMeetsEmptyQueue ==
  ASSUME TypeOK, CountMatches
  PROVE  /\ Scanned = {} => \A s \in Slots : Queue[s] = pend[s]
         /\ Scanned # {} => \A s \in Slots :
              /\ pend[s] = "free"
              /\ Queue[s] = IF s \in Scanned THEN "RXCHAR" ELSE "free"
<1>1. CASE Scanned = {}
  BY <1>1 DEF Queue, AddPending
<1>2. CASE Scanned # {}
  <2>1. numPending = 0
    BY <1>2 DEF Scanned
  <2>2. Waiting(pend) = {}
    BY <2>1, FiniteWaiting, FS_EmptySet DEF CountMatches
  <2>3. \A s \in Slots : pend[s] = "free"
    BY <2>2 DEF Waiting
  <2>4. QED
    BY <1>2, <2>3 DEF Queue, AddPending
<1>3. QED
  BY <1>1, <1>2

(* What the scan does to the registers and the buffers, port by port.      *)
LEMMA ReceiveEffect ==
  ASSUME TypeOK, ReceiveInto(Scanned), NEW s \in Slots
  PROVE  /\ s \in Scanned =>
              /\ ~hostReadRegFull[s[1]] /\ sockQ[s] # <<>>
              /\ hostReadRegFull'[s[1]] /\ recvData'[s[1]] = Head(sockQ[s])
              /\ sockQ'[s] = Tail(sockQ[s])
         /\ s \notin Scanned => sockQ'[s] = sockQ[s]
         /\ hostReadRegFull[s[1]] =>
              hostReadRegFull'[s[1]] /\ recvData'[s[1]] = recvData[s[1]]
         /\ ~hostReadRegFull[s[1]] /\ hostReadRegFull'[s[1]] =>
              /\ RxSlot(s[1]) \in Scanned /\ RxSlot(s[1]) \in {s[1]} \X Ports
              /\ recvData'[s[1]] = Head(sockQ[RxSlot(s[1])])
<1>1. s[1] \in Boards
  BY DEF Slots
<1>2. /\ hostReadRegFull'[s[1]] = (hostReadRegFull[s[1]] \/
           (CanReceive(s[1]) /\ RxSlot(s[1]) \in Scanned))
      /\ recvData'[s[1]] =
           IF CanReceive(s[1]) /\ RxSlot(s[1]) \in Scanned
             THEN Head(sockQ[RxSlot(s[1])]) ELSE recvData[s[1]]
      /\ sockQ'[s] = IF s \in Scanned THEN Tail(sockQ[s]) ELSE sockQ[s]
  BY <1>1 DEF ReceiveInto
<1>3. s \in Scanned => CanReceive(s[1]) /\ s = RxSlot(s[1]) /\ sockQ[s] # <<>>
  BY ScannedPorts
<1>4. CanReceive(s[1]) => ~hostReadRegFull[s[1]]
  BY DEF CanReceive
<1>5. RxSlot(s[1]) \in Scanned /\ CanReceive(s[1])
        => RxSlot(s[1]) \in {s[1]} \X Ports
  <2> SUFFICES ASSUME RxSlot(s[1]) \in Scanned, CanReceive(s[1])
               PROVE  RxSlot(s[1]) \in {s[1]} \X Ports
    OBVIOUS
  <2>1. HasData(s[1]) \subseteq Ports /\ HasData(s[1]) # {}
    BY DEF CanReceive, HasData
  <2>2. {s[1]} \X HasData(s[1]) \in SUBSET Slots
    BY <1>1, <2>1 DEF Slots
  <2>3. {s[1]} \X HasData(s[1]) # {}
    <3>1. PICK p \in HasData(s[1]) : TRUE
      BY <2>1
    <3>2. <<s[1], p>> \in {s[1]} \X HasData(s[1])
      BY <3>1
    <3>3. QED
      BY <3>2
  <2>4. RxSlot(s[1]) \in {s[1]} \X HasData(s[1])
    BY <2>2, <2>3, FirstIsMember DEF RxSlot
  <2>5. QED
    BY <2>1, <2>4
<1>6. QED
  BY <1>1, <1>2, <1>3, <1>4, <1>5

(* A tick without inhibited boards raises what it takes off the queue.     *)
LEMMA TickEffect ==
  ASSUME TypeOK, HostTypes, Tick
  PROVE  /\ Taken \in Slots /\ Queue[Taken] \in Conditions
         /\ Queue \in [Slots -> Conditions \cup {"free"}]
         /\ pend' = [Queue EXCEPT ![Taken] = "free"]
         /\ raised = NoInt /\ raised' = Vector(Taken, Queue[Taken])
         /\ ReceiveInto(Scanned)
         /\ UNCHANGED <<boardVars, hostVars>>
<1>1. ProcessPendingCompletes /\ UNCHANGED hostVars
  BY DEF Tick
<1>2. /\ Taken \in Slots /\ Queue[Taken] \in Conditions
      /\ Queue \in [Slots -> Conditions \cup {"free"}]
      /\ pend' = [Queue EXCEPT ![Taken] = "free"]
      /\ ReceiveInto(Scanned) /\ UNCHANGED boardVars
  BY <1>1, DrainEffect
<1>3. ~inhibit[Taken[1]]
  BY <1>2 DEF HostTypes, Slots
<1>4. raised = NoInt /\ raised' = Vector(Taken, Queue[Taken])
  BY <1>1, <1>3, Zenon DEF ProcessPendingCompletes, Queue, Taken
<1>5. QED
  BY <1>1, <1>2, <1>4

-----------------------------------------------------------------------------
(* One lemma for each conjunct of HostIInv.                                *)
Keeps == UNCHANGED <<pend, raised, hostReadRegFull, recvData>>

LEMMA CalmEffect ==
  ASSUME \/ \E s \in Slots : TypeKey(s)
         \/ \E n \in Boards : StartBoard(n) \/ PollStatus(n)
         \/ UNCHANGED allVars
  PROVE  /\ Keeps
         /\ UNCHANGED <<outstanding, serving, expected, misread, overwritten>>
BY DEF Keeps, TypeKey, Arrive, StartBoard, Handshake, PollStatus, StatusRead,
       allVars, vars, hostVars, boardVars, rxVars, intVars

LEMMA ReadCharEffect ==
  ASSUME NEW s \in Slots, ReadChar(s)
  PROVE  /\ s \in serving /\ serving' = serving \ {s}
         /\ hostReadRegFull' = [hostReadRegFull EXCEPT ![s[1]] = FALSE]
         /\ misread' = (misread \/ recvData[s[1]] # <<s, expected[s]>>)
         /\ expected' = [expected EXCEPT ![s] = Succ(@)]
         /\ UNCHANGED <<pend, raised, recvData, sockQ, inhibit, outstanding,
                        typed, overwritten>>
BY DEF ReadChar, RecvRead, Succ, boardVars, intVars

LEMMA TakeEffect ==
  ASSUME TakeInterrupt
  PROVE  /\ serving = {} /\ raised # NoInt /\ raised' = NoInt
         /\ IF raised.cond = "RXCHAR"
              THEN serving' = {raised.slot} /\ UNCHANGED outstanding
              ELSE outstanding' = outstanding \ {raised.slot} /\ UNCHANGED serving
         /\ UNCHANGED <<pend, hostReadRegFull, recvData, sockQ, inhibit,
                        typed, expected, misread, overwritten>>
BY DEF TakeInterrupt, IrqAck, boardVars, rxVars

LEMMA RaisedFields ==
  ASSUME TypeOK, raised # NoInt
  PROVE  raised.slot \in Slots /\ raised.cond \in Conditions
BY DEF TypeOK, Vectors

Calm ==
  \/ \E s \in Slots : TypeKey(s)
  \/ \E n \in Boards : StartBoard(n) \/ PollStatus(n)
  \/ UNCHANGED allVars

LEMMA HostCases ==
  [HostNext]_allVars =>
    Calm \/ IssueAny \/ Tick \/ TakeInterrupt \/ \E s \in Slots : ReadChar(s)
BY Zenon DEF HostNext, Calm

LEMMA HostTypesStep ==
  ASSUME IInv, HostTypes, [HostNext]_allVars
  PROVE  HostTypes'
<1>1. TypeOK
  BY DEF IInv
<1>2. ASSUME NEW s \in Slots, TypeKey(s) PROVE HostTypes'
  <2>1. /\ typed' = [typed EXCEPT ![s] = Succ(@)]
        /\ UNCHANGED <<serving, expected, inhibit>>
    BY <1>2 DEF TypeKey, Arrive, Succ, boardVars
  <2>2. Succ(typed[s]) \in 0 .. Stamps - 1
    BY SuccType DEF HostTypes
  <2>3. QED
    BY <2>1, <2>2 DEF HostTypes
<1>3. ASSUME NEW n \in Boards, StartBoard(n) \/ PollStatus(n) PROVE HostTypes'
  <2>1. /\ UNCHANGED <<serving, typed, expected>>
        /\ \/ inhibit' = inhibit
           \/ inhibit' = [inhibit EXCEPT ![n] = FALSE]
    BY <1>3 DEF StartBoard, PollStatus, Handshake, StatusRead, hostVars
  <2>2. QED
    BY <1>1, <2>1 DEF HostTypes, TypeOK
<1>4. CASE IssueAny
  <2>1. PICK n \in Boards, R \in SUBSET Ports :
          \E cmd \in [R -> HostCommands] : Issue(n, cmd)
    BY <1>4 DEF IssueAny
  <2>2. /\ UNCHANGED <<serving, typed, expected>>
        /\ inhibit' = [inhibit EXCEPT ![n] = FALSE]
    BY <1>1, <2>1, IssueEffect
  <2>3. QED
    BY <1>1, <2>2 DEF HostTypes, TypeOK
<1>5. CASE Tick
  BY <1>1, <1>5, TickEffect DEF HostTypes, boardVars, hostVars
<1>6. CASE TakeInterrupt
  BY <1>1, <1>6, TakeEffect, RaisedFields DEF HostTypes
<1>7. ASSUME NEW s \in Slots, ReadChar(s) PROVE HostTypes'
  <2>1. Succ(expected[s]) \in 0 .. Stamps - 1
    BY SuccType DEF HostTypes
  <2>2. QED
    BY <1>7, <2>1, ReadCharEffect DEF HostTypes
<1>8. CASE UNCHANGED allVars
  BY <1>8 DEF allVars, vars, hostVars, boardVars, HostTypes
<1>9. QED
  BY <1>2, <1>3, <1>4, <1>5, <1>6, <1>7, <1>8, HostCases DEF Calm

(* A completion is queued or raised when the command is issued, goes from  *)
(* the queue to the line, and from there to the host.                      *)
LEMMA CompletionStep ==
  ASSUME IInv, HostTypes, CompletionAccounted, [HostNext]_allVars
  PROVE  CompletionAccounted'
<1>1. TypeOK /\ CountMatches
  BY DEF IInv
<1>2. CASE Calm
  BY <1>2, CalmEffect DEF Calm, Keeps, CompletionAccounted
<1>3. CASE IssueAny
  <2>1. PICK n \in Boards, R \in SUBSET Ports :
          \E cmd \in [R -> HostCommands] : Issue(n, cmd)
    BY <1>3 DEF IssueAny
  <2>2. PICK S \in SUBSET Slots : \E Q \in SUBSET S :
           /\ S \cap outstanding = {} /\ outstanding' = outstanding \cup S
           /\ pend' = AddPending(pend, Q, "CMDEXECUTED")
           /\ \/ raised' = raised /\ Q = S
              \/ \E f \in S : /\ raised = NoInt /\ Q = S \ {f}
                              /\ raised' = Vector(f, "CMDEXECUTED")
    BY <1>1, <2>1, IssueEffect
  <2>3. CASE raised' = raised /\ pend' = AddPending(pend, S, "CMDEXECUTED")
    BY <2>2, <2>3 DEF CompletionAccounted, AddPending
  <2>4. ASSUME NEW f \in S, raised = NoInt, raised' = Vector(f, "CMDEXECUTED"),
               pend' = AddPending(pend, S \ {f}, "CMDEXECUTED")
        PROVE  CompletionAccounted'
    <3>1. raised' # NoInt /\ raised'.slot = f /\ raised'.cond = "CMDEXECUTED"
      BY <2>4, VectorFields DEF Conditions
    <3>2. QED
      BY <2>2, <2>4, <3>1 DEF CompletionAccounted, AddPending
  <2>5. QED
    BY <2>2, <2>3, <2>4
<1>4. CASE Tick
  <2>1. /\ Taken \in Slots /\ Queue[Taken] \in Conditions
        /\ Queue \in [Slots -> Conditions \cup {"free"}]
        /\ pend' = [Queue EXCEPT ![Taken] = "free"]
        /\ raised = NoInt /\ raised' = Vector(Taken, Queue[Taken])
        /\ outstanding' = outstanding
    BY <1>1, <1>4, TickEffect DEF hostVars
  <2>2. raised' # NoInt /\ raised'.slot = Taken /\ raised'.cond = Queue[Taken]
    BY <2>1, VectorFields
  <2>3. \A s \in Slots : Queue[s] = "CMDEXECUTED" <=> pend[s] = "CMDEXECUTED"
    BY <1>1, ScanMeetsEmptyQueue
  <2>4. QED
    BY <2>1, <2>2, <2>3 DEF CompletionAccounted, Conditions
<1>5. CASE TakeInterrupt
  BY <1>1, <1>5, TakeEffect, RaisedFields DEF CompletionAccounted, Conditions
<1>6. ASSUME NEW s \in Slots, ReadChar(s) PROVE CompletionAccounted'
  BY <1>6, ReadCharEffect DEF CompletionAccounted
<1>7. QED
  BY <1>2, <1>3, <1>4, <1>5, <1>6, HostCases

LEMMA AnnouncedStep ==
  ASSUME IInv, HostTypes, FullIsAnnounced, [HostNext]_allVars
  PROVE  FullIsAnnounced'
<1>1. TypeOK /\ CountMatches
  BY DEF IInv
<1>2. CASE Calm
  BY <1>2, CalmEffect DEF Calm, Keeps, FullIsAnnounced
<1>3. CASE IssueAny
  <2>1. PICK n \in Boards, R \in SUBSET Ports :
          \E cmd \in [R -> HostCommands] : Issue(n, cmd)
    BY <1>3 DEF IssueAny
  <2>2. PICK S \in SUBSET Slots : \E Q \in SUBSET S :
           /\ pend' = AddPending(pend, Q, "CMDEXECUTED")
           /\ raised' = raised \/ raised = NoInt
           /\ overwritten' = overwritten \cup
                {s \in S : pend[s] = "RXCHAR" /\ pend'[s] = "CMDEXECUTED"}
           /\ UNCHANGED <<rxVars, serving>>
    BY <1>1, <2>1, IssueEffect
  <2>3. hostReadRegFull' = hostReadRegFull
    BY <2>2 DEF rxVars
  <2>4. \A n1 \in Boards, p \in Ports : <<n1, p>> \in Slots
    BY DEF Slots
  <2>5. \A s \in Slots :
          pend[s] = "RXCHAR" => pend'[s] = "RXCHAR" \/ s \in overwritten'
    BY <2>2 DEF AddPending
  <2>6. SUFFICES ASSUME NEW b \in Boards, hostReadRegFull'[b]
                 PROVE  \E s \in {b} \X Ports :
                           \/ pend'[s] = "RXCHAR"
                           \/ /\ raised' # NoInt /\ raised'.slot = s
                              /\ raised'.cond = "RXCHAR"
                           \/ s \in serving'
                           \/ s \in overwritten'
    BY DEF FullIsAnnounced
  <2>7. PICK s \in {b} \X Ports :
           \/ pend[s] = "RXCHAR"
           \/ raised # NoInt /\ raised.slot = s /\ raised.cond = "RXCHAR"
           \/ s \in serving
           \/ s \in overwritten
    BY <2>3, <2>6 DEF FullIsAnnounced
  <2>8. s \in Slots
    BY <2>4
  <2>9. QED
    BY <2>2, <2>5, <2>7, <2>8
<1>4. CASE Tick
  <2>1. /\ Taken \in Slots /\ Queue[Taken] \in Conditions
        /\ Queue \in [Slots -> Conditions \cup {"free"}]
        /\ pend' = [Queue EXCEPT ![Taken] = "free"]
        /\ raised = NoInt /\ raised' = Vector(Taken, Queue[Taken])
        /\ ReceiveInto(Scanned)
        /\ serving' = serving /\ overwritten' = overwritten
    BY <1>1, <1>4, TickEffect DEF hostVars
  <2>2. raised' # NoInt /\ raised'.slot = Taken /\ raised'.cond = Queue[Taken]
    BY <2>1, VectorFields
  <2>3. ASSUME NEW s \in Slots, Queue[s] = "RXCHAR"
        PROVE  \/ pend'[s] = "RXCHAR"
               \/ /\ raised' # NoInt /\ raised'.slot = s
                  /\ raised'.cond = "RXCHAR"
    BY <2>1, <2>2, <2>3
  <2>4. SUFFICES ASSUME NEW b \in Boards, hostReadRegFull'[b]
                 PROVE  \E s \in {b} \X Ports :
                           \/ pend'[s] = "RXCHAR"
                           \/ /\ raised' # NoInt /\ raised'.slot = s
                              /\ raised'.cond = "RXCHAR"
                           \/ s \in serving'
                           \/ s \in overwritten'
    BY DEF FullIsAnnounced
  <2>5. \A p \in Ports : <<b, p>> \in Slots /\ <<b, p>> \in {b} \X Ports
    BY DEF Slots
  <2>6. 0 \in Ports
    BY FWAssumption DEF Ports
  <2>7. CASE hostReadRegFull[b]
    <3>1. PICK s \in {b} \X Ports :
             pend[s] = "RXCHAR" \/ s \in serving \/ s \in overwritten
      BY <2>1, <2>7 DEF FullIsAnnounced
    <3>2. s \in Slots
      BY <2>5
    <3>3. pend[s] = "RXCHAR" => Queue[s] = "RXCHAR"
      BY <1>1, <3>2, ScanMeetsEmptyQueue
    <3>4. QED
      BY <2>1, <2>3, <3>1, <3>2, <3>3
  <2>8. CASE ~hostReadRegFull[b]
    <3>1. RxSlot(b) \in Scanned /\ RxSlot(b) \in {b} \X Ports
      <4>1. <<b, 0>> \in Slots /\ <<b, 0>>[1] = b
        BY <2>5, <2>6
      <4>2. QED
        BY <1>1, <2>1, <2>4, <2>8, <4>1, ReceiveEffect
    <3>2. RxSlot(b) \in Slots
      BY <3>1, <2>5
    <3>3. Queue[RxSlot(b)] = "RXCHAR"
      BY <1>1, <3>1, <3>2, ScanMeetsEmptyQueue
    <3>4. QED
      BY <2>3, <3>1, <3>2, <3>3
  <2>9. QED
    BY <2>7, <2>8
<1>5. CASE TakeInterrupt
  <2>1. /\ raised' = NoInt /\ UNCHANGED <<pend, hostReadRegFull, overwritten>>
        /\ raised.cond = "RXCHAR" => serving' = {raised.slot}
        /\ serving = {}
    BY <1>5, TakeEffect
  <2>2. QED
    BY <2>1 DEF FullIsAnnounced
<1>6. ASSUME NEW s \in Slots, ReadChar(s) PROVE FullIsAnnounced'
  <2>1. /\ serving' = serving \ {s}
        /\ hostReadRegFull' = [hostReadRegFull EXCEPT ![s[1]] = FALSE]
        /\ UNCHANGED <<pend, raised, overwritten>>
    BY <1>6, ReadCharEffect
  <2>2. hostReadRegFull \in [Boards -> BOOLEAN] /\ s[1] \in Boards
    BY <1>1 DEF TypeOK, Slots
  <2>3. \A b \in Boards : hostReadRegFull'[b] => hostReadRegFull[b] /\ b # s[1]
    BY <2>1, <2>2
  <2>4. \A b \in Boards : b # s[1] => s \notin {b} \X Ports
    OBVIOUS
  <2>5. QED
    BY <2>1, <2>3, <2>4 DEF FullIsAnnounced
<1>7. QED
  BY <1>2, <1>3, <1>4, <1>5, <1>6, HostCases

(* The register holds the character that is announced, and no other.       *)
LEMMA OneAnnouncementStep ==
  ASSUME IInv, HostTypes, OneAnnouncement, LinesInOrder, [HostNext]_allVars
  PROVE  OneAnnouncement'
<1>1. TypeOK /\ CountMatches
  BY DEF IInv
<1>2. CASE Calm
  BY <1>2, CalmEffect DEF Calm, Keeps, OneAnnouncement, OnLine, InReg
<1>3. CASE IssueAny
  <2>1. PICK n \in Boards, R \in SUBSET Ports :
          \E cmd \in [R -> HostCommands] : Issue(n, cmd)
    BY <1>3 DEF IssueAny
  <2>2. PICK S \in SUBSET Slots : \E Q \in SUBSET S :
           /\ pend' = AddPending(pend, Q, "CMDEXECUTED")
           /\ \/ raised' = raised
              \/ \E f \in S : raised' = Vector(f, "CMDEXECUTED")
           /\ UNCHANGED <<rxVars, serving>>
    BY <1>1, <2>1, IssueEffect
  <2>3. \A s \in Slots : pend'[s] = "RXCHAR" => pend[s] = "RXCHAR"
    BY <2>2 DEF AddPending
  <2>4. \A s \in Slots : OnLine(s, "RXCHAR")' => OnLine(s, "RXCHAR")
    BY <2>2, VectorFields DEF OnLine, Conditions
  <2>5. QED
    BY <2>2, <2>3, <2>4 DEF OneAnnouncement, InReg, rxVars
<1>4. CASE Tick
  <2>1. /\ Taken \in Slots /\ Queue[Taken] \in Conditions
        /\ Queue \in [Slots -> Conditions \cup {"free"}]
        /\ pend' = [Queue EXCEPT ![Taken] = "free"]
        /\ raised = NoInt /\ raised' = Vector(Taken, Queue[Taken])
        /\ ReceiveInto(Scanned) /\ serving' = serving
    BY <1>1, <1>4, TickEffect DEF hostVars
  <2>2. raised' # NoInt /\ raised'.slot = Taken /\ raised'.cond = Queue[Taken]
    BY <2>1, VectorFields
  <2>3. SUFFICES ASSUME NEW s \in Slots
                 PROVE  /\ \/ pend'[s] = "RXCHAR" \/ OnLine(s, "RXCHAR")'
                           \/ s \in serving'
                           => InReg(s)'
                        /\ ~(pend'[s] = "RXCHAR" /\ OnLine(s, "RXCHAR")')
                        /\ ~(pend'[s] = "RXCHAR" /\ s \in serving')
                        /\ ~(OnLine(s, "RXCHAR")' /\ s \in serving')
    BY DEF OneAnnouncement
  <2>4. /\ pend'[s] = "RXCHAR" => Queue[s] = "RXCHAR" /\ s # Taken
        /\ OnLine(s, "RXCHAR")' => Queue[s] = "RXCHAR" /\ s = Taken
    BY <2>1, <2>2 DEF OnLine
  <2>5. Queue[s] = "RXCHAR" => pend[s] = "RXCHAR" \/ s \in Scanned
    BY <1>1, ScanMeetsEmptyQueue
  <2>6. InReg(s) => InReg(s)' /\ s \notin Scanned
    BY <1>1, <2>1, ReceiveEffect DEF InReg
  <2>7. s \in Scanned => InReg(s)'
    <3> SUFFICES ASSUME s \in Scanned PROVE InReg(s)'
      OBVIOUS
    <3>1. /\ ~hostReadRegFull[s[1]] /\ sockQ[s] # <<>>
          /\ hostReadRegFull'[s[1]] /\ recvData'[s[1]] = Head(sockQ[s])
      BY <1>1, <2>1, ReceiveEffect
    <3>2. InSequence(sockQ[s], s, expected[s], typed[s])
      BY <3>1 DEF LinesInOrder, InReg
    <3>3. sockQ[s] \in Seq(Chars)
      BY <1>1 DEF TypeOK
    <3>4. Head(sockQ[s]) = <<s, expected[s]>>
      BY <3>1, <3>2, <3>3, SequenceShrinks
    <3>5. QED
      BY <3>1, <3>4 DEF InReg
  <2>8. /\ pend[s] = "RXCHAR" \/ s \in serving => InReg(s)
        /\ ~(pend[s] = "RXCHAR" /\ s \in serving)
    BY DEF OneAnnouncement
  <2>9. QED
    BY <2>1, <2>4, <2>5, <2>6, <2>7, <2>8
<1>5. CASE TakeInterrupt
  <2>1. /\ raised' = NoInt /\ raised # NoInt /\ serving = {}
        /\ UNCHANGED <<pend, hostReadRegFull, recvData>>
        /\ \/ raised.cond = "RXCHAR" /\ serving' = {raised.slot}
           \/ serving' = {}
    BY <1>5, TakeEffect
  <2>2. QED
    BY <2>1 DEF OneAnnouncement, OnLine, InReg
<1>6. ASSUME NEW s \in Slots, ReadChar(s) PROVE OneAnnouncement'
  <2>1. /\ s \in serving /\ serving' = serving \ {s}
        /\ hostReadRegFull' = [hostReadRegFull EXCEPT ![s[1]] = FALSE]
        /\ UNCHANGED <<pend, raised, recvData>>
    BY <1>6, ReadCharEffect
  <2>2. hostReadRegFull \in [Boards -> BOOLEAN] /\ s[1] \in Boards
    BY <1>1 DEF TypeOK, Slots
  <2>3. InReg(s) /\ pend[s] # "RXCHAR" /\ ~OnLine(s, "RXCHAR")
    BY <2>1 DEF OneAnnouncement
  <2>4. ASSUME NEW t \in Slots, t # s, InReg(t)
        PROVE  InReg(t)'
    <3>1. t[1] # s[1] /\ t[1] \in Boards
      BY <2>3, <2>4 DEF InReg, Slots
    <3>2. QED
      BY <2>1, <2>2, <2>4, <3>1 DEF InReg
  <2>5. QED
    BY <2>1, <2>3, <2>4 DEF OneAnnouncement, OnLine
<1>7. QED
  BY <1>2, <1>3, <1>4, <1>5, <1>6, HostCases

(* What is in the register and behind it in the buffer is what was typed   *)
(* and not read yet, one after the other.                                  *)
LEMMA LinesStep ==
  ASSUME IInv, HostTypes, OneAnnouncement, LinesInOrder, [HostNext]_allVars
  PROVE  LinesInOrder'
<1>1. TypeOK
  BY DEF IInv
<1>2. ASSUME UNCHANGED <<hostReadRegFull, recvData, sockQ, expected, typed>>
      PROVE  LinesInOrder'
  BY <1>2 DEF LinesInOrder, InReg
<1>3. ASSUME NEW s \in Slots, TypeKey(s) PROVE LinesInOrder'
  <2>1. /\ sockQ' = [sockQ EXCEPT ![s] = Append(@, <<s, typed[s]>>)]
        /\ typed' = [typed EXCEPT ![s] = Succ(@)]
        /\ UNCHANGED <<hostReadRegFull, recvData, expected>>
    BY <1>3 DEF TypeKey, Arrive, Succ, vars, rxVars
  <2>2. /\ sockQ[s] \in Seq(Chars) /\ typed[s] \in 0 .. Stamps - 1
        /\ sockQ'[s] = Append(sockQ[s], <<s, typed[s]>>)
        /\ typed'[s] = Succ(typed[s])
        /\ \A t \in Slots : t # s => sockQ'[t] = sockQ[t] /\ typed'[t] = typed[t]
    BY <1>1, <2>1 DEF TypeOK, HostTypes
  <2>3. \A t \in Slots : InReg(t)' = InReg(t)
    BY <2>1 DEF InReg
  <2> DEFINE a == IF InReg(s) THEN Succ(expected[s]) ELSE expected[s]
  <2>4. InSequence(sockQ[s], s, a, typed[s])
    BY DEF LinesInOrder
  <2>5. InSequence(sockQ'[s], s, a, typed'[s])
    BY <2>2, <2>4, SequenceGrows
  <2>6. QED
    BY <2>1, <2>2, <2>3, <2>5 DEF LinesInOrder
<1>4. ASSUME NEW n \in Boards, StartBoard(n) \/ PollStatus(n)
      PROVE  LinesInOrder'
  BY <1>2, <1>4 DEF StartBoard, PollStatus, Handshake, StatusRead, hostVars, rxVars
<1>5. CASE IssueAny
  <2>1. PICK n \in Boards, R \in SUBSET Ports :
          \E cmd \in [R -> HostCommands] : Issue(n, cmd)
    BY <1>5 DEF IssueAny
  <2>2. UNCHANGED <<rxVars, typed, expected>>
    BY <1>1, <2>1, IssueEffect
  <2>3. QED
    BY <1>2, <2>2 DEF rxVars
<1>6. CASE Tick
  <2>1. ReceiveInto(Scanned) /\ UNCHANGED <<typed, expected>>
    BY <1>1, <1>6, TickEffect DEF hostVars
  <2>2. SUFFICES ASSUME NEW s \in Slots
                 PROVE  /\ InReg(s)' => recvData'[s[1]] = <<s, expected[s]>>
                        /\ InSequence(sockQ'[s], s,
                             IF InReg(s)' THEN Succ(expected[s]) ELSE expected[s],
                             typed[s])
    BY <2>1 DEF LinesInOrder
  <2>3. /\ InReg(s) => recvData[s[1]] = <<s, expected[s]>>
        /\ InSequence(sockQ[s], s,
             IF InReg(s) THEN Succ(expected[s]) ELSE expected[s], typed[s])
    BY DEF LinesInOrder
  <2>4. CASE s \in Scanned
    <3>1. /\ ~hostReadRegFull[s[1]] /\ sockQ[s] # <<>>
          /\ hostReadRegFull'[s[1]] /\ recvData'[s[1]] = Head(sockQ[s])
          /\ sockQ'[s] = Tail(sockQ[s])
      BY <1>1, <2>1, <2>4, ReceiveEffect
    <3>2. sockQ[s] \in Seq(Chars) /\ ~InReg(s)
      BY <1>1, <3>1 DEF TypeOK, InReg
    <3>3. /\ Head(sockQ[s]) = <<s, expected[s]>>
          /\ InSequence(Tail(sockQ[s]), s, Succ(expected[s]), typed[s])
      BY <2>3, <3>1, <3>2, SequenceShrinks
    <3>4. InReg(s)'
      BY <3>1, <3>3 DEF InReg
    <3>5. QED
      BY <3>1, <3>3, <3>4
  <2>5. CASE s \notin Scanned
    <3>1. sockQ'[s] = sockQ[s]
      BY <1>1, <2>1, <2>5, ReceiveEffect
    <3>2. CASE hostReadRegFull[s[1]]
      <4>1. hostReadRegFull'[s[1]] /\ recvData'[s[1]] = recvData[s[1]]
        BY <1>1, <2>1, <3>2, ReceiveEffect
      <4>2. InReg(s)' = InReg(s)
        BY <3>2, <4>1 DEF InReg
      <4>3. QED
        BY <2>3, <3>1, <4>1, <4>2
    <3>3. CASE ~hostReadRegFull[s[1]] /\ hostReadRegFull'[s[1]]
      <4> DEFINE u == RxSlot(s[1])
      <4>1. /\ u \in Scanned /\ u \in {s[1]} \X Ports
            /\ recvData'[s[1]] = Head(sockQ[u])
        BY <1>1, <2>1, <3>3, ReceiveEffect
      <4>2. u \in Slots /\ u # s /\ u[1] = s[1]
        BY <4>1, <2>5 DEF Slots
      <4>3. sockQ[u] # <<>> /\ sockQ[u] \in Seq(Chars)
        BY <4>1, <4>2, <1>1, ScannedPorts DEF TypeOK
      <4>4. ~InReg(u)
        BY <3>3, <4>2 DEF InReg
      <4>5. InSequence(sockQ[u], u, expected[u], typed[u])
        BY <4>2, <4>4 DEF LinesInOrder
      <4>6. Head(sockQ[u]) = <<u, expected[u]>>
        BY <4>2, <4>3, <4>5, SequenceShrinks
      <4>7. ~InReg(s)' /\ ~InReg(s)
        BY <3>3, <4>1, <4>2, <4>6 DEF InReg
      <4>8. QED
        BY <2>3, <3>1, <4>7
    <3>4. CASE ~hostReadRegFull[s[1]] /\ ~hostReadRegFull'[s[1]]
      BY <2>3, <3>1, <3>4 DEF InReg
    <3>5. QED
      BY <3>2, <3>3, <3>4
  <2>6. QED
    BY <2>4, <2>5
<1>7. CASE TakeInterrupt
  BY <1>2, <1>7, TakeEffect
<1>8. ASSUME NEW s \in Slots, ReadChar(s) PROVE LinesInOrder'
  <2>1. /\ s \in serving
        /\ hostReadRegFull' = [hostReadRegFull EXCEPT ![s[1]] = FALSE]
        /\ expected' = [expected EXCEPT ![s] = Succ(@)]
        /\ UNCHANGED <<recvData, sockQ, typed>>
    BY <1>8, ReadCharEffect
  <2>2. /\ hostReadRegFull \in [Boards -> BOOLEAN]
        /\ expected \in [Slots -> 0 .. Stamps - 1]
        /\ \A t \in Slots : t[1] \in Boards
    BY <1>1 DEF TypeOK, HostTypes, Slots
  <2>3. InReg(s)
    BY <2>1 DEF OneAnnouncement
  <2>4. SUFFICES ASSUME NEW t \in Slots
                 PROVE  /\ InReg(t)' => recvData[t[1]] = <<t, expected'[t]>>
                        /\ InSequence(sockQ[t], t,
                             IF InReg(t)' THEN Succ(expected'[t]) ELSE expected'[t],
                             typed[t])
    BY <2>1 DEF LinesInOrder
  <2>5. /\ InReg(t) => recvData[t[1]] = <<t, expected[t]>>
        /\ InSequence(sockQ[t], t,
             IF InReg(t) THEN Succ(expected[t]) ELSE expected[t], typed[t])
    BY DEF LinesInOrder
  <2>6. CASE t = s
    <3>1. ~InReg(t)' /\ expected'[t] = Succ(expected[t])
      BY <2>1, <2>2, <2>6 DEF InReg
    <3>2. QED
      BY <2>3, <2>5, <2>6, <3>1
  <2>7. CASE t # s
    <3>1. expected'[t] = expected[t]
      BY <2>1, <2>2, <2>7
    <3>2. InReg(t)' = InReg(t)
      <4>1. CASE t[1] = s[1]
        BY <2>1, <2>2, <2>3, <2>7, <4>1 DEF InReg
      <4>2. CASE t[1] # s[1]
        BY <2>1, <2>2, <4>2 DEF InReg
      <4>3. QED
        BY <4>1, <4>2
    <3>3. QED
      BY <2>5, <3>1, <3>2
  <2>8. QED
    BY <2>6, <2>7
<1>9. CASE UNCHANGED allVars
  BY <1>2, <1>9 DEF allVars, vars, rxVars, hostVars
<1>10. QED
  BY <1>3, <1>4, <1>5, <1>6, <1>7, <1>8, <1>9, HostCases DEF Calm

LEMMA ReadsStep ==
  ASSUME IInv, HostTypes, OneAnnouncement, LinesInOrder, ReadsInOrder,
         [HostNext]_allVars
  PROVE  ReadsInOrder'
<1>1. TypeOK
  BY DEF IInv
<1>2. CASE Calm \/ Tick \/ TakeInterrupt
  BY <1>1, <1>2, CalmEffect, TickEffect, TakeEffect DEF Calm, ReadsInOrder, hostVars
<1>3. CASE IssueAny
  <2>1. PICK n \in Boards, R \in SUBSET Ports :
          \E cmd \in [R -> HostCommands] : Issue(n, cmd)
    BY <1>3 DEF IssueAny
  <2>2. QED
    BY <1>1, <2>1, IssueEffect DEF ReadsInOrder
<1>4. ASSUME NEW s \in Slots, ReadChar(s) PROVE ReadsInOrder'
  BY <1>4, ReadCharEffect DEF OneAnnouncement, LinesInOrder, ReadsInOrder
<1>5. QED
  BY <1>2, <1>3, <1>4, HostCases

LEMMA HostIInvInit == HostInit => HostIInv
<1> SUFFICES ASSUME HostInit PROVE HostIInv
  OBVIOUS
<1>1. IInv
  BY IInvInit DEF HostInit
<1>2. HostTypes
  BY HostAssumption, FWAssumption DEF HostInit, Init, HostTypes
<1>3. CompletionAccounted /\ FullIsAnnounced /\ OneAnnouncement
  BY DEF HostInit, Init, CompletionAccounted, FullIsAnnounced, OneAnnouncement,
         OnLine
<1>4. LinesInOrder
  <2>1. \A s \in Slots : s[1] \in Boards
    BY DEF Slots
  <2>2. QED
    BY <2>1 DEF HostInit, Init, LinesInOrder, InReg, InSequence
<1>5. ReadsInOrder
  BY DEF HostInit, ReadsInOrder
<1>6. QED
  BY <1>1, <1>2, <1>3, <1>4, <1>5 DEF HostIInv

LEMMA HostIInvStep == HostIInv /\ [HostNext]_allVars => HostIInv'
<1> SUFFICES ASSUME HostIInv, [HostNext]_allVars PROVE HostIInv'
  OBVIOUS
<1>1. IInv'
  BY HostRuns, IInvStep DEF HostIInv
<1>2. HostTypes' /\ CompletionAccounted' /\ FullIsAnnounced'
  BY HostTypesStep, CompletionStep, AnnouncedStep DEF HostIInv
<1>3. OneAnnouncement' /\ LinesInOrder' /\ ReadsInOrder'
  BY OneAnnouncementStep, LinesStep, ReadsStep DEF HostIInv
<1>4. QED
  BY <1>1, <1>2, <1>3 DEF HostIInv

LEMMA HostInvariant == HostSpec => []HostIInv
BY HostIInvInit, HostIInvStep, PTL DEF HostSpec

(* A completion is queued or on the line for exactly as long as the host   *)
(* waits for it, for any number of boards and ports.                       *)
THEOREM EveryCompletionAccounted == HostSpec => []CompletionAccounted
<1>1. HostIInv => CompletionAccounted
  BY DEF HostIInv
<1>2. QED
  BY <1>1, HostInvariant, PTL

(* A full receive register has its interrupt queued, raised or served, but *)
(* for one that a completion overwrote.                                    *)
THEOREM EveryFullRegisterAnnounced == HostSpec => []FullIsAnnounced
<1>1. HostIInv => FullIsAnnounced
  BY DEF HostIInv
<1>2. QED
  BY <1>1, HostInvariant, PTL

(* The host reads each port's characters in the order they were typed.     *)
THEOREM EveryReadInOrder == HostSpec => []ReadsInOrder
<1>1. HostIInv => ReadsInOrder
  BY DEF HostIInv
<1>2. QED
  BY <1>1, HostInvariant, PTL

-----------------------------------------------------------------------------
(* The refinement: what TermLines calls unread is in the register or in    *)
(* the buffer, and only typing and reading change it.                      *)
Unread(s) == InRegister(s) \o sockQ[s]

LEMMA UnreadKept ==
  ASSUME TypeOK, NEW s \in Slots, InReg(s)' = InReg(s),
         recvData'[s[1]] = recvData[s[1]], sockQ'[s] = sockQ[s]
  PROVE  Unread(s)' = Unread(s)
BY DEF Unread, InRegister, InReg

LEMMA RegisterType ==
  ASSUME TypeOK, LinesInOrder, HostTypes, NEW s \in Slots
  PROVE  InRegister(s) \in Seq(Chars) /\ sockQ[s] \in Seq(Chars)
<1>1. <<s, expected[s]>> \in Chars
  BY HostAssumption DEF HostTypes
<1>2. InReg(s) => InRegister(s) = <<<<s, expected[s]>>>>
  BY DEF LinesInOrder, InReg, InRegister
<1>3. ~InReg(s) => InRegister(s) = <<>>
  BY DEF InReg, InRegister
<1>4. CASE InReg(s)
  <2>1. <<<<s, expected[s]>>>> \in Seq(Chars)
    BY <1>1
  <2>2. QED
    BY <1>2, <1>4, <2>1 DEF TypeOK
<1>5. CASE ~InReg(s)
  BY <1>3, <1>5 DEF TypeOK
<1>6. QED
  BY <1>4, <1>5

LEMMA AppendToConcat ==
  ASSUME NEW S, NEW q \in Seq(S), NEW r \in Seq(S), NEW e \in S
  PROVE  q \o Append(r, e) = Append(q \o r, e)
<1>1. <<e>> \in Seq(S) /\ q \o r \in Seq(S)
  BY ConcatProperties
<1>2. Append(r, e) = r \o <<e>> /\ Append(q \o r, e) = (q \o r) \o <<e>>
  BY <1>1, AppendIsConcat
<1>3. (q \o r) \o <<e>> = q \o (r \o <<e>>)
  BY <1>1, ConcatAssociative
<1>4. QED
  BY <1>2, <1>3

LEMMA TypeKeyImplements ==
  ASSUME HostIInv, NEW s \in Slots, TypeKey(s)
  PROVE  TL!Type(s, <<s, typed[s]>>)
<1> DEFINE k == <<s, typed[s]>>
<1>1. TypeOK /\ HostTypes /\ LinesInOrder /\ k \in Chars
  BY HostAssumption DEF HostIInv, IInv, HostTypes
<1>2. /\ sockQ' = [sockQ EXCEPT ![s] = Append(@, k)]
      /\ typed' = [typed EXCEPT ![s] = (@ + 1) % Stamps]
      /\ UNCHANGED <<hostReadRegFull, recvData, expected>>
  BY DEF TypeKey, Arrive
<1>3. \A t \in Slots : InReg(t)' = InReg(t)
  BY <1>2 DEF InReg
<1>4. \A t \in Slots : t # s => Unread(t)' = Unread(t)
  BY <1>1, <1>2, <1>3, UnreadKept DEF TypeOK
<1>5. Unread(s)' = Append(Unread(s), k)
  <2>1. InRegister(s) \in Seq(Chars) /\ sockQ[s] \in Seq(Chars)
    BY <1>1, RegisterType
  <2>2. InRegister(s)' = InRegister(s)
    BY <1>2, <1>3 DEF InRegister, InReg
  <2>3. sockQ'[s] = Append(sockQ[s], k)
    BY <1>1, <1>2 DEF TypeOK
  <2> HIDE DEF k
  <2>4. InRegister(s) \o Append(sockQ[s], k) = Append(InRegister(s) \o sockQ[s], k)
    BY <1>1, <2>1, AppendToConcat
  <2>5. QED
    BY <2>2, <2>3, <2>4 DEF Unread
<1> HIDE DEF k
<1>6. [t \in Slots |-> Unread(t)']
        = [[t \in Slots |-> Unread(t)] EXCEPT ![s] = Append(@, k)]
  BY <1>4, <1>5
<1>7. QED
  BY <1>2, <1>6 DEF TL!Type, Unread, k

LEMMA ReadCharImplements ==
  ASSUME HostIInv, NEW s \in Slots, ReadChar(s)
  PROVE  TL!Read(s)
<1>1. TypeOK /\ HostTypes /\ LinesInOrder /\ OneAnnouncement
  BY DEF HostIInv, IInv
<1>2. /\ s \in serving
      /\ hostReadRegFull' = [hostReadRegFull EXCEPT ![s[1]] = FALSE]
      /\ expected' = [expected EXCEPT ![s] = (@ + 1) % Stamps]
      /\ UNCHANGED <<recvData, sockQ, typed>>
  BY ReadCharEffect DEF Succ
<1>3. /\ hostReadRegFull \in [Boards -> BOOLEAN]
      /\ \A t \in Slots : t[1] \in Boards
  BY <1>1 DEF TypeOK, Slots
<1>4. InReg(s) /\ ~InReg(s)'
  BY <1>1, <1>2, <1>3 DEF OneAnnouncement, InReg
<1>5. ASSUME NEW t \in Slots, t # s
      PROVE  Unread(t)' = Unread(t)
  <2>1. InReg(t)' = InReg(t)
    <3>1. CASE t[1] = s[1]
      BY <1>2, <1>3, <1>4, <1>5, <3>1 DEF InReg
    <3>2. CASE t[1] # s[1]
      BY <1>2, <1>3, <3>2 DEF InReg
    <3>3. QED
      BY <3>1, <3>2
  <2>2. QED
    BY <1>1, <1>2, <1>5, <2>1, UnreadKept
<1>6. /\ Unread(s) = <<recvData[s[1]]>> \o sockQ[s]
      /\ Unread(s)' = <<>> \o sockQ[s]
  BY <1>2, <1>4 DEF Unread, InRegister, InReg
<1>7. recvData[s[1]] \in Chars /\ sockQ[s] \in Seq(Chars)
  <2>1. recvData[s[1]] = <<s, expected[s]>>
    BY <1>1, <1>4 DEF LinesInOrder
  <2>2. QED
    BY <1>1, <2>1, HostAssumption DEF HostTypes, TypeOK
<1>8. Unread(s) # <<>> /\ Unread(s)' = Tail(Unread(s))
  <2>1. /\ <<recvData[s[1]]>> \o sockQ[s] # <<>>
        /\ Tail(<<recvData[s[1]]>> \o sockQ[s]) = sockQ[s]
        /\ <<>> \o sockQ[s] = sockQ[s]
    BY <1>7
  <2>2. QED
    BY <1>6, <2>1
<1>9. [t \in Slots |-> Unread(t)']
        = [[t \in Slots |-> Unread(t)] EXCEPT ![s] = Tail(@)]
  BY <1>5, <1>8
<1>10. QED
  BY <1>2, <1>8, <1>9 DEF TL!Read, Unread

LEMMA TickStutters ==
  ASSUME HostIInv, Tick
  PROVE  \A s \in Slots : Unread(s)' = Unread(s)
<1>1. TypeOK /\ HostTypes /\ LinesInOrder
  BY DEF HostIInv, IInv
<1>2. ReceiveInto(Scanned) /\ UNCHANGED <<typed, expected>>
  BY <1>1, TickEffect DEF hostVars
<1>3. LinesInOrder'
  <2>1. [HostNext]_allVars
    BY DEF HostNext
  <2>2. QED
    BY <2>1, LinesStep DEF HostIInv
<1>4. SUFFICES ASSUME NEW s \in Slots PROVE Unread(s)' = Unread(s)
  OBVIOUS
<1>5. sockQ[s] \in Seq(Chars)
  BY <1>1 DEF TypeOK
<1>6. CASE s \in Scanned
  <2>1. /\ ~hostReadRegFull[s[1]] /\ sockQ[s] # <<>>
        /\ hostReadRegFull'[s[1]] /\ recvData'[s[1]] = Head(sockQ[s])
        /\ sockQ'[s] = Tail(sockQ[s])
    BY <1>1, <1>2, <1>6, ReceiveEffect
  <2>2. ~InReg(s)
    BY <2>1 DEF InReg
  <2>3. Head(sockQ[s]) = <<s, expected[s]>>
    BY <1>1, <1>5, <2>1, <2>2, SequenceShrinks DEF LinesInOrder
  <2>4. Unread(s) = <<>> \o sockQ[s]
    BY <2>2 DEF Unread, InRegister, InReg
  <2>5. Unread(s)' = <<Head(sockQ[s])>> \o Tail(sockQ[s])
    <3>1. InRegister(s)' = <<Head(sockQ[s])>>
      BY <2>1, <2>3 DEF InRegister
    <3>2. QED
      BY <2>1, <3>1, Zenon DEF Unread
  <2>6. /\ <<>> \o sockQ[s] = sockQ[s]
        /\ <<Head(sockQ[s])>> \o Tail(sockQ[s]) = sockQ[s]
    BY <1>5, <2>1
  <2>7. QED
    BY <2>4, <2>5, <2>6
<1>7. CASE s \notin Scanned
  <2>1. sockQ'[s] = sockQ[s]
    BY <1>1, <1>2, <1>7, ReceiveEffect
  <2>2. CASE hostReadRegFull[s[1]]
    <3>1. hostReadRegFull'[s[1]] /\ recvData'[s[1]] = recvData[s[1]]
      BY <1>1, <1>2, <2>2, ReceiveEffect
    <3>2. QED
      BY <2>1, <2>2, <3>1 DEF Unread, InRegister
  <2>3. CASE ~hostReadRegFull[s[1]]
    <3>1. ~InReg(s)
      BY <2>3 DEF InReg
    <3>2. ~InReg(s)'
      <4>1. CASE ~hostReadRegFull'[s[1]]
        BY <4>1 DEF InReg
      <4>2. CASE hostReadRegFull'[s[1]]
        <5> DEFINE u == RxSlot(s[1])
        <5>1. /\ u \in Scanned /\ u \in {s[1]} \X Ports
              /\ recvData'[s[1]] = Head(sockQ[u])
          BY <1>1, <1>2, <2>3, <4>2, ReceiveEffect
        <5>2. u \in Slots /\ u # s /\ u[1] = s[1]
          BY <5>1, <1>7 DEF Slots
        <5>3. sockQ[u] # <<>> /\ sockQ[u] \in Seq(Chars) /\ ~InReg(u)
          BY <5>1, <5>2, <1>1, <2>3, ScannedPorts DEF TypeOK, InReg
        <5>4. Head(sockQ[u]) = <<u, expected[u]>>
          BY <5>2, <5>3, <1>1, SequenceShrinks DEF LinesInOrder
        <5>5. QED
          BY <5>1, <5>2, <5>4 DEF InReg
      <4>3. QED
        BY <4>1, <4>2
    <3>3. QED
      BY <2>1, <3>1, <3>2 DEF Unread, InRegister, InReg
  <2>4. QED
    BY <2>2, <2>3
<1>8. QED
  BY <1>6, <1>7

(* The boards give every terminal line what TermLines promises: what is    *)
(* typed is read, once and in order, by fw_processPendingCompletes, the    *)
(* receive register and its interrupt, whatever commands complete between. *)
THEOREM BoardsImplementLines == HostSpec => ImplementsLines
<1>1. HostInit => TL!Init
  <2> SUFFICES ASSUME HostInit PROVE TL!Init
    OBVIOUS
  <2>1. \A s \in Slots : s[1] \in Boards
    BY DEF Slots
  <2>2. \A s \in Slots : InRegister(s) = <<>> /\ sockQ[s] = <<>>
    BY <2>1 DEF HostInit, Init, InRegister
  <2>3. <<>> \o <<>> = <<>>
    OBVIOUS
  <2>4. [s \in Slots |-> InRegister(s) \o sockQ[s]] = [s \in Slots |-> <<>>]
    BY <2>2, <2>3
  <2>5. QED
    BY <2>4 DEF TL!Init, HostInit
<1>2. HostIInv /\ [HostNext]_allVars
        => [TL!Next]_<<[s \in Slots |-> InRegister(s) \o sockQ[s]], typed, expected>>
  <2> SUFFICES ASSUME HostIInv, [HostNext]_allVars
               PROVE  [TL!Next]_<<[s \in Slots |-> InRegister(s) \o sockQ[s]],
                                  typed, expected>>
    OBVIOUS
  <2>1. TypeOK
    BY DEF HostIInv, IInv
  <2>2. ASSUME \A s \in Slots : Unread(s)' = Unread(s),
               UNCHANGED <<typed, expected>>
        PROVE  UNCHANGED <<[s \in Slots |-> InRegister(s) \o sockQ[s]],
                           typed, expected>>
    BY <2>2 DEF Unread
  <2>3. ASSUME UNCHANGED <<hostReadRegFull, recvData, sockQ, typed, expected>>
        PROVE  UNCHANGED <<[s \in Slots |-> InRegister(s) \o sockQ[s]],
                           typed, expected>>
    BY <2>3 DEF InRegister
  <2>4. ASSUME NEW s \in Slots, TypeKey(s) PROVE TL!Next
    <3>1. <<s, typed[s]>> \in Chars
      BY HostAssumption DEF HostIInv, HostTypes
    <3>2. TL!Type(s, <<s, typed[s]>>)
      BY <2>4, TypeKeyImplements
    <3>3. QED
      BY <3>1, <3>2 DEF TL!Next, TL!Type
  <2>5. ASSUME NEW s \in Slots, ReadChar(s) PROVE TL!Next
    BY <2>5, ReadCharImplements DEF TL!Next
  <2>6. CASE Tick
    BY <2>1, <2>2, <2>6, TickStutters, TickEffect DEF HostIInv, hostVars
  <2>7. CASE IssueAny
    <3>1. PICK n \in Boards, R \in SUBSET Ports :
            \E cmd \in [R -> HostCommands] : Issue(n, cmd)
      BY <2>7 DEF IssueAny
    <3>2. UNCHANGED <<rxVars, typed, expected>>
      BY <2>1, <3>1, IssueEffect
    <3>3. QED
      BY <2>3, <3>2 DEF rxVars
  <2>8. CASE TakeInterrupt
    BY <2>3, <2>8, TakeEffect
  <2>9. ASSUME NEW n \in Boards, StartBoard(n) \/ PollStatus(n)
        PROVE  UNCHANGED <<[s \in Slots |-> InRegister(s) \o sockQ[s]],
                           typed, expected>>
    BY <2>3, <2>9 DEF StartBoard, PollStatus, Handshake, StatusRead, hostVars, rxVars
  <2>10. CASE UNCHANGED allVars
    BY <2>3, <2>10 DEF allVars, vars, rxVars, hostVars
  <2>11. QED
    BY <2>4, <2>5, <2>6, <2>7, <2>8, <2>9, <2>10, HostCases DEF Calm
<1>3. QED
  BY <1>1, <1>2, HostInvariant, PTL DEF HostSpec, ImplementsLines, TL!Spec
=============================================================================

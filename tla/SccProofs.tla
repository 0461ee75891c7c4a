----------------------------- MODULE SccProofs -----------------------------
(***************************************************************************)
(* Proofs about Scc, for any characters, registers and file length.  The   *)
(* line equals what the chip wants only together with StaleIsHarmless: the *)
(* static of scc_update_irq may be wrong after a reset, and what makes it  *)
(* harmless is that the first call after a reset finds nothing wanted.     *)
(***************************************************************************)
EXTENDS SccHost, TLAPS

(* A call of scc_update_irq settles both, provided that the static was     *)
(* right or that the line is down and nothing is wanted yet.               *)
LEMMA UpdateSettles ==
  ASSUME asserted \in BOOLEAN, line \in BOOLEAN, UpdateIrq,
         asserted = line \/ (~line /\ ~Wanted')
  PROVE  /\ LineIsWanted' /\ StaleIsHarmless'
         /\ line' \in BOOLEAN /\ asserted' \in BOOLEAN
<1>1. Wanted' \in BOOLEAN
  BY DEF Wanted
<1>2. asserted' = Wanted'
  BY DEF UpdateIrq
<1>3. line' = Wanted'
  <2>1. line' = IF Wanted' = asserted THEN line ELSE Wanted'
    BY DEF UpdateIrq
  <2>2. CASE Wanted' = asserted /\ asserted = line
    BY <2>1, <2>2
  <2>3. CASE Wanted' = asserted /\ ~line /\ ~Wanted'
    BY <2>1, <2>3, <1>1
  <2>4. CASE Wanted' # asserted
    BY <2>1, <2>4
  <2>5. QED
    BY <2>2, <2>3, <2>4
<1>4. QED
  BY <1>1, <1>2, <1>3 DEF LineIsWanted, StaleIsHarmless

(* Without a call nothing that either speaks of may change.                *)
LEMMA NothingTouched ==
  ASSUME LineIsWanted, StaleIsHarmless, UNCHANGED <<mie, pendVars, irqVars>>
  PROVE  LineIsWanted' /\ StaleIsHarmless'
BY DEF LineIsWanted, StaleIsHarmless, Wanted, pendVars, irqVars

(* When only fewer sources are pending, or the chip was disabled, the call *)
(* is safe whatever the static holds.                                      *)
LEMMA UpdateSafe ==
  ASSUME TypeOK, LineIsWanted, StaleIsHarmless, UpdateIrq,
         Wanted' => asserted = line
  PROVE  /\ LineIsWanted' /\ StaleIsHarmless'
         /\ line' \in BOOLEAN /\ asserted' \in BOOLEAN
<1>1. CASE asserted = line
  BY <1>1, UpdateSettles DEF TypeOK
<1>2. CASE asserted # line
  <2>1. ~Wanted'
    BY <1>2
  <2>2. ~Wanted
    BY <1>2 DEF StaleIsHarmless, Wanted
  <2>3. ~line
    BY <2>2 DEF LineIsWanted
  <2>4. QED
    BY <2>1, <2>3, UpdateSettles DEF TypeOK
<1>3. QED
  BY <1>1, <1>2

-----------------------------------------------------------------------------
(* A disabled chip stays disabled unless WR9 is written.                   *)
LEMMA MasterKept ==
  ASSUME StaleIsHarmless, mie' = mie
  PROVE  Wanted' => asserted = line
BY DEF StaleIsHarmless, Wanted

LEMMA NoneType == None \in [Channels -> BOOLEAN] /\ \A c \in Channels : ~None[c]
BY DEF None

LEMMA IInvInit == Init => IInv
<1> SUFFICES ASSUME Init PROVE IInv
  OBVIOUS
<1>1. /\ ptr \in [Channels -> 0 .. 15]
      /\ recBuf \in [Channels -> Chars \cup {NoChar}]
      /\ fileLeft \in 0 .. MaxFile
  BY SccAssumption DEF Init
<1>2. /\ txie \in [Channels -> BOOLEAN] /\ rxie \in [Channels -> BOOLEAN]
      /\ loop \in [Channels -> BOOLEAN] /\ avail \in [Channels -> BOOLEAN]
      /\ txPend \in [Channels -> BOOLEAN] /\ rxPend \in [Channels -> BOOLEAN]
  BY NoneType DEF Init
<1>3. mie \in BOOLEAN /\ asserted \in BOOLEAN /\ line \in BOOLEAN
      /\ writeRegs \subseteq {4, 16}
  BY Zenon DEF Init
<1>4. TypeOK
  BY <1>1, <1>2, <1>3 DEF TypeOK
<1>5. LineIsWanted /\ StaleIsHarmless
  BY Zenon DEF Init, LineIsWanted, StaleIsHarmless, Wanted
<1>6. PendingHasCharacter
  BY NoneType DEF Init, PendingHasCharacter
<1>7. QED
  BY <1>4, <1>5, <1>6 DEF IInv

-----------------------------------------------------------------------------
(* One lemma per group of actions: each keeps the whole invariant.         *)
LEMMA SelectStep ==
  ASSUME IInv, NEW p \in Channels, NEW r \in Regs, NEW cmd,
         SelectReg(p, r, cmd)
  PROVE  IInv'
<1> USE DEF IInv
<1>1. /\ ptr' \in [Channels -> 0 .. 15]
      /\ txPend' \in [Channels -> BOOLEAN]
      /\ rxPend' \in [Channels -> BOOLEAN]
  BY SccAssumption DEF SelectReg, TypeOK
<1>2. UNCHANGED <<regVars, mie, avail, recBuf, writeRegs, fileLeft>>
      /\ (UNCHANGED irqVars \/ UpdateIrq)
  BY DEF SelectReg
<1>3. /\ LineIsWanted' /\ StaleIsHarmless'
      /\ line' \in BOOLEAN /\ asserted' \in BOOLEAN
  <2>1. CASE cmd = "null"
    <3>1. UNCHANGED <<pendVars, irqVars>>
      BY <2>1 DEF SelectReg, pendVars, TypeOK
    <3>2. QED
      BY <1>2, <3>1, NothingTouched DEF TypeOK, irqVars
  <2>2. CASE cmd # "null"
    <3>1. UpdateIrq
      BY <2>2 DEF SelectReg
    <3>2. QED
      BY <1>2, <3>1, MasterKept, UpdateSafe
  <2>3. QED
    BY <2>1, <2>2
<1>4. PendingHasCharacter'
  BY DEF SelectReg, PendingHasCharacter, TypeOK
<1>5. QED
  BY <1>1, <1>2, <1>3, <1>4 DEF TypeOK, regVars

(* Accesses that touch neither what is pending nor the master enable.      *)
LEMMA PlainStep ==
  ASSUME IInv, UNCHANGED <<mie, avail, recBuf, pendVars, irqVars>>,
         ptr' \in [Channels -> 0 .. 15],
         txie' \in [Channels -> BOOLEAN], rxie' \in [Channels -> BOOLEAN],
         loop' \in [Channels -> BOOLEAN], writeRegs' \subseteq {4, 16},
         fileLeft' \in 0 .. MaxFile
  PROVE  IInv'
<1>1. LineIsWanted' /\ StaleIsHarmless'
  BY NothingTouched DEF IInv
<1>2. PendingHasCharacter'
  BY DEF IInv, PendingHasCharacter, pendVars
<1>3. TypeOK'
  BY DEF IInv, TypeOK, pendVars, irqVars
<1>4. QED
  BY <1>1, <1>2, <1>3 DEF IInv

LEMMA MasterStep ==
  ASSUME IInv, NEW p \in Channels, NEW m \in BOOLEAN, NEW R,
         WriteWR9(p, m, R)
  PROVE  IInv'
<1> USE DEF IInv
<1>1. /\ ptr' \in [Channels -> 0 .. 15]
      /\ txie' \in [Channels -> BOOLEAN] /\ rxie' \in [Channels -> BOOLEAN]
      /\ txPend' \in [Channels -> BOOLEAN] /\ rxPend' \in [Channels -> BOOLEAN]
  BY DEF WriteWR9, TypeOK
<1>2. mie' \in BOOLEAN /\ UpdateIrq
      /\ UNCHANGED <<loop, avail, recBuf, writeRegs, fileLeft>>
  BY Zenon DEF WriteWR9
<1>3. Wanted' => asserted = line
  <2>1. \A c \in Channels : (txPend'[c] => txPend[c]) /\ (rxPend'[c] => rxPend[c])
    BY DEF WriteWR9
  <2>2. QED
    BY <2>1 DEF Wanted, StaleIsHarmless
<1>4. /\ LineIsWanted' /\ StaleIsHarmless'
      /\ line' \in BOOLEAN /\ asserted' \in BOOLEAN
  BY <1>2, <1>3, UpdateSafe
<1>5. PendingHasCharacter'
  BY DEF WriteWR9, PendingHasCharacter
<1>6. QED
  BY <1>1, <1>2, <1>4, <1>5 DEF TypeOK

LEMMA DataReadStep ==
  ASSUME IInv, NEW p \in Channels, DataRead(p)
  PROVE  IInv'
<1> USE DEF IInv
<1>1. avail' \in [Channels -> BOOLEAN] /\ rxPend' \in [Channels -> BOOLEAN]
  BY DEF DataRead, TypeOK
<1>2. UNCHANGED <<ptr, regVars, mie, recBuf, txPend, writeRegs>> /\ UpdateIrq
  BY DEF DataRead
<1>3. fileLeft' \in 0 .. MaxFile
  BY SccAssumption DEF DataRead, TypeOK
<1>4. /\ LineIsWanted' /\ StaleIsHarmless'
      /\ line' \in BOOLEAN /\ asserted' \in BOOLEAN
  BY <1>2, MasterKept, UpdateSafe
<1>5. PendingHasCharacter'
  BY DEF DataRead, PendingHasCharacter, TypeOK
<1>6. QED
  BY <1>1, <1>2, <1>3, <1>4, <1>5 DEF TypeOK, regVars

LEMMA DataWriteStep ==
  ASSUME IInv, NEW p \in Channels, NEW c \in Chars, DataWrite(p, c)
  PROVE  IInv'
<1> USE DEF IInv
<1>1. UNCHANGED <<ptr, regVars, mie, rxPend, writeRegs, fileLeft>>
  BY DEF DataWrite
<1>2. /\ txPend' \in [Channels -> BOOLEAN] /\ avail' \in [Channels -> BOOLEAN]
      /\ recBuf' \in [Channels -> Chars \cup {NoChar}]
  BY DEF DataWrite, TypeOK
<1>3. /\ LineIsWanted' /\ StaleIsHarmless'
      /\ line' \in BOOLEAN /\ asserted' \in BOOLEAN
  <2>1. CASE UpdateIrq
    BY <1>1, <2>1, MasterKept, UpdateSafe
  <2>2. CASE ~UpdateIrq
    <3>1. UNCHANGED <<pendVars, irqVars>>
      BY <2>2, <1>1 DEF DataWrite, TypeOK, pendVars
    <3>2. QED
      BY <1>1, <3>1, NothingTouched DEF TypeOK, irqVars
  <2>3. QED
    BY <2>1, <2>2
<1>4. PendingHasCharacter'
  BY DEF DataWrite, PendingHasCharacter, TypeOK
<1>5. QED
  BY <1>1, <1>2, <1>3, <1>4 DEF TypeOK, regVars

LEMMA PollStep ==
  ASSUME IInv, NEW D \in SUBSET Channels, NEW got \in [D -> Chars],
         PollStatus(got)
  PROVE  IInv'
<1> USE DEF IInv
<1>1. UNCHANGED <<ptr, regVars, mie, txPend, writeRegs, fileLeft>>
  BY DEF PollStatus
<1>2. /\ rxPend' \in [Channels -> BOOLEAN] /\ avail' \in [Channels -> BOOLEAN]
      /\ recBuf' \in [Channels -> Chars \cup {NoChar}]
  BY DEF PollStatus, TypeOK
<1>3. /\ LineIsWanted' /\ StaleIsHarmless'
      /\ line' \in BOOLEAN /\ asserted' \in BOOLEAN
  <2>1. CASE \E q \in D : rxie[q]
    BY <1>1, <2>1, MasterKept, UpdateSafe DEF PollStatus
  <2>2. CASE ~\E q \in D : rxie[q]
    <3>1. UNCHANGED <<pendVars, irqVars>>
      BY <2>2, <1>1 DEF PollStatus, TypeOK, pendVars
    <3>2. QED
      BY <1>1, <3>1, NothingTouched DEF TypeOK, irqVars
  <2>3. QED
    BY <2>1, <2>2
<1>4. PendingHasCharacter'
  BY DEF PollStatus, PendingHasCharacter
<1>5. QED
  BY <1>1, <1>2, <1>3, <1>4 DEF TypeOK, regVars

(* A reset leaves the static behind, with nothing wanted.                  *)
LEMMA ResetStep ==
  ASSUME IInv, PulseReset
  PROVE  IInv'
<1> USE DEF IInv
<1>1. /\ txie' \in [Channels -> BOOLEAN] /\ rxie' \in [Channels -> BOOLEAN]
      /\ loop' \in [Channels -> BOOLEAN] /\ avail' \in [Channels -> BOOLEAN]
      /\ txPend' \in [Channels -> BOOLEAN] /\ rxPend' \in [Channels -> BOOLEAN]
  BY NoneType DEF PulseReset
<1>2. /\ ptr' \in [Channels -> 0 .. 15]
      /\ recBuf' \in [Channels -> Chars \cup {NoChar}]
      /\ UNCHANGED <<asserted, fileLeft>> /\ writeRegs' \subseteq {4, 16}
  BY DEF PulseReset
<1>3. mie' = FALSE /\ line' = FALSE
  BY DEF PulseReset
<1>4. \A c \in Channels : ~txPend'[c] /\ ~rxPend'[c]
  BY NoneType DEF PulseReset
<1>5. LineIsWanted' /\ StaleIsHarmless' /\ PendingHasCharacter'
  BY <1>3, <1>4, Zenon DEF LineIsWanted, StaleIsHarmless, PendingHasCharacter,
                           Wanted
<1>6. mie' \in BOOLEAN /\ line' \in BOOLEAN
  BY <1>3, Zenon
<1>7. QED
  BY <1>1, <1>2, <1>5, <1>6 DEF TypeOK

-----------------------------------------------------------------------------
LEMMA IInvStep == IInv /\ [Next]_vars => IInv'
<1> SUFFICES ASSUME IInv, [Next]_vars PROVE IInv'
  OBVIOUS
<1> USE SccAssumption
<1>1. ASSUME NEW p \in Channels, NEW tx \in BOOLEAN, NEW rx \in BOOLEAN,
             WriteWR1(p, tx, rx)
      PROVE  IInv'
  BY <1>1, PlainStep DEF WriteWR1, IInv, TypeOK
<1>2. ASSUME NEW p \in Channels, NEW l \in BOOLEAN, WriteWR14(p, l)
      PROVE  IInv'
  BY <1>2, PlainStep DEF WriteWR14, IInv, TypeOK
<1>3. ASSUME NEW p \in Channels, WriteOther(p) \/ ReadCmd(p)
      PROVE  IInv'
  <2>1. UNCHANGED <<regVars, mie, avail, recBuf, pendVars, irqVars, writeRegs,
                    fileLeft>>
    BY <1>3 DEF WriteOther, ReadCmd
  <2>2. ptr' \in [Channels -> 0 .. 15]
    BY <1>3 DEF WriteOther, ReadCmd, IInv, TypeOK
  <2>3. QED
    BY <2>1, <2>2, PlainStep DEF IInv, TypeOK, regVars
<1>4. ASSUME NEW l \in DOMAIN Latches, NEW v \in BOOLEAN, WriteLatch(l, v)
      PROVE  IInv'
  <2>1. Latches[l] \in {4, 16}
    BY DEF Latches
  <2>2. writeRegs' \subseteq {4, 16}
    BY <1>4, <2>1 DEF WriteLatch, IInv, TypeOK
  <2>3. QED
    BY <1>4, <2>2, PlainStep DEF WriteLatch, IInv, TypeOK, regVars
<1>5. ASSUME NEW n \in 0 .. MaxFile, LoadFile(n)
      PROVE  IInv'
  BY <1>5, PlainStep DEF LoadFile, IInv, TypeOK, regVars
<1>6. CASE UNCHANGED vars
  BY <1>6, PlainStep DEF vars, IInv, TypeOK, regVars
<1>7. CASE HostAccess
  BY <1>1, <1>2, <1>3, <1>7, SelectStep, MasterStep, DataReadStep, DataWriteStep
     DEF HostAccess
<1>8. CASE Poll
  BY <1>8, PollStep DEF Poll
<1>9. QED
  BY <1>4, <1>5, <1>6, <1>7, <1>8, ResetStep DEF Next

(* The variables keep their types, the line follows what the chip wants,   *)
(* and a receive interrupt always has a character behind it.               *)
THEOREM Invariant == Spec => []IInv
BY IInvInit, IInvStep, PTL DEF Spec

(* The level 5 line is up exactly while the chip is enabled and a source   *)
(* is pending, resets of the machine included.                             *)
THEOREM LineCorrect == Spec => []LineIsWanted
<1>1. IInv => LineIsWanted
  BY DEF IInv
<1>2. QED
  BY <1>1, Invariant, PTL

-----------------------------------------------------------------------------
(* The driver of SccHost.  Some source comes first whenever one is pending.*)
LEMMA SomeHighest ==
  ASSUME Wanted
  PROVE  \E s \in Sources : Highest(s)
<1>1. /\ Ranked[1] = <<"A", "rx">> /\ Ranked[2] = <<"A", "tx">>
      /\ Ranked[3] = <<"B", "rx">> /\ Ranked[4] = <<"B", "tx">>
  BY DEF Ranked
<1>2. \A i \in 1 .. 4 : Ranked[i] \in Sources
  BY <1>1 DEF Sources, Channels
<1>3. \E i \in 1 .. 4 : Pending(Ranked[i])
  BY <1>1 DEF Wanted, Channels, Pending
<1>4. \E i \in 1 .. 4 : /\ Pending(Ranked[i])
                        /\ \A j \in 1 .. (i - 1) : ~Pending(Ranked[j])
  <2>1. CASE Pending(Ranked[1])
    BY <2>1
  <2>2. CASE ~Pending(Ranked[1]) /\ Pending(Ranked[2])
    BY <2>2
  <2>3. CASE ~Pending(Ranked[1]) /\ ~Pending(Ranked[2]) /\ Pending(Ranked[3])
    BY <2>3
  <2>4. CASE /\ ~Pending(Ranked[1]) /\ ~Pending(Ranked[2])
             /\ ~Pending(Ranked[3]) /\ Pending(Ranked[4])
    BY <2>4
  <2>5. QED
    BY <1>3, <2>1, <2>2, <2>3, <2>4
<1>5. QED
  BY <1>2, <1>4 DEF Highest

LEMMA HostIInvInit == HostInit => HostIInv
<1> SUFFICES ASSUME HostInit PROVE HostIInv
  OBVIOUS
<1>1. IInv
  BY IInvInit DEF HostInit
<1>2. HostTypeOK
  BY <1>1, NoneType DEF HostInit, HostTypeOK, IInv, Phases, Sources, Channels
<1>3. \A p \in Channels : ~loop[p]
  BY NoneType DEF HostInit, Init
<1>4. SleepsOnInterrupt
  BY NoneType DEF HostInit, Init, SleepsOnInterrupt
<1>5. QED
  BY <1>1, <1>2, <1>3, <1>4 DEF HostIInv, HostInit

(* A step that leaves the transmit interrupts and the flags alone and does *)
(* not enter or leave the gap between the byte and its flag.               *)
LEMMA DriverRests ==
  ASSUME HostIInv, IInv', UNCHANGED <<txPend, busy>>,
         \A p \in Channels : ~loop'[p],
         pc # "flag", pc' \in Phases \ {"flag"},
         source' \in Sources, pc' = "vector" => Wanted'
  PROVE  HostIInv'
BY DEF HostIInv, HostTypeOK, IInv, SleepsOnInterrupt

(* A select of a register without a command changes nothing else.          *)
LEMMA PlainSelect ==
  ASSUME TypeOK, NEW p \in Channels, NEW r, SelectReg(p, r, "null")
  PROVE  UNCHANGED <<mie, txPend, rxPend, loop>>
BY DEF SelectReg, TypeOK, regVars

LEMMA HostIInvStep == HostIInv /\ [HostNext]_allVars => HostIInv'
<1> SUFFICES ASSUME HostIInv, [HostNext]_allVars PROVE HostIInv'
  OBVIOUS
<1>0. /\ IInv /\ TypeOK /\ HostTypeOK
      /\ source[1] \in Channels /\ source[2] \in {"rx", "tx"}
      /\ {0, 1, 2, 9} \subseteq Regs /\ "A" \in Channels /\ "B" \in Channels
  BY SccAssumption, DriverAssumption
     DEF HostIInv, HostTypeOK, IInv, Sources, Channels
<1>1. ASSUME NEW p \in Channels, NEW r \in Regs, SelectReg(p, r, "null"),
             UNCHANGED busy, pc = "main", pc' \in Phases \ {"flag"},
             source' \in Sources, pc' = "vector" => Wanted
      PROVE  HostIInv'
  <2>1. IInv'
    BY <1>0, <1>1, SelectStep
  <2>2. UNCHANGED <<mie, txPend, rxPend, loop>>
    BY <1>0, <1>1, PlainSelect
  <2>3. Wanted' = Wanted
    BY <2>2 DEF Wanted
  <2>4. QED
    BY <1>1, <2>1, <2>2, <2>3, DriverRests DEF HostIInv
<1>2. CASE SelectMaster
  BY <1>0, <1>1, <1>2 DEF SelectMaster, MainLine, Phases, HostTypeOK
<1>3. ASSUME NEW p \in Channels, SelectEnables(p) PROVE HostIInv'
  BY <1>0, <1>1, <1>3 DEF SelectEnables, MainLine, Phases, Sources
<1>4. CASE Interrupt
  <2>1. Wanted
    BY <1>4, <1>0 DEF Interrupt, IInv, LineIsWanted
  <2>2. QED
    BY <1>0, <1>1, <1>4, <2>1 DEF Interrupt, Phases, HostTypeOK
<1>5. CASE SetMaster
  <2>1. WriteWR9("A", TRUE, {}) /\ UNCHANGED <<busy, source>>
        /\ pc = "wr9" /\ pc' = "main"
    BY <1>5 DEF SetMaster
  <2>2. IInv'
    BY <1>0, <2>1, MasterStep
  <2>3. UNCHANGED <<txPend, loop>>
    BY <1>0, <2>1 DEF WriteWR9, TypeOK
  <2>4. QED
    BY <1>0, <2>1, <2>2, <2>3, DriverRests DEF HostIInv, HostTypeOK, Phases
<1>6. CASE SetEnables
  <2>1. WriteWR1(source[1], TRUE, TRUE) /\ UNCHANGED <<busy, source>>
        /\ pc = "wr1" /\ pc' = "main"
    BY <1>6 DEF SetEnables
  <2>2. UNCHANGED <<loop, mie, avail, recBuf, pendVars, irqVars, writeRegs,
                    fileLeft>>
    BY <2>1 DEF WriteWR1
  <2>3. IInv'
    BY <1>0, <2>1, <2>2, PlainStep DEF WriteWR1, TypeOK
  <2>4. QED
    BY <1>0, <2>1, <2>2, <2>3, DriverRests
       DEF HostIInv, HostTypeOK, Phases, pendVars
<1>7. ASSUME NEW p \in Channels, NEW c \in Chars, PutByte(p, c)
      PROVE  HostIInv'
  <2>1. /\ DataWrite(p, c) /\ txie[p] /\ pc = "main" /\ pc' = "flag"
        /\ source' = <<p, "tx">> /\ busy' = busy
    BY <1>7 DEF PutByte, MainLine
  <2>2. IInv'
    BY <1>0, <2>1, DataWriteStep
  <2>3. txPend' = [txPend EXCEPT ![p] = TRUE] /\ loop' = loop
    BY <2>1, <1>0 DEF DataWrite, regVars, HostIInv, TypeOK
  <2>4. SleepsOnInterrupt'
    BY <1>0, <2>1, <2>3 DEF HostIInv, SleepsOnInterrupt, TypeOK
  <2>5. HostTypeOK'
    BY <1>0, <2>1, <2>2 DEF HostTypeOK, IInv, Phases, Sources
  <2>6. QED
    BY <2>1, <2>2, <2>3, <2>4, <2>5 DEF HostIInv
<1>8. CASE SetFlag
  <2>1. /\ UNCHANGED vars /\ pc = "flag" /\ pc' = "main"
        /\ source' = source /\ busy' = [busy EXCEPT ![source[1]] = TRUE]
    BY <1>8 DEF SetFlag
  <2>2. IInv'
    BY <1>0, <2>1, IInvStep
  <2>3. UNCHANGED <<txPend, loop>>
    BY <2>1 DEF vars, regVars, pendVars
  <2>4. SleepsOnInterrupt'
    BY <1>0, <2>1, <2>3 DEF HostIInv, SleepsOnInterrupt, HostTypeOK
  <2>5. HostTypeOK'
    BY <1>0, <2>1, <2>2 DEF HostTypeOK, IInv, Phases
  <2>6. QED
    BY <2>1, <2>2, <2>3, <2>4, <2>5 DEF HostIInv
<1>9. CASE ReadVector
  <2>1. /\ ReadCmd("B") /\ pc = "vector" /\ pc' \in {"serve", "main"}
        /\ busy' = busy
    BY <1>9 DEF ReadVector
  <2>2. source' \in Sources
    BY <1>0, <1>9 DEF ReadVector, HostTypeOK
  <2>3. UNCHANGED <<regVars, mie, avail, recBuf, pendVars, irqVars, writeRegs,
                    fileLeft>>
    BY <2>1 DEF ReadCmd
  <2>4. IInv'
    BY <1>0, <2>1, <2>3, PlainStep DEF ReadCmd, TypeOK, regVars
  <2>5. QED
    BY <1>0, <2>1, <2>2, <2>3, <2>4, DriverRests
       DEF HostIInv, Phases, pendVars, regVars
<1>10. CASE ServeTx
  <2>1. /\ SelectReg(source[1], 0, "resetTx") /\ pc = "serve" /\ pc' = "main"
        /\ source' = source /\ busy' = [busy EXCEPT ![source[1]] = FALSE]
    BY <1>10 DEF ServeTx
  <2>2. IInv'
    BY <1>0, <2>1, SelectStep
  <2>3. txPend' = [txPend EXCEPT ![source[1]] = FALSE] /\ loop' = loop
    BY <2>1, <1>0 DEF SelectReg, regVars, TypeOK
  <2>4. SleepsOnInterrupt'
    BY <1>0, <2>1, <2>3 DEF HostIInv, SleepsOnInterrupt, HostTypeOK, TypeOK
  <2>5. HostTypeOK'
    BY <1>0, <2>1, <2>2 DEF HostTypeOK, IInv, Phases
  <2>6. QED
    BY <2>1, <2>2, <2>3, <2>4, <2>5 DEF HostIInv
<1>11. CASE ServeRx
  <2>1. /\ DataRead(source[1]) \/ UNCHANGED vars
        /\ pc = "serve" /\ pc' = "main" /\ UNCHANGED <<source, busy>>
    BY <1>11 DEF ServeRx
  <2>2. IInv'
    BY <1>0, <2>1, DataReadStep, IInvStep
  <2>3. UNCHANGED <<txPend, loop>>
    BY <2>1 DEF DataRead, vars, regVars, pendVars
  <2>4. QED
    BY <1>0, <2>1, <2>2, <2>3, DriverRests DEF HostIInv, HostTypeOK, Phases
<1>12. CASE Typing
  <2>1. Poll /\ UNCHANGED <<pc, source, busy>>
    BY <1>12 DEF Typing, hostVars
  <2>2. IInv'
    BY <1>0, <2>1, PollStep DEF Poll
  <2>3. PICK D \in SUBSET Channels : \E got \in [D -> Chars] : PollStatus(got)
    BY <2>1 DEF Poll
  <2>4. /\ UNCHANGED <<txPend, loop, mie>>
        /\ \A p \in Channels : rxPend[p] => rxPend'[p]
    BY <2>3 DEF PollStatus, regVars
  <2>5. Wanted => Wanted'
    BY <2>4 DEF Wanted
  <2>6. QED
    BY <2>1, <2>2, <2>4, <2>5 DEF HostIInv, HostTypeOK, IInv, SleepsOnInterrupt
<1>13. CASE UNCHANGED allVars
  <2>1. UNCHANGED <<vars, pc, source, busy>>
    BY <1>13 DEF allVars, hostVars
  <2>2. IInv'
    BY <1>0, <2>1, IInvStep
  <2>3. UNCHANGED <<txPend, rxPend, mie, loop>>
    BY <2>1 DEF vars, regVars, pendVars
  <2>4. QED
    BY <2>1, <2>2, <2>3
       DEF HostIInv, HostTypeOK, IInv, SleepsOnInterrupt, Wanted
<1>14. QED
  BY <1>2, <1>3, <1>4, <1>5, <1>6, <1>7, <1>8, <1>9, <1>10, <1>11, <1>12, <1>13
     DEF HostNext

(* A channel's transmit interrupt is pending exactly while the driver      *)
(* sleeps on that channel or is about to.                                  *)
THEOREM NobodySleepsForNothing == HostSpec => []SleepsOnInterrupt
<1>1. HostIInv => SleepsOnInterrupt
  BY DEF HostIInv
<1>2. QED
  BY <1>1, HostIInvInit, HostIInvStep, PTL DEF HostSpec

(* The handler finds the source of its interrupt, whatever is typed between*)
(* the interrupt and its look at RR2.                                      *)
THEOREM SourceFound == HostSpec => []HandlerFindsSource
<1>1. HostIInv => HandlerFindsSource
  BY SomeHighest DEF HostIInv, HandlerFindsSource
<1>2. QED
  BY <1>1, HostIInvInit, HostIInvStep, PTL DEF HostSpec
=============================================================================

------------------------------ MODULE CsProofs ------------------------------
(***************************************************************************)
(* The streamer executes the block that its driver means, counts the       *)
(* blocks on the tape right while it is written and implements Tape, for   *)
(* any halves of addresses, places and chains of blocks, any tapes and any *)
(* capacity.                                                               *)
(*                                                                         *)
(* The addresses need the first invariant, IInv, only.  The tape needs the *)
(* second, TapeSound: where the drive is in each mode of its driver.  The  *)
(* lemmas say what each command does to a drive and a tape that are sound, *)
(* in the terms of Tape, and CommandDone puts them together.  That each    *)
(* answer is that of the request before it needs both.                     *)
(***************************************************************************)
EXTENDS CsHost, FiniteSetTheorems, FunctionTheorems, SequenceTheorems, TLAPS

AddressTypes ==
  /\ cs \in CsType
  /\ where \in Addresses /\ given \in Addresses
  /\ iopb.next \in Addresses

IInv == AddressTypes /\ AddressInv

USE DEF Addresses

LEMMA OriginTyped == Origin \in Addresses /\ NoIopb.next \in Addresses
  BY CsAssumption DEF Origin, NoIopb, NoAddress

(* What writing a half does: the halves of the address, the count kept.    *)
LEMMA HighHalf ==
  ASSUME NEW c \in CsType, NEW h \in Halves
  PROVE  /\ AddrHigh(c, h) \in CsType
         /\ AddrHigh(c, h).addr.high = h
         /\ AddrHigh(c, h).execCount = c.execCount
<1> DEFINE a == [c.addr EXCEPT !.high = h]
<1>1. c.addr \in Addresses
  BY DEF CsType
<1>2. a \in Addresses /\ a.high = h
  BY <1>1
<1> HIDE DEF a
<1>3. /\ [c EXCEPT !.addr = a, !.first = a] \in CsType
      /\ [c EXCEPT !.addr = a, !.first = a].addr = a
      /\ [c EXCEPT !.addr = a, !.first = a].execCount = c.execCount
  BY <1>2 DEF CsType
<1> QED
  BY <1>2, <1>3 DEF AddrHigh, a

LEMMA LowHalf ==
  ASSUME NEW c \in CsType, NEW w \in Addresses, c.addr.high = w.high
  PROVE  /\ AddrLow(c, w.low) \in CsType
         /\ AddrLow(c, w.low).addr = w
         /\ AddrLow(c, w.low).first = w
         /\ AddrLow(c, w.low).execCount = c.execCount
<1> DEFINE a == [c.addr EXCEPT !.low = w.low]
<1>1. c.addr \in Addresses
  BY DEF CsType
<1>2. a = w
  BY <1>1
<1> HIDE DEF a
<1>3. LET d == [c EXCEPT !.addr = a, !.first = a]
      IN d \in CsType /\ d.addr = w /\ d.first = w /\ d.execCount = c.execCount
  BY <1>2 DEF CsType
<1> QED
  BY <1>3 DEF AddrLow, a

LEMMA NewAddress ==
  ASSUME NEW c \in CsType, NEW a \in Addresses
  PROVE  LET d == [c EXCEPT !.addr = a]
             e == [c EXCEPT !.execCount = 0, !.addr = a]
         IN /\ d \in CsType /\ d.addr = a /\ d.first = c.first
            /\ d.execCount = c.execCount
            /\ e \in CsType /\ e.addr = a /\ e.first = c.first
            /\ e.execCount = 0
<1> DEFINE d == [c EXCEPT !.addr = a]
           e == [c EXCEPT !.execCount = 0, !.addr = a]
<1>1. d \in CsType /\ d.addr = a /\ d.first = c.first /\ d.execCount = c.execCount
  BY DEF CsType
<1> HIDE DEF Addresses
<1>2. e \in CsType /\ e.addr = a /\ e.first = c.first /\ e.execCount = 0
  <2>1. 0 \in 0 .. 2
    OBVIOUS
  <2> QED
    BY <2>1 DEF CsType
<1> QED
  BY <1>1, <1>2

LEMMA InitIInv == HostInit => IInv
  BY OriginTyped, CsAssumption DEF HostInit, IInv, AddressTypes, AddressInv,
     ResetRegs, CsType, Busy

LEMMA StepIInv == IInv /\ [HostNext]_allVars => IInv'
<1> SUFFICES ASSUME IInv, [HostNext]_allVars
             PROVE  IInv'
  OBVIOUS
<1> USE DEF IInv
<1>1. ASSUME NEW a \in Places, HandHigh(a)
      PROVE  IInv'
  <2>1. a \in Addresses /\ cs \in CsType
    BY CsHostAssumption DEF AddressTypes
  <2>2. a.high \in Halves
    BY <2>1
  <2>3. /\ cs' = AddrHigh(cs, a.high) /\ pc' = "low" /\ where' = a
        /\ given' = given /\ iopb' = iopb /\ cs.execCount = 0
    BY <1>1 DEF HandHigh, Hands, AddressInv, Busy
  <2> QED
    BY <2>1, <2>2, <2>3, HighHalf DEF AddressTypes, AddressInv, Busy
<1>2. ASSUME NEW a \in Places, HandLowOnly(a)
      PROVE  IInv'
  <2>1. a \in Addresses /\ cs \in CsType
    BY CsHostAssumption DEF AddressTypes
  <2>2. /\ cs' = AddrLow(cs, a.low) /\ pc' = "handed" /\ where' = a
        /\ given' = a /\ iopb' = iopb /\ cs.execCount = 0
        /\ cs.addr.high = a.high
    BY <1>2 DEF HandLowOnly, Hands, AddressInv, Busy
  <2> QED
    BY <2>1, <2>2, LowHalf DEF AddressTypes, AddressInv, Busy
<1>3. CASE HandLow
  <2>1. where \in Addresses /\ cs \in CsType
    BY DEF AddressTypes
  <2>2. /\ cs' = AddrLow(cs, where.low) /\ pc' = "handed" /\ where' = where
        /\ given' = where /\ iopb' = iopb /\ cs.execCount = 0
        /\ cs.addr.high = where.high
    BY <1>3 DEF HandLow, Hands, AddressInv, Busy
  <2> QED
    BY <2>1, <2>2, LowHalf DEF AddressTypes, AddressInv, Busy
<1>4. CASE Arm
  <2>1. cs \in CsType /\ cs.first \in Addresses
    BY DEF AddressTypes, CsType
  <2>2. /\ cs' = [cs EXCEPT !.addr = cs.first] /\ pc' = "handed"
        /\ where' = where /\ given' = given /\ iopb' = iopb
        /\ where = given /\ cs.first = given /\ cs.execCount = 0
    BY <1>4 DEF Arm, Hands, ChainReset, AddressInv, Busy
  <2>3. /\ cs' \in CsType /\ cs'.addr = given /\ cs'.first = given
        /\ cs'.execCount = 0
    BY <2>1, <2>2, NewAddress
  <2> QED
    BY <2>2, <2>3 DEF AddressTypes, AddressInv, Busy
<1>5. CASE Again
  BY <1>5 DEF Again, Hands, ChainReset, AddressTypes, AddressInv, Busy, CsType
<1>6. ASSUME NEW b \in Iopbs, Start(b)
      PROVE  IInv'
  <2>1. iopb'.next \in Addresses
    BY <1>6, IopbAssumption DEF Start
  <2> QED
    BY <1>6, <2>1 DEF Start, Go, AddressTypes, AddressInv, Busy, CsType
<1>7. CASE Wait
  BY <1>7 DEF Wait, Counting, AddressTypes, AddressInv, Busy, CsType
<1>8. CASE Execute
  <2>1. /\ cs' = Finished(cs, iopb) /\ pc' = "poll" /\ given' = given
        /\ where' = (IF iopb.next = NoAddress THEN where ELSE iopb.next)
        /\ iopb' = iopb /\ cs.execCount = 1
    BY <1>8 DEF Execute
  <2>2. cs.addr = where /\ cs.first = given
    BY <2>1 DEF AddressInv, Busy
  <2> DEFINE to == IF iopb.next = NoAddress THEN cs.addr ELSE iopb.next
  <2>3. cs' = [cs EXCEPT !.execCount = 0, !.addr = to]
    BY <2>1 DEF Finished
  <2>4. to = where' /\ to \in Addresses /\ cs \in CsType
    BY <2>1, <2>2 DEF AddressTypes
  <2> HIDE DEF to
  <2>5. /\ cs' \in CsType /\ cs'.addr = to /\ cs'.first = given
        /\ cs'.execCount = 0
    BY <2>2, <2>3, <2>4, NewAddress
  <2> QED
    BY <2>1, <2>4, <2>5 DEF AddressTypes, AddressInv, Busy
<1>9. CASE SeesDone
  BY <1>9, OriginTyped DEF SeesDone, AddressTypes, AddressInv, Busy
<1>10. CASE Reset
  BY <1>10, OriginTyped, CsAssumption
     DEF Reset, ResetRegs, AddressTypes, AddressInv, Busy, CsType
<1>11. ASSUME NEW fs \in Tapes, NEW p \in BOOLEAN, InsertTape(fs, p)
       PROVE  IInv'
  BY <1>11 DEF InsertTape, AddressTypes, AddressInv, Busy
<1>12. CASE UNCHANGED allVars
  BY <1>12 DEF allVars, AddressTypes, AddressInv, Busy
<1> QED
  BY <1>1, <1>2, <1>3, <1>4, <1>5, <1>6, <1>7, <1>8, <1>9, <1>10, <1>11, <1>12
  DEF HostNext

LEMMA Inductive == HostSpec => []IInv
<1> QED
  BY InitIInv, StepIInv, PTL DEF HostSpec

(* Between two commands the controller has the address that the driver     *)
(* means: AddrHigh, AddrLow and command 8001 of cs_write_word, the chain   *)
(* of cs_processContinue and cs_pulse_reset in any order.                  *)
THEOREM AddressesKept == HostSpec => []AddressInv
<1>1. IInv => AddressInv
  BY DEF IInv
<1> QED
  BY <1>1, Inductive, PTL

(* cs_processContinue executes the block that the driver means, and writes *)
(* its status back there and nowhere else.                                 *)
THEOREM RightBlock == HostSpec => []OnItsIopb
<1>1. IInv => OnItsIopb
  BY DEF IInv, AddressInv, OnItsIopb
<1> QED
  BY <1>1, Inductive, PTL

-----------------------------------------------------------------------------
(* The state between two commands: no number is missing between the k      *)
(* files of the tape, and the drive is where its mode has brought it.  A   *)
(* file is open for writing only at the end of the tape; the driver writes *)
(* on there, in the empty file behind the last mark, or at the start of a  *)
(* tape.                                                                   *)
Modes == {"bot", "reading", "writing"}
Placed(d, t, m, k) ==
  /\ k \in Nat /\ t \in [0 .. k - 1 -> Seq(Blocks)]
  /\ d \in DriveType
  /\ d.fileNo <= k
  /\ d.openR => m = "reading" /\ d.fileNo < k /\ d.remaining <= Len(t[d.fileNo])
  /\ d.openW => m = "writing" /\ d.fileNo = k - 1
  /\ m = "bot" => d.fileNo = 0
  /\ m = "writing" => \/ d.openW
                      \/ d.fileNo \in {0, k}
                      \/ d.fileNo = k - 1 /\ t[d.fileNo] = <<>>

(* And while a tape is written, its blocks are counted: what every command *)
(* leaves as it was.                                                       *)
Sound(d, t, m) ==
  /\ \E k : Placed(d, t, m, k)
  /\ m = "writing" => d.onTape = CountBlocks(t)

(* The invariant: a command is executed only as it suits that state.       *)
TapeSound ==
  /\ Sound(drive, tape, mode)
  /\ mode \in Modes
  /\ Busy(cs) => iopb \in Iopbs /\ Suits(iopb, mode)

-----------------------------------------------------------------------------
(* Tapes without a missing number: how many files and blocks they have.    *)
LEMMA MinIs ==
  ASSUME NEW S, S \subseteq Int, NEW m \in S, \A y \in S : m <= y
  PROVE  Min(S) = m
<1>1. \A x \in S : (\A y \in S : x <= y) => x = m
  OBVIOUS
<1>2. Min(S) \in S /\ \A y \in S : Min(S) <= y
  BY DEF Min
<1> QED
  BY <1>1, <1>2

LEMMA MissingIs ==
  ASSUME NEW k \in Nat, NEW t \in [0 .. k - 1 -> Seq(Blocks)], NEW n \in 0 .. k
  PROVE  Missing(t, n) = k
<1> DEFINE S == {m \in n .. n + Cardinality(DOMAIN t) : ~Exists(t, m)}
<1>1. Cardinality(DOMAIN t) = k
  BY FS_Interval
<1>2. S = k .. n + k
  BY <1>1 DEF Exists
<1>3. Min(k .. n + k) = k
  <2> DEFINE T == k .. n + k
  <2>1. T \subseteq Int /\ k \in T /\ \A y \in T : k <= y
    OBVIOUS
  <2> HIDE DEF T
  <2>2. Min(T) = k
    BY <2>1, MinIs
  <2> QED
    BY <2>2 DEF T
<1> QED
  BY <1>2, <1>3 DEF Missing

LEMMA NoneMissing ==
  ASSUME NEW k \in Nat, NEW t \in [0 .. k - 1 -> Seq(Blocks)]
  PROVE  Missing(t, 0) = k
  BY MissingIs

LEMMA RecordedHas ==
  ASSUME NEW k \in Nat, NEW t \in [0 .. k - 1 -> Seq(Blocks)]
  PROVE  /\ Recorded(t) \subseteq Nat \X Nat
         /\ \A n \in Nat, i \in Nat :
              <<n, i>> \in Recorded(t) <=> n \in 0 .. k - 1 /\ i \in 1 .. Len(t[n])
         /\ IsFiniteSet(Recorded(t))
<1> DEFINE g == [n \in 0 .. k - 1 |-> {n} \X DOMAIN t[n]]
<1>1. Recorded(t) = UNION {{n} \X DOMAIN t[n] : n \in 0 .. k - 1}
  BY NoneMissing DEF Recorded
<1>2. \A n \in 0 .. k - 1 : t[n] \in Seq(Blocks) /\ DOMAIN t[n] = 1 .. Len(t[n])
                            /\ Len(t[n]) \in Nat
  OBVIOUS
<1>3. Recorded(t) \subseteq Nat \X Nat
  BY <1>1, <1>2
<1>4. ASSUME NEW n \in Nat, NEW i \in Nat
      PROVE  <<n, i>> \in Recorded(t) <=> n \in 0 .. k - 1 /\ i \in 1 .. Len(t[n])
  BY <1>1, <1>2
<1>5. IsFiniteSet(Recorded(t))
  <2>1. g \in Surjection(0 .. k - 1, Range(g))
    <3>1. g \in [0 .. k - 1 -> {g[n] : n \in 0 .. k - 1}]
      OBVIOUS
    <3> HIDE DEF g
    <3> QED
      BY <3>1, Fun_RangeProperties
  <2>2. IsFiniteSet(0 .. k - 1)
    BY FS_Interval
  <2>3. IsFiniteSet(Range(g))
    BY <2>1, <2>2, FS_Surjection
  <2>4. ASSUME NEW T \in Range(g)
        PROVE  IsFiniteSet(T)
    <3>1. PICK n \in 0 .. k - 1 : T = {n} \X DOMAIN t[n]
      BY DEF Range
    <3>2. IsFiniteSet({n})
      BY FS_Singleton
    <3>3. IsFiniteSet(DOMAIN t[n])
      <4>1. DOMAIN t[n] = 1 .. Len(t[n]) /\ Len(t[n]) \in Int
        BY <1>2
      <4>2. IsFiniteSet(1 .. Len(t[n]))
        BY <4>1, FS_Interval
      <4> QED
        BY <4>1, <4>2
    <3> DEFINE S == {n}
               U == DOMAIN t[n]
    <3> HIDE DEF S, U
    <3>4. IsFiniteSet(S \X U)
      BY <3>2, <3>3, FS_Product DEF S, U
    <3> QED
      BY <3>1, <3>4 DEF S, U
  <2>5. IsFiniteSet(UNION Range(g))
    BY <2>3, <2>4, FS_UNION
  <2>6. UNION Range(g) = Recorded(t)
    BY <1>1 DEF Range
  <2> QED
    BY <2>5, <2>6
<1> QED
  BY <1>3, <1>4, <1>5

LEMMA CountedBlocks ==
  ASSUME NEW k \in Nat, NEW t \in [0 .. k - 1 -> Seq(Blocks)]
  PROVE  CountBlocks(t) \in Nat
  BY RecordedHas, FS_CardinalityType DEF CountBlocks

LEMMA NothingRecorded ==
  ASSUME NEW t \in [0 .. 0 - 1 -> Seq(Blocks)]
  PROVE  Missing(t, 0) = 0 /\ CountBlocks(t) = 0 /\ FilesOf(t) = <<>>
<1>1. 0 \in Nat /\ Missing(t, 0) = 0
  BY NoneMissing
<1>2. Recorded(t) = {}
  BY <1>1 DEF Recorded
<1> QED
  BY <1>1, <1>2, FS_EmptySet DEF CountBlocks, FilesOf

(* A file that grows by n blocks at its end, or a new one of n blocks.     *)
Longer(t, k, u, j, f, a, n) ==
  /\ k \in Nat /\ t \in [0 .. k - 1 -> Seq(Blocks)]
  /\ j \in Nat /\ u \in [0 .. j - 1 -> Seq(Blocks)]
  /\ f \in 0 .. j - 1 /\ (j = k \/ (j = k + 1 /\ f = k))
  /\ \A i \in 0 .. j - 1 : i # f => u[i] = t[i]
  /\ a \in Nat /\ a = (IF f < k THEN Len(t[f]) ELSE 0)
  /\ n \in Nat /\ Len(u[f]) = a + n

LEMMA MoreBlocks ==
  ASSUME NEW t, NEW k, NEW u, NEW j, NEW f, NEW a, NEW n,
         Longer(t, k, u, j, f, a, n)
  PROVE  CountBlocks(u) = CountBlocks(t) + n
<1> USE DEF Longer
<1> DEFINE new == {f} \X (a + 1 .. a + n)
<1>1. Recorded(u) = Recorded(t) \cup new
  <2>1. ASSUME NEW p \in Nat, NEW i \in Nat
        PROVE  <<p, i>> \in Recorded(u) <=> <<p, i>> \in Recorded(t) \cup new
    <3>1. <<p, i>> \in new <=> p = f /\ i \in a + 1 .. a + n
      OBVIOUS
    <3>2. <<p, i>> \in Recorded(t) <=> p \in 0 .. k - 1 /\ i \in 1 .. Len(t[p])
      BY RecordedHas
    <3>3. <<p, i>> \in Recorded(u) <=> p \in 0 .. j - 1 /\ i \in 1 .. Len(u[p])
      BY RecordedHas
    <3> HIDE DEF new
    <3>4. CASE p = f
      BY <3>1, <3>2, <3>3, <3>4
    <3>5. CASE p # f
      BY <3>1, <3>2, <3>3, <3>5
    <3> QED
      BY <3>4, <3>5
  <2>2. new \subseteq Nat \X Nat
    OBVIOUS
  <2>3. Recorded(u) \subseteq Nat \X Nat /\ Recorded(t) \subseteq Nat \X Nat
    BY RecordedHas
  <2> HIDE DEF new
  <2> QED
    BY <2>1, <2>2, <2>3
<1>2. Recorded(t) \cap new = {}
  <2>1. ASSUME NEW i \in a + 1 .. a + n, <<f, i>> \in Recorded(t)
        PROVE  FALSE
    <3>1. f \in Nat /\ i \in Nat
      OBVIOUS
    <3>2. f \in 0 .. k - 1 /\ i \in 1 .. Len(t[f])
      BY <2>1, <3>1, RecordedHas
    <3> QED
      BY <3>2
  <2> QED
    BY <2>1
<1>3. IsFiniteSet(new) /\ Cardinality(new) = n
  <2>1. IsFiniteSet({f}) /\ Cardinality({f}) = 1
    BY FS_Singleton
  <2> DEFINE T == {f}
             U == a + 1 .. a + n
  <2>2. IsFiniteSet(U) /\ Cardinality(U) = n
    <3>1. a + 1 \in Int /\ a + n \in Int
      OBVIOUS
    <3>2. IsFiniteSet(U) /\ Cardinality(U) =
            IF a + 1 > a + n THEN 0 ELSE (a + n) - (a + 1) + 1
      BY <3>1, FS_Interval
    <3> HIDE DEF U
    <3> QED
      BY <3>2
  <2> HIDE DEF T, U
  <2>3. IsFiniteSet(T \X U) /\ Cardinality(T \X U) = 1 * n
    <3>1. /\ IsFiniteSet(T \X U)
          /\ Cardinality(T \X U) = Cardinality(T) * Cardinality(U)
      BY <2>1, <2>2, FS_Product DEF T
    <3> QED
      BY <2>1, <2>2, <3>1 DEF T
  <2> QED
    BY <2>3 DEF T, U
<1>4. IsFiniteSet(Recorded(t)) /\ Cardinality(Recorded(t)) \in Nat
  BY RecordedHas, FS_CardinalityType
<1> HIDE DEF new
<1>5. Cardinality(Recorded(u)) = Cardinality(Recorded(t)) + n
  <2>1. Cardinality(Recorded(t) \cup new)
          = Cardinality(Recorded(t)) + Cardinality(new)
            - Cardinality(Recorded(t) \cap new)
    BY <1>3, <1>4, FS_Union
  <2>2. Cardinality(Recorded(t) \cap new) = 0
    BY <1>2, FS_EmptySet
  <2> QED
    BY <1>1, <1>3, <1>4, <2>1, <2>2
<1> QED
  BY <1>4, <1>5 DEF CountBlocks

-----------------------------------------------------------------------------
(* The files behind a directory, and one of them written.                  *)
LEMMA FilesAre ==
  ASSUME NEW k \in Nat, NEW t \in [0 .. k - 1 -> Seq(Blocks)]
  PROVE  /\ FilesOf(t) \in Seq(Seq(Blocks)) /\ Len(FilesOf(t)) = k
         /\ \A i \in 1 .. k : FilesOf(t)[i] = t[i - 1]
<1>1. FilesOf(t) = [i \in 1 .. k |-> t[i - 1]]
  BY NoneMissing DEF FilesOf
<1>2. \A i \in 1 .. k : t[i - 1] \in Seq(Blocks)
  OBVIOUS
<1> QED
  BY <1>1, <1>2

(* How much is on a tape, counted in its files and in its directory.       *)
AmountOf(fs) == Cardinality(UNION {{i} \X DOMAIN fs[i] : i \in 1 .. Len(fs)})

LEMMA AmountIs ==
  ASSUME NEW k \in Nat, NEW t \in [0 .. k - 1 -> Seq(Blocks)]
  PROVE  AmountOf(FilesOf(t)) = CountBlocks(t)
<1> DEFINE fs == FilesOf(t)
           S  == Recorded(t)
           T  == UNION {{i} \X DOMAIN fs[i] : i \in 1 .. Len(fs)}
           g  == [p \in S |-> <<p[1] + 1, p[2]>>]
<1>1. /\ fs \in Seq(Seq(Blocks)) /\ Len(fs) = k
      /\ \A i \in 1 .. k : fs[i] = t[i - 1]
  BY FilesAre
<1>2. /\ S \subseteq Nat \X Nat /\ IsFiniteSet(S)
      /\ \A n \in Nat, i \in Nat :
           <<n, i>> \in S <=> n \in 0 .. k - 1 /\ i \in 1 .. Len(t[n])
  BY RecordedHas
<1> HIDE DEF fs, S
<1>3. ASSUME NEW q
      PROVE  q \in T <=> \E n \in 0 .. k - 1 : \E i \in 1 .. Len(t[n]) : q = <<n + 1, i>>
  <2>1. q \in T <=> \E j \in 1 .. k : \E i \in DOMAIN fs[j] : q = <<j, i>>
    BY <1>1
  <2>2. \A j \in 1 .. k : fs[j] = t[j - 1] /\ t[j - 1] \in Seq(Blocks)
    BY <1>1
  <2>3. \A j \in 1 .. k : DOMAIN fs[j] = 1 .. Len(t[j - 1])
    <3>1. \A u \in Seq(Blocks) : DOMAIN u = 1 .. Len(u)
      OBVIOUS
    <3> QED
      BY <2>2, <3>1
  <2>4. /\ \A j \in 1 .. k : j - 1 \in 0 .. k - 1 /\ (j - 1) + 1 = j
        /\ \A n \in 0 .. k - 1 : n + 1 \in 1 .. k /\ (n + 1) - 1 = n
    OBVIOUS
  <2> HIDE DEF T
  <2> QED
    BY <2>1, <2>3, <2>4
<1> HIDE DEF T
<1>4. \A p \in S : \E n \in 0 .. k - 1 : \E i \in 1 .. Len(t[n]) :
        p = <<n, i>> /\ g[p] = <<n + 1, i>>
  <2>1. ASSUME NEW p \in S
        PROVE  \E n \in Nat, i \in Nat : p = <<n, i>>
    BY <1>2
  <2> QED
    BY <1>2, <2>1
<1>5. g \in [S -> T]
  BY <1>3, <1>4
<1>6. \A p, q \in S : g[p] = g[q] => p = q
  <2>1. ASSUME NEW p \in S, NEW q \in S, g[p] = g[q]
        PROVE  p = q
    <3>1. PICK n \in 0 .. k - 1 : \E i \in 1 .. Len(t[n]) :
            p = <<n, i>> /\ g[p] = <<n + 1, i>>
      BY <1>4
    <3>2. PICK m \in 0 .. k - 1 : \E i \in 1 .. Len(t[m]) :
            q = <<m, i>> /\ g[q] = <<m + 1, i>>
      BY <1>4
    <3>3. n + 1 = m + 1 => n = m
      OBVIOUS
    <3> HIDE DEF g
    <3> QED
      BY <2>1, <3>1, <3>2, <3>3
  <2> QED
    BY <2>1
<1>7. \A q \in T : \E p \in S : g[p] = q
  <2>1. ASSUME NEW n \in 0 .. k - 1, NEW i \in 1 .. Len(t[n])
        PROVE  \E p \in S : g[p] = <<n + 1, i>>
    <3>1. n \in Nat /\ i \in Nat
      OBVIOUS
    <3>2. <<n, i>> \in S
      BY <1>2, <3>1
    <3>3. g[<<n, i>>] = <<n + 1, i>>
      BY <3>2
    <3> QED
      BY <3>2, <3>3
  <2> HIDE DEF g
  <2>2. ASSUME NEW q \in T
        PROVE  \E p \in S : g[p] = q
    <3>1. PICK n \in 0 .. k - 1 : \E i \in 1 .. Len(t[n]) : q = <<n + 1, i>>
      BY <1>3
    <3>2. PICK i \in 1 .. Len(t[n]) : q = <<n + 1, i>>
      BY <3>1
    <3> QED
      BY <2>1, <3>2
  <2> QED
    BY <2>2
<1> HIDE DEF g
<1>8. ExistsBijection(S, T)
  <2>1. g \in Bijection(S, T)
    BY <1>5, <1>6, <1>7, Fun_IsBij
  <2> QED
    BY <2>1 DEF ExistsBijection
<1>9. Cardinality(T) = Cardinality(S)
  BY <1>2, <1>8, FS_Bijection
<1> QED
  BY <1>9 DEF AmountOf, CountBlocks, S, T, fs

LEMMA NoAmount == AmountOf(<<>>) = 0
<1>1. UNION {{i} \X DOMAIN <<>>[i] : i \in 1 .. Len(<<>>)} = {}
  OBVIOUS
<1> QED
  BY <1>1, FS_EmptySet DEF AmountOf

LEMMA SameFiles ==
  ASSUME NEW S, NEW s \in Seq(S), NEW u \in Seq(S), Len(s) = Len(u),
         \A i \in 1 .. Len(s) : s[i] = u[i]
  PROVE  s = u
  BY SeqEqual

(* The tape u is t of k files with the data at the end of the file f.      *)
Grown(t, k, u, f, data) ==
  /\ u \in [0 .. f -> Seq(Blocks)]
  /\ \A n \in 0 .. f - 1 : u[n] = t[n]
  /\ u[f] = IF f < k THEN t[f] \o data ELSE data
GrownFiles(fs, f, data) ==
  IF f > Len(fs) THEN Append(fs, data) ELSE [fs EXCEPT ![f] = @ \o data]

LEMMA GrownTape ==
  ASSUME NEW k \in Nat, NEW t \in [0 .. k - 1 -> Seq(Blocks)],
         NEW f \in Nat, f = k \/ f = k - 1, NEW data \in Seq(Blocks),
         NEW u, Grown(t, k, u, f, data)
  PROVE  /\ u \in [0 .. (f + 1) - 1 -> Seq(Blocks)]
         /\ Missing(u, 0) = f + 1
         /\ FilesOf(u) = GrownFiles(FilesOf(t), f + 1, data)
         /\ CountBlocks(u) = CountBlocks(t) + Len(data)
<1> DEFINE fs == FilesOf(t)
           us == FilesOf(u)
           gs == GrownFiles(fs, f + 1, data)
<1>1. u \in [0 .. (f + 1) - 1 -> Seq(Blocks)] /\ f + 1 \in Nat
  BY DEF Grown
<1>2. /\ fs \in Seq(Seq(Blocks)) /\ Len(fs) = k
      /\ \A i \in 1 .. k : fs[i] = t[i - 1]
  BY FilesAre
<1>3. /\ us \in Seq(Seq(Blocks)) /\ Len(us) = f + 1
      /\ \A i \in 1 .. f + 1 : us[i] = u[i - 1]
  BY <1>1, FilesAre
<1>4. Missing(u, 0) = f + 1
  BY <1>1, NoneMissing
<1> HIDE DEF fs, us
<1>5. CASE f = k
  <2>1. u[f] = data /\ gs = Append(fs, data)
    BY <1>2, <1>5 DEF Grown, GrownFiles
  <2>2. /\ gs \in Seq(Seq(Blocks)) /\ Len(gs) = f + 1
        /\ \A i \in 1 .. k : gs[i] = fs[i]
        /\ gs[f + 1] = data
    <3>1. /\ Append(fs, data) \in Seq(Seq(Blocks))
          /\ Len(Append(fs, data)) = Len(fs) + 1
          /\ \A i \in 1 .. Len(fs) : Append(fs, data)[i] = fs[i]
          /\ Append(fs, data)[Len(fs) + 1] = data
      BY <1>2, AppendProperties
    <3> HIDE DEF gs
    <3> QED
      BY <1>2, <1>5, <2>1, <3>1
  <2> HIDE DEF gs
  <2>3. ASSUME NEW i \in 1 .. f + 1
        PROVE  us[i] = gs[i]
    <3>1. CASE i = f + 1
      BY <1>3, <2>1, <2>2, <3>1
    <3>2. CASE i # f + 1
      <4>1. i \in 1 .. k /\ i - 1 \in 0 .. f - 1
        BY <1>5, <3>2
      <4> QED
        BY <1>2, <1>3, <2>2, <4>1 DEF Grown
    <3> QED
      BY <3>1, <3>2
  <2>4. us = gs
    BY <1>3, <2>2, <2>3, SameFiles
  <2>5. CountBlocks(u) = CountBlocks(t) + Len(data)
    <3>1. \A i \in 0 .. (f + 1) - 1 : i # f => u[i] = t[i]
      BY DEF Grown
    <3>2. f \in 0 .. (f + 1) - 1 /\ Len(data) \in Nat /\ 0 \in Nat
          /\ Len(u[f]) = 0 + Len(data)
      BY <2>1
    <3> DEFINE j == f + 1
    <3>3. /\ j \in Nat /\ u \in [0 .. j - 1 -> Seq(Blocks)] /\ f \in 0 .. j - 1
          /\ j = k + 1 /\ \A i \in 0 .. j - 1 : i # f => u[i] = t[i]
      BY <1>1, <1>5, <3>1, <3>2
    <3> HIDE DEF j
    <3>4. 0 = IF f < k THEN Len(t[f]) ELSE 0
      BY <1>5
    <3>5. Longer(t, k, u, j, f, 0, Len(data))
      BY <1>5, <3>2, <3>3, <3>4 DEF Longer
    <3> QED
      BY <3>5, MoreBlocks
  <2> QED
    BY <1>1, <1>4, <2>4, <2>5 DEF fs, us, gs
<1>6. CASE f = k - 1
  <2>1. /\ u[f] = t[f] \o data /\ t[f] \in Seq(Blocks)
        /\ gs = [fs EXCEPT ![f + 1] = fs[f + 1] \o data]
    BY <1>2, <1>6 DEF Grown, GrownFiles
  <2>2. fs[f + 1] = t[f]
    BY <1>2, <1>6
  <2>3. u[f] \in Seq(Blocks)
    BY <1>1
  <2>4. /\ gs \in Seq(Seq(Blocks)) /\ Len(gs) = f + 1
        /\ \A i \in 1 .. f : gs[i] = fs[i]
        /\ gs[f + 1] = u[f]
    <3>1. gs = [fs EXCEPT ![f + 1] = u[f]]
      BY <2>1, <2>2
    <3>2. f + 1 \in 1 .. Len(fs)
      BY <1>2, <1>6
    <3> HIDE DEF gs
    <3>3. /\ gs \in Seq(Seq(Blocks)) /\ Len(gs) = Len(fs)
          /\ \A i \in 1 .. Len(fs) : gs[i] = IF i = f + 1 THEN u[f] ELSE fs[i]
      BY <1>2, <2>3, <3>1, <3>2, ExceptSeq
    <3> QED
      BY <1>2, <1>6, <3>2, <3>3
  <2> HIDE DEF gs
  <2>5. ASSUME NEW i \in 1 .. f + 1
        PROVE  us[i] = gs[i]
    <3>1. CASE i = f + 1
      BY <1>3, <2>4, <3>1
    <3>2. CASE i # f + 1
      <4>1. i \in 1 .. k /\ i \in 1 .. f /\ i - 1 \in 0 .. f - 1
        BY <1>6, <3>2
      <4> QED
        BY <1>2, <1>3, <2>4, <4>1 DEF Grown
    <3> QED
      BY <3>1, <3>2
  <2>6. us = gs
    BY <1>3, <2>4, <2>5, SameFiles
  <2>7. CountBlocks(u) = CountBlocks(t) + Len(data)
    <3>1. \A i \in 0 .. (f + 1) - 1 : i # f => u[i] = t[i]
      BY DEF Grown
    <3>2. Len(t[f] \o data) = Len(t[f]) + Len(data)
      BY <2>1, ConcatProperties
    <3>3. f \in 0 .. (f + 1) - 1 /\ Len(data) \in Nat /\ Len(t[f]) \in Nat
          /\ Len(u[f]) = Len(t[f]) + Len(data) /\ f < k /\ f + 1 = k
      BY <1>6, <2>1, <3>2
    <3> DEFINE j == f + 1
               a == Len(t[f])
    <3>4. /\ j \in Nat /\ u \in [0 .. j - 1 -> Seq(Blocks)] /\ f \in 0 .. j - 1
          /\ j = k /\ \A i \in 0 .. j - 1 : i # f => u[i] = t[i]
          /\ a \in Nat /\ a = (IF f < k THEN Len(t[f]) ELSE 0)
          /\ Len(data) \in Nat /\ Len(u[f]) = a + Len(data)
      BY <1>1, <3>1, <3>3
    <3> HIDE DEF j, a
    <3>5. Longer(t, k, u, j, f, a, Len(data))
      BY <3>4 DEF Longer
    <3> QED
      BY <3>5, MoreBlocks
  <2> QED
    BY <1>1, <1>4, <2>6, <2>7 DEF fs, us, gs
<1> QED
  BY <1>5, <1>6

(* What TapeWrite does to the directory.                                   *)
LEMMA OpensFile ==
  ASSUME NEW k \in Nat, NEW t \in [0 .. k - 1 -> Seq(Blocks)],
         NEW f \in Nat, NEW open \in BOOLEAN, NEW data \in Seq(Blocks),
         \/ open /\ f = k - 1
         \/ f = k
         \/ f = k - 1 /\ t[f] = <<>>
  PROVE  ~(open /\ f = k) =>
         Grown(t, k, [(IF open THEN t ELSE Created(t, f))
                      EXCEPT ![f] = @ \o data], f, data)
<1> SUFFICES ASSUME ~(open /\ f = k)
             PROVE  Grown(t, k, [(IF open THEN t ELSE Created(t, f))
                                 EXCEPT ![f] = @ \o data], f, data)
  OBVIOUS
<1> DEFINE t1 == IF open THEN t ELSE Created(t, f)
<1>0. <<>> \in Seq(Blocks) /\ <<>> \o data = data
  BY ConcatEmptySeq
<1>1. /\ t1 \in [0 .. f -> Seq(Blocks)]
      /\ \A n \in 0 .. f - 1 : t1[n] = t[n]
      /\ t1[f] = IF f < k THEN t[f] ELSE <<>>
  <2>1. CASE open
    BY <2>1
  <2>2. CASE ~open
    <3>1. t1 = [x \in (0 .. k - 1) \cup {f} |-> IF x = f THEN <<>> ELSE t[x]]
      BY <2>2 DEF Created
    <3>2. (0 .. k - 1) \cup {f} = 0 .. f
      OBVIOUS
    <3>3. \A x \in 0 .. f : x # f => x \in 0 .. k - 1
      OBVIOUS
    <3> HIDE DEF t1
    <3> QED
      BY <1>0, <2>2, <3>1, <3>2, <3>3
  <2> QED
    BY <2>1, <2>2
<1> HIDE DEF t1
<1>2. t1[f] \o data \in Seq(Blocks)
  BY <1>1, ConcatProperties
<1>3. [t1 EXCEPT ![f] = @ \o data] = [t1 EXCEPT ![f] = t1[f] \o data]
  BY <1>1
<1>4. t1[f] \o data = IF f < k THEN t[f] \o data ELSE data
  BY <1>0, <1>1
<1>5. Grown(t, k, [t1 EXCEPT ![f] = t1[f] \o data], f, data)
  <2> DEFINE v == t1[f] \o data
             w == IF f < k THEN t[f] \o data ELSE data
  <2>1. v \in Seq(Blocks) /\ v = w
    BY <1>2, <1>4
  <2> HIDE DEF v
  <2>2. Grown(t, k, [t1 EXCEPT ![f] = v], f, data) <=>
          /\ [t1 EXCEPT ![f] = v] \in [0 .. f -> Seq(Blocks)]
          /\ \A n \in 0 .. f - 1 : [t1 EXCEPT ![f] = v][n] = t[n]
          /\ [t1 EXCEPT ![f] = v][f] = w
    BY DEF Grown
  <2> HIDE DEF w
  <2>3. Grown(t, k, [t1 EXCEPT ![f] = v], f, data)
    BY <1>1, <2>1, <2>2
  <2> QED
    BY <2>3 DEF v
<1> QED
  BY <1>3, <1>5 DEF t1

(* A drive that may write: closed at the end of the tape or at an empty    *)
(* last file, or with the last file open.                                  *)
ReadyToWrite(d, t, k) ==
  /\ k \in Nat /\ t \in [0 .. k - 1 -> Seq(Blocks)]
  /\ d \in DriveType /\ ~d.openR
  /\ d.openW => d.fileNo = k - 1
  /\ ~d.openW => d.fileNo = k \/ (d.fileNo = k - 1 /\ t[d.fileNo] = <<>>)

IopbOK(b) ==
  /\ b.op \in Commands /\ b.count \in Nat
  /\ b.badLen \in BOOLEAN /\ b.filemarks \in BOOLEAN
  /\ b.data \in Seq(Blocks)

(* The drive's record with other fields.                                   *)
LEMMA ClosedDrive ==
  ASSUME NEW d \in DriveType
  PROVE  /\ Closed(d) \in DriveType
         /\ Closed(d).openR = FALSE /\ Closed(d).openW = FALSE
         /\ Closed(d).fileNo = d.fileNo /\ Closed(d).onTape = d.onTape
         /\ Closed(d).readonly = d.readonly /\ Closed(d).remaining = d.remaining
  BY DEF DriveType, Closed

LEMMA DriveAtFile ==
  ASSUME NEW d \in DriveType, NEW n \in Nat
  PROVE  LET e == [Closed(d) EXCEPT !.fileNo = n]
         IN /\ e \in DriveType
            /\ e.openR = FALSE /\ e.openW = FALSE
            /\ e.fileNo = n /\ e.onTape = d.onTape
<1> DEFINE c == Closed(d)
<1>1. /\ c \in DriveType /\ c.openR = FALSE /\ c.openW = FALSE
      /\ c.onTape = d.onTape
  BY ClosedDrive
<1> HIDE DEF c
<1>2. LET e == [c EXCEPT !.fileNo = n]
      IN /\ e \in DriveType
         /\ e.openR = FALSE /\ e.openW = FALSE
         /\ e.fileNo = n /\ e.onTape = d.onTape
  BY <1>1 DEF DriveType
<1> QED
  BY <1>2 DEF c

(* What a write that is complete leaves behind.                            *)
WroteOK(d, t, b, r) ==
  LET f  == d.fileNo
      gs == GrownFiles(FilesOf(t), f + 1, b.data)
  IN /\ r.status = "COMPLETE" /\ r.data = <<>>
     /\ \E j : Placed(r.drive, r.tape, "writing", j)
     /\ r.drive.onTape = d.onTape + Len(b.data)
     /\ CountBlocks(r.tape) = CountBlocks(t) + Len(b.data)
     /\ \/ FilesOf(r.tape) = gs
        \/ b.filemarks /\ FilesOf(r.tape) = Append(gs, <<>>)
     /\ HeadOf(r.drive, r.tape) =
          IF b.filemarks THEN [file |-> f + 2, block |-> 0]
          ELSE [file |-> f + 1, block |-> Len(gs[f + 1])]

LEMMA WritesFile ==
  ASSUME NEW d, NEW t, NEW k, ReadyToWrite(d, t, k), NEW b, IopbOK(b)
  PROVE  /\ Grown(t, k, [(IF d.openW THEN t ELSE Created(t, d.fileNo))
                         EXCEPT ![d.fileNo] = @ \o b.data], d.fileNo, b.data)
         /\ d.fileNo \in Nat /\ k \in Nat /\ t \in [0 .. k - 1 -> Seq(Blocks)]
         /\ d.fileNo = k \/ d.fileNo = k - 1
<1>1. /\ d.fileNo \in Nat /\ d.openW \in BOOLEAN /\ b.data \in Seq(Blocks)
      /\ k \in Nat /\ t \in [0 .. k - 1 -> Seq(Blocks)]
      /\ \/ d.openW /\ d.fileNo = k - 1
         \/ d.fileNo = k
         \/ d.fileNo = k - 1 /\ t[d.fileNo] = <<>>
      /\ ~(d.openW /\ d.fileNo = k)
  BY DEF ReadyToWrite, DriveType, IopbOK
<1> QED
  BY <1>1, OpensFile

LEMMA TapeWriteGives ==
  ASSUME NEW d, NEW t, NEW k, ReadyToWrite(d, t, k), NEW b, IopbOK(b),
         NEW r \in TapeWrite(d, t, b)
  PROVE  \/ ~d.openW /\ r = Outcome(d, t, "TAPERROR")
         \/ WroteOK(d, t, b, r)
<1> DEFINE f == d.fileNo
           data == b.data
           u == [(IF d.openW THEN t ELSE Created(t, f)) EXCEPT ![f] = @ \o data]
           d2 == [d EXCEPT !.openW = TRUE, !.onTape = @ + Len(data)]
           gs == GrownFiles(FilesOf(t), f + 1, data)
<1>1. /\ f \in Nat /\ k \in Nat /\ t \in [0 .. k - 1 -> Seq(Blocks)]
      /\ f = k \/ f = k - 1
      /\ data \in Seq(Blocks) /\ Len(data) \in Nat
      /\ b.filemarks \in BOOLEAN /\ d \in DriveType /\ ~d.openR
  <2>1. /\ f \in Nat /\ k \in Nat /\ t \in [0 .. k - 1 -> Seq(Blocks)]
        /\ f = k \/ f = k - 1
    BY WritesFile
  <2> QED
    BY <2>1 DEF ReadyToWrite, IopbOK
<1>2. Grown(t, k, u, f, data)
  BY WritesFile
<1>3. \/ ~d.openW /\ r = Outcome(d, t, "TAPERROR")
      \/ ~b.filemarks /\ r = Outcome(d2, u, "COMPLETE")
      \/ /\ b.filemarks
         /\ \E t3 \in {u, IF Exists(u, f + 1) THEN u ELSE Created(u, f + 1)} :
              r = Outcome([Closed(d2) EXCEPT !.fileNo = f + 1], t3, "COMPLETE")
  BY DEF TapeWrite
<1>4. /\ d2 \in DriveType /\ d2.fileNo = f /\ d2.openR = FALSE /\ d2.openW = TRUE
      /\ d2.onTape = d.onTape + Len(data)
  <2> DEFINE n == d.onTape + Len(data)
  <2>1. d2 = [d EXCEPT !.openW = TRUE, !.onTape = n]
    BY <1>1 DEF DriveType
  <2>2. n \in Nat
    BY <1>1 DEF DriveType
  <2> HIDE DEF n, d2
  <2>3. /\ d2 \in DriveType /\ d2.fileNo = f /\ d2.openR = d.openR
        /\ d2.openW = TRUE /\ d2.onTape = n
    BY <1>1, <2>1, <2>2 DEF DriveType
  <2> QED
    BY <1>1, <2>3 DEF n, DriveType
<1> DEFINE d3 == [Closed(d2) EXCEPT !.fileNo = f + 1]
<1>5. /\ d3 \in DriveType /\ d3.fileNo = f + 1 /\ d3.openR = FALSE
      /\ d3.openW = FALSE /\ d3.onTape = d.onTape + Len(data)
  <2> HIDE DEF d2
  <2>1. f + 1 \in Nat
    BY <1>1
  <2> QED
    BY <1>4, <2>1, DriveAtFile
<1> HIDE DEF u, d2, d3
<1>6. /\ u \in [0 .. (f + 1) - 1 -> Seq(Blocks)]
      /\ FilesOf(u) = gs /\ CountBlocks(u) = CountBlocks(t) + Len(data)
  <2> HIDE DEF data
  <2> QED
    BY <1>1, <1>2, GrownTape
<1> HIDE DEF gs
<1>7. ASSUME ~b.filemarks, r = Outcome(d2, u, "COMPLETE")
      PROVE  WroteOK(d, t, b, r)
  <2>1. r.drive = d2 /\ r.tape = u /\ r.status = "COMPLETE" /\ r.data = <<>>
    BY <1>7 DEF Outcome
  <2>2. f + 1 \in Nat /\ Placed(d2, u, "writing", f + 1)
    BY <1>1, <1>4, <1>6 DEF Placed
  <2>3. gs[f + 1] = u[f]
    <3>1. f + 1 \in Nat /\ f + 1 \in 1 .. f + 1 /\ (f + 1) - 1 = f
      BY <1>1
    <3>2. FilesOf(u)[f + 1] = u[(f + 1) - 1]
      BY <1>6, <3>1, FilesAre
    <3> QED
      BY <1>6, <3>1, <3>2
  <2>4. HeadOf(d2, u) = [file |-> f + 1, block |-> Len(gs[f + 1])]
    BY <1>4, <2>3 DEF HeadOf
  <2> QED
    BY <1>4, <1>6, <1>7, <2>1, <2>2, <2>4 DEF WroteOK, gs
<1>8. ASSUME b.filemarks,
             NEW t3, t3 = u \/ t3 = (IF Exists(u, f + 1) THEN u ELSE Created(u, f + 1)),
             r = Outcome(d3, t3, "COMPLETE")
      PROVE  WroteOK(d, t, b, r)
  <2>1. r.drive = d3 /\ r.tape = t3 /\ r.status = "COMPLETE" /\ r.data = <<>>
    BY <1>8 DEF Outcome
  <2>2. HeadOf(d3, t3) = [file |-> f + 2, block |-> 0]
    BY <1>1, <1>5 DEF HeadOf
  <2>3. CASE t3 = u
    <3>1. f + 1 \in Nat /\ Placed(d3, t3, "writing", f + 1)
      BY <1>1, <1>5, <1>6, <2>3 DEF Placed
    <3> QED
      BY <1>5, <1>6, <1>8, <2>1, <2>2, <2>3, <3>1 DEF WroteOK, gs
  <2>4. CASE t3 = Created(u, f + 1)
    <3> DEFINE g == f + 1
    <3>1. /\ g \in Nat /\ u \in [0 .. g - 1 -> Seq(Blocks)]
          /\ t3 = Created(u, g) /\ <<>> \in Seq(Blocks) /\ Len(<<>>) = 0
      BY <1>1, <1>6, <2>4
    <3> HIDE DEF g
    <3>2. t3 = [m \in (0 .. g - 1) \cup {g} |-> IF m = g THEN <<>> ELSE u[m]]
      BY <3>1 DEF Created
    <3>3. (0 .. g - 1) \cup {g} = 0 .. g /\ \A m \in 0 .. g : m # g => m \in 0 .. g - 1
      BY <3>1
    <3>4. Grown(u, g, t3, g, <<>>)
      BY <3>1, <3>2, <3>3 DEF Grown
    <3>5. /\ t3 \in [0 .. (g + 1) - 1 -> Seq(Blocks)]
          /\ FilesOf(t3) = GrownFiles(FilesOf(u), g + 1, <<>>)
          /\ CountBlocks(t3) = CountBlocks(u) + Len(<<>>)
      BY <3>1, <3>4, GrownTape
    <3>6. FilesOf(t3) = Append(gs, <<>>)
      <4>1. Len(FilesOf(u)) = g
        BY <3>1, FilesAre
      <4> QED
        BY <1>6, <3>1, <3>5, <4>1 DEF GrownFiles
    <3>7. CountBlocks(t3) = CountBlocks(t) + Len(data)
      <4>1. CountBlocks(u) \in Nat
        BY <3>1, CountedBlocks
      <4> QED
        BY <1>6, <3>1, <3>5, <4>1
    <3>8. g + 1 \in Nat /\ Placed(d3, t3, "writing", g + 1)
      <4>1. t3[g] = <<>>
        BY <3>2
      <4> QED
        BY <1>1, <1>5, <3>1, <3>5, <4>1 DEF Placed, g
    <3> QED
      BY <1>5, <1>8, <2>1, <2>2, <3>6, <3>7, <3>8 DEF WroteOK, gs
  <2> QED
    BY <1>8, <2>3, <2>4
<1> QED
  BY <1>3, <1>7, <1>8 DEF d3

-----------------------------------------------------------------------------
(* Reading and skipping.                                                   *)
LEMMA Cut ==
  ASSUME NEW S, NEW s \in Seq(S), NEW a \in Int, NEW e \in Int,
         1 <= a, e <= Len(s)
  PROVE  /\ SubSeq(s, a, e) \in Seq(S)
         /\ Len(SubSeq(s, a, e)) = IF a <= e THEN e - a + 1 ELSE 0
         /\ \A i \in 1 .. e - a + 1 : SubSeq(s, a, e)[i] = s[a + i - 1]
<1>1. \A i \in a .. e : s[i] \in S
  <2>1. \A i \in 1 .. Len(s) : s[i] \in S
    OBVIOUS
  <2>2. Len(s) \in Nat
    OBVIOUS
  <2> QED
    BY <2>1, <2>2
<1> QED
  BY <1>1, SubSeqProperties

LEMMA CutOfRest ==
  ASSUME NEW S, NEW s \in Seq(S), NEW a \in Nat, NEW n \in Nat, a + n <= Len(s)
  PROVE  /\ SubSeq(SubSeq(s, a + 1, Len(s)), 1, n) = SubSeq(s, a + 1, a + n)
         /\ Len(SubSeq(s, a + 1, Len(s))) = Len(s) - a
         /\ Len(SubSeq(s, a + 1, a + n)) = n
<1> DEFINE rest == SubSeq(s, a + 1, Len(s))
           cut  == SubSeq(s, a + 1, a + n)
<1>0. Len(s) \in Nat
  OBVIOUS
<1>1. /\ rest \in Seq(S) /\ Len(rest) = Len(s) - a
      /\ \A i \in 1 .. Len(s) - a : rest[i] = s[a + i]
  <2>1. /\ rest \in Seq(S)
        /\ Len(rest) = IF a + 1 <= Len(s) THEN Len(s) - (a + 1) + 1 ELSE 0
        /\ \A i \in 1 .. Len(s) - (a + 1) + 1 : rest[i] = s[(a + 1) + i - 1]
    <3>1. a + 1 \in Int /\ Len(s) \in Int /\ 1 <= a + 1 /\ Len(s) <= Len(s)
      BY <1>0
    <3> QED
      BY <3>1, Cut
  <2> HIDE DEF rest
  <2> QED
    BY <1>0, <2>1
<1>2. /\ cut \in Seq(S) /\ Len(cut) = n
      /\ \A i \in 1 .. n : cut[i] = s[a + i]
  <2>1. /\ cut \in Seq(S)
        /\ Len(cut) = IF a + 1 <= a + n THEN (a + n) - (a + 1) + 1 ELSE 0
        /\ \A i \in 1 .. (a + n) - (a + 1) + 1 : cut[i] = s[(a + 1) + i - 1]
    <3>1. a + 1 \in Int /\ a + n \in Int /\ 1 <= a + 1 /\ a + n <= Len(s)
      BY <1>0
    <3> QED
      BY <3>1, Cut
  <2> HIDE DEF cut
  <2> QED
    BY <1>0, <2>1
<1> HIDE DEF rest, cut
<1>3. /\ SubSeq(rest, 1, n) \in Seq(S) /\ Len(SubSeq(rest, 1, n)) = n
      /\ \A i \in 1 .. n : SubSeq(rest, 1, n)[i] = rest[i]
  <2>1. /\ SubSeq(rest, 1, n) \in Seq(S)
        /\ Len(SubSeq(rest, 1, n)) = IF 1 <= n THEN n - 1 + 1 ELSE 0
        /\ \A i \in 1 .. n - 1 + 1 : SubSeq(rest, 1, n)[i] = rest[1 + i - 1]
    <3>1. n <= Len(rest) /\ 1 \in Int /\ n \in Int /\ 1 <= 1
      BY <1>0, <1>1
    <3> QED
      BY <1>1, <3>1, Cut
  <2> QED
    BY <2>1
<1>4. \A i \in 1 .. n : SubSeq(rest, 1, n)[i] = cut[i]
  <2>1. \A i \in 1 .. n : i \in 1 .. Len(s) - a
    BY <1>0
  <2> QED
    BY <1>1, <1>2, <1>3, <2>1
<1>5. SubSeq(rest, 1, n) = cut
  BY <1>2, <1>3, <1>4, SameFiles
<1> QED
  BY <1>1, <1>2, <1>5 DEF rest, cut

LEMMA MinPair ==
  ASSUME NEW a \in Int, NEW b \in Int
  PROVE  Min({a, b}) = IF a <= b THEN a ELSE b
<1> DEFINE S == {a, b}
           m == IF a <= b THEN a ELSE b
<1>1. S \subseteq Int /\ m \in S /\ \A y \in S : m <= y
  OBVIOUS
<1> HIDE DEF S, m
<1>2. Min(S) = m
  BY <1>1, MinIs
<1> QED
  BY <1>2 DEF S, m

(* What is ahead of the head, and a read of n blocks, as Tape has them.    *)
AheadOf(fs, hd) ==
  IF hd.file > Len(fs) THEN <<>>
  ELSE SubSeq(fs[hd.file], hd.block + 1, Len(fs[hd.file]))
ReadGives(fs, hd, n, r, to) ==
  /\ r.data = SubSeq(AheadOf(fs, hd), 1,
                     IF n < Len(AheadOf(fs, hd)) THEN n ELSE Len(AheadOf(fs, hd)))
  /\ Word(r.status) = IF Len(r.data) < Len(AheadOf(fs, hd)) THEN "ok"
                      ELSE IF hd.file < Len(fs) THEN "mark" ELSE "end"
  /\ to = IF Len(r.data) < Len(AheadOf(fs, hd))
          THEN [hd EXCEPT !.block = @ + Len(r.data)]
          ELSE IF hd.file > Len(fs) THEN hd
          ELSE [file |-> hd.file + 1, block |-> 0]

LEMMA TapeReadGives ==
  ASSUME NEW k, NEW t, NEW d, Placed(d, t, "reading", k), d.openR,
         NEW b, IopbOK(b)
  PROVE  LET r  == TapeRead(d, t, b)
             hd == [file |-> d.fileNo + 1, block |-> Len(t[d.fileNo]) - d.remaining]
         IN /\ Placed(r.drive, t, "reading", k) /\ r.tape = t
            /\ r.status \in {"COMPLETE", "FILENMARK", "READEOT"}
            /\ ReadGives(FilesOf(t), hd, b.count, r, HeadOf(r.drive, t))
<1> DEFINE f  == d.fileNo
           L  == Len(t[f])
           at == L - d.remaining
           n  == IF b.count <= d.remaining THEN b.count ELSE d.remaining
           d2 == [d EXCEPT !.remaining = @ - n]
           hd == [file |-> f + 1, block |-> at]
           A  == AheadOf(FilesOf(t), hd)
           r  == TapeRead(d, t, b)
<1>1. /\ k \in Nat /\ t \in [0 .. k - 1 -> Seq(Blocks)] /\ d \in DriveType
      /\ f \in Nat /\ f < k /\ d.remaining \in Nat /\ d.remaining <= L /\ d.openW = FALSE
      /\ b.count \in Nat /\ t[f] \in Seq(Blocks) /\ L \in Nat
  BY DEF Placed, DriveType, IopbOK
<1> HIDE DEF L
<1>2. n \in Nat /\ n <= d.remaining /\ at \in Nat /\ at + n <= L
      /\ n = Min({b.count, d.remaining})
  <2>1. b.count \in Int /\ d.remaining \in Int
    BY <1>1
  <2>2. n = Min({b.count, d.remaining})
    BY <2>1, MinPair
  <2>3. d.remaining \in Nat /\ d.remaining <= L /\ b.count \in Nat /\ L \in Nat
    BY <1>1
  <2> QED
    BY <2>2, <2>3
<1>3. d2 \in DriveType /\ d2.remaining = d.remaining - n
      /\ d2.openR /\ d2.openW = FALSE /\ d2.fileNo = f
  <2> DEFINE rem == d.remaining - n
  <2>1. rem \in Nat
    BY <1>1, <1>2
  <2>2. d2 = [d EXCEPT !.remaining = rem]
    BY <1>1 DEF DriveType
  <2> HIDE DEF rem, d2
  <2>3. d2 \in DriveType /\ d2.remaining = rem
        /\ d2.openR = d.openR /\ d2.openW = d.openW /\ d2.fileNo = d.fileNo
    BY <1>1, <2>1, <2>2 DEF DriveType
  <2> QED
    BY <1>1, <2>3 DEF rem
<1>4. Placed(d2, t, "reading", k)
  <2> HIDE DEF d2, n
  <2>1. d2.remaining <= L
    BY <1>1, <1>2, <1>3
  <2>2. d2.fileNo = f /\ L = Len(t[f])
    BY <1>3 DEF L
  <2> HIDE DEF f
  <2> QED
    BY <1>1, <1>3, <2>1, <2>2 DEF Placed
<1>5. /\ r.drive = d2 /\ r.tape = t
      /\ r.data = SubSeq(t[f], at + 1, at + n)
      /\ r.status = IF d2.remaining # 0 THEN "COMPLETE"
                    ELSE IF Exists(t, f + 1) THEN "FILENMARK" ELSE "READEOT"
  <2> DEFINE s == IF d2.remaining # 0 THEN "COMPLETE"
                  ELSE IF Exists(t, f + 1) THEN "FILENMARK" ELSE "READEOT"
  <2>1. r = [drive |-> d2, tape |-> t,
             data |-> SubSeq(t[f], at + 1, at + n), status |-> s]
    <3>1. n = Min({b.count, d.remaining}) /\ d.openW = FALSE
      BY <1>1, <1>2
    <3> HIDE DEF n
    <3> QED
      BY <3>1, Zenon DEF TapeRead, L
  <2> HIDE DEF s, d2, at, n
  <2>2. s = IF d2.remaining # 0 THEN "COMPLETE"
            ELSE IF Exists(t, f + 1) THEN "FILENMARK" ELSE "READEOT"
    BY DEF s
  <2> HIDE DEF r
  <2> QED
    BY <2>1, <2>2
<1>6. Len(FilesOf(t)) = k /\ FilesOf(t)[f + 1] = t[f]
  <2>1. f \in Nat /\ k \in Nat /\ f < k
    BY <1>1
  <2>2. f + 1 \in 1 .. k /\ (f + 1) - 1 = f
    BY <2>1
  <2>3. /\ FilesOf(t) \in Seq(Seq(Blocks)) /\ Len(FilesOf(t)) = k
        /\ \A i \in 1 .. k : FilesOf(t)[i] = t[i - 1]
    BY <1>1, FilesAre
  <2> QED
    BY <2>2, <2>3
<1>7. A = SubSeq(t[f], at + 1, L)
  <2>1. f \in Nat /\ k \in Nat /\ f < k
    BY <1>1
  <2>2. ~(f + 1 > k)
    BY <2>1
  <2> HIDE DEF at
  <2>3. hd.file = f + 1 /\ hd.block = at
    OBVIOUS
  <2> QED
    BY <1>6, <2>2, <2>3 DEF AheadOf, L
<1>8. /\ SubSeq(A, 1, n) = r.data /\ Len(A) = d.remaining /\ Len(r.data) = n
  <2>1. /\ SubSeq(SubSeq(t[f], at + 1, L), 1, n) = SubSeq(t[f], at + 1, at + n)
        /\ Len(SubSeq(t[f], at + 1, L)) = L - at
        /\ Len(SubSeq(t[f], at + 1, at + n)) = n
    <3> HIDE DEF at, n
    <3>1. t[f] \in Seq(Blocks) /\ at \in Nat /\ n \in Nat /\ at + n <= Len(t[f])
      BY <1>1, <1>2 DEF L
    <3> HIDE DEF f
    <3>2. /\ SubSeq(SubSeq(t[f], at + 1, Len(t[f])), 1, n)
               = SubSeq(t[f], at + 1, at + n)
          /\ Len(SubSeq(t[f], at + 1, Len(t[f]))) = Len(t[f]) - at
          /\ Len(SubSeq(t[f], at + 1, at + n)) = n
      BY <3>1, CutOfRest
    <3> QED
      BY <3>2 DEF L
  <2>2. L - at = d.remaining
    BY <1>1
  <2> HIDE DEF at, n, A, r
  <2> QED
    BY <1>5, <1>7, <2>1, <2>2
<1>9. HeadOf(d2, t) = IF d2.remaining = 0 THEN [file |-> f + 2, block |-> 0]
                      ELSE [file |-> f + 1, block |-> at + n]
  BY <1>1, <1>3 DEF HeadOf, L
<1>10. r.status \in {"COMPLETE", "FILENMARK", "READEOT"}
  BY <1>5
<1>11. ReadGives(FilesOf(t), hd, b.count, r, HeadOf(d2, t))
  <2>1. (IF b.count < Len(A) THEN b.count ELSE Len(A)) = n
    BY <1>1, <1>8
  <2>2. Len(r.data) < Len(A) <=> d2.remaining # 0
    <3>1. /\ Len(A) = d.remaining /\ Len(r.data) = n /\ d2.remaining = d.remaining - n
          /\ n \in Nat /\ d.remaining \in Nat /\ n <= d.remaining
      BY <1>1, <1>2, <1>3, <1>8
    <3> HIDE DEF d2, n, A, r
    <3> QED
      BY <3>1
  <2>3. Exists(t, f + 1) <=> hd.file < Len(FilesOf(t))
    BY <1>1, <1>6 DEF Exists
  <2>4. hd.file = f + 1 /\ hd.block = at /\ ~(hd.file > Len(FilesOf(t)))
    BY <1>1, <1>6
  <2>5. [hd EXCEPT !.block = @ + Len(r.data)] = [file |-> f + 1, block |-> at + n]
    BY <1>8
  <2>6. [file |-> hd.file + 1, block |-> 0] = [file |-> f + 2, block |-> 0]
    BY <1>1, <2>4
  <2>7. Word(r.status) = IF Len(r.data) < Len(A) THEN "ok"
                         ELSE IF hd.file < Len(FilesOf(t)) THEN "mark" ELSE "end"
    BY <1>5, <2>2, <2>3 DEF Word
  <2> HIDE DEF d2, n, r, hd
  <2> QED
    BY <1>8, <1>9, <2>1, <2>2, <2>4, <2>5, <2>6, <2>7 DEF ReadGives
<1>12. Placed(r.drive, t, "reading", k) /\ r.tape = t
       /\ ReadGives(FilesOf(t), hd, b.count, r, HeadOf(r.drive, t))
  <2> HIDE DEF d2, r, hd
  <2> QED
    BY <1>4, <1>5, <1>11
<1> QED
  BY <1>10, <1>12, Zenon DEF L

(* The file n, just opened for reading.                                    *)
AtStartOf(e, t, k, n) ==
  /\ Placed(e, t, "reading", k) /\ e.openR
  /\ e.fileNo = n /\ e.remaining = Len(t[n])

LEMMA OpensForReading ==
  ASSUME NEW k, NEW t, NEW d, d \in DriveType, k \in Nat,
         t \in [0 .. k - 1 -> Seq(Blocks)], NEW n \in Nat, n < k
  PROVE  AtStartOf(OpenedR(d, t, n), t, k, n)
<1> DEFINE c == Closed(d)
           e == [c EXCEPT !.fileNo = n, !.openR = TRUE, !.remaining = Len(t[n])]
<1>1. c \in DriveType /\ c.openW = FALSE
  BY ClosedDrive
<1>2. n \in 0 .. k - 1 /\ Len(t[n]) \in Nat
  OBVIOUS
<1> HIDE DEF c
<1>3. e \in DriveType /\ e.openR /\ e.openW = FALSE /\ e.fileNo = n
      /\ e.remaining = Len(t[n])
  BY <1>1, <1>2 DEF DriveType
<1>4. OpenedR(d, t, n) = e
  BY <1>2 DEF OpenedR, Exists, c
<1> HIDE DEF e
<1> QED
  BY <1>2, <1>3, <1>4 DEF Placed, AtStartOf

LEMMA ReadMoves ==
  ASSUME NEW k, NEW t, NEW d, NEW m \in {"bot", "reading"}, Placed(d, t, m, k),
         NEW b, IopbOK(b), ~b.badLen
  PROVE  LET r == ReadCmd(d, t, b)
         IN /\ Placed(r.drive, t, "reading", k) /\ r.tape = t
            /\ r.status \in {"COMPLETE", "FILENMARK", "READEOT", "EOD"}
            /\ ReadGives(FilesOf(t), HeadOf(d, t), b.count, r, HeadOf(r.drive, t))
<1> DEFINE r == ReadCmd(d, t, b)
           n == IF ~d.openR THEN d.fileNo
                ELSE IF d.remaining = 0 THEN d.fileNo + 1 ELSE d.fileNo
<1>1. /\ k \in Nat /\ t \in [0 .. k - 1 -> Seq(Blocks)] /\ d \in DriveType
      /\ d.openR \in BOOLEAN /\ d.openW = FALSE /\ d.fileNo \in Nat /\ d.fileNo <= k
      /\ d.remaining \in Nat
      /\ d.openR => d.fileNo < k /\ d.remaining <= Len(t[d.fileNo])
  BY DEF Placed, DriveType
<1>2. n \in Nat /\ n <= k
  BY <1>1
<1>3. CASE d.openR /\ d.remaining # 0
  <2>1. r = TapeRead(d, t, b)
    BY <1>3 DEF ReadCmd
  <2>2. HeadOf(d, t) = [file |-> d.fileNo + 1, block |-> Len(t[d.fileNo]) - d.remaining]
    BY <1>3 DEF HeadOf
  <2>3. Placed(d, t, "reading", k)
    BY <1>1, <1>3 DEF Placed
  <2> QED
    BY <1>3, <2>1, <2>2, <2>3, TapeReadGives
<1>4. CASE ~(d.openR /\ d.remaining # 0) /\ n < k
  <2> DEFINE e == OpenedR(d, t, n)
  <2>1. /\ Placed(e, t, "reading", k) /\ e.openR
        /\ e.fileNo = n /\ e.remaining = Len(t[n])
    <3> HIDE DEF n
    <3>1. /\ d \in DriveType /\ k \in Nat /\ t \in [0 .. k - 1 -> Seq(Blocks)]
          /\ n \in Nat /\ n < k
      BY <1>1, <1>2, <1>4
    <3>2. AtStartOf(OpenedR(d, t, n), t, k, n)
      BY <3>1, OpensForReading
    <3> HIDE DEF e
    <3>3. AtStartOf(e, t, k, n)
      BY <3>2 DEF e
    <3> QED
      BY <3>3 DEF AtStartOf
  <2>2. r = TapeRead(e, t, b)
    BY <1>4, <2>1 DEF ReadCmd
  <2>3. HeadOf(d, t) = [file |-> n + 1, block |-> 0]
    BY <1>1, <1>4 DEF HeadOf
  <2>4. Len(t[n]) - e.remaining = 0
    <3>1. Len(t[n]) \in Nat
      BY <1>1, <1>2, <1>4
    <3> QED
      BY <2>1, <3>1
  <2> HIDE DEF e, n
  <2>5. HeadOf(d, t) = [file |-> e.fileNo + 1, block |-> Len(t[e.fileNo]) - e.remaining]
    BY <2>1, <2>3, <2>4
  <2> QED
    BY <2>1, <2>2, <2>5, TapeReadGives
<1>5. CASE ~(d.openR /\ d.remaining # 0) /\ n = k
  <2> DEFINE e == [Closed(d) EXCEPT !.fileNo = n]
  <2>1. OpenedR(d, t, n) = e
    BY <1>1, <1>5 DEF OpenedR, Exists
  <2>2. /\ e \in DriveType /\ e.openR = FALSE /\ e.openW = FALSE /\ e.fileNo = n
    BY <1>1, <1>2, DriveAtFile
  <2>3. r = Outcome(e, t, IF d.openR THEN "READEOT" ELSE "EOD")
    <3> HIDE DEF e
    <3> QED
      BY <1>5, <2>1, <2>2 DEF ReadCmd
  <2>4. HeadOf(d, t) = [file |-> n + 1, block |-> 0]
    BY <1>1, <1>5 DEF HeadOf
  <2> HIDE DEF e, n
  <2>5. /\ r.drive = e /\ r.tape = t /\ r.data = <<>>
        /\ r.status \in {"READEOT", "EOD"} /\ Word(r.status) = "end"
    BY <2>3 DEF Outcome, Word
  <2>6. Placed(e, t, "reading", k)
    BY <1>1, <1>2, <2>2 DEF Placed
  <2>7. HeadOf(e, t) = [file |-> n + 1, block |-> 0]
    BY <2>2 DEF HeadOf
  <2>8. Len(FilesOf(t)) = k
    BY <1>1, FilesAre
  <2> DEFINE hd == [file |-> n + 1, block |-> 0]
  <2>9. hd.file > Len(FilesOf(t)) /\ ~(hd.file < Len(FilesOf(t)))
    BY <1>2, <1>5, <2>8
  <2>10. AheadOf(FilesOf(t), hd) = <<>>
    BY <2>9 DEF AheadOf
  <2>11. ReadGives(FilesOf(t), hd, b.count, r, hd)
    <3>1. Len(<<>>) = 0 /\ SubSeq(<<>>, 1, 0) = <<>> /\ ~(b.count < 0)
      BY DEF IopbOK
    <3> HIDE DEF hd, r
    <3> QED
      BY <2>5, <2>9, <2>10, <3>1 DEF ReadGives
  <2> QED
    BY <2>4, <2>5, <2>6, <2>7, <2>11
<1>6. n < k \/ n = k
  <2> HIDE DEF n
  <2> QED
    BY <1>1, <1>2
<1> QED
  BY <1>3, <1>4, <1>5, <1>6

LEMMA SkipMoves ==
  ASSUME NEW k, NEW t, NEW d, NEW m \in {"bot", "reading"}, Placed(d, t, m, k),
         NEW b, IopbOK(b)
  PROVE  LET r  == SkipCmd(d, t, b)
             to == Min({HeadOf(d, t).file + b.count, Len(FilesOf(t)) + 1})
         IN /\ Placed(r.drive, t, "reading", k) /\ r.tape = t /\ r.data = <<>>
            /\ r.status = IF to > Len(FilesOf(t)) THEN "EOD" ELSE "COMPLETE"
            /\ HeadOf(r.drive, t) = [file |-> to, block |-> 0]
<1> DEFINE r == SkipCmd(d, t, b)
           over == d.fileNo + b.count + (IF d.openR /\ d.remaining = 0 THEN 1 ELSE 0)
           at == IF over <= k THEN over ELSE k
           to == Min({HeadOf(d, t).file + b.count, Len(FilesOf(t)) + 1})
<1>1. /\ k \in Nat /\ t \in [0 .. k - 1 -> Seq(Blocks)] /\ d \in DriveType
      /\ d.fileNo \in Nat /\ d.fileNo <= k /\ b.count \in Nat
  BY DEF Placed, DriveType, IopbOK
<1>2. over \in Nat /\ at \in Nat /\ at <= k
  BY <1>1
<1>3. Missing(t, d.fileNo) = k
  <2>1. d.fileNo \in 0 .. k
    BY <1>1
  <2> QED
    BY <1>1, <2>1, MissingIs
<1>4. Min({over, k}) = at
  <2> HIDE DEF over
  <2>1. over \in Int /\ k \in Int
    BY <1>1, <1>2
  <2> QED
    BY <2>1, MinPair
<1> DEFINE e == [Closed(d) EXCEPT !.fileNo = at]
<1>5. r = Outcome(e, t, IF Exists(t, at) THEN "COMPLETE" ELSE "EOD")
  BY <1>3, <1>4 DEF SkipCmd
<1>6. e \in DriveType /\ e.openR = FALSE /\ e.openW = FALSE /\ e.fileNo = at
  BY <1>1, <1>2, DriveAtFile
<1>7. HeadOf(d, t).file + b.count = over + 1 /\ Len(FilesOf(t)) = k
  <2>1. Len(FilesOf(t)) = k
    BY <1>1, FilesAre
  <2>2. HeadOf(d, t).file = d.fileNo + (IF d.openR /\ d.remaining = 0 THEN 2 ELSE 1)
    BY DEF HeadOf
  <2> QED
    BY <1>1, <2>1, <2>2
<1>8. to = at + 1
  <2>1. Min({over + 1, k + 1}) = IF over + 1 <= k + 1 THEN over + 1 ELSE k + 1
    <3> HIDE DEF over
    <3>1. over + 1 \in Int /\ k + 1 \in Int
      BY <1>1, <1>2
    <3> QED
      BY <3>1, MinPair
  <2>2. to = Min({over + 1, k + 1})
    BY <1>7
  <2>3. over \in Nat /\ k \in Nat
    BY <1>1, <1>2
  <2> HIDE DEF over, to
  <2> QED
    BY <2>1, <2>2, <2>3
<1> HIDE DEF e, at, to
<1>9. Placed(e, t, "reading", k)
  BY <1>1, <1>2, <1>6 DEF Placed
<1>10. HeadOf(e, t) = [file |-> at + 1, block |-> 0]
  BY <1>6 DEF HeadOf
<1>11. Exists(t, at) <=> ~(to > Len(FilesOf(t)))
  BY <1>1, <1>2, <1>7, <1>8 DEF Exists
<1>12. r.drive = e /\ r.tape = t /\ r.data = <<>>
       /\ r.status = IF to > Len(FilesOf(t)) THEN "EOD" ELSE "COMPLETE"
  BY <1>5, <1>11 DEF Outcome
<1> QED
  BY <1>8, <1>9, <1>10, <1>12 DEF to

-----------------------------------------------------------------------------
(* Going back to the start, and erasing.                                   *)
LEMMA RewindMoves ==
  ASSUME NEW k, NEW t, NEW d, NEW m, Placed(d, t, m, k),
         NEW e, e = [Closed(d) EXCEPT !.fileNo = 0]
  PROVE  /\ Placed(e, t, "bot", k)
         /\ HeadOf(e, t) = [file |-> 1, block |-> 0]
<1>1. d \in DriveType /\ 0 \in Nat
  BY DEF Placed
<1>2. e \in DriveType /\ e.openR = FALSE /\ e.openW = FALSE /\ e.fileNo = 0
  BY <1>1, DriveAtFile
<1>3. Placed(e, t, "bot", k)
  BY <1>2 DEF Placed
<1>4. HeadOf(e, t) = [file |-> 1, block |-> 0]
  BY <1>2 DEF HeadOf
<1> QED
  BY <1>3, <1>4

LEMMA ErasedTape ==
  ASSUME NEW k \in Nat, NEW t \in [0 .. k - 1 -> Seq(Blocks)]
  PROVE  /\ Erased(t) \in [0 .. 0 - 1 -> Seq(Blocks)]
         /\ CountBlocks(Erased(t)) = 0 /\ FilesOf(Erased(t)) = <<>>
<1> DEFINE S == {n \in DOMAIN t : n > Missing(t, 0)}
<1>1. Missing(t, 0) = k
  BY NoneMissing
<1>2. S = {}
  BY <1>1
<1>3. Erased(t) = [n \in S |-> t[n]]
  BY DEF Erased, Restrict
<1> HIDE DEF S
<1>4. Erased(t) \in [0 .. 0 - 1 -> Seq(Blocks)]
  <2>1. 0 .. 0 - 1 = {}
    OBVIOUS
  <2> QED
    BY <1>2, <1>3, <2>1
<1> QED
  BY <1>4, NothingRecorded

(* The drive with another count of the blocks on the tape.                 *)
LEMMA CountedDrive ==
  ASSUME NEW d \in DriveType, NEW n \in Nat, NEW e, e = [d EXCEPT !.onTape = n]
  PROVE  /\ e \in DriveType /\ e.onTape = n
         /\ e.fileNo = d.fileNo /\ e.openR = d.openR /\ e.openW = d.openW
         /\ e.remaining = d.remaining /\ e.readonly = d.readonly
  BY DEF DriveType

LEMMA EraseMoves ==
  ASSUME NEW k, NEW t, NEW d, Placed(d, t, "bot", k), ~d.readonly
  PROVE  /\ Placed(EraseCmd(d, t).drive, EraseCmd(d, t).tape, "bot", 0)
         /\ FilesOf(EraseCmd(d, t).tape) = <<>>
         /\ HeadOf(EraseCmd(d, t).drive, EraseCmd(d, t).tape)
              = [file |-> 1, block |-> 0]
         /\ EraseCmd(d, t).status = "COMPLETE" /\ EraseCmd(d, t).data = <<>>
<1> DEFINE c == Closed(d)
           e == [c EXCEPT !.onTape = 0]
           u == Erased(t)
           r == EraseCmd(d, t)
<1>1. k \in Nat /\ t \in [0 .. k - 1 -> Seq(Blocks)] /\ d \in DriveType /\ d.fileNo = 0
  BY DEF Placed
<1>2. c \in DriveType /\ c.openR = FALSE /\ c.openW = FALSE /\ c.fileNo = 0
  BY <1>1, ClosedDrive
<1>3. r = Outcome(e, u, "COMPLETE")
  BY DEF EraseCmd
<1> HIDE DEF c
<1>4. e \in DriveType /\ e.openR = FALSE /\ e.openW = FALSE /\ e.fileNo = 0
  BY <1>2, CountedDrive
<1>5. u \in [0 .. 0 - 1 -> Seq(Blocks)] /\ FilesOf(u) = <<>>
  BY <1>1, ErasedTape
<1> HIDE DEF e, u, r
<1>6. Placed(e, u, "bot", 0)
  BY <1>4, <1>5 DEF Placed
<1>7. HeadOf(e, u) = [file |-> 1, block |-> 0]
  BY <1>4 DEF HeadOf
<1>8. r.drive = e /\ r.tape = u /\ r.status = "COMPLETE" /\ r.data = <<>>
  BY <1>3 DEF Outcome
<1> QED
  BY <1>5, <1>6, <1>7, <1>8 DEF r

-----------------------------------------------------------------------------
(* Writing and appending, up to the end of the tape.                       *)
LEMMA ReadyIsPlaced ==
  ASSUME NEW d, NEW t, NEW k, ReadyToWrite(d, t, k)
  PROVE  Placed(d, t, "writing", k)
<1>1. k \in Nat /\ d \in DriveType /\ d.fileNo \in Nat
  BY DEF ReadyToWrite, DriveType
<1>2. d.fileNo <= k
  BY <1>1 DEF ReadyToWrite
<1> QED
  BY <1>1, <1>2 DEF ReadyToWrite, Placed

(* A write from the drive d on the tape t, of which d has the count: as it  *)
(* should be, or not at all.  It is not when the tape is full, and only    *)
(* then or when its file cannot be created.                                *)
NotWritten(d, t, r, s) ==
  r.drive = d /\ r.tape = t /\ r.status = s /\ r.data = <<>>
WroteOrNot(d, t, b, r) ==
  /\ \E j : Placed(r.drive, r.tape, "writing", j)
  /\ r.drive.onTape = CountBlocks(r.tape)
  /\ IF CountBlocks(t) > Capacity THEN NotWritten(d, t, r, "WROTEEOT")
     ELSE WroteOK(d, t, b, r) \/ (~d.openW /\ NotWritten(d, t, r, "TAPERROR"))

LEMMA UpToEnd ==
  ASSUME NEW d, NEW t, NEW k, ReadyToWrite(d, t, k), d.onTape = CountBlocks(t),
         NEW b, IopbOK(b), NEW r \in WriteUpToEnd(d, t, b)
  PROVE  WroteOrNot(d, t, b, r)
<1>1. ASSUME NEW s, r = Outcome(d, t, s)
      PROVE  /\ NotWritten(d, t, r, s)
             /\ \E j : Placed(r.drive, r.tape, "writing", j)
             /\ r.drive.onTape = CountBlocks(r.tape)
  <2>1. r.drive = d /\ r.tape = t /\ r.status = s /\ r.data = <<>>
    BY <1>1 DEF Outcome
  <2>2. Placed(d, t, "writing", k)
    BY ReadyIsPlaced
  <2> QED
    BY <2>1, <2>2 DEF NotWritten
<1>2. CASE d.onTape > Capacity
  <2>1. r = Outcome(d, t, "WROTEEOT")
    BY <1>2 DEF WriteUpToEnd
  <2> QED
    BY <1>1, <1>2, <2>1 DEF WroteOrNot
<1>3. CASE ~(d.onTape > Capacity)
  <2>1. r \in TapeWrite(d, t, b)
    BY <1>3 DEF WriteUpToEnd
  <2>2. CASE ~d.openW /\ r = Outcome(d, t, "TAPERROR")
    BY <1>1, <1>3, <2>2 DEF WroteOrNot
  <2>3. CASE WroteOK(d, t, b, r)
    BY <1>3, <2>3 DEF WroteOrNot, WroteOK
  <2> QED
    BY <2>1, <2>2, <2>3, TapeWriteGives
<1> QED
  BY <1>2, <1>3

(* What a write does to files fs0 with the head hd, as Tape has it.        *)
StartOfTape == [file |-> 1, block |-> 0]
Kept(fs, hd) == IF hd = StartOfTape THEN <<>> ELSE fs
WrittenTo(fs, f, b, r) ==
  /\ \/ FilesOf(r.tape) = GrownFiles(fs, f, b.data)
     \/ b.filemarks /\ FilesOf(r.tape) = Append(GrownFiles(fs, f, b.data), <<>>)
  /\ HeadOf(r.drive, r.tape) =
       IF b.filemarks THEN [file |-> f + 1, block |-> 0]
       ELSE [file |-> f, block |-> Len(GrownFiles(fs, f, b.data)[f])]
  /\ r.status = "COMPLETE" /\ r.data = <<>>
FailedAt(fs, hd, s, r) ==
  /\ FilesOf(r.tape) = fs /\ HeadOf(r.drive, r.tape) = hd
  /\ r.status = s /\ r.data = <<>>
Writes(fs0, hd, b, r) ==
  /\ \/ hd = StartOfTape \/ hd.file = Len(fs0) + 1
     \/ hd.file = Len(fs0) /\ AheadOf(fs0, hd) = <<>>
  /\ IF AmountOf(Kept(fs0, hd)) > Capacity
     THEN FailedAt(Kept(fs0, hd), hd, "WROTEEOT", r)
     ELSE \/ WrittenTo(Kept(fs0, hd), hd.file, b, r)
          \/ hd.block = 0 /\ FailedAt(Kept(fs0, hd), hd, "TAPERROR", r)
FileToAppend(fs) ==
  IF fs # <<>> /\ Last(fs) = <<>> THEN Len(fs) ELSE Len(fs) + 1
Appends(fs, b, r) ==
  LET hd == [file |-> FileToAppend(fs), block |-> 0]
  IN IF AmountOf(fs) > Capacity THEN FailedAt(fs, hd, "WROTEEOT", r)
     ELSE WrittenTo(fs, hd.file, b, r) \/ FailedAt(fs, hd, "TAPERROR", r)

LEMMA WroteFiles ==
  ASSUME NEW d, NEW t, NEW b, NEW r, WroteOK(d, t, b, r), d.fileNo \in Nat
  PROVE  WrittenTo(FilesOf(t), d.fileNo + 1, b, r)
<1>1. d.fileNo + 2 = (d.fileNo + 1) + 1
  OBVIOUS
<1> QED
  BY <1>1 DEF WroteOK, WrittenTo

LEMMA WritesFromStart ==
  ASSUME NEW k, NEW t, NEW d, NEW m \in {"bot", "writing"}, Placed(d, t, m, k),
         d.fileNo = 0, ~d.openW, NEW b, IopbOK(b),
         NEW r \in WriteUpToEnd([d EXCEPT !.onTape = 0], Erased(t), b)
  PROVE  Sound(r.drive, r.tape, "writing") /\ Writes(FilesOf(t), HeadOf(d, t), b, r)
<1> DEFINE d0 == [d EXCEPT !.onTape = 0]
           t0 == Erased(t)
<1>1. k \in Nat /\ t \in [0 .. k - 1 -> Seq(Blocks)] /\ d \in DriveType /\ ~d.openR
  BY DEF Placed
<1>2. /\ d0 \in DriveType /\ d0.onTape = 0 /\ d0.fileNo = 0
      /\ ~d0.openR /\ ~d0.openW
  BY <1>1, CountedDrive
<1>3. /\ t0 \in [0 .. 0 - 1 -> Seq(Blocks)]
      /\ CountBlocks(t0) = 0 /\ FilesOf(t0) = <<>>
  BY <1>1, ErasedTape
<1> HIDE DEF d0, t0
<1>4. ReadyToWrite(d0, t0, 0)
  BY <1>2, <1>3 DEF ReadyToWrite
<1>5. r \in WriteUpToEnd(d0, t0, b)
  BY DEF d0, t0
<1>6. WroteOrNot(d0, t0, b, r)
  BY <1>2, <1>3, <1>4, <1>5, UpToEnd
<1>7. HeadOf(d, t) = StartOfTape /\ HeadOf(d0, t0) = StartOfTape
  BY <1>1, <1>2 DEF HeadOf, StartOfTape
<1>8. Sound(r.drive, r.tape, "writing")
  BY <1>6 DEF WroteOrNot, Sound
<1>9. ~(AmountOf(<<>>) > Capacity)
  BY NoAmount, CsAssumption
<1>10. ~(CountBlocks(t0) > Capacity)
  BY <1>3, CsAssumption
<1>11. CASE WroteOK(d0, t0, b, r)
  <2>1. WrittenTo(FilesOf(t0), d0.fileNo + 1, b, r)
    BY <1>2, <1>11, WroteFiles
  <2>2. WrittenTo(<<>>, 1, b, r)
    BY <1>2, <1>3, <2>1
  <2> QED
    BY <1>7, <1>8, <1>9, <2>2 DEF Writes, Kept, StartOfTape
<1>12. CASE ~WroteOK(d0, t0, b, r)
  <2>1. NotWritten(d0, t0, r, "TAPERROR")
    BY <1>6, <1>12, <1>10 DEF WroteOrNot
  <2>2. FailedAt(<<>>, StartOfTape, "TAPERROR", r)
    BY <1>3, <1>7, <2>1 DEF NotWritten, FailedAt
  <2> QED
    BY <1>7, <1>8, <1>9, <2>2 DEF Writes, Kept, StartOfTape
<1> QED
  BY <1>11, <1>12

LEMMA OneFileChanged ==
  ASSUME NEW S, NEW s \in Seq(S), NEW n \in 1 .. Len(s), NEW e \in S,
         NEW u, u = [s EXCEPT ![n] = e]
  PROVE  /\ u \in Seq(S) /\ Len(u) = Len(s)
         /\ \A i \in 1 .. Len(s) : u[i] = IF i = n THEN e ELSE s[i]
  BY ExceptSeq

LEMMA NewFirstFile ==
  ASSUME NEW fs \in Seq(Seq(Blocks)), Len(fs) = 1, fs[1] = <<>>,
         NEW data \in Seq(Blocks)
  PROVE  GrownFiles(fs, 1, data) = GrownFiles(<<>>, 1, data)
<1>1. <<>> \o data = data
  BY ConcatEmptySeq
<1>2. GrownFiles(fs, 1, data) = [fs EXCEPT ![1] = data]
  BY <1>1 DEF GrownFiles
<1>3. GrownFiles(<<>>, 1, data) = <<data>>
  BY DEF GrownFiles
<1>4. [fs EXCEPT ![1] = data] = <<data>>
  <2> DEFINE gs == [fs EXCEPT ![1] = data]
             us == <<data>>
  <2>1. gs \in Seq(Seq(Blocks)) /\ Len(gs) = 1 /\ gs[1] = data
    <3> DEFINE one == 1
    <3>1. one \in 1 .. Len(fs) /\ gs = [fs EXCEPT ![one] = data] /\ one = 1
      OBVIOUS
    <3> HIDE DEF gs, one
    <3>2. /\ gs \in Seq(Seq(Blocks)) /\ Len(gs) = Len(fs)
          /\ \A i \in 1 .. Len(fs) : gs[i] = IF i = one THEN data ELSE fs[i]
      BY <3>1, OneFileChanged
    <3> QED
      BY <3>1, <3>2
  <2>2. us \in Seq(Seq(Blocks)) /\ Len(us) = 1 /\ us[1] = data
    OBVIOUS
  <2> HIDE DEF gs, us
  <2>3. \A i \in 1 .. Len(gs) : gs[i] = us[i]
    BY <2>1, <2>2
  <2>4. gs = us
    BY <2>1, <2>2, <2>3, SameFiles
  <2> QED
    BY <2>4 DEF gs, us
<1> QED
  BY <1>2, <1>3, <1>4

LEMMA WritesOn ==
  ASSUME NEW k, NEW t, NEW d, Placed(d, t, "writing", k), d.onTape = CountBlocks(t),
         ~(d.fileNo = 0 /\ ~d.openW), NEW b, IopbOK(b),
         NEW r \in WriteUpToEnd(d, t, b)
  PROVE  Sound(r.drive, r.tape, "writing") /\ Writes(FilesOf(t), HeadOf(d, t), b, r)
<1> DEFINE f  == d.fileNo
           fs == FilesOf(t)
           hd == HeadOf(d, t)
<1>1. /\ k \in Nat /\ t \in [0 .. k - 1 -> Seq(Blocks)] /\ d \in DriveType /\ ~d.openR
      /\ f \in Nat /\ f <= k /\ d.openW \in BOOLEAN /\ b.data \in Seq(Blocks)
      /\ d.openW => f = k - 1
      /\ ~d.openW => f = k \/ (f = k - 1 /\ t[f] = <<>>)
  BY DEF Placed, DriveType, IopbOK
<1>2. ReadyToWrite(d, t, k)
  BY <1>1 DEF ReadyToWrite
<1>3. WroteOrNot(d, t, b, r)
  BY <1>2, UpToEnd
<1>4. Sound(r.drive, r.tape, "writing")
  BY <1>3 DEF WroteOrNot, Sound
<1>5. /\ fs \in Seq(Seq(Blocks)) /\ Len(fs) = k
      /\ \A i \in 1 .. k : fs[i] = t[i - 1]
  BY <1>1, FilesAre
<1>6. hd = [file |-> f + 1, block |-> IF d.openW THEN Len(t[f]) ELSE 0]
  BY <1>1 DEF HeadOf
<1> HIDE DEF fs, hd
<1>7. \/ hd = StartOfTape \/ hd.file = Len(fs) + 1
      \/ hd.file = Len(fs) /\ AheadOf(fs, hd) = <<>>
  <2>1. CASE f = k
    BY <1>5, <1>6, <2>1
  <2>2. CASE f = k - 1
    <3>1. f + 1 \in 1 .. k /\ f + 1 = k /\ (f + 1) - 1 = f
      BY <1>1, <2>2
    <3>2. fs[f + 1] = t[f] /\ t[f] \in Seq(Blocks) /\ hd.file = f + 1
      BY <1>1, <1>5, <1>6, <2>2, <3>1
    <3>3. hd.block = Len(t[f]) /\ Len(t[f]) \in Nat
      <4>1. CASE d.openW
        BY <1>6, <3>2, <4>1
      <4>2. CASE ~d.openW
        BY <1>1, <1>6, <2>2, <3>2, <4>2
      <4> QED
        BY <4>1, <4>2
    <3>4. SubSeq(t[f], Len(t[f]) + 1, Len(t[f])) = <<>>
      <4> DEFINE s == t[f]
      <4>1. s \in Seq(Blocks) /\ Len(s) \in Int /\ Len(s) + 1 \in Int
            /\ 1 <= Len(s) + 1 /\ Len(s) <= Len(s) /\ ~(Len(s) + 1 <= Len(s))
        BY <3>2, <3>3
      <4> HIDE DEF s
      <4>2. /\ SubSeq(s, Len(s) + 1, Len(s)) \in Seq(Blocks)
            /\ Len(SubSeq(s, Len(s) + 1, Len(s))) = 0
        BY <4>1, Cut
      <4>3. SubSeq(s, Len(s) + 1, Len(s)) = <<>>
        BY <4>2, EmptySeq
      <4> QED
        BY <4>3 DEF s
    <3>5. hd.file = Len(fs) /\ ~(hd.file > Len(fs))
      BY <1>1, <1>5, <3>1, <3>2
    <3>6. AheadOf(fs, hd) = <<>>
      BY <3>2, <3>3, <3>4, <3>5 DEF AheadOf
    <3> QED
      BY <3>5, <3>6
  <2> QED
    BY <1>1, <2>1, <2>2
<1>8. CASE hd # StartOfTape
  <2>1. Kept(fs, hd) = fs /\ AmountOf(fs) = CountBlocks(t)
    BY <1>1, <1>8, AmountIs DEF Kept, fs
  <2>2. ASSUME NEW s, NotWritten(d, t, r, s)
        PROVE  FailedAt(fs, hd, s, r)
    BY <2>2 DEF NotWritten, FailedAt, fs, hd
  <2>3. ASSUME WroteOK(d, t, b, r)
        PROVE  WrittenTo(fs, hd.file, b, r)
    <3>1. WrittenTo(fs, f + 1, b, r)
      BY <1>1, <2>3, WroteFiles DEF fs
    <3> QED
      BY <1>6, <3>1
  <2>4. ~d.openW => hd.block = 0
    BY <1>6
  <2>5. Writes(fs, hd, b, r)
    BY <1>3, <1>7, <2>1, <2>2, <2>3, <2>4 DEF WroteOrNot, Writes
  <2> QED
    BY <1>4, <2>5 DEF fs, hd
<1>9. CASE hd = StartOfTape
  <2>1. f = 0 /\ d.openW /\ Len(t[f]) = 0
    <3>1. hd.file = 1 /\ hd.block = 0
      BY <1>9 DEF StartOfTape
    <3>2. f + 1 = 1 /\ hd.block = IF d.openW THEN Len(t[f]) ELSE 0
      BY <1>6, <3>1
    <3>3. f = 0
      BY <1>1, <3>2
    <3> QED
      BY <3>1, <3>2, <3>3
  <2>2. k = 1 /\ t[0] = <<>>
    <3>1. k = 1
      BY <1>1, <2>1
    <3>2. t[0] \in Seq(Blocks)
      BY <1>1, <3>1
    <3> QED
      BY <2>1, <3>1, <3>2, EmptySeq
  <2>3. CountBlocks(t) = 0
    <3>1. Missing(t, 0) = 1
      BY <1>1, <2>2, NoneMissing
    <3>2. \A n \in 0 .. 1 - 1 : n = 0
      OBVIOUS
    <3>3. Recorded(t) = UNION {{n} \X DOMAIN t[n] : n \in 0 .. 1 - 1}
      BY <3>1 DEF Recorded
    <3>4. DOMAIN t[0] = {}
      BY <2>2
    <3>5. Recorded(t) = {}
      BY <3>2, <3>3, <3>4
    <3> QED
      BY <3>5, FS_EmptySet DEF CountBlocks
  <2>4. WroteOK(d, t, b, r)
    BY <1>3, <2>1, <2>3, CsAssumption DEF WroteOrNot
  <2>5. Len(fs) = 1 /\ fs[1] = <<>>
    BY <1>5, <2>2
  <2>6. GrownFiles(fs, 1, b.data) = GrownFiles(<<>>, 1, b.data)
    BY <1>1, <1>5, <2>5, NewFirstFile
  <2>7. WrittenTo(fs, 1, b, r)
    <3>1. WrittenTo(fs, f + 1, b, r)
      BY <1>1, <2>4, WroteFiles DEF fs
    <3> QED
      BY <2>1, <3>1
  <2>8. WrittenTo(<<>>, 1, b, r)
    BY <2>6, <2>7 DEF WrittenTo
  <2>9. ~(AmountOf(<<>>) > Capacity)
    BY NoAmount, CsAssumption
  <2>10. Writes(fs, hd, b, r)
    BY <1>9, <2>8, <2>9 DEF Writes, Kept, StartOfTape
  <2> QED
    BY <1>4, <2>10 DEF fs, hd
<1> QED
  BY <1>8, <1>9

LEMMA AppendMoves ==
  ASSUME NEW k, NEW t, NEW d, NEW m, Placed(d, t, m, k), NEW b, IopbOK(b),
         ~b.badLen, ~d.readonly, NEW r \in AppendCmd(d, t, b)
  PROVE  Sound(r.drive, r.tape, "writing") /\ Appends(FilesOf(t), b, r)
<1> DEFINE to == IF k # 0 /\ IsFilemark(t, k - 1) THEN k - 1 ELSE k
           e  == [Closed(d) EXCEPT !.fileNo = to]
           c  == CountBlocks(t)
           d0 == [e EXCEPT !.onTape = c]
           fs == FilesOf(t)
<1>1. k \in Nat /\ t \in [0 .. k - 1 -> Seq(Blocks)] /\ d \in DriveType
      /\ d.fileNo \in Nat /\ d.fileNo <= k
  BY DEF Placed, DriveType
<1>2. Missing(t, d.fileNo) = k
  <2>1. d.fileNo \in 0 .. k
    BY <1>1
  <2> QED
    BY <1>1, <2>1, MissingIs
<1>3. r \in WriteUpToEnd(d0, t, b)
  BY <1>2 DEF AppendCmd
<1>4. to \in Nat /\ (to = k \/ (to = k - 1 /\ t[to] = <<>>))
  BY <1>1 DEF IsFilemark
<1>5. c \in Nat
  BY <1>1, CountedBlocks
<1> HIDE DEF to, c
<1>6. e \in DriveType /\ e.openR = FALSE /\ e.openW = FALSE /\ e.fileNo = to
  BY <1>1, <1>4, DriveAtFile
<1> HIDE DEF e
<1>7. /\ d0 \in DriveType /\ d0.onTape = c /\ d0.fileNo = to
      /\ ~d0.openR /\ ~d0.openW
  BY <1>5, <1>6, CountedDrive
<1> HIDE DEF d0
<1>8. ReadyToWrite(d0, t, k)
  BY <1>1, <1>4, <1>7 DEF ReadyToWrite
<1>9. WroteOrNot(d0, t, b, r)
  BY <1>3, <1>7, <1>8, UpToEnd DEF c
<1>10. Sound(r.drive, r.tape, "writing")
  BY <1>9 DEF WroteOrNot, Sound
<1>11. FileToAppend(fs) = to + 1
  <2>1. /\ fs \in Seq(Seq(Blocks)) /\ Len(fs) = k
        /\ \A i \in 1 .. k : fs[i] = t[i - 1]
    BY <1>1, FilesAre
  <2> HIDE DEF fs
  <2>2. CASE k = 0
    BY <2>1, <2>2, EmptySeq DEF FileToAppend, to
  <2>3. CASE k # 0
    <3>1. k \in 1 .. k /\ k - 1 \in 0 .. k - 1
      BY <1>1, <2>3
    <3>2. fs # <<>> /\ Last(fs) = t[k - 1]
      BY <2>1, <2>3, <3>1 DEF Last
    <3>3. IsFilemark(t, k - 1) <=> Last(fs) = <<>>
      BY <1>1, <3>1, <3>2 DEF IsFilemark, Exists
    <3> QED
      BY <1>1, <2>1, <2>3, <3>2, <3>3 DEF FileToAppend, to
  <2> QED
    BY <2>2, <2>3
<1>12. HeadOf(d0, t) = [file |-> to + 1, block |-> 0]
  BY <1>7 DEF HeadOf
<1> HIDE DEF fs
<1>13. AmountOf(fs) = CountBlocks(t)
  BY <1>1, AmountIs DEF fs
<1> DEFINE hd == [file |-> FileToAppend(fs), block |-> 0]
<1>14. HeadOf(d0, t) = hd /\ hd.file = to + 1
  BY <1>11, <1>12
<1>15. ASSUME NEW s, NotWritten(d0, t, r, s)
       PROVE  FailedAt(fs, hd, s, r)
  <2> HIDE DEF hd
  <2> QED
    BY <1>14, <1>15 DEF NotWritten, FailedAt, fs
<1>16. ASSUME WroteOK(d0, t, b, r)
       PROVE  WrittenTo(fs, hd.file, b, r)
  <2>1. WrittenTo(fs, to + 1, b, r)
    BY <1>4, <1>7, <1>16, WroteFiles DEF fs
  <2> HIDE DEF hd
  <2> QED
    BY <1>14, <2>1
<1>17. Appends(fs, b, r)
  <2> HIDE DEF hd
  <2>1. Appends(fs, b, r) <=>
          IF AmountOf(fs) > Capacity THEN FailedAt(fs, hd, "WROTEEOT", r)
          ELSE WrittenTo(fs, hd.file, b, r) \/ FailedAt(fs, hd, "TAPERROR", r)
    BY DEF Appends, hd
  <2> QED
    BY <1>9, <1>13, <1>15, <1>16, <2>1 DEF WroteOrNot
<1> QED
  BY <1>10, <1>17 DEF fs

-----------------------------------------------------------------------------
(* Any command, done to a drive and a tape that are sound, leaves them     *)
(* sound, and does what Tape says of it.                                   *)
After(m, b, status) ==
  IF status \in {"IPBPERR", "WRPROT"} /\ b.op # "INIT" THEN m
  ELSE CASE b.op \in {"INIT", "REWIND", "RETENSION", "ERASE"} -> "bot"
         [] b.op \in {"READ", "SKIP"}    -> "reading"
         [] b.op \in {"WRITE", "APPEND"} -> "writing"
         [] OTHER -> m

Rewinds(t, r) ==
  /\ r.tape = t /\ HeadOf(r.drive, r.tape) = StartOfTape
  /\ Word(r.status) = "ok" /\ r.data = <<>>
Reports(d, t, r) ==
  /\ r.drive = d /\ r.tape = t
  /\ Word(r.status) = "ok" /\ r.data = <<>>
Erases(r) ==
  /\ FilesOf(r.tape) = <<>> /\ HeadOf(r.drive, r.tape) = StartOfTape
  /\ Word(r.status) = "ok" /\ r.data = <<>>
Reads(d, t, b, r) ==
  /\ r.tape = t
  /\ ReadGives(FilesOf(t), HeadOf(d, t), b.count, r, HeadOf(r.drive, r.tape))
SkipsTo(d, t, b) == Min({HeadOf(d, t).file + b.count, Len(FilesOf(t)) + 1})
Skips(d, t, b, r) ==
  /\ r.tape = t /\ r.data = <<>>
  /\ Word(r.status) = IF SkipsTo(d, t, b) > Len(FilesOf(t)) THEN "end" ELSE "ok"
  /\ HeadOf(r.drive, r.tape) = [file |-> SkipsTo(d, t, b), block |-> 0]

MustRefuse(d, b) ==
  \/ b.op = "UNKNOWN"
  \/ b.badLen /\ b.op \in {"INIT", "READ", "WRITE", "APPEND"}
  \/ d.readonly /\ b.op \in {"ERASE", "WRITE", "APPEND"}
Refuses(d, t, b, r) ==
  /\ r.tape = t /\ Word(r.status) = "refused" /\ r.data = <<>>
  /\ HeadOf(r.drive, r.tape) = IF b.op = "INIT" THEN StartOfTape ELSE HeadOf(d, t)
Obeys(d, t, b, r) ==
  \/ b.op \in {"INIT", "REWIND", "RETENSION"} /\ Rewinds(t, r)
  \/ b.op \in {"STATUS", "TEST"} /\ Reports(d, t, r)
  \/ b.op = "ERASE" /\ Erases(r)
  \/ b.op = "READ" /\ Reads(d, t, b, r)
  \/ b.op = "SKIP" /\ Skips(d, t, b, r)
  \/ b.op = "WRITE" /\ Writes(FilesOf(t), HeadOf(d, t), b, r)
  \/ b.op = "APPEND" /\ Appends(FilesOf(t), b, r)
Does(d, t, b, r) ==
  IF MustRefuse(d, b) THEN Refuses(d, t, b, r) ELSE Obeys(d, t, b, r)
Done(d, t, m, b, r) ==
  Sound(r.drive, r.tape, After(m, b, r.status)) /\ Does(d, t, b, r)

(* The drive and the tape as they are when a command is executed.          *)
Before(d, t, m, b, k) ==
  /\ Placed(d, t, m, k) /\ m \in Modes
  /\ m = "writing" => d.onTape = CountBlocks(t)
  /\ IopbOK(b) /\ Suits(b, m)

LEMMA Unchanged ==
  ASSUME NEW d, NEW t, NEW m, NEW b, NEW k, Before(d, t, m, b, k),
         NEW s, NEW r, r = Outcome(d, t, s),
         \/ s \in {"IPBPERR", "WRPROT"} /\ b.op # "INIT" /\ MustRefuse(d, b)
         \/ s = "COMPLETE" /\ b.op \in {"STATUS", "TEST"}
  PROVE  Done(d, t, m, b, r)
<1>1. r.drive = d /\ r.tape = t /\ r.status = s /\ r.data = <<>>
  BY DEF Outcome
<1>2. After(m, b, s) = m
  BY DEF After
<1>3. Sound(d, t, m)
  BY DEF Before, Sound
<1>4. CASE s \in {"IPBPERR", "WRPROT"} /\ b.op # "INIT" /\ MustRefuse(d, b)
  <2>1. Word(s) = "refused"
    BY <1>4 DEF Word
  <2> QED
    BY <1>1, <1>2, <1>3, <1>4, <2>1 DEF Done, Does, Refuses
<1>5. CASE s = "COMPLETE" /\ b.op \in {"STATUS", "TEST"}
  <2>1. Word(s) = "ok" /\ ~MustRefuse(d, b)
    BY <1>5 DEF Word, MustRefuse
  <2> QED
    BY <1>1, <1>2, <1>3, <1>5, <2>1 DEF Done, Does, Obeys, Reports
<1> QED
  BY <1>4, <1>5

LEMMA RewindDone ==
  ASSUME NEW d, NEW t, NEW m, NEW b, NEW k, Before(d, t, m, b, k),
         NEW s \in {"COMPLETE", "IPBPERR"}, NEW r,
         r = Outcome([Closed(d) EXCEPT !.fileNo = 0], t, s),
         \/ b.op = "INIT" /\ s = IF b.badLen THEN "IPBPERR" ELSE "COMPLETE"
         \/ b.op \in {"REWIND", "RETENSION"} /\ s = "COMPLETE"
  PROVE  Done(d, t, m, b, r)
<1> DEFINE e == [Closed(d) EXCEPT !.fileNo = 0]
<1>1. r.drive = e /\ r.tape = t /\ r.status = s /\ r.data = <<>>
  BY DEF Outcome
<1>2. Placed(e, t, "bot", k) /\ HeadOf(e, t) = StartOfTape
  <2>1. Placed(d, t, m, k)
    BY DEF Before
  <2> QED
    BY <2>1, RewindMoves DEF StartOfTape
<1> HIDE DEF e
<1>3. After(m, b, s) = "bot"
  BY DEF After
<1>4. Sound(e, t, "bot")
  BY <1>2 DEF Sound
<1>5. CASE MustRefuse(d, b)
  <2>1. b.op = "INIT" /\ Word(s) = "refused"
    BY <1>5 DEF MustRefuse, Word
  <2> QED
    BY <1>1, <1>2, <1>3, <1>4, <1>5, <2>1 DEF Done, Does, Refuses
<1>6. CASE ~MustRefuse(d, b)
  <2>1. Word(s) = "ok"
    BY <1>6 DEF MustRefuse, Word
  <2> QED
    BY <1>1, <1>2, <1>3, <1>4, <1>6, <2>1 DEF Done, Does, Obeys, Rewinds
<1> QED
  BY <1>5, <1>6

LEMMA EraseDone ==
  ASSUME NEW d, NEW t, NEW m, NEW b, NEW k, Before(d, t, m, b, k),
         b.op = "ERASE", NEW r, r = EraseCmd(d, t)
  PROVE  Done(d, t, m, b, r)
<1>1. CASE d.readonly
  <2>1. r = Outcome(d, t, "WRPROT")
    BY <1>1 DEF EraseCmd
  <2>2. MustRefuse(d, b)
    BY <1>1 DEF MustRefuse
  <2> QED
    BY <2>1, <2>2, Unchanged
<1>2. CASE ~d.readonly
  <2>1. m = "bot" /\ Placed(d, t, m, k)
    BY DEF Before, Suits
  <2>2. /\ Placed(r.drive, r.tape, "bot", 0) /\ FilesOf(r.tape) = <<>>
        /\ HeadOf(r.drive, r.tape) = StartOfTape
        /\ r.status = "COMPLETE" /\ r.data = <<>>
    BY <1>2, <2>1, EraseMoves DEF StartOfTape
  <2>3. After(m, b, r.status) = "bot" /\ Word(r.status) = "ok"
    BY <2>2 DEF After, Word
  <2>4. Sound(r.drive, r.tape, "bot")
    BY <2>2 DEF Sound
  <2>5. ~MustRefuse(d, b)
    BY <1>2 DEF MustRefuse
  <2> QED
    BY <2>2, <2>3, <2>4, <2>5 DEF Done, Does, Obeys, Erases
<1> QED
  BY <1>1, <1>2

LEMMA ReadDone ==
  ASSUME NEW d, NEW t, NEW m, NEW b, NEW k, Before(d, t, m, b, k),
         b.op = "READ", NEW r, r = ReadCmd(d, t, b)
  PROVE  Done(d, t, m, b, r)
<1>1. CASE b.badLen
  <2>1. r = Outcome(d, t, "IPBPERR")
    BY <1>1 DEF ReadCmd
  <2>2. MustRefuse(d, b)
    BY <1>1 DEF MustRefuse
  <2> QED
    BY <2>1, <2>2, Unchanged
<1>2. CASE ~b.badLen
  <2>1. m \in {"bot", "reading"} /\ Placed(d, t, m, k) /\ IopbOK(b)
    BY DEF Before, Suits
  <2>2. /\ Placed(r.drive, t, "reading", k) /\ r.tape = t
        /\ r.status \in {"COMPLETE", "FILENMARK", "READEOT", "EOD"}
        /\ ReadGives(FilesOf(t), HeadOf(d, t), b.count, r, HeadOf(r.drive, t))
    BY <1>2, <2>1, ReadMoves
  <2>3. After(m, b, r.status) = "reading"
    BY <2>2 DEF After
  <2>4. Sound(r.drive, r.tape, "reading")
    BY <2>2 DEF Sound
  <2>5. ~MustRefuse(d, b)
    BY <1>2 DEF MustRefuse
  <2> QED
    BY <2>2, <2>3, <2>4, <2>5 DEF Done, Does, Obeys, Reads
<1> QED
  BY <1>1, <1>2

LEMMA SkipDone ==
  ASSUME NEW d, NEW t, NEW m, NEW b, NEW k, Before(d, t, m, b, k),
         b.op = "SKIP", NEW r, r = SkipCmd(d, t, b)
  PROVE  Done(d, t, m, b, r)
<1>1. m \in {"bot", "reading"} /\ Placed(d, t, m, k) /\ IopbOK(b)
  BY DEF Before, Suits
<1>2. /\ Placed(r.drive, t, "reading", k) /\ r.tape = t /\ r.data = <<>>
      /\ r.status = (IF SkipsTo(d, t, b) > Len(FilesOf(t)) THEN "EOD" ELSE "COMPLETE")
      /\ HeadOf(r.drive, t) = [file |-> SkipsTo(d, t, b), block |-> 0]
  BY <1>1, SkipMoves DEF SkipsTo
<1>3. r.status \in {"EOD", "COMPLETE"}
      /\ Word(r.status) = (IF SkipsTo(d, t, b) > Len(FilesOf(t)) THEN "end" ELSE "ok")
  BY <1>2 DEF Word
<1>4. After(m, b, r.status) = "reading"
  BY <1>3 DEF After
<1>5. Sound(r.drive, r.tape, "reading")
  BY <1>2 DEF Sound
<1>6. ~MustRefuse(d, b)
  BY DEF MustRefuse
<1> QED
  BY <1>2, <1>3, <1>4, <1>5, <1>6 DEF Done, Does, Obeys, Skips

LEMMA WriteDone ==
  ASSUME NEW d, NEW t, NEW m, NEW b, NEW k, Before(d, t, m, b, k),
         b.op = "WRITE", NEW r \in WriteCmd(d, t, b)
  PROVE  Done(d, t, m, b, r)
<1>1. CASE b.badLen \/ d.readonly
  <2>1. \E s \in {"IPBPERR", "WRPROT"} : r = Outcome(d, t, s)
    BY <1>1 DEF WriteCmd
  <2>2. MustRefuse(d, b)
    BY <1>1 DEF MustRefuse
  <2> QED
    BY <2>1, <2>2, Unchanged
<1>2. CASE ~(b.badLen \/ d.readonly)
  <2>1. m \in {"bot", "writing"} /\ Placed(d, t, m, k) /\ IopbOK(b)
        /\ (m = "writing" => d.onTape = CountBlocks(t))
    BY DEF Before, Suits, Modes
  <2>2. Sound(r.drive, r.tape, "writing") /\ Writes(FilesOf(t), HeadOf(d, t), b, r)
    <3>1. CASE d.fileNo = 0 /\ ~d.openW
      <4>1. r \in WriteUpToEnd([d EXCEPT !.onTape = 0], Erased(t), b)
        BY <1>2, <3>1 DEF WriteCmd
      <4> QED
        BY <2>1, <3>1, <4>1, WritesFromStart
    <3>2. CASE ~(d.fileNo = 0 /\ ~d.openW)
      <4>1. r \in WriteUpToEnd(d, t, b)
        BY <1>2, <3>2 DEF WriteCmd
      <4>2. m = "writing"
        BY <2>1, <3>2 DEF Placed
      <4> QED
        BY <2>1, <3>2, <4>1, <4>2, WritesOn
    <3> QED
      BY <3>1, <3>2
  <2>3. r.status \in {"COMPLETE", "WROTEEOT", "TAPERROR"}
    BY <2>2 DEF Writes, WrittenTo, FailedAt
  <2>4. After(m, b, r.status) = "writing"
    BY <2>3 DEF After
  <2>5. ~MustRefuse(d, b)
    BY <1>2 DEF MustRefuse
  <2> QED
    BY <2>2, <2>4, <2>5 DEF Done, Does, Obeys
<1> QED
  BY <1>1, <1>2

LEMMA AppendDone ==
  ASSUME NEW d, NEW t, NEW m, NEW b, NEW k, Before(d, t, m, b, k),
         b.op = "APPEND", NEW r \in AppendCmd(d, t, b)
  PROVE  Done(d, t, m, b, r)
<1>1. CASE b.badLen \/ d.readonly
  <2>1. \E s \in {"IPBPERR", "WRPROT"} : r = Outcome(d, t, s)
    BY <1>1 DEF AppendCmd
  <2>2. MustRefuse(d, b)
    BY <1>1 DEF MustRefuse
  <2> QED
    BY <2>1, <2>2, Unchanged
<1>2. CASE ~(b.badLen \/ d.readonly)
  <2>1. Placed(d, t, m, k) /\ IopbOK(b)
    BY DEF Before
  <2>2. Sound(r.drive, r.tape, "writing") /\ Appends(FilesOf(t), b, r)
    BY <1>2, <2>1, AppendMoves
  <2>3. r.status \in {"COMPLETE", "WROTEEOT", "TAPERROR"}
    BY <2>2 DEF Appends, WrittenTo, FailedAt
  <2>4. After(m, b, r.status) = "writing"
    BY <2>3 DEF After
  <2>5. ~MustRefuse(d, b)
    BY <1>2 DEF MustRefuse
  <2> QED
    BY <2>2, <2>4, <2>5 DEF Done, Does, Obeys
<1> QED
  BY <1>1, <1>2

LEMMA CommandDone ==
  ASSUME NEW d, NEW t, NEW m, NEW b, NEW k, Before(d, t, m, b, k),
         NEW r \in Outcomes(d, t, b)
  PROVE  Done(d, t, m, b, r)
<1>1. b.op \in Commands
  BY DEF Before, IopbOK
<1>2. CASE b.op = "INIT"
  <2>1. r = InitCmd(d, t, b)
    BY <1>2 DEF Outcomes
  <2> DEFINE s == IF b.badLen THEN "IPBPERR" ELSE "COMPLETE"
  <2>2. s \in {"COMPLETE", "IPBPERR"}
        /\ r = Outcome([Closed(d) EXCEPT !.fileNo = 0], t, s)
        /\ s = IF b.badLen THEN "IPBPERR" ELSE "COMPLETE"
    BY <2>1 DEF InitCmd
  <2> HIDE DEF s
  <2> QED
    BY <1>2, <2>2, RewindDone
<1>3. CASE b.op \in {"REWIND", "RETENSION"}
  <2>1. r = Outcome([Closed(d) EXCEPT !.fileNo = 0], t, "COMPLETE")
    BY <1>3 DEF Outcomes, RewindCmd
  <2> QED
    BY <1>3, <2>1, RewindDone
<1>4. CASE b.op = "SKIP"
  <2>1. r = SkipCmd(d, t, b)
    BY <1>4 DEF Outcomes
  <2> QED
    BY <1>4, <2>1, SkipDone
<1>5. CASE b.op = "ERASE"
  <2>1. r = EraseCmd(d, t)
    BY <1>5 DEF Outcomes
  <2> QED
    BY <1>5, <2>1, EraseDone
<1>6. CASE b.op \in {"STATUS", "TEST"}
  <2>1. r = Outcome(d, t, "COMPLETE")
    BY <1>6 DEF Outcomes
  <2> QED
    BY <1>6, <2>1, Unchanged
<1>7. CASE b.op = "READ"
  <2>1. r = ReadCmd(d, t, b)
    BY <1>7 DEF Outcomes
  <2> QED
    BY <1>7, <2>1, ReadDone
<1>8. CASE b.op = "WRITE"
  <2>1. r \in WriteCmd(d, t, b)
    BY <1>8 DEF Outcomes
  <2> QED
    BY <1>8, <2>1, WriteDone
<1>9. CASE b.op = "APPEND"
  <2>1. r \in AppendCmd(d, t, b)
    BY <1>9 DEF Outcomes
  <2> QED
    BY <1>9, <2>1, AppendDone
<1>10. CASE b.op = "UNKNOWN"
  <2>1. r = Outcome(d, t, "IPBPERR") /\ MustRefuse(d, b)
    BY <1>10 DEF Outcomes, MustRefuse
  <2> QED
    BY <1>10, <2>1, Unchanged
<1> QED
  BY <1>1, <1>2, <1>3, <1>4, <1>5, <1>6, <1>7, <1>8, <1>9, <1>10 DEF Commands

-----------------------------------------------------------------------------
(* The invariant holds at first, and after every step.                     *)
LEMMA DirectoryIs ==
  ASSUME NEW fs \in Tapes
  PROVE  /\ Len(fs) \in Nat
         /\ Directory(fs) \in [0 .. Len(fs) - 1 -> Seq(Blocks)]
         /\ FilesOf(Directory(fs)) = fs
<1> DEFINE t == Directory(fs)
           k == Len(fs)
<1>1. fs \in Seq(Seq(Blocks)) /\ k \in Nat
  BY CsHostAssumption
<1>2. t \in [0 .. k - 1 -> Seq(Blocks)] /\ \A i \in 1 .. k : t[i - 1] = fs[i]
  <2>1. t = [n \in 0 .. k - 1 |-> fs[n + 1]]
    BY DEF Directory
  <2>2. \A n \in 0 .. k - 1 : n + 1 \in 1 .. k /\ fs[n + 1] \in Seq(Blocks)
    BY <1>1
  <2>3. \A i \in 1 .. k : i - 1 \in 0 .. k - 1 /\ (i - 1) + 1 = i
    BY <1>1
  <2> HIDE DEF t, k
  <2> QED
    BY <2>1, <2>2, <2>3
<1> HIDE DEF t
<1>3. /\ FilesOf(t) \in Seq(Seq(Blocks)) /\ Len(FilesOf(t)) = k
      /\ \A i \in 1 .. k : FilesOf(t)[i] = t[i - 1]
  <2> HIDE DEF k
  <2> QED
    BY <1>1, <1>2, FilesAre
<1>4. FilesOf(t) = fs
  BY <1>1, <1>2, <1>3, SameFiles
<1> QED
  BY <1>1, <1>2, <1>4 DEF t

(* Another tape put in, of the files fs.                                   *)
LEMMA InsertMoves ==
  ASSUME NEW d \in DriveType, NEW fs \in Tapes, NEW p \in BOOLEAN, NEW m,
         NEW e, e = Inserted(d, Directory(fs), p)
  PROVE  /\ e \in DriveType /\ Sound(e, Directory(fs), m)
         /\ HeadOf(e, Directory(fs)) = StartOfTape
<1> DEFINE t == Directory(fs)
           c == Closed(d)
           n == CountBlocks(t)
           k == Len(fs)
<1>1. k \in Nat /\ t \in [0 .. k - 1 -> Seq(Blocks)]
  BY DirectoryIs
<1>2. c \in DriveType /\ c.openR = FALSE /\ c.openW = FALSE
  BY ClosedDrive
<1> HIDE DEF t, c, k
<1>3. n \in Nat
  BY <1>1, CountedBlocks
<1>4. e = [c EXCEPT !.fileNo = 0, !.readonly = p, !.onTape = n]
  BY DEF Inserted, t, c
<1> HIDE DEF n
<1>5. /\ e \in DriveType /\ e.fileNo = 0 /\ e.onTape = n
      /\ e.openR = FALSE /\ e.openW = FALSE
  <2> DEFINE f == [c EXCEPT !.fileNo = 0, !.readonly = p]
  <2>1. /\ f \in DriveType /\ f.fileNo = 0 /\ f.openR = FALSE /\ f.openW = FALSE
    BY <1>2 DEF DriveType
  <2>2. e = [f EXCEPT !.onTape = n]
    BY <1>4
  <2> HIDE DEF f
  <2> QED
    BY <1>3, <2>1, <2>2, CountedDrive
<1>6. Placed(e, t, m, k)
  BY <1>1, <1>5 DEF Placed
<1>7. HeadOf(e, t) = StartOfTape
  BY <1>5 DEF HeadOf, StartOfTape
<1> QED
  BY <1>5, <1>6, <1>7 DEF Sound, t, n

LEMMA ResetMoves ==
  ASSUME NEW d, NEW t, NEW m, Sound(d, t, m)
  PROVE  /\ ResetDrive \in DriveType /\ Sound(ResetDrive, t, "bot")
         /\ HeadOf(ResetDrive, t) = StartOfTape
<1>1. PICK k : Placed(d, t, m, k)
  BY DEF Sound
<1>2. /\ ResetDrive \in DriveType /\ ResetDrive.fileNo = 0
      /\ ResetDrive.openR = FALSE /\ ResetDrive.openW = FALSE
  BY DEF ResetDrive, DriveType
<1>3. Placed(ResetDrive, t, "bot", k)
  BY <1>1, <1>2 DEF Placed
<1>4. HeadOf(ResetDrive, t) = StartOfTape
  BY <1>2 DEF HeadOf, StartOfTape
<1> QED
  BY <1>2, <1>3, <1>4 DEF Sound

LEMMA IopbsOK ==
  ASSUME NEW b \in Iopbs
  PROVE  IopbOK(b)
  BY IopbAssumption DEF IopbOK

(* A command that is executed, with what it changes.                       *)
LEMMA ExecuteDoes ==
  ASSUME TapeSound, Execute
  PROVE  \E r \in Outcomes(drive, tape, iopb) :
           /\ drive' = r.drive /\ tape' = r.tape
           /\ back' = [status |-> r.status, data |-> r.data]
           /\ mode' = After(mode, iopb, r.status)
           /\ iopb \in Iopbs
           /\ Done(drive, tape, mode, iopb, r)
<1>1. iopb \in Iopbs /\ Suits(iopb, mode)
  BY DEF TapeSound, Execute, Busy
<1>2. PICK r \in Outcomes(drive, tape, iopb) :
        /\ drive' = r.drive /\ tape' = r.tape
        /\ back' = [status |-> r.status, data |-> r.data]
        /\ mode' = ModeAfter(iopb, r.status)
  BY DEF Execute
<1>3. PICK k : Placed(drive, tape, mode, k)
  BY DEF TapeSound, Sound
<1>4. Before(drive, tape, mode, iopb, k)
  BY <1>1, <1>3, IopbsOK DEF Before, TapeSound, Sound
<1>5. Done(drive, tape, mode, iopb, r)
  BY <1>4, CommandDone
<1>6. mode' = After(mode, iopb, r.status)
  BY <1>2 DEF ModeAfter, After
<1> QED
  BY <1>1, <1>2, <1>5, <1>6

LEMMA AfterMode ==
  ASSUME NEW m \in Modes, NEW b, NEW s
  PROVE  After(m, b, s) \in Modes
  BY DEF After, Modes

LEMMA InitSound == HostInit => TapeSound
<1> SUFFICES ASSUME HostInit
             PROVE  TapeSound
  OBVIOUS
<1>1. PICK fs \in Tapes : \E p \in BOOLEAN :
        tape = Directory(fs) /\ drive = Inserted(ResetDrive, tape, p)
  BY DEF HostInit
<1>2. ResetDrive \in DriveType
  BY DEF ResetDrive, DriveType
<1>3. Sound(drive, tape, mode)
  BY <1>1, <1>2, InsertMoves
<1>4. mode \in Modes /\ ~Busy(cs)
  BY DEF HostInit, Modes, Busy, ResetRegs
<1> QED
  BY <1>3, <1>4 DEF TapeSound

LEMMA StepSound == IInv /\ IInv' /\ TapeSound /\ [HostNext]_allVars => TapeSound'
<1> SUFFICES ASSUME IInv, IInv', TapeSound, [HostNext]_allVars
             PROVE  TapeSound'
  OBVIOUS
<1>0. Busy(cs)' => pc' \in {"poll", "sleep"}
  BY DEF IInv, AddressInv
<1>1. ASSUME UNCHANGED <<drive, tape, mode>>,
             Busy(cs)' => iopb' \in Iopbs /\ Suits(iopb', mode)
      PROVE  TapeSound'
  BY <1>1 DEF TapeSound, Suits
<1>2. ASSUME UNCHANGED <<drive, tape, mode>>, pc' \in {"low", "handed"}
      PROVE  TapeSound'
  BY <1>0, <1>1, <1>2
<1>3. ASSUME NEW a \in Places, HandHigh(a)
      PROVE  TapeSound'
  BY <1>2, <1>3 DEF HandHigh, Hands, cartridge
<1>4. ASSUME NEW a \in Places, HandLowOnly(a)
      PROVE  TapeSound'
  BY <1>2, <1>4 DEF HandLowOnly, Hands, cartridge
<1>5. CASE HandLow
  BY <1>2, <1>5 DEF HandLow, Hands, cartridge
<1>6. CASE Arm
  BY <1>2, <1>6 DEF Arm, Hands, cartridge
<1>7. CASE Again
  BY <1>2, <1>7 DEF Again, Hands, cartridge
<1>8. ASSUME NEW b \in Iopbs, Start(b)
      PROVE  TapeSound'
  BY <1>1, <1>8 DEF Start, Permitted, cartridge
<1>9. CASE Wait
  <2>1. Busy(cs) /\ UNCHANGED <<drive, tape, mode, iopb>>
    BY <1>9 DEF Wait, Busy, cartridge
  <2> QED
    BY <1>1, <2>1 DEF TapeSound
<1>10. CASE Execute
  <2>1. PICK r : /\ drive' = r.drive /\ tape' = r.tape
                 /\ mode' = After(mode, iopb, r.status)
                 /\ Done(drive, tape, mode, iopb, r)
    BY <1>10, ExecuteDoes
  <2>2. Sound(drive, tape, mode)'
    <3>1. Sound(drive', tape', mode')
      BY <2>1 DEF Done
    <3> QED
      BY <3>1 DEF Sound, Placed, CountBlocks, Recorded, Missing, Exists
  <2>3. mode' \in Modes
    BY <2>1, AfterMode DEF TapeSound
  <2>4. ~Busy(cs)'
    <3>1. cs' = Finished(cs, iopb) /\ cs \in CsType
      BY <1>10 DEF Execute, IInv, AddressTypes
    <3> QED
      BY <3>1 DEF Finished, Busy, CsType
  <2> QED
    BY <2>2, <2>3, <2>4 DEF TapeSound
<1>11. CASE SeesDone
  <2>1. ~Busy(cs)' /\ UNCHANGED <<drive, tape, mode>>
    BY <1>11 DEF SeesDone, Busy, cartridge
  <2> QED
    BY <1>1, <2>1
<1>12. CASE Reset
  <2>1. /\ drive' = ResetDrive /\ tape' = tape /\ mode' = "bot" /\ cs' = ResetRegs
    BY <1>12 DEF Reset
  <2>2. Sound(drive', tape', mode')
    BY <2>1, ResetMoves DEF TapeSound
  <2>3. Sound(drive, tape, mode)'
    BY <2>2 DEF Sound, Placed, CountBlocks, Recorded, Missing, Exists
  <2> QED
    BY <2>1, <2>3 DEF TapeSound, Modes, Busy, ResetRegs
<1>13. ASSUME NEW fs \in Tapes, NEW p \in BOOLEAN, InsertTape(fs, p)
       PROVE  TapeSound'
  <2>1. /\ tape' = Directory(fs) /\ drive' = Inserted(drive, Directory(fs), p)
        /\ UNCHANGED <<mode, cs, iopb>>
    BY <1>13 DEF InsertTape
  <2>2. drive \in DriveType
    BY DEF TapeSound, Sound, Placed
  <2>3. Sound(drive', tape', mode)
    BY <2>1, <2>2, InsertMoves
  <2>4. Sound(drive, tape, mode)'
    BY <2>1, <2>3 DEF Sound, Placed, CountBlocks, Recorded, Missing, Exists
  <2> QED
    BY <2>1, <2>4 DEF TapeSound, Busy, Suits
<1>14. CASE UNCHANGED allVars
  <2>1. UNCHANGED <<drive, tape, mode, cs, iopb>>
    BY <1>14 DEF allVars, cartridge
  <2> QED
    BY <1>1, <2>1 DEF TapeSound, Busy
<1> QED
  BY <1>3, <1>4, <1>5, <1>6, <1>7, <1>8, <1>9, <1>10, <1>11, <1>12, <1>13, <1>14
  DEF HostNext

LEMMA AlwaysSound == HostSpec => []TapeSound
<1> QED
  BY InitSound, StepSound, Inductive, PTL DEF HostSpec

(* cs.c counts the blocks of the tape right while it is written, whatever  *)
(* is on the tape and however the writing began: its end of tape is where  *)
(* it should be.                                                           *)
THEOREM TapeCounted == HostSpec => []Counted
<1>1. TapeSound => Counted
  BY DEF TapeSound, Sound, Counted
<1> QED
  BY <1>1, AlwaysSound, PTL

-----------------------------------------------------------------------------
(* Every step of the streamer is a step of the tape, or none.              *)
LEMMA TapeMoves ==
  ASSUME NEW r, drive' = r.drive, tape' = r.tape,
         back' = [status |-> r.status, data |-> r.data]
  PROVE  /\ FilesOf(tape)' = FilesOf(r.tape)
         /\ HeadOf(drive, tape)' = HeadOf(r.drive, r.tape)
         /\ ResultOf' = [data |-> r.data, says |-> Word(r.status)]
<1>1. FilesOf(tape)' = FilesOf(r.tape)
  BY DEF FilesOf, Missing, Exists
<1>2. HeadOf(drive, tape)' = HeadOf(r.drive, r.tape)
  BY DEF HeadOf
<1>3. ResultOf' = [data |-> r.data, says |-> Word(r.status)]
  BY DEF ResultOf, Word
<1> QED
  BY <1>1, <1>2, <1>3

(* The drive says that it is locked until another tape is put in.          *)
LEMMA SameLock ==
  ASSUME NEW d \in DriveType, NEW t, NEW b, IopbOK(b), NEW r \in Outcomes(d, t, b)
  PROVE  r.drive.readonly = d.readonly
<1> DEFINE Same(e) ==
             /\ DOMAIN e = DOMAIN d
             /\ e.readonly = d.readonly
<1>1. DOMAIN d = {"fileNo", "openR", "openW", "remaining", "onTape", "readonly"}
  BY DEF DriveType
<1>2. ASSUME NEW e, Same(e)
      PROVE  /\ Same(Closed(e))
             /\ \A n : /\ Same([e EXCEPT !.fileNo = n])
                       /\ Same([e EXCEPT !.onTape = n])
                       /\ Same([e EXCEPT !.remaining = n])
                       /\ Same([e EXCEPT !.openW = n])
                       /\ Same([e EXCEPT !.openR = n])
  BY <1>1, <1>2 DEF Closed
<1>3. ASSUME NEW e, NEW u, NEW s, Same(e)
      PROVE  Same(Outcome(e, u, s).drive)
  BY <1>3 DEF Outcome
<1>4. Same(d)
  OBVIOUS
<1>5. ASSUME NEW e, NEW u, Same(e), NEW q \in WriteUpToEnd(e, u, b)
      PROVE  Same(q.drive)
  <2> DEFINE e2 == [e EXCEPT !.openW = TRUE, !.onTape = @ + Len(b.data)]
  <2>1. Same(e2)
    <3>1. e2 = [[e EXCEPT !.openW = TRUE] EXCEPT !.onTape = e.onTape + Len(b.data)]
      BY <1>1, <1>5
    <3> HIDE DEF e2, Same
    <3>2. Same([e EXCEPT !.openW = TRUE])
      BY <1>2, <1>5
    <3> QED
      BY <1>2, <3>1, <3>2
  <2>2. Same([Closed(e2) EXCEPT !.fileNo = e.fileNo + 1])
    <3> HIDE DEF e2, Same
    <3>1. Same(Closed(e2))
      BY <1>2, <2>1
    <3> QED
      BY <1>2, <3>1
  <2>3. \/ \E u2, s : q = Outcome(e, u2, s)
        \/ \E u2, s : q = Outcome(e2, u2, s)
        \/ \E u2, s : q = Outcome([Closed(e2) EXCEPT !.fileNo = e.fileNo + 1], u2, s)
    BY <1>5 DEF WriteUpToEnd, TapeWrite
  <2> HIDE DEF e2, Same
  <2> QED
    BY <1>3, <1>5, <2>1, <2>2, <2>3
<1>6. ASSUME NEW n
      PROVE  Same([Closed(d) EXCEPT !.fileNo = n])
  <2> HIDE DEF Same
  <2>1. Same(Closed(d))
    BY <1>2, <1>4
  <2> QED
    BY <1>2, <2>1
<1>7. ASSUME NEW n
      PROVE  Same(OpenedR(d, t, n))
  <2> DEFINE c == Closed(d)
             e == [c EXCEPT !.fileNo = n, !.openR = TRUE, !.remaining = Len(t[n])]
             c1 == [c EXCEPT !.fileNo = n]
             c2 == [c1 EXCEPT !.openR = TRUE]
  <2>1. Same(c)
    BY <1>2, <1>4
  <2>2. e = [c2 EXCEPT !.remaining = Len(t[n])]
    BY <1>1, <2>1
  <2> HIDE DEF Same, c
  <2>3. Same(c1)
    BY <1>2, <2>1
  <2> HIDE DEF c1
  <2>4. Same(c2)
    BY <1>2, <2>3
  <2> HIDE DEF c2, e
  <2>5. Same(e)
    BY <1>2, <2>2, <2>4
  <2>6. OpenedR(d, t, n) = e \/ OpenedR(d, t, n) = [Closed(d) EXCEPT !.fileNo = n]
    BY DEF OpenedR, e, c
  <2> QED
    BY <1>6, <2>5, <2>6
<1>8. ASSUME NEW e, Same(e)
      PROVE  Same(TapeRead(e, t, b).drive)
  <2> DEFINE n == Min({b.count, e.remaining})
             e2 == [e EXCEPT !.remaining = @ - n]
  <2>1. e2 = [e EXCEPT !.remaining = e.remaining - n]
    BY <1>1, <1>8
  <2> HIDE DEF e2, n, Same
  <2>2. Same(e2)
    BY <1>2, <1>8, <2>1
  <2>3. TapeRead(e, t, b).drive = e \/ TapeRead(e, t, b).drive = e2
    <3> USE DEF e2, n
    <3> QED
      BY Zenon DEF TapeRead, Outcome
  <2> QED
    BY <1>8, <2>2, <2>3
<1> HIDE DEF Same
<1>9. ASSUME b.op \in {"INIT", "REWIND", "RETENSION"}
      PROVE  Same(r.drive)
  <2>1. \E s : r = Outcome([Closed(d) EXCEPT !.fileNo = 0], t, s)
    BY <1>9 DEF Outcomes, InitCmd, RewindCmd
  <2> QED
    BY <1>3, <1>6, <2>1
<1>10. ASSUME b.op \in {"STATUS", "TEST", "UNKNOWN"}
       PROVE  Same(r.drive)
  BY <1>3, <1>4, <1>10 DEF Outcomes
<1>11. ASSUME b.op = "SKIP"
       PROVE  Same(r.drive)
  <2>1. \E n, s : r = Outcome([Closed(d) EXCEPT !.fileNo = n], t, s)
    BY <1>11 DEF Outcomes, SkipCmd
  <2> QED
    BY <1>3, <1>6, <2>1
<1>12. ASSUME b.op = "ERASE"
       PROVE  Same(r.drive)
  <2>1. r = EraseCmd(d, t)
    BY <1>12 DEF Outcomes
  <2>2. \/ r = Outcome(d, t, "WRPROT")
        \/ r = Outcome([Closed(d) EXCEPT !.onTape = 0], Erased(t), "COMPLETE")
    BY <2>1 DEF EraseCmd
  <2>3. Same(Closed(d))
    BY <1>2, <1>4
  <2>4. Same([Closed(d) EXCEPT !.onTape = 0])
    BY <1>2, <2>3
  <2> QED
    BY <1>3, <1>4, <2>2, <2>4
<1>13. ASSUME b.op = "READ"
       PROVE  Same(r.drive)
  <2>1. r = ReadCmd(d, t, b)
    BY <1>13 DEF Outcomes
  <2> DEFINE e == IF ~d.openR THEN OpenedR(d, t, d.fileNo)
                  ELSE IF d.remaining = 0 THEN OpenedR(d, t, d.fileNo + 1) ELSE d
  <2>2. Same(e)
    BY <1>4, <1>7
  <2>3. \/ \E s : r = Outcome(d, t, s)
        \/ r = TapeRead(e, t, b)
        \/ \E s : r = Outcome(e, t, s)
    BY <2>1, Zenon DEF ReadCmd
  <2> HIDE DEF e
  <2> QED
    BY <1>3, <1>4, <1>8, <2>2, <2>3
<1>14. ASSUME b.op = "WRITE"
       PROVE  Same(r.drive)
  <2>1. r \in WriteCmd(d, t, b)
    BY <1>14 DEF Outcomes
  <2>2. Same([d EXCEPT !.onTape = 0])
    BY <1>2, <1>4
  <2>3. \/ \E s : r = Outcome(d, t, s)
        \/ r \in WriteUpToEnd([d EXCEPT !.onTape = 0], Erased(t), b)
        \/ r \in WriteUpToEnd(d, t, b)
    BY <2>1 DEF WriteCmd
  <2> QED
    BY <1>3, <1>4, <1>5, <2>2, <2>3
<1>15. ASSUME b.op = "APPEND"
       PROVE  Same(r.drive)
  <2>1. r \in AppendCmd(d, t, b)
    BY <1>15 DEF Outcomes
  <2> DEFINE end == Missing(t, d.fileNo)
             to == IF end # 0 /\ IsFilemark(t, end - 1) THEN end - 1 ELSE end
             c  == Closed(d)
             c1 == [c EXCEPT !.fileNo = to]
             n  == CountBlocks(t)
             e  == [c EXCEPT !.fileNo = to, !.onTape = n]
  <2>2. \/ \E s : r = Outcome(d, t, s)
        \/ r \in WriteUpToEnd(e, t, b)
    BY <2>1 DEF AppendCmd
  <2>3. Same(c) /\ DOMAIN c = {"fileNo", "openR", "openW", "remaining", "onTape", "readonly"}
    BY <1>1, <1>2, <1>4 DEF Same
  <2> HIDE DEF c, to, n
  <2>4. Same(c1) /\ e = [c1 EXCEPT !.onTape = n]
    BY <1>2, <2>3
  <2> HIDE DEF c1, e
  <2>5. Same(e)
    BY <1>2, <2>4
  <2> QED
    BY <1>3, <1>4, <1>5, <2>2, <2>5
<1>16. Same(r.drive)
  BY <1>9, <1>10, <1>11, <1>12, <1>13, <1>14, <1>15 DEF IopbOK, Commands
<1> QED
  BY <1>16 DEF Same

(* How much is on the tape, the same for Tape.                             *)
LEMMA SameAmount ==
  ASSUME NEW fs
  PROVE  Abstract!Amount(fs) = AmountOf(fs)
<1>1. ASSUME NEW S
      PROVE  Abstract!Cardinality(S) = Cardinality(S)
  BY Zenon DEF Cardinality, Abstract!Cardinality
<1> QED
  BY <1>1, Zenon DEF Abstract!Amount, AmountOf

(* What the request says of the block.                                     *)
LEMMA RequestIs ==
  ASSUME NEW b, IopbOK(b)
  PROVE  LET c == RequestOf(b)
         IN /\ c.op = b.op /\ c.count = b.count /\ c.data = b.data
            /\ c.mark = b.filemarks /\ c.bad = b.badLen
            /\ c # NoRequest
  BY DEF RequestOf, NoRequest, IopbOK, Commands

LEMMA RewindsIs ==
  ASSUME NEW r, drive' = r.drive, tape' = r.tape,
         back' = [status |-> r.status, data |-> r.data],
         Rewinds(tape, r)
  PROVE  Abstract!Rewind
<1>1. /\ FilesOf(tape)' = FilesOf(tape)
      /\ HeadOf(drive, tape)' = StartOfTape
      /\ ResultOf' = [data |-> <<>>, says |-> "ok"]
  BY TapeMoves DEF Rewinds
<1> QED
  BY <1>1 DEF Abstract!Rewind, Abstract!Says, Abstract!Start, StartOfTape

LEMMA ReportsIs ==
  ASSUME NEW r, drive' = r.drive, tape' = r.tape,
         back' = [status |-> r.status, data |-> r.data],
         Reports(drive, tape, r)
  PROVE  Abstract!Test
<1>1. /\ FilesOf(tape)' = FilesOf(tape)
      /\ HeadOf(drive, tape)' = HeadOf(drive, tape)
      /\ ResultOf' = [data |-> <<>>, says |-> "ok"]
  BY TapeMoves DEF Reports
<1> QED
  BY <1>1 DEF Abstract!Test, Abstract!Says

LEMMA ErasesIs ==
  ASSUME NEW r, drive' = r.drive, tape' = r.tape,
         back' = [status |-> r.status, data |-> r.data],
         Erases(r)
  PROVE  Abstract!Erase
<1>1. /\ FilesOf(tape)' = <<>>
      /\ HeadOf(drive, tape)' = StartOfTape
      /\ ResultOf' = [data |-> <<>>, says |-> "ok"]
  BY TapeMoves DEF Erases
<1> QED
  BY <1>1 DEF Abstract!Erase, Abstract!Says, Abstract!Start, StartOfTape

LEMMA SkipsIs ==
  ASSUME NEW r, drive' = r.drive, tape' = r.tape,
         back' = [status |-> r.status, data |-> r.data],
         Skips(drive, tape, iopb, r)
  PROVE  Abstract!Skip(iopb.count)
<1> DEFINE to == SkipsTo(drive, tape, iopb)
<1>1. /\ FilesOf(tape)' = FilesOf(tape)
      /\ HeadOf(drive, tape)' = [file |-> to, block |-> 0]
      /\ ResultOf' = [data |-> <<>>, says |-> Word(r.status)]
      /\ Word(r.status) = (IF to > Len(FilesOf(tape)) THEN "end" ELSE "ok")
  BY TapeMoves DEF Skips
<1>2. to = Min({HeadOf(drive, tape).file + iopb.count, Len(FilesOf(tape)) + 1})
  BY DEF SkipsTo
<1> HIDE DEF to
<1>3. to = Abstract!Min({HeadOf(drive, tape).file + iopb.count,
                         Len(FilesOf(tape)) + 1})
  BY <1>2, Zenon DEF Min, Abstract!Min
<1>4. (HeadOf(drive, tape)').file = to
  BY <1>1
<1> QED
  BY <1>1, <1>3, <1>4 DEF Abstract!Skip, Abstract!Says

LEMMA ReadsIs ==
  ASSUME NEW r, drive' = r.drive, tape' = r.tape,
         back' = [status |-> r.status, data |-> r.data],
         Reads(drive, tape, iopb, r)
  PROVE  Abstract!Read(iopb.count)
<1> DEFINE fs == FilesOf(tape)
           hd == HeadOf(drive, tape)
           A  == AheadOf(fs, hd)
<1>1. /\ FilesOf(tape)' = fs
      /\ HeadOf(drive, tape)' = HeadOf(r.drive, r.tape)
      /\ ResultOf' = [data |-> r.data, says |-> Word(r.status)]
  BY TapeMoves DEF Reads
<1>2. Abstract!Ahead = A
  BY DEF Abstract!Ahead, AheadOf
<1>3. /\ r.data = SubSeq(A, 1, IF iopb.count < Len(A) THEN iopb.count ELSE Len(A))
      /\ Word(r.status) = (IF Len(r.data) < Len(A) THEN "ok"
                           ELSE IF hd.file < Len(fs) THEN "mark" ELSE "end")
      /\ HeadOf(r.drive, r.tape) =
           (IF Len(r.data) < Len(A) THEN [hd EXCEPT !.block = @ + Len(r.data)]
            ELSE IF hd.file > Len(fs) THEN hd
            ELSE [file |-> hd.file + 1, block |-> 0])
  BY DEF Reads, ReadGives
<1>4. (Word(r.status) = "ok") <=> Len(r.data) < Len(A)
  BY <1>3
<1> HIDE DEF A, hd, fs
<1>5. HeadOf(drive, tape)' =
         (IF Word(r.status) = "ok" THEN [hd EXCEPT !.block = @ + Len(r.data)]
          ELSE IF hd.file > Len(fs) THEN hd
          ELSE [file |-> hd.file + 1, block |-> 0])
  BY <1>1, <1>3, <1>4
<1> QED
  BY <1>1, <1>2, <1>3, <1>5 DEF Abstract!Read, hd, fs

LEMMA WrittenIs ==
  ASSUME NEW r, drive' = r.drive, tape' = r.tape,
         back' = [status |-> r.status, data |-> r.data],
         NEW b, b.filemarks \in BOOLEAN, NEW fs, NEW f, WrittenTo(fs, f, b, r)
  PROVE  Abstract!Written(fs, f, b.data, b.filemarks)
<1> DEFINE gs == GrownFiles(fs, f, b.data)
<1>1. /\ FilesOf(tape)' = FilesOf(r.tape)
      /\ HeadOf(drive, tape)' = HeadOf(r.drive, r.tape)
      /\ ResultOf' = [data |-> <<>>, says |-> "ok"]
  BY TapeMoves DEF WrittenTo, Word
<1>2. gs = IF f > Len(fs) THEN Append(fs, b.data) ELSE [fs EXCEPT ![f] = @ \o b.data]
  BY DEF GrownFiles
<1>3. /\ FilesOf(r.tape) = gs \/ (b.filemarks /\ FilesOf(r.tape) = Append(gs, <<>>))
      /\ HeadOf(r.drive, r.tape) =
           (IF b.filemarks THEN [file |-> f + 1, block |-> 0]
            ELSE [file |-> f, block |-> Len(gs[f])])
  BY DEF WrittenTo
<1> HIDE DEF gs
<1>4. FilesOf(tape)' \in {gs} \cup (IF b.filemarks THEN {Append(gs, <<>>)} ELSE {})
  BY <1>1, <1>3
<1> QED
  BY <1>1, <1>2, <1>3, <1>4 DEF Abstract!Written, Abstract!Says

LEMMA FailsIs ==
  ASSUME NEW r, drive' = r.drive, tape' = r.tape,
         back' = [status |-> r.status, data |-> r.data],
         NEW fs, NEW hd, NEW s, FailedAt(fs, hd, s, r)
  PROVE  Abstract!Fails(fs, hd, Word(s))
<1>1. /\ FilesOf(tape)' = fs
      /\ HeadOf(drive, tape)' = hd
      /\ ResultOf' = [data |-> <<>>, says |-> Word(s)]
  BY TapeMoves DEF FailedAt
<1> QED
  BY <1>1 DEF Abstract!Fails, Abstract!Says

LEMMA Failures == Word("WROTEEOT") = "full" /\ Word("TAPERROR") = "failed"
  BY DEF Word

LEMMA WritesIs ==
  ASSUME NEW r, drive' = r.drive, tape' = r.tape,
         back' = [status |-> r.status, data |-> r.data], iopb.filemarks \in BOOLEAN,
         Writes(FilesOf(tape), HeadOf(drive, tape), iopb, r)
  PROVE  Abstract!Write(iopb.data, iopb.filemarks)
<1> DEFINE fs0 == FilesOf(tape)
           hd  == HeadOf(drive, tape)
           fs  == Kept(fs0, hd)
<1>1. \/ hd = StartOfTape \/ hd.file = Len(fs0) + 1
      \/ hd.file = Len(fs0) /\ AheadOf(fs0, hd) = <<>>
  BY DEF Writes
<1>2. Abstract!Ahead = AheadOf(fs0, hd)
  BY DEF Abstract!Ahead, AheadOf
<1>3. IF Abstract!Amount(fs) > Capacity THEN Abstract!Fails(fs, hd, "full")
      ELSE \/ Abstract!Written(fs, hd.file, iopb.data, iopb.filemarks)
           \/ hd.block = 0 /\ Abstract!Fails(fs, hd, "failed")
  <2>1. IF AmountOf(fs) > Capacity THEN FailedAt(fs, hd, "WROTEEOT", r)
        ELSE \/ WrittenTo(fs, hd.file, iopb, r)
             \/ hd.block = 0 /\ FailedAt(fs, hd, "TAPERROR", r)
    BY DEF Writes
  <2> HIDE DEF fs, hd
  <2>2. WrittenTo(fs, hd.file, iopb, r)
          => Abstract!Written(fs, hd.file, iopb.data, iopb.filemarks)
    BY WrittenIs
  <2>3. /\ FailedAt(fs, hd, "WROTEEOT", r) => Abstract!Fails(fs, hd, "full")
        /\ FailedAt(fs, hd, "TAPERROR", r) => Abstract!Fails(fs, hd, "failed")
    BY FailsIs, Failures
  <2> QED
    BY <2>1, <2>2, <2>3, SameAmount
<1>4. fs = IF HeadOf(drive, tape) = Abstract!Start THEN <<>> ELSE FilesOf(tape)
  BY DEF Kept, StartOfTape, Abstract!Start
<1> HIDE DEF fs
<1> QED
  BY <1>1, <1>2, <1>3, <1>4 DEF Abstract!Write, Abstract!Start, StartOfTape

LEMMA AppendsIs ==
  ASSUME NEW r, drive' = r.drive, tape' = r.tape,
         back' = [status |-> r.status, data |-> r.data], iopb.filemarks \in BOOLEAN,
         Appends(FilesOf(tape), iopb, r)
  PROVE  Abstract!AppendFile(iopb.data, iopb.filemarks)
<1> DEFINE fs == FilesOf(tape)
           f  == FileToAppend(fs)
           hd == [file |-> f, block |-> 0]
<1>1. IF AmountOf(fs) > Capacity THEN FailedAt(fs, hd, "WROTEEOT", r)
      ELSE WrittenTo(fs, f, iopb, r) \/ FailedAt(fs, hd, "TAPERROR", r)
  BY DEF Appends
<1>2. f = IF FilesOf(tape) # <<>> /\ Last(FilesOf(tape)) = <<>>
          THEN Len(FilesOf(tape)) ELSE Len(FilesOf(tape)) + 1
  BY DEF FileToAppend
<1>3. Abstract!Last(FilesOf(tape)) = Last(FilesOf(tape))
  BY DEF Last, Abstract!Last
<1> HIDE DEF f
<1>4. WrittenTo(fs, f, iopb, r) => Abstract!Written(fs, f, iopb.data, iopb.filemarks)
  BY WrittenIs
<1>5. /\ FailedAt(fs, hd, "WROTEEOT", r) => Abstract!Fails(fs, hd, "full")
      /\ FailedAt(fs, hd, "TAPERROR", r) => Abstract!Fails(fs, hd, "failed")
  BY FailsIs, Failures
<1>6. Abstract!Amount(fs) = AmountOf(fs)
  BY SameAmount
<1> QED
  BY <1>1, <1>2, <1>3, <1>4, <1>5, <1>6 DEF Abstract!AppendFile

LEMMA RefusesIs ==
  ASSUME NEW r, drive' = r.drive, tape' = r.tape,
         back' = [status |-> r.status, data |-> r.data], IopbOK(iopb),
         Refuses(drive, tape, iopb, r)
  PROVE  Abstract!Refuse(RequestOf(iopb))
<1>1. /\ FilesOf(tape)' = FilesOf(tape)
      /\ HeadOf(drive, tape)' =
           (IF iopb.op = "INIT" THEN StartOfTape ELSE HeadOf(drive, tape))
      /\ ResultOf' = [data |-> <<>>, says |-> "refused"]
  BY TapeMoves DEF Refuses
<1>2. RequestOf(iopb).op = iopb.op
  BY RequestIs
<1> QED
  BY <1>1, <1>2 DEF Abstract!Refuse, Abstract!Says, Abstract!Start, StartOfTape

LEMMA ObeysIs ==
  ASSUME NEW r, drive' = r.drive, tape' = r.tape,
         back' = [status |-> r.status, data |-> r.data], IopbOK(iopb),
         Obeys(drive, tape, iopb, r)
  PROVE  Abstract!Does(RequestOf(iopb))
<1> DEFINE c == RequestOf(iopb)
<1>1. /\ c.op = iopb.op /\ c.count = iopb.count /\ c.data = iopb.data
      /\ c.mark = iopb.filemarks /\ iopb.filemarks \in BOOLEAN
  BY RequestIs DEF IopbOK
<1> HIDE DEF c
<1>2. Abstract!Does(c) <=>
        \/ c.op = "READ" /\ Abstract!Read(c.count)
        \/ c.op = "SKIP" /\ Abstract!Skip(c.count)
        \/ c.op \in {"INIT", "REWIND", "RETENSION"} /\ Abstract!Rewind
        \/ c.op = "ERASE" /\ Abstract!Erase
        \/ c.op \in {"STATUS", "TEST"} /\ Abstract!Test
        \/ c.op = "WRITE" /\ Abstract!Write(c.data, c.mark)
        \/ c.op = "APPEND" /\ Abstract!AppendFile(c.data, c.mark)
  BY DEF Abstract!Does
<1>3. CASE iopb.op \in {"INIT", "REWIND", "RETENSION"} /\ Rewinds(tape, r)
  BY <1>1, <1>2, <1>3, RewindsIs DEF c
<1>4. CASE iopb.op \in {"STATUS", "TEST"} /\ Reports(drive, tape, r)
  BY <1>1, <1>2, <1>4, ReportsIs DEF c
<1>5. CASE iopb.op = "ERASE" /\ Erases(r)
  BY <1>1, <1>2, <1>5, ErasesIs DEF c
<1>6. CASE iopb.op = "READ" /\ Reads(drive, tape, iopb, r)
  BY <1>1, <1>2, <1>6, ReadsIs DEF c
<1>7. CASE iopb.op = "SKIP" /\ Skips(drive, tape, iopb, r)
  BY <1>1, <1>2, <1>7, SkipsIs DEF c
<1>8. CASE iopb.op = "WRITE" /\ Writes(FilesOf(tape), HeadOf(drive, tape), iopb, r)
  BY <1>1, <1>2, <1>8, WritesIs DEF c
<1>9. CASE iopb.op = "APPEND" /\ Appends(FilesOf(tape), iopb, r)
  BY <1>1, <1>2, <1>9, AppendsIs DEF c
<1> QED
  BY <1>3, <1>4, <1>5, <1>6, <1>7, <1>8, <1>9 DEF Obeys

(* The block that is executed is the request, and what comes of it is its  *)
(* answer.                                                                 *)
LEMMA ExecuteIs ==
  ASSUME IInv, TapeSound, Execute
  PROVE  Abstract!Answer
<1>1. PICK r \in Outcomes(drive, tape, iopb) :
        /\ drive' = r.drive /\ tape' = r.tape
        /\ back' = [status |-> r.status, data |-> r.data]
        /\ iopb \in Iopbs
        /\ Does(drive, tape, iopb, r)
  BY ExecuteDoes DEF Done
<1>2. IopbOK(iopb)
  BY <1>1, IopbsOK
<1>3. Busy(cs) /\ ~Busy(cs)'
  <2>1. cs' = Finished(cs, iopb) /\ cs \in CsType /\ cs.execCount = 1
    BY DEF Execute, IInv, AddressTypes
  <2> QED
    BY <2>1 DEF Finished, Busy, CsType
<1> DEFINE c == RequestOf(iopb)
<1>4. Request = c /\ c # NoRequest /\ Request' = NoRequest
  BY <1>2, <1>3, RequestIs DEF Request
<1>5. drive'.readonly = drive.readonly
  <2>1. drive \in DriveType
    BY DEF TapeSound, Sound, Placed
  <2> QED
    BY <1>1, <1>2, <2>1, SameLock
<1>6. Abstract!Refused(c) <=> MustRefuse(drive, iopb)
  BY <1>2, RequestIs DEF Abstract!Refused, MustRefuse
<1>7. IF Abstract!Refused(c) THEN Abstract!Refuse(c) ELSE Abstract!Does(c)
  BY <1>1, <1>2, <1>6, RefusesIs, ObeysIs DEF Does
<1> HIDE DEF c
<1> QED
  BY <1>4, <1>5, <1>7 DEF Abstract!Answer

LEMMA TapeInits == HostInit => Abstract!TapeInit
<1> SUFFICES ASSUME HostInit
             PROVE  Abstract!TapeInit
  OBVIOUS
<1>1. PICK fs \in Tapes, p \in BOOLEAN :
        tape = Directory(fs) /\ drive = Inserted(ResetDrive, Directory(fs), p)
  BY DEF HostInit
<1>2. ResetDrive \in DriveType
  BY DEF ResetDrive, DriveType
<1>3. HeadOf(drive, tape) = StartOfTape /\ drive \in DriveType
  BY <1>1, <1>2, InsertMoves
<1>4. FilesOf(tape) = fs
  BY <1>1, DirectoryIs
<1>5. ResultOf = [data |-> <<>>, says |-> "nothing"]
  BY DEF HostInit, Blank, ResultOf, Word
<1>6. Request = NoRequest
  BY DEF HostInit, ResetRegs, Busy, Request
<1>7. drive.readonly \in BOOLEAN
  BY <1>3 DEF DriveType
<1> QED
  BY <1>3, <1>4, <1>5, <1>6, <1>7
  DEF Abstract!TapeInit, Abstract!Start, Abstract!Nothing, StartOfTape

LEMMA TapeSteps ==
  IInv /\ IInv' /\ TapeSound /\ [HostNext]_allVars
    => [Abstract!TapeNext]_(Abstract!tapeVars)
<1> SUFFICES ASSUME IInv, IInv', TapeSound, [HostNext]_allVars
             PROVE  Abstract!TapeNext \/ UNCHANGED Abstract!tapeVars
  OBVIOUS
<1>1. ASSUME UNCHANGED <<drive, tape>>
      PROVE  /\ FilesOf(tape)' = FilesOf(tape)
             /\ HeadOf(drive, tape)' = HeadOf(drive, tape)
             /\ drive'.readonly = drive.readonly
  <2>1. FilesOf(tape)' = FilesOf(tape)
    BY <1>1 DEF FilesOf, Missing, Exists
  <2>2. HeadOf(drive, tape)' = HeadOf(drive, tape)
    BY <1>1 DEF HeadOf
  <2> QED
    BY <1>1, <2>1, <2>2
<1>2. ASSUME back' = back
      PROVE  ResultOf' = ResultOf
  BY <1>2 DEF ResultOf, Word
<1>3. ASSUME back' = Blank
      PROVE  ResultOf' = Abstract!Nothing
  BY <1>3 DEF ResultOf, Word, Blank, Abstract!Nothing
<1>4. /\ Busy(cs) => pc \in {"poll", "sleep"}
      /\ Busy(cs)' => pc' \in {"poll", "sleep"}
  BY DEF IInv, AddressInv
<1>5. ASSUME UNCHANGED <<drive, tape, back>>, Request' = Request
      PROVE  UNCHANGED Abstract!tapeVars
  BY <1>1, <1>2, <1>5 DEF Abstract!tapeVars
<1>6. ASSUME NEW a \in Places, HandHigh(a) \/ HandLowOnly(a)
      PROVE  UNCHANGED Abstract!tapeVars
  <2>1. /\ pc \in {"idle", "next"} /\ pc' \in {"low", "handed"}
        /\ UNCHANGED <<drive, tape, back>>
    BY <1>6 DEF HandHigh, HandLowOnly, Hands, cartridge
  <2> QED
    BY <1>4, <1>5, <2>1 DEF Request
<1>7. CASE HandLow \/ Arm \/ Again
  <2>1. /\ pc \in {"idle", "next", "low", "handed"} /\ pc' = "handed"
        /\ UNCHANGED <<drive, tape, back>>
    BY <1>7 DEF HandLow, Arm, Again, Hands, cartridge
  <2> QED
    BY <1>4, <1>5, <2>1 DEF Request
<1>8. ASSUME NEW b \in Iopbs, Start(b)
      PROVE  Abstract!TapeNext
  <2>1. /\ pc \in {"handed", "next"} /\ cs' = Go(cs) /\ iopb' = b
        /\ UNCHANGED <<drive, tape, back>>
    BY <1>8 DEF Start, cartridge
  <2>2. ~Busy(cs) /\ Busy(cs)'
    <3>1. cs \in CsType
      BY DEF IInv, AddressTypes
    <3> QED
      BY <1>4, <2>1, <3>1 DEF Go, Busy, CsType
  <2>3. Request = NoRequest /\ Request' = RequestOf(b)
    BY <2>1, <2>2 DEF Request, RequestOf
  <2>4. Abstract!Ask(RequestOf(b))
    BY <1>1, <1>2, <2>1, <2>3 DEF Abstract!Ask
  <2> QED
    BY <2>4 DEF Abstract!TapeNext
<1>9. CASE Wait
  <2>1. UNCHANGED <<drive, tape, back, iopb>> /\ Busy(cs)
    BY <1>9 DEF Wait, cartridge, Busy
  <2>2. Busy(cs)'
    <3>1. cs \in CsType /\ cs' = Counting(cs)
      BY <1>9 DEF IInv, AddressTypes, Wait
    <3> QED
      BY <3>1 DEF Counting, Busy, CsType
  <2>3. Request' = Request
    BY <2>1, <2>2 DEF Request, RequestOf
  <2> QED
    BY <1>5, <2>1, <2>3
<1>10. CASE Execute
  BY <1>10, ExecuteIs DEF Abstract!TapeNext
<1>11. CASE SeesDone
  <2>1. /\ UNCHANGED <<drive, tape, cs>> /\ back' = Blank /\ ~Busy(cs)
    BY <1>11 DEF SeesDone, cartridge
  <2>2. Request = NoRequest /\ Request' = NoRequest
    BY <2>1 DEF Request, Busy
  <2>3. Abstract!Take
    BY <1>1, <1>3, <2>1, <2>2 DEF Abstract!Take
  <2> QED
    BY <2>3 DEF Abstract!TapeNext
<1>12. CASE Reset
  <2>1. /\ drive' = ResetDrive /\ tape' = tape /\ back' = Blank /\ cs' = ResetRegs
    BY <1>12 DEF Reset
  <2>2. Request' = NoRequest
    BY <2>1 DEF Request, Busy, ResetRegs
  <2>3. HeadOf(ResetDrive, tape) = StartOfTape
    BY ResetMoves DEF TapeSound
  <2>4. HeadOf(drive, tape)' = StartOfTape /\ drive'.readonly = FALSE
    BY <2>1, <2>3 DEF HeadOf, ResetDrive
  <2>5. FilesOf(tape)' = FilesOf(tape)
    BY <2>1 DEF FilesOf, Missing, Exists
  <2>6. Abstract!Reset
    BY <1>3, <2>1, <2>2, <2>4, <2>5 DEF Abstract!Reset, Abstract!Start, StartOfTape
  <2> QED
    BY <2>6 DEF Abstract!TapeNext
<1>13. ASSUME NEW fs \in Tapes, NEW p \in BOOLEAN, InsertTape(fs, p)
       PROVE  Abstract!TapeNext
  <2>1. /\ tape' = Directory(fs) /\ drive' = Inserted(drive, Directory(fs), p)
        /\ back' = back /\ cs' = cs /\ iopb' = iopb
    BY <1>13 DEF InsertTape
  <2>2. drive \in DriveType
    BY DEF TapeSound, Sound, Placed
  <2> DEFINE e == Inserted(drive, Directory(fs), p)
  <2>3. HeadOf(e, Directory(fs)) = StartOfTape /\ e \in DriveType
    BY <2>2, InsertMoves
  <2>4. FilesOf(Directory(fs)) = fs
    BY DirectoryIs
  <2> HIDE DEF e
  <2>5. tape' = Directory(fs) /\ drive' = e
    BY <2>1 DEF e
  <2>6. FilesOf(tape)' = fs
    BY <2>4, <2>5 DEF FilesOf, Missing, Exists
  <2>7. HeadOf(drive, tape)' = StartOfTape
    BY <2>3, <2>5 DEF HeadOf
  <2>8. Request' = Request
    BY <2>1 DEF Request, Busy, RequestOf
  <2>9. drive'.readonly \in BOOLEAN
    BY <2>3, <2>5 DEF DriveType
  <2>10. Abstract!Exchange
    BY <1>2, <2>1, <2>6, <2>7, <2>8, <2>9
    DEF Abstract!Exchange, Abstract!Start, StartOfTape
  <2> QED
    BY <2>10 DEF Abstract!TapeNext
<1>14. CASE UNCHANGED allVars
  <2>1. UNCHANGED <<drive, tape, back, cs, iopb>>
    BY <1>14 DEF allVars, cartridge
  <2>2. Request' = Request
    BY <2>1 DEF Request, Busy, RequestOf
  <2> QED
    BY <1>5, <2>1, <2>2
<1> QED
  BY <1>6, <1>7, <1>8, <1>9, <1>10, <1>11, <1>12, <1>13, <1>14 DEF HostNext

(* The commands of cs.c make a tape of a directory of files.  Each block   *)
(* that cs_processContinue executes is answered once, by what it asked     *)
(* for: a write or an append that is COMPLETE has put the data of its own  *)
(* block, and nothing else, at the end of the tape; a read returns what    *)
(* was written there; a skip has moved as far as it was told; what is      *)
(* refused or fails has written nothing, and WROTEEOT is said when the     *)
(* tape is full and only then.  This is for any tapes, data and counts,    *)
(* through failed writes, resets and other tapes put in.                   *)
THEOREM TapeImplemented == HostSpec => ImplementsTape
<1>1. HostInit => Abstract!TapeInit
  BY TapeInits
<1>2. IInv /\ IInv' /\ TapeSound /\ [HostNext]_allVars
        => [Abstract!TapeNext]_(Abstract!tapeVars)
  BY TapeSteps
<1> QED
  BY <1>1, <1>2, Inductive, AlwaysSound, PTL
  DEF HostSpec, ImplementsTape, Abstract!TapeSpec

=============================================================================

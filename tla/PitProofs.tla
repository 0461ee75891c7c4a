----------------------------- MODULE PitProofs -----------------------------
(***************************************************************************)
(* Proofs about Pit, for any width of the registers.  The period is exact  *)
(* because of OnSchedule: what is left to count and what was counted since *)
(* the last zero make up one period.                                       *)
(***************************************************************************)
EXTENDS Pit, TLAPS

(* A register holds 24 bits, fewer than the variable it is kept in.        *)
LEMMA SizeFacts == Size \in Nat /\ Size > 1 /\ CounterWrap > Size
<1>1. Byte * Byte \in Nat /\ Byte * Byte > 1
  BY PitAssumption
<1>2. Byte * Byte * Byte \in Nat /\ Byte * Byte * Byte > 1
  BY <1>1, PitAssumption
<1>3. QED
  BY <1>2, PitAssumption DEF Size

LEMMA ModRange ==
  ASSUME NEW x \in Int, NEW n \in Nat, n > 0
  PROVE  x % n \in 0 .. n - 1
OBVIOUS

(* A byte written into a register leaves a value of 24 bits.               *)
LEMMA SetByteRange ==
  ASSUME NEW x \in Nat, NEW k \in 0 .. 2, NEW b \in 0 .. Byte - 1
  PROVE  SetByte(x, k, b) \in 0 .. Max
<1> DEFINE w == << 1, Byte, Byte * Byte >>[k + 1]
           v == (x \div (w * Byte)) * (w * Byte) + b * w + (x % w)
<1>1. w \in Nat /\ w > 0
  <2>1. CASE k = 0
    <3>1. w = 1
      BY <2>1, PitAssumption
    <3>2. QED
      BY <3>1
  <2>2. CASE k = 1
    <3>1. w = Byte
      BY <2>2, PitAssumption
    <3>2. QED
      BY <3>1, PitAssumption
  <2>3. CASE k = 2
    <3>1. w = Byte * Byte
      BY <2>3, PitAssumption
    <3>2. QED
      BY <3>1, PitAssumption
  <2>4. QED
    BY <2>1, <2>2, <2>3
<1> HIDE DEF w
<1>2. w * Byte \in Nat /\ w * Byte > 0
  BY <1>1, PitAssumption
<1>3. x \div (w * Byte) \in Int /\ x % w \in Int
  BY <1>1, <1>2
<1>4. v \in Int
  BY <1>1, <1>2, <1>3
<1> HIDE DEF v
<1>5. v % Size \in 0 .. Size - 1
  BY <1>4, SizeFacts, ModRange
<1>6. SetByte(x, k, b) = v % Size
  BY DEF SetByte, v, w
<1>7. QED
  BY <1>5, <1>6 DEF Max

-----------------------------------------------------------------------------
(* A call of pit_update_irq makes line and static the request.             *)
LEMMA UpdateSettles ==
  ASSUME LineFollowsRequest, UpdateIrq, asserted \in BOOLEAN,
         enabled' \in BOOLEAN, zds' \in BOOLEAN, tintr' \in BOOLEAN
  PROVE  /\ LineFollowsRequest'
         /\ asserted' \in BOOLEAN /\ line' \in BOOLEAN
<1>1. asserted' = Request' /\ Request' \in BOOLEAN
  BY DEF UpdateIrq, Request
<1>2. line' = IF Request' = asserted THEN line ELSE Request'
  BY DEF UpdateIrq
<1>3. line' = Request'
  BY <1>2 DEF LineFollowsRequest
<1>4. QED
  BY <1>1, <1>3 DEF LineFollowsRequest

(* And without one the registers it looks at must not have changed.        *)
LEMMA RequestKept ==
  ASSUME LineFollowsRequest, UNCHANGED <<tcr, zds, irq>>
  PROVE  LineFollowsRequest'
BY DEF LineFollowsRequest, Request, tcr, irq

LEMMA IInvInit == Init => IInv
<1> SUFFICES ASSUME Init PROVE IInv
  OBVIOUS
<1>1. TypeOK
  <2>1. /\ enabled \in BOOLEAN /\ rollover \in BOOLEAN /\ tintr \in BOOLEAN
        /\ zds \in BOOLEAN /\ asserted \in BOOLEAN /\ line \in BOOLEAN
        /\ even \in BOOLEAN
    BY Zenon DEF Init
  <2>2. counter \in 0 .. CounterWrap - 1 /\ preload \in 0 .. Max /\ since \in Nat
    BY SizeFacts, PitAssumption DEF Init, Max
  <2>3. QED
    BY <2>1, <2>2 DEF TypeOK
<1>2. LineFollowsRequest /\ OnSchedule
  BY Zenon DEF Init, LineFollowsRequest, Request, OnSchedule
<1>3. QED
  BY <1>1, <1>2 DEF IInv

LEMMA WriteTCRStep ==
  ASSUME IInv, NEW en \in BOOLEAN, NEW ro \in BOOLEAN, NEW ti \in BOOLEAN,
         WriteTCR(en, ro, ti)
  PROVE  IInv'
<1> USE DEF IInv
<1>1. /\ enabled' \in BOOLEAN /\ rollover' \in BOOLEAN /\ tintr' \in BOOLEAN
      /\ since' \in Nat /\ preload' \in 0 .. Max
  BY DEF WriteTCR, TypeOK
<1>2. counter' \in 0 .. CounterWrap - 1
  BY SizeFacts, PitAssumption DEF WriteTCR, TypeOK, Max
<1>3. zds' \in BOOLEAN
  <2>1. zds' = (zds \/ ((~enabled /\ en) /\ Detect))
    BY DEF WriteTCR
  <2>2. QED
    BY <2>1, Zenon
<1>4. even' \in BOOLEAN
  <2>1. even' = ((~enabled /\ en) /\ ~ro)
    BY DEF WriteTCR
  <2>2. QED
    BY <2>1, Zenon
<1>5. LineFollowsRequest' /\ asserted' \in BOOLEAN /\ line' \in BOOLEAN
  BY <1>1, <1>3, UpdateSettles DEF WriteTCR, TypeOK
<1>6. OnSchedule'
  BY DEF WriteTCR, OnSchedule
<1>7. QED
  BY <1>1, <1>2, <1>3, <1>4, <1>5, <1>6 DEF TypeOK

LEMMA WriteTSRStep ==
  ASSUME IInv, NEW clear \in BOOLEAN, WriteTSR(clear)
  PROVE  IInv'
<1> USE DEF IInv
<1>1. UNCHANGED <<tcr, counter, preload, past>> /\ UpdateIrq
  BY DEF WriteTSR
<1>2. zds' \in BOOLEAN
  <2>1. zds' = (zds /\ ~clear)
    BY DEF WriteTSR
  <2>2. QED
    BY <2>1, Zenon
<1>3. LineFollowsRequest' /\ asserted' \in BOOLEAN /\ line' \in BOOLEAN
  BY <1>1, <1>2, UpdateSettles DEF TypeOK, tcr
<1>4. OnSchedule'
  BY <1>1 DEF OnSchedule, Period, tcr, past
<1>5. QED
  BY <1>1, <1>2, <1>3, <1>4 DEF TypeOK, tcr, past

(* Writing the counter or the preload gives up the schedule.               *)
LEMMA WriteDataStep ==
  ASSUME IInv, NEW k \in 0 .. 2, NEW b \in 0 .. Byte - 1,
         WriteCounter(k, b) \/ WritePreload(k, b)
  PROVE  IInv'
<1> USE DEF IInv
<1>1. UNCHANGED <<tcr, zds, irq>> /\ since' = 0 /\ even' = FALSE
  BY DEF WriteCounter, WritePreload
<1>2. counter' \in 0 .. CounterWrap - 1 /\ preload' \in 0 .. Max
  <2>1. counter \in Nat /\ preload \in Nat
    BY SizeFacts, PitAssumption DEF TypeOK, Max
  <2>2. SetByte(counter, k, b) \in 0 .. Max /\ SetByte(preload, k, b) \in 0 .. Max
    BY <2>1, SetByteRange
  <2>3. \A x \in 0 .. Max : x \in 0 .. CounterWrap - 1
    BY SizeFacts, PitAssumption DEF Max
  <2>4. QED
    BY <2>2, <2>3 DEF WriteCounter, WritePreload, TypeOK
<1>3. LineFollowsRequest'
  BY <1>1, RequestKept
<1>4. OnSchedule' /\ even' \in BOOLEAN
  BY <1>1, Zenon DEF OnSchedule
<1>5. since' \in Nat
  BY <1>1
<1>6. QED
  BY <1>1, <1>2, <1>3, <1>4, <1>5 DEF TypeOK, tcr, irq

-----------------------------------------------------------------------------
(* One pulse takes one off the counter, or loads it with a period first.   *)
LEMMA DecrementedFacts ==
  ASSUME TypeOK
  PROVE  /\ Decremented \in 0 .. CounterWrap - 1
         /\ counter # 0 => Decremented = counter - 1
         /\ counter = 0 => Decremented = Period - 1
BY SizeFacts, PitAssumption DEF TypeOK, Decremented, Period, Max

(* The schedule is kept, and a zero that it leads to is on time.           *)
LEMMA PulseKeepsSchedule ==
  ASSUME TypeOK, OnSchedule, Pulse
  PROVE  OnSchedule' /\ (even /\ counter' = 0 => since + 1 = Period)
<1>1. Period' = Period
  BY DEF Pulse, Period, tcr
<1>2. Period \in Nat /\ Period > 0
  BY SizeFacts, PitAssumption DEF TypeOK, Period, Max
<1>3. /\ counter' = Decremented
      /\ since' = IF counter' = 0 \/ ~even THEN 0 ELSE since + 1
      /\ even' = (even \/ counter' = 0)
  BY DEF Pulse
<1>4. counter \in Nat /\ since \in Nat
  BY PitAssumption DEF TypeOK
<1>5. ASSUME even
      PROVE  counter' + since + 1 = Period
  <2>1. CASE since = 0 /\ counter = 0
    BY <1>2, <1>3, <2>1, DecrementedFacts
  <2>2. CASE since = 0 /\ counter = preload /\ ~rollover /\ counter # 0
    <3>1. Period = counter
      BY <2>2 DEF Period
    <3>2. QED
      BY <1>3, <1>4, <2>2, <3>1, DecrementedFacts
  <2>3. CASE since + counter = Period /\ counter # 0
    BY <1>3, <1>4, <2>3, DecrementedFacts
  <2>4. QED
    BY <1>4, <1>5, <2>1, <2>2, <2>3 DEF OnSchedule
<1>6. counter' \in Nat
  BY <1>3, DecrementedFacts, PitAssumption
<1>7. ASSUME even, counter' = 0
      PROVE  since + 1 = Period
  BY <1>2, <1>4, <1>5, <1>7
<1>8. OnSchedule'
  <2>1. CASE counter' = 0
    BY <1>3, <2>1 DEF OnSchedule
  <2>2. CASE counter' # 0 /\ even
    <3>1. since' + counter' = Period'
      BY <1>1, <1>2, <1>3, <1>4, <1>5, <1>6, <2>2
    <3>2. QED
      BY <2>2, <3>1 DEF OnSchedule
  <2>3. CASE counter' # 0 /\ ~even
    BY <1>3, <2>3, Zenon DEF OnSchedule
  <2>4. QED
    BY <2>1, <2>2, <2>3
<1>9. QED
  BY <1>7, <1>8

LEMMA PulseStep ==
  ASSUME IInv, Pulse
  PROVE  IInv'
<1> USE DEF IInv
<1>1. enabled /\ UNCHANGED <<tcr, preload>>
      /\ counter' = Decremented /\ ((UNCHANGED irq /\ ~Detect) \/ UpdateIrq)
  BY DEF Pulse
<1>2. zds' \in BOOLEAN /\ even' \in BOOLEAN
  <2>1. zds' = (zds \/ Detect) /\ even' = (even \/ counter' = 0)
    BY DEF Pulse
  <2>2. QED
    BY <2>1, Zenon
<1>3. since' \in Nat
  BY DEF Pulse, TypeOK
<1>4. LineFollowsRequest' /\ asserted' \in BOOLEAN /\ line' \in BOOLEAN
  <2>1. CASE UpdateIrq
    BY <1>1, <1>2, <2>1, UpdateSettles DEF TypeOK, tcr
  <2>2. CASE UNCHANGED irq /\ ~Detect
    <3>1. zds' = zds
      BY <2>2, Zenon DEF Pulse, TypeOK
    <3>2. QED
      BY <1>1, <2>2, <3>1, RequestKept DEF TypeOK, irq
  <2>3. QED
    BY <1>1, <2>1, <2>2
<1>5. OnSchedule'
  BY PulseKeepsSchedule
<1>6. QED
  BY <1>1, <1>2, <1>3, <1>4, <1>5, DecrementedFacts DEF TypeOK, tcr

LEMMA ResetStep ==
  ASSUME IInv, PulseReset
  PROVE  IInv'
<1>1. Init'
  BY DEF PulseReset, Init
<1>2. QED
  BY <1>1, IInvInit, PTL

LEMMA IInvStep == IInv /\ [Next]_vars => IInv'
<1> SUFFICES ASSUME IInv, [Next]_vars PROVE IInv'
  OBVIOUS
<1>1. CASE HostSetsUp
  BY <1>1, WriteTCRStep, WriteDataStep, ResetStep DEF HostSetsUp
<1>2. CASE Pulse
  BY <1>2, PulseStep
<1>3. ASSUME NEW clear \in BOOLEAN, WriteTSR(clear)
      PROVE  IInv'
  BY <1>3, WriteTSRStep
<1>4. CASE UNCHANGED vars
  BY <1>4 DEF vars, tcr, irq, past, IInv, TypeOK, LineFollowsRequest, Request,
              OnSchedule, Period
<1>5. QED
  BY <1>1, <1>2, <1>3, <1>4 DEF Next

(* The registers keep their widths, the line follows the request, and the  *)
(* counter is on schedule.                                                 *)
THEOREM Invariant == Spec => []IInv
BY IInvInit, IInvStep, PTL DEF Spec

(* The level 6 line and pitIntAsserted are what the registers ask for.     *)
THEOREM LineCorrect == Spec => []LineFollowsRequest
<1>1. IInv => LineFollowsRequest
  BY DEF IInv
<1>2. QED
  BY <1>1, Invariant, PTL

(* Between two zeros lie exactly as many pulses as the preload says.       *)
THEOREM PeriodCorrect == Spec => PeriodExact
<1>1. IInv /\ [Next]_vars
      => [Pulse /\ even /\ counter' = 0 => since + 1 = Period]_vars
  <2> SUFFICES ASSUME IInv, [Next]_vars, Pulse, even, counter' = 0
              PROVE  since + 1 = Period
    OBVIOUS
  <2>1. QED
    BY PulseKeepsSchedule DEF IInv
<1>2. QED
  BY <1>1, Invariant, PTL DEF Spec, PeriodExact
=============================================================================

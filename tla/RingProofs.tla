----------------------------- MODULE RingProofs -----------------------------
(***************************************************************************)
(* Rings of any size that are not filled without the mutex are queues; the *)
(* connections use them as such, and each character waits for the port it  *)
(* was typed for.                                                          *)
(***************************************************************************)
EXTENDS Sock, SequenceTheorems, TLAPS

(* The arithmetic of the indices: what the masks of charringbuffer.h do.   *)
LEMMA PlusIn ==
  ASSUME NEW i \in Slots, NEW k \in Slots
  PROVE  Plus(i, k) \in Slots
BY RingAssumption DEF Plus, Slots

LEMMA OneIsSlot == 0 \in Slots /\ 1 \in Slots
BY RingAssumption DEF Slots

LEMMA ItemsIn ==
  ASSUME NEW h \in Slots, NEW t \in Slots
  PROVE  /\ Minus(h, t) \in Slots
         /\ Minus(h, t) = 0 <=> h = t
         /\ Plus(t, Minus(h, t)) = h
BY RingAssumption DEF Plus, Minus, Slots

LEMMA HeadForward ==
  ASSUME NEW h \in Slots, NEW t \in Slots, Minus(h, t) # Size - 1
  PROVE  /\ Minus(Plus(h, 1), t) = Minus(h, t) + 1
         /\ \A k \in 0 .. Minus(h, t) - 1 : Plus(t, k) # h
BY RingAssumption DEF Plus, Minus, Slots

LEMMA TailForward ==
  ASSUME NEW h \in Slots, NEW t \in Slots, h # t
  PROVE  /\ Minus(h, Plus(t, 1)) = Minus(h, t) - 1
         /\ \A k \in 0 .. Minus(h, t) - 2 : Plus(Plus(t, 1), k) = Plus(t, k + 1)
BY RingAssumption DEF Plus, Minus, Slots

-----------------------------------------------------------------------------
LEMMA InitInv == RingInit => RingInv
<1> SUFFICES ASSUME RingInit PROVE RingInv
  OBVIOUS
<1>0. AnyPort \in Ports
  BY RingAssumption DEF AnyPort
<1>1. RingTypeOK
  BY <1>0, RingAssumption, OneIsSlot
  DEF RingInit, RingTypeOK, ProdType, ConsType, Cells
<1>2. \A p \in Ports : NumItems(p) = 0
  BY OneIsSlot, ItemsIn DEF RingInit, NumItems
<1>3. MutexHeld /\ ProducerSafe /\ ConsumerSafe
  BY DEF RingInit, MutexHeld, ProducerSafe, ConsumerSafe
<1>4. OnlyCharacters
  BY <1>2 DEF OnlyCharacters
<1> QED BY <1>1, <1>3, <1>4 DEF RingInv

(* The poll thread.                                                        *)
LEMMA QueueInv ==
  ASSUME RingInv, ~FillsUnlocked, NEW p \in Ports, NEW bs \in Seq(Chars),
         NEW l \in BOOLEAN, Queue(p, bs, l)
  PROVE  RingInv'
<1> USE DEF RingInv
<1>1. RingTypeOK'
  BY OneIsSlot DEF RingTypeOK, ProdType, Queue
<1>2. MutexHeld'
  BY DEF Queue, MutexHeld, RingTypeOK, ProdType
<1>3. ProducerSafe'
  BY DEF Queue, ProducerSafe, NumItems, IsFull
<1>4. ConsumerSafe'
  BY DEF Queue, ConsumerSafe, IsEmpty, Peek
<1>5. OnlyCharacters'
  BY DEF Queue, OnlyCharacters, NumItems, Peek
<1> QED BY <1>1, <1>2, <1>3, <1>4, <1>5

LEMMA TestInv ==
  ASSUME RingInv, TestFull \/ Enter
  PROVE  RingInv'
<1> USE DEF RingInv
<1>0. prod.port \in Ports
  BY DEF RingTypeOK, ProdType
<1>1. RingTypeOK'
  BY DEF RingTypeOK, ProdType, TestFull, Enter
<1>2. MutexHeld'
  BY DEF TestFull, Enter, MutexHeld, ProducerSafe, RingTypeOK, ProdType
<1>3. ProducerSafe'
  <2>1. CASE TestFull
    <3>1. /\ prod'.port = prod.port /\ prod'.bytes = prod.bytes
          /\ prod'.locked = prod.locked /\ prod'.seen = tail[prod.port]
          /\ prod'.pc = IF IsFull(prod.port) THEN "evict" ELSE "place"
      BY <2>1 DEF TestFull, RingTypeOK, ProdType
    <3>2. NumItems(prod.port)' = NumItems(prod.port)
      BY <2>1, <3>1 DEF TestFull, NumItems
    <3>3. Len(prod.bytes) >= 1
      BY <2>1 DEF TestFull, ProducerSafe, RingTypeOK, ProdType
    <3>4. NumItems(prod.port) \in Slots
      BY <1>0, ItemsIn DEF RingTypeOK, NumItems
    <3> QED BY <2>1, <3>1, <3>2, <3>3, <3>4, RingAssumption
            DEF TestFull, ProducerSafe, IsFull, Slots, RingTypeOK, ProdType
  <2>2. CASE Enter
    BY <2>2 DEF Enter, ProducerSafe, IsFull, NumItems, RingTypeOK, ProdType
  <2> QED BY <2>1, <2>2
<1>4. ConsumerSafe'
  BY DEF TestFull, Enter, ConsumerSafe, IsEmpty, Peek
<1>5. OnlyCharacters'
  BY DEF TestFull, Enter, OnlyCharacters, NumItems, Peek
<1> QED BY <1>1, <1>2, <1>3, <1>4, <1>5

LEMMA EvictInv ==
  ASSUME RingInv, Evict, NEW p \in Ports, p = prod.port
  PROVE  RingInv'
<1> USE DEF RingInv
<1>0. p \in Ports /\ head[p] \in Slots /\ tail[p] \in Slots /\ prod.locked
  BY DEF RingTypeOK, ProdType, Evict, ProducerSafe
<1>1. tail' = [tail EXCEPT ![p] = Plus(tail[p], 1)] /\ tail'[p] \in Slots
  <2>1. Plus(tail[p], 1) \in Slots
    BY <1>0, PlusIn, OneIsSlot
  <2>2. tail' = [tail EXCEPT ![p] = Plus(tail[p], 1)]
    BY DEF Evict, ProducerSafe
  <2> QED BY <2>1, <2>2 DEF RingTypeOK
<1>2. head[p] # tail[p] /\ NumItems(p) = Size - 1
  BY <1>0, ItemsIn, RingAssumption DEF Evict, ProducerSafe, IsFull, NumItems
<1>3. NumItems(p)' = NumItems(p) - 1
  BY <1>0, <1>1, <1>2, TailForward DEF Evict, NumItems, RingTypeOK
<1>4. RingTypeOK'
  BY <1>0, <1>1 DEF Evict, RingTypeOK, ProdType
<1>5. MutexHeld' /\ mutex = "poll" /\ cons.pc = "idle"
  BY <1>0 DEF Evict, MutexHeld, RingTypeOK, ProdType
<1>6. ProducerSafe'
  BY <1>0, <1>2, <1>3, RingAssumption DEF Evict, ProducerSafe, IsFull, RingTypeOK, ProdType
<1>7. ConsumerSafe'
  BY <1>5 DEF Evict, ConsumerSafe
<1>8. OnlyCharacters'
  <2> SUFFICES ASSUME NEW q \in Ports, NEW k \in 0 .. NumItems(q)' - 1
               PROVE  Peek(q, k)' \in Chars
    BY DEF OnlyCharacters
  <2>1. CASE q # p
    BY <2>1, <1>1 DEF Evict, OnlyCharacters, NumItems, Peek, RingTypeOK
  <2>2. CASE q = p
    <3>1. k + 1 \in 0 .. NumItems(p) - 1 /\ k \in 0 .. NumItems(p) - 2
      BY <2>2, <1>2, <1>3, RingAssumption
    <3>2. Peek(p, k)' = Peek(p, k + 1)
      BY <3>1, <1>0, <1>1, <1>2, TailForward DEF Evict, Peek, NumItems, RingTypeOK
    <3> QED BY <2>2, <3>1, <3>2 DEF OnlyCharacters
  <2> QED BY <2>1, <2>2
<1> QED BY <1>4, <1>5, <1>6, <1>7, <1>8

LEMMA PlaceFacts ==
  ASSUME RingInv, Place, NEW p \in Ports, p = prod.port,
         NEW n \in Int, n = NumItems(p)
  PROVE  /\ Head(prod.bytes) \in Chars
         /\ head' = [head EXCEPT ![p] = Plus(head[p], 1)]
         /\ head'[p] \in Slots
         /\ NumItems(p)' = NumItems(p) + 1
         /\ \A q \in Ports \ {p} : NumItems(q)' = NumItems(q)
         /\ \A q \in Ports : \A k \in 0 .. NumItems(q) - 1 :
              Peek(q, k)' = Peek(q, k)
         /\ Peek(p, n)' = Head(prod.bytes)
<1> USE DEF RingInv
<1>1. /\ head[p] \in Slots /\ tail[p] \in Slots
      /\ Minus(head[p], tail[p]) # Size - 1
      /\ prod.bytes \in Seq(Chars) /\ prod.bytes # <<>>
  BY DEF RingTypeOK, ProdType, Place, ProducerSafe, IsFull, NumItems
<1>2. head' = [head EXCEPT ![p] = Plus(head[p], 1)] /\ head'[p] \in Slots
  <2>1. Plus(head[p], 1) \in Slots
    BY <1>1, PlusIn, OneIsSlot
  <2>2. head' = [head EXCEPT ![p] = Plus(head[p], 1)]
    BY DEF Place
  <2> QED BY <2>1, <2>2 DEF RingTypeOK
<1>3. Head(prod.bytes) \in Chars
  BY <1>1
<1>4. NumItems(p)' = NumItems(p) + 1
  <2>1. NumItems(p)' = Minus(Plus(head[p], 1), tail[p])
    BY <1>2 DEF Place, NumItems, RingTypeOK
  <2> QED BY <1>1, <2>1, HeadForward DEF NumItems
<1>5. \A q \in Ports \ {p} : NumItems(q)' = NumItems(q)
  BY <1>2 DEF Place, NumItems, RingTypeOK
<1>6. buf' = [buf EXCEPT ![p] = [buf[p] EXCEPT ![head[p]] = Head(prod.bytes)]]
  BY DEF Place
<1>7. ASSUME NEW q \in Ports, NEW k \in 0 .. NumItems(q) - 1
      PROVE  Peek(q, k)' = Peek(q, k)
  <2>1. Peek(q, k)' = buf'[q][Plus(tail[q], k)]
    BY DEF Place, Peek
  <2>2. CASE q # p
    BY <2>1, <2>2, <1>6 DEF Peek, RingTypeOK
  <2>3. CASE q = p
    <3>1. Plus(tail[p], k) # head[p]
      BY <2>3, <1>1, HeadForward DEF NumItems
    <3>2. buf'[p] = [buf[p] EXCEPT ![head[p]] = Head(prod.bytes)]
      BY <1>6 DEF RingTypeOK
    <3>3. NumItems(p) \in Slots
      BY <1>1, ItemsIn DEF NumItems
    <3>4. k \in Slots
      BY <2>3, <3>3, RingAssumption DEF Slots
    <3>5. Plus(tail[p], k) \in Slots
      BY <3>4, <1>1, PlusIn
    <3> QED BY <2>1, <2>3, <3>1, <3>2, <3>5, <1>1 DEF Peek, RingTypeOK
  <2> QED BY <2>2, <2>3
<1>8. Peek(p, n)' = Head(prod.bytes)
  <2>1. Plus(tail[p], n) = head[p]
    BY <1>1, ItemsIn DEF NumItems
  <2>2. buf'[p][head[p]] = Head(prod.bytes)
    BY <1>1, <1>6 DEF RingTypeOK
  <2> QED BY <2>1, <2>2 DEF Place, Peek
<1> QED BY <1>2, <1>3, <1>4, <1>5, <1>7, <1>8

LEMMA PlaceInv ==
  ASSUME RingInv, Place, NEW p \in Ports, p = prod.port
  PROVE  RingInv'
<1> USE DEF RingInv
<1> DEFINE last == Len(prod.bytes) = 1
<1>0. /\ prod.bytes \in Seq(Chars) /\ prod.bytes # <<>>
      /\ NumItems(p) \in Slots /\ NumItems(p) # Size - 1
  BY ItemsIn DEF Place, ProducerSafe, RingTypeOK, ProdType, NumItems, IsFull
<1>1. /\ Head(prod.bytes) \in Chars
      /\ head' = [head EXCEPT ![p] = Plus(head[p], 1)]
      /\ head'[p] \in Slots
      /\ NumItems(p)' = NumItems(p) + 1
      /\ \A q \in Ports \ {p} : NumItems(q)' = NumItems(q)
      /\ \A q \in Ports : \A k \in 0 .. NumItems(q) - 1 :
           Peek(q, k)' = Peek(q, k)
  BY <1>0, PlaceFacts DEF Slots
<1>2. ASSUME NEW n \in Int, n = NumItems(p)
      PROVE  Peek(p, n)' \in Chars
  BY <1>1, <1>2, PlaceFacts
<1>3. /\ prod'.port = p /\ prod'.bytes = Tail(prod.bytes)
      /\ prod'.locked = prod.locked
      /\ prod'.pc = IF last THEN "idle" ELSE "test"
      /\ Tail(prod.bytes) \in Seq(Chars)
      /\ Len(Tail(prod.bytes)) = Len(prod.bytes) - 1
      /\ last <=> Tail(prod.bytes) = <<>>
      /\ Len(prod.bytes) \in Nat
  <2>1. /\ prod'.port = p /\ prod'.bytes = Tail(prod.bytes)
        /\ prod'.locked = prod.locked
        /\ prod'.pc = IF last THEN "idle" ELSE "test"
    BY DEF Place, RingTypeOK, ProdType
  <2>2. /\ Tail(prod.bytes) \in Seq(Chars)
        /\ Len(Tail(prod.bytes)) = Len(prod.bytes) - 1
        /\ Len(prod.bytes) \in Nat
    BY <1>0
  <2>3. last <=> Tail(prod.bytes) = <<>>
    <3> DEFINE rest == Tail(prod.bytes)
    <3>1. Len(<<>>) = 0
      OBVIOUS
    <3>2. rest # <<>> => Len(rest) \in Nat \ {0}
      BY <2>2, EmptySeq
    <3>3. Len(rest) = Len(prod.bytes) - 1 /\ Len(prod.bytes) \in Nat
      BY <2>2
    <3>4. last => rest = <<>>
      BY <3>2, <3>3
    <3>5. rest = <<>> => last
      <4> SUFFICES ASSUME rest = <<>> PROVE last
        OBVIOUS
      <4>1. Len(rest) = 0
        BY <3>1
      <4> QED BY <4>1, <3>3
    <3> QED BY <3>4, <3>5
  <2> QED BY <2>1, <2>2, <2>3
<1>4. RingTypeOK'
  <2>1. prod' \in ProdType
    BY <1>3, OneIsSlot DEF Place, RingTypeOK, ProdType
  <2>2. buf' \in [Ports -> [Slots -> Cells]]
    BY <1>1 DEF Place, RingTypeOK, Cells
  <2> QED BY <2>1, <2>2, <1>1 DEF Place, RingTypeOK
<1>5. MutexHeld'
  BY <1>3 DEF Place, MutexHeld, RingTypeOK, ProdType
<1>6. ProducerSafe'
  <2>1. CASE last
    BY <2>1, <1>3 DEF ProducerSafe
  <2>2. CASE ~last
    <3>1. NumItems(p) \in Int
      BY <1>0 DEF Slots
    <3>2. ~prod.locked => NumItems(p) + Len(prod.bytes) < Size
      BY DEF Place, ProducerSafe
    <3>3. ~prod'.locked => NumItems(p)' + Len(prod'.bytes) < Size
      BY <3>1, <3>2, <1>1, <1>3, RingAssumption
    <3>4. NumItems(prod.port)' = NumItems(p)'
      BY <1>3 DEF NumItems
    <3> QED BY <2>2, <3>3, <3>4, <1>3 DEF ProducerSafe
  <2> QED BY <2>1, <2>2
<1>7. ConsumerSafe'
  <2>1. \A q \in Ports : ~IsEmpty(q) <=> NumItems(q) # 0
    BY ItemsIn DEF IsEmpty, NumItems, RingTypeOK
  <2>2. \A q \in Ports : ~IsEmpty(q)' <=> NumItems(q)' # 0
    BY <1>4, ItemsIn DEF IsEmpty, NumItems, RingTypeOK
  <2>3. \A q \in Ports : NumItems(q) \in Slots
    BY ItemsIn DEF RingTypeOK, NumItems
  <2>4. ASSUME NEW q \in Ports, ~IsEmpty(q)
        PROVE  ~IsEmpty(q)' /\ Peek(q, 0)' = Peek(q, 0)
    <3>1. 0 \in 0 .. NumItems(q) - 1 /\ NumItems(q) + 1 # 0
      BY <2>1, <2>3, <2>4, RingAssumption DEF Slots
    <3>2. NumItems(q)' # 0
      BY <2>1, <2>4, <3>1, <1>1
    <3> QED BY <3>1, <3>2, <2>2, <1>1
  <2>5. cons' = cons /\ tail' = tail /\ cons.port \in Ports
    BY DEF Place, RingTypeOK, ConsType
  <2> QED BY <2>4, <2>5 DEF ConsumerSafe
<1>8. OnlyCharacters'
  <2> SUFFICES ASSUME NEW q \in Ports, NEW k \in 0 .. NumItems(q)' - 1
               PROVE  Peek(q, k)' \in Chars
    BY DEF OnlyCharacters
  <2>1. CASE k \in 0 .. NumItems(q) - 1
    BY <2>1, <1>1 DEF OnlyCharacters
  <2>2. CASE k \notin 0 .. NumItems(q) - 1
    <3>1. q = p /\ k = NumItems(p)
      BY <2>2, <1>0, <1>1 DEF Slots
    <3> QED BY <3>1, <1>2
  <2> QED BY <2>1, <2>2
<1> QED BY <1>4, <1>5, <1>6, <1>7, <1>8

-----------------------------------------------------------------------------
(* The emulator's thread.                                                  *)
LEMMA GetCharInv ==
  ASSUME RingInv, NEW p \in Ports, GetChar(p)
  PROVE  RingInv'
<1> USE DEF RingInv
<1>1. RingTypeOK'
  BY DEF RingTypeOK, ConsType, Cells, GetChar
<1>2. MutexHeld'
  BY DEF GetChar, MutexHeld
<1>3. ProducerSafe'
  BY DEF GetChar, ProducerSafe, NumItems, IsFull
<1>4. ConsumerSafe'
  BY DEF GetChar, ConsumerSafe, IsEmpty
<1>5. OnlyCharacters'
  BY DEF GetChar, OnlyCharacters, NumItems, Peek
<1> QED BY <1>1, <1>2, <1>3, <1>4, <1>5

LEMMA FetchInv ==
  ASSUME RingInv, Fetch, NEW p \in Ports, p = cons.port
  PROVE  RingInv'
<1> USE DEF RingInv
<1>1. cons' = [cons EXCEPT !.pc = "advance", !.seen = tail[p],
                           !.val = buf[p][tail[p]]]
  BY DEF Fetch, ConsumerSafe
<1>2. RingTypeOK'
  <2>1. tail[p] \in Slots /\ buf[p][tail[p]] \in Cells
    BY DEF RingTypeOK
  <2>2. cons' \in ConsType
    BY <1>1, <2>1 DEF RingTypeOK, ConsType
  <2> QED BY <2>2 DEF RingTypeOK, Fetch
<1>3. MutexHeld'
  BY <1>1 DEF Fetch, MutexHeld, RingTypeOK, ConsType
<1>4. ProducerSafe'
  BY DEF Fetch, ProducerSafe, NumItems, IsFull
<1>5. tail[p] \in Slots /\ Plus(tail[p], 0) = tail[p]
  BY RingAssumption DEF RingTypeOK, Plus, Slots
<1>6. ConsumerSafe'
  BY <1>1, <1>5 DEF Fetch, ConsumerSafe, IsEmpty, Peek, RingTypeOK, ConsType
<1>7. OnlyCharacters'
  BY DEF Fetch, OnlyCharacters, NumItems, Peek
<1> QED BY <1>2, <1>3, <1>4, <1>6, <1>7

LEMMA AdvanceFacts ==
  ASSUME RingInv, Advance, NEW p \in Ports, p = cons.port
  PROVE  /\ tail' = [tail EXCEPT ![p] = Plus(tail[p], 1)]
         /\ tail'[p] \in Slots
         /\ NumItems(p) \in Slots /\ NumItems(p) # 0
         /\ NumItems(p)' = NumItems(p) - 1
         /\ \A q \in Ports \ {p} : NumItems(q)' = NumItems(q)
         /\ \A q \in Ports \ {p} : \A k \in Int : Peek(q, k)' = Peek(q, k)
         /\ \A k \in 0 .. NumItems(p) - 2 : Peek(p, k)' = Peek(p, k + 1)
         /\ got' = [got EXCEPT ![p] = Peek(p, 0)]
<1> USE DEF RingInv
<1>0. head[p] \in Slots /\ tail[p] \in Slots /\ head[p] # tail[p]
  BY DEF RingTypeOK, Advance, ConsumerSafe, IsEmpty
<1>1. tail' = [tail EXCEPT ![p] = Plus(tail[p], 1)] /\ tail'[p] \in Slots
  <2>1. Plus(tail[p], 1) \in Slots
    BY <1>0, PlusIn, OneIsSlot
  <2>2. tail' = [tail EXCEPT ![p] = Plus(tail[p], 1)]
    BY DEF Advance, ConsumerSafe
  <2> QED BY <2>1, <2>2 DEF RingTypeOK
<1>2. NumItems(p) \in Slots /\ NumItems(p) # 0
  BY <1>0, ItemsIn DEF NumItems
<1>3. NumItems(p)' = NumItems(p) - 1
  <2>1. NumItems(p)' = Minus(head[p], Plus(tail[p], 1))
    BY <1>1 DEF Advance, NumItems, RingTypeOK
  <2> QED BY <1>0, <2>1, TailForward DEF NumItems
<1>4. \A q \in Ports \ {p} : NumItems(q)' = NumItems(q)
  BY <1>1 DEF Advance, NumItems, RingTypeOK
<1>5. \A q \in Ports \ {p} : \A k \in Int : Peek(q, k)' = Peek(q, k)
  BY <1>1 DEF Advance, Peek, RingTypeOK
<1>6. ASSUME NEW k \in 0 .. NumItems(p) - 2
      PROVE  Peek(p, k)' = Peek(p, k + 1)
  <2>1. Peek(p, k)' = buf[p][Plus(Plus(tail[p], 1), k)]
    BY <1>1 DEF Advance, Peek, RingTypeOK
  <2>2. Plus(Plus(tail[p], 1), k) = Plus(tail[p], k + 1)
    BY <1>0, TailForward DEF NumItems
  <2> QED BY <2>1, <2>2 DEF Peek
<1>7. got' = [got EXCEPT ![p] = Peek(p, 0)]
  BY DEF Advance, ConsumerSafe
<1> QED BY <1>1, <1>2, <1>3, <1>4, <1>5, <1>6, <1>7

LEMMA AdvanceInv ==
  ASSUME RingInv, Advance, NEW p \in Ports, p = cons.port
  PROVE  RingInv'
<1> USE DEF RingInv
<1>1. /\ tail' = [tail EXCEPT ![p] = Plus(tail[p], 1)]
      /\ tail'[p] \in Slots
      /\ NumItems(p) \in Slots /\ NumItems(p) # 0
      /\ NumItems(p)' = NumItems(p) - 1
      /\ \A q \in Ports \ {p} : NumItems(q)' = NumItems(q)
      /\ \A q \in Ports \ {p} : \A k \in Int : Peek(q, k)' = Peek(q, k)
      /\ \A k \in 0 .. NumItems(p) - 2 : Peek(p, k)' = Peek(p, k + 1)
  BY AdvanceFacts
<1>2. RingTypeOK'
  <2>1. cons' \in ConsType
    BY OneIsSlot DEF Advance, RingTypeOK, ConsType, Cells
  <2>2. cons.val \in Cells
    BY DEF RingTypeOK, ConsType
  <2> QED BY <1>1, <2>1, <2>2 DEF Advance, RingTypeOK
<1>3. MutexHeld' /\ mutex = "emulator"
  BY DEF Advance, MutexHeld, RingTypeOK, ConsType
<1>4. ProducerSafe'
  <2>1. prod' = prod /\ prod.port \in Ports /\ ~(prod.pc \in {"test", "evict", "place"} /\ prod.locked)
    BY <1>3 DEF Advance, MutexHeld, RingTypeOK, ProdType
  <2>2. \A q \in Ports : NumItems(q) \in Slots
    BY ItemsIn DEF RingTypeOK, NumItems
  <2>3. ASSUME NEW q \in Ports
        PROVE  /\ ~IsFull(q) => ~IsFull(q)'
               /\ \A n \in Nat : NumItems(q) + n < Size => NumItems(q)' + n < Size
    BY <1>1, <2>2, RingAssumption DEF IsFull, Slots
  <2>4. Len(prod.bytes) \in Nat
    BY DEF RingTypeOK, ProdType
  <2>5. prod.pc = "evict" => prod.locked
    BY DEF ProducerSafe
  <2>6. prod.pc \in {"test", "place"} /\ ~prod.locked =>
          NumItems(prod.port)' + Len(prod.bytes) < Size
    <3>1. prod.pc \in {"test", "place"} /\ ~prod.locked =>
            NumItems(prod.port) + Len(prod.bytes) < Size
      BY DEF ProducerSafe
    <3> QED BY <3>1, <2>1, <2>3, <2>4
  <2>7. prod.pc = "place" => ~IsFull(prod.port)'
    BY <2>1, <2>3 DEF ProducerSafe
  <2> QED BY <2>1, <2>5, <2>6, <2>7 DEF ProducerSafe
<1>5. ConsumerSafe'
  BY DEF Advance, ConsumerSafe, RingTypeOK, ConsType
<1>6. OnlyCharacters'
  <2> SUFFICES ASSUME NEW q \in Ports, NEW k \in 0 .. NumItems(q)' - 1
               PROVE  Peek(q, k)' \in Chars
    BY DEF OnlyCharacters
  <2>1. CASE q # p
    BY <2>1, <1>1 DEF OnlyCharacters
  <2>2. CASE q = p
    <3>1. k + 1 \in 0 .. NumItems(p) - 1 /\ k \in 0 .. NumItems(p) - 2
      BY <2>2, <1>1 DEF Slots
    <3> QED BY <2>2, <3>1, <1>1 DEF OnlyCharacters
  <2> QED BY <2>1, <2>2
<1> QED BY <1>2, <1>3, <1>4, <1>5, <1>6

LEMMA StepInv ==
  ASSUME RingInv, ~FillsUnlocked, [RingNext]_ringVars
  PROVE  RingInv'
<1>0. prod.port \in Ports /\ cons.port \in Ports
  BY DEF RingInv, RingTypeOK, ProdType, ConsType
<1>1. CASE QueueSome
  BY <1>1, QueueInv DEF QueueSome
<1>2. CASE ProdStep
  BY <1>0, <1>2, TestInv, EvictInv, PlaceInv DEF ProdStep
<1>3. CASE \E p \in Ports : GetChar(p)
  BY <1>3, GetCharInv
<1>4. CASE ConsStep
  BY <1>0, <1>4, FetchInv, AdvanceInv DEF ConsStep
<1>5. CASE UNCHANGED ringVars
  BY <1>5 DEF ringVars, RingInv, RingTypeOK, MutexHeld, ProducerSafe,
     ConsumerSafe, OnlyCharacters, NumItems, Peek, IsFull, IsEmpty
<1> QED BY <1>1, <1>2, <1>3, <1>4, <1>5 DEF RingNext

(* Whatever the poll thread queues and whenever the emulator's thread asks *)
(* for a character: indices, mutex and the positions of both threads keep  *)
(* the invariant (ring_buffer_queue, ring_buffer_dequeue, sock_getchar).   *)
THEOREM RingsSafe ==
  ASSUME ~FillsUnlocked
  PROVE  RingSpec => []RingInv
<1>1. RingInv /\ [RingNext]_ringVars => RingInv'
  BY StepInv
<1> QED BY <1>1, InitInv, PTL DEF RingSpec

-----------------------------------------------------------------------------
(* The rings are queues.                                                   *)
ContentsOK ==
  \A p \in Ports :
    /\ Contents(p) \in Seq(Chars)
    /\ Len(Contents(p)) = NumItems(p)
    /\ NumItems(p) \in Slots
    /\ NumItems(p) \in Nat
    /\ \A k \in 1 .. NumItems(p) : Contents(p)[k] = Peek(p, k - 1)

LEMMA ContentsType == RingInv => ContentsOK
<1> SUFFICES ASSUME RingInv, NEW p \in Ports
             PROVE  /\ Contents(p) \in Seq(Chars)
                    /\ Len(Contents(p)) = NumItems(p)
                    /\ NumItems(p) \in Slots
                    /\ NumItems(p) \in Nat
                    /\ \A k \in 1 .. NumItems(p) : Contents(p)[k] = Peek(p, k - 1)
  BY DEF ContentsOK
<1>1. NumItems(p) \in Slots /\ NumItems(p) \in Nat
  BY ItemsIn DEF RingInv, RingTypeOK, NumItems, Slots
<1>2. \A k \in 1 .. NumItems(p) : Peek(p, k - 1) \in Chars
  BY <1>1 DEF RingInv, OnlyCharacters
<1> QED BY <1>1, <1>2 DEF Contents

LEMMA ContentsNext == RingInv' => ContentsOK'
BY ContentsType, PTL

LEMMA Extensional ==
  ASSUME NEW S, NEW s \in Seq(S), NEW t \in Seq(S), Len(s) = Len(t),
         \A k \in 1 .. Len(s) : s[k] = t[k]
  PROVE  s = t
BY SeqEqual

LEMMA SameElsewhere ==
  ASSUME RingInv, NEW q \in Ports, NumItems(q)' = NumItems(q),
         \A k \in 0 .. NumItems(q) - 1 : Peek(q, k)' = Peek(q, k)
  PROVE  Contents(q)' = Contents(q)
<1>1. NumItems(q) \in Nat
  BY ContentsType DEF ContentsOK
<1> QED BY <1>1 DEF Contents

LEMMA TailGone ==
  ASSUME RingInv, RingInv', NEW p \in Ports, NumItems(p) # 0,
         NumItems(p)' = NumItems(p) - 1,
         \A k \in 0 .. NumItems(p) - 2 : Peek(p, k)' = Peek(p, k + 1),
         \A q \in Ports \ {p} : Contents(q)' = Contents(q)
  PROVE  /\ Queues[p] # <<>>
         /\ Len(Queues[p]) = NumItems(p)
         /\ Head(Queues[p]) = Peek(p, 0)
         /\ Queues' = [Queues EXCEPT ![p] = Tail(Queues[p])]
<1> DEFINE old == Contents(p)
           new == Contents(p)'
           n == NumItems(p)
<1>1. /\ old \in Seq(Chars) /\ Len(old) = n /\ n \in Nat /\ n # 0
      /\ \A k \in 1 .. n : old[k] = Peek(p, k - 1)
  BY ContentsType DEF ContentsOK
<1>2. /\ new \in Seq(Chars) /\ Len(new) = n - 1
      /\ \A k \in 1 .. n - 1 : new[k] = Peek(p, k)
  <2>1. /\ new \in Seq(Chars) /\ Len(new) = n - 1
        /\ \A k \in 1 .. n - 1 : new[k] = Peek(p, k - 1)'
    BY ContentsNext DEF ContentsOK
  <2>2. \A k \in 1 .. n - 1 : Peek(p, k - 1)' = Peek(p, k)
    BY <1>1
  <2> QED BY <2>1, <2>2
<1>3. old # <<>> /\ Head(old) = Peek(p, 0)
  BY <1>1
<1>4. new = Tail(old)
  <2>1. /\ Tail(old) \in Seq(Chars) /\ Len(Tail(old)) = n - 1
        /\ \A k \in 1 .. n - 1 : Tail(old)[k] = Peek(p, k)
    BY <1>1, <1>3, HeadTailProperties
  <2> HIDE DEF new, old
  <2> QED BY <2>1, <1>2, Extensional
<1>5. Queues[p] = old
  BY DEF Queues
<1>6. Queues' = [Queues EXCEPT ![p] = Tail(Queues[p])]
  BY <1>4, <1>5 DEF Queues
<1> QED BY <1>1, <1>3, <1>5, <1>6

LEMMA HeadGrown ==
  ASSUME RingInv, RingInv', NEW p \in Ports, NEW c \in Chars,
         NEW n \in Nat, n = NumItems(p),
         NumItems(p)' = n + 1,
         \A k \in 0 .. n - 1 : Peek(p, k)' = Peek(p, k),
         Peek(p, n)' = c,
         \A q \in Ports \ {p} : Contents(q)' = Contents(q)
  PROVE  /\ Len(Queues[p]) = n
         /\ Queues' = [Queues EXCEPT ![p] = Append(Queues[p], c)]
<1> DEFINE old == Contents(p)
           new == Contents(p)'
<1>1. /\ old \in Seq(Chars) /\ Len(old) = n
      /\ \A k \in 1 .. n : old[k] = Peek(p, k - 1)
  BY ContentsType DEF ContentsOK
<1>2. /\ new \in Seq(Chars) /\ Len(new) = n + 1
      /\ \A k \in 1 .. n : new[k] = old[k]
      /\ new[n + 1] = c
  <2>1. /\ new \in Seq(Chars) /\ Len(new) = n + 1
        /\ \A k \in 1 .. n + 1 : new[k] = Peek(p, k - 1)'
    BY ContentsNext DEF ContentsOK
  <2>2. new[n + 1] = c
    BY <2>1
  <2>3. \A k \in 1 .. n : Peek(p, k - 1)' = Peek(p, k - 1)
    OBVIOUS
  <2> QED BY <2>1, <2>2, <2>3, <1>1
<1>3. new = Append(old, c)
  <2>1. /\ Append(old, c) \in Seq(Chars) /\ Len(Append(old, c)) = n + 1
        /\ \A k \in 1 .. n : Append(old, c)[k] = old[k]
        /\ Append(old, c)[n + 1] = c
    BY <1>1, AppendProperties
  <2> HIDE DEF new, old
  <2>2. \A k \in 1 .. n + 1 : new[k] = Append(old, c)[k]
    BY <2>1, <1>2
  <2> QED BY <2>1, <2>2, <1>2, Extensional
<1>4. Queues[p] = old
  BY DEF Queues
<1>5. Queues' = [Queues EXCEPT ![p] = Append(Queues[p], c)]
  BY <1>3, <1>4 DEF Queues
<1> QED BY <1>1, <1>4, <1>5

LEMMA InitMaps == RingInit => Fifo!Init
<1> SUFFICES ASSUME RingInit PROVE Fifo!Init
  OBVIOUS
<1>1. \A p \in Ports : NumItems(p) = 0
  BY OneIsSlot, ItemsIn DEF RingInit, NumItems
<1>2. \A p \in Ports : Contents(p) = <<>>
  <2> SUFFICES ASSUME NEW p \in Ports PROVE Contents(p) = <<>>
    OBVIOUS
  <2>1. ContentsOK
    BY InitInv, ContentsType
  <2>2. Contents(p) \in Seq(Chars) /\ Len(Contents(p)) = 0
    BY <1>1, <2>1 DEF ContentsOK
  <2> HIDE DEF Contents
  <2> QED BY <2>2, EmptySeq
<1> QED BY <1>2 DEF RingInit, Fifo!Init, Queues

LEMMA EvictMaps ==
  ASSUME RingInv, RingInv', Evict, NEW p \in Ports, p = prod.port
  PROVE  Fifo!DropOldest(p)
<1> USE DEF RingInv
<1>0. p \in Ports /\ head[p] \in Slots /\ tail[p] \in Slots
  BY DEF RingTypeOK
<1>1. tail' = [tail EXCEPT ![p] = Plus(tail[p], 1)]
  BY DEF Evict, ProducerSafe
<1>2. head[p] # tail[p] /\ NumItems(p) = Size - 1 /\ NumItems(p) # 0
  BY <1>0, ItemsIn, RingAssumption DEF Evict, ProducerSafe, IsFull, NumItems
<1>3. NumItems(p)' = NumItems(p) - 1
  BY <1>0, <1>1, <1>2, TailForward DEF Evict, NumItems, RingTypeOK
<1>4. \A k \in 0 .. NumItems(p) - 2 : Peek(p, k)' = Peek(p, k + 1)
  BY <1>0, <1>1, <1>2, TailForward DEF Evict, Peek, NumItems, RingTypeOK
<1>5. ASSUME NEW q \in Ports \ {p} PROVE Contents(q)' = Contents(q)
  <2>1. NumItems(q)' = NumItems(q) /\ \A k \in Int : Peek(q, k)' = Peek(q, k)
    BY <1>1 DEF Evict, NumItems, Peek, RingTypeOK
  <2> QED BY <2>1, SameElsewhere
<1>6. Len(Queues[p]) = Size - 1 /\ Queues' = [Queues EXCEPT ![p] = Tail(Queues[p])]
  BY <1>2, <1>3, <1>4, <1>5, TailGone
<1> QED BY <1>6 DEF Evict, Fifo!DropOldest

LEMMA PlaceGrows ==
  ASSUME RingInv, RingInv', Place, NEW p \in Ports, p = prod.port
  PROVE  /\ Head(prod.bytes) \in Chars
         /\ Len(Queues[p]) < Size - 1
         /\ Queues' = [Queues EXCEPT ![p] = Append(Queues[p], Head(prod.bytes))]
<1> DEFINE c == Head(prod.bytes)
<1>1. PICK n \in Nat : n = NumItems(p)
  BY ContentsType DEF ContentsOK
<1>2. /\ c \in Chars
      /\ NumItems(p)' = n + 1
      /\ \A q \in Ports \ {p} : NumItems(q)' = NumItems(q)
      /\ \A q \in Ports : \A k \in 0 .. NumItems(q) - 1 :
           Peek(q, k)' = Peek(q, k)
      /\ Peek(p, n)' = c
  BY <1>1, PlaceFacts
<1>3. \A q \in Ports \ {p} : Contents(q)' = Contents(q)
  BY <1>2, SameElsewhere
<1>4. n < Size - 1
  BY <1>1, ContentsType, RingAssumption
  DEF Place, RingInv, ProducerSafe, IsFull, ContentsOK, Slots
<1> HIDE DEF c
<1>5. /\ Len(Queues[p]) = n
      /\ Queues' = [Queues EXCEPT ![p] = Append(Queues[p], c)]
  BY <1>1, <1>2, <1>3, HeadGrown
<1> QED BY <1>2, <1>4, <1>5 DEF c

LEMMA PlaceMaps ==
  ASSUME RingInv, RingInv', Place, NEW p \in Ports, p = prod.port
  PROVE  \E c \in Chars : Fifo!Put(p, c)
<1> DEFINE c == Head(prod.bytes)
<1>1. /\ c \in Chars /\ Len(Queues[p]) < Size - 1
      /\ Queues' = [Queues EXCEPT ![p] = Append(Queues[p], c)]
  BY PlaceGrows
<1> HIDE DEF c
<1> QED BY <1>1 DEF Place, Fifo!Put

LEMMA AdvanceMaps ==
  ASSUME RingInv, RingInv', Advance, NEW p \in Ports, p = cons.port
  PROVE  Fifo!Take(p)
<1>1. /\ NumItems(p) \in Slots /\ NumItems(p) # 0
      /\ NumItems(p)' = NumItems(p) - 1
      /\ \A q \in Ports \ {p} : NumItems(q)' = NumItems(q)
      /\ \A q \in Ports \ {p} : \A k \in Int : Peek(q, k)' = Peek(q, k)
      /\ \A k \in 0 .. NumItems(p) - 2 : Peek(p, k)' = Peek(p, k + 1)
      /\ got' = [got EXCEPT ![p] = Peek(p, 0)]
  BY AdvanceFacts
<1>2. \A q \in Ports \ {p} : Contents(q)' = Contents(q)
  BY <1>1, SameElsewhere
<1>3. /\ Queues[p] # <<>> /\ Head(Queues[p]) = Peek(p, 0)
      /\ Queues' = [Queues EXCEPT ![p] = Tail(Queues[p])]
  BY <1>1, <1>2, TailGone
<1> QED BY <1>1, <1>3 DEF Fifo!Take

LEMMA StepMaps ==
  ASSUME RingInv, RingInv', [RingNext]_ringVars
  PROVE  [Fifo!Next]_<<Queues, got>>
<1>0. prod.port \in Ports /\ cons.port \in Ports
  BY DEF RingInv, RingTypeOK, ProdType, ConsType
<1>1. CASE UNCHANGED <<head, tail, buf, got>>
  BY <1>1 DEF Queues, Contents, NumItems, Peek
<1>2. CASE Evict
  BY <1>0, <1>2, EvictMaps DEF Fifo!Next
<1>3. CASE Place
  BY <1>0, <1>3, PlaceMaps DEF Fifo!Next
<1>4. CASE Advance
  BY <1>0, <1>4, AdvanceMaps DEF Fifo!Next
<1>5. QueueSome \/ TestFull \/ Enter \/ Fetch \/ (\E p \in Ports : GetChar(p))
        \/ UNCHANGED ringVars => UNCHANGED <<head, tail, buf, got>>
  BY DEF QueueSome, Queue, TestFull, Enter, Fetch, GetChar, ringVars
<1> QED BY <1>1, <1>2, <1>3, <1>4, <1>5 DEF RingNext, ProdStep, ConsStep

(* Rings that the poll thread and the emulator's thread share, of any      *)
(* size and for any number of ports, are the queues of LossyFifo as long   *)
(* as no character is queued without the mutex into a ring without room:   *)
(* none is lost but the oldest of a full one, none repeated, none          *)
(* reordered (charringbuffer.c).                                           *)
THEOREM RingsAreQueues ==
  ASSUME ~FillsUnlocked
  PROVE  RingSpec => ImplementsFifo
<1>1. RingInv /\ RingInv' /\ [RingNext]_ringVars => [Fifo!Next]_<<Queues, got>>
  BY StepMaps
<1>2. RingSpec => []RingInv
  BY RingsSafe
<1> QED BY <1>1, <1>2, InitMaps, PTL DEF RingSpec, ImplementsFifo, Fifo!Spec

-----------------------------------------------------------------------------
(* The connections: the thread of socket_connections.c works on the rings  *)
(* with ring_buffer_queue and ring_buffer_dequeue only.                    *)
LEMMA StampIn ==
  ASSUME NEW x \in Int
  PROVE  x % Stamps \in 0 .. Stamps - 1
<1>1. Stamps \in Nat /\ Stamps > 0
  BY SockAssumption, RingAssumption
<1> QED BY <1>1

LEMMA CharsTyped ==
  ASSUME NEW bs \in Seq(Byte)
  PROVE  /\ CharsOf(bs) \in Seq(Chars)
         /\ Len(CharsOf(bs)) = Len(bs)
         /\ \A k \in 1 .. Len(bs) : CharsOf(bs)[k] = bs[k].char
<1>1. ASSUME NEW k \in 1 .. Len(bs)
      PROVE  bs[k].char \in Chars
  <2>1. bs[k] \in Byte
    OBVIOUS
  <2> QED BY <2>1 DEF Byte
<1>2. CharsOf(bs) = [k \in 1 .. Len(bs) |-> bs[k].char]
  BY DEF CharsOf
<1> QED BY <1>1, <1>2

LEMMA CutTyped ==
  ASSUME NEW bs \in Seq(Byte), NEW n \in 1 .. Len(bs)
  PROVE  /\ SubSeq(bs, 1, n) \in Seq(Byte)
         /\ Len(SubSeq(bs, 1, n)) = n
         /\ \A k \in 1 .. n : SubSeq(bs, 1, n)[k] = bs[k]
         /\ SubSeq(bs, n + 1, Len(bs)) \in Seq(Byte)
         /\ Len(SubSeq(bs, n + 1, Len(bs))) = Len(bs) - n
         /\ \A k \in 1 .. Len(bs) - n : SubSeq(bs, n + 1, Len(bs))[k] = bs[n + k]
<1>1. Len(bs) \in Nat /\ \A k \in 1 .. Len(bs) : bs[k] \in Byte
  OBVIOUS
<1>2. \A k \in 1 .. n : bs[k] \in Byte
  BY <1>1
<1>3. \A k \in n + 1 .. Len(bs) : bs[k] \in Byte
  BY <1>1
<1>4. /\ SubSeq(bs, 1, n) \in Seq(Byte)
      /\ Len(SubSeq(bs, 1, n)) = n
      /\ \A k \in 1 .. n : SubSeq(bs, 1, n)[k] = bs[k]
  BY <1>1, <1>2, SubSeqProperties
<1>5. /\ SubSeq(bs, n + 1, Len(bs)) \in Seq(Byte)
      /\ Len(SubSeq(bs, n + 1, Len(bs))) = Len(bs) - n
      /\ \A k \in 1 .. Len(bs) - n : SubSeq(bs, n + 1, Len(bs))[k] = bs[n + k]
  BY <1>1, <1>3, SubSeqProperties
<1> QED BY <1>4, <1>5

LEMMA PacketTyped ==
  ASSUME SockTypeOK, NEW p \in Ports, NEW keys \in Packets
  PROVE  /\ Packet(p, keys) \in Seq(Byte)
         /\ Len(Packet(p, keys)) = Len(keys)
         /\ Len(keys) \in Nat
         /\ \A k \in 1 .. Len(keys) :
              Packet(p, keys)[k].char = <<p, (typed[p] + k - 1) % Stamps>>
<1>1. keys \in Seq(BOOLEAN) /\ Len(keys) \in Nat /\ DOMAIN keys = 1 .. Len(keys)
  BY SockAssumption
<1>2. ASSUME NEW k \in 1 .. Len(keys)
      PROVE  [char |-> <<p, (typed[p] + k - 1) % Stamps>>, more |-> keys[k]] \in Byte
  <2>1. typed[p] + k - 1 \in Int
    BY <1>1, SockAssumption DEF SockTypeOK
  <2>2. (typed[p] + k - 1) % Stamps \in 0 .. Stamps - 1
    BY <2>1, StampIn
  <2>3. <<p, (typed[p] + k - 1) % Stamps>> \in Chars
    BY <2>2, SockAssumption
  <2> QED BY <1>1, <2>3 DEF Byte
<1>3. Packet(p, keys) = [k \in 1 .. Len(keys) |->
        [char |-> <<p, (typed[p] + k - 1) % Stamps>>, more |-> keys[k]]]
  BY <1>1 DEF Packet
<1> QED BY <1>1, <1>2, <1>3

LEMMA SockTypeInit == SockInit => SockTypeOK
<1>1. AnyPort \in Ports
  BY RingAssumption DEF AnyPort
<1>2. 0 \in 0 .. Stamps - 1
  BY SockAssumption, RingAssumption
<1>3. <<>> \in Seq(Byte)
  OBVIOUS
<1> SUFFICES ASSUME SockInit PROVE SockTypeOK
  OBVIOUS
<1>4. status \in [Ports -> {"WAITCONN", "OPEN", "CLOSED"}]
  BY DEF SockInit
<1>5. /\ peer \in [Ports -> {"none", "calling", "up", "gone"}]
      /\ wire \in [Ports -> Seq(Byte)]
      /\ typed \in [Ports -> 0 .. Stamps - 1]
  BY <1>2, <1>3 DEF SockInit
<1> QED BY <1>1, <1>3, <1>4, <1>5 DEF SockInit, SockTypeOK

LEMMA SockTypeStep ==
  ASSUME SockTypeOK, [SockNext]_allVars
  PROVE  SockTypeOK'
<1> USE DEF SockTypeOK
<1>1. ASSUME NEW p \in Ports, Dial(p)
      PROVE  SockTypeOK'
  BY <1>1 DEF Dial
<1>2. ASSUME NEW p \in Ports, HangUp(p)
      PROVE  SockTypeOK'
  <2>1. peer' \in [Ports -> {"none", "calling", "up", "gone"}]
    BY <1>2 DEF HangUp
  <2>2. wire' \in [Ports -> Seq(Byte)] /\ typed' \in [Ports -> 0 .. Stamps - 1]
    <3>1. CASE UNCHANGED <<wire, typed>>
      BY <3>1
    <3>2. CASE /\ wire' = [wire EXCEPT ![p] = <<>>]
               /\ typed' = [typed EXCEPT ![p] = (@ + Stamps - Len(wire[p])) % Stamps]
      <4>1. Len(wire[p]) \in Nat
        OBVIOUS
      <4>2. Stamps \in Nat /\ typed[p] \in Int
        BY SockAssumption
      <4>3. (typed[p] + Stamps - Len(wire[p])) % Stamps \in 0 .. Stamps - 1
        <5>1. typed[p] + Stamps - Len(wire[p]) \in Int
          BY <4>1, <4>2
        <5> QED BY <5>1, StampIn
      <4>4. <<>> \in Seq(Byte)
        OBVIOUS
      <4> QED BY <3>2, <4>3, <4>4
    <3> QED BY <3>1, <3>2, <1>2 DEF HangUp
  <2> QED BY <1>2, <2>1, <2>2 DEF HangUp
<1>3. ASSUME NEW p \in Ports, NEW keys \in Packets, Send(p, keys)
      PROVE  SockTypeOK'
  <2>1. Packet(p, keys) \in Seq(Byte) /\ Len(keys) \in Nat
    BY PacketTyped
  <2>2. (typed[p] + Len(keys)) % Stamps \in 0 .. Stamps - 1
    <3>1. typed[p] + Len(keys) \in Int
      BY <2>1, SockAssumption
    <3> QED BY <3>1, StampIn
  <2> QED BY <1>3, <2>1, <2>2 DEF Send
<1>4. CASE Poll
  BY <1>4 DEF Poll, Listed
<1>5. ASSUME NEW p \in Ports, Accept(p)
      PROVE  /\ status' \in [Ports -> {"WAITCONN", "OPEN", "CLOSED"}]
             /\ peer' \in [Ports -> {"none", "calling", "up", "gone"}]
             /\ UNCHANGED <<wire, left, leftPort, perKey>>
  BY <1>5 DEF Accept, Relisten
<1>6. CASE Handle
  <2>1. PICK e \in todo :
          /\ todo' = todo \ {e}
          /\ Accept(e.port) \/ Receive(e) \/ Relisten(e.port)
    BY <1>6 DEF Handle
  <2>2. e.port \in Ports
    BY <2>1
  <2>3. CASE Accept(e.port) \/ Relisten(e.port)
    BY <1>5, <1>6, <2>1, <2>2, <2>3 DEF Accept, Handle
  <2>4. CASE Receive(e)
    BY <1>6, <2>1, <2>2, <2>4 DEF Receive, Handle
  <2> QED BY <2>1, <2>3, <2>4
<1>7. CASE NextCall
  <2>1. PICK n \in DOMAIN left : left' = SubSeq(left, n + 1, Len(left))
    BY <1>7 DEF NextCall
  <2>2. left' \in Seq(Byte)
    BY <2>1, CutTyped
  <2> QED BY <1>7, <2>2 DEF NextCall
<1>8. CASE UNCHANGED sockVars
  BY <1>8 DEF sockVars
<1> QED BY <1>1, <1>2, <1>3, <1>4, <1>6, <1>7, <1>8, SockAssumption
        DEF SockNext, Terminals, EntersCrit, PollThread, AsksPort, Dequeues, allVars

LEMMA CallIsQueue ==
  ASSUME SockTypeOK, NextCall
  PROVE  QueueSome
<1>1. PICK n \in DOMAIN left :
        Queue(leftPort, CharsOf(SubSeq(left, 1, n)), ~perKey \/ n > 1)
  BY DEF NextCall
<1>2. CharsOf(SubSeq(left, 1, n)) \in Seq(Chars)
  <2>1. left \in Seq(Byte) /\ n \in 1 .. Len(left)
    BY DEF SockTypeOK
  <2>2. SubSeq(left, 1, n) \in Seq(Byte)
    BY <2>1, CutTyped
  <2> QED BY <2>2, CharsTyped
<1>3. (~perKey \/ n > 1) \in BOOLEAN /\ leftPort \in Ports
  BY DEF SockTypeOK
<1> QED BY <1>1, <1>2, <1>3 DEF QueueSome

LEMMA SockStepsRing ==
  ASSUME SockTypeOK, [SockNext]_allVars
  PROVE  [RingNext]_ringVars
<1>1. CASE Terminals
  BY <1>1 DEF Terminals, Dial, HangUp, Send
<1>2. CASE Poll \/ Handle
  BY <1>2 DEF Poll, Handle
<1>3. CASE NextCall
  BY <1>3, CallIsQueue DEF RingNext
<1>4. CASE Enter \/ TestFull \/ Evict \/ Place \/ ConsStep
  BY <1>4 DEF RingNext, ProdStep
<1>5. CASE AsksPort
  BY <1>5, SockAssumption DEF AsksPort, RingNext
<1>6. CASE UNCHANGED allVars
  BY <1>6 DEF allVars
<1> QED BY <1>1, <1>2, <1>3, <1>4, <1>5, <1>6
        DEF SockNext, EntersCrit, PollThread, Dequeues

LEMMA SockTyped == SockSpec => []SockTypeOK
<1>1. SockTypeOK /\ [SockNext]_allVars => SockTypeOK'
  BY SockTypeStep
<1> QED BY <1>1, SockTypeInit, PTL DEF SockSpec

(* The poll thread, with ports that come and go and packets it cuts up,    *)
(* and the emulator's thread do to the rings what ring_buffer_queue and    *)
(* ring_buffer_dequeue do: all that is true of the rings alone holds for   *)
(* the connections, with or without calls outside the mutex.               *)
THEOREM ConnectionsUseRings == SockSpec => RingSpec
<1>1. SockTypeOK /\ [SockNext]_allVars => [RingNext]_ringVars
  BY SockStepsRing
<1>2. SockInit => RingInit
  BY DEF SockInit
<1> QED BY <1>1, <1>2, SockTyped, PTL DEF SockSpec, RingSpec

(* Hence with terminals that call, type, hang up and call again, and with  *)
(* ports that are closed for good, half done calls survive and the rings   *)
(* are queues, as long as no ring is filled without the mutex (sock_poll,  *)
(* sock_getchar).                                                          *)
THEOREM ConnectionsSafe ==
  ASSUME ~FillsUnlocked
  PROVE  SockSpec => []RingInv /\ ImplementsFifo
BY ConnectionsUseRings, RingsSafe, RingsAreQueues, PTL

-----------------------------------------------------------------------------
(* Lines of stamped characters: what is taken from the front, added at the *)
(* end or lost from the end of a line leaves the stamps in order.          *)
LEMMA Wraps ==
  ASSUME NEW x \in 0 .. Stamps - 1
  PROVE  x % Stamps = x /\ (x + Stamps) % Stamps = x
<1>1. Stamps \in Nat /\ Stamps > 0
  BY SockAssumption, RingAssumption
<1>2. x \in Nat /\ x < Stamps
  BY <1>1
<1>3. x % Stamps = x
  BY <1>1, <1>2
<1>4. (x + Stamps) % Stamps = x
  <2>1. x + Stamps \in Nat /\ x + Stamps >= Stamps /\ x + Stamps < 2 * Stamps
    BY <1>1, <1>2
  <2> QED BY <1>1, <1>2, <2>1
<1> QED BY <1>3, <1>4

LEMMA OrderTail ==
  ASSUME NEW p \in Ports, NEW t \in 0 .. Stamps - 1, NEW s \in Seq(Chars),
         s # <<>>, InOrder(p, t, s)
  PROVE  InOrder(p, t, Tail(s))
<1>1. /\ Tail(s) \in Seq(Chars) /\ Len(Tail(s)) = Len(s) - 1 /\ Len(s) \in Nat
      /\ \A k \in 1 .. Len(s) - 1 : Tail(s)[k] = s[k + 1]
  BY HeadTailProperties
<1>2. ASSUME NEW k \in 1 .. Len(Tail(s))
      PROVE  Tail(s)[k] = <<p, (t + Stamps - Len(Tail(s)) + k - 1) % Stamps>>
  <2>1. k + 1 \in 1 .. Len(s) /\ k \in 1 .. Len(s) - 1
    BY <1>1
  <2>2. s[k + 1] = <<p, (t + Stamps - Len(s) + (k + 1) - 1) % Stamps>>
    BY <2>1 DEF InOrder
  <2>3. t + Stamps - Len(s) + (k + 1) - 1 = t + Stamps - Len(Tail(s)) + k - 1
    BY <1>1, <2>1, SockAssumption
  <2> QED BY <1>1, <2>1, <2>2, <2>3
<1> QED BY <1>2 DEF InOrder

LEMMA OrderGrown ==
  ASSUME NEW p \in Ports, NEW t \in 0 .. Stamps - 1, NEW s \in Seq(Chars),
         NEW w \in Seq(Chars), Len(s) + Len(w) <= Stamps,
         InOrder(p, t, s),
         \A k \in 1 .. Len(w) : w[k] = <<p, (t + k - 1) % Stamps>>
  PROVE  InOrder(p, (t + Len(w)) % Stamps, s \o w)
<1> DEFINE n == Len(w)
           L == Len(s)
           last == (t + n) % Stamps
<1>1. Stamps \in Nat /\ Stamps > 0 /\ n \in Nat /\ L \in Nat /\ t \in Nat
  BY SockAssumption, RingAssumption
<1>2. /\ Len(s \o w) = L + n
      /\ \A k \in 1 .. L + n : (s \o w)[k] = IF k <= L THEN s[k] ELSE w[k - L]
  BY ConcatProperties
<1>3. last = IF t + n < Stamps THEN t + n ELSE t + n - Stamps
  <2>1. CASE t + n < Stamps
    <3>1. t + n \in 0 .. Stamps - 1
      BY <1>1, <2>1
    <3> QED BY <2>1, <3>1, Wraps
  <2>2. CASE t + n >= Stamps
    <3>1. t + n - Stamps \in 0 .. Stamps - 1 /\ (t + n - Stamps) + Stamps = t + n
      BY <1>1, <2>2
    <3>2. ((t + n - Stamps) + Stamps) % Stamps = t + n - Stamps
      BY <3>1, Wraps
    <3> QED BY <1>1, <2>2, <3>1, <3>2
  <2> QED BY <1>1, <2>1, <2>2
<1> HIDE DEF last
<1>4. ASSUME NEW k \in 1 .. L + n
      PROVE  (s \o w)[k] = <<p, (last + Stamps - (L + n) + k - 1) % Stamps>>
  <2> DEFINE x == last + Stamps - (L + n) + k - 1
  <2>1. CASE k <= L
    <3> DEFINE y == t + Stamps - L + k - 1
    <3>1. (s \o w)[k] = <<p, y % Stamps>>
      BY <1>2, <2>1, <1>1 DEF InOrder
    <3>2. CASE t + n < Stamps
      <4>1. x = y
        BY <1>1, <1>3, <3>2
      <4> QED BY <3>1, <4>1
    <3>3. CASE t + n >= Stamps
      <4>1. x \in 0 .. Stamps - 1 /\ y = x + Stamps
        BY <1>1, <1>3, <2>1, <3>3
      <4>2. x % Stamps = x /\ (x + Stamps) % Stamps = x
        BY <4>1, Wraps
      <4> QED BY <3>1, <4>1, <4>2
    <3> QED BY <1>1, <3>2, <3>3
  <2>2. CASE k > L
    <3> DEFINE y == t + (k - L) - 1
    <3>1. (s \o w)[k] = <<p, y % Stamps>>
      BY <1>1, <1>2, <2>2
    <3>2. CASE t + n < Stamps
      <4>1. y \in 0 .. Stamps - 1 /\ x = y + Stamps
        BY <1>1, <1>3, <2>2, <3>2
      <4>2. y % Stamps = y /\ (y + Stamps) % Stamps = y
        BY <4>1, Wraps
      <4> QED BY <3>1, <4>1, <4>2
    <3>3. CASE t + n >= Stamps
      <4>1. x = y
        BY <1>1, <1>3, <3>3
      <4> QED BY <3>1, <4>1
    <3> QED BY <1>1, <3>2, <3>3
  <2> QED BY <1>1, <2>1, <2>2
<1> QED BY <1>2, <1>4 DEF InOrder, last

LEMMA OrderCut ==
  ASSUME NEW p \in Ports, NEW t \in 0 .. Stamps - 1, NEW s \in Seq(Chars),
         NEW w \in Seq(Chars), Len(s) + Len(w) <= Stamps,
         InOrder(p, t, s \o w)
  PROVE  InOrder(p, (t + Stamps - Len(w)) % Stamps, s)
<1> DEFINE n == Len(w)
           L == Len(s)
           last == (t + Stamps - n) % Stamps
<1>1. Stamps \in Nat /\ Stamps > 0 /\ n \in Nat /\ L \in Nat /\ t \in Nat
  BY SockAssumption, RingAssumption
<1>2. /\ Len(s \o w) = L + n
      /\ \A k \in 1 .. L : (s \o w)[k] = s[k]
  <2>1. /\ Len(s \o w) = L + n
        /\ \A k \in 1 .. L + n : (s \o w)[k] = IF k <= L THEN s[k] ELSE w[k - L]
    BY ConcatProperties
  <2> QED BY <1>1, <2>1
<1>3. last = IF t < n THEN t + Stamps - n ELSE t - n
  <2>1. CASE t < n
    <3>1. t + Stamps - n \in 0 .. Stamps - 1
      BY <1>1, <2>1
    <3> QED BY <2>1, <3>1, Wraps
  <2>2. CASE t >= n
    <3>1. t - n \in 0 .. Stamps - 1 /\ (t - n) + Stamps = t + Stamps - n
      BY <1>1, <2>2
    <3>2. ((t - n) + Stamps) % Stamps = t - n
      BY <3>1, Wraps
    <3> QED BY <1>1, <2>2, <3>1, <3>2
  <2> QED BY <1>1, <2>1, <2>2
<1> HIDE DEF last
<1>4. ASSUME NEW k \in 1 .. L
      PROVE  s[k] = <<p, (last + Stamps - L + k - 1) % Stamps>>
  <2> DEFINE x == last + Stamps - L + k - 1
             y == t + Stamps - (L + n) + k - 1
  <2>1. s[k] = <<p, y % Stamps>>
    <3>1. k \in 1 .. L + n
      BY <1>1
    <3> QED BY <1>2, <3>1 DEF InOrder
  <2>2. CASE t < n
    <3>1. y \in 0 .. Stamps - 1 /\ x = y + Stamps
      BY <1>1, <1>3, <2>2
    <3>2. y % Stamps = y /\ (y + Stamps) % Stamps = y
      BY <3>1, Wraps
    <3> QED BY <2>1, <3>1, <3>2
  <2>3. CASE t >= n
    <3>1. x = y
      BY <1>1, <1>3, <2>3
    <3> QED BY <2>1, <3>1
  <2> QED BY <1>1, <2>2, <2>3
<1> QED BY <1>4 DEF InOrder, last

-----------------------------------------------------------------------------
(* The line of a port through the steps of the two threads: its bytes move *)
(* from hand to hand, and leave it at its front only.                      *)
Calling(p) == IF prod.port = p THEN prod.bytes ELSE <<>>
Leaving(p) == IF leftPort = p THEN CharsOf(left) ELSE <<>>

(* Concatenation kept closed, for the provers.                             *)
Cat(s, t) == s \o t

LEMMA CatTyped == \A s, t \in Seq(Chars) : Cat(s, t) \in Seq(Chars)
BY ConcatProperties DEF Cat

LEMMA CatAssociative ==
  \A s, t, u \in Seq(Chars) : Cat(Cat(s, t), u) = Cat(s, Cat(t, u))
BY ConcatAssociative DEF Cat

LEMMA CatEmpty == \A s \in Seq(Chars) : Cat(s, <<>>) = s
BY ConcatEmptySeq DEF Cat

LEMMA CatLength == \A s, t \in Seq(Chars) : Len(Cat(s, t)) = Len(s) + Len(t)
BY ConcatProperties DEF Cat

LEMMA Joined ==
  ASSUME NEW c \in Seq(Chars), NEW a \in Seq(Chars), NEW l \in Seq(Chars),
         NEW w \in Seq(Chars)
  PROVE  /\ a \o l \o w \in Seq(Chars)
         /\ c \o (a \o l \o w) \in Seq(Chars)
         /\ Len(a \o l \o w) = Len(a) + Len(l) + Len(w)
         /\ Len(c \o (a \o l \o w)) = Len(c) + Len(a) + Len(l) + Len(w)
         /\ <<>> \o <<>> \o w = w
         /\ a \o l \o <<>> = a \o l
         /\ <<>> \o l \o w = l \o w
         /\ a \o <<>> \o w = a \o w
         /\ c \o (a \o l \o w) = (c \o (a \o l)) \o w
<1>1. a \o l \in Seq(Chars) /\ Len(a \o l) = Len(a) + Len(l)
  BY ConcatProperties
<1>2. a \o l \o w \in Seq(Chars) /\ Len(a \o l \o w) = Len(a) + Len(l) + Len(w)
  BY <1>1, ConcatProperties
<1>3. c \o (a \o l \o w) \in Seq(Chars)
      /\ Len(c \o (a \o l \o w)) = Len(c) + Len(a) + Len(l) + Len(w)
  BY <1>2, ConcatProperties
<1>4. c \o (a \o l \o w) = (c \o (a \o l)) \o w
  <2> DEFINE h == a \o l
  <2>1. h \in Seq(Chars)
    BY <1>1
  <2> HIDE DEF h
  <2>2. Cat(c, Cat(h, w)) = Cat(Cat(c, h), w)
    BY <2>1, CatAssociative
  <2> QED
    BY <2>2, Zenon DEF h, Cat
<1>5. /\ <<>> \in Seq(Chars) /\ <<>> \o <<>> = <<>>
      /\ <<>> \o w = w /\ <<>> \o l = l
      /\ a \o <<>> = a /\ (a \o l) \o <<>> = a \o l
  BY <1>1, ConcatEmptySeq
<1> QED BY <1>2, <1>3, <1>4, <1>5

LEMMA PartsTyped ==
  ASSUME RingInv, SockTypeOK, NEW p \in Ports
  PROVE  /\ Contents(p) \in Seq(Chars) /\ Len(Contents(p)) = NumItems(p)
         /\ NumItems(p) \in Nat /\ NumItems(p) < Size
         /\ Calling(p) \in Seq(Chars) /\ Leaving(p) \in Seq(Chars)
         /\ CharsOf(wire[p]) \in Seq(Chars)
         /\ Len(CharsOf(wire[p])) = Len(wire[p])
         /\ UnderWay(p) = Calling(p) \o Leaving(p) \o CharsOf(wire[p])
         /\ UnderWay(p) \in Seq(Chars) /\ Line(p) \in Seq(Chars)
         /\ Len(UnderWay(p)) =
              Len(Calling(p)) + Len(Leaving(p)) + Len(CharsOf(wire[p]))
         /\ Len(Line(p)) = NumItems(p) + Len(UnderWay(p))
<1>1. /\ Contents(p) \in Seq(Chars) /\ Len(Contents(p)) = NumItems(p)
      /\ NumItems(p) \in Nat /\ NumItems(p) < Size
  BY ContentsType, RingAssumption DEF ContentsOK, Slots
<1>2. prod.bytes \in Seq(Chars) /\ <<>> \in Seq(Chars)
  BY DEF RingInv, RingTypeOK, ProdType
<1>3. Calling(p) \in Seq(Chars)
  BY <1>2 DEF Calling
<1>4. Leaving(p) \in Seq(Chars)
  <2>1. CharsOf(left) \in Seq(Chars)
    BY CharsTyped DEF SockTypeOK
  <2> QED BY <1>2, <2>1 DEF Leaving
<1>5. CharsOf(wire[p]) \in Seq(Chars) /\ Len(CharsOf(wire[p])) = Len(wire[p])
  <2>1. wire[p] \in Seq(Byte)
    BY DEF SockTypeOK
  <2> QED BY <2>1, CharsTyped
<1>6. UnderWay(p) = Calling(p) \o Leaving(p) \o CharsOf(wire[p])
  BY DEF UnderWay, Calling, Leaving
<1>7. /\ UnderWay(p) \in Seq(Chars)
      /\ Len(UnderWay(p)) =
           Len(Calling(p)) + Len(Leaving(p)) + Len(CharsOf(wire[p]))
  <2> DEFINE w == CharsOf(wire[p])
  <2> HIDE DEF w
  <2>1. w \in Seq(Chars)
    BY <1>5 DEF w
  <2>2. /\ Calling(p) \o Leaving(p) \o w \in Seq(Chars)
        /\ Len(Calling(p) \o Leaving(p) \o w)
             = Len(Calling(p)) + Len(Leaving(p)) + Len(w)
    BY <1>1, <1>3, <1>4, <2>1, Joined
  <2> QED BY <1>6, <2>2 DEF w
<1>8. Line(p) \in Seq(Chars) /\ Len(Line(p)) = NumItems(p) + Len(UnderWay(p))
  BY <1>1, <1>7, ConcatProperties DEF Line
<1> QED BY <1>1, <1>3, <1>4, <1>5, <1>6, <1>7, <1>8

PartsOK ==
  \A p \in Ports :
    /\ Contents(p) \in Seq(Chars) /\ Len(Contents(p)) = NumItems(p)
    /\ NumItems(p) \in Nat
    /\ UnderWay(p) = Calling(p) \o Leaving(p) \o CharsOf(wire[p])
    /\ UnderWay(p) \in Seq(Chars) /\ Line(p) \in Seq(Chars)

LEMMA PartsNext == RingInv' /\ SockTypeOK' => PartsOK'
<1>1. RingInv /\ SockTypeOK => PartsOK
  BY PartsTyped DEF PartsOK
<1> QED BY <1>1, PTL

(* What a step may do to a line.                                           *)
Kept(p)  == /\ typed'[p] = typed[p]
            /\ Line(p)' = Line(p)
            /\ Len(UnderWay(p))' <= Len(UnderWay(p))
Loses(p) == /\ typed'[p] = typed[p]
            /\ Line(p) # <<>>
            /\ Line(p)' = Tail(Line(p))
            /\ Len(UnderWay(p))' <= Len(UnderWay(p))

LEMMA StillKept ==
  ASSUME RingInv, SockTypeOK, NEW p \in Ports,
         UNCHANGED <<head, tail, buf>>, typed'[p] = typed[p],
         Calling(p)' = Calling(p), Leaving(p)' = Leaving(p), wire'[p] = wire[p]
  PROVE  Kept(p)
<1>1. Contents(p)' = Contents(p)
  BY DEF Contents, NumItems, Peek
<1>2. UnderWay(p)' = UnderWay(p)
  BY DEF UnderWay, Calling, Leaving, CharsOf
<1>3. Len(UnderWay(p)) \in Nat
  BY PartsTyped
<1> QED BY <1>1, <1>2, <1>3 DEF Kept, Line

LEMMA QuietKept ==
  ASSUME RingInv, SockTypeOK, NEW p \in Ports,
         UNCHANGED <<head, tail, buf, typed, wire, left, leftPort>>,
         prod'.port = prod.port, prod'.bytes = prod.bytes
  PROVE  Kept(p)
<1>1. Calling(p)' = Calling(p) /\ Leaving(p)' = Leaving(p)
  BY DEF Calling, Leaving, CharsOf
<1> QED BY <1>1, StillKept

LEMMA ReceiveKept ==
  ASSUME RingInv, SockInv, Idle, NEW e \in todo, Receive(e),
         UNCHANGED <<ringVars, typed>>, NEW p \in Ports
  PROVE  Kept(p)
<1>1. SockTypeOK /\ e.port \in Ports /\ wire[p] \in Seq(Byte)
  BY DEF SockInv, SockTypeOK
<1>2. prod.bytes = <<>> /\ left = <<>> /\ CharsOf(<<>>) = <<>>
  BY DEF Idle, SockInv, CharsOf
<1>3. Calling(p) = <<>> /\ Leaving(p) = <<>> /\ Calling(p)' = <<>>
  BY <1>2 DEF Calling, Leaving, ringVars
<1>4. CASE p = e.port
  <2>1. Leaving(p)' = CharsOf(wire[p]) /\ wire'[p] = <<>>
    BY <1>1, <1>4 DEF Receive, Leaving, CharsOf, SockTypeOK
  <2>2. UnderWay(p)' = <<>> \o CharsOf(wire[p]) \o <<>>
    BY <1>2, <1>3, <2>1 DEF UnderWay, Calling, Leaving, CharsOf
  <2>3. UnderWay(p) = <<>> \o <<>> \o CharsOf(wire[p])
    BY <1>3 DEF UnderWay, Calling, Leaving
  <2>4. CharsOf(wire[p]) \in Seq(Chars)
    BY <1>1, CharsTyped
  <2>5. UnderWay(p)' = UnderWay(p)
    <3> DEFINE w == CharsOf(wire[p])
    <3> HIDE DEF w
    <3>1. <<>> \o w = w /\ w \o <<>> = w
      BY <2>4, ConcatEmptySeq DEF w
    <3>2. <<>> \o <<>> = <<>>
      OBVIOUS
    <3> QED BY <2>2, <2>3, <3>1, <3>2 DEF w
  <2>6. Contents(p)' = Contents(p)
    BY DEF Contents, NumItems, Peek, ringVars
  <2>7. Len(UnderWay(p)) \in Nat
    BY <1>1, PartsTyped
  <2> QED BY <2>5, <2>6, <2>7 DEF Kept, Line
<1>5. CASE p # e.port
  <2>1. Leaving(p)' = <<>> /\ wire'[p] = wire[p]
    BY <1>5, <1>1 DEF Receive, Leaving, SockTypeOK
  <2> QED BY <1>1, <1>3, <2>1, StillKept DEF ringVars
<1> QED BY <1>4, <1>5

LEMMA CutJoined ==
  ASSUME NEW bs \in Seq(Byte), NEW n \in 1 .. Len(bs)
  PROVE  CharsOf(SubSeq(bs, 1, n)) \o CharsOf(SubSeq(bs, n + 1, Len(bs)))
           = CharsOf(bs)
<1> DEFINE a == CharsOf(SubSeq(bs, 1, n))
           b == CharsOf(SubSeq(bs, n + 1, Len(bs)))
<1>1. /\ SubSeq(bs, 1, n) \in Seq(Byte)
      /\ Len(SubSeq(bs, 1, n)) = n
      /\ \A k \in 1 .. n : SubSeq(bs, 1, n)[k] = bs[k]
      /\ SubSeq(bs, n + 1, Len(bs)) \in Seq(Byte)
      /\ Len(SubSeq(bs, n + 1, Len(bs))) = Len(bs) - n
      /\ \A k \in 1 .. Len(bs) - n : SubSeq(bs, n + 1, Len(bs))[k] = bs[n + k]
  BY CutTyped
<1>2. a \in Seq(Chars) /\ Len(a) = n /\ \A k \in 1 .. n : a[k] = bs[k].char
  BY <1>1, CharsTyped
<1>3. /\ b \in Seq(Chars) /\ Len(b) = Len(bs) - n
      /\ \A k \in 1 .. Len(bs) - n : b[k] = bs[n + k].char
  <2> DEFINE u == SubSeq(bs, n + 1, Len(bs))
  <2>1. /\ u \in Seq(Byte) /\ Len(u) = Len(bs) - n
        /\ \A k \in 1 .. Len(bs) - n : u[k] = bs[n + k]
    BY <1>1
  <2> HIDE DEF u
  <2>2. /\ CharsOf(u) \in Seq(Chars) /\ Len(CharsOf(u)) = Len(u)
        /\ \A k \in 1 .. Len(u) : CharsOf(u)[k] = u[k].char
    BY <2>1, CharsTyped
  <2> QED BY <2>1, <2>2 DEF u
<1>4. /\ CharsOf(bs) \in Seq(Chars) /\ Len(CharsOf(bs)) = Len(bs)
      /\ \A k \in 1 .. Len(bs) : CharsOf(bs)[k] = bs[k].char
      /\ Len(bs) \in Nat
  BY CharsTyped
<1> HIDE DEF a, b
<1>5. /\ a \o b \in Seq(Chars) /\ Len(a \o b) = Len(bs)
      /\ \A k \in 1 .. Len(bs) : (a \o b)[k] = IF k <= n THEN a[k] ELSE b[k - n]
  BY <1>2, <1>3, <1>4, ConcatProperties
<1>6. ASSUME NEW k \in 1 .. Len(bs)
      PROVE  (a \o b)[k] = CharsOf(bs)[k]
  <2>1. CASE k <= n
    BY <1>2, <1>4, <1>5, <2>1
  <2>2. CASE k > n
    <3>1. k - n \in 1 .. Len(bs) - n /\ n + (k - n) = k
      BY <1>4, <2>2
    <3> QED BY <1>3, <1>4, <1>5, <2>2, <3>1
  <2>3. k <= n \/ k > n
    BY <1>4
  <2> QED BY <2>1, <2>2, <2>3, Zenon
<1>7. a \o b = CharsOf(bs)
  BY <1>4, <1>5, <1>6, Extensional
<1> QED BY <1>7 DEF a, b

LEMMA CallKept ==
  ASSUME RingInv, SockInv, NextCall, NEW p \in Ports
  PROVE  Kept(p)
<1>1. SockTypeOK /\ left \in Seq(Byte) /\ leftPort \in Ports
  BY DEF SockInv, SockTypeOK
<1>2. PICK n \in 1 .. Len(left) :
        /\ Queue(leftPort, CharsOf(SubSeq(left, 1, n)), ~perKey \/ n > 1)
        /\ left' = SubSeq(left, n + 1, Len(left))
  BY <1>1 DEF NextCall
<1>3. /\ prod.bytes = <<>> /\ UNCHANGED <<head, tail, buf, typed, wire, leftPort>>
      /\ prod'.port = leftPort /\ prod'.bytes = CharsOf(SubSeq(left, 1, n))
  BY <1>2 DEF NextCall, Queue, SockInv
<1>4. CASE p = leftPort
  <2> DEFINE a == CharsOf(SubSeq(left, 1, n))
             b == CharsOf(SubSeq(left, n + 1, Len(left)))
             w == CharsOf(wire[p])
  <2>1. UnderWay(p)' = a \o b \o w
    BY <1>2, <1>3, <1>4 DEF UnderWay, CharsOf
  <2>2. UnderWay(p) = <<>> \o CharsOf(left) \o w
    BY <1>3, <1>4 DEF UnderWay
  <2>3. CharsOf(left) \in Seq(Chars) /\ a \o b = CharsOf(left)
    BY <1>1, CharsTyped, CutJoined
  <2>4. UnderWay(p)' = UnderWay(p)
    BY <2>1, <2>2, <2>3, ConcatEmptySeq
  <2>5. Contents(p)' = Contents(p)
    BY <1>3 DEF Contents, NumItems, Peek
  <2>6. Len(UnderWay(p)) \in Nat
    BY <1>1, PartsTyped
  <2> QED BY <1>3, <2>4, <2>5, <2>6 DEF Kept, Line
<1>5. CASE p # leftPort
  <2>1. Calling(p) = <<>> /\ Calling(p)' = <<>> /\ Leaving(p) = <<>> /\ Leaving(p)' = <<>>
    BY <1>3, <1>5 DEF Calling, Leaving
  <2> QED BY <1>1, <1>3, <2>1, StillKept
<1> QED BY <1>4, <1>5

LEMMA Regrouped ==
  ASSUME NEW c \in Seq(Chars), NEW h \in Seq(Chars), NEW t \in Seq(Chars),
         NEW l \in Seq(Chars), NEW w \in Seq(Chars)
  PROVE  Cat(Cat(c, h), Cat(Cat(t, l), w)) = Cat(c, Cat(Cat(Cat(h, t), l), w))
<1>1. Cat(t, l) \in Seq(Chars) /\ Cat(Cat(t, l), w) \in Seq(Chars)
  BY CatTyped
<1>2. Cat(h, Cat(t, l)) = Cat(Cat(h, t), l)
  BY CatAssociative
<1>3. Cat(Cat(h, Cat(t, l)), w) = Cat(h, Cat(Cat(t, l), w))
  BY <1>1, CatAssociative
<1>4. Cat(Cat(c, h), Cat(Cat(t, l), w)) = Cat(c, Cat(h, Cat(Cat(t, l), w)))
  BY <1>1, CatAssociative
<1> QED BY <1>2, <1>3, <1>4

LEMMA Handed ==
  ASSUME NEW c \in Seq(Chars), NEW a \in Seq(Chars), a # <<>>,
         NEW l \in Seq(Chars), NEW w \in Seq(Chars)
  PROVE  Cat(Append(c, Head(a)), Cat(Cat(Tail(a), l), w)) = Cat(c, Cat(Cat(a, l), w))
<1> DEFINE h == <<Head(a)>>
           t == Tail(a)
<1>1. Head(a) \in Chars /\ t \in Seq(Chars) /\ h \in Seq(Chars)
  OBVIOUS
<1>2. a = h \o t
  <2>1. /\ Len(h) = 1 /\ h[1] = Head(a) /\ Head(a) = a[1]
        /\ Len(t) = Len(a) - 1 /\ Len(a) \in Nat
        /\ \A k \in 1 .. Len(a) - 1 : t[k] = a[k + 1]
    BY HeadTailProperties
  <2>2. /\ h \o t \in Seq(Chars) /\ Len(h \o t) = Len(a)
        /\ \A k \in 1 .. Len(a) : (h \o t)[k] = IF k <= 1 THEN h[k] ELSE t[k - 1]
    BY <1>1, <2>1, ConcatProperties
  <2> HIDE DEF h, t
  <2>3. ASSUME NEW k \in 1 .. Len(a)
        PROVE  (h \o t)[k] = a[k]
    <3>1. CASE k = 1
      BY <2>1, <2>2, <3>1
    <3>2. CASE k # 1
      <4>1. k - 1 \in 1 .. Len(a) - 1 /\ (k - 1) + 1 = k
        BY <2>1, <3>2
      <4> QED BY <2>1, <2>2, <3>2, <4>1
    <3> QED BY <3>1, <3>2
  <2> QED BY <2>2, <2>3, Extensional
<1>3. Append(c, Head(a)) = c \o h
  BY <1>1, AppendIsConcat
<1> HIDE DEF h, t
<1>4. Cat(Cat(c, h), Cat(Cat(t, l), w)) = Cat(c, Cat(Cat(Cat(h, t), l), w))
  BY <1>1, Regrouped
<1>5. a = Cat(h, t) /\ Append(c, Head(a)) = Cat(c, h)
  BY <1>2, <1>3 DEF Cat
<1> QED BY <1>4, <1>5 DEF t

LEMMA QueuesAre ==
  ASSUME NEW p \in Ports
  PROVE  Queues[p] = Contents(p) /\ Queues'[p] = Contents(p)'
BY DEF Queues

LEMMA PlaceKept ==
  ASSUME RingInv, RingInv', SockInv, Place, UNCHANGED sockVars, NEW p \in Ports
  PROVE  Kept(p)
<1>1. /\ SockTypeOK /\ prod.port \in Ports
      /\ prod.bytes \in Seq(Chars) /\ prod.bytes # <<>>
  BY DEF SockInv, RingInv, RingTypeOK, ProdType, Place, ProducerSafe
<1>2. /\ prod'.port = prod.port /\ prod'.bytes = Tail(prod.bytes)
      /\ UNCHANGED <<typed, wire, left, leftPort>>
  BY DEF Place, RingInv, RingTypeOK, ProdType, sockVars
<1>3. Queues' = [Queues EXCEPT ![prod.port] = Append(Queues[prod.port], Head(prod.bytes))]
  BY <1>1, PlaceGrows
<1>4. CASE p = prod.port
  <2> DEFINE c == Contents(p)
             a == prod.bytes
             l == Leaving(p)
             w == CharsOf(wire[p])
  <2>1. Contents(p)' = Append(c, Head(a))
    <3>1. Queues'[p] = Append(Queues[p], Head(a))
      BY <1>3, <1>4 DEF Queues
    <3> QED BY <3>1, QueuesAre
  <2>2. UnderWay(p) = a \o l \o w /\ UnderWay(p)' = Tail(a) \o l \o w
    BY <1>2, <1>4 DEF UnderWay, Leaving, CharsOf
  <2>3. c \in Seq(Chars) /\ l \in Seq(Chars) /\ w \in Seq(Chars)
    BY <1>1, PartsTyped
  <2> HIDE DEF c, a, l, w
  <2>4. a \in Seq(Chars) /\ a # <<>>
    BY <1>1 DEF a
  <2>5. Append(c, Head(a)) \o (Tail(a) \o l \o w) = c \o (a \o l \o w)
    <3>1. Cat(Append(c, Head(a)), Cat(Cat(Tail(a), l), w)) = Cat(c, Cat(Cat(a, l), w))
      BY <2>3, <2>4, Handed
    <3> QED BY <3>1 DEF Cat
  <2>6. Line(p)' = Line(p)
    BY <2>1, <2>2, <2>5 DEF Line, c
  <2>7. Len(Tail(a) \o l \o w) <= Len(a \o l \o w)
    <3>1. /\ Tail(a) \in Seq(Chars) /\ Len(Tail(a)) = Len(a) - 1
          /\ Len(a) \in Nat /\ Len(l) \in Nat /\ Len(w) \in Nat
      BY <2>3, <2>4, HeadTailProperties
    <3>2. Len(a \o l \o w) = Len(a) + Len(l) + Len(w)
      BY <2>3, <2>4, Joined
    <3>3. Len(Tail(a) \o l \o w) = Len(Tail(a)) + Len(l) + Len(w)
      BY <2>3, <3>1, Joined
    <3> QED BY <3>1, <3>2, <3>3
  <2> QED BY <1>2, <2>2, <2>6, <2>7 DEF Kept
<1>5. CASE p # prod.port
  <2>1. Contents(p)' = Contents(p)
    <3>1. Queues'[p] = Queues[p]
      BY <1>3, <1>5 DEF Queues
    <3> QED BY <3>1, QueuesAre
  <2>2. UnderWay(p)' = UnderWay(p)
    BY <1>2, <1>5 DEF UnderWay, CharsOf
  <2>3. Len(UnderWay(p)) \in Nat
    BY <1>1, PartsTyped
  <2> QED BY <1>2, <2>1, <2>2, <2>3 DEF Kept, Line
<1> QED BY <1>4, <1>5

LEMMA TailOfLine ==
  ASSUME NEW c \in Seq(Chars), c # <<>>, NEW u \in Seq(Chars)
  PROVE  c \o u # <<>> /\ Tail(c) \o u = Tail(c \o u)
<1>1. /\ c \o u \in Seq(Chars) /\ Len(c \o u) = Len(c) + Len(u)
      /\ \A k \in 1 .. Len(c) + Len(u) :
           (c \o u)[k] = IF k <= Len(c) THEN c[k] ELSE u[k - Len(c)]
  BY ConcatProperties
<1>2. /\ Tail(c) \in Seq(Chars) /\ Len(Tail(c)) = Len(c) - 1
      /\ \A k \in 1 .. Len(c) - 1 : Tail(c)[k] = c[k + 1]
      /\ Len(c) \in Nat /\ Len(c) >= 1 /\ Len(u) \in Nat
  BY HeadTailProperties, EmptySeq
<1>3. c \o u # <<>>
  BY <1>2, ConcatEqualIffEmpty
<1> DEFINE s == c \o u
           r == Tail(c)
<1>4. /\ Tail(s) \in Seq(Chars) /\ Len(Tail(s)) = Len(s) - 1
      /\ \A k \in 1 .. Len(s) - 1 : Tail(s)[k] = s[k + 1]
  BY <1>1, <1>3, HeadTailProperties
<1>5. /\ r \o u \in Seq(Chars) /\ Len(r \o u) = Len(r) + Len(u)
      /\ \A k \in 1 .. Len(r) + Len(u) :
           (r \o u)[k] = IF k <= Len(r) THEN r[k] ELSE u[k - Len(r)]
  BY <1>2, ConcatProperties
<1> HIDE DEF r, s
<1>6. ASSUME NEW k \in 1 .. Len(r \o u)
      PROVE  (r \o u)[k] = Tail(s)[k]
  <2>1. /\ Len(r) = Len(c) - 1 /\ Len(s) = Len(c) + Len(u)
        /\ \A i \in 1 .. Len(c) - 1 : r[i] = c[i + 1]
        /\ \A i \in 1 .. Len(c) + Len(u) :
             s[i] = IF i <= Len(c) THEN c[i] ELSE u[i - Len(c)]
    BY <1>1, <1>2 DEF r, s
  <2>2. k \in 1 .. Len(s) - 1 /\ k + 1 \in 1 .. Len(c) + Len(u)
    BY <1>2, <1>5, <2>1
  <2>3. Tail(s)[k] = s[k + 1]
    BY <1>4, <2>2
  <2>4. CASE k <= Len(r)
    <3>1. k \in 1 .. Len(c) - 1 /\ k + 1 <= Len(c) /\ k \in 1 .. Len(r) + Len(u)
      BY <1>2, <2>1, <2>2, <2>4
    <3>2. (r \o u)[k] = r[k] /\ r[k] = c[k + 1] /\ s[k + 1] = c[k + 1]
      BY <1>5, <2>1, <2>2, <2>4, <3>1
    <3> QED BY <2>3, <3>2
  <2>5. CASE k > Len(r)
    <3>1. /\ ~(k + 1 <= Len(c)) /\ k - Len(r) = (k + 1) - Len(c)
          /\ ~(k <= Len(r)) /\ k \in 1 .. Len(r) + Len(u)
      BY <1>2, <2>1, <2>2, <2>5
    <3>2. (r \o u)[k] = u[k - Len(r)] /\ s[k + 1] = u[(k + 1) - Len(c)]
      BY <1>5, <2>1, <2>2, <3>1
    <3> QED BY <2>3, <3>1, <3>2
  <2>6. k <= Len(r) \/ k > Len(r)
    BY <1>2, <2>1
  <2> QED BY <2>4, <2>5, <2>6
<1>7. r \o u = Tail(s)
  <2>1. Len(r \o u) = Len(Tail(s))
    BY <1>1, <1>2, <1>4, <1>5 DEF r, s
  <2> QED BY <1>4, <1>5, <1>6, <2>1, Extensional
<1> QED BY <1>3, <1>7 DEF r, s

(* Both threads take from the front of a line, the poll thread when it     *)
(* overwrites the oldest character.                                        *)
LEMMA TakenFrom ==
  ASSUME RingInv, SockTypeOK, NEW q \in Ports,
         Queues[q] # <<>>, Queues' = [Queues EXCEPT ![q] = Tail(Queues[q])],
         UNCHANGED sockVars, prod'.port = prod.port, prod'.bytes = prod.bytes,
         NEW p \in Ports
  PROVE  Kept(p) \/ Loses(p)
<1>1. UnderWay(p)' = UnderWay(p) /\ typed'[p] = typed[p]
  BY DEF UnderWay, CharsOf, sockVars
<1>2. /\ Len(UnderWay(p)) \in Nat /\ UnderWay(p) \in Seq(Chars)
      /\ Contents(p) \in Seq(Chars)
  BY PartsTyped
<1>3. CASE p # q
  <2>1. Queues'[p] = Queues[p]
    BY <1>3 DEF Queues
  <2>2. Contents(p)' = Contents(p)
    BY <2>1, QueuesAre
  <2> QED BY <1>1, <1>2, <2>2 DEF Kept, Line
<1>4. CASE p = q
  <2>1. Queues'[p] = Tail(Queues[p])
    BY <1>4 DEF Queues
  <2>2. Contents(p) # <<>> /\ Contents(p)' = Tail(Contents(p))
    BY <1>4, <2>1, QueuesAre
  <2> DEFINE c == Contents(p)
             u == UnderWay(p)
  <2>3. Line(p) = c \o u /\ Line(p)' = Tail(c) \o u
    BY <1>1, <2>2 DEF Line
  <2>4. c \in Seq(Chars) /\ c # <<>> /\ u \in Seq(Chars)
    BY <1>2, <2>2
  <2> HIDE DEF c, u
  <2>5. c \o u # <<>> /\ Tail(c) \o u = Tail(c \o u)
    BY <2>4, TailOfLine
  <2> QED BY <1>1, <1>2, <2>3, <2>5 DEF Loses
<1> QED BY <1>3, <1>4

LEMMA EvictTakes ==
  ASSUME RingInv, RingInv', SockTypeOK, Evict, UNCHANGED sockVars, NEW p \in Ports
  PROVE  Kept(p) \/ Loses(p)
<1>1. prod.port \in Ports /\ prod'.port = prod.port /\ prod'.bytes = prod.bytes
  BY DEF RingInv, RingTypeOK, ProdType, Evict
<1>2. Fifo!DropOldest(prod.port)
  BY <1>1, EvictMaps
<1>3. Queues[prod.port] # <<>>
  <2>1. Len(Queues[prod.port]) = Size - 1
    BY <1>2 DEF Fifo!DropOldest
  <2>2. Len(<<>>) = 0
    OBVIOUS
  <2> QED BY <2>1, <2>2, RingAssumption
<1> QED BY <1>1, <1>2, <1>3, TakenFrom DEF Fifo!DropOldest

LEMMA AdvanceTakes ==
  ASSUME RingInv, RingInv', SockTypeOK, Advance, UNCHANGED sockVars, NEW p \in Ports
  PROVE  Kept(p) \/ Loses(p)
<1>1. cons.port \in Ports /\ prod' = prod
  BY DEF RingInv, RingTypeOK, ConsType, Advance
<1>2. Fifo!Take(cons.port)
  BY <1>1, AdvanceMaps
<1> QED BY <1>1, <1>2, TakenFrom DEF Fifo!Take

LEMMA InOrderAfter ==
  ASSUME RingInv, SockInv, RingInv', SockTypeOK',
         NEW p \in Ports, Kept(p) \/ Loses(p)
  PROVE  InOrder(p, typed'[p], Line(p)') /\ Len(UnderWay(p)') <= MaxUnderWay
<1>1. /\ SockTypeOK /\ typed[p] \in 0 .. Stamps - 1
      /\ InOrder(p, typed[p], Line(p))
      /\ Len(UnderWay(p)) <= MaxUnderWay
  BY DEF SockInv, SockTypeOK, OwnCharacters
<1>2. /\ Line(p) \in Seq(Chars) /\ Len(UnderWay(p)) \in Nat
      /\ MaxUnderWay \in Nat
  BY <1>1, PartsTyped, SockAssumption
<1>3. Len(UnderWay(p)') <= MaxUnderWay
  <2>1. UnderWay(p)' \in Seq(Chars)
    BY PartsNext DEF PartsOK
  <2>2. Len(UnderWay(p)') \in Nat
    BY <2>1
  <2>3. Len(UnderWay(p)') <= Len(UnderWay(p))
    BY DEF Kept, Loses
  <2> QED BY <1>1, <1>2, <2>2, <2>3
<1>4. CASE Kept(p)
  <2>1. typed'[p] = typed[p] /\ Line(p)' = Line(p)
    BY <1>4 DEF Kept
  <2> QED BY <1>1, <1>3, <2>1
<1>5. CASE Loses(p)
  <2>1. typed'[p] = typed[p] /\ Line(p) # <<>> /\ Line(p)' = Tail(Line(p))
    BY <1>5 DEF Loses
  <2>2. InOrder(p, typed[p], Tail(Line(p)))
    BY <1>1, <1>2, <2>1, OrderTail
  <2> QED BY <1>3, <2>1, <2>2
<1> QED BY <1>4, <1>5

(* The end of a line, on the wire: a terminal adds to it, and one that     *)
(* hangs up may take it along.                                             *)
LEMMA LineFits ==
  ASSUME RingInv, SockInv, NEW p \in Ports
  PROVE  /\ Len(Line(p)) \in Nat /\ Len(UnderWay(p)) \in Nat
         /\ Len(Line(p)) + (MaxUnderWay - Len(UnderWay(p))) <= Stamps
         /\ Len(Line(p)) <= Stamps
<1>1. /\ NumItems(p) \in Nat /\ NumItems(p) < Size
      /\ UnderWay(p) \in Seq(Chars) /\ Line(p) \in Seq(Chars)
      /\ Len(Line(p)) = NumItems(p) + Len(UnderWay(p))
  BY PartsTyped DEF SockInv
<1>2. /\ Len(UnderWay(p)) \in Nat /\ Len(Line(p)) \in Nat
      /\ Len(UnderWay(p)) <= MaxUnderWay
  BY <1>1 DEF SockInv
<1> QED BY <1>1, <1>2, SockAssumption, RingAssumption

LEMMA SendGrows ==
  ASSUME RingInv, SockInv, NEW p \in Ports, NEW keys \in Packets, Send(p, keys)
  PROVE  InOrder(p, typed'[p], Line(p)') /\ Len(UnderWay(p)') <= MaxUnderWay
<1> DEFINE c == Contents(p)
           a == Calling(p)
           l == Leaving(p)
           w == CharsOf(Packet(p, keys))
<1>1. /\ SockTypeOK /\ typed[p] \in 0 .. Stamps - 1
      /\ InOrder(p, typed[p], Line(p))
  BY DEF SockInv, SockTypeOK, OwnCharacters
<1>2. /\ w \in Seq(Chars) /\ Len(w) = Len(keys) /\ Len(keys) \in Nat
      /\ \A k \in 1 .. Len(w) : w[k] = <<p, (typed[p] + k - 1) % Stamps>>
  <2> DEFINE b == Packet(p, keys)
  <2>1. /\ b \in Seq(Byte) /\ Len(b) = Len(keys) /\ Len(keys) \in Nat
        /\ \A k \in 1 .. Len(keys) :
             b[k].char = <<p, (typed[p] + k - 1) % Stamps>>
    BY <1>1, PacketTyped
  <2> HIDE DEF b
  <2>2. /\ CharsOf(b) \in Seq(Chars) /\ Len(CharsOf(b)) = Len(b)
        /\ \A k \in 1 .. Len(b) : CharsOf(b)[k] = b[k].char
    BY <2>1, CharsTyped
  <2>3. w = CharsOf(b)
    BY DEF b
  <2> HIDE DEF w
  <2> QED BY <2>1, <2>2, <2>3
<1>3. /\ typed'[p] = (typed[p] + Len(keys)) % Stamps
      /\ wire[p] = <<>> /\ wire'[p] = Packet(p, keys)
      /\ Len(UnderWay(p)) + Len(keys) <= MaxUnderWay
      /\ UNCHANGED <<head, tail, buf, prod, left, leftPort>>
  BY <1>1 DEF Send, SockTypeOK, ringVars
<1>4. c \in Seq(Chars) /\ a \in Seq(Chars) /\ l \in Seq(Chars)
  BY <1>1, PartsTyped
<1>5. UnderWay(p) = a \o l \o <<>> /\ UnderWay(p)' = a \o l \o w
  <2>1. CharsOf(<<>>) = <<>>
    BY DEF CharsOf
  <2> QED BY <1>3, <2>1 DEF UnderWay, Calling, Leaving, CharsOf
<1>6. Contents(p)' = c
  BY <1>3 DEF Contents, NumItems, Peek
<1> HIDE DEF c, a, l, w
<1>7. /\ a \o l \o <<>> = a \o l
      /\ c \o (a \o l \o w) = (c \o (a \o l)) \o w
      /\ Len(a \o l \o w) = Len(a) + Len(l) + Len(w)
  <2>1. Cat(a, l) \in Seq(Chars)
    BY <1>4, CatTyped
  <2>2. Cat(Cat(a, l), <<>>) = Cat(a, l)
    BY <2>1, CatEmpty
  <2>3. Cat(c, Cat(Cat(a, l), w)) = Cat(Cat(c, Cat(a, l)), w)
    BY <1>2, <1>4, <2>1, CatAssociative
  <2>4. Len(Cat(Cat(a, l), w)) = Len(a) + Len(l) + Len(w)
    BY <1>2, <1>4, <2>1, CatLength
  <2> QED BY <2>2, <2>3, <2>4, Zenon DEF Cat
<1>8. Line(p) = c \o (a \o l) /\ Line(p)' = c \o (a \o l \o w)
  BY <1>5, <1>6, <1>7 DEF Line, c
<1>9. Line(p)' = Line(p) \o w
  BY <1>7, <1>8
<1>10. Len(UnderWay(p)') = Len(UnderWay(p)) + Len(w)
  <2>1. a \o l \in Seq(Chars) /\ Len(a \o l) = Len(a) + Len(l)
    BY <1>4, ConcatProperties
  <2> QED BY <1>5, <1>7, <2>1
<1>11. Line(p) \in Seq(Chars)
  BY <1>1, PartsTyped
<1>12. Len(Line(p)) + Len(w) <= Stamps
  BY <1>2, <1>3, LineFits, SockAssumption
<1>13. InOrder(p, (typed[p] + Len(w)) % Stamps, Line(p) \o w)
  BY <1>1, <1>2, <1>11, <1>12, OrderGrown
<1> QED BY <1>2, <1>3, <1>9, <1>10, <1>13

LEMMA HangUpCuts ==
  ASSUME RingInv, SockInv, RingInv', SockTypeOK', NEW p \in Ports, HangUp(p)
  PROVE  InOrder(p, typed'[p], Line(p)') /\ Len(UnderWay(p)') <= MaxUnderWay
<1> DEFINE c == Contents(p)
           a == Calling(p)
           l == Leaving(p)
           w == CharsOf(wire[p])
<1>1. /\ SockTypeOK /\ typed[p] \in 0 .. Stamps - 1
      /\ InOrder(p, typed[p], Line(p))
      /\ Len(UnderWay(p)) <= MaxUnderWay
  BY DEF SockInv, SockTypeOK, OwnCharacters
<1>2. UNCHANGED <<head, tail, buf, prod, left, leftPort>>
  BY DEF HangUp, ringVars
<1>3. CASE UNCHANGED <<wire, typed>>
  <2>1. Kept(p)
    BY <1>1, <1>2, <1>3, QuietKept
  <2> QED BY <2>1, InOrderAfter
<1>4. CASE /\ wire' = [wire EXCEPT ![p] = <<>>]
           /\ typed' = [typed EXCEPT ![p] =
                (@ + Stamps - Len(wire[p])) % Stamps]
  <2>1. c \in Seq(Chars) /\ a \in Seq(Chars) /\ l \in Seq(Chars) /\ w \in Seq(Chars)
        /\ Len(w) = Len(wire[p])
    BY <1>1, PartsTyped
  <2>2. /\ typed'[p] = (typed[p] + Stamps - Len(w)) % Stamps /\ wire'[p] = <<>>
    BY <1>1, <1>4, <2>1 DEF SockTypeOK
  <2>3. UnderWay(p)' = a \o l \o <<>> /\ UnderWay(p) = a \o l \o w
    <3>1. CharsOf(<<>>) = <<>>
      BY DEF CharsOf
    <3> QED BY <1>2, <2>2, <3>1 DEF UnderWay, Calling, Leaving, CharsOf
  <2>4. Contents(p)' = c
    BY <1>2 DEF Contents, NumItems, Peek
  <2> HIDE DEF c, a, l, w
  <2>5. /\ a \o l \o <<>> = a \o l
        /\ c \o (a \o l \o w) = (c \o (a \o l)) \o w
        /\ Len(a \o l \o w) = Len(a) + Len(l) + Len(w)
    <3>1. Cat(a, l) \in Seq(Chars)
      BY <2>1, CatTyped
    <3>2. Cat(Cat(a, l), <<>>) = Cat(a, l)
      BY <3>1, CatEmpty
    <3>3. Cat(c, Cat(Cat(a, l), w)) = Cat(Cat(c, Cat(a, l)), w)
      BY <2>1, <3>1, CatAssociative
    <3>4. Len(Cat(Cat(a, l), w)) = Len(a) + Len(l) + Len(w)
      BY <2>1, <3>1, CatLength
    <3> QED BY <3>2, <3>3, <3>4, Zenon DEF Cat
  <2>6. Line(p)' = c \o (a \o l) /\ Line(p) = c \o (a \o l \o w)
    BY <2>3, <2>4, <2>5 DEF Line, c
  <2>7. a \o l \in Seq(Chars) /\ Len(a \o l) = Len(a) + Len(l)
    BY <2>1, ConcatProperties
  <2>8. c \o (a \o l) \in Seq(Chars)
    BY <2>1, <2>7, ConcatProperties
  <2>9. Line(p) = (c \o (a \o l)) \o w /\ Len(c \o (a \o l)) + Len(w) <= Stamps
    <3> DEFINE s == c \o (a \o l)
    <3>1. Line(p) = s \o w
      BY <2>5, <2>6
    <3> HIDE DEF s
    <3>2. Len(s \o w) = Len(s) + Len(w)
      BY <2>1, <2>8, ConcatProperties DEF s
    <3>3. Len(s) + Len(w) <= Stamps
      BY <3>1, <3>2, LineFits
    <3> QED BY <3>1, <3>3 DEF s
  <2>10. InOrder(p, (typed[p] + Stamps - Len(w)) % Stamps, c \o (a \o l))
    <3> DEFINE s == c \o (a \o l)
    <3>1. s \in Seq(Chars) /\ Len(s) + Len(w) <= Stamps /\ InOrder(p, typed[p], s \o w)
      BY <1>1, <2>8, <2>9
    <3> HIDE DEF s
    <3>2. InOrder(p, (typed[p] + Stamps - Len(w)) % Stamps, s)
      BY <1>1, <2>1, <3>1, OrderCut
    <3> QED BY <3>2 DEF s
  <2>11. Len(UnderWay(p)') <= MaxUnderWay
    <3>1. Len(a) \in Nat /\ Len(l) \in Nat /\ Len(w) \in Nat
      BY <2>1
    <3>2. Len(UnderWay(p)') = Len(a) + Len(l)
          /\ Len(UnderWay(p)) = Len(a) + Len(l) + Len(w)
      BY <2>3, <2>5, <2>7
    <3> QED BY <1>1, <3>1, <3>2, SockAssumption
  <2> QED BY <2>2, <2>6, <2>10, <2>11
<1> QED BY <1>3, <1>4 DEF HangUp

-----------------------------------------------------------------------------
LEMMA OrderKept ==
  ASSUME RingInv, SockInv, RingInv', SockTypeOK', [SockNext]_allVars, NEW p \in Ports
  PROVE  InOrder(p, typed'[p], Line(p)') /\ Len(UnderWay(p)') <= MaxUnderWay
<1>0. SockTypeOK
  BY DEF SockInv
<1>1. ASSUME NEW q \in Ports, Dial(q)
      PROVE  Kept(p)
  BY <1>0, <1>1, QuietKept DEF Dial, ringVars
<1>2. ASSUME NEW q \in Ports \ {p}, HangUp(q)
      PROVE  Kept(p)
  <2>1. typed'[p] = typed[p] /\ wire'[p] = wire[p]
        /\ UNCHANGED <<ringVars, left, leftPort>>
    BY <1>0, <1>2 DEF HangUp, SockTypeOK
  <2>2. Calling(p)' = Calling(p) /\ Leaving(p)' = Leaving(p)
    BY <2>1 DEF Calling, Leaving, CharsOf, ringVars
  <2> QED BY <1>0, <2>1, <2>2, StillKept DEF ringVars
<1>3. ASSUME NEW q \in Ports \ {p}, NEW keys \in Packets, Send(q, keys)
      PROVE  Kept(p)
  <2>1. typed'[p] = typed[p] /\ wire'[p] = wire[p]
        /\ UNCHANGED <<ringVars, left, leftPort>>
    BY <1>0, <1>3 DEF Send, SockTypeOK
  <2>2. Calling(p)' = Calling(p) /\ Leaving(p)' = Leaving(p)
    BY <2>1 DEF Calling, Leaving, CharsOf, ringVars
  <2> QED BY <1>0, <2>1, <2>2, StillKept DEF ringVars
<1>4. ASSUME Poll
      PROVE  Kept(p) \/ Loses(p)
  BY <1>0, <1>4, QuietKept DEF Poll, ringVars
<1>5. ASSUME Handle
      PROVE  Kept(p) \/ Loses(p)
  <2>1. Idle /\ UNCHANGED <<ringVars, typed>>
    BY <1>5 DEF Handle
  <2>2. PICK e \in todo : Accept(e.port) \/ Receive(e) \/ Relisten(e.port)
    BY <1>5 DEF Handle
  <2>3. CASE Receive(e)
    BY <2>1, <2>3, ReceiveKept
  <2>4. CASE Accept(e.port) \/ Relisten(e.port)
    <3>1. UNCHANGED <<wire, left, leftPort>>
      BY <2>4 DEF Accept, Relisten
    <3> QED BY <1>0, <2>1, <3>1, QuietKept DEF ringVars
  <2> QED BY <2>2, <2>3, <2>4
<1>6. ASSUME NextCall
      PROVE  Kept(p) \/ Loses(p)
  BY <1>6, CallKept
<1>7. ASSUME Place /\ UNCHANGED sockVars
      PROVE  Kept(p) \/ Loses(p)
  BY <1>7, PlaceKept
<1>8. ASSUME Evict /\ UNCHANGED sockVars
      PROVE  Kept(p) \/ Loses(p)
  BY <1>0, <1>8, EvictTakes
<1>9. ASSUME Advance /\ UNCHANGED sockVars
      PROVE  Kept(p) \/ Loses(p)
  BY <1>0, <1>9, AdvanceTakes
<1>10. ASSUME (Enter \/ TestFull \/ Fetch \/ (\E q \in Typists : GetChar(q)))
            /\ UNCHANGED sockVars
      PROVE  Kept(p) \/ Loses(p)
  <2>1. UNCHANGED <<head, tail, buf>>
        /\ prod'.port = prod.port /\ prod'.bytes = prod.bytes
    BY <1>10 DEF Enter, TestFull, Fetch, GetChar, RingInv, RingTypeOK, ProdType
  <2> QED BY <1>0, <1>10, <2>1, QuietKept DEF sockVars
<1>11. ASSUME UNCHANGED allVars
      PROVE  Kept(p) \/ Loses(p)
  BY <1>0, <1>11, QuietKept DEF allVars, ringVars, sockVars
<1>12. CASE \/ \E q \in Ports : Dial(q)
            \/ \E q \in Ports \ {p} : HangUp(q)
            \/ \E q \in Typists \ {p}, keys \in Packets : Send(q, keys)
  <2>1. Typists \subseteq Ports
    BY SockAssumption
  <2>2. Kept(p)
    BY <1>1, <1>2, <1>3, <1>12, <2>1
  <2> QED BY <2>2, InOrderAfter
<1>13. CASE HangUp(p)
  BY <1>13, HangUpCuts
<1>14. ASSUME NEW keys \in Packets, Send(p, keys)
       PROVE  InOrder(p, typed'[p], Line(p)') /\ Len(UnderWay(p)') <= MaxUnderWay
  BY <1>14, SendGrows
<1>15. CASE \/ Poll \/ Handle \/ NextCall \/ UNCHANGED allVars
            \/ /\ \/ Place \/ Evict \/ Advance \/ Enter \/ TestFull \/ Fetch
                  \/ \E q \in Typists : GetChar(q)
               /\ UNCHANGED sockVars
  <2>1. Kept(p) \/ Loses(p)
    BY <1>4, <1>5, <1>6, <1>7, <1>8, <1>9, <1>10, <1>11, <1>15
  <2> QED BY <2>1, InOrderAfter
<1> QED BY <1>12, <1>13, <1>14, <1>15
        DEF SockNext, Terminals, EntersCrit, PollThread, AsksPort, Dequeues, ConsStep

LEMMA CallOver ==
  ASSUME RingInv, SockInv, RingInv', [SockNext]_allVars, prod'.pc = "idle"
  PROVE  prod'.bytes = <<>>
<1>1. SockTypeOK /\ (prod.pc = "idle" => prod.bytes = <<>>) /\ prod \in ProdType
  BY DEF SockInv, RingInv, RingTypeOK
<1>2. [RingNext]_ringVars
  BY <1>1, SockStepsRing
<1>3. CASE Place
  <2>1. /\ prod.bytes \in Seq(Chars) /\ prod.bytes # <<>>
        /\ prod'.bytes = Tail(prod.bytes) /\ Len(prod.bytes) = 1
    BY <1>1, <1>3 DEF Place, RingInv, ProducerSafe, ProdType
  <2> DEFINE b == prod.bytes
  <2>2. Tail(b) \in Seq(Chars) /\ Len(Tail(b)) = Len(b) - 1
    BY <2>1, HeadTailProperties
  <2>3. Tail(b) = <<>>
    <3>1. Len(Tail(b)) = 0
      BY <2>1, <2>2
    <3> HIDE DEF b
    <3> QED BY <2>2, <3>1, EmptySeq
  <2> QED BY <2>1, <2>3
<1>4. CASE Evict \/ TestFull \/ Enter
  BY <1>1, <1>4 DEF Evict, TestFull, Enter, ProdType
<1>5. CASE QueueSome
  BY <1>5 DEF QueueSome, Queue
<1>6. CASE UNCHANGED prod
  BY <1>1, <1>6
<1> QED BY <1>2, <1>3, <1>4, <1>5, <1>6
        DEF RingNext, ProdStep, ConsStep, Fetch, Advance, GetChar, ringVars

LEMMA SockInvStep ==
  ASSUME RingInv, SockInv, RingInv', [SockNext]_allVars
  PROVE  SockInv'
<1>1. SockTypeOK'
  BY SockTypeStep DEF SockInv
<1>2. ASSUME NEW p \in Ports
      PROVE  InOrder(p, typed'[p], Line(p)') /\ Len(UnderWay(p)') <= MaxUnderWay
  BY <1>1, OrderKept
<1>3. prod'.pc = "idle" => prod'.bytes = <<>>
  BY CallOver
<1>4. OwnCharacters'
  BY <1>2 DEF OwnCharacters, InOrder
<1> QED BY <1>1, <1>2, <1>3, <1>4 DEF SockInv

LEMMA SockInvInit == SockInit => SockInv
<1> SUFFICES ASSUME SockInit PROVE SockInv
  OBVIOUS
<1>1. RingInit /\ SockTypeOK
  BY SockTypeInit DEF SockInit
<1>2. prod.bytes = <<>> /\ left = <<>> /\ \A p \in Ports : wire[p] = <<>>
  BY DEF SockInit, RingInit
<1>3. ASSUME NEW p \in Ports
      PROVE  Line(p) = <<>> /\ Len(UnderWay(p)) = 0
  <2>1. Contents(p) = <<>>
    <3>1. Fifo!Init
      BY <1>1, InitMaps
    <3> QED BY <3>1 DEF Fifo!Init, Queues
  <2>2. CharsOf(<<>>) = <<>>
    BY DEF CharsOf
  <2>3. UnderWay(p) = <<>> \o <<>> \o <<>>
    BY <1>2, <2>2 DEF UnderWay
  <2>4. UnderWay(p) = <<>>
    BY <2>3
  <2>5. Line(p) = <<>> \o <<>>
    BY <2>1, <2>4 DEF Line
  <2> QED BY <2>4, <2>5
<1>4. OwnCharacters
  BY <1>3 DEF OwnCharacters, InOrder
<1> QED BY <1>1, <1>2, <1>3, <1>4, SockAssumption DEF SockInv

(* What waits for a port is what was typed for it, in order and without    *)
(* gaps, for any number of ports that come and go, any packets and any     *)
(* size of the rings: the index of a port in pfds never stands for its     *)
(* ring (sock_poll), a packet that is cut up stays together                *)
(* (translateAndAdd), and a full ring loses its oldest character only.     *)
THEOREM CharactersInOrder ==
  ASSUME ~FillsUnlocked
  PROVE  SockSpec => []OwnCharacters
<1>1. SockSpec => []RingInv
  BY ConnectionsSafe, PTL
<1>2. RingInv /\ SockInv /\ RingInv' /\ [SockNext]_allVars => SockInv'
  BY SockInvStep
<1>3. SockInv => OwnCharacters
  BY DEF SockInv
<1> QED BY <1>1, <1>2, <1>3, SockInvInit, PTL DEF SockSpec

=============================================================================

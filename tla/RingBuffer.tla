----------------------------- MODULE RingBuffer -----------------------------
(***************************************************************************)
(* charringbuffer.c as socket_connections.c uses it: one ring for every    *)
(* port, filled by the poll thread and emptied by the emulator's thread.   *)
(* The emulator's side holds the mutex.  The poll thread holds it for      *)
(* packets and for the bytes of a translated key, but not for the single   *)
(* characters that translateAndAdd queues.                                 *)
(*                                                                         *)
(* A step is what one thread does between two accesses of what the other   *)
(* one writes.  The character and the head index are stored by the poll    *)
(* thread alone, and a reader sees the character only once the head has    *)
(* moved, so the two stores are one step.                                  *)
(***************************************************************************)
EXTENDS Integers, Sequences

CONSTANTS
  Ports,     (* the ports that have a ring                                 *)
  Size,      (* slots of a ring, RECV_BUFFER_SIZE                          *)
  Chars,     (* what a slot may hold                                       *)
  NoChar,    (* the content of a slot nothing was stored in                *)
  FillsUnlocked   (* may the poll thread fill a ring without the mutex?    *)

ASSUME RingAssumption ==
  /\ Size \in Nat /\ Size >= 2
  /\ NoChar \notin Chars
  /\ Ports # {}
  /\ FillsUnlocked \in BOOLEAN

VARIABLES
  head, tail, buf,   (* head_index, tail_index and buffer of each ring     *)
  mutex,             (* who is between ENTER_CRIT and LEAVE_CRIT           *)
  prod,              (* the poll thread in ring_buffer_queue(_arr)         *)
  cons,              (* the emulator's thread in ring_buffer_dequeue       *)
  got                (* the character sock_getchar returned last           *)

ringVars == <<head, tail, buf, mutex, prod, cons, got>>

AnyPort  == CHOOSE p \in Ports : TRUE
Slots    == 0 .. Size - 1
Cells    == Chars \cup {NoChar}
ProdType == [pc : {"idle", "enter", "test", "evict", "place"}, port : Ports,
             bytes : Seq(Chars), locked : BOOLEAN, seen : Slots]
ConsType == [pc : {"idle", "fetch", "advance"}, port : Ports,
             val : Cells, seen : Slots]

(* x & RING_BUFFER_MASK for the two x that occur.                          *)
Plus(i, k)   == IF i + k < Size THEN i + k ELSE i + k - Size
Minus(i, j)  == IF i >= j THEN i - j ELSE i - j + Size

NumItems(p)  == Minus(head[p], tail[p])
IsEmpty(p)   == head[p] = tail[p]
IsFull(p)    == NumItems(p) = Size - 1

(* ring_buffer_peek: the item at index k, counted from the oldest.         *)
Peek(p, k)   == buf[p][Plus(tail[p], k)]
Contents(p)  == [k \in 1 .. NumItems(p) |-> Peek(p, k - 1)]

RingInit ==
  /\ head = [p \in Ports |-> 0]
  /\ tail = [p \in Ports |-> 0]
  /\ buf = [p \in Ports |-> [i \in Slots |-> NoChar]]
  /\ mutex = "free"
  /\ prod = [pc |-> "idle", port |-> AnyPort, bytes |-> <<>>,
             locked |-> FALSE, seen |-> 0]
  /\ cons = [pc |-> "idle", port |-> AnyPort, val |-> NoChar, seen |-> 0]
  /\ got = [p \in Ports |-> NoChar]

-----------------------------------------------------------------------------
(* The poll thread.  Queue starts a call for the bytes bs; FillsUnlocked   *)
(* FALSE leaves out that it does so without the mutex while the ring has   *)
(* no room for them.                                                       *)
Queue(p, bs, locked) ==
  /\ prod.pc = "idle"
  /\ bs # <<>>
  /\ locked \/ FillsUnlocked \/ NumItems(p) + Len(bs) < Size
  /\ prod' = [pc |-> IF locked THEN "enter" ELSE "test", port |-> p,
              bytes |-> bs, locked |-> locked, seen |-> 0]
  /\ UNCHANGED <<head, tail, buf, mutex, cons, got>>

(* The test for a full ring, with the mutex taken before the first byte.   *)
TestFull ==
  /\ prod.pc = "test"
  /\ prod' = [prod EXCEPT !.pc = IF IsFull(prod.port) THEN "evict" ELSE "place",
                          !.seen = tail[prod.port]]
  /\ UNCHANGED <<head, tail, buf, mutex, cons, got>>

Enter ==
  /\ prod.pc = "enter"
  /\ mutex = "free"
  /\ mutex' = "poll"
  /\ prod' = [prod EXCEPT !.pc = IF IsFull(prod.port) THEN "evict" ELSE "place",
                          !.seen = tail[prod.port]]
  /\ UNCHANGED <<head, tail, buf, cons, got>>

(* faulty: full, but nothing is evicted *)
EvictNothing ==
  /\ prod.pc = "evict"
  /\ prod' = [prod EXCEPT !.pc = "place"]
  /\ UNCHANGED <<head, tail, buf, mutex, cons, got>>

(* The compiler may use the tail it has tested or read it again.           *)
Evict ==
  /\ prod.pc = "evict"
  /\ \E t \in {prod.seen, tail[prod.port]} :
       tail' = [tail EXCEPT ![prod.port] = Plus(t, 1)]
  /\ prod' = [prod EXCEPT !.pc = "place"]
  /\ UNCHANGED <<head, buf, mutex, cons, got>>

(* faulty: the mutex is not left after the last byte *)
PlaceKeepsMutex ==
  LET p == prod.port
      last == Len(prod.bytes) = 1
  IN /\ prod.pc = "place"
     /\ buf' = [buf EXCEPT ![p][head[p]] = Head(prod.bytes)]
     /\ head' = [head EXCEPT ![p] = Plus(@, 1)]
     /\ prod' = [prod EXCEPT !.pc = IF last THEN "idle" ELSE "test",
                             !.bytes = Tail(@), !.seen = 0]
     /\ UNCHANGED <<tail, mutex, cons, got>>

Place ==
  LET p == prod.port
      last == Len(prod.bytes) = 1
  IN /\ prod.pc = "place"
     /\ buf' = [buf EXCEPT ![p][head[p]] = Head(prod.bytes)]
     /\ head' = [head EXCEPT ![p] = Plus(@, 1)]
     /\ prod' = [prod EXCEPT !.pc = IF last THEN "idle" ELSE "test",
                             !.bytes = Tail(@), !.seen = 0]
     /\ mutex' = IF last /\ prod.locked THEN "free" ELSE mutex
     /\ UNCHANGED <<tail, cons, got>>

-----------------------------------------------------------------------------
(* faulty: sock_getchar without the mutex *)
GetCharOutside(p) ==
  /\ cons.pc = "idle"
  /\ ~IsEmpty(p)
  /\ cons' = [pc |-> "fetch", port |-> p, val |-> NoChar, seen |-> tail[p]]
  /\ UNCHANGED <<head, tail, buf, mutex, prod, got>>

(* The emulator's thread: the mutex, the test for an empty ring, which     *)
(* returns 0 and changes nothing, the character and the tail.              *)
GetChar(p) ==
  /\ cons.pc = "idle"
  /\ mutex = "free"
  /\ ~IsEmpty(p)
  /\ mutex' = "emulator"
  /\ cons' = [pc |-> "fetch", port |-> p, val |-> NoChar, seen |-> tail[p]]
  /\ UNCHANGED <<head, tail, buf, prod, got>>

Fetch ==
  /\ cons.pc = "fetch"
  /\ \E t \in {cons.seen, tail[cons.port]} :
       cons' = [cons EXCEPT !.pc = "advance", !.seen = t,
                            !.val = buf[cons.port][t]]
  /\ UNCHANGED <<head, tail, buf, mutex, prod, got>>

Advance ==
  LET p == cons.port
  IN /\ cons.pc = "advance"
     /\ \E t \in {cons.seen, tail[p]} :
          tail' = [tail EXCEPT ![p] = Plus(t, 1)]
     /\ got' = [got EXCEPT ![p] = cons.val]
     /\ cons' = [cons EXCEPT !.pc = "idle", !.val = NoChar, !.seen = 0]
     /\ mutex' = "free"
     /\ UNCHANGED <<head, buf, prod>>

QueueSome == \E p \in Ports, bs \in Seq(Chars), l \in BOOLEAN : Queue(p, bs, l)

ProdStep == Enter \/ TestFull \/ Evict \/ Place
ConsStep == Fetch \/ Advance

RingNext == \/ QueueSome
            \/ ProdStep
            \/ \E p \in Ports : GetChar(p)
            \/ ConsStep

RingSpec == RingInit /\ [][RingNext]_ringVars

-----------------------------------------------------------------------------
RingTypeOK ==
  /\ head \in [Ports -> Slots]
  /\ tail \in [Ports -> Slots]
  /\ buf \in [Ports -> [Slots -> Cells]]
  /\ mutex \in {"free", "poll", "emulator"}
  /\ prod \in ProdType
  /\ cons \in ConsType
  /\ got \in [Ports -> Cells]

(* Who works on a ring holds the mutex, but for single characters.         *)
MutexHeld ==
  /\ mutex = "poll" <=> prod.pc \in {"test", "evict", "place"} /\ prod.locked
  /\ mutex = "emulator" <=> cons.pc # "idle"

(* What a thread in the middle of a call takes to be true still is: the    *)
(* emulator's thread that has seen a character finds it, and the poll      *)
(* thread that has made room keeps it.                                     *)
ProducerSafe ==
  /\ prod.pc # "idle" => prod.bytes # <<>>
  /\ prod.pc = "enter" => prod.locked
  /\ prod.pc = "evict" => /\ prod.locked
                          /\ IsFull(prod.port)
                          /\ prod.seen = tail[prod.port]
  /\ prod.pc = "place" => ~IsFull(prod.port)
  /\ prod.pc \in {"test", "place"} /\ ~prod.locked =>
       NumItems(prod.port) + Len(prod.bytes) < Size

ConsumerSafe ==
  /\ cons.pc = "fetch" => /\ ~IsEmpty(cons.port)
                          /\ cons.seen = tail[cons.port]
  /\ cons.pc = "advance" => /\ ~IsEmpty(cons.port)
                            /\ cons.seen = tail[cons.port]
                            /\ cons.val = Peek(cons.port, 0)

(* Between tail and head lie characters, never a slot nothing was put in.  *)
OnlyCharacters ==
  \A p \in Ports : \A k \in 0 .. NumItems(p) - 1 : Peek(p, k) \in Chars

(* The inductive invariant of rings that are not filled without the mutex. *)
RingInv == RingTypeOK /\ MutexHeld /\ ProducerSafe /\ ConsumerSafe
           /\ OnlyCharacters

(* The rings are queues that lose their oldest character, and only that,   *)
(* when they are full: charringbuffer.c's promise, kept by two threads.    *)
Queues == [p \in Ports |-> Contents(p)]
Fifo == INSTANCE LossyFifo WITH queue <- Queues, Capacity <- Size - 1
ImplementsFifo == Fifo!Spec

(* "Is going to overwrite the oldest byte": no step makes more than one    *)
(* character of a ring disappear (ring_buffer_queue, ring_buffer_dequeue). *)
OneAtATime ==
  [][\A p \in Ports : NumItems(p)' >= NumItems(p) - 1]_ringVars
=============================================================================

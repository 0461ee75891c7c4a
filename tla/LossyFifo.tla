----------------------------- MODULE LossyFifo -----------------------------
(***************************************************************************)
(* What the terminals of the emulator may rely on: every port has a queue  *)
(* of received characters.  A queue of Capacity characters that is full    *)
(* loses its oldest one; a character is lost in no other way, none is      *)
(* repeated, and they are read in the order in which they came.            *)
(***************************************************************************)
EXTENDS Naturals, Sequences

CONSTANTS Ports, Chars, Capacity, NoChar

VARIABLES
  queue,   (* the characters waiting at each port, oldest first            *)
  got      (* the character that was read last at each port                *)

Init ==
  /\ queue = [p \in Ports |-> <<>>]
  /\ got = [p \in Ports |-> NoChar]

Put(p, c) ==
  /\ Len(queue[p]) < Capacity
  /\ queue' = [queue EXCEPT ![p] = Append(@, c)]
  /\ UNCHANGED got

DropOldest(p) ==
  /\ Len(queue[p]) = Capacity
  /\ queue' = [queue EXCEPT ![p] = Tail(@)]
  /\ UNCHANGED got

Take(p) ==
  /\ queue[p] # <<>>
  /\ got' = [got EXCEPT ![p] = Head(queue[p])]
  /\ queue' = [queue EXCEPT ![p] = Tail(@)]

Next == \E p \in Ports : \/ \E c \in Chars : Put(p, c)
                         \/ DropOldest(p)
                         \/ Take(p)

Spec == Init /\ [][Next]_<<queue, got>>
=============================================================================

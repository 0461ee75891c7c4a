----------------------------- MODULE TermLines -----------------------------
(***************************************************************************)
(* What terminals attached to the machine are promised: characters typed   *)
(* on a line are read by the host from that line, each once and in the     *)
(* order in which they were typed.  A character comes onto a line only when *)
(* it is typed and leaves it only when the host reads it, which the counts *)
(* tell from a copy that was made and a character that was lost.           *)
(***************************************************************************)
EXTENDS Naturals, Sequences

CONSTANTS
  Lines, Keys,
  Wrap        (* both counts are modulo Wrap, more than a line can hold    *)

VARIABLES
  unread,     (* typed on the line and not yet read by the host            *)
  typed,      (* how many were typed on the line                           *)
  reads       (* how many the host has read from the line                  *)

Init ==
  /\ unread = [l \in Lines |-> <<>>]
  /\ typed = [l \in Lines |-> 0]
  /\ reads = [l \in Lines |-> 0]

Type(l, k) ==
  /\ unread' = [unread EXCEPT ![l] = Append(@, k)]
  /\ typed' = [typed EXCEPT ![l] = (@ + 1) % Wrap]
  /\ UNCHANGED reads

Read(l) ==
  /\ unread[l] # <<>>
  /\ unread' = [unread EXCEPT ![l] = Tail(@)]
  /\ reads' = [reads EXCEPT ![l] = (@ + 1) % Wrap]
  /\ UNCHANGED typed

Next == \E l \in Lines : Read(l) \/ \E k \in Keys : Type(l, k)

Spec == Init /\ [][Next]_<<unread, typed, reads>>
=============================================================================

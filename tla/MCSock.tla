------------------------------- MODULE MCSock -------------------------------
(* Two ports, of which the higher one has a terminal that types single     *)
(* characters, function keys of two bytes and both in one packet.          *)
EXTENDS Sock

TwoPorts == {0, 1}
Stamped == Ports \X (0 .. Stamps - 1)
AKey    == <<TRUE, FALSE>>
Plain(n) == [k \in 1 .. n |-> FALSE]
Sends   == {AKey, Plain(2)}
Pasting == {Plain(2), Plain(4)}
=============================================================================

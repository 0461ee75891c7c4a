----------------------------- MODULE MCSccHost -----------------------------
(* A small instance of SccHost.                                            *)
EXTENDS SccHost

CONSTANT c1
OneChar == {c1}
SomeRegs == {0, 1, 2, 9}
=============================================================================

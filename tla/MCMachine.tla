----------------------------- MODULE MCMachine ------------------------------
(* Two segments of four pages and three pages of RAM.  The kernel maps a   *)
(* program that must not be written and a stack that must not be executed. *)
EXTENDS Machine

Program == [hi |-> 0, lo |-> 1, type |-> "ge", readOnly |-> TRUE, noExec |-> FALSE]
Stack   == [hi |-> 1, lo |-> 0, type |-> "le", readOnly |-> FALSE, noExec |-> TRUE]
Words   == {Program, Stack}
Limits  == {[hi |-> 0, lo |-> 1], [hi |-> 1, lo |-> 0]}
=============================================================================

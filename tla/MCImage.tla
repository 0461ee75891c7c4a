------------------------------ MODULE MCImage -------------------------------
(* MCMachine's board with a debugger that saves and loads images.          *)
EXTENDS Image

Program == [hi |-> 0, lo |-> 1, type |-> "ge", readOnly |-> TRUE, noExec |-> FALSE]
Words   == {Program}
Limits  == {[hi |-> 1, lo |-> 0]}
=============================================================================

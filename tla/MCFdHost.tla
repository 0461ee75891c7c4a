------------------------------ MODULE MCFdHost ------------------------------
(* Two tracks of two sides with one sector each, of which the image has    *)
(* those of the first track; the other side of it is watched.              *)
EXTENDS FdHost

SomeOptions == { {"CMD", "ENBINTR", "FRES"}, {"CMD", "FRES"}, {} }
Control(s, h) == [sel |-> s, side |-> h]
SomeControls == { Control({0}, 0), Control({0}, 1), Control({1}, 0) }
SomeCommands == {"SEEK", "STEP_OUT", "READ_REC", "WRITE_REC", "UNSUPPORTED"}
SideOne == <<0, 1, 1>>
SomeFlags == { {}, {"IMMEDIATE"} }
=============================================================================

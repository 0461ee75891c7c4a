--------------------------- MODULE MCFourWayHost ---------------------------
EXTENDS FourWayHost

Stamped == Slots \X (0 .. Stamps - 1)
=============================================================================

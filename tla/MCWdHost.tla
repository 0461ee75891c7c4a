------------------------------ MODULE MCWdHost ------------------------------
EXTENDS WdHost

SomeModes ==
  { {}, {"SEQEN", "INTEN"}, {"SEQEN", "INTEND1"} }

Job(o, u) == [op |-> o, unit |-> u]
SomeJobs == { Job("SEEK", 1), Job("READ", 0), Job("FORMAT", 0) }
=============================================================================

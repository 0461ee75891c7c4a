------------------------------ MODULE MCCsHost ------------------------------
EXTENDS CsHost

CONSTANTS DataA, DataB    (* what a block of data may be *)

SomeBlocks == {DataA, DataB}

At(h, l) == [high |-> h, low |-> l]
Nowhere  == At(0, 0)

Block(op, count, data, fm) ==
  [op |-> op, count |-> count, badLen |-> FALSE, data |-> data,
   filemarks |-> fm, int |-> FALSE, next |-> Nowhere]

SomeIopbs ==
  { Block("READ", 1, <<>>, FALSE), Block("READ", 2, <<>>, FALSE),
    [Block("READ", 1, <<>>, FALSE) EXCEPT !.badLen = TRUE],
    Block("SKIP", 0, <<>>, FALSE), Block("SKIP", 1, <<>>, FALSE),
    Block("WRITE", 0, <<DataA>>, TRUE), Block("WRITE", 0, <<DataB, DataA>>, FALSE),
    Block("APPEND", 0, <<DataB>>, FALSE), Block("APPEND", 0, <<>>, TRUE),
    Block("REWIND", 0, <<>>, FALSE), Block("ERASE", 0, <<>>, FALSE),
    [Block("TEST", 0, <<>>, FALSE) EXCEPT !.next = At(0, 1), !.int = TRUE],
    [Block("INIT", 0, <<>>, FALSE) EXCEPT !.badLen = TRUE] }

SomePlaces == { At(1, 0) }

SomeTapes == { <<>>, << <<DataA>>, <<DataB, DataA>> >> }
=============================================================================

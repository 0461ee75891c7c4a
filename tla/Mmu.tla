-------------------------------- MODULE Mmu ---------------------------------
(***************************************************************************)
(* The arithmetic of mmu.c: what a segment descriptor lets a user program  *)
(* do at an offset of the segment, and where that is in memory.            *)
(*                                                                         *)
(* A logical address is a page number, a multiple of the 512 bytes that    *)
(* A01 to A08 address; a segment holds FieldSize pages, the values of the  *)
(* address field of a descriptor register.  The field lies across the two  *)
(* bytes of the register, which can be written one at a time: it has a     *)
(* high part hi and a low part lo of Half values each.                     *)
(***************************************************************************)
EXTENDS Naturals, FiniteSets

CONSTANTS
  SegCount,   (* MMU_SEGMENTS                                              *)
  Half

ASSUME MmuAssumption ==
  /\ SegCount \in Nat \ {0}
  /\ Half \in Nat \ {0}

Segments  == 0 .. SegCount - 1
FieldSize == Half * Half
Field     == 0 .. FieldSize - 1
Parts     == 0 .. Half - 1
Logical   == 0 .. SegCount * FieldSize - 1

Kinds == {"read", "write", "fetch"}
Types == {"absent", "ge", "lt", "le"}

LimitRegs == [hi : Parts, lo : Parts]
BaseRegs  == [hi : Parts, lo : Parts, type : Types,
              readOnly : BOOLEAN, noExec : BOOLEAN]

Cleared      == [hi |-> 0, lo |-> 0]
ClearedBase  == [hi |-> 0, lo |-> 0, type |-> "absent",
                 readOnly |-> FALSE, noExec |-> FALSE]

At(reg) == reg.hi * Half + reg.lo

(* The segment and the offset of a logical page.                           *)
SegOf(page) == (page \div FieldSize) % SegCount
OffOf(page) == page % FieldSize

(* The four policies of the type field.                                    *)
LimitViolated(base, limit, off) ==
  \/ base.type = "absent"
  \/ base.type = "ge" /\ off >= At(limit)
  \/ base.type = "lt" /\ off < At(limit)
  \/ base.type = "le" /\ off <= At(limit)

(* The bits of the segment's status register that an access sets.          *)
Errors(base, limit, off, kind) ==
     {e \in {"limit"} : LimitViolated(base, limit, off)}
  \cup {e \in {"write"} : kind = "write" /\ base.readOnly}
  \cup {e \in {"exec"} : kind = "fetch" /\ base.noExec}

(* faulty: the sum is not cut to the width of the field *)
FrameUncut(base, off) == At(base) + off

(* The three adders: base plus offset, without a carry out.                *)
Frame(base, off) == (At(base) + off) % FieldSize

-----------------------------------------------------------------------------
(* What the descriptor grants, said positively.                            *)
Within(base, limit, off) ==
  \/ base.type = "ge" /\ off < At(limit)
  \/ base.type = "lt" /\ off >= At(limit)
  \/ base.type = "le" /\ off > At(limit)

Grants(base, limit, off, kind) ==
  /\ Within(base, limit, off)
  /\ kind = "write" => ~base.readOnly
  /\ kind = "fetch" => ~base.noExec
=============================================================================

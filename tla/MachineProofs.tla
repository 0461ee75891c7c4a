--------------------------- MODULE MachineProofs ----------------------------
(***************************************************************************)
(* What the board guarantees for any number of segments, any width of the  *)
(* address field, any size of RAM and whatever the kernel writes to the    *)
(* descriptors: MachineInv, Isolation and DirtyTracked.                    *)
(***************************************************************************)
EXTENDS Machine, TLAPS

-----------------------------------------------------------------------------
(* Arithmetic.                                                             *)
LEMMA ModRange ==
  ASSUME NEW x \in Nat, NEW n \in Nat \ {0}
  PROVE  x % n \in 0 .. n - 1
OBVIOUS

LEMMA ModOnce ==
  ASSUME NEW n \in Nat \ {0}, NEW x \in 0 .. n - 1, NEW y \in 0 .. n - 1
  PROVE  /\ (x + y) % n \in 0 .. n - 1
         /\ x + y \in {(x + y) % n, ((x + y) % n) + n}
<1>1. x + y \in Nat /\ x + y < 2 * n
  OBVIOUS
<1>2. CASE x + y < n
  <2>1. (x + y) % n = x + y
    BY <1>1, <1>2
  <2> QED
    BY <2>1, <1>2
<1>3. CASE x + y >= n
  <2>1. (x + y) % n = x + y - n
    BY <1>1, <1>3
  <2> QED
    BY <2>1, <1>1, <1>3
<1> QED
  BY <1>2, <1>3

LEMMA FieldFacts ==
  /\ FieldSize \in Nat \ {0}
  /\ \A reg \in LimitRegs \cup BaseRegs : At(reg) \in Field
<1>1. FieldSize \in Nat \ {0}
  BY MmuAssumption DEF FieldSize
<1>2. ASSUME NEW h \in Parts, NEW l \in Parts
      PROVE  h * Half + l \in 0 .. Half * Half - 1
  <2>1. h + 1 <= Half /\ l + 1 <= Half /\ h \in Nat /\ l \in Nat
    BY MmuAssumption DEF Parts
  <2>2. (h + 1) * Half <= Half * Half
    BY <2>1, MmuAssumption
  <2>3. (h + 1) * Half = h * Half + Half
    BY <2>1, MmuAssumption
  <2>4. h * Half \in Nat
    BY <2>1, MmuAssumption
  <2> QED
    BY <2>1, <2>2, <2>3, <2>4, MmuAssumption
<1> QED
  BY <1>1, <1>2 DEF At, LimitRegs, BaseRegs, Field, FieldSize

LEMMA AddressFacts ==
  ASSUME NEW page \in Nat
  PROVE  SegOf(page) \in Segments /\ OffOf(page) \in Field
<1>1. page \div FieldSize \in Nat
  BY FieldFacts
<1>2. SegOf(page) \in Segments
  BY <1>1, ModRange, MmuAssumption DEF SegOf, Segments
<1>3. OffOf(page) \in Field
  BY FieldFacts, ModRange DEF OffOf, Field
<1> QED
  BY <1>2, <1>3

-----------------------------------------------------------------------------
(* What a record holds while it goes through the cycles of an access.      *)
BoardType ==
  [stat : [Segments -> SUBSET StatusBits], flags : SUBSET Flags,
   rom : BOOLEAN, used : BOOLEAN, trap : Traps, bus : SUBSET (Nat \X Kinds),
   failed : BOOLEAN]

(* A cycle that failed explains itself to the kernel, one that did not has *)
(* raised no flag.                                                         *)
Explained(board) ==
  /\ board.failed =>
       /\ board.trap.on
       /\ errorFlags = {} =>
            /\ "MMERF" \in board.flags <=> board.trap.errors # {}
            /\ "SSWARNF" \in board.flags <=> board.trap.stack
       /\ board.trap.errors # {} =>
            board.stat[board.trap.seg] \ {"written"} = board.trap.errors
  /\ ~board.failed => board.trap = trap /\ board.flags = errorFlags

(* What went over the bus was granted, writes are marked, and no mark is   *)
(* lost.                                                                   *)
Marked(board) ==
  /\ \A s \in Segments : "written" \in mmuStat[s] => "written" \in board.stat[s]
  /\ \A c \in board.bus : \E s \in Segments :
       /\ GrantedBy(s, c[1], c[2])
       /\ c[2] = "write" => "written" \in board.stat[s]

Good(board) ==
  /\ board \in BoardType
  /\ board.rom => ~board.used
  /\ Explained(board)
  /\ (Translated => Marked(board))

(* A cycle adds itself to the bus, and leaves the MMU and the flags alone. *)
LEMMA CycleDoes ==
  ASSUME NEW board \in BoardType, NEW page \in Nat, NEW kind \in Kinds,
         board.rom => ~board.used, ~board.failed
  PROVE  LET next == Cycle(board, page, kind)
         IN /\ next \in BoardType
            /\ next.rom => ~next.used
            /\ next.stat = board.stat
            /\ next.flags = board.flags
            /\ next.bus = board.bus \cup {<<page, kind>>}
            /\ next.failed => next.trap = [on |-> TRUE, seg |-> 0, errors |-> {},
                                           stack |-> FALSE]
            /\ ~next.failed => next.trap = board.trap
<1> DEFINE done == [board EXCEPT !.bus = @ \cup {<<page, kind>>},
                                 !.rom = @ /\ (kind = "write" => Decode(page) = "device"),
                                 !.used = @ \/ (kind = "write" /\ Decode(page) = "ram")]
           err  == BusError(done, 0, {}, FALSE)
<1>1. Cycle(board, page, kind) \in {done, err}
  BY DEF Cycle
<1>2. /\ done \in BoardType
      /\ done.stat = board.stat /\ done.flags = board.flags
      /\ done.bus = board.bus \cup {<<page, kind>>}
      /\ done.trap = board.trap /\ done.failed = board.failed
      /\ done.rom => ~done.used
  <2>1. <<page, kind>> \in Nat \X Kinds
    OBVIOUS
  <2>2. done \in BoardType
    BY <2>1 DEF BoardType
  <2>3. /\ done.stat = board.stat /\ done.flags = board.flags
        /\ done.bus = board.bus \cup {<<page, kind>>}
        /\ done.trap = board.trap /\ done.failed = board.failed
    BY DEF BoardType
  <2>4. /\ done.rom = (board.rom /\ (kind = "write" => Decode(page) = "device"))
        /\ done.used = (board.used \/ (kind = "write" /\ Decode(page) = "ram"))
    BY DEF BoardType
  <2> QED
    BY <2>2, <2>3, <2>4
<1>3. [on |-> TRUE, seg |-> 0, errors |-> {}, stack |-> FALSE] \in Traps
  BY MmuAssumption DEF Traps, Segments
<1> HIDE DEF done
<1>4. /\ err \in BoardType
      /\ err.stat = board.stat /\ err.flags = board.flags
      /\ err.bus = board.bus \cup {<<page, kind>>}
      /\ err.trap = [on |-> TRUE, seg |-> 0, errors |-> {}, stack |-> FALSE]
      /\ err.failed /\ ~err.rom
  BY <1>2, <1>3 DEF BusError, BoardType
<1> QED
  BY <1>1, <1>2, <1>4

(* An access that the MMU finds nothing wrong with is one it grants.       *)
LEMMA NothingWrong ==
  ASSUME TypeOK, NEW s \in Segments, NEW o \in Field, NEW kind \in Kinds,
         Errors(mmuBase[s], mmuLimit[s], o, kind) = {}
  PROVE  /\ Frame(mmuBase[s], o) \in Field
         /\ GrantedBy(s, Frame(mmuBase[s], o), kind)
<1>1. mmuBase[s] \in BaseRegs /\ mmuLimit[s] \in LimitRegs
  BY DEF TypeOK
<1>2. At(mmuBase[s]) \in Field /\ At(mmuLimit[s]) \in Field
  BY <1>1, FieldFacts
<1>3. /\ Frame(mmuBase[s], o) \in Field
      /\ At(mmuBase[s]) + o \in {Frame(mmuBase[s], o), Frame(mmuBase[s], o) + FieldSize}
  BY <1>2, FieldFacts, ModOnce DEF Frame, Field
<1>4. ~LimitViolated(mmuBase[s], mmuLimit[s], o)
  BY DEF Errors
<1>5. mmuBase[s].type \in Types
  BY <1>1 DEF BaseRegs
<1>6. Within(mmuBase[s], mmuLimit[s], o)
  BY <1>2, <1>4, <1>5, FieldFacts DEF Within, LimitViolated, Types, Field
<1>7. /\ kind = "write" => ~mmuBase[s].readOnly
      /\ kind = "fetch" => ~mmuBase[s].noExec
  BY DEF Errors
<1> QED
  BY <1>3, <1>6, <1>7 DEF GrantedBy, Grants

LEMMA TranslateGood ==
  ASSUME TypeOK, Translated, NEW board, Good(board), ~board.failed,
         NEW page \in Nat, NEW kind \in Kinds
  PROVE  Good(Translate(board, page, kind))
<1> DEFINE s      == SegOf(page)
           o      == OffOf(page)
           errs   == Errors(mmuBase[s], mmuLimit[s], o, kind)
           stack  == mmuBase[s].type = "le" /\ "limit" \in errs
           found  == [board EXCEPT !.stat[s] = (@ \cap {"written"}) \cup errs,
                                   !.flags = @ \cup {f \in {"MMERF"} : errs # {}}
                                               \cup {f \in {"SSWARNF"} : stack}]
           marked == [found EXCEPT !.stat[s] = @ \cup {b \in {"written"} : kind = "write"}]
<1>1. s \in Segments /\ o \in Field
  BY AddressFacts
<1>2. board \in BoardType /\ (board.rom => ~board.used) /\ Marked(board)
      /\ board.trap = trap /\ board.flags = errorFlags
  BY DEF Good, Explained
<1>3. errs \in SUBSET StatusBits /\ "written" \notin errs /\ stack \in BOOLEAN
  BY DEF Errors, StatusBits
<1>4. Translate(board, page, kind) =
        IF errs # {} THEN BusError(found, s, errs, stack)
        ELSE Cycle(marked, Frame(mmuBase[s], o), kind)
  BY DEF Translate
<1> HIDE DEF s, o, errs, stack
<1>5. /\ found \in BoardType
      /\ found.stat = [board.stat EXCEPT ![s] = (@ \cap {"written"}) \cup errs]
      /\ found.flags = board.flags \cup {f \in {"MMERF"} : errs # {}}
                                   \cup {f \in {"SSWARNF"} : stack}
      /\ found.rom = board.rom /\ found.used = board.used
      /\ found.bus = board.bus /\ found.trap = board.trap
      /\ found.failed = board.failed
  BY <1>1, <1>2, <1>3 DEF BoardType, StatusBits, Flags
<1>6. /\ marked \in BoardType
      /\ marked.stat = [found.stat EXCEPT ![s] = @ \cup {b \in {"written"} : kind = "write"}]
      /\ marked.flags = found.flags
      /\ marked.rom = found.rom /\ marked.used = found.used
      /\ marked.bus = found.bus /\ marked.trap = found.trap
      /\ marked.failed = found.failed
  BY <1>1, <1>5 DEF BoardType, StatusBits
<1> HIDE DEF found, marked
<1>7. \A t \in Segments : "written" \in board.stat[t] =>
        "written" \in found.stat[t] /\ "written" \in marked.stat[t]
  BY <1>1, <1>2, <1>5, <1>6 DEF BoardType
<1>8. CASE errs # {}
  <2> DEFINE next == BusError(found, s, errs, stack)
             why  == [on |-> TRUE, seg |-> s, errors |-> errs, stack |-> stack]
  <2>1. why \in Traps
    BY <1>1, <1>3 DEF Traps
  <2>2. /\ next \in BoardType
        /\ next.stat = found.stat /\ next.flags = found.flags
        /\ next.bus = found.bus /\ next.trap = why
        /\ next.failed /\ ~next.rom
    BY <1>5, <2>1 DEF BusError, BoardType
  <2> HIDE DEF next
  <2>3. /\ next.trap.on /\ next.trap.errors = errs /\ next.trap.seg = s
        /\ next.trap.stack = stack
    BY <2>2
  <2>4. next.stat[s] \ {"written"} = errs
    BY <2>2, <1>5, <1>1, <1>2, <1>3 DEF BoardType
  <2>5. errorFlags = {} => /\ "MMERF" \in next.flags
                           /\ "SSWARNF" \in next.flags <=> stack
    BY <2>2, <1>5, <1>2, <1>8
  <2>6. Explained(next)
    BY <2>2, <2>3, <2>4, <2>5, <1>8 DEF Explained
  <2>7. Marked(next)
    BY <2>2, <1>5, <1>7, <1>2 DEF Marked
  <2> QED
    BY <2>2, <2>6, <2>7, <1>4, <1>8 DEF Good, next
<1>9. CASE errs = {}
  <2> DEFINE frame == Frame(mmuBase[s], o)
             next  == Cycle(marked, frame, kind)
  <2>1. frame \in Nat /\ GrantedBy(s, frame, kind)
    BY <1>1, <1>9, NothingWrong, FieldFacts DEF errs, Field
  <2> HIDE DEF frame
  <2>2. /\ next \in BoardType
        /\ next.rom => ~next.used
        /\ next.stat = marked.stat
        /\ next.flags = marked.flags
        /\ next.bus = marked.bus \cup {<<frame, kind>>}
        /\ next.failed => next.trap = [on |-> TRUE, seg |-> 0, errors |-> {},
                                       stack |-> FALSE]
        /\ ~next.failed => next.trap = marked.trap
    BY <1>2, <1>5, <1>6, <2>1, CycleDoes
  <2> HIDE DEF next
  <2>3. ~stack
    BY <1>9 DEF stack
  <2>4. next.flags = errorFlags
    BY <2>2, <2>3, <1>9, <1>5, <1>6, <1>2
  <2>5. Explained(next)
    BY <2>2, <2>4, <1>5, <1>6, <1>2 DEF Explained
  <2>6. kind = "write" => "written" \in next.stat[s]
    BY <2>2, <1>6, <1>5, <1>1 DEF BoardType
  <2>7. Marked(next)
    <3>1. \A t \in Segments : "written" \in mmuStat[t] => "written" \in next.stat[t]
      BY <2>2, <1>7, <1>2 DEF Marked
    <3>2. ASSUME NEW c \in next.bus
          PROVE  \E t \in Segments : /\ GrantedBy(t, c[1], c[2])
                                     /\ c[2] = "write" => "written" \in next.stat[t]
      <4>1. CASE c \in board.bus
        BY <4>1, <2>2, <1>7, <1>2 DEF Marked
      <4>2. CASE c = <<frame, kind>>
        BY <4>2, <2>1, <2>6, <1>1
      <4> QED
        BY <4>1, <4>2, <3>2, <2>2, <1>5, <1>6
    <3> QED
      BY <3>1, <3>2 DEF Marked
  <2> QED
    BY <2>2, <2>5, <2>7, <1>4, <1>9 DEF Good, next, frame
<1> QED
  BY <1>8, <1>9

LEMMA WordGood ==
  ASSUME TypeOK, NEW board, Good(board), ~board.failed,
         NEW page \in Nat, NEW kind \in Kinds
  PROVE  Good(Word(board, page, kind))
<1>1. CASE Translated
  BY <1>1, TranslateGood DEF Word
<1>2. CASE ~Translated
  <2> DEFINE next == Cycle(board, page, kind)
  <2>1. board \in BoardType /\ (board.rom => ~board.used)
        /\ board.trap = trap /\ board.flags = errorFlags
    BY DEF Good, Explained
  <2>2. /\ next \in BoardType
        /\ next.rom => ~next.used
        /\ next.flags = board.flags
        /\ next.failed => next.trap = [on |-> TRUE, seg |-> 0, errors |-> {},
                                       stack |-> FALSE]
        /\ ~next.failed => next.trap = board.trap
    BY <2>1, CycleDoes
  <2> HIDE DEF next
  <2>3. Explained(next)
    BY <2>1, <2>2 DEF Explained
  <2>4. Word(board, page, kind) = next
    BY <1>2 DEF Word, next
  <2> QED
    BY <2>2, <2>3, <2>4, <1>2 DEF Good
<1> QED
  BY <1>1, <1>2

LEMMA StartGood ==
  ASSUME MachineInv, Ready
  PROVE  Good(Board) /\ ~Board.failed
<1>1. Board \in BoardType
  BY DEF MachineInv, TypeOK, Board, BoardType
<1>2. /\ ~Board.failed /\ Board.trap = trap /\ Board.flags = errorFlags
      /\ Board.rom = romMapped /\ Board.used = ramUsed
      /\ Board.stat = mmuStat /\ Board.bus = {}
  BY DEF Board
<1>3. Explained(Board)
  BY <1>2 DEF Explained
<1>4. Marked(Board)
  BY <1>2 DEF Marked
<1> QED
  BY <1>1, <1>2, <1>3, <1>4 DEF Good, MachineInv, RomHidesNothing

LEMMA PagesAreNumbers == \A page \in Reachable : page \in Nat
  BY FieldFacts, MmuAssumption DEF Reachable, Logical, Physical

(* An access of one or two words hands the variables a good record.        *)
LEMMA AccessGood ==
  ASSUME MachineInv, NEW page \in Reachable, NEW kind \in Kinds,
         Access(page, kind) \/ LongAccess(page, kind)
  PROVE  \E board : Good(board) /\ Put(board)
<1>1. Ready
  BY DEF Access, LongAccess
<1>2. TypeOK
  BY DEF MachineInv
<1>3. page \in Nat /\ page + 1 \in Nat
  BY PagesAreNumbers
<1> DEFINE first == Word(Board, page, kind)
<1>4. Good(first)
  BY <1>1, <1>2, <1>3, StartGood, WordGood
<1>5. CASE Access(page, kind)
  BY <1>4, <1>5 DEF Access
<1>6. CASE LongAccess(page, kind)
  <2> DEFINE second == Word(first, page + 1, kind)
  <2>1. Put(IF first.failed THEN first ELSE second)
    BY <1>6 DEF LongAccess
  <2> HIDE DEF first
  <2>2. ~first.failed => Good(second)
    BY <1>4, <1>2, <1>3, WordGood
  <2> HIDE DEF second
  <2> QED
    BY <2>1, <2>2, <1>4
<1> QED
  BY <1>5, <1>6

LEMMA PutKeepsInv ==
  ASSUME MachineInv, Ready, NEW board, Good(board), Put(board)
  PROVE  MachineInv'
<1>1. board \in BoardType /\ (board.rom => ~board.used) /\ Explained(board)
  BY DEF Good
<1>2. TypeOK /\ FlagsOwed /\ UnloadedAbsent /\ ~trap.on
  BY DEF MachineInv, Ready
<1>3. TypeOK'
  BY <1>1, <1>2 DEF TypeOK, Put, mmuVars, BoardType
<1>4. RomHidesNothing'
  BY <1>1 DEF RomHidesNothing, Put
<1>5. FaultExplained'
  <2> SUFFICES ASSUME trap'.on
               PROVE  /\ ~leftOver' => /\ "MMERF" \in errorFlags' <=> trap'.errors # {}
                                       /\ "SSWARNF" \in errorFlags' <=> trap'.stack
                      /\ trap'.errors # {} =>
                           mmuStat'[trap'.seg] \ {"written"} = trap'.errors
    BY DEF FaultExplained
  <2>1. board.failed
    BY <1>1, <1>2 DEF Explained, Put
  <2>2. ~leftOver' => errorFlags = {}
    BY <1>2 DEF FlagsOwed, Put
  <2> QED
    BY <2>1, <2>2, <1>1 DEF Explained, Put
<1>6. FlagsOwed'
  BY <1>1, <1>2 DEF FlagsOwed, Explained, Put
<1>7. UnloadedAbsent'
  BY <1>2 DEF UnloadedAbsent, Put, mmuVars
<1> QED
  BY <1>3, <1>4, <1>5, <1>6, <1>7 DEF MachineInv

-----------------------------------------------------------------------------
LEMMA NoTrapType == NoTrap \in Traps /\ ~NoTrap.on
  BY MmuAssumption DEF NoTrap, Traps, Segments

LEMMA ClearedTypes == ClearedBase \in BaseRegs /\ Cleared \in LimitRegs
  BY MmuAssumption DEF ClearedBase, Cleared, BaseRegs, LimitRegs, Types, Parts

LEMMA InitInv == Init => MachineInv
  BY NoTrapType, ClearedTypes DEF Init, MachineInv, TypeOK, RomHidesNothing,
     FaultExplained, FlagsOwed, UnloadedAbsent

LEMMA StoresType ==
  /\ \A reg, word \in BaseRegs : Stores(reg, word) \subseteq BaseRegs
  /\ \A reg, word \in LimitRegs : Stores(reg, word) \subseteq LimitRegs
<1>1. \A reg, word \in BaseRegs : Stores(reg, word) \subseteq BaseRegs
  BY DEF Stores, HighByte, LowByte, BaseRegs
<1>2. \A reg, word \in LimitRegs : Stores(reg, word) \subseteq LimitRegs
  BY DEF Stores, HighByte, LowByte, LimitRegs
<1> QED
  BY <1>1, <1>2

LEMMA StatusReadInv == MachineInv /\ StatusRead => MachineInv'
<1> SUFFICES ASSUME MachineInv, StatusRead
             PROVE  MachineInv'
  OBVIOUS
<1>1. TypeOK'
  BY NoTrapType DEF MachineInv, TypeOK, StatusRead, mmuVars
<1>2. ~trap'.on /\ errorFlags' = {}
  BY NoTrapType DEF StatusRead
<1>3. FaultExplained' /\ FlagsOwed'
  BY <1>2 DEF FaultExplained, FlagsOwed
<1> QED
  BY <1>1, <1>3 DEF MachineInv, RomHidesNothing, UnloadedAbsent, StatusRead, mmuVars

LEMMA WriteBaseInv ==
  ASSUME MachineInv, NEW s \in Segments, NEW word \in BaseWords, WriteBase(s, word)
  PROVE  MachineInv'
<1>1. PICK reg \in Stores(mmuBase[s], word) : mmuBase' = [mmuBase EXCEPT ![s] = reg]
  BY DEF WriteBase
<1>2. reg \in BaseRegs
  BY StoresType, MachineAssumption DEF MachineInv, TypeOK
<1>3. TypeOK'
  BY <1>1, <1>2 DEF MachineInv, TypeOK, WriteBase
<1> QED
  BY <1>3 DEF MachineInv, RomHidesNothing, FaultExplained, FlagsOwed,
     UnloadedAbsent, WriteBase, Ready

LEMMA WriteLimitInv ==
  ASSUME MachineInv, NEW s \in Segments, NEW word \in LimitWords, WriteLimit(s, word)
  PROVE  MachineInv'
<1>1. PICK reg \in Stores(mmuLimit[s], word) : mmuLimit' = [mmuLimit EXCEPT ![s] = reg]
  BY DEF WriteLimit
<1>2. reg \in LimitRegs
  BY StoresType, MachineAssumption DEF MachineInv, TypeOK
<1>3. TypeOK'
  BY <1>1, <1>2 DEF MachineInv, TypeOK, WriteLimit
<1> QED
  BY <1>3 DEF MachineInv, RomHidesNothing, FaultExplained, FlagsOwed,
     UnloadedAbsent, WriteLimit, Ready

LEMMA ReturnInv == MachineInv /\ Return => MachineInv'
  BY DEF MachineInv, TypeOK, RomHidesNothing, FaultExplained,
     FlagsOwed, UnloadedAbsent, Return, Ready, mmuVars

LEMMA ResetInv == MachineInv /\ Reset => MachineInv'
<1> SUFFICES ASSUME MachineInv, Reset
             PROVE  MachineInv'
  OBVIOUS
<1>1. /\ mmuBase' = [s \in Segments |-> ClearedBase] /\ mmuLoaded' = FALSE
      /\ romMapped' = TRUE /\ ramUsed' = FALSE /\ userMode' = FALSE
      /\ trap' = NoTrap /\ ~NoTrap.on /\ errorFlags' = errorFlags
      /\ leftOver' = (errorFlags # {})
  BY DEF Reset, NoTrap
<1>2. TypeOK'
  BY NoTrapType, ClearedTypes DEF MachineInv, TypeOK, Reset
<1>3. RomHidesNothing' /\ UnloadedAbsent'
  BY <1>1 DEF RomHidesNothing, UnloadedAbsent
<1>4. FaultExplained' /\ FlagsOwed'
  BY <1>1 DEF FaultExplained, FlagsOwed
<1> QED
  BY <1>2, <1>3, <1>4 DEF MachineInv

LEMMA StepInv == MachineInv /\ [Next]_vars => MachineInv'
<1> SUFFICES ASSUME MachineInv, [Next]_vars
             PROVE  MachineInv'
  OBVIOUS
<1>1. ASSUME NEW page \in Reachable, NEW kind \in Kinds,
             Access(page, kind) \/ LongAccess(page, kind)
      PROVE  MachineInv'
  <2>1. Ready
    BY <1>1 DEF Access, LongAccess
  <2> QED
    BY <1>1, <2>1, AccessGood, PutKeepsInv
<1>2. CASE UNCHANGED vars
  BY <1>2 DEF vars, MachineInv, TypeOK, RomHidesNothing, FaultExplained,
     FlagsOwed, UnloadedAbsent
<1> QED
  BY <1>1, <1>2, StatusReadInv, WriteBaseInv, WriteLimitInv, ReturnInv, ResetInv
     DEF Next

(* MachineInv for every board: the ROM hides nothing that was stored, and  *)
(* the kernel is told why a bus error came, unless a reset came between    *)
(* (mem_read_word, mem_write_word, mmu_translate, cmb_read_word).          *)
THEOREM BoardSound == Spec => []MachineInv
<1> QED
  BY InitInv, StepInv, PTL DEF Spec

-----------------------------------------------------------------------------
LEMMA UserStep ==
  ASSUME MachineInv, Next, userMode, mmuLoaded
  PROVE  \/ bus' = {} /\ ~mmuLoaded'
         \/ \E board : Marked(board) /\ bus' = board.bus /\ mmuStat' = board.stat
<1>1. ASSUME NEW page \in Reachable, NEW kind \in Kinds,
             Access(page, kind) \/ LongAccess(page, kind)
      PROVE  \E board : Marked(board) /\ bus' = board.bus /\ mmuStat' = board.stat
  <2>1. PICK board : Good(board) /\ Put(board)
    BY <1>1, AccessGood
  <2> QED
    BY <2>1 DEF Good, Put, Translated
<1>2. CASE Reset
  BY <1>2 DEF Reset
<1> QED
  BY <1>1, <1>2 DEF Next, StatusRead, WriteBase, WriteLimit, Return

(* No word of an access that the user program makes reaches memory that    *)
(* its descriptors do not grant, whatever they are (mmu_translate,         *)
(* cpu_read_long, cpu_write_long).                                         *)
THEOREM UserIsolated == Spec => Isolation
<1>1. MachineInv /\ [Next]_vars =>
        [userMode /\ mmuLoaded =>
           \A c \in bus' : \E s \in Segments : GrantedBy(s, c[1], c[2])]_vars
  <2> SUFFICES ASSUME MachineInv, Next, userMode, mmuLoaded
               PROVE  \A c \in bus' : \E s \in Segments : GrantedBy(s, c[1], c[2])
    OBVIOUS
  <2> QED
    BY UserStep DEF Marked
<1> QED
  BY <1>1, BoardSound, PTL DEF Spec, Isolation

(* The written bit misses no write of the user program and is not lost     *)
(* before the kernel loads the segment again (mmu_translate,               *)
(* mmu_write_word).                                                        *)
THEOREM WritesMarked == Spec => DirtyTracked
<1>1. MachineInv /\ [Next]_vars => [DirtyStep]_vars
  <2> SUFFICES ASSUME MachineInv, Next
               PROVE  DirtyStep
    OBVIOUS
  <2> QED
    BY UserStep DEF Marked, DirtyStep
<1> QED
  BY <1>1, BoardSound, PTL DEF Spec, DirtyTracked
=============================================================================

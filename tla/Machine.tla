------------------------------ MODULE Machine -------------------------------
(***************************************************************************)
(* The path of a CPU access through the emulated board: cpu_read_* and     *)
(* cpu_write_* of sim.c, the memory management unit (mmu.c), the error     *)
(* flags of the CMB status register (cmb.c), memory and the boot ROM that  *)
(* lies over it after a reset (memory.c), and the debugger's reset.        *)
(*                                                                         *)
(* The user program makes any access.  The kernel is any supervisor        *)
(* program that reads the CMB status once for every bus error, before it   *)
(* goes on.  A page stands for the words of 512 bytes; a long access that  *)
(* crosses a page is two accesses of which the second one may fail after   *)
(* the first has had its effect.                                           *)
(***************************************************************************)
EXTENDS Mmu, Sequences

CONSTANTS
  RamPages,    (* pages of RAM; the rest of a 2 MB segment is a hole       *)
  BaseWords,   (* what the kernel writes to a base register                *)
  LimitWords   (* and to a limit register                                  *)

ASSUME MachineAssumption ==
  /\ RamPages \in 1 .. FieldSize
  /\ BaseWords \subseteq BaseRegs
  /\ LimitWords \subseteq LimitRegs

VARIABLES
  mmuBase, mmuLimit, mmuStat, mmuLoaded,
  errorFlags,   (* MemoryManagementErrorFlag: of {"MMERF", "SSWARNF"}      *)
  romMapped,    (* romMappedAfterReset                                     *)
  ramUsed,      (* has RAM another content than the 0xff of a reset?       *)
  userMode,     (* not the S bit of the status register                    *)
  trap,         (* the bus error that the kernel has still to look at      *)
  bus,          (* the cycles on the bus in the last step                  *)
  leftOver      (* does the board hold flags from before its last reset?   *)

vars == <<mmuBase, mmuLimit, mmuStat, mmuLoaded, errorFlags, romMapped,
          ramUsed, userMode, trap, bus, leftOver>>
mmuVars == <<mmuBase, mmuLimit, mmuLoaded>>

StatusBits == {"written", "limit", "write", "exec"}
Flags      == {"MMERF", "SSWARNF"}

(* The first page behind the 2 MB that a translation can yield stands for  *)
(* the ROM's own address, the pages after it for devices.                  *)
RomPage   == FieldSize
Physical  == 0 .. FieldSize
Decode(page) == IF page < RamPages THEN "ram"
                ELSE IF page < FieldSize THEN "hole"
                ELSE IF page = RomPage THEN "rom" ELSE "device"

(* trap.errors is what the MMU found wrong, {} for an access that reached  *)
(* no memory.                                                              *)
NoTrap == [on |-> FALSE, seg |-> 0, errors |-> {}, stack |-> FALSE]
Traps  == [on : BOOLEAN, seg : Segments, errors : SUBSET StatusBits,
           stack : BOOLEAN]

Init ==
  /\ mmuBase = [s \in Segments |-> ClearedBase]
  /\ mmuLimit = [s \in Segments |-> Cleared]
  /\ mmuStat = [s \in Segments |-> {}]
  /\ mmuLoaded = FALSE
  /\ errorFlags = {}
  /\ romMapped = TRUE
  /\ ramUsed = FALSE
  /\ userMode = FALSE
  /\ trap = NoTrap
  /\ bus = {}
  /\ leftOver = FALSE
-----------------------------------------------------------------------------
(* One access.  What it may change is kept in a record that its cycles     *)
(* hand on.                                                                *)
Board == [stat |-> mmuStat, flags |-> errorFlags, rom |-> romMapped,
          used |-> ramUsed, trap |-> trap, bus |-> {}, failed |-> FALSE]

(* sim_pulse_bus_error: the exception leaves its frame on the kernel's     *)
(* stack, in RAM.                                                          *)
BusError(board, seg, errs, stack) ==
  [board EXCEPT !.trap = [on |-> TRUE, seg |-> seg, errors |-> errs,
                          stack |-> stack],
                !.rom = FALSE, !.used = TRUE, !.failed = TRUE]

(* faulty: the ROM stays mapped when the write goes to the RAM *)
CycleKeepsRom(board, page, kind) ==
  LET target == Decode(page)
      mapped == board.rom /\ kind # "write"
      done   == [board EXCEPT !.bus = @ \cup {<<page, kind>>},
                              !.used = @ \/ (kind = "write" /\ target = "ram")]
  IN IF (target = "hole" /\ ~mapped) \/ (target = "rom" /\ kind = "write")
     THEN BusError(done, 0, {}, FALSE) ELSE done

(* sys_read_* and sys_write_*, mem_read_* and mem_write_*: as long as the  *)
(* ROM is mapped every read of memory reads it; the first write ends that. *)
Cycle(board, page, kind) ==
  LET target == Decode(page)
      mapped == board.rom /\ kind # "write"
      done   == [board EXCEPT !.bus = @ \cup {<<page, kind>>},
                              !.rom = @ /\ (kind = "write" => target = "device"),
                              !.used = @ \/ (kind = "write" /\ target = "ram")]
  IN IF (target = "hole" /\ ~mapped) \/ (target = "rom" /\ kind = "write")
     THEN BusError(done, 0, {}, FALSE) ELSE done

Translated == userMode /\ mmuLoaded

(* faulty: an access that succeeds clears the written bit as well *)
TranslateClearsAll(board, page, kind) ==
  LET s     == SegOf(page)
      o     == OffOf(page)
      errs  == Errors(mmuBase[s], mmuLimit[s], o, kind)
      stack == mmuBase[s].type = "le" /\ "limit" \in errs
      found == [board EXCEPT !.stat[s] = errs,
                             !.flags = @ \cup {f \in {"MMERF"} : errs # {}}
                                         \cup {f \in {"SSWARNF"} : stack}]
  IN IF errs # {} THEN BusError(found, s, errs, stack)
     ELSE Cycle([found EXCEPT !.stat[s] = @ \cup {b \in {"written"} : kind = "write"}],
                Frame(mmuBase[s], o), kind)

(* mmu_translate and what cpu_read_* and cpu_write_* make of its answer.   *)
Translate(board, page, kind) ==
  LET s     == SegOf(page)
      o     == OffOf(page)
      errs  == Errors(mmuBase[s], mmuLimit[s], o, kind)
      stack == mmuBase[s].type = "le" /\ "limit" \in errs
      found == [board EXCEPT !.stat[s] = (@ \cap {"written"}) \cup errs,
                             !.flags = @ \cup {f \in {"MMERF"} : errs # {}}
                                         \cup {f \in {"SSWARNF"} : stack}]
  IN IF errs # {} THEN BusError(found, s, errs, stack)
     ELSE Cycle([found EXCEPT !.stat[s] = @ \cup {b \in {"written"} : kind = "write"}],
                Frame(mmuBase[s], o), kind)

(* cpu_xlate: a supervisor's address is physical, and so is everybody's    *)
(* before the first base has been written.                                 *)
Word(board, page, kind) ==
  IF Translated THEN Translate(board, page, kind) ELSE Cycle(board, page, kind)

Put(board) ==
  /\ mmuStat' = board.stat
  /\ errorFlags' = board.flags
  /\ romMapped' = board.rom
  /\ ramUsed' = board.used
  /\ trap' = board.trap
  /\ bus' = board.bus
  /\ userMode' = (userMode /\ ~board.failed)
  /\ UNCHANGED <<mmuVars, leftOver>>

(* The kernel looks at the status before it does anything else.            *)
Ready == ~trap.on

Access(page, kind) ==
  /\ Ready
  /\ Put(Word(Board, page, kind))

(* A long access across a page.                                            *)
LongAccess(page, kind) ==
  LET first == Word(Board, page, kind)
  IN /\ Ready
     /\ Put(IF first.failed THEN first ELSE Word(first, page + 1, kind))

-----------------------------------------------------------------------------
(* The kernel.                                                             *)
(* A read of either byte of the CMB status, or of both.                    *)
StatusRead ==
  /\ ~userMode
  /\ errorFlags' = {}
  /\ trap' = NoTrap
  /\ leftOver' = FALSE
  /\ bus' = {}
  /\ UNCHANGED <<mmuVars, mmuStat, romMapped, ramUsed, userMode>>

(* A register takes a word or one byte of it: the high one holds the type  *)
(* and the attributes as well.                                             *)
HighByte(reg, word) == [word EXCEPT !.lo = reg.lo]
LowByte(reg, word)  == [reg EXCEPT !.lo = word.lo]
Stores(reg, word)   == {word, HighByte(reg, word), LowByte(reg, word)}

WriteBase(s, word) ==
  /\ ~userMode /\ Ready
  /\ \E reg \in Stores(mmuBase[s], word) : mmuBase' = [mmuBase EXCEPT ![s] = reg]
  /\ mmuLoaded' = TRUE
  /\ mmuStat' = [mmuStat EXCEPT ![s] = {}]
  /\ bus' = {}
  /\ UNCHANGED <<mmuLimit, errorFlags, romMapped, ramUsed, userMode, trap, leftOver>>

WriteLimit(s, word) ==
  /\ ~userMode /\ Ready
  /\ \E reg \in Stores(mmuLimit[s], word) : mmuLimit' = [mmuLimit EXCEPT ![s] = reg]
  /\ bus' = {}
  /\ UNCHANGED <<mmuBase, mmuLoaded, mmuStat, errorFlags, romMapped, ramUsed,
                 userMode, trap, leftOver>>

(* An RTE to the user program.                                             *)
Return ==
  /\ ~userMode /\ Ready
  /\ userMode' = TRUE
  /\ bus' = {}
  /\ UNCHANGED <<mmuVars, mmuStat, errorFlags, romMapped, ramUsed, trap, leftOver>>

-----------------------------------------------------------------------------
(* dbgCmd_rese.  The CMB keeps its error flags.                            *)
Reset ==
  /\ mmuBase' = [s \in Segments |-> ClearedBase]
  /\ mmuLimit' = [s \in Segments |-> Cleared]
  /\ mmuStat' = [s \in Segments |-> {}]
  /\ mmuLoaded' = FALSE
  /\ romMapped' = TRUE /\ ramUsed' = FALSE
  /\ userMode' = FALSE /\ trap' = NoTrap
  /\ bus' = {}
  /\ leftOver' = (errorFlags # {})
  /\ UNCHANGED errorFlags

Reachable == IF userMode THEN Logical ELSE Physical

Next == \/ \E page \in Reachable, kind \in Kinds :
              Access(page, kind) \/ LongAccess(page, kind)
        \/ StatusRead
        \/ \E s \in Segments, word \in BaseWords : WriteBase(s, word)
        \/ \E s \in Segments, word \in LimitWords : WriteLimit(s, word)
        \/ Return
        \/ Reset

Spec == Init /\ [][Next]_vars

-----------------------------------------------------------------------------
TypeOK ==
  /\ mmuBase \in [Segments -> BaseRegs]
  /\ mmuLimit \in [Segments -> LimitRegs]
  /\ mmuStat \in [Segments -> SUBSET StatusBits]
  /\ mmuLoaded \in BOOLEAN
  /\ errorFlags \in SUBSET Flags
  /\ romMapped \in BOOLEAN /\ ramUsed \in BOOLEAN
  /\ userMode \in BOOLEAN
  /\ trap \in Traps
  /\ leftOver \in BOOLEAN

(* "rom is @ each 8k until first write to memory": the ROM never hides     *)
(* what somebody has stored (memory.c, the exception frame included).      *)
RomHidesNothing == romMapped => ~ramUsed

(* A bus error that the kernel has not looked at: the CMB status says      *)
(* whether the MMU raised it and whether a stack is at its end, and the    *)
(* status of the segment says why, although the access was one of several  *)
(* of one instruction and others came before (mmu_translate, cmb_read_byte). *)
FaultExplained ==
  trap.on =>
    /\ ~leftOver => /\ "MMERF" \in errorFlags <=> trap.errors # {}
                    /\ "SSWARNF" \in errorFlags <=> trap.stack
    /\ trap.errors # {} => mmuStat[trap.seg] \ {"written"} = trap.errors

(* Error flags are of a bus error that the kernel has still to look at, or *)
(* were there before the reset.                                            *)
FlagsOwed ==
  /\ errorFlags # {} => leftOver \/ trap.on
  /\ userMode => ~trap.on

(* A segment whose base was never written is absent.                       *)
UnloadedAbsent ==
  ~mmuLoaded => \A s \in Segments : mmuBase[s] = ClearedBase

MachineInv == TypeOK /\ RomHidesNothing /\ FaultExplained /\ FlagsOwed
              /\ UnloadedAbsent

(* The page that a segment grants for an access of this kind.              *)
GrantedBy(s, page, kind) ==
  \E o \in Field : /\ Grants(mmuBase[s], mmuLimit[s], o, kind)
                   /\ page \in Field
                   /\ At(mmuBase[s]) + o \in {page, page + FieldSize}

(* Once the kernel has loaded the MMU, no word of an access of the user    *)
(* program reaches memory that its descriptors do not grant for it, also   *)
(* not the words of a long access that runs from one segment into the next *)
(* (cpu_read_long, cpu_write_long).                                        *)
Isolation ==
  [][userMode /\ mmuLoaded =>
       \A c \in bus' : \E s \in Segments : GrantedBy(s, c[1], c[2])]_vars

(* The written bit is what tells a kernel that a segment has to be saved:  *)
(* a write of the user program sets it, and it stays until the kernel      *)
(* loads the base of the segment again (mmu_translate, mmu_write_word).    *)
DirtyStep ==
  /\ userMode /\ mmuLoaded =>
       \A c \in bus' : c[2] = "write" =>
         \E s \in Segments : /\ GrantedBy(s, c[1], "write")
                             /\ "written" \in mmuStat'[s]
  /\ userMode /\ mmuLoaded /\ mmuLoaded' =>
       \A s \in Segments : "written" \in mmuStat[s] => "written" \in mmuStat'[s]
DirtyTracked == [][DirtyStep]_vars
=============================================================================

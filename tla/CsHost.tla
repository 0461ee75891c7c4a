------------------------------- MODULE CsHost -------------------------------
(***************************************************************************)
(* The cartridge streamer with a driver.  The driver hands over the address *)
(* of an IOPB, high half first, or the low half alone when the high one is *)
(* as it was, may arm the chain (8001), writes the go register and looks at *)
(* it until it is no longer busy, or sleeps until the interrupt.  It goes  *)
(* on with the next block of the chain, starts the chain again or hands    *)
(* over another address.                                                   *)
(*                                                                         *)
(* It treats the tape as such a drive wants it: it writes from the start   *)
(* of the tape or on from what it wrote or appended, reads and skips after *)
(* a rewind or on from what it read, and erases after a rewind.  The       *)
(* machine may be reset, and the user may put in another tape, at any time. *)
(*                                                                         *)
(* The driver's variables: pc; where, the address of the block it means;   *)
(* given, the one it handed over last; iopb, that block; back, what comes  *)
(* back in it; mode, what the driver is doing to the tape; and protected,  *)
(* whether the tape that is in must not be written to.                     *)
(***************************************************************************)
EXTENDS Cs

CONSTANTS
  Places,        (* where the driver has its first blocks                  *)
  Iopbs,         (* the blocks that the driver issues                      *)
  MaxFiles,      (* the bound on the files that it writes to a tape        *)
  Blocks,        (* what a block of data may be                            *)
  Tapes          (* what may be put in: sequences of files                 *)

(* What is left of a block when the driver is done with it.                *)
NoIopb == [op |-> "STATUS", count |-> 0, badLen |-> FALSE, data |-> <<>>,
           filemarks |-> FALSE, int |-> FALSE, next |-> NoAddress]

ASSUME CsHostAssumption ==
  /\ Places \subseteq Addresses
  /\ MaxFiles \in Nat
  /\ Tapes \subseteq Seq(Seq(Blocks))
ASSUME IopbAssumption ==
  \A b \in Iopbs :
    /\ b.op \in Commands /\ b.count \in Nat
    /\ {b.badLen, b.filemarks, b.int} \subseteq BOOLEAN
    /\ b.next \in Addresses
    /\ b.data \in Seq(Blocks)

VARIABLES cs, drive, tape, pc, where, given, iopb, back, mode, protected

cartridge == <<drive, tape, protected>>
allVars   == <<cs, cartridge, pc, where, given, iopb, back, mode>>

Blank == [status |-> "NONE", data |-> <<>>]

(* A tape as a directory of files.                                         *)
Directory(fs) == [n \in 0 .. Len(fs) - 1 |-> fs[n + 1]]

HostInit ==
  \E fs \in Tapes, p \in BOOLEAN :
    /\ tape = Directory(fs) /\ protected = p
    /\ cs = ResetRegs /\ drive = Inserted(ResetDrive, tape, p)
    /\ pc = "idle" /\ where = Origin /\ given = Origin
    /\ iopb = NoIopb /\ back = Blank
    /\ mode = "bot"

-----------------------------------------------------------------------------
Hands(c, from, to) ==
  /\ pc \in from /\ pc' = to
  /\ cs' = c
  /\ UNCHANGED <<cartridge, iopb, back, mode>>

HandHigh(a) ==
  /\ Hands(AddrHigh(cs, a.high), {"idle", "next"}, "low")
  /\ where' = a /\ UNCHANGED given
HandLow ==
  /\ Hands(AddrLow(cs, where.low), {"low"}, "handed")
  /\ given' = where /\ UNCHANGED where
HandLowOnly(a) ==
  /\ a.high = cs.addr.high
  /\ Hands(AddrLow(cs, a.low), {"idle", "next"}, "handed")
  /\ where' = a /\ given' = a
Arm == Hands(ChainReset(cs), {"handed"}, "handed") /\ UNCHANGED <<where, given>>
Again ==
  /\ Hands(ChainReset(cs), {"idle", "next"}, "handed")
  /\ where' = given /\ UNCHANGED given

(* What the driver of such a drive does in each mode.  It does not write   *)
(* to a tape that is protected, unless the controller knows it.            *)
Suits(b, m) ==
  /\ b.op \in {"READ", "SKIP"} => m \in {"bot", "reading"}
  /\ b.op = "WRITE" => m \in {"bot", "writing"}
  /\ b.op = "ERASE" => m = "bot"

Permitted(b) ==
  /\ Suits(b, mode)
  /\ b.op \in {"WRITE", "APPEND", "ERASE"} => drive.readonly \/ ~protected
  /\ b.filemarks => Cardinality(DOMAIN tape) < MaxFiles

Start(b) ==
  /\ pc \in {"handed", "next"}
  /\ Permitted(b)
  /\ iopb' = b
  /\ cs' = Go(cs)
  /\ pc' = IF b.int THEN "sleep" ELSE "poll"
  /\ UNCHANGED <<cartridge, where, given, back, mode>>

ModeAfter(b, status) ==
  IF status \in {"IPBPERR", "WRPROT"} /\ b.op # "INIT" THEN mode
  ELSE CASE b.op \in {"INIT", "REWIND", "RETENSION", "ERASE"} -> "bot"
         [] b.op \in {"READ", "SKIP"}    -> "reading"
         [] b.op \in {"WRITE", "APPEND"} -> "writing"
         [] OTHER -> mode

(* cs_processContinue.  The interrupt at its end is taken at once and      *)
(* wakes up the driver, if there is one; otherwise the driver polls.  The  *)
(* block that is executed is the one at IOPB_addr, which OnItsIopb says is *)
(* iopb.                                                                   *)
Wait ==
  /\ cs.execCount = 2
  /\ cs' = Counting(cs)
  /\ UNCHANGED <<cartridge, pc, where, given, iopb, back, mode>>
Execute ==
  /\ cs.execCount = 1
  /\ cs' = Finished(cs, iopb)
  /\ \E r \in Outcomes(drive, tape, iopb) :
       /\ drive' = r.drive /\ tape' = r.tape
       /\ back' = [status |-> r.status, data |-> r.data]
       /\ mode' = ModeAfter(iopb, r.status)
  /\ pc' = "poll"
  /\ where' = IF iopb.next = NoAddress THEN where ELSE iopb.next
  /\ UNCHANGED <<protected, given, iopb>>

SeesDone ==
  /\ pc = "poll" /\ ~Busy(cs)
  /\ pc' = IF iopb.next = NoAddress THEN "idle" ELSE "next"
  /\ iopb' = NoIopb /\ back' = Blank
  /\ UNCHANGED <<cs, cartridge, where, given, mode>>

Reset ==
  /\ cs' = ResetRegs /\ drive' = ResetDrive
  /\ pc' = "idle" /\ where' = Origin /\ given' = Origin /\ mode' = "bot"
  /\ iopb' = NoIopb /\ back' = Blank
  /\ UNCHANGED <<tape, protected>>

InsertTape(fs, p) ==
  /\ tape' = Directory(fs) /\ protected' = p
  /\ drive' = Inserted(drive, tape', p)
  /\ UNCHANGED <<cs, pc, where, given, iopb, back, mode>>

HostNext ==
  \/ \E a \in Places : HandHigh(a) \/ HandLowOnly(a)
  \/ HandLow \/ Arm \/ Again
  \/ \E b \in Iopbs : Start(b)
  \/ Wait \/ Execute \/ SeesDone
  \/ Reset
  \/ \E fs \in Tapes, p \in BOOLEAN : InsertTape(fs, p)

HostSpec == HostInit /\ [][HostNext]_allVars

-----------------------------------------------------------------------------
TypeOK ==
  /\ cs \in CsType
  /\ drive \in DriveType
  /\ ~(drive.openR /\ drive.openW)
  /\ pc \in {"idle", "low", "handed", "poll", "sleep", "next"}
  /\ where \in Addresses /\ given \in Addresses
  /\ iopb \in Iopbs \cup {NoIopb}
  /\ mode \in {"bot", "reading", "writing"}

(* A block is executed, and its status written back, at the address that   *)
(* the driver means: however the halves came in, and wherever in a chain   *)
(* the last block was.  Anywhere else the status words overwrite the       *)
(* kernel, as the comment in cs_write_word tells.                          *)
OnItsIopb == Busy(cs) => cs.addr = where

(* Why that is so: but for the moment between two halves, the controller   *)
(* has the address that the driver means and the one that 8001 goes back   *)
(* to, through chains, restarted chains, commands that fail and resets.    *)
AddressInv ==
  /\ Busy(cs) => pc \in {"poll", "sleep"}
  /\ pc = "low" => cs.addr.high = where.high
  /\ pc # "low" => cs.addr = where /\ cs.first = given
  /\ pc = "handed" => where = given

(* While a tape is written, the controller knows how much is on it, which  *)
(* is what its end of tape depends on: through erasing, marks, appending,  *)
(* files that could not be created and another tape put in.                *)
Counted == mode = "writing" => drive.onTape = CountBlocks(tape)

(* The tape behind the directory: the files before the first number that   *)
(* is missing, and a head that is past the mark once a file is read out.   *)
FilesOf(t) == [i \in 1 .. Missing(t, 0) |-> t[i - 1]]
HeadOf(d, t) ==
  IF d.openR /\ d.remaining = 0 THEN [file |-> d.fileNo + 2, block |-> 0]
  ELSE [file |-> d.fileNo + 1,
        block |-> IF d.openR THEN Len(t[d.fileNo]) - d.remaining
                  ELSE IF d.openW THEN Len(t[d.fileNo]) ELSE 0]
Word(status) ==
  CASE status = "NONE"                   -> "nothing"
    [] status = "COMPLETE"               -> "ok"
    [] status = "FILENMARK"              -> "mark"
    [] status \in {"READEOT", "EOD"}     -> "end"
    [] status = "TAPERROR"               -> "failed"
    [] status = "WROTEEOT"               -> "full"
    [] status \in {"IPBPERR", "WRPROT"}  -> "refused"
ResultOf == [data |-> back.data, says |-> Word(back.status)]

(* The request is what the block says, from the go register's being        *)
(* written until the controller is no longer busy.                         *)
NoRequest == [op |-> "NONE"]
RequestOf(b) == [op |-> b.op, count |-> b.count, data |-> b.data,
                 mark |-> b.filemarks, bad |-> b.badLen]
Request == IF Busy(cs) THEN RequestOf(iopb) ELSE NoRequest

Abstract == INSTANCE Tape WITH
  files <- FilesOf(tape), head <- HeadOf(drive, tape),
  locked <- drive.readonly, request <- Request, result <- ResultOf,
  Requests <- {RequestOf(b) : b \in Iopbs}, Cartridges <- Tapes

(* The commands make a tape of the directory: each block that is executed  *)
(* is answered once, and its status is that of what it asked for.  A write *)
(* or an append that is COMPLETE has put its own data at the end of the    *)
(* tape, a read, a skip, a mark or an end is where the tape has it, what   *)
(* is refused or fails has written nothing, and WROTEEOT is said when the  *)
(* tape is full and only then.                                             *)
ImplementsTape == Abstract!TapeSpec
=============================================================================

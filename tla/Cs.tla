--------------------------------- MODULE Cs ---------------------------------
(***************************************************************************)
(* The cartridge streamer (src/src/cs.c): its registers, which take the    *)
(* address of an IO parameter block (IOPB) in two halves, and its commands, *)
(* on a tape that is a directory with one host file for each tape file.    *)
(*                                                                         *)
(* The fields of the code's cs that matter are two records, the registers  *)
(* and the drive; the tape is a function from the numbers of the files     *)
(* that exist, from 0, to their blocks.  What a function of cs.c does is   *)
(* an operator; a command returns the drive, the tape, the primary status  *)
(* and what was read.                                                      *)
(*                                                                         *)
(* Abstracted: the secondary status words, the version command, the number *)
(* of the interrupt vector and fileBlockNo, which nothing reads.  goReg is *)
(* busy exactly while execCount is not 0.  In a host file system a file    *)
(* may fail to be created; what exists can be opened for reading, files of *)
(* a directory that is writable can be unlinked, and writing a block to an *)
(* open file succeeds.                                                     *)
(***************************************************************************)
EXTENDS Integers, SequencesExt

CONSTANTS
  Halves,      (* the values of one half of an address, 14 bits            *)
  Capacity     (* CS_TAPESIZE_BKLS(tapesizeMB)                             *)

ASSUME CsAssumption ==
  /\ Halves \subseteq Nat /\ 0 \in Halves
  /\ Capacity \in Nat

Addresses == [high : Halves, low : Halves]
Origin    == [high |-> 0, low |-> 0]
NoAddress == [high |-> 0, low |-> 0]     \* nextBlockPtr of the last of a chain

CsType ==
  [addr : Addresses, first : Addresses,  \* IOPB_addr, firstIOPB_addr
   execCount : 0 .. 2]

DriveType ==
  [fileNo : Nat, openR : BOOLEAN, openW : BOOLEAN,
   remaining : Nat,                      \* fileRemainingBlocks
   onTape : Nat,                         \* numBlocksOnTape
   readonly : BOOLEAN]

(* The state that memset leaves.                                           *)
ResetRegs  == [addr |-> Origin, first |-> Origin, execCount |-> 0]
ResetDrive == [fileNo |-> 0, openR |-> FALSE, openW |-> FALSE,
               remaining |-> 0, onTape |-> 0, readonly |-> FALSE]

Exists(t, n)   == n \in DOMAIN t
IsFilemark(t, n) == Exists(t, n) /\ t[n] = <<>>

(* The first file from n on that does not exist.                           *)
Missing(t, n) ==
  Min({m \in n .. n + Cardinality(DOMAIN t) : ~Exists(t, m)})

(* The blocks of the files before it, each as its file and its place there. *)
Recorded(t) == UNION {{n} \X DOMAIN t[n] : n \in 0 .. Missing(t, 0) - 1}
CountBlocks(t) == Cardinality(Recorded(t))

-----------------------------------------------------------------------------
(* The registers.                                                          *)
AddrHigh(c, h) ==
  LET a == [c.addr EXCEPT !.high = h]
  IN [c EXCEPT !.addr = a, !.first = a]
AddrLowAssigns(c, l) ==
  LET a == [high |-> 0, low |-> l]
  IN [c EXCEPT !.addr = a, !.first = a]
AddrLow(c, l) ==
  LET a == [c.addr EXCEPT !.low = l]
  IN [c EXCEPT !.addr = a, !.first = a]
ChainResetIgnored(c) == c
ChainReset(c) == [c EXCEPT !.addr = c.first]           \* command 8001
Go(c)         == [c EXCEPT !.execCount = 2]
Busy(c)       == c.execCount # 0                        \* goReg
Counting(c)   == [c EXCEPT !.execCount = 1]

(* The block at IOPB_addr is executed by the second call after the go      *)
(* register was written; the next one of its chain waits for another go.   *)
Finished(c, b) ==
  [c EXCEPT !.execCount = 0,
            !.addr = IF b.next = NoAddress THEN @ ELSE b.next]

(* A directory that is writable or not becomes the tape.                   *)
Closed(d) == [d EXCEPT !.openR = FALSE, !.openW = FALSE]
Inserted(d, t, protected) ==
  [Closed(d) EXCEPT !.fileNo = 0, !.readonly = protected,
                    !.onTape = CountBlocks(t)]

-----------------------------------------------------------------------------
(* The commands, as the IOPB b says, on the drive d and the tape t.        *)
Outcome(d, t, status) == [drive |-> d, tape |-> t, status |-> status, data |-> <<>>]

InitCmd(d, t, b) ==
  Outcome([Closed(d) EXCEPT !.fileNo = 0], t,
          IF b.badLen THEN "IPBPERR" ELSE "COMPLETE")

RewindCmd(d, t) == Outcome([Closed(d) EXCEPT !.fileNo = 0], t, "COMPLETE")

(* At the end of a file that is open, the next one is the one to skip.     *)
SkipFromCurrent(d, t, b) ==
  LET to == Min({d.fileNo + b.count, Missing(t, d.fileNo)})
  IN Outcome([Closed(d) EXCEPT !.fileNo = to], t,
             IF Exists(t, to) THEN "COMPLETE" ELSE "EOD")
SkipCmd(d, t, b) ==
  LET atEOF == d.openR /\ d.remaining = 0
      to == Min({d.fileNo + b.count + (IF atEOF THEN 1 ELSE 0),
                 Missing(t, d.fileNo)})
  IN Outcome([Closed(d) EXCEPT !.fileNo = to], t,
             IF Exists(t, to) THEN "COMPLETE" ELSE "EOD")

(* tape_erase unlinks the files up to the first number that is missing.    *)
Erased(t)   == Restrict(t, {n \in DOMAIN t : n > Missing(t, 0)})
EraseCmd(d, t) ==
  IF d.readonly THEN Outcome(d, t, "WRPROT")
  ELSE Outcome([Closed(d) EXCEPT !.onTape = 0], Erased(t), "COMPLETE")

(* What is left, up to what fits; a stream open for writing has nothing.   *)
TapeRead(d, t, b) ==
  LET n  == Min({b.count, d.remaining})
      at == Len(t[d.fileNo]) - d.remaining
      d2 == [d EXCEPT !.remaining = @ - n]
  IN IF d.openW /\ n > 0 THEN Outcome(d, t, "TAPERROR")
     ELSE [drive |-> d2, tape |-> t,
           data |-> SubSeq(t[d.fileNo], at + 1, at + n),
           status |-> IF d2.remaining # 0 THEN "COMPLETE"
                      ELSE IF Exists(t, d.fileNo + 1) THEN "FILENMARK"
                      ELSE "READEOT"]

OpenedR(d, t, n) ==
  IF Exists(t, n) THEN [Closed(d) EXCEPT !.fileNo = n, !.openR = TRUE,
                                         !.remaining = Len(t[n])]
  ELSE [Closed(d) EXCEPT !.fileNo = n]

ReadCmd(d, t, b) ==
  LET d2 == IF ~d.openR THEN OpenedR(d, t, d.fileNo)
            ELSE IF d.remaining = 0 THEN OpenedR(d, t, d.fileNo + 1)
            ELSE d
  IN IF b.badLen THEN Outcome(d, t, "IPBPERR")
     ELSE IF d2.openR THEN TapeRead(d2, t, b)
     ELSE Outcome(d2, t, IF d.openR THEN "READEOT" ELSE "EOD")

(* A file that is opened for writing is new; behind a mark is an empty one. *)
Created(t, n) == [m \in DOMAIN t \cup {n} |-> IF m = n THEN <<>> ELSE t[m]]
(* Faulty: no block is counted in the buffer.  The file is opened, and     *)
(* COMPLETE is said, but nothing stored.                                   *)
TapeWriteOfNothing(d, t, b) ==
  {Outcome([d EXCEPT !.openW = TRUE],
           IF d.openW THEN t ELSE Created(t, d.fileNo), "COMPLETE")}
TapeWrite(d, t, b) ==
  LET t1   == IF d.openW THEN t ELSE Created(t, d.fileNo)
      t2   == [t1 EXCEPT ![d.fileNo] = @ \o b.data]
      d2   == [d EXCEPT !.openW = TRUE, !.onTape = @ + Len(b.data)]
      next == d.fileNo + 1
  IN (IF d.openW THEN {} ELSE {Outcome(d, t, "TAPERROR")})
     \cup
     (IF ~b.filemarks THEN {Outcome(d2, t2, "COMPLETE")}
      ELSE {Outcome([Closed(d2) EXCEPT !.fileNo = next], t3, "COMPLETE") :
              t3 \in {t2, IF Exists(t2, next) THEN t2 ELSE Created(t2, next)}})

WriteUpToEnd(d, t, b) ==
  IF d.onTape > Capacity THEN {Outcome(d, t, "WROTEEOT")} ELSE TapeWrite(d, t, b)

(* Written from its start, a tape loses all that was on it.                *)
WriteCmd(d, t, b) ==
  IF b.badLen THEN {Outcome(d, t, "IPBPERR")}
  ELSE IF d.readonly THEN {Outcome(d, t, "WRPROT")}
  ELSE IF d.fileNo = 0 /\ ~d.openW
    THEN WriteUpToEnd([d EXCEPT !.onTape = 0], Erased(t), b)
  ELSE WriteUpToEnd(d, t, b)

AppendUncounted(d, t, b) ==
  LET end == Missing(t, d.fileNo)
      to  == IF end # 0 /\ IsFilemark(t, end - 1) THEN end - 1 ELSE end
  IN IF b.badLen THEN {Outcome(d, t, "IPBPERR")}
     ELSE IF d.readonly THEN {Outcome(d, t, "WRPROT")}
     ELSE WriteUpToEnd([Closed(d) EXCEPT !.fileNo = to], t, b)
AppendCmd(d, t, b) ==
  LET end == Missing(t, d.fileNo)
      to  == IF end # 0 /\ IsFilemark(t, end - 1) THEN end - 1 ELSE end
  IN IF b.badLen THEN {Outcome(d, t, "IPBPERR")}
     ELSE IF d.readonly THEN {Outcome(d, t, "WRPROT")}
     ELSE WriteUpToEnd([Closed(d) EXCEPT !.fileNo = to, !.onTape = CountBlocks(t)],
                       t, b)

Commands == {"INIT", "SKIP", "REWIND", "RETENSION", "ERASE", "STATUS", "TEST",
             "READ", "WRITE", "APPEND", "UNKNOWN"}

Outcomes(d, t, b) ==
  CASE b.op = "INIT"                    -> {InitCmd(d, t, b)}
    [] b.op = "SKIP"                    -> {SkipCmd(d, t, b)}
    [] b.op \in {"REWIND", "RETENSION"} -> {RewindCmd(d, t)}
    [] b.op = "ERASE"                   -> {EraseCmd(d, t)}
    [] b.op \in {"STATUS", "TEST"}      -> {Outcome(d, t, "COMPLETE")}
    [] b.op = "READ"                    -> {ReadCmd(d, t, b)}
    [] b.op = "WRITE"                   -> WriteCmd(d, t, b)
    [] b.op = "APPEND"                  -> AppendCmd(d, t, b)
    [] b.op = "UNKNOWN"                 -> {Outcome(d, t, "IPBPERR")}
=============================================================================

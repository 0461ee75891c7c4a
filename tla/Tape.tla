-------------------------------- MODULE Tape --------------------------------
(***************************************************************************)
(* What a tape promises its driver: files in the order in which they were  *)
(* written, with a mark between two of them.  It has at most one request   *)
(* at a time, and answers it once, by doing what was asked.  A read goes   *)
(* on where the last one ended, never across a mark, and says whether it   *)
(* has come to a mark, which is then behind it, or to the end of what is   *)
(* recorded.  Writing starts at the beginning of the tape, which is then   *)
(* new, or goes on at the end; appending makes a file of its own.  What is *)
(* answered with ok has been done: the data of that request, and no other, *)
(* is on the tape, or the head has moved as far as it was told.  Only what *)
(* cannot be done is refused, and a tape is said to be full when it is.    *)
(***************************************************************************)
EXTENDS Naturals, SequencesExt

CONSTANTS
  Requests,    (* records of op, count, data, mark and bad, not well formed *)
  NoRequest,
  Capacity,    (* a tape with more blocks than that is full                *)
  Cartridges   (* what may be on a tape that is put in: sequences of files *)

VARIABLES
  files, head,
  locked,      (* the drive knows that its tape must not be written to     *)
  request,     (* what has been asked and is not answered yet              *)
  result       (* the answer, until it is taken                            *)

tapeVars == <<files, head, locked, request, result>>

Start   == [file |-> 1, block |-> 0]
Nothing == [data |-> <<>>, says |-> "nothing"]

TapeInit ==
  /\ files \in Cartridges
  /\ head = Start
  /\ locked \in BOOLEAN
  /\ request = NoRequest
  /\ result = Nothing

Says(s) == result' = [data |-> <<>>, says |-> s]

(* What is left of the file under the head.                                *)
Ahead == IF head.file > Len(files) THEN <<>>
         ELSE SubSeq(files[head.file], head.block + 1, Len(files[head.file]))

Read(n) ==
  LET data == SubSeq(Ahead, 1, IF n < Len(Ahead) THEN n ELSE Len(Ahead))
      says == IF Len(data) < Len(Ahead) THEN "ok"
              ELSE IF head.file < Len(files) THEN "mark" ELSE "end"
  IN /\ result' = [data |-> data, says |-> says]
     /\ head' = IF says = "ok" THEN [head EXCEPT !.block = @ + Len(data)]
                ELSE IF head.file > Len(files) THEN head
                ELSE [file |-> head.file + 1, block |-> 0]
     /\ UNCHANGED files

(* To the beginning of the n-th file from the one under the head.          *)
Skip(n) ==
  /\ head' = [file |-> Min({head.file + n, Len(files) + 1}), block |-> 0]
  /\ Says(IF head'.file > Len(files) THEN "end" ELSE "ok")
  /\ UNCHANGED files

Rewind == head' = Start /\ Says("ok") /\ UNCHANGED files
Erase  == files' = <<>> /\ head' = Start /\ Says("ok")
Test   == Says("ok") /\ UNCHANGED <<files, head>>

(* The blocks on the tape fs.                                              *)
Amount(fs) == Cardinality(UNION {{i} \X DOMAIN fs[i] : i \in 1 .. Len(fs)})

(* Data at the end of the file f of fs, which may be about to begin.  The  *)
(* empty file that is to begin behind a mark may fail to.                  *)
Written(fs, f, data, mark) ==
  LET gs == IF f > Len(fs) THEN Append(fs, data) ELSE [fs EXCEPT ![f] = @ \o data]
  IN /\ files' \in {gs} \cup (IF mark THEN {Append(gs, <<>>)} ELSE {})
     /\ head' = IF mark THEN [file |-> f + 1, block |-> 0]
                ELSE [file |-> f, block |-> Len(gs[f])]
     /\ Says("ok")

(* A write that fails writes nothing.                                      *)
Fails(fs, hd, s) == files' = fs /\ head' = hd /\ Says(s)

(* A file may fail to begin; one that has begun is written until the tape  *)
(* is full.                                                                *)
Write(data, mark) ==
  LET fs == IF head = Start THEN <<>> ELSE files
  IN /\ \/ head = Start \/ head.file = Len(files) + 1
        \/ head.file = Len(files) /\ Ahead = <<>>
     /\ IF Amount(fs) > Capacity THEN Fails(fs, head, "full")
        ELSE \/ Written(fs, head.file, data, mark)
             \/ head.block = 0 /\ Fails(fs, head, "failed")

AppendFile(data, mark) ==
  LET f  == IF files # <<>> /\ Last(files) = <<>> THEN Len(files) ELSE Len(files) + 1
      hd == [file |-> f, block |-> 0]
  IN IF Amount(files) > Capacity THEN Fails(files, hd, "full")
     ELSE Written(files, f, data, mark) \/ Fails(files, hd, "failed")

-----------------------------------------------------------------------------
Ask(c) ==
  /\ request = NoRequest
  /\ request' = c
  /\ UNCHANGED <<files, head, locked, result>>

Refused(c) ==
  \/ c.op = "UNKNOWN"
  \/ c.bad /\ c.op \in {"INIT", "READ", "WRITE", "APPEND"}
  \/ locked /\ c.op \in {"ERASE", "WRITE", "APPEND"}

(* Nothing is changed, though INIT rewinds a tape all the same.            *)
Refuse(c) ==
  /\ Says("refused")
  /\ head' = IF c.op = "INIT" THEN Start ELSE head
  /\ UNCHANGED files

Does(c) ==
  \/ c.op = "READ" /\ Read(c.count)
  \/ c.op = "SKIP" /\ Skip(c.count)
  \/ c.op \in {"INIT", "REWIND", "RETENSION"} /\ Rewind
  \/ c.op = "ERASE" /\ Erase
  \/ c.op \in {"STATUS", "TEST"} /\ Test
  \/ c.op = "WRITE" /\ Write(c.data, c.mark)
  \/ c.op = "APPEND" /\ AppendFile(c.data, c.mark)

Answer ==
  /\ request # NoRequest
  /\ IF Refused(request) THEN Refuse(request) ELSE Does(request)
  /\ request' = NoRequest
  /\ UNCHANGED locked

Take ==
  /\ request = NoRequest
  /\ result' = Nothing
  /\ UNCHANGED <<files, head, locked, request>>

(* A reset gives up the request, and forgets that the tape is locked.      *)
Reset ==
  /\ head' = Start /\ locked' = FALSE
  /\ request' = NoRequest /\ result' = Nothing
  /\ UNCHANGED files

Exchange ==
  /\ files' \in Cartridges /\ head' = Start /\ locked' \in BOOLEAN
  /\ UNCHANGED <<request, result>>

TapeNext ==
  \/ \E c \in Requests : Ask(c)
  \/ Answer
  \/ Take
  \/ Reset
  \/ Exchange

TapeSpec == TapeInit /\ [][TapeNext]_tapeVars
=============================================================================

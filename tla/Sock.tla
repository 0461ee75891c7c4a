-------------------------------- MODULE Sock --------------------------------
(***************************************************************************)
(* socket_connections.c: the poll thread accepts terminals, receives what  *)
(* they send and queues it in the rings of the ports, while the emulator's *)
(* thread takes characters out.  Each byte is a pair of the port it was    *)
(* typed for and a stamp that counts modulo Stamps.                        *)
(*                                                                         *)
(* Terminals and the host's network are the environment: a client calls,   *)
(* types once it is connected, and hangs up; a socket may fail to open     *)
(* again.  Some bytes belong to the sequence of a function key (key TRUE): *)
(* a port with translation queues those in one call under the mutex.  The  *)
(* same bytes stand for the key on a port that passes them on as they are. *)
(***************************************************************************)
EXTENDS RingBuffer, FiniteSets

CONSTANTS
  Typists,   (* the ports whose terminals type and which the emulator reads *)
  Packets,   (* what one send holds: for each byte, whether its key goes on *)
  MaxUnderWay,   (* bytes of a port that may be on their way to its ring   *)
  Stamps

ASSUME SockAssumption ==
  /\ Ports \subseteq Nat
  /\ Typists \subseteq Ports
  /\ Chars = Ports \X (0 .. Stamps - 1)
  /\ Packets \subseteq Seq(BOOLEAN)
  /\ MaxUnderWay \in Nat
  /\ Stamps \in Nat /\ Stamps >= Size + MaxUnderWay

VARIABLES
  status,   (* of each port's socket; OPEN covers STAT_DATA_AVAILABLE      *)
  doIn,     (* doInTranslation of each port                                *)
  peer,     (* the client of each port                                     *)
  wire,     (* the bytes it has sent and nobody has received               *)
  typed,    (* the stamp of the next byte typed for the port               *)
  todo,     (* sock_poll's loop: the entries of pfds that have an event    *)
  left,     (* the received bytes still to be handed to ring_buffer_queue  *)
  leftPort, (* the port whose ring they are for                            *)
  perKey    (* does each key of them have a call of its own?               *)

sockVars == <<status, doIn, peer, wire, typed, todo, left, leftPort, perKey>>
allVars  == <<ringVars, sockVars>>

(* A byte between a terminal and the ring.                                 *)
Byte      == [char : Chars, more : BOOLEAN]
CharsOf(bytes) == [k \in DOMAIN bytes |-> bytes[k].char]

SockInit ==
  /\ RingInit
  /\ status \in [Ports -> {"WAITCONN", "CLOSED"}]
  /\ doIn \in [Ports -> BOOLEAN]
  /\ peer = [p \in Ports |-> "none"]
  /\ wire = [p \in Ports |-> <<>>]
  /\ typed = [p \in Ports |-> 0]
  /\ todo = {} /\ left = <<>> /\ leftPort = AnyPort /\ perKey = FALSE

-----------------------------------------------------------------------------
(* The terminals.                                                          *)
Dial(p) ==
  /\ peer[p] = "none"
  /\ status[p] = "WAITCONN"
  /\ peer' = [peer EXCEPT ![p] = "calling"]
  /\ UNCHANGED <<ringVars, status, doIn, wire, typed, todo, left, leftPort, perKey>>

(* A client that goes may leave what it sent behind, or take it along.     *)
HangUp(p) ==
  /\ peer[p] \in {"calling", "up"}
  /\ peer' = [peer EXCEPT ![p] = "gone"]
  /\ \/ UNCHANGED <<wire, typed>>
     \/ /\ wire' = [wire EXCEPT ![p] = <<>>]
        /\ typed' = [typed EXCEPT ![p] =
             (@ + Stamps - Len(wire[p])) % Stamps]
  /\ UNCHANGED <<ringVars, status, doIn, todo, left, leftPort, perKey>>

(* The characters of port p that no ring holds yet.                        *)
UnderWay(p) == (IF prod.port = p THEN prod.bytes ELSE <<>>)
               \o (IF leftPort = p THEN CharsOf(left) ELSE <<>>)
               \o CharsOf(wire[p])

(* The bytes of a packet, stamped one after the other.                     *)
Packet(p, keys) ==
  [k \in DOMAIN keys |->
     [char |-> <<p, (typed[p] + k - 1) % Stamps>>, more |-> keys[k]]]

(* A byte that is a key of its own.                                        *)
Single(keys, k) == ~keys[k] /\ (k = 1 \/ ~keys[k - 1])

(* Without FillsUnlocked a terminal whose characters may be queued one by  *)
(* one types only as many as its ring has room for.                        *)
Send(p, keys) ==
  /\ peer[p] = "up"
  /\ wire[p] = <<>>
  /\ Len(UnderWay(p)) + Len(keys) <= MaxUnderWay
  /\ \/ FillsUnlocked
     \/ \A k \in DOMAIN keys : ~Single(keys, k)
     \/ \A q \in Ports : q <= p => ~doIn[q]
     \/ NumItems(p) + Len(UnderWay(p)) + Len(keys) < Size
  /\ wire' = [wire EXCEPT ![p] = Packet(p, keys)]
  /\ typed' = [typed EXCEPT ![p] = (@ + Len(keys)) % Stamps]
  /\ UNCHANGED <<ringVars, status, doIn, peer, todo, left, leftPort, perKey>>

-----------------------------------------------------------------------------
(* The poll thread, between two of its calls into the ring buffer.         *)
Idle == prod.pc = "idle" /\ left = <<>>

HasEvent(p) ==
  \/ status[p] = "WAITCONN" /\ peer[p] \in {"calling", "gone"}
  \/ status[p] = "OPEN" /\ (wire[p] # <<>> \/ peer[p] = "gone")

(* pfds and portIdx hold the ports that are not closed, in order; each     *)
(* entry here is an index into them with the port.                         *)
Listed     == {p \in Ports : status[p] # "CLOSED"}
IndexOf(p) == Cardinality({q \in Listed : q < p})

Poll ==
  /\ Idle /\ todo = {}
  /\ todo' = {[index |-> IndexOf(p), port |-> p] : p \in {q \in Listed : HasEvent(q)}}
  /\ todo' # {}
  /\ UNCHANGED <<ringVars, status, doIn, peer, wire, typed, left, leftPort, perKey>>

(* sock_setupListen after the close of the old socket: a socket that       *)
(* cannot be set up leaves the port closed for good.                       *)
Relisten(p) ==
  /\ \E s \in {"WAITCONN", "CLOSED"} : status' = [status EXCEPT ![p] = s]
  /\ peer' = [peer EXCEPT ![p] = "none"]
  /\ UNCHANGED <<wire, left, leftPort, perKey>>

Accept(p) ==
  \/ /\ status' = [status EXCEPT ![p] = "OPEN"]
     /\ peer' = [peer EXCEPT ![p] = IF @ = "calling" THEN "up" ELSE @]
     /\ UNCHANGED <<wire, left, leftPort, perKey>>
  \/ Relisten(p)

(* faulty: the ring is looked up with the index as well *)
ReceiveByIndex(e) ==
  /\ left' = wire[e.port]
  /\ leftPort' = e.index
  /\ perKey' = (e.index \in Ports /\ doIn[e.index])
  /\ wire' = [wire EXCEPT ![e.port] = <<>>]
  /\ UNCHANGED <<status, peer>>

(* The setting is looked up with the index, not with the port.             *)
Receive(e) ==
  /\ left' = wire[e.port]
  /\ leftPort' = e.port
  /\ perKey' = (e.index \in Ports /\ doIn[e.index])
  /\ wire' = [wire EXCEPT ![e.port] = <<>>]
  /\ UNCHANGED <<status, peer>>

Handle ==
  /\ Idle
  /\ \E e \in todo :
       /\ \A f \in todo : e.index <= f.index
       /\ todo' = todo \ {e}
       /\ \/ status[e.port] = "WAITCONN" /\ Accept(e.port)
          \/ status[e.port] = "OPEN" /\ wire[e.port] # <<>> /\ Receive(e)
          \/ status[e.port] = "OPEN" /\ wire[e.port] = <<>> /\ Relisten(e.port)
  /\ UNCHANGED <<ringVars, doIn, typed>>

(* translateAndAdd queues a plain character at once and the bytes of a key *)
(* under the mutex; without translation the whole packet is one call.      *)
IsCall(n) ==
  /\ perKey => \A k \in 1 .. n - 1 : left[k].more
  /\ n = Len(left) \/ (perKey /\ ~left[n].more)

NextCall ==
  /\ \E n \in DOMAIN left :
       /\ IsCall(n)
       /\ Queue(leftPort, CharsOf(SubSeq(left, 1, n)), ~perKey \/ n > 1)
       /\ left' = SubSeq(left, n + 1, Len(left))
  /\ UNCHANGED <<status, doIn, peer, wire, typed, todo, leftPort, perKey>>

-----------------------------------------------------------------------------
Terminals == \/ \E p \in Ports : Dial(p) \/ HangUp(p)
             \/ \E p \in Typists, keys \in Packets : Send(p, keys)
EntersCrit == Enter /\ UNCHANGED sockVars
PollThread == \/ Poll \/ Handle \/ NextCall
              \/ (TestFull \/ Evict \/ Place) /\ UNCHANGED sockVars
AsksPort   == \E p \in Typists : GetChar(p) /\ UNCHANGED sockVars
Dequeues   == ConsStep /\ UNCHANGED sockVars

SockNext == Terminals \/ EntersCrit \/ PollThread \/ AsksPort \/ Dequeues
SockSpec == SockInit /\ [][SockNext]_allVars

(***************************************************************************)
(* Both threads run on.  A mutex of the C library is not fair to a waiting *)
(* thread, but the emulator's thread leaves it for whole instructions      *)
(* between two calls, so that a poll thread that waits for it gets it.     *)
(***************************************************************************)
FairSockSpec == /\ SockSpec
                /\ SF_allVars(EntersCrit)
                /\ WF_allVars(PollThread)
                /\ WF_allVars(Dequeues)

-----------------------------------------------------------------------------
SockTypeOK ==
  /\ status \in [Ports -> {"WAITCONN", "OPEN", "CLOSED"}]
  /\ doIn \in [Ports -> BOOLEAN]
  /\ peer \in [Ports -> {"none", "calling", "up", "gone"}]
  /\ wire \in [Ports -> Seq(Byte)]
  /\ typed \in [Ports -> 0 .. Stamps - 1]
  /\ \A e \in todo : e.port \in Ports
  /\ left \in Seq(Byte) /\ leftPort \in Ports /\ perKey \in BOOLEAN

Line(p) == Contents(p) \o UnderWay(p)

(* What waits for a port, in its ring, in the poll thread and on the wire, *)
(* is what was typed for this port last, in order and without gaps, though *)
(* ports come and go from the table of sock_poll.                          *)
InOrder(p, last, line) ==
  \A k \in 1 .. Len(line) :
    line[k] = <<p, (last + Stamps - Len(line) + k - 1) % Stamps>>
OwnCharacters == \A p \in Ports : InOrder(p, typed[p], Line(p))

(* Why that is so: the stamps do not run out, and a call that has returned *)
(* has queued all it was called for.                                       *)
SockInv ==
  /\ SockTypeOK
  /\ prod.pc = "idle" => prod.bytes = <<>>
  /\ \A p \in Ports : Len(UnderWay(p)) <= MaxUnderWay
  /\ OwnCharacters

(* Every packet is received and every caller answered in the end, however  *)
(* the emulator's thread and the other ports keep the poll thread busy,    *)
(* unless the port could not be opened again (sock_poll).                  *)
InputTaken ==
  \A p \in Ports : /\ []<>(wire[p] = <<>>)
                   /\ []<>(peer[p] # "calling")
=============================================================================

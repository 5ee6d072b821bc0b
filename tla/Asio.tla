-------------------------------- MODULE Asio --------------------------------
(***************************************************************************)
(* The asio library as the TCP, HTTP and UDP servers and the schedule use  *)
(* it: s.pending are the operations that wait, s.ready the handlers in the *)
(* io_service's queue, each with the result of its operation.  And         *)
(* CarpUdpServer, which the relays use as they use the library.            *)
(***************************************************************************)
EXTENDS SequencesExt, Integers

(* `of` is the connection, or the number of the acceptor or timer; `step`  *)
(* is what is read or written, or the error count of an accept.            *)
Op(kind, of, step) == [kind |-> kind, of |-> of, step |-> step]

Ended(op, failed) == [op |-> op, failed |-> failed]

Begin(s, op) == [s EXCEPT !.pending = Append(@, op)]

(* The elements of a sequence that are at the given places: SelectSeq, in  *)
(* a form that can be reasoned about.                                      *)
Those(seq, places) ==
    LET upTo[k \in 0..Len(seq)] ==
            IF k = 0 THEN <<>>
            ELSE IF k \in places THEN Append(upTo[k - 1], seq[k]) ELSE upTo[k - 1]
    IN  upTo[Len(seq)]

(* What waits on an object that is closed or cancelled fails.              *)
Abort(s, kind, of) ==
    LET hit == {i \in DOMAIN s.pending : s.pending[i].kind = kind /\ s.pending[i].of = of}
        aborted == Those(s.pending, hit)
    IN  [s EXCEPT !.pending = Those(@, DOMAIN @ \ hit),
                  !.ready = @ \o [i \in DOMAIN aborted |-> Ended(aborted[i], TRUE)]]

(* An operation of the i-th that waits ends.                               *)
End(s, i, failed) ==
    [s EXCEPT !.pending = Those(@, DOMAIN @ \ {i}),
              !.ready = Append(@, Ended(s.pending[i], failed))]

Crash(s) == [s EXCEPT !.fate = "crashed"]

(* The operations of a connection that its handlers have yet to hear of.   *)
Operations(ops, kinds, n) ==
    Those(ops, {i \in DOMAIN ops : ops[i].kind \in kinds /\ ops[i].of = n})

OutstandingOf(s, kinds, n) ==
    Operations(s.pending, kinds, n)
      \o Operations([i \in DOMAIN s.ready |-> s.ready[i].op], kinds, n)

-----------------------------------------------------------------------------
(* CarpUdpServer (carp_udp_server.hpp).  The relays make a new one for     *)
(* each address, so that s.udp is the sequence of those made.  A datagram  *)
(* that a socket has received is posted once more before it is handed to   *)
(* the relay.                                                              *)

(* `deaf` is history: it has received a datagram as large as its buffer.   *)
NewSocket == [m_socket |-> TRUE, deaf |-> FALSE]

(* A datagram is [from, password]; Nothing has been received yet.          *)
Nothing == [from |-> 0, password |-> ""]

NextReadUdp(s, u) ==
    IF s.udp[u].m_socket THEN Begin(s, Op("receive", u, Nothing)) ELSE s

(* The number of the one that is started. *)
StartUdp(s) ==
    LET u == Len(s.udp) + 1
    IN  NextReadUdp([s EXCEPT !.udp = Append(@, NewSocket)], u)

CloseUdp(s, u) ==
    IF u = 0 THEN s ELSE Abort([s EXCEPT !.udp[u].m_socket = FALSE], "receive", u)

(* A receive ends with a datagram. *)
Receive(s, i, datagram) ==
    LET u == s.pending[i].of
    IN  [s EXCEPT !.pending = Those(@, DOMAIN @ \ {i}),
                  !.ready = Append(@, Ended(Op("receive", u, datagram), FALSE))]

HandleNextRead(s, u, datagram, failed, oversize) ==
    IF failed THEN NextReadUdp(s, u)
    ELSE IF oversize THEN [s EXCEPT !.udp[u].deaf = TRUE]
    ELSE NextReadUdp([s EXCEPT !.ready = Append(@, Ended(Op("data", u, datagram), FALSE))], u)

(* Send of one whose socket is null, or of no one, ends the program.       *)
MaySend(s, u) == u # 0 /\ s.udp[u].m_socket

(* A socket that is open has one read under way, or the handler of one is  *)
(* queued, unless it is deaf.                                              *)
Listens(s, u) ==
    LET reads == Len(OutstandingOf(s, {"receive"}, u))
    IN  u # 0 => reads = (IF s.udp[u].deaf THEN 0 ELSE 1)
=============================================================================

--------------------------- MODULE ConnectClient ---------------------------
(***************************************************************************)
(* CarpConnectClient (carp_connect_client.hpp): a TCP connection that      *)
(* reads messages of a head and a body and writes pockets one at a time.   *)
(* The peer and the asio library are external.  The client is a record of  *)
(* its fields; a member function is an operator from the record to the     *)
(* record, or the records, it leaves behind, so that the calls nest as     *)
(* they do in the code, the application's calls in its callbacks included. *)
(*                                                                         *)
(* A handler is bound to the client and not to the socket whose operation  *)
(* it ends: a handler of an earlier connection acts on the present one.    *)
(***************************************************************************)
EXTENDS Naturals, Sequences, FiniteSets

CONSTANT Limits     \* how often what happens in a behaviour: see SmallLimits

ASSUME LimitsAssumption ==
    Limits \subseteq [connects : Nat, closes : Nat, pockets : Nat, frames : Nat]

VARIABLE client

vars == <<client>>

NoWire == [up |-> FALSE, broken |-> FALSE, sent |-> 0, units |-> <<>>]

Init ==
  \E limit \in Limits :
    client = [limit |-> limit,
              m_is_connecting |-> FALSE,
              m_is_connected |-> FALSE,
              socket |-> 0,          \* sockets are numbered; 0 is null
              open |-> FALSE,
              m_memory |-> 0,        \* number of the message it holds, or 0
              m_pocket_list |-> <<>>,  \* each with its socket
              m_executing |-> FALSE,
              reads |-> <<>>,        \* operations that wait on the socket:
              output |-> <<>>,       \* reads, and what waits to write
              ready |-> <<>>,        \* handlers in the io_service's queue
              wire |-> NoWire,       \* what the peer has done
              connects |-> 0, closes |-> 0, pockets |-> 0,
              got |-> <<>>,          \* history: messages handed over
              lost |-> 0,            \* history: calls of m_disconnected_func
                                     \* since m_succeed_func was called
              orderly |-> TRUE,      \* history: see Connect and SendPocket
              settled |-> TRUE,      \* history: see Connect
              in_message |-> FALSE,  \* m_message_func is being called
              fate |-> "running"]

-----------------------------------------------------------------------------
(* asio: an operation waits on its socket in one of two queues, and fails  *)
(* at once on a socket that is closed.  Handlers run in the order in which *)
(* the operations ended.  An operation's item is what it moves: <<"head",  *)
(* number, has a body>> or <<"body", number, FALSE>> from the peer,        *)
(* <<"buffer", number, FALSE>> is the memory for a body and <<"pocket",    *)
(* socket, FALSE>> what was submitted while that socket was the client's.  *)

Nothing == <<"none", 0, FALSE>>

Reads == {"head", "body"}
Output == {"connect", "write"}

Operation(kind, item) == [kind |-> kind, item |-> item]

Ended(kind, item, failed) == [kind |-> kind, item |-> item, failed |-> failed]

Aborted(op) == Ended(op.kind, op.item, TRUE)

AllAborted(ops) == [i \in 1..Len(ops) |-> Aborted(ops[i])]

Handler(c, op) == [c EXCEPT !.ready = Append(@, op)]

BeginRead(c, kind, item) ==
    IF c.open THEN [c EXCEPT !.reads = Append(@, Operation(kind, item))]
              ELSE Handler(c, Ended(kind, item, TRUE))

BeginOutput(c, kind, item) ==
    IF c.open THEN [c EXCEPT !.output = Append(@, Operation(kind, item))]
              ELSE Handler(c, Ended(kind, item, TRUE))

(* close() of a socket, or its destruction, aborts what waits on it: the   *)
(* reads first.                                                            *)
CloseSocket(c) ==
    [c EXCEPT !.open = FALSE, !.reads = <<>>, !.output = <<>>,
              !.ready = @ \o AllAborted(c.reads \o c.output)]

-----------------------------------------------------------------------------
(* The client's functions.                                                 *)

ClearPockets(c) == [c EXCEPT !.m_pocket_list = <<>>]

Close(c) ==
    CloseSocket([ClearPockets(c) EXCEPT !.m_executing = FALSE,
                                        !.m_is_connecting = FALSE,
                                        !.m_is_connected = FALSE])

(* A call of Connect that takes effect.  The old socket is destroyed.  The *)
(* call is orderly, whatever operations of earlier sockets are still queued*)
(* or running, unless one of them succeeds: its handler would go on with   *)
(* the new socket, as the one that is handing over a message does.  It is  *)
(* settled when none of them is left.                                      *)
Connect(c, valid) ==
    LET old == CloseSocket(c)
        new == [old EXCEPT
                  !.m_is_connecting = TRUE, !.socket = @ + 1,
                  !.open = valid, !.wire = NoWire, !.got = <<>>,
                  !.connects = @ + 1,
                  !.orderly = /\ @ /\ ~c.in_message
                              /\ \A i \in DOMAIN old.ready : old.ready[i].failed,
                  !.settled = @ /\ old.ready = <<>>]
    IN  BeginOutput(new, "connect", Nothing)

NextSend(c) ==
    IF c.m_pocket_list = <<>> \/ c.socket = 0
      THEN [c EXCEPT !.m_executing = FALSE]
      ELSE BeginOutput([c EXCEPT !.m_pocket_list = Tail(@)],
                       "write", Head(c.m_pocket_list))

SendUnlessSending(c) ==
    IF c.m_executing THEN c ELSE NextSend([c EXCEPT !.m_executing = TRUE])

(* A call of SendPocket is orderly while the client is connected.          *)
SendPocket(c) ==
    SendUnlessSending(
        [c EXCEPT !.m_pocket_list = Append(@, <<"pocket", c.socket, FALSE>>),
                  !.pockets = @ + 1,
                  !.orderly = @ /\ c.m_is_connected])

(* The calls the application may make, outside of and in callbacks.        *)
Calls(c) ==
    {d \in {[Close(c) EXCEPT !.closes = @ + 1]} : c.closes < c.limit.closes}
      \cup {d \in {Connect(c, valid) : valid \in BOOLEAN} :
              /\ c.connects < c.limit.connects
              /\ ~c.m_is_connected /\ ~c.m_is_connecting}
      \cup {d \in {SendPocket(c)} : c.pockets < c.limit.pockets}

(* In a callback the application makes up to two calls. *)
Callback(c) == {c} \cup Calls(c) \cup UNION {Calls(d) : d \in Calls(c)}

(* Mutant: the callback runs whether or not the client closed itself. *)
AlwaysByOther(c) == FALSE

ClosedBySelf(c) == ~c.m_is_connecting /\ ~c.m_is_connected

ExecuteDisconnectCallback(c) ==
    LET d == Close(c)
    IN  IF ClosedBySelf(c) THEN {d} ELSE Callback([d EXCEPT !.lost = @ + 1])

NextReadHead(c) == IF c.socket = 0 THEN c ELSE BeginRead(c, "head", Nothing)

(* Mutant: a client that has connected starts to read with its first       *)
(* pocket.                                                                 *)
ReadNothing(c) == c

(* HandleAsyncConnect marks the client as connected and starts to read.    *)
StartReading(c) == NextReadHead(c)

(* Mutant: an attempt that is over is not marked as over. *)
StillConnecting(c) == [c EXCEPT !.m_executing = FALSE]

AttemptOver(c) == [c EXCEPT !.m_is_connecting = FALSE, !.m_executing = FALSE,
                            !.m_is_connected = FALSE]

(* set_option throws on a socket that is closed, out of the io_service.    *)
HandleAsyncConnect(c, failed) ==
    LET d == AttemptOver(c)
    IN  IF failed THEN Callback(d)
        ELSE IF ~d.open THEN {[d EXCEPT !.fate = "thrown"]}
        ELSE Callback([StartReading([d EXCEPT !.m_is_connected = TRUE])
                         EXCEPT !.lost = 0])

(* ReadComplete hands the message over; then the next one is read.         *)
ReadComplete(c) ==
    {[d EXCEPT !.m_memory = 0, !.in_message = FALSE] :
        d \in Callback([c EXCEPT !.got = Append(@, c.m_memory),
                                 !.in_message = TRUE])}

CompleteAndReadOn(c) == {NextReadHead(d) : d \in ReadComplete(c)}

ReadFailed(c) == ExecuteDisconnectCallback([c EXCEPT !.m_memory = 0])

(* Mutant: the next head is asked for before the body.                     *)
ReadBodyAndHead(c, n) ==
    BeginRead(NextReadHead(c), "body", <<"buffer", n, FALSE>>)

ReadBody(c, n) == BeginRead(c, "body", <<"buffer", n, FALSE>>)

(* The unit a read of the head got is <<"head", number, has a body>> or,   *)
(* when reads overlap, some part of a body: then everything that follows   *)
(* is garbled.                                                             *)
HandleReadHead(c, failed, unit) ==
    IF failed THEN ReadFailed(c)
    ELSE IF unit[1] # "head" THEN {[c EXCEPT !.fate = "garbled"]}
    ELSE LET d == [c EXCEPT !.m_memory = unit[2]]
         IN  IF unit[3] THEN {ReadBody(d, unit[2])} ELSE CompleteAndReadOn(d)

HandleReadBody(c, failed, unit) ==
    IF failed THEN ReadFailed(c)
    ELSE IF unit[1] # "body" THEN {[c EXCEPT !.fate = "garbled"]}
    ELSE CompleteAndReadOn(c)

HandleSend(c, failed) ==
    IF failed THEN ExecuteDisconnectCallback(c) ELSE {NextSend(c)}

Handled(c, op) ==
    CASE op.kind = "connect" -> HandleAsyncConnect(c, op.failed)
      [] op.kind = "head" -> HandleReadHead(c, op.failed, op.item)
      [] op.kind = "body" -> HandleReadBody(c, op.failed, op.item)
      [] op.kind = "write" -> HandleSend(c, op.failed)
-----------------------------------------------------------------------------
(* Actions: the application, the io_service, the network and the peer.     *)

(* An exception or a garbled head ends what the model says.                *)
Running == client.fate = "running"

AppCall == Running /\ client' \in Calls(client)

RunHandler ==
    /\ Running /\ client.ready # <<>>
    /\ client' \in Handled([client EXCEPT !.ready = Tail(@)], Head(client.ready))

(* The first operation of a queue ends. *)
EndRead(item, failed) ==
    Handler([client EXCEPT !.reads = Tail(@)],
            Ended(Head(client.reads).kind, item, failed))

EndOutput(item, failed) ==
    Handler([client EXCEPT !.output = Tail(@)],
            Ended(Head(client.output).kind, item, failed))

Waits(queue) == queue # <<>>

(* Output waits for the connection: the connect is the first of its kind.  *)
Connecting ==
    Running /\ ~client.wire.up /\ ~client.wire.broken /\ Waits(client.output)

Established ==
    /\ Connecting
    /\ client' = [EndOutput(Nothing, FALSE) EXCEPT !.wire.up = TRUE]

Refused ==
    /\ Connecting
    /\ client' = [EndOutput(Nothing, TRUE) EXCEPT !.wire.broken = TRUE]

PeerSends(body) ==
    LET w == client.wire
        n == w.sent + 1
        head == <<"head", n, body>>
    IN  /\ Running /\ w.up /\ ~w.broken /\ client.open /\ n <= client.limit.frames
        /\ client' = [client EXCEPT
              !.wire.sent = n,
              !.wire.units = @ \o IF body THEN <<head, <<"body", n, FALSE>>>>
                                          ELSE <<head>>]

PeerCloses ==
    /\ Running /\ client.wire.up /\ ~client.wire.broken /\ client.open
    /\ client' = [client EXCEPT !.wire.broken = TRUE]

ReadArrives ==
    /\ Running /\ client.wire.up /\ client.wire.units # <<>> /\ Waits(client.reads)
    /\ client' = [EndRead(Head(client.wire.units), FALSE)
                    EXCEPT !.wire.units = Tail(@)]

(* What is left unread may be lost with the connection. *)
ReadFails ==
    /\ Running /\ client.wire.broken /\ Waits(client.reads)
    /\ client' = EndRead(Nothing, TRUE)

Write(failed) ==
    /\ Running /\ client.wire.up /\ Waits(client.output)
    /\ failed => client.wire.broken
    /\ client' = EndOutput(Head(client.output).item, failed)

(* Output that waited for a connection which was refused. *)
WriteRefused ==
    /\ Running /\ client.wire.broken /\ ~client.wire.up /\ Waits(client.output)
    /\ client' = EndOutput(Nothing, TRUE)

Next ==
    \/ AppCall \/ RunHandler
    \/ Established \/ Refused
    \/ \E body \in BOOLEAN : PeerSends(body)
    \/ PeerCloses
    \/ ReadArrives \/ ReadFails
    \/ \E failed \in BOOLEAN : Write(failed)
    \/ WriteRefused

(* The io_service's thread runs the handlers; a connect is answered or     *)
(* times out in the kernel; a read or a write on a broken connection ends. *)
ClientFairness ==
    /\ WF_vars(RunHandler)
    /\ WF_vars(Established \/ Refused)
    /\ WF_vars(ReadArrives \/ ReadFails)

Spec == Init /\ [][Next]_vars /\ ClientFairness

-----------------------------------------------------------------------------
(* The operations that are on their way in a queue or as a handler.        *)
Outstanding(queue, kinds) ==
    Len(queue) + Cardinality({i \in DOMAIN client.ready : client.ready[i].kind \in kinds})

(* For an application that keeps to the order, the messages it is handed   *)
(* are the first ones the peer has sent on this connection, each once and  *)
(* in order, and a body is read into the memory of its own head.           *)
FramesInOrder ==
    client.orderly =>
        /\ client.fate # "garbled"
        /\ client.got = [i \in 1..Len(client.got) |-> i]
        /\ \A i \in DOMAIN client.reads :
              client.reads[i].kind = "body" =>
                client.reads[i].item[2] = client.m_memory
        /\ \A i \in DOMAIN client.ready :
              client.ready[i].kind = "body" /\ ~client.ready[i].failed =>
                client.ready[i].item[2] = client.m_memory

(* While it is connected it has one read on its way: a second one would    *)
(* share m_message_head with the first, and without one it would neither   *)
(* get messages nor notice that the connection is lost.  One pocket is on  *)
(* its way exactly when m_executing says so, which holds the others back;  *)
(* none waits otherwise, and each was submitted for this connection.  So it*)
(* is although aborted operations of earlier sockets were queued when the  *)
(* client connected: their handlers end the attempt or come before its own.*)
OneOperationEach ==
    client.orderly /\ client.m_is_connected =>
        /\ Outstanding(client.reads, Reads) = 1
        /\ Outstanding(client.output, Output) = IF client.m_executing THEN 1 ELSE 0
        /\ client.m_pocket_list # <<>> => client.m_executing
        /\ \A i \in DOMAIN client.m_pocket_list :
              client.m_pocket_list[i][2] = client.socket
        /\ \A i \in DOMAIN client.output :
              client.output[i] = Operation("write", <<"pocket", client.socket, FALSE>>)

(* What carp_connect_client.hpp:157 says: although a broken connection is  *)
(* reported by its read and by its write, m_disconnected_func is not       *)
(* called twice for it, with no m_succeed_func between.                    *)
LossReportedOnce == client.lost <= 1

(* ... which is so for an application that keeps to the order and connects *)
(* when no handler of an earlier connection is left to run.                *)
OrderlyLossReportedOnce == client.orderly /\ client.settled => LossReportedOnce

Attempting == Running /\ client.m_is_connecting

Lost ==
    Running /\ client.orderly /\ client.m_is_connected /\ client.wire.broken

(* An attempt to connect comes to an end: it succeeds, fails or is closed. *)
(* And a client whose peer has ended the connection does not stay          *)
(* connected: its read ends, and the handler of that read closes the       *)
(* client.                                                                 *)
EndsNoticed == (Attempting ~> ~Attempting) /\ (Lost ~> ~Lost)
-----------------------------------------------------------------------------
(* Bounds of the runs. *)
Limit(connects, closes, pockets, frames) ==
    [connects |-> connects, closes |-> closes,
     pockets |-> pockets, frames |-> frames]

SmallLimits ==
    {Limit(2, 1, 2, 0),     \* pockets, and a client that connects again
     Limit(2, 1, 1, 1),     \* ... and gets a message
     Limit(2, 1, 0, 2),     \* ... or more of them
     Limit(1, 0, 0, 3)}     \* some messages

Reconnecting == {Limit(2, 0, 1, 0)}
=============================================================================

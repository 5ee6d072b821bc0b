--------------------------- MODULE ConnectServer ---------------------------
(***************************************************************************)
(* CarpConnectServerImpl and CarpConnectReceiver                           *)
(* (carp_connect_server.hpp): a server accepts TCP connections; a receiver *)
(* per connection reads messages, or frames of a WebSocket, and writes     *)
(* pockets one at a time.  The peers and the asio library are external.    *)
(*                                                                         *)
(* As in ConnectClient the program's state is one record, and a member     *)
(* function is an operator from the record to the record, or the set of    *)
(* records, that it leaves behind.                                         *)
(***************************************************************************)
EXTENDS Asio, FiniteSets, FiniteSetsExt

CONSTANTS Limits,       \* what may happen in a behaviour: see SmallLimits
          ErrorCount,   \* 100
          HeadSize,     \* CARP_PROTOCOL_HEAD_SIZE
          LikeG,        \* sizes of bodies whose first byte in a head is 'G'
          MESSAGE_BUFFER_SIZE

ASSUME ReaderAssumption == HeadSize \in Nat \ {0} /\ MESSAGE_BUFFER_SIZE \in Nat

ASSUME LimitsAssumption ==
    /\ ErrorCount \in Nat
    /\ \A limit \in Limits :
          limit.sizes \in Seq(Nat) /\ limit.frame \in Nat /\ limit.websockets \subseteq BOOLEAN

VARIABLE server

vars == <<server>>

-----------------------------------------------------------------------------
(* How CarpConnectReceiver puts messages together from the payloads of     *)
(* WebSocket frames: a payload may end anywhere in a head or a body and    *)
(* hold many of them.  The bytes are units <<number of the message, place, *)
(* size of the body>>; a head is HeadSize units, the first of which bears  *)
(* the size.                                                               *)

Unit(n, place, size) == <<n, place, size>>

(* What the peer sends: the n-th message has a body of sizes[n] units.     *)
Message(n, size) == [place \in 1..(HeadSize + size) |-> Unit(n, place, size)]

MessageSize(head) == head[1][3]

(* memcpy(memory + at, payload + r.offset, size) *)
Copied(memory, at, payload, offset, size) ==
    SubSeq(memory, 1, at) \o SubSeq(payload, offset + 1, offset + size)

ReadComplete(r) ==
    [r EXCEPT !.m_head_size = 0, !.m_body_size = 0, !.m_memory = <<>>,
              !.complete = Append(@, r.m_message_head \o r.m_memory)]

(* Mutant: the body that follows the head is taken to be the whole rest.   *)
TakeBodyRest(r, payload, need) ==
    LET remain == Len(payload) - r.offset
        got == [r EXCEPT !.m_memory = Copied(@, r.m_body_size, payload, r.offset, remain),
                         !.offset = @ + remain, !.m_body_size = @ + remain]
    IN  IF remain >= need THEN ReadComplete(got) ELSE got

(* What is left of the payload, or what the body still needs.              *)
TakeBody(r, payload, need) ==
    LET remain == Len(payload) - r.offset
        size == IF remain >= need THEN need ELSE remain
        got == [r EXCEPT !.m_memory = Copied(@, r.m_body_size, payload, r.offset, size),
                         !.offset = @ + size, !.m_body_size = @ + size]
    IN  IF remain >= need THEN ReadComplete(got) ELSE got

TakeHead(r, payload) ==
    LET remain == Len(payload) - r.offset
        need == HeadSize - r.m_head_size
        size == IF remain < need THEN remain ELSE need
        got == [r EXCEPT
                  !.m_message_head = Copied(@, r.m_head_size, payload, r.offset, size),
                  !.m_head_size = @ + size, !.offset = @ + size]
        body == MessageSize(got.m_message_head)
    IN  IF got.m_head_size < HeadSize THEN got
        ELSE IF body > MESSAGE_BUFFER_SIZE THEN [got EXCEPT !.refused = TRUE]
        ELSE IF body = 0 THEN ReadComplete(got)
        ELSE TakeBody([got EXCEPT !.m_memory = <<>>], payload, body)

(* One call of HandleWebSocketReadData; the next is its last statement.    *)
ReadOn(r, payload) ==
    IF r.refused \/ r.offset >= Len(payload) THEN r
    ELSE IF r.m_head_size < HeadSize THEN TakeHead(r, payload)
    ELSE TakeBody(r, payload, MessageSize(r.m_message_head) - r.m_body_size)

(* Every call takes a unit at least. *)
HandleWebSocketReadData(r, payload) ==
    LET after[calls \in 0..Len(payload)] ==
            IF calls = 0 THEN [r EXCEPT !.offset = 0, !.complete = <<>>]
                         ELSE ReadOn(after[calls - 1], payload)
    IN  after[Len(payload)]

-----------------------------------------------------------------------------
(* m_acceptor and m_heartbeat_timer are numbered by Start; 0 is null.      *)
Init ==
  \E limit \in Limits :
    server = [limit |-> limit,
              m_acceptor |-> 0,
              m_heartbeat_timer |-> 0,
              m_outer_set |-> {},
              receiver |-> <<>>,     \* in the order of the connections
              pending |-> <<>>,      \* operations
              ready |-> <<>>,        \* handlers in the io_service's queue
              starts |-> 0, closes |-> 0, sends |-> 0, errors |-> 0,
              early |-> FALSE,       \* history: heartbeats not at their time
              fate |-> "running"]

(* m_pocket_list counts the pockets up to Many.                            *)
Many == 2

NewReceiver(websocket) ==
    [m_message_head |-> <<>>, m_head_size |-> 0, m_memory |-> <<>>, m_body_size |-> 0,
     offset |-> 0,          \* in the payload
     complete |-> <<>>,     \* what ReadComplete has handed over
     refused |-> FALSE,
     m_socket |-> TRUE, m_is_websocket |-> FALSE, m_pocket_list |-> 0,
     m_executing |-> FALSE, frame |-> <<"none", 0>>,
     peer |-> [websocket |-> websocket, gone |-> FALSE, taken |-> 0],
     got |-> <<>>,          \* history: messages the application was given
     told |-> 0,            \* history: calls of HandleClientDisconnect
     closed |-> FALSE]      \* history: the application has closed it itself

-----------------------------------------------------------------------------
(* An operation on *m_socket.                                              *)
OnSocket(s, n, op) == IF s.receiver[n].m_socket THEN Begin(s, op) ELSE Crash(s)

-----------------------------------------------------------------------------
(* CarpConnectReceiver: closing and sending.                               *)

Close(s, n) ==
    LET cleared == [s EXCEPT !.receiver[n].m_pocket_list = 0,
                             !.receiver[n].m_executing = FALSE,
                             !.receiver[n].m_socket = FALSE]
    IN  Abort(Abort(cleared, "read", n), "write", n)

(* Which pockets are left when the list is longer than the model counts is *)
(* not known.                                                              *)
NextSend(s, n) ==
    LET r == s.receiver[n]
    IN  IF r.m_pocket_list = 0 \/ ~r.m_socket
          THEN {[s EXCEPT !.receiver[n].m_executing = FALSE]}
          ELSE {Begin([s EXCEPT !.receiver[n].m_pocket_list = left],
                      Op("write", n, "pocket")) :
                  left \in {r.m_pocket_list - 1} \cup
                             {k \in {Many} : r.m_pocket_list = Many}}

(* Mutant: a pocket is sent whether or not another is on its way. *)
SendAtOnce(s, n) == NextSend([s EXCEPT !.receiver[n].m_executing = TRUE], n)

SendUnlessSending(s, n) ==
    IF s.receiver[n].m_executing
      THEN {s} ELSE NextSend([s EXCEPT !.receiver[n].m_executing = TRUE], n)

(* m_is_connected, which Send tests, is never false.                       *)
SendPocket(s, n) ==
    SendUnlessSending(
        [s EXCEPT !.receiver[n].m_pocket_list = IF @ = Many THEN @ ELSE @ + 1], n)

-----------------------------------------------------------------------------
(* CarpConnectServerImpl: opening and closing.                             *)

NextAccept(s, error_count) ==
    IF s.m_acceptor = 0 THEN s
    ELSE Begin(s, Op("accept", s.m_acceptor, error_count))

Start(s) ==
    LET k == s.starts + 1
        started == [s EXCEPT !.m_acceptor = k, !.m_heartbeat_timer = k, !.starts = k]
    IN  NextAccept(Begin(started, Op("heartbeat", k, 0)), 0)

ReleaseTimer(s) ==
    [Abort(s, "heartbeat", s.m_heartbeat_timer) EXCEPT !.m_heartbeat_timer = 0]

CloseServer(s) ==
    LET cancelled == ReleaseTimer(Abort(s, "accept", s.m_acceptor))
        closed == FoldSet(LAMBDA n, t : Close(t, n), cancelled, s.m_outer_set)
    IN  [closed EXCEPT !.m_acceptor = 0, !.m_outer_set = {}]

-----------------------------------------------------------------------------
(* What the application may call, in callbacks as well.                    *)

CloseByApplication(s, n) == [Close(s, n) EXCEPT !.receiver[n].closed = TRUE]

Calls(s) ==
    {t \in {Start(s)} : s.m_acceptor = 0 /\ s.starts < s.limit.starts}
      \cup {[t EXCEPT !.closes = @ + 1] :
              t \in {u \in {CloseServer(s)} \cup
                           {CloseByApplication(s, n) : n \in DOMAIN s.receiver} :
                       s.closes < s.limit.closes}}
      \cup {[t EXCEPT !.sends = @ + 1] :
              t \in UNION {SendPocket(s, n) : n \in {k \in DOMAIN s.receiver :
                                                  s.sends < s.limit.sends}}}

Callback(s) == {s} \cup Calls(s)

HandleOuterDisconnected(s, n) ==
    Callback([Close(s, n) EXCEPT !.m_outer_set = @ \ {n},
                                 !.receiver[n].told = @ + 1])

-----------------------------------------------------------------------------
(* Reading.  The bytes that a read ends with are the peer's next ones.     *)

Read(s, n, step) == OnSocket(s, n, Op("read", n, step))

Stream(s) ==
    FlattenSeq([k \in DOMAIN s.limit.sizes |-> Message(k, s.limit.sizes[k])])

Left(s, n) == Len(Stream(s)) - s.receiver[n].peer.taken

Bytes(s, n, size) ==
    LET taken == s.receiver[n].peer.taken
    IN  SubSeq(Stream(s), taken + 1, taken + size)

With(s, n, r, size) ==
    [s EXCEPT !.receiver[n] = [r EXCEPT !.peer.taken = @ + size]]

(* The messages that ReadComplete hands over are posted to the io_service. *)
Posted(s, n) ==
    LET done == s.receiver[n].complete
    IN  [s EXCEPT !.receiver[n].complete = <<>>,
                  !.ready = @ \o [i \in DOMAIN done |->
                                    Ended(Op("message", n, done[i]), FALSE)]]

NextReadHeadBinary(s, n) ==
    IF s.receiver[n].m_socket THEN Read(s, n, "head") ELSE s

(* Mutant: nothing is read after a message without a body. *)
NextUnlessEmpty(s, n) == s

ReadOnAfterHead(s, n) == NextReadHeadBinary(s, n)

HandleReadHeadBinary(s, n) ==
    LET r == [s.receiver[n] EXCEPT !.m_message_head = Bytes(s, n, HeadSize)]
    IN  IF MessageSize(r.m_message_head) = 0
          THEN ReadOnAfterHead(Posted(With(s, n, ReadComplete(r), HeadSize), n), n)
          ELSE Read(With(s, n, r, HeadSize), n, "body")

HandleReadBodyBinary(s, n) ==
    LET size == MessageSize(s.receiver[n].m_message_head)
        r == [s.receiver[n] EXCEPT !.m_memory = Bytes(s, n, size)]
    IN  NextReadHeadBinary(Posted(With(s, n, ReadComplete(r), size), n), n)

(* The handshake goes on, is refused, or is answered, if there is a key,   *)
(* which the messages of a binary peer do not have.                        *)
HandleWebSocketHandShakeReceive(s, n) ==
    {Read(s, n, "handshake")} \cup HandleOuterDisconnected(s, n)
      \cup {t \in {OnSocket(s, n, Op("write", n, "answer"))} : s.receiver[n].peer.websocket}

(* The first byte tells a WebSocket's GET from a binary head, in which it  *)
(* is of the size: where it is a 'G' as well, what the peer sends is taken *)
(* for a handshake.                                                        *)
StartsWithG(s, n) ==
    s.receiver[n].peer.websocket \/ MessageSize(Bytes(s, n, HeadSize)) \in LikeG

HandleReadHeadFirst(s, n) ==
    IF StartsWithG(s, n)
      THEN HandleWebSocketHandShakeReceive(
             [s EXCEPT !.receiver[n].m_is_websocket = TRUE], n)
      ELSE {HandleReadHeadBinary(s, n)}

(* A frame is of a message, with some of the peer's bytes, or a control    *)
(* frame, whose payload is skipped; a close frame ends the connection.     *)
(* What follows its first two bytes depends on its length and its mask.    *)
Frames(s, n) ==
    {<<"message", size>> : size \in {k \in 0..s.limit.frame : k <= Left(s, n)}}
      \cup {<<"control", 0>>}

HandleNextWebSocketRead1(s, n) ==
    {Read([s EXCEPT !.receiver[n].frame = f], n, step) :
        f \in Frames(s, n), step \in {"length", "mark", "data"}}
      \cup HandleOuterDisconnected(s, n)

(* A length that is negative as a short or an int is refused.              *)
HandleNextWebSocketRead2(s, n) ==
    {Read(s, n, step) : step \in {"mark", "data"}} \cup HandleOuterDisconnected(s, n)

HandleNextWebSocketReadMark(s, n) == {Read(s, n, "data")}

HandleNextWebSocketReadData(s, n) ==
    LET f == s.receiver[n].frame
        r == HandleWebSocketReadData(s.receiver[n], Bytes(s, n, f[2]))
        t == Posted(With(s, n, r, f[2]), n)
    IN  IF f[1] = "control" THEN {Read(s, n, "frame")}
        ELSE IF r.refused THEN HandleOuterDisconnected(t, n)
        ELSE {Read(t, n, "frame")}

HandleRead(s, n, step, failed) ==
    IF failed THEN HandleOuterDisconnected(s, n)
    ELSE CASE step = "first" -> HandleReadHeadFirst(s, n)
           [] step = "head" -> {HandleReadHeadBinary(s, n)}
           [] step = "body" -> {HandleReadBodyBinary(s, n)}
           [] step = "handshake" -> HandleWebSocketHandShakeReceive(s, n)
           [] step = "frame" -> HandleNextWebSocketRead1(s, n)
           [] step = "length" -> HandleNextWebSocketRead2(s, n)
           [] step = "mark" -> HandleNextWebSocketReadMark(s, n)
           [] step = "data" -> HandleNextWebSocketReadData(s, n)

(* HandleWebSocketHandShakeSend and HandleSend.                            *)
HandleWritten(s, n, step, failed) ==
    IF failed THEN HandleOuterDisconnected(s, n)
    ELSE IF step = "answer" THEN {Read(s, n, "frame")}
    ELSE NextSend(s, n)

HandleClientMessage(s, n, message) ==
    Callback([s EXCEPT !.receiver[n].got = Append(@, message)])

-----------------------------------------------------------------------------
(* Accepting, and the heartbeat.                                           *)

HandleOuterConnect(s, websocket) ==
    LET n == Len(s.receiver) + 1
        connected == [s EXCEPT !.receiver = Append(@, NewReceiver(websocket)),
                               !.m_outer_set = @ \cup {n}]
    IN  Callback(Read(connected, n, "first"))

AcceptAfterError(s, error_count) ==
    IF error_count > ErrorCount THEN CloseServer(s)
                                ELSE NextAccept(s, error_count + 1)

(* remote_endpoint throws when the peer has gone already.                  *)
HandleAccept(s, error_count, failed) ==
    IF failed
      THEN {IF s.m_acceptor = 0 THEN s ELSE AcceptAfterError(s, error_count)}
      ELSE {Crash(s)} \cup
             {NextAccept(t, 0) : t \in UNION {HandleOuterConnect(s, websocket) :
                                               websocket \in s.limit.websockets}}

(* Whatever the error is, heartbeats are sent; the wait on the timer is    *)
(* aborted by expires_at.                                                  *)
ServerSendHeartbeat(s, failed) ==
    LET timer == s.m_heartbeat_timer
        early == failed /\ timer # 0 /\ s.m_outer_set # {}
        sent == FoldSet(LAMBDA n, S : UNION {SendPocket(t, n) : t \in S},
                        {[s EXCEPT !.early = @ \/ early]}, s.m_outer_set)
    IN  {IF timer = 0 THEN t
         ELSE Begin(Abort(t, "heartbeat", timer), Op("heartbeat", timer, 0)) :
           t \in sent}

Handled(s, op, failed) ==
    CASE op.kind = "accept" -> HandleAccept(s, op.step, failed)
      [] op.kind = "heartbeat" -> ServerSendHeartbeat(s, failed)
      [] op.kind = "read" -> HandleRead(s, op.of, op.step, failed)
      [] op.kind = "write" -> HandleWritten(s, op.of, op.step, failed)
      [] op.kind = "message" -> HandleClientMessage(s, op.of, op.step)

-----------------------------------------------------------------------------
(* Actions: the application, the io_service, and how operations end.       *)

Running == server.fate = "running"

AppCall == Running /\ server' \in Calls(server)

RunHandler ==
    LET h == Head(server.ready)
    IN  /\ Running /\ server.ready # <<>>
        /\ server' \in Handled([server EXCEPT !.ready = Tail(@)], h.op, h.failed)

Accepted ==
    Len(server.receiver) +
      Len(SelectSeq(server.ready, LAMBDA h : h.op.kind = "accept" /\ ~h.failed))

AcceptEnds(failed) ==
    /\ Running
    /\ IF failed THEN server.errors < server.limit.errors
                 ELSE Accepted < server.limit.clients
    /\ \E i \in DOMAIN server.pending :
          /\ server.pending[i].kind = "accept"
          /\ server' = [End(server, i, failed) EXCEPT
                          !.errors = IF failed THEN @ + 1 ELSE @]

TimerExpires ==
    /\ Running
    /\ \E i \in DOMAIN server.pending :
          server.pending[i].kind = "heartbeat" /\ server' = End(server, i, FALSE)

(* The peer has sent what a read waits for; of a WebSocket's handshake and *)
(* frames there is always more.                                            *)
Arrived(op) ==
    \/ server.receiver[op.of].peer.websocket
    \/ Left(server, op.of) > 0

TransferEnds(failed) ==
    /\ Running
    /\ \E i \in DOMAIN server.pending :
          LET op == server.pending[i]
          IN  /\ op.kind \in {"read", "write"}
              /\ server.receiver[op.of].peer.gone = failed
              /\ op.kind = "read" /\ ~failed => Arrived(op)
              /\ server' = End(server, i, failed)

PeerGoes(n) ==
    /\ Running
    /\ server.receiver[n].m_socket /\ ~server.receiver[n].peer.gone
    /\ server' = [server EXCEPT !.receiver[n].peer.gone = TRUE]

Next ==
    \/ AppCall \/ RunHandler
    \/ \E failed \in BOOLEAN : AcceptEnds(failed) \/ TransferEnds(failed)
    \/ TimerExpires
    \/ \E n \in DOMAIN server.receiver : PeerGoes(n)

Spec == Init /\ [][Next]_vars

-----------------------------------------------------------------------------
Outstanding(kinds, n) == OutstandingOf(server, kinds, n)

(* However the bytes are cut into frames, and control frames put between   *)
(* them, the application is handed the peer's messages, whole, each once   *)
(* and in order.                                                           *)
MessagesInOrder ==
    \A n \in DOMAIN server.receiver :
        LET got == server.receiver[n].got
        IN  /\ Len(got) <= Len(server.limit.sizes)
            /\ got = [k \in DOMAIN got |-> Message(k, server.limit.sizes[k])]

(* The end of a connection is reported by the operations that fail with    *)
(* it, a read and a write at most: HandleClientDisconnect is called twice  *)
(* for one receiver, but no more, whoever closes it and whatever is sent.  *)
ReportedByOperations ==
    \A n \in DOMAIN server.receiver :
        server.receiver[n].told + Len(Outstanding({"read", "write"}, n)) <= 2

(* A server that is open accepts, after errors and after it was closed and *)
(* started while the last accept had not been handled yet; and a receiver  *)
(* of it always reads, or answers the handshake, once at a time: so its    *)
(* loss will be noticed, and m_message_head is not read into twice.  Except*)
(* for one the application has closed itself: when it does so before a     *)
(* message is handled that has been read already, the reading ends in      *)
(* NextReadHeadBinary and the receiver stays for ever.                     *)
KeepsListening ==
    Running =>
      /\ server.m_acceptor # 0 =>
           \/ \E i \in DOMAIN server.pending : server.pending[i].kind = "accept"
           \/ \E i \in DOMAIN server.ready : server.ready[i].op.kind = "accept"
      /\ \A n \in DOMAIN server.receiver :
            LET reads == Outstanding({"read"}, n)
                writes == Outstanding({"write"}, n)
                answers == Those(writes, {i \in DOMAIN writes : writes[i].step = "answer"})
            IN  /\ Len(reads) + Len(answers) <= 1
                /\ n \in server.m_outer_set /\ ~server.receiver[n].closed =>
                      Len(reads) + Len(answers) = 1

(* ServerSendHeartbeat (line 1082): "the server sends heartbeats to the    *)
(* clients at intervals of some time", which are those of its timer.       *)
HeartbeatsAtIntervals == ~server.early
-----------------------------------------------------------------------------
(* Bounds of the runs. *)
Limit(clients, starts, closes, sends, errors, websockets, sizes, frame) ==
    [clients |-> clients, starts |-> starts, closes |-> closes, sends |-> sends,
     errors |-> errors, websockets |-> websockets, sizes |-> sizes, frame |-> frame]

SmallLimits ==
    {Limit(1, 1, 1, 1, 0, {FALSE}, <<1, 0>>, 0),        \* messages
     Limit(1, 1, 1, 0, 0, {FALSE}, <<3, 1>>, 0),        \* taken for a handshake
     Limit(1, 1, 0, 0, 0, {TRUE}, <<1, 0, 2>>, 5),      \* in frames
     Limit(1, 1, 0, 0, 0, {TRUE}, <<3, 0>>, 3),         \* too large a message
     Limit(1, 1, 1, 1, 0, {TRUE}, <<0>>, 2),            \* closed meanwhile
     Limit(2, 1, 1, 0, 0, {FALSE}, <<>>, 0),            \* two clients
     Limit(1, 2, 2, 0, 2, {FALSE}, <<>>, 0)}            \* closed and started

Restarted == {Limit(1, 2, 1, 0, 0, {FALSE}, <<>>, 0)}
=============================================================================

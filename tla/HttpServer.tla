----------------------------- MODULE HttpServer -----------------------------
(***************************************************************************)
(* CarpHttpServer with its CarpHttpReceiver and CarpHttpSender             *)
(* (carp_http_server.hpp): a connection carries one request, which the     *)
(* receiver reads, and one answer, which the application sends.  A file is *)
(* uploaded in a form, once the application has called StartReceiveFile.   *)
(* A heartbeat closes connections that have been waiting for too long.     *)
(*                                                                         *)
(* As in ConnectServer the program's state is one record, and a member     *)
(* function is an operator from the record to the record, or the set of    *)
(* records, that it leaves behind.  Connections are numbered.              *)
(***************************************************************************)
EXTENDS Asio, FiniteSets, FiniteSetsExt

CONSTANTS Limits,                       \* see MCServices
          ErrorCount,                   \* 100
          HTTP_HEAD_BUFFER_SIZE_MAX,
          HTTPS_RECEIVE_FILE_SIZE_MAX

VARIABLE server

vars == <<server>>

(* m_acceptor and m_heartbeat_timer are numbered by Start; 0 is null.  A   *)
(* connection has its receiver and its sender in the maps, or neither.     *)
Init ==
  \E limit \in Limits :
    server = [limit |-> limit,
              m_acceptor |-> 0,
              m_heartbeat_timer |-> 0,
              m_receiver_socket_map |-> {},
              connection |-> <<>>,
              pending |-> <<>>, ready |-> <<>>,     \* see Asio
              starts |-> 0, closes |-> 0, calls |-> 0, errors |-> 0,
              fate |-> "running"]

(* A time is "none" (0), "fresh" or "old", by heartbeat intervals.         *)
NewConnection ==
    [open |-> TRUE,                 \* its socket
     m_http_head |-> <<>>,
     m_http_buffer |-> <<>>,        \* what it holds of the body
     m_receive_time |-> "none",
     m_receive_size |-> 0,
     m_boundary_or_file |-> FALSE,
     m_boundary_temp |-> <<>>,
     m_file_path |-> FALSE,         \* it is set
     m_file |-> FALSE,              \* it is open
     m_is_sending |-> FALSE,
     m_end_time |-> "none",
     sending |-> -1,                \* units left of the sender's m_file
     peer |-> [gone |-> FALSE, taken |-> 0],
     written |-> <<>>,              \* what has been written to m_file
     asked |-> FALSE,               \* history: HandleHttpFileMessage
     started |-> FALSE,             \* history: StartReceiveFile
     handed |-> 0,                  \* history: HandleHttpMessage
     told |-> <<>>,                 \* history: HandleHttpFileCompletedMessage
     split |-> FALSE,               \* history: m_boundary_temp was read in pieces
     expired |-> FALSE]             \* history: closed by its heartbeat

-----------------------------------------------------------------------------
(* A multipart form as CarpHttpClientPost sends it, in units: a part ends  *)
(* its head with PART_END, as a request does with HEAD_END (both are an    *)
(* empty line), and LAST is the boundary that ends the form.  A value is   *)
(* a part of its own; `begin` is how long the head of the file's part is.  *)

Unit(kind, n) == <<kind, n>>

HEAD_LINE == Unit("head line", 0)
HEAD_END == Unit("head end", 0)
PART_LINE == Unit("part line", 0)
PART_END == Unit("part end", 0)
VALUE == Unit("value", 0)
LAST == Unit("last", 0)

Data(first, last) == [i \in 1..(last - first + 1) |-> Unit("data", first + i - 1)]

FileBegin(form) == [i \in 1..form.begin |-> PART_LINE] \o <<PART_END>>

Param(form) == IF form.value THEN <<PART_LINE, PART_END, VALUE>> ELSE <<>>

(* The file from m_start_size on.                                          *)
FormBody(form) ==
    Param(form) \o FileBegin(form) \o Data(form.start + 1, form.size) \o <<LAST>>

(* m_total_size is of the whole file, wherever it starts.                  *)
ContentLength(form) ==
    Len(Param(form)) + Len(FileBegin(form)) + form.size + Len(<<LAST>>)

-----------------------------------------------------------------------------
(* Closing.                                                                *)

CloseClient(s, n) ==
    Abort(Abort([s EXCEPT !.m_receiver_socket_map = @ \ {n},
                          !.connection[n].open = FALSE], "read", n), "write", n)

ExecuteRemoveCallBack(s, n) ==
    IF n \in s.m_receiver_socket_map THEN CloseClient(s, n) ELSE s

ReceiverClose(s, n) ==
    ExecuteRemoveCallBack([s EXCEPT !.connection[n].m_http_head = <<>>,
                                    !.connection[n].m_receive_time = "none",
                                    !.connection[n].m_file = FALSE], n)

SenderClose(s, n) ==
    ExecuteRemoveCallBack([s EXCEPT !.connection[n].sending = -1,
                                    !.connection[n].m_end_time = "none"], n)

-----------------------------------------------------------------------------
(* CarpHttpSender.                                                         *)

(* What is begun on a closed socket fails.                                 *)
BeginOn(s, n, op) ==
    IF s.connection[n].open THEN Begin(s, op)
                            ELSE [s EXCEPT !.ready = Append(@, Ended(op, TRUE))]

Write(s, n) == BeginOn(s, n, Op("write", n, "send"))

SendString(s, n) ==
    IF s.connection[n].m_is_sending THEN SenderClose(s, n)
    ELSE Write([s EXCEPT !.connection[n].m_is_sending = TRUE], n)

(* The file is missing, shorter than its start, or has some units to send. *)
SendFile(s, n) ==
    IF s.connection[n].m_is_sending THEN {SenderClose(s, n)}
    ELSE LET sending == [s EXCEPT !.connection[n].m_is_sending = TRUE]
         IN  {Write(sending, n), SenderClose(sending, n)}
               \cup {Write([sending EXCEPT !.connection[n].sending = size], n) : size \in 0..1}

HandleSend(s, n) ==
    IF s.connection[n].sending > 0
      THEN Write([s EXCEPT !.connection[n].sending = @ - 1], n)
      ELSE [s EXCEPT !.connection[n].sending = -1, !.connection[n].m_end_time = "fresh"]

HandleWritten(s, n, failed) == IF failed THEN SenderClose(s, n) ELSE HandleSend(s, n)

-----------------------------------------------------------------------------
(* CarpHttpServer: opening and closing.                                    *)

NextAccept(s, error_count) ==
    IF s.m_acceptor = 0 THEN s
    ELSE Begin(s, Op("accept", s.m_acceptor, error_count))

Start(s) ==
    LET k == s.starts + 1
        started == [s EXCEPT !.m_acceptor = k, !.m_heartbeat_timer = k, !.starts = k]
    IN  NextAccept(Begin(started, Op("heartbeat", k, 0)), 0)

(* The timer is released, which aborts its wait.                           *)
Close(s) ==
    LET released == Abort(Abort(s, "accept", s.m_acceptor), "heartbeat", s.m_heartbeat_timer)
        closed == FoldSet(LAMBDA n, t : CloseClient(t, n), released, s.m_receiver_socket_map)
    IN  IF s.m_acceptor = 0 THEN s
        ELSE [closed EXCEPT !.m_acceptor = 0, !.m_heartbeat_timer = 0]

-----------------------------------------------------------------------------
(* CarpHttpReceiver: reading.                                              *)

Read(s, n, step) == BeginOn(s, n, Op("read", n, step))

JustWait(s, n) == Read(s, n, "wait")

ReadNow(s, n, step) == Read([s EXCEPT !.connection[n].m_receive_time = "fresh"], n, step)

NextRead(s, n) == ReadNow(s, n, "head")
NextReadPost(s, n) == ReadNow(s, n, "post")
NextReadFile(s, n) == ReadNow(s, n, "file")

(* The position after an empty line, or 0.                                 *)
AfterLine(seq, line) ==
    LET at == {i \in DOMAIN seq : seq[i] = line} IN IF at = {} THEN 0 ELSE Min(at)

Prefix(seq, n) == SubSeq(seq, 1, n)

Rest(seq, n) == SubSeq(seq, n + 1, Len(seq))

HandleHttpFileCompletedMessage(s, n, success) ==
    [s EXCEPT !.connection[n].told = Append(@, success)]

FailFile(s, n) ==
    ReceiverClose(
        IF ~s.connection[n].m_file THEN s
        ELSE HandleHttpFileCompletedMessage(
               [s EXCEPT !.connection[n].m_file = FALSE,
                         !.connection[n].m_receive_time = "none"], n, FALSE), n)

(* Writing to a file that has been closed is the end of the program.       *)
HandleReadContent(s, n, buffer) ==
    LET size == s.connection[n].m_receive_size
        t == [s EXCEPT !.connection[n].written =
                          @ \o Prefix(buffer, IF size < Len(buffer) THEN size ELSE Len(buffer)),
                       !.connection[n].m_receive_size = size - Len(buffer)]
        ended == [t EXCEPT !.connection[n].m_file = FALSE,
                           !.connection[n].m_receive_time = "none"]
    IN  IF ~s.connection[n].m_file THEN Crash(s)
        ELSE IF size > Len(buffer) THEN NextReadFile(t, n)
        ELSE JustWait(HandleHttpFileCompletedMessage(ended, n, TRUE), n)

(* The head of the file's part, or of the form's first part.  What of it   *)
(* was read before the read that has its end is not taken off              *)
(* m_receive_size.                                                         *)
HandleReadBoundary(s, n, buffer) ==
    LET current == Len(s.connection[n].m_boundary_temp)
        temp == s.connection[n].m_boundary_temp \o buffer
        end == AfterLine(temp, PART_END)
        t == [s EXCEPT !.connection[n].m_boundary_temp = temp]
        file == [t EXCEPT !.connection[n].m_receive_size = @ - (end - current),
                          !.connection[n].m_boundary_or_file = FALSE,
                          !.connection[n].split = current > 0]
    IN  IF Len(temp) > HTTPS_RECEIVE_FILE_SIZE_MAX
          THEN ReceiverClose(HandleHttpFileCompletedMessage(t, n, FALSE), n)
        ELSE IF end = 0 THEN NextReadFile(t, n)
        ELSE IF end = Len(temp) \/ file.connection[n].m_receive_size <= 0
          THEN NextReadFile(file, n)
        ELSE HandleReadContent(file, n, Rest(temp, end))

HandleReadFile(s, n, buffer) ==
    LET c == s.connection[n]
    IN  IF c.m_receive_size <= 0 THEN NextReadFile(s, n)
        ELSE IF c.m_boundary_or_file THEN HandleReadBoundary(s, n, buffer)
        ELSE HandleReadContent(s, n, buffer)

(* It may be that the file cannot be opened.                               *)
StartReceiveFile(s, n) ==
    LET c == s.connection[n]
        t == [s EXCEPT !.connection[n].m_file_path = TRUE, !.connection[n].m_http_buffer = <<>>]
        opened == [t EXCEPT !.connection[n].m_file = TRUE, !.connection[n].started = TRUE]
    IN  IF c.m_file_path THEN {s}
        ELSE {t, IF c.m_http_buffer # <<>> THEN HandleReadFile(opened, n, c.m_http_buffer)
                                           ELSE NextReadFile(opened, n)}

-----------------------------------------------------------------------------
(* What the application may call, in callbacks as well.  A receiver that   *)
(* is not in the map and waits for no read exists no more.                 *)

Calls(s) ==
    LET all == DOMAIN s.connection
    IN  {t \in {Start(s)} : s.m_acceptor = 0 /\ s.starts < s.limit.starts}
          \cup {[t EXCEPT !.closes = @ + 1] :
                  t \in {u \in {Close(s)} : s.closes < s.limit.closes}}
          \cup {[t EXCEPT !.calls = @ + 1] :
                  t \in UNION {{SendString(s, n), SenderClose(s, n)} \cup SendFile(s, n) :
                                  n \in {k \in all : s.calls < s.limit.calls}}}
          \cup UNION {StartReceiveFile(s, n) :
                        n \in {k \in s.m_receiver_socket_map : s.connection[k].asked}}

Callback(s) == {s} \cup Calls(s)

HandleHttpMessage(s, n) ==
    {JustWait(t, n) :
        t \in Callback([s EXCEPT !.connection[n].m_receive_time = "none",
                                 !.connection[n].handed = @ + 1])}

(* Mutant: the request has been received, as a GET has, and may wait. *)
AskAtLeisure(s, n) ==
    LET asked == [s EXCEPT !.connection[n].asked = TRUE,
                           !.connection[n].m_receive_time = "none"]
    IN  {ReceiverClose(s, n)} \cup Callback(asked) \cup StartReceiveFile(asked, n)

(* The application receives the file, does so later, or does not.          *)
HandleHttpFileMessage(s, n) ==
    LET asked == [s EXCEPT !.connection[n].asked = TRUE]
    IN  {ReceiverClose(s, n)} \cup Callback(asked) \cup StartReceiveFile(asked, n)

(* Mutant: a body that came with the head is forgotten. *)
ReadAnyway(s, n, buffer) == {NextReadPost(s, n)}

HandleReadPost(s, n, buffer) ==
    LET t == [s EXCEPT !.connection[n].m_receive_size = @ - Len(buffer)]
    IN  IF t.connection[n].m_receive_size <= 0 THEN HandleHttpMessage(t, n)
                                               ELSE {NextReadPost(t, n)}

(* The request, by its method and, of a POST, the type of its content.     *)
HandleRequest(s, n, rest) ==
    LET request == s.limit.request
        size == IF request.method = "form" THEN ContentLength(request) - Len(<<LAST>>)
                                           ELSE request.size
        sized == [s EXCEPT !.connection[n].m_receive_size = size]
        form == [sized EXCEPT !.connection[n].m_boundary_or_file = TRUE,
                              !.connection[n].m_http_buffer = rest]
        wait == [s EXCEPT !.connection[n].m_receive_time = "none"]
    IN  CASE request.method = "GET" -> HandleHttpMessage(s, n)
          [] request.method = "POST" ->
               IF rest = <<>> THEN {NextReadPost(sized, n)} ELSE HandleReadPost(sized, n, rest)
          [] request.method = "form" -> HandleHttpFileMessage(form, n)
          [] request.method = "OPTIONS" -> {JustWait(SendString(wait, n), n)}
          [] OTHER -> {ReceiverClose(s, n)}

(* The size that is limited is that of the head and what came with it.     *)
HandleRead(s, n, buffer) ==
    LET head == s.connection[n].m_http_head \o buffer
        end == AfterLine(head, HEAD_END)
        t == [s EXCEPT !.connection[n].m_http_head = IF end = 0 THEN head ELSE Prefix(head, end)]
    IN  IF Len(head) > HTTP_HEAD_BUFFER_SIZE_MAX THEN {ReceiverClose(s, n)}
        ELSE IF end = 0 THEN {NextRead(t, n)}
        ELSE HandleRequest(t, n, Rest(head, end))

HandleReadOf(s, n, step, failed, buffer) ==
    LET now == [s EXCEPT !.connection[n].m_receive_time = "fresh"]
    IN  IF failed THEN {IF step = "file" THEN FailFile(s, n) ELSE ReceiverClose(s, n)}
        ELSE CASE step = "wait" -> {JustWait(s, n)}
               [] step = "head" -> HandleRead(now, n, buffer)
               [] step = "post" -> HandleReadPost(now, n, buffer)
               [] step = "file" -> {HandleReadFile(now, n, buffer)}

-----------------------------------------------------------------------------
(* Accepting, and the heartbeat.                                           *)

(* remote_endpoint throws when the peer has gone already.                  *)
HandleHandShake(s, failed) ==
    LET n == Len(s.connection) + 1
        connected == [s EXCEPT !.connection = Append(@, NewConnection),
                               !.m_receiver_socket_map = @ \cup {n}]
    IN  IF failed THEN {s} ELSE {Crash(s), NextRead(connected, n)}

(* A server that was closed meanwhile still takes the connection.          *)
HandleAccept(s, error_count, failed) ==
    IF failed
      THEN {IF error_count > ErrorCount THEN Close(s) ELSE NextAccept(s, error_count + 1)}
    ELSE {NextAccept(t, 0) :
            t \in IF s.limit.ssl THEN {Begin(s, Op("handshake", 0, 0))}
                                 ELSE HandleHandShake(s, FALSE)}

SenderHeartbeat(s, n) ==
    IF s.connection[n].m_end_time = "old" THEN SenderClose(s, n) ELSE s

ReceiverHeartbeat(s, n) ==
    IF s.connection[n].m_receive_time = "old"
      THEN [ReceiverClose(s, n) EXCEPT !.connection[n].expired = TRUE] ELSE s

(* The wait on the timer, if there is one, is aborted by expires_at.       *)
ServerSendHeartbeat(s) ==
    LET members == s.m_receiver_socket_map
        senders == FoldSet(LAMBDA n, t : SenderHeartbeat(t, n), s, members)
        all == FoldSet(LAMBDA n, t : ReceiverHeartbeat(t, n), senders,
                       senders.m_receiver_socket_map)
        timer == s.m_heartbeat_timer
    IN  IF timer = 0 THEN all
        ELSE Begin(Abort(all, "heartbeat", timer), Op("heartbeat", timer, 0))

Handled(s, op, failed) ==
    CASE op.kind = "accept" -> HandleAccept(s, op.step, failed)
      [] op.kind = "handshake" -> HandleHandShake(s, failed)
      [] op.kind = "heartbeat" -> {ServerSendHeartbeat(s)}
      [] op.kind = "write" -> {HandleWritten(s, op.of, failed)}
      [] op.kind = "read" ->
           UNION {HandleReadOf([s EXCEPT !.connection[op.of].m_http_buffer = <<>>],
                               op.of, op.step, failed, buffer) :
                    buffer \in {s.connection[op.of].m_http_buffer}}

-----------------------------------------------------------------------------
(* Actions: the application, the io_service, time, and the peers.          *)

Running == server.fate = "running"

AppCall == Running /\ server' \in Calls(server)

RunHandler ==
    LET h == Head(server.ready)
    IN  /\ Running /\ server.ready # <<>>
        /\ server' \in Handled([server EXCEPT !.ready = Tail(@)], h.op, h.failed)

Queued(kind) == Len(SelectSeq(server.ready, LAMBDA h : h.op.kind = kind /\ ~h.failed))

Waiting(kinds) == {i \in DOMAIN server.pending : server.pending[i].kind \in kinds}

AcceptEnds(failed) ==
    /\ Running
    /\ IF failed THEN server.errors < server.limit.errors
       ELSE Len(server.connection) + Queued("accept") + Queued("handshake")
              + Cardinality(Waiting({"handshake"})) < server.limit.clients
    /\ \E i \in Waiting({"accept"}) :
          server' = [End(server, i, failed) EXCEPT !.errors = IF failed THEN @ + 1 ELSE @]

HandShakeEnds(failed) ==
    /\ Running
    /\ \E i \in Waiting({"handshake"}) : server' = End(server, i, failed)

TimerExpires ==
    Running /\ \E i \in Waiting({"heartbeat"}) : server' = End(server, i, FALSE)

(* The time of a receiver, or of a sender, is an interval ago.             *)
Ages(n) ==
    /\ Running
    /\ \/ /\ server.connection[n].m_receive_time = "fresh"
          /\ server' = [server EXCEPT !.connection[n].m_receive_time = "old"]
       \/ /\ server.connection[n].m_end_time = "fresh"
          /\ server' = [server EXCEPT !.connection[n].m_end_time = "old"]

(* What the peer sends.                                                    *)
Stream(request) ==
    [i \in 1..(request.head - 1) |-> HEAD_LINE] \o <<HEAD_END>>
      \o IF request.method = "form" THEN FormBody(request) ELSE Data(1, request.size)

Left(n) == Len(Stream(server.limit.request)) - server.connection[n].peer.taken

Bytes(n, size) ==
    SubSeq(Stream(server.limit.request), server.connection[n].peer.taken + 1,
           server.connection[n].peer.taken + size)

Receives ==
    /\ Running
    /\ \E i \in Waiting({"read"}) :
          LET n == server.pending[i].of
          IN  \E size \in 1..HTTP_HEAD_BUFFER_SIZE_MAX :
                 /\ size <= Left(n)
                 /\ server' = [End(server, i, FALSE) EXCEPT
                                 !.connection[n].m_http_buffer = Bytes(n, size),
                                 !.connection[n].peer.taken = @ + size]

Sends ==
    /\ Running
    /\ \E i \in Waiting({"write"}) :
          /\ ~server.connection[server.pending[i].of].peer.gone
          /\ server' = End(server, i, FALSE)

TransferFails ==
    /\ Running
    /\ \E i \in Waiting({"read", "write"}) :
          LET n == server.pending[i].of
          IN  server.connection[n].peer.gone /\ server' = End(server, i, TRUE)

(* What it has sent may still be received.                                 *)
PeerGoes(n) ==
    /\ Running
    /\ server.connection[n].open /\ ~server.connection[n].peer.gone
    /\ server' = [server EXCEPT !.connection[n].peer.gone = TRUE]

Next ==
    \/ AppCall \/ RunHandler \/ TimerExpires \/ Receives \/ Sends \/ TransferFails
    \/ \E failed \in BOOLEAN : AcceptEnds(failed) \/ HandShakeEnds(failed)
    \/ \E n \in DOMAIN server.connection : Ages(n) \/ PeerGoes(n)

Spec == Init /\ [][Next]_vars

-----------------------------------------------------------------------------
Request == server.limit.request

Reads(n) == OutstandingOf(server, {"read"}, n)

(* However the bytes of a request are cut into reads, once the last one    *)
(* has been handled the application has been handed the request, or been   *)
(* told of the file, and never twice.  Except for a POST whose content is  *)
(* empty and an empty file, which are not complete before more is read; a  *)
(* file whose part has its head cut, of which the server expects more than *)
(* is sent; and an upload that is resumed, of which its client announces   *)
(* the whole file and sends the rest.                                      *)
RequestsHandled ==
    \A n \in DOMAIN server.connection :
        LET c == server.connection[n]
            over == n \in server.m_receiver_socket_map /\ Left(n) = 0 /\ c.m_http_buffer = <<>>
            more == Request.size = 0 \/ c.split \/ Request.start > 0
        IN  /\ c.handed <= 1
            /\ Running /\ over =>
                 CASE Request.method = "GET" -> c.handed = 1
                   [] Request.method = "POST" -> c.handed = 1 \/ Request.size = 0
                   [] Request.method = "form" -> ~c.m_file \/ more
                   [] OTHER -> c.m_is_sending

(* The file of a form that has nothing else, sent from its start.          *)
Plain == ~Request.value /\ Request.start = 0

(* A file that is received is reported once: by success when the file is   *)
(* what the client has sent, by failure when it could not be received, and *)
(* as long as it is open a read will tell.  Except when the heartbeat of   *)
(* the receiver closes the file, which it reports to nobody; a form that   *)
(* has a value before its file, which is written to the file with the head *)
(* of the file's part; a file whose part has its head cut; and an upload   *)
(* that is resumed.                                                        *)
UploadsAccounted ==
    \A n \in DOMAIN server.connection :
        LET c == server.connection[n]
        IN  /\ Len(c.told) <= 1
            /\ c.started /\ c.told = <<>> /\ Running =>
                  IF c.m_file THEN Len(Reads(n)) = 1 ELSE c.expired
            /\ c.told = <<TRUE>> /\ Plain /\ ~c.split => c.written = Data(1, Request.size)

(* HandleRead (line 196): "dec boundary size at last line", so that what   *)
(* is received as the file is the file, without the form's last line.      *)
UploadsWithoutLastLine ==
    \A n \in DOMAIN server.connection :
        LAST \notin {server.connection[n].written[i] : i \in DOMAIN server.connection[n].written}

(* A connection of a server that is open is read from, by one read at a    *)
(* time, or its heartbeat will close it: none is kept for ever after its   *)
(* peer has gone, whatever has failed and whoever has been asked.          *)
ConnectionsWatched ==
    Running =>
        \A n \in server.m_receiver_socket_map :
            /\ Len(Reads(n)) <= 1
            /\ server.m_acceptor # 0 /\ Reads(n) = <<>> =>
                  server.connection[n].m_receive_time # "none"
=============================================================================

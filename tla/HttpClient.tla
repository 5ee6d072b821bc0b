----------------------------- MODULE HttpClient -----------------------------
(***************************************************************************)
(* CarpHttpClientText and CarpHttpClientPost (carp_http_client.hpp): a     *)
(* request is a chain of asynchronous operations, one after another, each  *)
(* of which may fail or be aborted by Stop.  The two classes are the same  *)
(* text but for what they send and how they read the response; `class`     *)
(* tells them apart.  The server, the resolver and asio are external.      *)
(*                                                                         *)
(* A response is a sequence of units: HEAD_END ends the head, SIZE(n) is a *)
(* chunk's size line but for its end, and the rest are data.               *)
(***************************************************************************)
EXTENDS Integers, Sequences, SequencesExt

CONSTANTS Requests,     \* what is asked and what is answered: see MCServices
          HEAD_BUFFER_SIZE      \* CARP_NET_HTTP_HEAD_BUFFER_SIZE

VARIABLE client

Unit(kind, n) == <<kind, n>>

CR == Unit("cr", 0)
LF == Unit("lf", 0)
SPACE == Unit("space", 0)
HEAD_LINE == Unit("head line", 0)
HEAD_END == Unit("head end", 0)

Body(n) == [i \in 1..n |-> Unit("data", i)]

(* A body of n units in chunks of the given sizes.                         *)
Chunks(body, sizes, space) ==
    LET start[k \in 1..(Len(sizes) + 1)] ==
            IF k = 1 THEN 1 ELSE start[k - 1] + sizes[k - 1]
        Line(n) == IF space THEN <<Unit("size", n), SPACE, CR, LF>>
                            ELSE <<Unit("size", n), CR, LF>>
        Chunk(k) == Line(sizes[k]) \o SubSeq(body, start[k], start[k + 1] - 1) \o <<CR, LF>>
    IN  FlattenSeq([k \in DOMAIN sizes |-> Chunk(k)]) \o Line(0) \o <<CR, LF>>

(* The response of the server, by its type.                                *)
Response(req) ==
    <<HEAD_LINE, HEAD_END>> \o
      IF req.type = "chunk" THEN Chunks(Body(req.size), req.chunks, req.space)
                            ELSE Body(req.size)

Init ==
  \E req \in Requests :
    client = [req |-> req,
              sent |-> FALSE,
              m_completed |-> FALSE,
              m_stopped |-> FALSE,
              open |-> FALSE,           \* m_socket is
              secured |-> FALSE,        \* the TLS handshake is done
              blocked |-> FALSE,        \* Stop has not returned
              op |-> "none",            \* the operation under way
              ended |-> "no",           \* "ok" or "failed": its handler is queued
              m_http_buffer |-> <<>>,   \* what the read has got
              taken |-> 0,              \* units that the server has sent
              endpoints |-> 0,          \* left to try
              m_file |-> 0,             \* units of the file that are read
              m_head |-> <<>>,
              m_chunk_size |-> <<>>,
              m_response_size |-> 0,
              m_response |-> <<>>,
              told |-> 0,               \* history: calls of m_complete_callback
              result |-> <<FALSE, <<>>>>,
              split |-> FALSE]          \* history: a read ended within a CR LF

-----------------------------------------------------------------------------
Complete(c, ok, content) ==
    [c EXCEPT !.m_completed = TRUE, !.told = @ + 1, !.result = <<ok, content>>,
              !.op = "none", !.ended = "no"]

Fail(c) == {Complete(c, FALSE, <<>>)}

SocketOps == {"handshake", "head", "content", "param", "file_begin", "file", "file_end",
              "response", "length", "chunk", "follow"}

(* An operation on a socket that Stop has closed fails.                    *)
Begin(c, op) ==
    [c EXCEPT !.op = op,
              !.ended = IF op \in SocketOps /\ ~c.open THEN "failed" ELSE "no"]

(* CARPHTTPSOCKET_AsyncConnect opens the socket, even one that is closed.  *)
BeginConnect(c) == [Begin(c, "connect") EXCEPT !.open = TRUE, !.endpoints = @ - 1]

-----------------------------------------------------------------------------
(* The socket is closed and what waits on it fails.  A query is done with  *)
(* when the system has answered it, cancelled or not.                      *)
Abort(c) ==
    LET waits == c.ended = "no" /\ c.op \in SocketOps \cup {"connect"}
    IN  [c EXCEPT !.m_stopped = TRUE, !.open = FALSE,
                  !.ended = IF waits THEN "failed" ELSE @]

(* The shutdown of a TLS stream waits for the answer of the server.        *)
Stop(c) ==
    IF c.m_completed \/ c.m_stopped THEN {c}
    ELSE {Abort(c)} \cup
           {[d EXCEPT !.m_stopped = TRUE, !.blocked = TRUE] : d \in {e \in {c} : e.secured}}

(* A URL without a domain is refused, and so is a file that cannot be      *)
(* opened by GeneratePostRequest.                                          *)
SendRequest(c) ==
    IF ~c.req.url \/ (c.req.class = "Post" /\ c.req.file = "missing")
      THEN Fail(c)
      ELSE {Begin([c EXCEPT !.sent = TRUE], "resolve")}

-----------------------------------------------------------------------------
(* Reading the response; `buffer` is what the read has got, from           *)
(* buffer_offset on.  The body goes to m_response, or to the file.         *)

Drop(buffer, n) == SubSeq(buffer, n + 1, Len(buffer))

Find(seq, pattern) ==
    LET at == {i \in 1..(Len(seq) - Len(pattern) + 1) :
                 SubSeq(seq, i, i + Len(pattern) - 1) = pattern}
    IN  IF at = {} THEN -1 ELSE (CHOOSE i \in at : \A j \in at : i <= j) - 1

Succeeded(c) == c.req.class = "Post" \/ c.req.status = "200"

Read(c, op) == {Begin(c, op)}

HandleResponseByContentLength(c, buffer) ==
    LET r == [c EXCEPT !.m_response_size = @ - Len(buffer),
                       !.m_response = @ \o buffer]
        progress == c.req.class = "Text" /\ c.req.to_file /\ c.req.size > 0
    IN  UNION {IF s.m_response_size <= 0 THEN {Complete(s, Succeeded(s), s.m_response)}
                                         ELSE Read(s, "length") :
               s \in {r} \cup (IF progress THEN Stop(r) ELSE {})}

(* Mutant: all of the rest is taken to be of the chunk. *)
TakeAll(c, buffer) ==
    [c |-> [c EXCEPT !.m_response = @ \o buffer, !.m_response_size = 0], rest |-> <<>>]

TakeData(c, buffer) ==
    LET size == IF Len(buffer) <= c.m_response_size THEN Len(buffer) ELSE c.m_response_size
    IN  [c |-> [c EXCEPT !.m_response = @ \o SubSeq(buffer, 1, size),
                         !.m_response_size = @ - size],
         rest |-> Drop(buffer, size)]

(* CR LF after a chunk.  CarpHttpClientText does not take off what an      *)
(* earlier read has got of it.                                             *)
EndOfChunk(c, buffer) ==
    LET add == IF c.req.class = "Post" THEN 2 - Len(c.m_chunk_size) ELSE 2
    IN  [c |-> [c EXCEPT !.m_chunk_size = <<>>, !.split = @ \/ c.m_chunk_size # <<>>],
         rest |-> Drop(buffer, add)]

RECURSIVE HandleResponseByChunk(_, _)

(* It calls itself for what is left of the buffer.  pos is the end of the  *)
(* number in the size line.                                                *)
HandleResponseByChunk(c, buffer) ==
    LET line == c.m_chunk_size \o buffer
        eol == Find(line, <<CR, LF>>)
        space == Find(line, <<SPACE>>)
        pos == IF space # -1 /\ space < eol THEN space ELSE eol
        valid == pos = 1 /\ line[1][1] = "size"
        GoOn(next) == UNION {IF t.rest = <<>> THEN Read(t.c, "chunk")
                                              ELSE HandleResponseByChunk(t.c, t.rest) :
                             t \in {next}}
    IN  IF c.m_response_size > 0 THEN GoOn(TakeData(c, buffer))
        ELSE IF eol = -1
          THEN IF Len(line) >= HEAD_BUFFER_SIZE THEN Fail(c)
               ELSE Read([c EXCEPT !.m_chunk_size = line], "chunk")
        ELSE IF eol = 0 THEN GoOn(EndOfChunk(c, buffer))
        ELSE IF ~valid THEN Fail(c)
        ELSE IF line[1][2] = 0 THEN {Complete(c, Succeeded(c), c.m_response)}
        ELSE GoOn([c |-> [c EXCEPT !.m_chunk_size = <<>>, !.m_response_size = line[1][2]],
                   rest |-> Drop(buffer, pos + 2 - Len(c.m_chunk_size))])

HandleResponseByDataFollow(c, buffer) ==
    Read([c EXCEPT !.m_response = @ \o buffer], "follow")

HandleResponseHead(c, buffer) ==
    LET head == c.m_head \o buffer
        found == Find(head, <<HEAD_END>>)
        r == [c EXCEPT !.m_head = SubSeq(head, 1, found + 1)]
        content == Drop(head, found + 1)
        bad == \/ c.req.status = "none"
               \/ c.req.class = "Post" /\ c.req.status # "200"
               \/ c.req.class = "Text" /\ c.req.to_file /\ c.req.file = "missing"
    IN  IF found = -1 THEN Read([c EXCEPT !.m_head = head], "response")
        ELSE IF bad THEN Fail(r)
        ELSE CASE c.req.type = "length" ->
                    HandleResponseByContentLength([r EXCEPT !.m_response_size = c.req.size],
                                                  content)
               [] c.req.type = "chunk" -> HandleResponseByChunk(r, content)
               [] OTHER -> HandleResponseByDataFollow(r, content)

-----------------------------------------------------------------------------
(* Resolving, connecting, sending.                                         *)

(* Mutant: the first failure is reported before the second attempt. *)
ReportAndTryAgain(c, again, failed) ==
    IF failed /\ ~again THEN {Begin(Complete(c, FALSE, <<>>), "resolve_again")}
    ELSE IF failed \/ c.m_stopped THEN Fail(c)
    ELSE {BeginConnect([c EXCEPT !.endpoints = c.req.endpoints])}

(* The first failure, of Stop as well, is followed by another attempt.     *)
HandleQueryIPByDomain(c, again, failed) ==
    IF failed THEN IF again THEN Fail(c) ELSE {Begin(c, "resolve_again")}
    ELSE IF c.m_stopped THEN Fail(c)
    ELSE {BeginConnect([c EXCEPT !.endpoints = c.req.endpoints])}

HandleSSLHandShake(c, failed) ==
    IF failed \/ c.m_stopped THEN Fail(c)
    ELSE {Begin([c EXCEPT !.secured = c.req.ssl], "head")}

(* m_stopped is not looked at: the next endpoint is tried after Stop.      *)
HandleSocketConnect(c, failed) ==
    IF ~failed
      THEN IF c.req.ssl THEN {Begin(c, "handshake")} ELSE HandleSSLHandShake(c, FALSE)
    ELSE IF c.endpoints > 0 THEN {BeginConnect(c)} ELSE Fail(c)

(* A form without values or a file has nothing to send after its head.     *)
SendAfterHead(c) ==
    IF c.req.class = "Text" THEN {Begin(c, IF c.req.content THEN "content" ELSE "response")}
    ELSE IF c.req.content THEN {Begin(c, "param")}
    ELSE IF c.req.file = "none" THEN {c} ELSE {Begin(c, "file_begin")}

SendAfterParam(c) == {Begin(c, IF c.req.file = "none" THEN "file_end" ELSE "file_begin")}

(* The file is read a unit at a time, and closed at its end.               *)
SendFile(c) ==
    IF c.m_file = c.req.file_size
      THEN {Begin(c, "file_end")}
      ELSE {Begin([c EXCEPT !.m_file = @ + 1], "file")}

SendMoreOfFile(c) == UNION {SendFile(s) : s \in {c} \cup Stop(c)}

Handled(c, op, failed, buffer) ==
    CASE op = "resolve" -> HandleQueryIPByDomain(c, FALSE, failed)
      [] op = "resolve_again" -> HandleQueryIPByDomain(c, TRUE, failed)
      [] op = "connect" -> HandleSocketConnect(c, failed)
      [] op = "handshake" -> HandleSSLHandShake(c, failed)
      [] op = "follow" /\ failed -> {Complete(c, Succeeded(c), c.m_response)}
      [] OTHER ->
           IF failed \/ c.m_stopped THEN Fail(c)
           ELSE CASE op = "head" -> SendAfterHead(c)
                  [] op = "param" -> SendAfterParam(c)
                  [] op = "file_begin" -> SendFile(c)
                  [] op = "file" -> SendMoreOfFile(c)
                  [] op \in {"content", "file_end"} -> {Begin(c, "response")}
                  [] op = "response" -> HandleResponseHead(c, buffer)
                  [] op = "length" -> HandleResponseByContentLength(c, buffer)
                  [] op = "chunk" -> HandleResponseByChunk(c, buffer)
                  [] OTHER -> HandleResponseByDataFollow(c, buffer)

-----------------------------------------------------------------------------
(* Actions.                                                                *)

Send == ~client.sent /\ client.told = 0 /\ client' \in SendRequest(client)

StopCalled == client.sent /\ ~client.m_stopped /\ client' \in Stop(client)

RunHandler ==
    /\ client.ended # "no" /\ ~client.blocked
    /\ client' \in Handled([client EXCEPT !.op = "none", !.ended = "no", !.m_http_buffer = <<>>],
                           client.op, client.ended = "failed", client.m_http_buffer)

Ends(ops, result) ==
    /\ client.op \in ops /\ client.ended = "no" /\ ~client.blocked
    /\ client' = [client EXCEPT !.ended = result]

LookedUp == \E result \in {"ok", "failed"} : Ends({"resolve", "resolve_again"}, result)

Connects == \E result \in {"ok", "failed"} : Ends({"connect"}, result)

ReadOps == {"response", "length", "chunk", "follow"}

(* The handshake and the writes.                                           *)
PeerAnswers ==
    \E result \in {"ok", "failed"} : Ends(SocketOps \ ReadOps, result)

(* A read gets what the server has sent, up to the size of the buffer.     *)
Receives ==
    /\ client.op \in ReadOps /\ client.ended = "no" /\ ~client.blocked
    /\ \E size \in 1..HEAD_BUFFER_SIZE :
          /\ client.taken + size <= Len(Response(client.req))
          /\ client' = [client EXCEPT !.ended = "ok", !.taken = @ + size,
                                      !.m_http_buffer = SubSeq(Response(client.req), client.taken + 1,
                                                               client.taken + size)]

ConnectionEnds == Ends(ReadOps, "failed")

Next == Send \/ StopCalled \/ RunHandler \/ LookedUp \/ Connects \/ PeerAnswers
        \/ Receives \/ ConnectionEnds

(* The io_service runs what is queued, the system answers a query and ends *)
(* an attempt to connect; a server that is connected may be silent.        *)
Fairness ==
    WF_client(RunHandler) /\ WF_client(LookedUp) /\ WF_client(Connects)

Spec == Init /\ [][Next]_client /\ Fairness

-----------------------------------------------------------------------------
Promise ==
    INSTANCE HttpRequest
      WITH request <- [sent |-> client.sent, stopped |-> client.m_stopped,
                       completions |-> client.told]

(* The complete function is called once for a request, whatever fails and  *)
(* whenever it is stopped, and nothing of it goes on afterwards.           *)
CompletesOnce == Promise!Spec

(* What is reported as the content of a request that succeeded is the body *)
(* of the response, however it was cut into reads.  A connection that ends *)
(* is the end of a body of which the head gives no length, be it by Stop.  *)
(* Excepted are a CR LF after a chunk that CarpHttpClientText gets in two  *)
(* reads, of which it drops a unit too many, and a space after a chunk's   *)
(* size, which both classes count as its end.                              *)
ContentIsBody ==
    LET req == client.req
        body == Body(req.size)
        excepted == \/ req.class = "Text" /\ client.split
                    \/ req.type = "chunk" /\ req.space
    IN  client.result[1] /\ ~excepted =>
          IF req.type = "follow" THEN IsPrefix(client.result[2], body)
                                 ELSE client.result[2] = body

(* A request that is stopped is completed.  Except for a form that has     *)
(* nothing to send, which waits for nothing; a connection made after Stop, *)
(* to the next endpoint, whose server may leave the handshake unanswered;  *)
(* and a TLS stream whose server leaves the shutdown unanswered.           *)
StoppedEnds ==
    LET idle == client.op = "none" /\ client.req.class = "Post"
    IN  client.m_stopped ~> \/ client.m_completed \/ idle \/ client.blocked
                            \/ client.op = "handshake"
=============================================================================

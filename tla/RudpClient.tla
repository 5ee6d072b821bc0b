----------------------------- MODULE RudpClient -----------------------------
(***************************************************************************)
(* CarpRudpClient (carp_rudp_client.hpp).  A client is a record of its     *)
(* fields; a member function is an operator from the record to the records *)
(* it may leave behind, so that the calls nest as they do in the code.     *)
(*                                                                         *)
(* A cancelled operation completes with an error, unless its result was    *)
(* there before: then its handler runs as if nothing had happened.         *)
(***************************************************************************)
EXTENDS RudpNetwork

VARIABLE client

NoKcp == [conv |-> 0, queued |-> 0, output |-> 0, rcv |-> {}]
NewKcp(conv) == [NoKcp EXCEPT !.conv = conv]

(* What the application has been told: owed, m_succeed_func has been called*)
(* and since then neither Close by the application nor m_disconnected_func;*)
(* stray, m_disconnected_func has been called when that was not so.        *)
(* orderly: no Connect was called with anything of an earlier connection   *)
(* left that would report its end.                                         *)
NoReports == [owed |-> FALSE, stray |-> FALSE, orderly |-> TRUE]

Promised(reports) == [reports EXCEPT !.owed = TRUE]
Waived(reports) == [reports EXCEPT !.owed = FALSE]
Reported(reports) == [reports EXCEPT !.owed = FALSE, !.stray = @ \/ ~reports.owed]

ClientInit ==
    client = [c \in Clients |->
        [m_is_connecting |-> FALSE,
         m_is_connected |-> FALSE,
         socket |-> 0,              \* the client's sockets are numbered
         open |-> FALSE,
         m_session |-> 0,
         m_kcp |-> NoKcp,
         m_kcp_timer |-> FALSE,     \* there is a timer
         m_connect_timer |-> "none",
         expired |-> 0,             \* time-outs whose handler is queued
         posted |-> 0,              \* HandleAsyncConnect(false) in the queue
         m_kcp_data_size |-> 0,     \* segments of an incomplete message
         pump |-> IdlePump,
         reads |-> <<>>,            \* receives whose handler has not run
         connects |-> 0,            \* calls of Connect that took effect
         reports |-> NoReports,     \* history
         told |-> FALSE,            \* history: has handled a close datagram
         late |-> FALSE,            \* history: has taken an answer that a
                                    \* socket received before it was closed
         crashed |-> FALSE]]        \* the program has

-----------------------------------------------------------------------------
(* Receives. Each waits on the socket it was started on; started on a      *)
(* closed socket it fails.                                                 *)

Read(r, handler) ==
    [r EXCEPT !.reads =
        Append(@, [handler |-> handler, socket |-> r.socket,
                   result |-> IF r.open THEN Pending ELSE Aborted])]

(* The receives after their socket has been closed: each is aborted or     *)
(* had its datagram before.                                                *)
SettledReads(c, r) ==
    LET ReadOutcomes(op) ==
          IF op.result = Pending
            THEN {[op EXCEPT !.result = result] :
                    result \in {Aborted} \cup Arriving(Endpoint(c, op.socket))}
            ELSE {op}
    IN  Outcomes(ReadOutcomes, r.reads)

(* The io_service's queue holds handlers of the client.  Its thread runs   *)
(* them before that of any operation that completes later.                 *)
Queued(r) ==
    \/ r.posted > 0 \/ r.expired > 0
    \/ r.reads # <<>> /\ Head(r.reads).result # Pending
    \/ SendQueued(r.pump)

(* cancel(): a time-out that has happened is handled all the same. *)
CancelTimer(r) ==
    {[r EXCEPT !.m_connect_timer = "none", !.expired = @ + late] :
        late \in IF r.m_connect_timer = "armed" THEN {0, 1} ELSE {0}}

(* Mutant: Close keeps the bytes of an incomplete message. *)
KeepOffset(r) == r

(* m_kcp_data_size = 0 *)
ResetOffset(r) == [r EXCEPT !.m_kcp_data_size = 0]

(* Close sends its datagram with a send_to that throws when the socket is  *)
(* closed: a late answer has connected a client that had closed itself.    *)
CloseThrows(r) == r.m_is_connected /\ r.m_kcp # NoKcp /\ ~r.open

(* The fields Close resets; s and p are what its operations come to.       *)
Reset(r, s, p) ==
    [ResetOffset(r) EXCEPT
        !.m_is_connecting = FALSE, !.m_is_connected = FALSE, !.open = FALSE,
        !.m_kcp_timer = FALSE, !.m_kcp = NoKcp, !.reads = s, !.pump = p]

(* Close, without the datagram it sends. *)
Closed(c, r) ==
    IF CloseThrows(r) THEN {[r EXCEPT !.crashed = TRUE]}
    ELSE {Reset(t, s, p) : t \in CancelTimer(r), s \in SettledReads(c, r),
                           p \in Settled(r.pump)}

(* The datagram Close sends while the client is connected. *)
CloseRequest(c, r) ==
    IF r.m_is_connected /\ r.m_kcp # NoKcp /\ r.open
      THEN {Datagram(Endpoint(c, r.socket), Server,
                     -r.m_session, r.m_kcp.conv, 0)}
      ELSE {}

(* Mutant: the callback runs whether or not the client closed itself. *)
AlwaysByOther(r) == FALSE

(* Neither connecting nor connected: the client has called Close. *)
ClosedBySelf(r) == ~r.m_is_connecting /\ ~r.m_is_connected

ExecuteDisconnectCallback(c, r) ==
    {[t EXCEPT !.reports =
                  IF ClosedBySelf(r) \/ t.crashed THEN @ ELSE Reported(@)] :
        t \in Closed(c, r)}

(* Mutant: a connected client does not start to read. *)
ReadLater(r) == r

StartReading(r) == Read(r, "read")

HandleAsyncConnect(r, succeed) ==
    LET t == [ResetOffset(r) EXCEPT !.m_is_connecting = FALSE,
                                    !.pump.m_executing = FALSE,
                                    !.m_is_connected = succeed,
                                    !.reports = IF succeed THEN Promised(@) ELSE @]
    IN  IF succeed THEN StartReading(t) ELSE t

-----------------------------------------------------------------------------
(* Actions.                                                                *)

Becomes(c, r) == client' = [client EXCEPT ![c] = r]

(* The datagrams still in the list are sent by the socket there is then.   *)
Readdressed(packets, endpoint) ==
    [i \in DOMAIN packets |-> [packets[i] EXCEPT !.from = endpoint]]

(* Nothing is left that would report the end of an earlier connection: no  *)
(* receive, no send, and no timer to start another send.                   *)
NothingLeft(r) ==
    /\ \A i \in DOMAIN r.reads : r.reads[i].handler # "read"
    /\ r.pump.sends = <<>> /\ ~r.m_kcp_timer

Renewed(r) == [r.reports EXCEPT !.orderly = @ /\ NothingLeft(r)]

(* Connect with an address: a new socket takes the place of the old one,   *)
(* which closes that.  When it cannot be opened the failure is posted,     *)
(* else SendConnect sends the request, starts to receive and starts the    *)
(* timer of 5 seconds.                                                     *)
Connect(c) ==
    LET r == client[c]
    IN  /\ ~r.crashed /\ r.connects < limit.connects[c]
        /\ ~r.m_is_connected /\ ~r.m_is_connecting
        /\ \E s \in SettledReads(c, r), opens \in BOOLEAN :
           LET t == [r EXCEPT !.m_is_connecting = TRUE,
                              !.socket = @ + 1, !.open = opens,
                              !.pump.m_pocket_list =
                                 Readdressed(@, Endpoint(c, r.socket + 1)),
                              !.reads = s, !.connects = @ + 1,
                              !.reports = Renewed(r), !.told = FALSE]
           IN  IF opens
                 THEN \E u \in CancelTimer(Read(t, "connect")) :
                      /\ Becomes(c, [u EXCEPT !.m_connect_timer = "armed"])
                      /\ net' = Reachable(Endpoint(c, r.socket))
                           \cup {Datagram(Endpoint(c, t.socket), Server, 0, 0, 0)}
                 ELSE /\ Becomes(c, [t EXCEPT !.posted = @ + 1])
                      /\ net' = Reachable(Endpoint(c, r.socket))

(* Connect with an empty address only posts the failure. *)
ConnectNowhere(c) ==
    LET r == client[c]
    IN  /\ ~r.crashed /\ r.connects < limit.connects[c]
        /\ ~r.m_is_connected /\ ~r.m_is_connecting
        /\ Becomes(c, [r EXCEPT !.posted = @ + 1, !.connects = @ + 1])
        /\ UNCHANGED net

HandlePosted(c) ==
    LET r == client[c]
    IN  /\ ~r.crashed /\ r.posted > 0
        /\ Becomes(c, HandleAsyncConnect([r EXCEPT !.posted = @ - 1], FALSE))
        /\ UNCHANGED net

ByApplication(r) ==
    [r EXCEPT !.reports = IF r.crashed THEN @ ELSE Waived(@)]

(* Close called by the application, when there is something to close.      *)
ClientClose(c) ==
    LET r == client[c]
    IN  /\ ~r.crashed
        /\ r.open \/ r.m_is_connecting \/ r.m_is_connected \/ r.m_kcp # NoKcp
        /\ \E t \in Closed(c, r) : Becomes(c, ByApplication(t))
        /\ Transmit(CloseRequest(c, r))

(* HandleConnectTimeout, from the timer or queued before it was cancelled. *)
HandleConnectTimeout(c) ==
    LET r == client[c]
    IN  /\ ~r.crashed
        /\ \/ /\ r.m_connect_timer = "armed" /\ ~Queued(r)
              /\ Becomes(c, HandleAsyncConnect(
                                [r EXCEPT !.m_connect_timer = "spent"], FALSE))
           \/ /\ r.expired > 0
              /\ Becomes(c, HandleAsyncConnect(
                                [r EXCEPT !.expired = @ - 1], FALSE))
        /\ UNCHANGED net

(* What the oldest receive, of this handler, completes with. *)
ReadResults(c, r, handler) ==
    IF r.reads = <<>> \/ Head(r.reads).handler # handler THEN {}
    ELSE IF Head(r.reads).result # Pending THEN {Head(r.reads).result}
    ELSE IF Queued(r) THEN {}
    ELSE Arriving(Endpoint(c, Head(r.reads).socket))

(* The client without its oldest receive, whose handler is about to run. *)
WithoutRead(r) == [r EXCEPT !.reads = Tail(@)]

Fails(outcome) == outcome = Aborted

(* The oldest receive had this answer when its socket was closed.          *)
TakenLate(r, d) == Head(r.reads).result # Pending /\ d.seg = 0

(* HandleReceiveConnect: 8 bytes are the answer to the request. *)
HandleAnswer(r, d) ==
    IF d.seg # 0 THEN {Read(r, "connect")}
    ELSE {IF d.session <= 0 \/ d.conv = 0
            THEN HandleAsyncConnect([t EXCEPT !.m_session = d.session], FALSE)
            ELSE HandleAsyncConnect([t EXCEPT !.m_session = d.session,
                                              !.m_kcp = NewKcp(d.conv),
                                              !.m_kcp_timer = TRUE], TRUE) :
            t \in CancelTimer(r)}

HandleReceiveConnect(c) ==
    LET r == client[c]
    IN  /\ ~r.crashed
        /\ \E outcome \in ReadResults(c, r, "connect") :
             \E t \in IF Fails(outcome)
                        THEN {HandleAsyncConnect(WithoutRead(r), FALSE)}
                        ELSE HandleAnswer([WithoutRead(r) EXCEPT
                                             !.late = @ \/ TakenLate(r, outcome)],
                                          outcome) :
                Becomes(c, t)
        /\ UNCHANGED net

(* The segments KCP can hand over: the first ones, without a gap. *)
Contiguous(rcv) == {n \in rcv : 1..n \subseteq rcv}

(* The segments KCP can hand over once it has been fed one more. *)
Available(r, d) ==
    Contiguous(r.m_kcp.rcv \cup {d.seg}) \ Contiguous(r.m_kcp.rcv)

(* A message takes two segments: both go to m_message_func, and what is    *)
(* left of another is moved to the front.                                  *)
Remaining(size) == size % 2

(* Feed a segment to KCP and take out all that has become available.       *)
Feed(r, d) ==
    [r EXCEPT !.m_kcp.rcv = @ \cup {d.seg},
              !.m_kcp_data_size = Remaining(@ + Cardinality(Available(r, d)))]

(* The application may call Close from m_message_func: then the loop that  *)
(* hands messages over subtracts from a size that Close has set to 0, and  *)
(* moves memory from beyond the buffer.                                    *)
ClosedInMessage(r, d) ==
    IF r.m_kcp_data_size + Cardinality(Available(r, d)) >= 2
      THEN {[r EXCEPT !.crashed = TRUE]} ELSE {}

(* "A session below 0 means the server has ended the connection": asked of *)
(* a datagram longer than 8 bytes.                                         *)
EndedByServer(r, d) == d.seg # 0 /\ d.conv = r.m_kcp.conv /\ d.session <= 0

(* HandleRead of a datagram, up to ExecuteDisconnectCallback. *)
HandleDatagramRead(c, r, d) ==
    IF d.seg = 0
      THEN {[Read(r, "read") EXCEPT
               !.told = @ \/ (d.session = -r.m_session /\ d.conv = r.m_kcp.conv)]}
    ELSE IF r.m_kcp = NoKcp THEN {[r EXCEPT !.crashed = TRUE]}
    ELSE IF d.conv # r.m_kcp.conv THEN {Read(r, "read")}
    ELSE LET t == [r EXCEPT !.m_session = d.session]
         IN  IF EndedByServer(r, d) THEN ExecuteDisconnectCallback(c, t)
             ELSE {Read(Feed(t, d), "read")} \cup ClosedInMessage(t, d)

ClientHandleRead(c) ==
    LET r == client[c]
    IN  /\ ~r.crashed
        /\ \E outcome \in ReadResults(c, r, "read") :
             IF Fails(outcome)
               THEN /\ \E t \in ExecuteDisconnectCallback(c, WithoutRead(r)) :
                         Becomes(c, t)
                    /\ Transmit(CloseRequest(c, r))
               ELSE /\ \E t \in HandleDatagramRead(c, WithoutRead(r), outcome) :
                         Becomes(c, t)
                    /\ Transmit(
                         IF EndedByServer(r, outcome)
                           THEN CloseRequest(c, [r EXCEPT
                                                   !.m_session = outcome.session])
                           ELSE {})

(* SendPocket, called by the application while it is connected. *)
ClientSendPocket(c) ==
    LET r == client[c]
    IN  /\ ~r.crashed /\ r.m_is_connected
        /\ r.m_kcp.queued < limit.up
        /\ Becomes(c, [r EXCEPT !.m_kcp.queued = @ + 1])
        /\ UNCHANGED net

(* UpdateKcp: ikcp_update calls UdpOutput for each segment. *)
ClientUpdateKcp(c) ==
    LET r == client[c]
        segments == [i \in 1..(r.m_kcp.queued - r.m_kcp.output) |->
                       Datagram(Endpoint(c, r.socket), Server, r.m_session,
                                r.m_kcp.conv, r.m_kcp.output + i)]
    IN  /\ ~r.crashed /\ r.m_kcp_timer /\ ~Queued(r)
        /\ r.m_kcp.output < r.m_kcp.queued
        /\ Becomes(c, [r EXCEPT !.m_kcp.output = r.m_kcp.queued,
                                !.pump = SendAll(@, segments, TRUE)])
        /\ UNCHANGED net

(* HandleSend: an error counts as the end of the connection. *)
ClientHandleSend(c) ==
    LET r == client[c]
    IN  /\ ~r.crashed
        /\ Queued(r) => SendQueued(r.pump)
        /\ \E result \in Results(r.pump) :
             LET t == [r EXCEPT !.pump = Completed(@)]
             IN  IF result = "sent"
                   THEN /\ Becomes(c, [t EXCEPT !.pump = NextSend(@, TRUE)])
                        /\ Transmit({Head(r.pump.sends).packet})
                   ELSE /\ \E u \in ExecuteDisconnectCallback(c, t) :
                             Becomes(c, u)
                        /\ Transmit(CloseRequest(c, r))

ClientNext ==
    \E c \in Clients :
        \/ Connect(c)
        \/ ConnectNowhere(c)
        \/ HandlePosted(c)
        \/ ClientClose(c)
        \/ HandleConnectTimeout(c)
        \/ HandleReceiveConnect(c)
        \/ ClientHandleRead(c)
        \/ ClientSendPocket(c)
        \/ ClientUpdateKcp(c)
        \/ ClientHandleSend(c)
=============================================================================

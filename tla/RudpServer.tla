----------------------------- MODULE RudpServer -----------------------------
(***************************************************************************)
(* CarpRudpServerImpl and its CarpRudpReceivers (carp_rudp_server.hpp):    *)
(* one UDP socket, one receiver per connected client, found by its conv.   *)
(* Everything runs on the io_service thread of the schedule, so a handler  *)
(* is one action; Close is cut at the iterations of its loop.              *)
(*                                                                         *)
(* KCP is a stream of numbered segments: `queued` of them given to         *)
(* ikcp_send, `output` of them passed on to UdpOutput, `rcv` the ones fed  *)
(* to ikcp_input.  A segment carries the session it was made in, to tell   *)
(* data of one session from data of another.                               *)
(***************************************************************************)
EXTENDS RudpNetwork

-----------------------------------------------------------------------------
(* CarpSafeIDCreator<T> (carp_safe_id_creator.hpp): hands out numbers from *)
(* 1 up and takes them back.  A creator is a record of its two fields; the *)
(* operators give the creator a member function leaves behind.             *)

NewCreator == [m_id_list |-> <<>>, m_max_id |-> 0]

(* What CreateID returns. *)
CreatedID(k) == IF k.m_id_list = <<>> THEN k.m_max_id + 1 ELSE Head(k.m_id_list)

CreateID(k) ==
    IF k.m_id_list = <<>>
      THEN [k EXCEPT !.m_max_id = @ + 1]
      ELSE [k EXCEPT !.m_id_list = Tail(@)]

(* Mutant: the highest number is put into the list as well. *)
ReleaseIntoList(k, id) ==
    IF id = k.m_max_id
      THEN [m_id_list |-> Append(k.m_id_list, id), m_max_id |-> k.m_max_id - 1]
      ELSE [k EXCEPT !.m_id_list = Append(@, id)]

ReleaseID(k, id) ==
    IF id = k.m_max_id
      THEN [k EXCEPT !.m_max_id = @ - 1]
      ELSE [k EXCEPT !.m_id_list = Append(@, id)]

(* max: std::numeric_limits<T>::max(). *)
IsEmpty(k, max) == k.m_id_list = <<>> /\ k.m_max_id >= max

Creators(max) == [m_id_list : Seq(1..max), m_max_id : 0..max]

NoRepeats(s) == \A i, j \in DOMAIN s : s[i] = s[j] => i = j

(* Each number up to the highest is either handed out or in the list, once. *)
Accounts(k, live) ==
    /\ NoRepeats(k.m_id_list)
    /\ ToSet(k.m_id_list) \cap live = {}
    /\ ToSet(k.m_id_list) \cup live = 1..k.m_max_id

-----------------------------------------------------------------------------
VARIABLES
    m_socket,       \* "none", "unbound" after a Start that failed, or "open"
    reads,          \* receives waiting on the socket
    late_reads,     \* results of receives that Close ended, not handled yet
    m_conv_creator,
    m_outer_map,    \* conv -> receiver
    pump,
    closing,        \* "no", or how Close(exit) sends its close datagrams
    granted,        \* number of the last session granted
    dropped,        \* sessions that Close ended
    send_failed,    \* a send has failed since the last Start
    starts, closes

serverVars == <<m_socket, reads, late_reads, m_conv_creator, m_outer_map, pump,
                closing, granted, dropped, send_failed, starts, closes>>

HasSocket == m_socket # "none"

Empty == [conv \in {} |-> 0]

ServerInit ==
    /\ m_socket = "none"
    /\ reads = 0 /\ late_reads = <<>>
    /\ m_conv_creator = NewCreator
    /\ m_outer_map = Empty
    /\ pump = IdlePump
    /\ closing = "no"
    /\ granted = 0 /\ dropped = {} /\ send_failed = FALSE
    /\ starts = 0 /\ closes = 0

-----------------------------------------------------------------------------
(* Start and Close.                                                        *)

(* Open or bind fails: m_socket keeps the socket all the same. *)
StartFails ==
    /\ m_socket = "none" /\ closing = "no"
    /\ starts < limit.starts
    /\ starts' = starts + 1
    /\ m_socket' = "unbound"
    /\ UNCHANGED <<reads, late_reads, m_conv_creator, m_outer_map, pump,
                   closing, granted, dropped, send_failed, closes, net>>

ServerStart ==
    /\ m_socket = "none" /\ closing = "no"
    /\ starts < limit.starts
    /\ starts' = starts + 1
    /\ m_socket' = "open"
    /\ reads' = 1
    /\ send_failed' = FALSE
    /\ UNCHANGED <<late_reads, m_conv_creator, m_outer_map, pump, closing,
                   granted, dropped, closes, net>>

CloseBegin ==
    /\ m_socket # "none" /\ closing = "no"
    /\ closes < limit.closes
    /\ closes' = closes + 1
    /\ closing' \in {"exit", "queue"}
    /\ UNCHANGED <<m_socket, reads, late_reads, m_conv_creator, m_outer_map,
                   pump, granted, dropped, send_failed, starts, net>>

(* What a receiver sends when it is closed: its session, negated. *)
CloseDatagram(conv) ==
    LET r == m_outer_map[conv]
    IN  Datagram(Server, r.m_endpoint, -r.m_session, conv, 0)

WithoutConv(conv) == [v \in DOMAIN m_outer_map \ {conv} |-> m_outer_map[v]]

(* One iteration: ReleaseID, and the receiver's Close(exit), which sends   *)
(* its datagram at once when exit holds and queues it otherwise.           *)
CloseReceiver(conv) ==
    /\ closing # "no"
    /\ m_conv_creator' = ReleaseID(m_conv_creator, conv)
    /\ m_outer_map' = WithoutConv(conv)
    /\ dropped' = dropped \cup {m_outer_map[conv].m_session}
    /\ IF closing = "exit"
         THEN Transmit({CloseDatagram(conv)}) /\ UNCHANGED pump
         ELSE /\ pump' = SendPocket(pump, CloseDatagram(conv), HasSocket)
              /\ UNCHANGED net
    /\ UNCHANGED <<m_socket, reads, late_reads, closing, granted, send_failed,
                   starts, closes>>

(* How the receives end when their socket is closed. *)
LateResults == {Aborted} \cup Arriving(Server)

CloseEnd ==
    /\ closing # "no" /\ DOMAIN m_outer_map = {}
    /\ closing' = "no"
    /\ pump' \in Settled(pump)
    /\ \E results \in [1..reads -> LateResults] :
          late_reads' = late_reads \o results
    /\ reads' = 0
    /\ m_socket' = "none"
    /\ UNCHANGED <<m_conv_creator, m_outer_map, granted, dropped, send_failed,
                   starts, closes, net>>

-----------------------------------------------------------------------------
(* Receiving.                                                              *)

NextRead(n) == IF m_socket = "open" THEN n + 1 ELSE n

(* HandleOuterConnect: the new receiver is entered under its conv. *)
HandleOuterConnect(endpoint, session, conv) ==
    m_outer_map' =
        [v \in DOMAIN m_outer_map \cup {conv} |->
            IF v = conv
              THEN [m_endpoint |-> endpoint, m_session |-> session,
                    queued |-> 0, output |-> 0, rcv |-> {}]
              ELSE m_outer_map[v]]

(* A request for a connection: refused while no conv is free, otherwise    *)
(* granted under a session drawn with rand(), which may be 0.  Numbers     *)
(* drawn are otherwise taken to be new.                                    *)
HandleConnectRequest(d) ==
    /\ d.session = 0 /\ d.conv = 0
    /\ Len(pump.m_pocket_list) < limit.pockets
    /\ IF IsEmpty(m_conv_creator, limit.convs)
         THEN /\ pump' = SendPocket(pump, Datagram(Server, d.from, 0, 0, 0),
                                    HasSocket)
              /\ UNCHANGED <<m_conv_creator, m_outer_map, granted>>
         ELSE \E session \in {0, granted + 1} :
              LET conv == CreatedID(m_conv_creator)
              IN  /\ granted < limit.sessions
                  /\ granted' = granted + 1
                  /\ m_conv_creator' = CreateID(m_conv_creator)
                  /\ pump' = SendPocket(pump,
                                        Datagram(Server, d.from, session, conv, 0),
                                        HasSocket)
                  /\ HandleOuterConnect(d.from, session, conv)

(* Mutant: a receiver is found by its conv alone. *)
AnySession(conv, session) == conv \in DOMAIN m_outer_map

(* There is a receiver for the conv, and it has this session. *)
CheckSession(conv, session) ==
    conv \in DOMAIN m_outer_map /\ m_outer_map[conv].m_session = session

(* HandleOuterDisconnected: the receiver is closed, which queues a close   *)
(* datagram, and forgotten, and its conv goes back.                        *)
HandleOuterDisconnected(conv) ==
    /\ pump' = SendPocket(pump, CloseDatagram(conv), HasSocket)
    /\ m_outer_map' = WithoutConv(conv)
    /\ m_conv_creator' = ReleaseID(m_conv_creator, conv)
    /\ UNCHANGED granted

HandleCloseRequest(d) ==
    /\ d.session < 0 /\ d.conv # 0
    /\ IF CheckSession(d.conv, -d.session)
         THEN HandleOuterDisconnected(d.conv)
         ELSE UNCHANGED <<pump, m_outer_map, m_conv_creator, granted>>

(* Data: the receiver takes the sender's address and feeds its KCP, which  *)
(* takes no control datagram for a segment.                                *)
HandleData(d) ==
    /\ d.session > 0 /\ d.conv # 0
    /\ m_outer_map' =
         IF CheckSession(d.conv, d.session)
           THEN [m_outer_map EXCEPT
                   ![d.conv].m_endpoint = d.from,
                   ![d.conv].rcv =
                      IF d.seg = 0 THEN @ ELSE @ \cup {<<d.session, d.seg>>}]
           ELSE m_outer_map
    /\ UNCHANGED <<pump, m_conv_creator, granted>>

HandleDatagram(d) ==
    \/ HandleConnectRequest(d)
    \/ HandleCloseRequest(d)
    \/ HandleData(d)

(* The io_service's queue holds handlers left over from a Close: they run  *)
(* before that of anything that happens later.                             *)
Waiting == late_reads # <<>> \/ SendQueued(pump)

(* HandleRead for a datagram that arrives on the open socket. *)
ServerHandleRead ==
    /\ closing = "no" /\ reads > 0 /\ ~Waiting
    /\ \E d \in Arriving(Server) : HandleDatagram(d)
    /\ reads' = NextRead(reads - 1)
    /\ UNCHANGED <<m_socket, late_reads, closing, dropped, send_failed,
                   starts, closes, net>>

(* HandleRead for a receive of a socket that has been closed. *)
HandleLateRead ==
    /\ closing = "no" /\ late_reads # <<>>
    /\ LET result == Head(late_reads)
       IN  IF result = Aborted
             THEN UNCHANGED <<pump, m_conv_creator, m_outer_map, granted>>
             ELSE HandleDatagram(result)
    /\ late_reads' = Tail(late_reads)
    /\ reads' = NextRead(reads)
    /\ UNCHANGED <<m_socket, closing, dropped, send_failed, starts, closes, net>>

-----------------------------------------------------------------------------
(* Sending.                                                                *)

(* What HandleSend goes on with. *)
SendAgain(p) == NextSend(p, HasSocket)

(* HandleSend: after an error it returns, and the pump stands still. *)
ServerHandleSend ==
    /\ closing = "no" /\ (late_reads # <<>> => SendQueued(pump))
    /\ \E result \in Results(pump) :
         IF result = "sent"
           THEN /\ Transmit({Head(pump.sends).packet})
                /\ pump' = SendAgain(Completed(pump))
                /\ UNCHANGED send_failed
           ELSE /\ pump' = Completed(pump)
                /\ send_failed' = (send_failed \/ result = "failed")
                /\ UNCHANGED net
    /\ UNCHANGED <<m_socket, reads, late_reads, m_conv_creator, m_outer_map,
                   closing, granted, dropped, starts, closes>>

(* ServerSendHeartbeat: Send(msg) on every receiver.  CheckHeartbeat       *)
(* passes all of them: m_last_heartbeat is never anything but 0.           *)
ServerSendHeartbeat ==
    /\ closing = "no" /\ m_socket = "open"
    /\ ~Waiting
    /\ \E conv \in DOMAIN m_outer_map : m_outer_map[conv].queued < limit.down
    /\ m_outer_map' = [conv \in DOMAIN m_outer_map |->
                         [m_outer_map[conv] EXCEPT
                            !.queued = IF @ < limit.down THEN @ + 1 ELSE @]]
    /\ UNCHANGED <<m_socket, reads, late_reads, m_conv_creator, pump, closing,
                   granted, dropped, send_failed, starts, closes, net>>

(* The segments KCP has not yet passed to UdpOutput, with their session.   *)
Unsent(conv) ==
    LET r == m_outer_map[conv]
    IN  {Datagram(Server, r.m_endpoint, r.m_session, conv, seg) :
            seg \in (r.output + 1)..r.queued}

(* ServerUpdateKcp: ikcp_update on every receiver, which calls UdpOutput   *)
(* for each segment.                                                       *)
ServerUpdateKcp ==
    /\ closing = "no" /\ m_socket = "open" /\ ~Waiting
    /\ LET segments == UNION {Unsent(conv) : conv \in DOMAIN m_outer_map}
       IN  /\ segments # {}
           /\ \E order \in SetToSeqs(segments) :
                pump' = SendAll(pump, order, HasSocket)
    /\ m_outer_map' = [conv \in DOMAIN m_outer_map |->
                         [m_outer_map[conv] EXCEPT
                            !.output = m_outer_map[conv].queued]]
    /\ UNCHANGED <<m_socket, reads, late_reads, m_conv_creator, closing,
                   granted, dropped, send_failed, starts, closes, net>>

ServerNext ==
    \/ ServerStart
    \/ StartFails
    \/ CloseBegin
    \/ \E conv \in DOMAIN m_outer_map : CloseReceiver(conv)
    \/ CloseEnd
    \/ ServerHandleRead
    \/ HandleLateRead
    \/ ServerHandleSend
    \/ ServerSendHeartbeat
    \/ ServerUpdateKcp
=============================================================================

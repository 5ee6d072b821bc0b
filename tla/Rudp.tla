-------------------------------- MODULE Rudp --------------------------------
(***************************************************************************)
(* The RUDP transport: one server, its clients, and a network that loses,  *)
(* repeats and reorders datagrams.                                         *)
(***************************************************************************)
EXTENDS RudpServer, RudpClient

vars == <<net, limit, client, serverVars>>

Init == net = {} /\ limit \in Limits /\ ServerInit /\ ClientInit

Next ==
    \/ ServerNext /\ UNCHANGED <<client, limit>>
    \/ ClientNext /\ UNCHANGED <<serverVars, limit>>

Spec == Init /\ [][Next]_vars

-----------------------------------------------------------------------------
(* The numbers in use as convs and the numbers in the creator's list are   *)
(* the numbers up to the highest, each once: no conv is given to two       *)
(* receivers, and none is lost, whatever the order in which connections    *)
(* end.                                                                    *)
ConvsAccountedFor == Accounts(m_conv_creator, DOMAIN m_outer_map)

(* A session lasts until its client or the server's Close ends it: while   *)
(* the client is connected the server holds the receiver that was granted  *)
(* to it, under its conv.  No late or repeated datagram of an earlier user *)
(* of the conv removes or replaces it.  A client that has taken an answer  *)
(* from a socket it had closed is excepted: it may go back to a session    *)
(* that it has ended.                                                      *)
SessionKept ==
    \A c \in Clients :
        LET r == client[c]
        IN  r.m_is_connected /\ ~r.late /\ r.m_session \notin dropped =>
              CheckSession(r.m_kcp.conv, r.m_session)

(* A receiver is fed the segments of its own session only.                 *)
OnlyOwnData ==
    \A conv \in DOMAIN m_outer_map : \A s \in m_outer_map[conv].rcv :
        s[1] = m_outer_map[conv].m_session

(* A client takes messages apart at the right places: it keeps bytes of an *)
(* incomplete message exactly when the KCP of the present connection has   *)
(* handed over half of one; nothing is left of an earlier connection.      *)
FramesAligned ==
    \A c \in Clients :
        LET r == client[c]
        IN  r.m_is_connected =>
              r.m_kcp_data_size = Cardinality(Contiguous(r.m_kcp.rcv)) % 2

(* Nothing waits for what will not come.  While m_executing keeps          *)
(* SendPocket from starting a send, a send of the server is in progress and*)
(* its handler will go on with the list, unless one has failed; and a      *)
(* connected client has a receive on its socket, or will be told that there*)
(* is none.                                                                *)
SocketsServed ==
    /\ pump.m_executing /\ ~send_failed => pump.sends # <<>>
    /\ \A c \in Clients :
        LET r == client[c]
        IN  r.m_is_connected /\ ~r.crashed =>
              \E i \in DOMAIN r.reads :
                 r.reads[i].handler = "read" /\ r.reads[i].socket = r.socket

(* What carp_rudp_client.hpp:278 and 283 say: a client that has closed     *)
(* itself is not told that it was disconnected, and one that has lost its  *)
(* connection is told once, even if both a receive and a send fail.        *)
DisconnectedOnce == \A c \in Clients : ~client[c].reports.stray

(* That much is true: it holds of a client that calls Connect only when    *)
(* nothing of its earlier connections is left to report their end, over    *)
(* failing receives and sends, late answers, time-outs and its own Close.  *)
OrderlyDisconnectedOnce ==
    \A c \in Clients : client[c].reports.orderly => ~client[c].reports.stray

(* What carp_rudp_client.hpp:344 says: a negative session means that the   *)
(* server has ended the connection, so the client does not stay connected. *)
ServerCloseHeeded ==
    \A c \in Clients : client[c].told => ~client[c].m_is_connected

-----------------------------------------------------------------------------
(* The limits that the runs take, each for one kind of interaction.        *)

First == CHOOSE c \in Clients : TRUE

Limit(first, second, highest, granting, upward, downward, ups, downs) ==
    [connects |-> [c \in Clients |-> IF c = First THEN first ELSE second],
     convs |-> highest, sessions |-> granting,
     up |-> upward, down |-> downward,
     starts |-> ups, closes |-> downs, pockets |-> 1]

SmallLimits ==
    {Limit(2, 0, 1, 2, 1, 0, 1, 0),     \* a client that connects again
     Limit(2, 0, 1, 2, 0, 1, 1, 0),     \* ... and gets data
     Limit(1, 1, 2, 2, 0, 0, 1, 0),     \* two clients
     Limit(1, 0, 2, 4, 0, 0, 1, 0),     \* repeated requests
     Limit(1, 0, 1, 1, 2, 2, 1, 0),     \* whole messages
     Limit(1, 0, 2, 2, 0, 0, 2, 1)}     \* a server that is started again

OneClosed == {Limit(1, 0, 1, 1, 0, 0, 1, 1)}

OneAgain == {Limit(2, 0, 1, 2, 0, 0, 1, 0)}
=============================================================================

---------------------------- MODULE RudpNetwork ----------------------------
(***************************************************************************)
(* What the two ends of the RUDP transport share: the datagrams, the       *)
(* network that carries them, and the send pump both ends implement        *)
(* (m_pocket_list, m_executing, NextSend, HandleSend).                     *)
(*                                                                         *)
(* A datagram starts with a session and a conv, 4 bytes each.  One of      *)
(* exactly 8 bytes is control: 0/0 asks for a connection, session > 0      *)
(* grants one and session < 0 ends one.  A longer one carries a KCP        *)
(* segment, here its number; seg = 0 is the control datagram.              *)
(***************************************************************************)
EXTENDS Naturals, Integers, Sequences, SequencesExt, FiniteSets

CONSTANTS Clients, Server,
          Pending, Aborted,   \* results of a receive, besides a datagram
          Limits              \* the bounds a behaviour may have, see limit

VARIABLES
    net,        \* the datagrams sent
    limit       \* bounds of the model, chosen once for a behaviour

(* limit has the fields                                                    *)
(*   connects[c]  calls of Connect of client c                             *)
(*   convs        the highest conv, the limit of its integer type          *)
(*   sessions     connections the server grants                            *)
(*   up, down     segments a session carries to the server, to the client  *)
(*   starts, closes   calls of the server's Start and Close                *)
(*   pockets      datagrams waiting in m_pocket_list when a request is read *)

(* A datagram stays in net: it may be received late, never, or again, and  *)
(* overtake others.                                                        *)
Transmit(packets) == net' = net \cup packets

(* The n-th socket of a client has a port of its own. *)
Endpoint(c, n) == <<c, n>>

Datagram(from, to, session, conv, seg) ==
    [from |-> from, to |-> to, session |-> session, conv |-> conv, seg |-> seg]

(* The datagrams to the server and to the clients. *)
Endpoints == Clients \X Nat

UpData ==
    [from : Endpoints, to : {Server}, session : Int, conv : Nat, seg : Nat]
DownData ==
    [from : {Server}, to : Endpoints, session : Int, conv : Nat, seg : Nat]

(* The server has an address of its own, and a receive that is waiting or  *)
(* has failed has no datagram.                                             *)
ASSUME NamesAssumption ==
    /\ Server \notin Endpoints
    /\ Pending # Aborted /\ {Pending, Aborted} \cap DownData = {}

(* What is left when a port is given up: nothing arrives there any more. *)
Reachable(endpoint) == {d \in net : d.to # endpoint}

Arriving(endpoint) == {d \in net : d.to = endpoint}

-----------------------------------------------------------------------------
(* The send pump.  sends: the asynchronous sends whose handler has not     *)
(* run, oldest first, with the result where it is already decided.         *)

IdlePump == [m_pocket_list |-> <<>>, m_executing |-> FALSE, sends |-> <<>>]

(* Start the next asynchronous send, if there is a datagram to send and a  *)
(* socket to send it on.                                                   *)
NextSend(p, socket) ==
    IF p.m_pocket_list = <<>> \/ ~socket
      THEN [p EXCEPT !.m_executing = FALSE]
      ELSE [p EXCEPT !.m_pocket_list = Tail(@),
                     !.sends = Append(@, [packet |-> Head(p.m_pocket_list),
                                          result |-> "pending"])]

SendPocket(p, packet, socket) ==
    LET q == [p EXCEPT !.m_pocket_list = Append(@, packet)]
    IN  IF p.m_executing THEN q
        ELSE NextSend([q EXCEPT !.m_executing = TRUE], socket)

(* SendPocket for each of a sequence of datagrams: the first may start a   *)
(* send, and the others are left in the list.                              *)
SendAll(p, packets, socket) ==
    IF packets = <<>> THEN p
    ELSE LET q == SendPocket(p, Head(packets), socket)
         IN  [q EXCEPT !.m_pocket_list = @ \o Tail(packets)]

(* Every way to settle a sequence of operations, one outcome for each. *)
Outcomes(Of(_), ops) ==
    {s \in [DOMAIN ops -> UNION {Of(ops[i]) : i \in DOMAIN ops}] :
        \A i \in DOMAIN ops : s[i] \in Of(ops[i])}

(* The socket is closed: a send that is not complete is aborted, unless it *)
(* was done before.                                                        *)
SendOutcomes(op) ==
    IF op.result = "pending"
      THEN {[op EXCEPT !.result = result] : result \in {"sent", "aborted"}}
      ELSE {op}

Settled(p) ==
    {[m_pocket_list |-> <<>>, m_executing |-> FALSE, sends |-> s] :
        s \in Outcomes(SendOutcomes, p.sends)}

(* The handler of the oldest send is in the io_service's queue. *)
SendQueued(p) == p.sends # <<>> /\ Head(p.sends).result # "pending"

(* How the oldest send can end. *)
Results(p) ==
    IF p.sends = <<>> THEN {}
    ELSE IF SendQueued(p) THEN {Head(p.sends).result}
    ELSE {"sent", "failed"}

(* The pump without its oldest send, whose handler is about to run. *)
Completed(p) == [p EXCEPT !.sends = Tail(@)]
=============================================================================

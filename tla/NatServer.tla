----------------------------- MODULE NatServer -----------------------------
(***************************************************************************)
(* CarpNatServer (carp_nat_server.hpp): one socket, between a client that  *)
(* has sent the password and a target that is set.  Whoever else sends is  *)
(* not heard.                                                              *)
(*                                                                         *)
(* Of a datagram, `password` is the password it says, or, if it is "",     *)
(* anything else.                                                          *)
(***************************************************************************)
EXTENDS Asio

CONSTANTS NatLimits,        \* see MCServices
          Endpoints,        \* who may send; 0 is none
          Passwords         \* "" is none

VARIABLE nat

vars == <<nat>>

Init ==
  \E limit \in NatLimits :
    nat = [limit |-> limit,
           udp |-> <<>>,
           m_nat_udp |-> 0,
           m_in_using |-> FALSE,
           m_nat_password |-> "",
           m_client_password |-> "",    \* nothing is ever assigned to it
           m_client |-> 0,              \* the endpoint, if there is one
           m_target |-> 0,
           pending |-> <<>>, ready |-> <<>>,
           creates |-> 0, datagrams |-> 0, auths |-> 0,
           knows |-> "",                \* history: the password that m_client has sent
           relayed |-> <<0, 0>>,        \* history: from whom to whom, in the last step
           fate |-> "running"]

-----------------------------------------------------------------------------
CloseNat(s) == [CloseUdp(s, s.m_nat_udp) EXCEPT !.m_nat_udp = 0]

Create(s, moved, fails) ==
    LET t == IF moved THEN CloseNat(s) ELSE s
    IN  IF t.m_nat_udp # 0 THEN t
        ELSE IF fails THEN CloseNat(t)
        ELSE [StartUdp(t) EXCEPT !.m_nat_udp = Len(t.udp) + 1]

Start(s) ==
    IF s.m_nat_udp = 0 THEN s
    ELSE [s EXCEPT !.m_in_using = TRUE, !.m_client = 0, !.m_nat_password = ""]

Stop(s) == [s EXCEPT !.m_in_using = FALSE]

(* Mutant: the client stays. *)
SetPassword(s, password) == [s EXCEPT !.m_nat_password = password]

SetAuth(s, password) ==
    [s EXCEPT !.m_nat_password = password,
              !.m_client = IF s.m_client_password # password THEN 0 ELSE @]

SetTarget(s, endpoint) == [s EXCEPT !.m_target = endpoint]

Send(s, from, endpoint) ==
    IF endpoint = 0 THEN s
    ELSE IF MaySend(s, s.m_nat_udp) THEN [s EXCEPT !.relayed = <<from, endpoint>>] ELSE Crash(s)

HandleNatData(s, datagram) ==
    LET from == datagram.from
    IN  IF ~s.m_in_using THEN s
        ELSE IF s.m_nat_password # "" /\ datagram.password = s.m_nat_password
          THEN [s EXCEPT !.m_client = from, !.knows = datagram.password]
        ELSE IF from = s.m_client THEN Send(s, from, s.m_target)
        ELSE IF from = s.m_target THEN Send(s, from, s.m_client)
        ELSE s

Handle(s, e) ==
    CASE e.op.kind = "receive" ->
           {HandleNextRead(s, e.op.of, e.op.step, e.failed, oversize) : oversize \in BOOLEAN}
      [] e.op.kind = "data" -> {HandleNatData(s, e.op.step)}

-----------------------------------------------------------------------------
Running == nat.fate = "running"

(* What the server is before a call or a handler. *)
Before == [nat EXCEPT !.relayed = <<0, 0>>]

CreateCall ==
    /\ Running /\ nat.creates < nat.limit.creates
    /\ \E moved, fails \in BOOLEAN :
         nat' = [Create(Before, moved, fails) EXCEPT !.creates = @ + 1]

StartCall == Running /\ nat' = Start(Before)

StopCall == Running /\ nat' = Stop(Before)

SetAuthCall ==
    /\ Running /\ nat.auths < nat.limit.auths
    /\ \E password \in Passwords :
         nat' = [SetAuth(Before, password) EXCEPT !.auths = @ + 1]

SetTargetCall == Running /\ \E e \in Endpoints : nat' = SetTarget(Before, e)

CloseCall == Running /\ nat' = CloseNat(Before)

RunHandler ==
    /\ Running /\ nat.ready # <<>>
    /\ nat' \in Handle([Before EXCEPT !.ready = Tail(@)], Head(nat.ready))

DatagramArrives ==
    /\ Running /\ nat.datagrams < nat.limit.datagrams
    /\ \E i \in DOMAIN nat.pending, from \in Endpoints, password \in Passwords :
         nat' = [Receive(Before, i, [from |-> from, password |-> password])
                   EXCEPT !.datagrams = @ + 1]

Next ==
    \/ CreateCall \/ StartCall \/ StopCall \/ SetAuthCall \/ SetTargetCall
    \/ CloseCall \/ RunHandler \/ DatagramArrives

Spec == Init /\ [][Next]_vars

-----------------------------------------------------------------------------
(* What is relayed is between the target and a client that has sent the    *)
(* password which is in force now, if there is one, though datagrams wait  *)
(* twice before they are handled, passwords change meanwhile and the       *)
(* server is stopped, closed and made anew; and it goes on listening.      *)
(* (carp_nat_server.hpp:82 and 130.)                                       *)
RelayedForClient ==
    Running =>
      /\ Listens(nat, nat.m_nat_udp)
      /\ nat.relayed # <<0, 0>> =>
           /\ nat.m_in_using
           /\ {nat.relayed[1], nat.relayed[2]} = {nat.m_client, nat.m_target}
           /\ nat.m_nat_password \in {"", nat.knows}
=============================================================================

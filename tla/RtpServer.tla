----------------------------- MODULE RtpServer -----------------------------
(***************************************************************************)
(* CarpRtpServer (carp_rtp_server.hpp): it relays the datagrams of a call  *)
(* between two sides, and, when a password is set for a side, sends it to  *)
(* that side every ten seconds.  The server is used for one call after     *)
(* another.  The application runs on the io_service's thread.              *)
(*                                                                         *)
(* The code has each member twice, m_from_... and m_to_...; here they are  *)
(* functions of the side.                                                  *)
(***************************************************************************)
EXTENDS Asio

CONSTANTS RtpLimits         \* see MCServices

VARIABLE rtp

vars == <<rtp>>

Sides == {"from", "to"}

Other(side) == IF side = "from" THEN "to" ELSE "from"

Both(x) == [side \in Sides |-> x]

(* Servers, timers and calls are numbered, 0 is null.                      *)
Init ==
  \E limit \in RtpLimits :
    rtp = [limit |-> limit,
           udp |-> <<>>,
           m_udp |-> Both(0),
           side |-> <<>>,               \* by udp: whose it is
           m_in_using |-> FALSE,
           m_has_endpoint |-> Both(FALSE),
           m_endpoint |-> Both(0),      \* the call that it was set for
           m_password |-> Both(FALSE),  \* it is set
           m_auth_timer |-> Both(0),
           m_record_file |-> FALSE,
           m_schedule |-> FALSE,        \* it is set
           pending |-> <<>>, ready |-> <<>>,
           made |-> 0,                  \* timers
           creates |-> 0, calls |-> 0, auths |-> 0, datagrams |-> 0, errors |-> 0,
           expired |-> Both(0),         \* history: waits that have ended by time
           told |-> Both(0),            \* history: passwords sent
           fate |-> "running"]

-----------------------------------------------------------------------------
CancelTimer(s, side) == Abort([s EXCEPT !.m_auth_timer[side] = 0], side, s.m_auth_timer[side])

CancelTimers(s) == CancelTimer(CancelTimer(s, "from"), "to")

StopRecord(s) == [s EXCEPT !.m_record_file = FALSE]

CloseSide(s, side) == [CloseUdp(s, s.m_udp[side]) EXCEPT !.m_udp[side] = 0]

(* m_in_using and the endpoints are left as they are. *)
CloseRtp(s) == StopRecord(CancelTimers(CloseSide(CloseSide(s, "from"), "to")))

OpenSide(s, side) ==
    IF s.m_udp[side] # 0 THEN s
    ELSE [StartUdp(s) EXCEPT !.m_udp[side] = Len(s.udp) + 1, !.side = Append(@, side)]

(* `moved` are the sides whose address is another than before, `failing`   *)
(* those whose socket cannot be opened.                                    *)
Create(s, moved, failing) ==
    LET Moved(t, side) == IF side \in moved THEN CloseSide(t, side) ELSE t
        t == Moved(Moved(s, "from"), "to")
        Fails(u, side) == u.m_udp[side] = 0 /\ side \in failing
    IN  IF Fails(t, "from") THEN CloseRtp(t)
        ELSE IF Fails(t, "to") THEN CloseRtp(OpenSide(t, "from"))
        ELSE StopRecord([OpenSide(OpenSide(t, "from"), "to") EXCEPT !.m_schedule = TRUE])

(* Mutant: the endpoints are those of the call before. *)
StartKeeping(s) ==
    IF 0 \in {s.m_udp[side] : side \in Sides} THEN s
    ELSE StopRecord(CancelTimers([s EXCEPT !.m_in_using = TRUE, !.calls = @ + 1,
                                           !.m_password = Both(FALSE)]))

Start(s) ==
    IF 0 \in {s.m_udp[side] : side \in Sides} THEN s
    ELSE StopRecord(CancelTimers([s EXCEPT !.m_in_using = TRUE, !.calls = @ + 1,
                                           !.m_has_endpoint = Both(FALSE),
                                           !.m_password = Both(FALSE)]))

Stop(s) ==
    StopRecord(CancelTimers([s EXCEPT !.m_in_using = FALSE, !.m_password = Both(FALSE)]))

SetRtp(s, side) == [s EXCEPT !.m_endpoint[side] = s.calls, !.m_has_endpoint[side] = TRUE]

(* Before the first Create has succeeded there is no io_service.           *)
SetAuth(s, side) ==
    LET t == [CancelTimer(s, side) EXCEPT !.m_password[side] = TRUE, !.made = @ + 1,
                                          !.auths = @ + 1]
    IN  IF ~s.m_schedule THEN Crash(t)
        ELSE Begin([t EXCEPT !.m_auth_timer[side] = t.made], Op(side, t.made, 0))

-----------------------------------------------------------------------------
(* Handlers.                                                               *)

(* TimerSendFromAuth and TimerSendToAuth. *)
TimerSend(s, side, failed) ==
    LET t == IF s.m_has_endpoint[side] THEN [s EXCEPT !.told[side] = @ + 1] ELSE s
        timer == s.m_auth_timer[side]
    IN  IF failed THEN s
        ELSE IF s.m_has_endpoint[side] /\ ~MaySend(s, s.m_udp[side]) THEN Crash(s)
        ELSE IF timer = 0 THEN t ELSE Begin(Abort(t, side, timer), Op(side, timer, 0))

(* HandleFromRtp and HandleToRtp: who has sent the datagram is not asked.  *)
Relay(s, side) ==
    LET other == Other(side)
    IN  IF ~s.m_in_using \/ ~s.m_has_endpoint[other] THEN s
        ELSE IF MaySend(s, s.m_udp[other]) THEN s ELSE Crash(s)

Handle(s, e) ==
    CASE e.op.kind = "receive" ->
           {HandleNextRead(s, e.op.of, e.op.step, e.failed, oversize) : oversize \in BOOLEAN}
      [] e.op.kind = "data" -> {Relay(s, s.side[e.op.of])}
      [] e.op.kind \in Sides -> {TimerSend(s, e.op.kind, e.failed)}

-----------------------------------------------------------------------------
Running == rtp.fate = "running"

CreateCall ==
    /\ Running /\ rtp.creates < rtp.limit.creates
    /\ \E moved, failing \in SUBSET Sides :
         rtp' = [Create(rtp, moved, failing) EXCEPT !.creates = @ + 1]

StartCall == Running /\ rtp.calls < rtp.limit.calls /\ rtp' = Start(rtp)

StopCall == Running /\ rtp' = Stop(rtp)

SetRtpCall == Running /\ \E side \in Sides : rtp' = SetRtp(rtp, side)

SetAuthCall ==
    /\ Running /\ rtp.auths < rtp.limit.auths
    /\ \E side \in Sides : rtp' = SetAuth(rtp, side)

StartRecord ==
    /\ Running /\ rtp.limit.auths = 0
    /\ \E opened \in BOOLEAN : rtp' = [StopRecord(rtp) EXCEPT !.m_record_file = opened]

CloseCall == Running /\ rtp' = CloseRtp(rtp)

RunHandler ==
    /\ Running /\ rtp.ready # <<>>
    /\ rtp' \in Handle([rtp EXCEPT !.ready = Tail(@)], Head(rtp.ready))

DatagramArrives ==
    /\ Running /\ rtp.datagrams < rtp.limit.datagrams
    /\ \E i \in {j \in DOMAIN rtp.pending : rtp.pending[j].kind = "receive"} :
         rtp' = [Receive(rtp, i, Nothing) EXCEPT !.datagrams = @ + 1]

ReceiveFails ==
    /\ Running /\ rtp.errors < rtp.limit.errors
    /\ \E i \in {j \in DOMAIN rtp.pending : rtp.pending[j].kind = "receive"} :
         rtp' = [End(rtp, i, TRUE) EXCEPT !.errors = @ + 1]

TimerExpires ==
    /\ Running
    /\ \E i \in {j \in DOMAIN rtp.pending : rtp.pending[j].kind \in Sides} :
         /\ rtp.expired[rtp.pending[i].kind] < rtp.limit.expires
         /\ rtp' = [End(rtp, i, FALSE) EXCEPT !.expired[rtp.pending[i].kind] = @ + 1]

Next ==
    \/ CreateCall \/ StartCall \/ StopCall \/ SetRtpCall \/ SetAuthCall
    \/ StartRecord \/ CloseCall \/ RunHandler \/ DatagramArrives \/ ReceiveFails
    \/ TimerExpires

Spec == Init /\ [][Next]_vars

-----------------------------------------------------------------------------
(* While it is used the server goes on: an open socket has its read; a     *)
(* timer has one wait, or a handler that will begin it; no password is     *)
(* sent but after a wait that has ended by time; and no datagram goes to   *)
(* an endpoint that was set for an earlier call.  (carp_rtp_server.hpp:86  *)
(* and 297, carp_udp_server.hpp:150.)                                      *)
AuthWaits(side) ==
    LET timer == rtp.m_auth_timer[side]
        waits == Operations(rtp.pending, {side}, timer)
        ended == {i \in DOMAIN rtp.ready : rtp.ready[i].op.kind = side /\ ~rtp.ready[i].failed}
    IN  timer # 0 => Len(waits) = 1 \/ (waits = <<>> /\ ended # {})

RelayKept ==
    Running =>
      \A side \in Sides :
        /\ Listens(rtp, rtp.m_udp[side])
        /\ AuthWaits(side)
        /\ rtp.told[side] <= rtp.expired[side]
        /\ rtp.m_in_using /\ rtp.m_has_endpoint[side] => rtp.m_endpoint[side] = rtp.calls
=============================================================================

------------------------------ MODULE CarpNet ------------------------------
(***************************************************************************)
(* CarpNet (carp_net_bind.hpp): what Lua sees of the network.  Requests    *)
(* are kept in a map for each kind of them, by the id that Lua gives them, *)
(* so that they can be stopped; whatever ends is put into a list of events,*)
(* of which Run and Poll hand out one for each handler they run.           *)
(*                                                                         *)
(* The schedule is that of Schedule, without a thread; a request is what   *)
(* HttpRequest says of it, whichever of the two classes serves it.         *)
(***************************************************************************)
EXTENDS Functions, Integers, Sequences, SequencesExt

CONSTANTS NetLimits,        \* see MCServices
          ProgressLimit,    \* reports of the progress of a request
          EventLimit        \* events that wait for Run or Poll

VARIABLES schedule, net

vars == <<schedule, net>>

CarpSchedule == INSTANCE Schedule WITH RunLimit <- 0, TimerLimit <- 2

(* A client of either class, by its number. *)
Client(n) == INSTANCE HttpRequest WITH request <- net.client[n]

(* `limit` has the kinds and the ids of the requests, and how many there   *)
(* are of them, of timers and of calls of Connect.                         *)
Init ==
    /\ CarpSchedule!Init
    /\ \E limit \in NetLimits :
         net = [limit |-> limit,
              m_map |-> <<>>,           \* by kind and id: a client
              m_event_list |-> <<>>,
              client |-> [n \in 1..limit.requests |-> Client(n)!NewRequest],
              used |-> <<>>,            \* by client: what it is used for
              connection |-> <<>>]      \* "connecting", "connected" or "over"

Event(type, id) == [type |-> type, id |-> id]

Push(s, event) == [s EXCEPT !.m_event_list = Append(@, event)]

-----------------------------------------------------------------------------
Erased(map, key) == Restrict(map, DOMAIN map \ {key})

File == {"download", "upload"}

Results(kind) ==
    IF kind \in File THEN {"HTTP_FILE_SUCCEED", "HTTP_FILE_FAILED"}
                     ELSE {"HTTP_SUCCEED", "HTTP_FAILED"}

(* The complete function. *)
Completes(s, n, type) ==
    LET u == s.used[n]
    IN  Push([s EXCEPT !.client[n] = Client(n)!Completed(@),
                       !.m_map = Erased(@, <<u.kind, u.id>>)], Event(type, u.id))

UnderWay(s, n) == s.client[n].sent /\ s.client[n].completions = 0

(* HttpGet, HttpPost, HttpDownload and HttpUpload.  SendRequest may fail   *)
(* before it returns.  `shared` notes that the id is that of another       *)
(* request of the kind that is under way.                                  *)
Sends(s, kind, id) ==
    LET n == Len(s.used) + 1
        others == {m \in DOMAIN s.used : /\ UnderWay(s, m)
                                         /\ s.used[m].kind = kind /\ s.used[m].id = id}
        use == [kind |-> kind, id |-> id, progress |-> 0, shared |-> others # {}]
        marked == [m \in DOMAIN s.used |->
                     IF m \in others THEN [s.used[m] EXCEPT !.shared = TRUE] ELSE s.used[m]]
        t == [s EXCEPT !.m_map = [x \in {<<kind, id>>} |-> n] @@ @,
                       !.used = Append(marked, use)]
    IN  {[t EXCEPT !.client[n] = Client(n)!Sent(@)]}
          \cup {Completes(t, n, type) : type \in Results(kind) \ {"HTTP_SUCCEED", "HTTP_FILE_SUCCEED"}}

Stops(s, kind, id) ==
    IF <<kind, id>> \in DOMAIN s.m_map
      THEN [s EXCEPT !.client[s.m_map[<<kind, id>>]] = Client(s.m_map[<<kind, id>>])!Stopped(@)] ELSE s

-----------------------------------------------------------------------------
(* Handlers that RunOne may run.                                           *)

Progress(s, n) == Push([s EXCEPT !.used[n].progress = @ + 1],
                       Event("HTTP_FILE_PROGRESS", s.used[n].id))

(* A step of a request: it may report its progress, and may end.           *)
RequestSteps(s) ==
    UNION {LET kind == s.used[n].kind
               reported == {Progress(s, k) : k \in {j \in {n} : kind \in File
                                                    /\ s.used[j].progress < ProgressLimit}}
           IN  {s} \cup reported
                 \cup {Completes(t, n, type) : t \in {s} \cup reported, type \in Results(kind)} :
           n \in {k \in DOMAIN s.used : UnderWay(s, k)}}

ConnectSteps(s) ==
    UNION {CASE s.connection[n] = "connecting" ->
                  {Push([s EXCEPT !.connection[n] = "connected"], Event("MSG_CONNECT_SUCCEED", n)),
                   Push([s EXCEPT !.connection[n] = "over"], Event("MSG_CONNECT_FAILED", n))}
             [] s.connection[n] = "connected" ->
                  {Push(s, Event("MSG_MESSAGE", n)),
                   Push([s EXCEPT !.connection[n] = "over"], Event("MSG_DISCONNECTED", n))} :
           n \in {k \in DOMAIN s.connection : s.connection[k] # "over"}}

(* The callback of a timer. *)
TimerSteps ==
    {[schedule |-> [schedule EXCEPT !.ready = Tail(@),
                                    !.calls[Head(schedule.ready).op.step].called = @ + 1],
      net |-> Push(net, Event("TIMER", 0))] : t \in {r \in {schedule.ready} : r # <<>>}}

HandleEvent(s) == [s EXCEPT !.m_event_list = IF @ = <<>> THEN @ ELSE Tail(@)]

(* RunOne waits for a handler if there may be one, PollOne does not.       *)
Handled == TimerSteps \cup {[schedule |-> schedule, net |-> s] :
                              s \in RequestSteps(net) \cup ConnectSteps(net)}

-----------------------------------------------------------------------------
Http ==
    /\ Len(net.used) < net.limit.requests
    /\ \E kind \in net.limit.kinds, id \in net.limit.ids : net' \in Sends(net, kind, id)
    /\ UNCHANGED schedule

HttpStop ==
    /\ \E kind \in net.limit.kinds, id \in net.limit.ids : net' = Stops(net, kind, id)
    /\ UNCHANGED schedule

Timer ==
    /\ Len(schedule.calls) < net.limit.timers
    /\ CarpSchedule!TimerCall
    /\ Last(schedule'.calls).kind = "once"
    /\ UNCHANGED net

(* The client is put into no map: IsConnected, IsConnecting, Close and     *)
(* Send, which look for it in m_connect_map, do nothing.                   *)
Connect ==
    /\ Len(net.connection) < net.limit.connects
    /\ net' = [net EXCEPT !.connection = Append(@, "connecting")]
    /\ UNCHANGED schedule

Run ==
    \E h \in Handled :
      /\ Len(h.net.m_event_list) <= EventLimit
      /\ schedule' = h.schedule
      /\ net' = HandleEvent(h.net)

(* With nothing to wait for RunOne returns, too. *)
Poll ==
    /\ schedule.ready = <<>>
    /\ net' = HandleEvent(net)
    /\ UNCHANGED schedule

TimerExpires == CarpSchedule!TimerExpires /\ UNCHANGED net

Next == Http \/ HttpStop \/ Timer \/ Connect \/ Run \/ Poll \/ TimerExpires

Spec == Init /\ [][Next]_vars

-----------------------------------------------------------------------------
(* A request under way is in the map of its kind, so that Lua can stop it, *)
(* unless its id has been given to another while it was under way; what is *)
(* in a map is under way, so that nothing is kept there for ever           *)
(* (carp_net_bind.hpp:117).                                                *)
RequestsListed ==
    /\ \A n \in DOMAIN net.used :
         LET u == net.used[n]
         IN  UnderWay(net, n) /\ ~u.shared =>
               <<u.kind, u.id>> \in DOMAIN net.m_map /\ net.m_map[<<u.kind, u.id>>] = n
    /\ \A key \in DOMAIN net.m_map : UnderWay(net, net.m_map[key])
=============================================================================

------------------------------ MODULE LuaDebug ------------------------------
(***************************************************************************)
(* The debugger of scripts (carp_lua_debug.hpp): CarpLuaDebugServer in the *)
(* program that runs the script, CarpLuaDebugClient in an editor.  In the  *)
(* program three threads meet: the script's, which waits at a break point, *)
(* that of the server's schedule, and the one that calls Start and Stop.   *)
(*                                                                         *)
(* TCP is what ConnectClient and ConnectServer make of it: a link carries  *)
(* messages both ways, in order, until it is cut, which either side learns *)
(* at a time of its own.  Lines are of one file, and numbered from 1; a    *)
(* number of 0 is an m_break_next_file_path that is empty.                 *)
(***************************************************************************)
EXTENDS Integers, Sequences, FiniteSets, SequencesExt

CONSTANT DebugLimits    \* bounds of the model: see MCServices

VARIABLE debug

vars == <<debug>>

Msg(id, lines) == [id |-> id, lines |-> lines]

NewClient ==
    [m_start |-> FALSE,
     at |-> "idle",             \* or "connecting", "connected", or in "wait" for the timer
     link |-> 0,
     m_break_points |-> {},
     calls |-> <<>>,            \* functions in its io_service's queue
     m_event_list |-> <<>>,
     shown |-> {}]              \* history: the line of the last BREAK_IN of this connection,
                                \* none after a BREAK_OUT

(* The server's CarpConnectServers are numbered by Start, 0 is null.       *)
Init ==
  \E limit \in DebugLimits :
    debug = [limit |-> limit,
             client |-> [c \in 1..limit.clients |-> NewClient],
             link |-> <<>>,
             m_server |-> 0,
             m_client |-> 0,            \* a link
             m_stopped |-> TRUE,
             m_break_points |-> {},
             m_break_next_line |-> FALSE,
             m_break_next_file_line |-> 0,
             hooked |-> FALSE,
             script |-> [at |-> "runs",     \* or "hook", "waits"
                         line |-> 0, notified |-> FALSE,
                         step |-> FALSE],   \* it waits after a step
             ready |-> <<>>,            \* handlers in the server's io_service's queue
             running |-> FALSE,         \* its thread is
             section |-> <<>>,          \* what its handler will do under m_break_mutex
             stop |-> "no",             \* the step at which Stop is
             starts |-> 0, steps |-> 0, calls |-> 0, cuts |-> 0,
             late |-> FALSE,            \* history: a client was attached, or break points
                                        \* were added, after Stop was called
             crashed |-> FALSE]

-----------------------------------------------------------------------------
(* Links, and the CarpConnectServers.                                      *)

Post(s, handler) == [s EXCEPT !.ready = Append(@, handler)]

Handler(kind, of, msg) == [kind |-> kind, of |-> of, msg |-> msg]

Nothing == Msg("", {})

Up(s, l, msg) == IF s.link[l].cut THEN s ELSE [s EXCEPT !.link[l].up = Append(@, msg)]

(* Receiver.Close: the read that waits ends, and is handled as a loss.     *)
ReadWaits(s, l) ==
    \A i \in DOMAIN s.ready : ~(s.ready[i].kind \in {"read", "lost"} /\ s.ready[i].of = l)

CloseReceiver(s, l) ==
    IF s.link[l].receiver # "open" THEN s
    ELSE LET t == [s EXCEPT !.link[l].receiver = "closed", !.link[l].cut = TRUE]
         IN  IF ReadWaits(s, l) THEN Post(t, Handler("lost", l, Nothing)) ELSE t

(* What is queued holds its server: an accept, a message that is posted,   *)
(* and the waits that its Close has ended.                                 *)
ServerOf(s, h) == IF h.kind = "closed" THEN h.of ELSE s.link[h.of].server

Alive(s, g) ==
    \/ s.m_server = g
    \/ \E i \in DOMAIN s.ready :
         s.ready[i].kind \in {"accept", "message", "closed"} /\ ServerOf(s, s.ready[i]) = g

Receivers(s, g) ==
    {l \in DOMAIN s.link : s.link[l].server = g /\ s.link[l].receiver = "open"}

CloseAll(s, links) == FoldSet(LAMBDA l, t : CloseReceiver(t, l), s, links)

(* The destructor of a server closes what it has accepted.                 *)
Released(s) ==
    CloseAll(s, UNION {Receivers(s, g) : g \in {h \in 1..s.starts : ~Alive(s, h)}})

(* CarpConnectServerImpl::Close, of the one in m_server.                   *)
CloseServer(s) ==
    LET g == s.m_server
        backlog == {l \in DOMAIN s.link : s.link[l].server = g /\ s.link[l].receiver = "backlog"}
        kept == {l \in backlog : \E i \in DOMAIN s.ready :
                                    s.ready[i].kind = "accept" /\ s.ready[i].of = l}
        refused == [l \in DOMAIN s.link |->
                      IF l \in backlog \ kept
                        THEN [s.link[l] EXCEPT !.receiver = "closed", !.cut = TRUE]
                        ELSE s.link[l]]
        t == Post([s EXCEPT !.link = refused], Handler("closed", g, Nothing))
    IN  [CloseAll(t, Receivers(s, g)) EXCEPT !.m_server = 0]

-----------------------------------------------------------------------------
(* Handlers of the server's schedule.  Most of them end with a section     *)
(* under m_break_mutex, a step of its own.                                 *)

Notified(s) == [s EXCEPT !.script.notified = s.script.at = "waits"]

Section(s, msg) ==
    CASE msg.id = "reset" -> Notified([s EXCEPT !.m_break_points = {}])
      [] msg.id = "add" -> [s EXCEPT !.m_break_points = @ \cup msg.lines,
                                     !.late = @ \/ s.m_stopped]
      [] msg.id = "remove" -> [s EXCEPT !.m_break_points = @ \ msg.lines]
      [] msg.id = "clear" -> [s EXCEPT !.m_break_points = {}]
      [] msg.id = "continue" -> Notified(s)
      [] msg.id = "next" -> Notified([s EXCEPT !.m_break_next_line = TRUE])

Reset == Msg("reset", {})

HandleClientConnect(s, l) ==
    IF s.m_client # 0 THEN CloseReceiver(s, l)
    ELSE [s EXCEPT !.m_client = l, !.section = <<Reset>>]

(* Mutant: whoever has gone, the client is forgotten. *)
ForgetAny(s, l) == [s EXCEPT !.m_client = 0, !.section = <<Reset>>]

HandleClientDisconnect(s, l) ==
    IF s.m_client # l THEN s ELSE [s EXCEPT !.m_client = 0, !.section = <<Reset>>]

HandleClientMessage(s, l, msg) ==
    IF s.m_client # l THEN s ELSE [s EXCEPT !.section = <<msg>>]

(* HandleAccept of a server that is closed, too, takes what had been       *)
(* accepted before.                                                        *)
HandleAccept(s, l) ==
    HandleClientConnect([s EXCEPT !.link[l].receiver = "open",
                                  !.late = @ \/ s.m_stopped \/ s.link[l].server # s.m_server], l)

HandleRead(s, l, msg) ==
    IF Alive(s, s.link[l].server) THEN Post(s, Handler("message", l, msg)) ELSE s

HandleLost(s, l) ==
    IF Alive(s, s.link[l].server) THEN HandleClientDisconnect(CloseReceiver(s, l), l) ELSE s

(* InBreak and OutBreak.  Stop may set m_client to null after their test.  *)
Tell(s, msg) ==
    IF s.m_client = 0 THEN {s}
    ELSE {IF s.link[s.m_client].receiver = "open" /\ ~s.link[s.m_client].cut
            THEN [s EXCEPT !.link[s.m_client].down = Append(@, msg)] ELSE s}
           \cup {[t EXCEPT !.crashed = TRUE] : t \in {u \in {s} : u.stop = "close"}}

Handled(s, h) ==
    CASE h.kind = "accept" -> {HandleAccept(s, h.of)}
      [] h.kind = "read" -> {HandleRead(s, h.of, h.msg)}
      [] h.kind = "message" -> {HandleClientMessage(s, h.of, h.msg)}
      [] h.kind = "lost" -> {HandleLost(s, h.of)}
      [] h.kind = "break" -> Tell(s, h.msg)
      [] h.kind = "closed" -> {s}

RunHandler ==
    /\ debug.running /\ debug.section = <<>> /\ debug.ready # <<>>
    /\ \E s \in Handled([debug EXCEPT !.ready = Tail(@)], Head(debug.ready)) :
          debug' = Released(s)

RunSection ==
    /\ debug.section # <<>>
    /\ debug' = [Section(debug, debug.section[1]) EXCEPT !.section = <<>>]

-----------------------------------------------------------------------------
(* The script's thread: DebugHookImpl.                                     *)

ScriptLine ==
    /\ debug.script.at = "runs" /\ debug.hooked /\ debug.steps < debug.limit.steps
    /\ \E line \in debug.limit.lines :
         debug' = [debug EXCEPT !.script.at = "hook", !.script.line = line, !.steps = @ + 1]

Break(s, step) ==
    Post([s EXCEPT !.script.at = "waits", !.script.step = step],
         Handler("break", 0, Msg("in", {s.script.line})))

HookTests ==
    /\ debug.script.at = "hook"
    /\ LET line == debug.script.line
       IN  debug' = IF line \in debug.m_break_points THEN Break(debug, FALSE)
                    ELSE IF line = debug.m_break_next_file_line
                      THEN Break([debug EXCEPT !.m_break_next_file_line = 0], TRUE)
                    ELSE [debug EXCEPT !.script.at = "runs", !.script.line = 0]

(* The wait has no condition: it ends by itself as well.                   *)
HookWakes ==
    /\ debug.script.at = "waits"
    /\ LET next == debug.m_break_next_line
           line == debug.script.line
       IN  debug' = Post([debug EXCEPT
                            !.script = [at |-> "runs", line |-> 0, notified |-> FALSE, step |-> FALSE],
                            !.m_break_next_line = FALSE,
                            !.m_break_next_file_line = IF next THEN line + 1 ELSE @],
                         Handler("break", 0, Msg("out", {})))

-----------------------------------------------------------------------------
(* Start and Stop, called by another thread than the script's, or by the   *)
(* script's while it runs.                                                 *)

Start ==
    /\ debug.m_stopped /\ debug.stop = "no" /\ debug.starts < debug.limit.starts
    /\ debug' = [debug EXCEPT !.hooked = TRUE, !.m_stopped = FALSE, !.running = TRUE,
                              !.starts = @ + 1, !.m_server = debug.starts + 1]

StopBegins ==
    /\ ~debug.m_stopped /\ debug.stop = "no" /\ debug.starts <= debug.limit.stops
    /\ debug' = [debug EXCEPT !.m_stopped = TRUE, !.stop = "lock"]

StopLocks ==
    /\ debug.stop = "lock"
    /\ debug' = Notified([debug EXCEPT !.m_break_points = {}, !.hooked = FALSE, !.stop = "test"])

StopTests ==
    /\ debug.stop = "test"
    /\ debug' = [debug EXCEPT !.stop = IF debug.m_client = 0 THEN "server" ELSE "close"]

StopCloses ==
    /\ debug.stop = "close"
    /\ debug' = IF debug.m_client = 0 THEN [debug EXCEPT !.crashed = TRUE]
                ELSE [CloseReceiver(debug, debug.m_client) EXCEPT !.m_client = 0,
                                                                  !.stop = "server"]

StopServer ==
    /\ debug.stop = "server"
    /\ debug' = [Released(CloseServer(debug)) EXCEPT !.stop = "exit"]

(* Exit waits for the thread, which leaves what is queued to another Start.*)
StopExits ==
    /\ debug.stop = "exit" /\ debug.section = <<>>
    /\ debug' = [debug EXCEPT !.stop = "no", !.running = FALSE]

-----------------------------------------------------------------------------
(* The editor's client.                                                    *)

Client(c) == debug.client[c]

StartClient(c) ==
    /\ Client(c).at = "idle"
    /\ debug' = [debug EXCEPT !.client[c].m_start = TRUE, !.client[c].at = "connecting"]

CutLink(s, l) == IF l = 0 THEN s ELSE [s EXCEPT !.link[l].cut = TRUE]

(* Not started again, it is an editor that is left.                        *)
CloseClient(c) ==
    /\ Client(c).m_start /\ debug.limit.closes
    /\ debug' = CutLink([debug EXCEPT !.client[c] = [NewClient EXCEPT !.at = "over"]],
                        Client(c).link)

Requests(lines) ==
    {Msg(id, {line}) : id \in {"add", "remove"}, line \in lines}
      \cup {Msg(id, {}) : id \in {"clear", "continue", "next"}}

(* AddBreakPoint, RemoveBreakPoint, ClearBreakPoint, DoContinue, DoNextLine*)
Execute(c) ==
    /\ Client(c).m_start /\ debug.calls < debug.limit.calls
    /\ \E msg \in Requests(debug.limit.lines) :
         debug' = [debug EXCEPT !.client[c].calls = Append(@, msg), !.calls = @ + 1]

BreakPoints(lines, msg) ==
    CASE msg.id = "add" -> lines \cup msg.lines
      [] msg.id = "remove" -> lines \ msg.lines
      [] msg.id = "clear" -> {}
      [] OTHER -> lines

(* What a client that is not connected sends is dropped, and nothing is    *)
(* sent to remove a break point of a file that has none.                   *)
RunCall(c) ==
    /\ Client(c).m_start /\ Client(c).calls # <<>>
    /\ LET msg == Head(Client(c).calls)
           s == [debug EXCEPT !.client[c].calls = Tail(@),
                              !.client[c].m_break_points = BreakPoints(@, msg)]
           silent == \/ Client(c).at # "connected"
                     \/ msg.id = "remove" /\ Client(c).m_break_points = {}
       IN  debug' = IF silent THEN s ELSE Up(s, Client(c).link, msg)

(* HandleConnectSucceed, with the message it sends.                        *)
ConnectSucceeds(c) ==
    /\ Client(c).at = "connecting" /\ debug.m_server # 0
    /\ Len(debug.link) < debug.limit.links
    /\ LET l == Len(debug.link) + 1
       IN  debug' = [debug EXCEPT
                       !.link = Append(@, [server |-> debug.m_server, receiver |-> "backlog",
                                           up |-> <<Msg("add", Client(c).m_break_points)>>,
                                           down |-> <<>>, cut |-> FALSE]),
                       !.client[c].at = "connected", !.client[c].link = l,
                       !.client[c].shown = {}]

(* HandleConnectFailed and HandleDisconnected, and the timer they set.     *)
ConnectFails(c) ==
    /\ Client(c).at = "connecting"
    /\ debug' = [debug EXCEPT !.client[c].at = "wait"]

Disconnected(c) ==
    /\ Client(c).at = "connected" /\ debug.link[Client(c).link].cut
    /\ debug' = [debug EXCEPT !.client[c].at = "wait", !.client[c].link = 0]

TimerOnce(c) ==
    /\ Client(c).at = "wait"
    /\ debug' = [debug EXCEPT !.client[c].at = "connecting"]

HandleMessage(c) ==
    /\ Client(c).at = "connected" /\ debug.link[Client(c).link].down # <<>>
    /\ LET event == Head(debug.link[Client(c).link].down)
       IN  debug' = [debug EXCEPT !.link[Client(c).link].down = Tail(@),
                                  !.client[c].m_event_list = Append(@, event),
                                  !.client[c].shown = event.lines]

HandleEvent(c) ==
    /\ Client(c).m_event_list # <<>>
    /\ debug' = [debug EXCEPT !.client[c].m_event_list = Tail(@)]

-----------------------------------------------------------------------------
(* The network and asio.                                                   *)

Accepts ==
    /\ debug.m_server # 0
    /\ ~\E i \in DOMAIN debug.ready :
          debug.ready[i].kind = "accept" /\ ServerOf(debug, debug.ready[i]) = debug.m_server
    /\ \E l \in DOMAIN debug.link :
          /\ debug.link[l].receiver = "backlog" /\ debug.link[l].server = debug.m_server
          /\ debug' = Post(debug, Handler("accept", l, Nothing))

Receives ==
    \E l \in DOMAIN debug.link :
      /\ debug.running /\ debug.link[l].receiver = "open" /\ ReadWaits(debug, l)
      /\ \/ /\ debug.link[l].up # <<>>
            /\ debug' = Post([debug EXCEPT !.link[l].up = Tail(@)],
                             Handler("read", l, Head(debug.link[l].up)))
         \/ /\ debug.link[l].cut
            /\ debug' = Post(debug, Handler("lost", l, Nothing))

LinkCut ==
    /\ debug.cuts < debug.limit.cuts
    /\ \E l \in DOMAIN debug.link :
          /\ ~debug.link[l].cut
          /\ debug' = [CutLink(debug, l) EXCEPT !.cuts = @ + 1]

Next ==
    /\ ~debug.crashed
    /\ \/ RunHandler \/ RunSection \/ ScriptLine \/ HookTests \/ HookWakes
       \/ Start \/ StopBegins \/ StopLocks \/ StopTests \/ StopCloses \/ StopServer \/ StopExits
       \/ Accepts \/ Receives \/ LinkCut
       \/ \E c \in DOMAIN debug.client :
            \/ StartClient(c) \/ CloseClient(c) \/ Execute(c) \/ RunCall(c)
            \/ ConnectSucceeds(c) \/ ConnectFails(c) \/ Disconnected(c) \/ TimerOnce(c)
            \/ HandleMessage(c) \/ HandleEvent(c)

Spec == Init /\ [][Next]_vars

-----------------------------------------------------------------------------
(* Nothing is under way between the script and the client that is attached.*)
Settled(c) ==
    LET l == Client(c).link
    IN  /\ Client(c).at = "connected" /\ Client(c).calls = <<>>
        /\ l = debug.m_client /\ ~debug.link[l].cut
        /\ debug.link[l].up = <<>> /\ debug.link[l].down = <<>>
        /\ debug.ready = <<>> /\ debug.section = <<>> /\ ~debug.m_stopped
        /\ ~debug.script.notified

(* However links are cut, refused and made anew, and wherever the script   *)
(* is meanwhile: when nothing is under way, the program's break points are *)
(* those of the editor that is attached, and the editor has been told, on  *)
(* this connection, that the script waits, and at which line, if and only  *)
(* if it does (carp_lua_debug.hpp:100 and 471).                            *)
EditorKnows ==
    \A c \in DOMAIN debug.client :
        Settled(c) =>
          /\ debug.m_break_points = Client(c).m_break_points
          /\ Client(c).shown = IF debug.script.at = "waits" THEN {debug.script.line} ELSE {}

(* Whoever is connected is attached; the client that is attached is there, *)
(* or the server will be told that it has gone, so that it cannot keep     *)
(* others out (line 358); and the script is not kept waiting when nobody is*)
(* attached to let it go on.  Except for a client or break points that a   *)
(* handler brings after Stop was called; and for a step: it is not         *)
(* forgotten when its client goes.                                         *)
AttachedIsThere ==
    ~debug.late =>
      /\ \A l \in DOMAIN debug.link : debug.link[l].receiver = "open" => l = debug.m_client
      /\ debug.m_client # 0 =>
           \/ debug.link[debug.m_client].receiver = "open"
           \/ \E i \in DOMAIN debug.ready :
                debug.ready[i].kind = "lost" /\ debug.ready[i].of = debug.m_client
      /\ debug.script.at = "waits" /\ ~debug.script.notified /\ debug.section = <<>> =>
           debug.m_client # 0 \/ debug.script.step
=============================================================================

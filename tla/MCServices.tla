----------------------------- MODULE MCServices -----------------------------
(***************************************************************************)
(* The HTTP client and server, the schedule, CarpNet, the Lua worker, the  *)
(* mixer, the UDP relays, the debugger, MySQL queries, the event consumer  *)
(* and the log, with the bounds under which they are checked.              *)
(* CarpNet has its schedule and its clients within it; otherwise the parts *)
(* share nothing, so they are checked one beside another: `part` tells     *)
(* which of them takes the steps of a behaviour.  The others stay as one   *)
(* of their initial states.                                                *)
(***************************************************************************)
EXTENDS Mixer

(* HTTP requests, by what is asked and how it is answered.                 *)

Get == [class |-> "Text", url |-> TRUE, content |-> FALSE, file |-> "none",
        file_size |-> 0, to_file |-> FALSE, status |-> "200", type |-> "length",
        size |-> 2, chunks |-> <<>>, space |-> FALSE, ssl |-> FALSE, endpoints |-> 1]

Chunked(class, chunks, space) ==
    [Get EXCEPT !.class = class, !.content = class = "Post", !.type = "chunk",
                !.size = 3, !.chunks = chunks, !.space = space]

Post == [Get EXCEPT !.class = "Post", !.file = "present", !.file_size = 1]

SmallRequests ==
    {Get, [Get EXCEPT !.url = FALSE], [Get EXCEPT !.endpoints = 2, !.ssl = TRUE],
     [Get EXCEPT !.type = "follow"], [Get EXCEPT !.status = "404", !.content = TRUE],
     [Get EXCEPT !.status = "none"], [Get EXCEPT !.to_file = TRUE],
     [Get EXCEPT !.to_file = TRUE, !.file = "missing"],
     Post, [Post EXCEPT !.content = TRUE, !.ssl = TRUE, !.type = "follow"],
     [Post EXCEPT !.file = "missing"], [Post EXCEPT !.status = "404"],
     [Post EXCEPT !.file = "none"], [Post EXCEPT !.file_size = 2]}
      \cup {Chunked(class, chunks, space) :
              class \in {"Text", "Post"}, chunks \in {<<1, 2>>, <<3>>}, space \in BOOLEAN}

-----------------------------------------------------------------------------
(* Limits of the HTTP server.                                              *)

Request0 == [method |-> "GET", head |-> 2, size |-> 0, value |-> FALSE,
             begin |-> 1, start |-> 0]

Limit(request, clients, starts, closes, calls, errors, ssl) ==
    [request |-> request, clients |-> clients, starts |-> starts, closes |-> closes,
     calls |-> calls, errors |-> errors, ssl |-> ssl]

Upload(size, value, begin, start) ==
    [Request0 EXCEPT !.method = "form", !.size = size, !.value = value,
                     !.begin = begin, !.start = start]

Content(method, head, size) ==
    [Request0 EXCEPT !.method = method, !.head = head, !.size = size]

SmallLimits ==
    {Limit(Request0, 1, 2, 1, 0, 1, FALSE),                 \* closed and started
     Limit(Request0, 2, 1, 0, 0, 0, TRUE),                  \* TLS
     Limit(Request0, 1, 1, 0, 2, 0, FALSE)}                 \* answers
      \cup {Limit(Content(m, h, size), 1, 1, 0, 0, 0, FALSE) :
              m \in {"OPTIONS", "POST", "unknown"}, h \in {2, 5}, size \in {0, 2}}
      \cup {Limit(Upload(2, FALSE, 1, 0), 1, 1, 1, 0, 0, FALSE),
            Limit(Upload(1, FALSE, 1, 0), 1, 1, 0, 1, 0, FALSE),
            Limit(Upload(0, FALSE, 1, 0), 1, 1, 0, 0, 0, FALSE),
            Limit(Upload(1, TRUE, 1, 0), 1, 1, 0, 0, 0, FALSE),
            Limit(Upload(2, FALSE, 1, 1), 1, 1, 0, 0, 0, FALSE),
            Limit(Upload(1, FALSE, 4, 0), 1, 1, 0, 0, 0, FALSE)}

PlainUpload == {Limit(Upload(2, FALSE, 1, 0), 1, 1, 1, 0, 0, FALSE)}

-----------------------------------------------------------------------------
(* Limits of CarpNet: an id that is used again, ids in two maps, two ids in*)
(* one, and timers and connections.                                        *)
Net(kinds, ids, requests, timers, connects) ==
    [kinds |-> kinds, ids |-> ids, requests |-> requests, timers |-> timers,
     connects |-> connects]

SmallNets ==
    {Net({"get"}, {1}, 3, 0, 0), Net({"post", "upload"}, {1}, 2, 0, 0),
     Net({"download"}, {1, 2}, 2, 0, 0), Net({}, {}, 0, 2, 1)}

(* Limits of the mixer: two chunks in stereo, one of them odd; another     *)
(* number of channels and endless loops; channels that are used again; and *)
(* a stream.                                                               *)
Mix(channels, setups, sizes, plays, loops, streams) ==
    [channels |-> channels, setups |-> setups, sizes |-> sizes, plays |-> plays,
     loops |-> loops, streams |-> streams]

SmallMixers ==
    {Mix({2}, 1, <<2, 3>>, 2, {1, 2}, {}), Mix({1, 2}, 2, <<2>>, 1, {0, 1}, {}),
     Mix({1}, 1, <<1>>, 3, {1}, {}), Mix({1}, 1, <<>>, 0, {}, {1, 2})}

(* Limits of the RTP server: made anew, with errors; passwords; and calls  *)
(* one after another.                                                      *)
Rtp(creates, calls, auths, datagrams, errors, expires) ==
    [creates |-> creates, calls |-> calls, auths |-> auths, datagrams |-> datagrams,
     errors |-> errors, expires |-> expires]

SmallRtps ==
    {Rtp(2, 1, 0, 1, 1, 0), Rtp(1, 2, 2, 0, 0, 1), Rtp(1, 2, 0, 2, 0, 0)}

(* Limits of the NAT server: two passwords, and made anew.                 *)
Nat2(creates, auths, datagrams) ==
    [creates |-> creates, auths |-> auths, datagrams |-> datagrams]

SmallNats == {Nat2(1, 2, 2), Nat2(2, 1, 2)}

(* Limits of the debugger: steps from line to line; a second client, with a*)
(* connection that is cut; a server that is made anew; and an editor that  *)
(* is left.                                                                *)
DebugLimit(clients, links, calls, steps, lines, starts, stops, cuts, closes) ==
    [clients |-> clients, links |-> links, calls |-> calls, steps |-> steps,
     lines |-> lines, starts |-> starts, stops |-> stops, cuts |-> cuts,
     closes |-> closes]

SmallDebugs ==
    {DebugLimit(1, 1, 2, 2, {1, 2}, 1, 0, 0, FALSE),
     DebugLimit(1, 2, 1, 1, {1}, 1, 0, 1, FALSE),
     DebugLimit(1, 2, 0, 1, {1}, 2, 1, 0, FALSE),
     DebugLimit(2, 2, 0, 1, {1}, 1, 0, 1, TRUE)}

-----------------------------------------------------------------------------
(* Statements, with the result the server answers them with, and limits of *)
(* queries: rows with a NULL; a statement that two queries share; one that *)
(* changes rows, and two in one; and plain queries.                        *)
Statement(params, rows, types, multi) ==
    [params |-> params, rows |-> rows, cols |-> Len(types), types |-> types, multi |-> multi]

Select == Statement(0, <<<<1, 2>>, <<3, -1>>>>, <<"long", "string">>, FALSE)
Find == Statement(1, <<<<1>>, <<2>>>>, <<"tiny">>, FALSE)
Insert == Statement(1, <<>>, <<>>, FALSE)
Several == Statement(0, <<<<1>>>>, <<"string">>, TRUE)

MysqlLimit(sqls, queries, plain, values, calls, faults, closes) ==
    [sqls |-> sqls, queries |-> queries, plain |-> plain, values |-> values,
     calls |-> calls, faults |-> faults, closes |-> closes]

SmallMysqls ==
    {MysqlLimit(<<Select>>, 1, 0, {}, 8, 1, FALSE),
     MysqlLimit(<<Find>>, 2, 0, {1, 2}, 8, 1, TRUE),
     MysqlLimit(<<Insert, Several>>, 1, 1, {1}, 7, 2, FALSE),
     MysqlLimit(<<Select, Several>>, 0, 1, {}, 7, 2, TRUE)}

-----------------------------------------------------------------------------
(* The parts, and what takes the steps of a behaviour.                     *)

VARIABLES part, client, server, schedule, net, worker, rtp, nat,
          debug, mysql, consumer, log

services == <<client, server, schedule, net, worker, mixer, rtp, nat>>
others == <<debug, mysql, consumer, log>>

allVars == <<part, services, others>>

Client == INSTANCE HttpClient WITH Requests <- SmallRequests, HEAD_BUFFER_SIZE <- 5

Server == INSTANCE HttpServer
            WITH Limits <- SmallLimits, ErrorCount <- 1,
                 HTTP_HEAD_BUFFER_SIZE_MAX <- 4, HTTPS_RECEIVE_FILE_SIZE_MAX <- 4

Timers == INSTANCE Schedule WITH RunLimit <- 2, TimerLimit <- 2

CarpNet == INSTANCE CarpNet WITH NetLimits <- SmallNets, ProgressLimit <- 1, EventLimit <- 2

Lua == INSTANCE LuaWorker WITH PostLimit <- 3, AnswerLimit <- 3

Rtp1 == INSTANCE RtpServer WITH RtpLimits <- SmallRtps

Nat1 == INSTANCE NatServer
          WITH NatLimits <- SmallNats, Endpoints <- {1, 2}, Passwords <- {"", "a", "b"}

Debugger == INSTANCE LuaDebug WITH DebugLimits <- SmallDebugs

Database == INSTANCE Mysql WITH MysqlLimits <- SmallMysqls

Events == INSTANCE EventConsumer WITH EventLimit <- 3, HandleLimit <- 4, DepthLimit <- 3

Lines == INSTANCE Log WITH DAY <- 3, TimeLimit <- 8, LineLimit <- 3, SetupLimit <- 2

-----------------------------------------------------------------------------
Parts == {"client", "server", "schedule", "net", "worker", "mixer", "rtp", "nat",
          "debug", "mysql", "events", "log"}

(* Of a part that stays where it is one initial state is enough.           *)
PartsInit ==
    /\ part \in Parts
    /\ Client!Init /\ (part # "client" => client.req = Get)
    /\ Server!Init /\ (part # "server" => server.limit = CHOOSE l \in SmallLimits : TRUE)
    /\ CarpNet!Init /\ (part # "net" => net.limit = CHOOSE l \in SmallNets : TRUE)
    /\ Timers!Init
    /\ Lua!Init
    /\ Init /\ (part # "mixer" => mixer.limit = CHOOSE l \in SmallMixers : TRUE)
    /\ Rtp1!Init /\ (part # "rtp" => rtp.limit = CHOOSE l \in SmallRtps : TRUE)
    /\ Nat1!Init /\ (part # "nat" => nat.limit = CHOOSE l \in SmallNats : TRUE)
    /\ Debugger!Init /\ (part # "debug" => debug.limit = CHOOSE l \in SmallDebugs : TRUE)
    /\ Database!Init /\ (part # "mysql" => mysql.limit = CHOOSE l \in SmallMysqls : l.queries = 0)
    /\ Events!Init
    /\ Lines!Init

ClientSteps ==
    /\ part = "client" /\ Client!Next
    /\ UNCHANGED <<part, others, server, schedule, net, worker, mixer, rtp, nat>>

ServerSteps ==
    /\ part = "server" /\ Server!Next
    /\ UNCHANGED <<part, others, client, schedule, net, worker, mixer, rtp, nat>>

ScheduleSteps ==
    /\ part = "schedule" /\ Timers!Next
    /\ UNCHANGED <<part, others, client, server, net, worker, mixer, rtp, nat>>

NetSteps ==
    /\ part = "net" /\ CarpNet!Next
    /\ UNCHANGED <<part, others, client, server, worker, mixer, rtp, nat>>

WorkerSteps ==
    /\ part = "worker" /\ Lua!Next
    /\ UNCHANGED <<part, others, client, server, schedule, net, mixer, rtp, nat>>

MixerSteps ==
    /\ part = "mixer" /\ Next
    /\ UNCHANGED <<part, others, client, server, schedule, net, worker, rtp, nat>>

RtpSteps ==
    /\ part = "rtp" /\ Rtp1!Next
    /\ UNCHANGED <<part, others, client, server, schedule, net, worker, mixer, nat>>

NatSteps ==
    /\ part = "nat" /\ Nat1!Next
    /\ UNCHANGED <<part, others, client, server, schedule, net, worker, mixer, rtp>>

DebugSteps ==
    /\ part = "debug" /\ Debugger!Next
    /\ UNCHANGED <<part, services, mysql, consumer, log>>

MysqlSteps ==
    /\ part = "mysql" /\ Database!Next
    /\ UNCHANGED <<part, services, debug, consumer, log>>

EventSteps ==
    /\ part = "events" /\ Events!Next
    /\ UNCHANGED <<part, services, debug, mysql, log>>

LogSteps ==
    /\ part = "log" /\ Lines!Next
    /\ UNCHANGED <<part, services, debug, mysql, consumer>>

PartsNext ==
    \/ ClientSteps \/ ServerSteps \/ ScheduleSteps \/ NetSteps
    \/ WorkerSteps \/ MixerSteps \/ RtpSteps \/ NatSteps
    \/ DebugSteps \/ MysqlSteps \/ EventSteps \/ LogSteps

PartsSpec == PartsInit /\ [][PartsNext]_allVars /\ Client!Fairness

(* The HTTP server with an upload alone.                                   *)
UploadSpec ==
    PartsInit /\ part = "server" /\ server.limit \in PlainUpload /\ [][PartsNext]_allVars

-----------------------------------------------------------------------------
(* The properties of the parts, which their modules explain.               *)

(* A request's complete function is called once, and then nothing goes on; *)
(* and a request that is stopped is completed.                             *)
CompletesOnce == Client!CompletesOnce /\ Client!StoppedEnds

(* What is reported as the content is the body of the response.            *)
ContentIsBody == part = "client" => Client!ContentIsBody

(* A request that has been read is handed to the application, once; and a  *)
(* file that is received is what was sent, and is reported once.           *)
RequestsHandled ==
    part = "server" => Server!RequestsHandled /\ Server!UploadsAccounted

(* What is written to the file is the file, without the form's last line.  *)
UploadsWithoutLastLine == Server!UploadsWithoutLastLine

(* No connection is kept for ever after its peer has gone.                 *)
ConnectionsWatched == part = "server" => Server!ConnectionsWatched

(* Every TimerOnce is called once, and every TimerLoop goes on; and the    *)
(* io_service does not run out of work before Exit.  Of CarpNet's requests *)
(* what is under way can be stopped, and what is over is forgotten.        *)
TimersAndRequestsKept ==
    /\ part = "schedule" => Timers!TimersKept
    /\ part = "net" => CarpNet!RequestsListed

(* The lists between the main thread and the Lua worker are queues, and    *)
(* only what is left after Stop is not executed by the worker; events are  *)
(* not lost by those that throw or handle events; and lines are written in *)
(* order and by days, unless there is no file on that day.                 *)
MessagesHandedOff ==
    /\ Lua!MessagesHandedOff
    /\ []((part = "worker" => Lua!DroppedByStopOnly)
          /\ (part = "events" => Events!EventsHandled)
          /\ (part = "log" => Lines!LinesKept))

(* A call's relay listens, authenticates and sends to its own endpoints;   *)
(* and what is relayed by the NAT server is between the target and a       *)
(* client with the password.                                               *)
RelayKept == /\ part = "rtp" => Rtp1!RelayKept
             /\ part = "nat" => Nat1!RelayedForClient

(* When nothing is under way the editor shows what the program does; and a*)
(* client that has gone keeps nobody out, and no script waiting.           *)
DebuggerAgrees ==
    part = "debug" => Debugger!EditorKnows /\ Debugger!AttachedIsThere

(* Queries are executed as asked, and read in full.                        *)
QueriesAnswered == part = "mysql" => Database!QueriesAnswered
=============================================================================

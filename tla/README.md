# ALittle-Carp in TLA+

ALittle-Carp is a header-only C++ library under a Lua game engine: threads that
consume lists, timers and events, TCP, RUDP (KCP over UDP), HTTP and RTP
transports on asio, and a number of codecs and wrappers.  It has no tests and no
documents; what it promises is in the comments of its headers (in Chinese), which
is what the findings below quote.  This directory holds TLA+ models of its
concurrent and distributed parts and of its main algorithms, the TLC runs that
check them on small instances, and TLAPS proofs of the invariants that matter
most.

## Inventory

What each component keeps, does, and has to get right.  `PROJECT.json` lists all
of them with their files, and "Not modelled" below says what is left aside.

| component | state | operations | hard because | correct when |
|---|---|---|---|---|
| CarpThreadConsumer | `m_list` under `m_mutex` and `m_cv`, `m_run`, `m_thread`, `temp_list` of the worker | Add, Start, Stop, Run | Add and Stop read `m_thread` and `m_list` without the mutex; the worker waits, with a time-out when it has to flush | each item is handled once, in order; Stop ends; nothing waits for ever |
| CarpTaskConsumer | `m_threads`, `m_index` | SetThreadCount, AddTask, Shutdown | destructors run while workers do | every task is executed or abandoned |
| CarpSafeIDCreator | `m_id_list`, `m_max_id` | CreateID, ReleaseID, IsEmpty | order of releases | an id in use is never handed out |
| CarpRudpServer, CarpRudpReceiver | socket, send queue, `m_outer_map`, id creator, two timers, a KCP per receiver | Start, Close, HandleRead, HandleSend, SendPocket, UpdateKcp, heartbeat | datagrams are lost, repeated and late; handlers run after Close | a session has a receiver of its own until it ends and gets its own data |
| CarpRudpClient | socket, session, KCP, connect timer, half a message | Connect, Close, SendPocket, handlers | completions of an old connection meet a new one | messages whole and in order; losses reported once |
| CarpConnectClient | socket, `m_is_connected`, `m_is_connecting`, `m_executing`, send queue, message buffer | Connect, Close, SendPocket, handlers | the same | the same |
| CarpConnectServer, CarpConnectReceiver | acceptor, receivers, handshake, frames | Start, Close, accept, read (binary or WebSocket), send | Close between two asynchronous steps; frames split and joined | messages reassembled, disconnection reported once |
| CarpTimer, CarpMiniHeap | heap of nodes, map of ids, clock | Add, Remove, Update, Poll, Clear | heap positions stored in the nodes | Poll returns what is due, earliest first |
| CarpEventDispatcher | listeners by type, types by listener, lock depth, deferred calls | Dispatch, Add, Remove, Clear | callbacks re-enter it | the two maps agree; deferred calls happen in order |
| CarpEventConsumer | locked list, a static list | PushEvent, HandleEvent | the static list outlives a call: events that throw or handle events | no event is lost, each handled once |
| CarpLog | a consumer's lines, today's file and midnight | Setup, Log, Shutdown, Execute | a file that fails or is closed on the same day; midnight | lines in order, in the file of their day |
| CarpSchedule | io_service, thread, one timer of each kind, a timer that keeps it busy | Run, RunOne, PollOne, TimerOnce, TimerLoop, Exit | one timer shared by all callers; handlers left over from an earlier run | each callback is called at its time, and the io_service does not run out of work |
| CarpHttpClientText, CarpHttpClientPost | a chain of handlers, buffers, retries over endpoints | SendRequest, Stop | Stop between two steps, responses cut anywhere | completed once, with the body of the response |
| CarpHttpServer | acceptor, receivers, senders, heartbeat | Start, Close, reading, uploads, answers | requests and files cut anywhere, Close at any step | a request is handed over once, a file is what was sent |
| CarpNet | a map of requests for each kind, by ids that Lua chooses; a list of events | Get, Post, Download, Upload, Stop; Connect; Poll, Run | ids used again while a request is under way | what is under way can be stopped |
| UDP, RTP and NAT servers | sockets, endpoints, passwords, timers | Create, Start, Stop, Close, relay | datagrams posted twice, handled after Close; calls one after another | packets are relayed within one call only |
| CarpMixer | channels and stream under `m_mutex` | Play, Stop, Shutdown, audio callback | the audio thread calls back under the mutex | each play is in one channel and reported once |
| CarpLuaWorker | two lists each way, of which one is locked, a thread | Post, Pull, Stop, Run | Stop touches what Run has released | messages in order |
| CarpLuaDebugServer, CarpLuaDebugClient | break points, stepping, the client that is attached; the editor's copy | Start, Stop, break points, continue and steps; the script's hook | three threads, connections that are cut and made anew | the editor shows what the script does, and the script is not kept waiting for nobody |
| CarpMysql | a connection, the statements prepared on it, queries and their results | Open, Execute, ReOpen, HasNext, Read, Close | lost connections at every call of the library; statements shared | what is asked is executed once, with its parameters |
| CarpMessage | a buffer; fields by type | serialize, deserialize, factories | versions of a type that differ | what both versions know is understood |
| CarpStringSet, CarpSquareJPS | a tree of ranges, a grid and a heap | insert, erase, find, combine; search | shared suffix nodes, pruning rules, boundaries | equal to a set, to reachability |
| CarpString, CarpCsv | none; a table | split, join, escape, UTF-8; read | words and quotes that end at the end | what was put together is taken apart |
| CarpJson | the fields of a class; rapidjson's values | write and read, as JSON, as texts by name, as strings with separators | versions of a class that differ, objects read into again | what was sent last is what is read |
| CarpCrypto | the context of a digest | XXTEA, Base64, SHA-1, MD5 | blocks, their ends and the length behind them | decoded is what was encoded; a digest is of the whole message |
| Audio codecs, CarpRtp | what is left of a frame, of a head, of each source | decode, encode, mix, convert a file | reads cut anything | what is written is what the file says |
| CarpRobot | a graph of nodes, their tensors, gradients of the parameters | add nodes, evaluate, Backward, update, invalidate, clear | calls in any order, shapes and memory | gradients are derivatives |

How they interact: handlers of asio run one at a time on the thread of the io_service
(CarpSchedule), in the order in which they were queued, so a component on it is a set of
handlers whose interleaving with the application's calls is what varies.  CarpNet owns a
CarpSchedule and the HTTP clients that run on it.  The RTP and NAT servers make a
CarpUdpServer for each of their sockets; the debugger's two sides are a
CarpConnectServer and a CarpConnectClient.  CarpLog and CarpTaskConsumer are
CarpThreadConsumers, which are called from any thread.  RUDP client and server meet on
the network only. CarpMiniHeap orders both the timers of CarpTimer and the open nodes of
CarpSquareJPS.

The hazards are in `PROJECT.json`, each with its line and the properties that
would show it going wrong.

## Modules

| module | models | run |
|---|---|---|
| `HandoffQueue` | what a consumer promises: a queue that hands each item off once, in order | (abstract) |
| `ThreadConsumer` | `carp_thread_consumer.hpp` | `consumer_and_client` |
| `ThreadConsumerProofs` | its theorems | |
| `TaskConsumer` | `carp_task_consumer.hpp` and the destructors | `task_shutdown` |
| `RudpNetwork` | the network, a socket's send pump | `rudp` |
| `RudpServer` | `carp_rudp_server.hpp`, and `carp_safe_id_creator.hpp` as operators | `rudp` |
| `RudpClient` | `carp_rudp_client.hpp`, a function of clients | `rudp` |
| `Rudp` | the composition, its properties and bounds | `rudp`, `rudp_close`, `rudp_loss` |
| `RudpProofs` | theorems of Rudp, the last that sessions are kept | |
| `ConnectClient` | `carp_connect_client.hpp` | `consumer_and_client`, `tcp_client_loss` |
| `ConnectClientProofs` | its theorems | |
| `ConnectServer` | `carp_connect_server.hpp` | `tcp_server`, `server_heartbeat` |
| `ConnectServerProofs` | its theorems | |
| `TimerQueue` | what a timer promises: the earliest due timer is reported, as often as asked | (abstract) |
| `MiniHeap` | `carp_miniheap.hpp`, as operators on a heap and its nodes | `algorithms` |
| `Timer` | `carp_timer.hpp` on the heap | `algorithms` |
| `TimerProofs` | its theorems, and what the calls of `MiniHeap` do | |
| `EventDispatcher` | `carp_event_dispatcher.hpp` | `algorithms` |
| `EventDispatcherProofs` | its theorems | |
| `Asio` | the operations of asio and the queue of their handlers, as operators (external), and `carp_udp_server.hpp` on them | (shared) |
| `HttpRequest` | what a request promises: one completion | (abstract) |
| `HttpClient` | `carp_http_client.hpp` | `services` |
| `HttpServer` | `carp_http_server.hpp` | `services`, `http_upload` |
| `Schedule` | `carp_schedule.hpp` | `services` |
| `CarpNet` | `carp_net_bind.hpp`, on Schedule and HttpRequest | `services` |
| `LuaWorker` | `carp_lua_worker.hpp`, two of HandoffQueue | `services` |
| `Mixer` | `carp_mixer.hpp` | `services` |
| `ServicesProofs` | the theorems of Mixer, LuaWorker, EventConsumer and Log | |
| `SequenceFacts` | facts about sequences, for the proofs of all but EventDispatcher | |
| `RtpServer`, `NatServer` | `carp_rtp_server.hpp`, `carp_nat_server.hpp` | `services` |
| `LuaDebug` | `carp_lua_debug.hpp`, both sides and the link | `services` |
| `Mysql` | `carp_mysql.hpp`; the library and the server external | `services` |
| `EventConsumer` | `carp_event_consumer.hpp` | `services` |
| `Log` | `carp_log.hpp`, on what ThreadConsumer promises | `services` |
| `SquareJPS` | `carp_square_jps.hpp`, on MiniHeap | `algorithms` |
| `StringSet` | `carp_string_set.hpp` | `algorithms` |
| `Message` | `carp_message.hpp` | `algorithms` |
| `Text` | `carp_string.hpp`, `carp_csv.hpp`, as operators | `algorithms` |
| `Json` | `carp_json.hpp` and one of the generated macros | `algorithms` |
| `Crypto` | `carp_crypto.hpp` | `algorithms` |
| `AudioConversion` | `carp_audio_conversion.hpp`, `carp_audio_codec.hpp`, `carp_rtp.hpp` | `algorithms` |
| `RobotGraph` | `carp_robot.hpp` | `algorithms`, `robot_products` |
| `MCConsumerAndClient`, `MCServices`, `MCAlgorithms` | bounds, and compositions in which `part` says which component takes the steps | `consumer_and_client`, `services`, `algorithms` |

### ThreadConsumer

A block of code under `m_mutex` is one action, and so is each step outside of it.
`adding[a]` is an Add of thread `a` between its test of `m_thread` and its push:
Stop may run in between, and then the item stays in the list until the next
Start.  `late` collects such items.  A push beside the drain of Stop, which takes
no mutex, is a data race of the code: it counts or it is overwritten.  The worker
is in `worker`, the caller of Start and Stop in `owner`.  With `timed` (the
template parameter WAIT_FOR_FLUSH_MS) the wait may time out.

Fairness: the operating system runs a thread that can run (weak fairness of the
worker's steps and of Stop's).  A timed wait is given strong fairness: the worker
leaves the wait at every notification and spurious wake-up and enters it again,
which must not keep it from ever timing out.  Nothing makes the owner or the
adders act.

### TaskConsumer

Shutdown as the four steps C++ makes of `delete thread`: the derived destructor
(after which the virtual functions are CarpThreadConsumer's, pure), the signal of
Stop, its join, the rest of the list.  It has one run, a finding.

### RUDP

`net` is the set of datagrams ever sent: one that stays is repeated, late or
lost, as the run goes on.  A client's datagrams bear its current socket; what is
addressed to an abandoned port is dropped.  KCP is external: what it guarantees
(segments in order, without gaps, of those fed to it) is `Contiguous`.  A message
is two segments, a head and a body, and HandleRead may find any number of either.

Each client has a queue of handlers of its io_service: a receive that ends
(`reads`) is `Pending` until the network or Close decides its result, and then
waits for its turn.  A handler that was queued before Close runs after it, with
the result it had.  `closing` splits the server's Close where it calls the
application.  Sessions come from `rand()`; the model takes fresh ones, or 0,
which `rand()` may return too.  Two sessions that `rand()` makes equal are not
modelled.  Of the message that HandleKcp puts together only how much there is
matters: `m_kcp_data_size` counts the segments of the incomplete one.

`SessionKept` excepts a client that is `late`: one that has taken an answer which a
socket received before it was closed.  HandleReceiveConnect does not look at where an
answer comes from, so a client that connects, is answered, closes and connects again
may go back to the session it has just ended, whose receiver the server removes when
the close request comes.  TLC shows it with three Connects of one client
(`Limit(3, 0, 2, 2, 0, 1, 1, 0)` without the exception); no comment of the code says
that it cannot be.

`limit` holds the bounds: how often each client connects, ids and sessions,
segments up and down, Starts and Closes of the server, sends of the application.
The run takes six combinations, each sized for one kind of interaction (`SmallLimits`);
all of them at once is out of reach.  The proofs have no bound.

`reports` is what the application of a client has been told: `owed` from
m_succeed_func to m_disconnected_func or its own Close, `stray` when it was told of a
loss that was not owed.  That this never is so the comments say (278 and 283), and it
is not true (`rudp_loss`): the receive of a socket that was closed ends after the next
Connect and is taken for a loss of the new attempt.  OrderlyDisconnectedOnce is about
clients that call Connect when no receive, send or timer of an earlier connection is
left (`orderly`), over whatever else fails or comes late.

`ServerCloseHeeded` says that a client which has been sent the close datagram, and got
it, is not connected.  Whether the datagram is sent before Close closes the socket is
not a property: it may be lost in any case.

`CHECK_DEADLOCK FALSE`: when the bounds are used up nothing is left to do.

### ConnectClient

The completions of an operation belong to its connection (`socket`) and wait in
the io_service's queue; `Close` aborts what has not ended.  Handlers do not know their
socket: one that was queued before Close runs on whatever the client has then.  The
properties about frames, overlapping operations and losses noticed are for a client
that sends only while connected, does not call Connect from within m_message_func, and
does not call it while an operation of an earlier connection that has succeeded is
queued (`orderly`): the handler of such a read goes on with the new socket and the old
memory.  Operations that failed or were aborted may be queued, of any number of
sockets; their handlers end an attempt to connect that has begun meanwhile, and a
connected client has none of them.  OrderlyLossReportedOnce asks for more, that nothing
at all was left at a Connect (`settled`); that the client's own comment does not make this
condition is the finding of `tcp_client_loss`.  The first half of EndsNoticed (an attempt
ends) holds without either.

Fairness: the io_service runs a queued handler; a connect attempt is answered or
refused by the system; the end of a connection ends a read.  The peer owes
nothing.

### ConnectServer

Written like ConnectClient: the program's state is the record `server`, a member
function an operator on it, and the handlers of operations that have ended run in
the order of the io_service's queue, on the thread that the application calls the
server from.  Acceptors and heartbeat timers are numbered by the Start that made
them, so what an old one left behind is told from the new.  A receiver's calls
of the application (a message, a connection, a disconnection) may each call
Start, Close, SendPocket or Close of a receiver again.

A byte is a unit <<message, place, size of its body>>, a head is two of them
(`HeadSize`), and the peer cuts the stream of its messages into frames as it
likes, with control frames between.  Whether a peer is taken for a WebSocket the code
decides by the first byte, 'G' (line 135): `StartsWithG` does, and a binary message whose
size begins with such a byte (`LikeG`) goes to the handshake, where it finds no key.
What the XOR mask, the length field and
the handshake's key compute is left out; their outcomes (which step is read
next, refusal) are nondeterministic.  `m_pocket_list` is counted up to `Many`.

States in which the code has undefined behaviour end the run (`fate`): an
operation on `*m_socket` after a callback closed the receiver, `remote_endpoint`
throwing at an accepted peer that has gone.  The properties that speak of an
open server are about running ones.  Two writes at once happen in the model, as
in the code, when a heartbeat is sent during a handshake.  Destroying the server
with handlers queued is not modelled.

`KeepsListening` is what keeps such a server in use: every receiver goes on
reading and has its handler, and while the server is open an accept waits,
whatever errors earlier ones ended with.

`CHECK_DEADLOCK FALSE`: a crashed program stops, and so does one that is closed
with its bounds used up.

### Timer

A pointer to a node is a number, and `node` is the memory: the fields of the
nodes that are allocated.  The sifting loops of `MiniHeap` are recursive functions
of the hole they move; every swap writes `heap_index` as the code does.  Places
count from 1, so the code's -1 is 0 and the parent of i is i \div 2.  One action
is one call, since CarpTimer belongs to one thread.  `answer` is the last call with
its result, and `EarliestFirst` compares it with what `TimerQueue` allows: the
refinement maps the ids of `m_map` to the fields of their nodes and forgets the
heap and the pool.

`Clear` deletes the nodes whose pointers stay in the heap.  A use of the heap
afterwards is undefined, so every action that would do it has the guard
`Intact`, and the invariants speak of such states only.  AddFails has both
reasons to fail, no id within `FindCount` tries and no memory for the heap.

`MaxId`, `FindCount` and `PoolLimit` are the code's literals, small enough here to
be reached: seven timers exhaust six ids, and the second node released finds the
pool full.  The bounds are in `limit`, one record for each kind of interaction: a
heap three levels deep (so that Erase has to move an element up into another
subtree), ids that run out, negative and zero arguments with a clock that is set
back, and loops.

### EventDispatcher

One thread; an action runs to the next callback or return of one.  `walks` is the
stack of dispatches, each with the place of its iterator (`at`), and `due` and
`called` record what EachCalledOnce speaks about.  A callback is the application:
it registers, dispatches again, drops references (`held`) or throws.  A listener
lives while the application or a dispatch that calls it (`listener`, line 38)
has a reference.  `wanted` is what the calls have asked for, in their order, and
is compared with the two maps when nothing is locked.  An exception leaves
`m_lock` above 0 for good, as the code does: what is put off then never takes
effect.  Exceptions inside the calls put off (bad_alloc) are not modelled.

`CHECK_DEADLOCK FALSE`: after `MaxCalls` calls the application is silent.

### HttpClient

The two classes are the same text but for what they send and how they read what
comes back, so `class` is a field of the request and a step that differs says for
which class it is.  `op` is the one asynchronous operation that is under way, or
the handler that waits.  Stop closes the socket, which ends the operation with an
error, at any step.  A response is a sequence of units, and a read returns any
number of them that the buffer has room for.  URLs, heads and files are abstract;
their outcomes are fields of the request.

The exceptions of the properties are cases in which the code does not do what one would
expect, and no comment promises it.  `ContentIsBody`: CarpHttpClientText drops a unit
too many when the CR LF after a chunk comes in two reads; both classes take a space
after a chunk's size for the end of the size line.  `CompletesOnce`, which asks a
stopped request to end: a form that has nothing to send waits for nothing, so that
nothing notices Stop; an endpoint that is connected after Stop may leave the TLS
handshake unanswered, and so may a server the shutdown.

Fairness: the io_service runs queued handlers, the system answers queries and ends
connection attempts, and Stop ends the operation under way.  A connected server may
be silent for ever.

### HttpServer

Like ConnectServer, with connections numbered.  A connection reads one request of a
kind (`method`), of which heads are cut at every place; a form's file is received
between the application's StartReceiveFile and its end, and the heartbeat may run at
any time.  Exceptions: a POST without content and an empty file are not complete
before something more is read; a form whose file part has its head in two reads, of
which the code counts the first part as file (this is the finding of `http_upload`);
a resumed upload, whose client announces the whole file but sends the rest; a value
in front of the file, which is written into it; the heartbeat of the receiver, which
closes the file and reports it to nobody.  Of a request that is refused because its head and
what came with it exceed HTTP_HEAD_BUFFER_SIZE_MAX RequestsHandled says nothing.

### Schedule and CarpNet

In `Schedule` the owner runs the io_service on a thread or in its own, or one handler
at a time, and calls Exit; the handlers that are left are found by the next Run.
`TimersAndRequestsKept` allows one thing: RunOne may leave the io_service stopped (`idle`), and
RunFull does not look at that.  Execute, which posts a function, is left out.

`CarpNet` composes a Schedule without a thread and requests as HttpRequest allows
them, which both HTTP clients implement (`CompletesOnce`).  Ids are Lua's: when one
is given to a second request while the first is under way, the first can no more be
stopped (`shared`), which TimersAndRequestsKept leaves out.

### LuaWorker, Mixer

Critical sections are actions, as in ThreadConsumer.  In `LuaWorker` each direction
is a HandoffQueue; a message that Stop executes after Run has released the Lua state
is `dropped`.  `Mixer` has the main thread, the audio thread and m_mutex; calls that
take the mutex twice, and Shutdown that holds it while SDL waits for the audio
thread, block in the model as they do in the code.  No comment denies it, so it is a
hazard of the list and not a finding, and PlaysAccounted speaks of the behaviours up
to there.

### RtpServer, NatServer

CarpUdpServer is a few operators of `Asio`, which both use.  A datagram is received,
posted again and then handed to the relay, so that it waits twice and much may change
meanwhile.  The relays make a new CarpUdpServer for each address.  A datagram as large
as the buffer ends the reading of its socket, as the code does: the socket is then
`deaf`, which RelayKept excepts.  Of a datagram only what its handler compares is kept:
the password or the side it says.

### LuaDebug

Three threads in the program (script, schedule, owner) and one for the editor; each
critical section of `m_mutex` is an action, and `section` is a handler of the schedule
between two of them.  TCP is a link that carries messages both ways, in order, until
it is cut, of which each side learns in its own time; ConnectClient and ConnectServer
are models of that.  Exceptions: what a handler brings after Stop was called (`late`),
and stepping, which is not forgotten when the client goes, so that the script waits
at its next line for nobody.  Left out: Start of a client after Close, m_in_break.

### Mysql

The library and the server are external: each call of the library may find the
connection lost, before the server executed what was asked, after it, or with the result
on its way.  What the model shows and the property excepts: a statement whose answer was
lost is executed again (974); a lost result is taken for an empty one (990); a NULL
reads as the cell fetched into the buffer before (1055).  Parameters pushed after a
failed Execute, and reads after it, use freed or uninitialized memory; such behaviours
end in `crashed`.  m_need_reset is read uninitialized (1136) and may be either.
ReadString takes any cell; each of the other functions takes a cell of its own type and
size and refuses the rest, which stay next (`Takes`): ReadLong refuses every LONG where
a C++ long has eight bytes, since libmysql gives a LONG four.  ExecuteQuery of several
statements leaves results pending, whereupon every later command fails until Close.
Left out: buffers that grow, the TryRead functions that lack a return, m_affect_count,
queries without a connection.

### EventConsumer, Log

HandleEvent swaps the pushed events into a static vector and walks that.  A swap
exchanges buffers, so `EventConsumer` keeps the two buffers apart from the two lists: an
event that calls HandleEvent puts the buffer that the outer call walks back among the
pushed events, which are called again; one that throws leaves its buffer where the next
call puts it back.  The compiled class does the same.  A buffer that moves or is cleared
under a walk is `undefined`, and the property ends there.

`Log` takes for granted what ThreadConsumer implements, a queue, and has the file of the
day.  Since only Execute sets m_cur_day, nothing is written from Shutdown and Setup, or
from an fopen that fails, to the end of the day; LinesKept says that it is no longer.
Midnight is an hour off at times, because CalcTodayBeginTime leaves tm_isdst to chance.

### SquareJPS, StringSet, Message

The search is one action for each turn of SearchRoute's loop, jumps are functions of the
cell, and the open list is a MiniHeap.  The set of open nodes that the code keeps
(open_set) is never consulted, so it is left out; the routes found are not always
shortest, and RoutesFound asks that they can be walked and are found when there is one.
A y beyond the map reads outside of it (the code clamps x instead, lines 102 and 107)
and is left out.  The definitions were compared with the compiled code on 26,549
searches and agreed.

In `StringSet` a node's children are below all characters of its range.  Combine
merges brothers whose children look alike one level down only; a string is lost then.
`alike` says that this has not happened yet, and IsASet speaks of such states only.

`Message` writes and reads each message in both ways (the templates and the factories)
with the reader's type a longer or shorter version of the writer's.  Left out:
files (WriteToStdFile writes the whole of m_memory, with a stale tail), integers of
other widths than int's, std::map, whose templates do not compile, and messages in
messages for the factories, which scripts write and read as they like.

### Text, Json, Crypto

These are operators on data, written by what they compute: characters are their codes,
bytes numbers under 256, and the loops that walk a string are functions of the place.
`Text` checks each of its cases once; a case is a list that is joined and split, a few
bytes that are taken for UTF-8, two texts that are escaped, or a table that is written
as RFC 4180 says and read.  The definitions were compared with the compiled code on some
thousand tables and strings of bytes, and agreed.  Excepted are what the code does not
do: a counting of words that goes beyond a string which ends within one, an empty
separator, a file of one character.  Counting the bytes of no words counts those of one,
as the loop of the code does.

`Json` has rapidjson's tree of values in place of its text.  A class is a list of
fields, as the macros have it, and the writer's may differ from the reader's in fields,
types and widths.  A long is cast to an int when it is written, and an unsigned long to
an unsigned int (lines 470-501): `AsWritten` does so, and what is read is the value
modulo 2^32 (of fewer bits in the cases).  Several versions may be read one after
another into one object, since reading does not always make it new.  Where no comment
promises that the value is kept, JsonKept says what becomes of it: a class or an array
that the last sender lacks is as the last one that had it said; the fields of strings
with separators, which are written by name and read by position (lines 1062 and 1085),
get the texts in their places; a vector of such strings is added to (1113), and one of a
single empty text is none.

In `Crypto` the mixing of XXTEA is the code's, on words of two bytes of 16 values; of
the digests a block is not mixed, so that a digest is the sequence of its blocks, and
DigestsWhole says which blocks these are.  Lengths are in two words of 128 and 2 values,
so that one that needs the second and one that is too long occur.

### AudioConversion

A file is read four bytes at a time, so that heads, frames of G.729 (three bytes), packages
and samples are cut everywhere.  The laws are computed as the code does and checked for
each sample of the bounds; on every code and a third of all samples they agreed with the
compiled functions.  bcg729 is external: a frame's samples are a function of its
bytes.  The decoder of RTP packages keeps the packets of each source and mixes them
when one has five, or at the end.  What an encoder to G.729 drops of each read is excepted.
Reads cut PCM samples in half when a head has an odd length, or the file ends within one.
The code then copies a byte more than its vector of shorts has room for (line 83), which is
undefined: the odd byte is lost, or the program may end (`crashed`; not while the vector still
has room of an earlier, larger read).  AudioKept says that this happens in those two cases only.

### RobotGraph

A number is a pair <<n, d>>: modulo small numbers, n stands for the value and d for its
derivative with respect to one watched element of a parameter (dual numbers).  The
code computes n only, forwards and backwards; GradientsExact compares what Backward
has gathered with the d that comes forwards, so that every Backward of a node is
checked against its Forward, in every shape of the cases, and the graph's
bookkeeping (m_evaluated_index, which nodes take part, nodes used twice, gradients
that gather until Update) against the sum of what was asked.  Where the reals have a
quotient, a root or a logarithm and the numbers modulo P do not, the behaviour ends
(`broken`).  It also ends where memory is written or read outside of what there is, or
read before it was written; GradientsExact says where alone that may be: a total that Set
has left, a Dim that has thrown, a label out of range, shapes that cannot be broadcast, a
Softmax of three dimensions.  Where Forward or Backward throws (Throws, BackwardThrows: a
view of a tensor that has too many dimensions) the call is over, nodes evaluated before
stay so, no gradient of a parameter has changed, and calls go on.  Excepted as well: a label
that changed under nodes evaluated before, and MeanElements, which divides by the
output's size forwards and the input's backwards.

The d of a node is the derivative of what the comment on its class says.  The
code multiplies tensors of one shape by adding them, in both directions (1401, 1456);
the model has their sum for n and the product's derivative for d.  That the gradients
are those of the product is ProductsMultiply, which is violated (`robot_products`), and
GradientsExact excepts the graphs in which such a node took part (`summed`).

## What the runs show

- `consumer_and_client` (54326 states): two components side by side.  Of the thread
  consumer 3 items, 2 adders, 2 Starts: enough for one item in the worker's hands, one
  in the list and one late.  Three items end; that items which never stop coming put off
  a flush for ever is not excluded.  Of the TCP client two connects and a Close, with
  two pockets or messages, so that aborted operations of the first socket are queued
  when the second connects.
- `task_shutdown` (violation): 2 tasks, 2 threads.
- `rudp` (1724889 states): no two receivers share a conv, a connected
  client's receiver is there and is its own, data and frames do not mix, the pump
  goes on, a connected client listens, a loss is reported once if the client connects in
  an orderly way.
- `rudp_close` (violation): the server's close datagram is discarded.
- `rudp_loss` (violation): a client is told of a loss by the aborted receive of a socket
  that it has closed itself.
- `tcp_client_loss` (violation): one loss is reported twice.
- `tcp_server` (694142 states): seven combinations of bounds, each for one kind of
  interaction: the binary protocol and a WebSocket that are closed while they read and
  write, three messages cut into frames at every place (one without a body, one too
  large), a binary message that is taken for a handshake, two clients, and a server
  closed and started again while accepts fail.
- `server_heartbeat` (violation): a heartbeat that did not wait for the timer.
- `algorithms` (1051654 states): ten components side by side.  Six timers in the heap,
  ids used again and used up, a full pool, loops, a clock set back: whatever is removed
  from the middle, no node leaks or is used twice, and Poll gives what `TimerQueue`
  gives, which needs the heap to be in order.  Routes on every map of three by three and
  on larger ones whose cells change; strings of three digits, long enough for Combine to
  meet grandchildren; messages between versions that know up to four fields; texts of a
  few characters; classes in a few versions; memory of two blocks and a byte, messages of up
  to 36 bytes in blocks of 8; files of a few reads; graphs of up to a handful of nodes with
  up to five calls.  Of the event dispatcher two
  listeners and two types, dispatches two deep, six calls: two listeners are enough for one
  behind and one ahead of the iterator, two dispatches for a nested one to end before the
  other.
- `robot_products` (violation): the gradient of a product of two tensors of one shape is
  not that of a product.
- `services` (521728 states): twelve components side by side, each with limits in
  `MCServices` that are small for one kind of interaction: requests of twenty kinds; one
  or two HTTP connections; two Runs and two timers; three requests whose ids collide;
  three messages each way; two plays on two channels, one and two channels; two calls
  of a relay; two editors; two queries on one statement and a fault or two;
  three events, handled three calls deep; three lines over two days of three hours.
- `http_upload` (violation): the last line of a form is written into the file.

Every property of a passing run has a mutant in `PROJECT.json`: a change of one
mapped definition that TLC finds to break it.

## What is proved

For all values of the constants, with TLAPS:

- `TypeCorrect`, `StopMissesOnlyLateItems`, `ImplementsHandoff`
  (`ThreadConsumerProofs`).  OnlyLateItemsStay is not inductive: StopReturn finds
  the list empty only because no worker and no timed swap can put anything back.
  The invariant adds `Positions`, which ties `worker`, `owner` and `m_thread`
  together.  The refinement is by `temp_list \o m_list`: Swap leaves it as it is
  because the worker swaps when its own list is empty, which `Positions` says too.
  Assumed: `ConsumerAssumption`.
- The RUDP transport (`RudpProofs`), for any number of clients, any limits, and a
  network that loses, repeats and reorders, from `NamesAssumption`: the server's address
  is no client's, and a pending or aborted receive has no datagram for its result.
  - `ConvsNeverShared`: the numbers in `m_outer_map` and the numbers in the creator's
    list are disjoint, without repetition, and are together 1 to the maximum.  It is
    inductive once the creator's type is added; the lemmas `CreateAccounts` and
    `ReleaseAccounts` carry it, the rest is that only three actions touch either.
  - `ReceiversGetTheirOwn`: every segment in a receiver bears the receiver's session,
    whatever the network delivers.
  - `FramesStayAligned`, `SocketsAreServed`, from one invariant, `IInv`.  It says of
    each client (`Local`): a receive that waits is on the present socket, and so is each
    one after it (`ReadsLocal`); its pump holds its own datagrams only (`PumpLocal`);
    Close and ExecuteDisconnectCallback leave it neither connecting nor connected; what
    it holds of a message is what its KCP has handed over (`Aligned`); a connected
    client has a receive, a KCP and a session (`Served`, `InSession`).  Of the server:
    while the pump executes a send is pending, unless one has failed, and without a
    socket it does not execute (`PumpServed`).  A client's step concerns its own record
    and the network only, so there is a lemma for each of the ten actions, and the
    others follow.
  - `DisconnectedAtMostOnce`, which is OrderlyDisconnectedOnce, from `IInv` and what a client's
    application has been told (`Told`): a connected client owes one report, and while one
    connects nothing is left that would make one (`NothingLeft`).
- `SessionsAreKept` (`RudpProofs`).  SessionKept speaks of two processes and of
  everything that may still be under way between them, so its invariant, `Kept`, says
  something of every session number wherever one is written: in `net`, in both pumps,
  in the results of receives that ended, in the receivers and in the clients.  `own` is
  what the proof remembers: to which client, and under which conv, each session was
  granted; the invariant of the specification is that there is such a memory (`SInv`).
  `Claim` is what holds of a session beside the endpoint it was found with: it was
  granted to that endpoint's client under that conv; the server has the receiver, or
  the session is over (closed by its client, or dropped by Close); and its client has
  closed it from no socket before that of the endpoint, which is what fails for a client
  that is `late`.  From this a connected client that has not closed its session has its
  receiver.  The client's steps and the server's are two families of lemmas
  (`ClientLeaves`, `ServerStepKept`), each of which shows that what was claimed before is
  still true (`Grows`, `Passed`) and that what is new is claimed rightly.  TLC checked
  `SInv` with `own` as a variable before it was proved.
- `ClientSound`, `MessagesInOrder`, `OperationsAlternate`, `LossOnce`
  (`ConnectClientProofs`): FramesInOrder, OneOperationEach and OrderlyLossReportedOnce
  of the TCP client, for any numbers of calls and messages.  The invariant is
  `Sound(client) /\ ~in_message`: a client whose application keeps to the order
  (`orderly`) is in a phase, which says what is under way.  `Shut`: it has no socket and
  nothing waits, though handlers may be queued.  `Opening`: nothing is read or written
  on the new socket yet; its connect waits or is queued behind the aborted operations of
  earlier sockets, of which there may be any number, and only the connect can have
  succeeded. (A client whose attempt one of those has ended is `Opening` still, though
  it is no longer connecting.)  `Open`: there is at most one read and one output
  (`Solo`), all of them of this socket, because the connect was last.  In each phase a
  read that got something is the only one (`Lone`), the memory is that of the message
  being read (`Memory`), and what is on the wire goes on where the last read ended, with
  each head followed by its body (`InStream`, `Aligned`).  None of the three properties
  is inductive without the phases: that there is no second read rests on every place
  that starts one being reached when the one before has ended.  LossOnce needs `settled`
  besides (`Reported`).  Assumed: `LimitsAssumption`.
- `ServerIsSettled`, `MessagesAreInOrder`, `LossIsReportedByOperations`,
  `ServerKeepsListening` (`ConnectServerProofs`): MessagesInOrder, ReportedByOperations
  and KeepsListening of the TCP and WebSocket server, for any number of clients, of
  messages and of their sizes, of frames and of calls.  None of the three is
  inductive.  The invariant, `Good(server) /\ Hearing(server, {}) /\ Accepting(server)`,
  says of each receiver:
  - `Lanes`: its operations are in two lanes, what is read (or the answer of the
    handshake, before which nothing is read) and the pockets written; a lane holds one
    operation at most, waiting or ended.  A receiver that has been told of a loss has no
    socket, so that nothing is begun in either lane again, and what it has been told and
    what is in the lanes are two together: ReportedByOperations.
  - `Ordered`: there is an m such that the messages up to the m-th have been handed over
    or are posted, in order and each once (`Counted`), and the operation in the reading
    lane was begun with the reader at the place in the stream where m messages and a
    part of the next have been taken (`ReadsAt`; `InHead` and `InBody` are the two parts
    a frame may end in).  The loops of HandleWebSocketReadData keep to it for any
    payload: of `StreamsTo` and `Carries` on, the payload is a stretch of the stream,
    and each round of the loop takes from it and moves the reader on in it
    (`Outcome`), until it is at the end or refuses.
  - `Hearing`: while the server runs, a receiver in m_outer_set that the application has
    not closed has something in its reading lane; `Accepting`: while it is open, an
    accept is under way; `Open`: a receiver in the set that is not closed has its socket.
    Within a handler they do not hold yet (the receiver it speaks of is excepted, the N
    of `Hearing`) and `Sound` is the part that does: Close of all receivers, SendPocket
    and the heartbeat, which go over the set, are shown to keep to it one receiver at a
    time.

  Assumed: `ReaderAssumption`, `LimitsAssumption`.
- `TypeCorrect`, `MapsAlwaysAgree`, `DispatchCallsEachOnce`, `PutOffCallsTakeEffect`
  (`EventDispatcherProofs`), for any numbers of listeners, types and nested
  dispatches, from `DispatcherAssumption`.  EachCalledOnce is inductive with the
  types, which say that the lock is at least the number of walks and that there
  is none while calls put off are performed: the maps change only between
  dispatches, except that EraseNext takes out a listener that has expired, of
  which nothing is asked.  MapsAgree is carried by `PerformKeepsMaps`, one case
  per registering function.  CallsTakeEffect compares the maps with what all calls
  together ask for; in between, `PutOffExplained` says that the last call put off for a
  listener and type decides, and if there is none the maps do, and `NothingPutOff` that
  the list is empty when nothing is locked.

- `TimerIsSound`, `NodesAreAccounted`, `TimerImplementsQueue` (`TimerProofs`):
  NodesAccounted and the refinement EarliestFirst, for any number of timers, any times
  and intervals, and any limits of ids and pool.
  - First what CarpMiniHeap computes, for a heap of any size.  `UpIs` and `DownIs` say
    where the loops leave every element, by induction over the place of the hole: the
    same nodes, each once (`Filled`: what is in the result comes from elsewhere in the
    heap, and the reverse), each with its place written in it, and a heap in which an
    element has gone up or down one path (`Raised`, `ComesDown`) is in order again.
    `PushIs`, `PopIs` and `EraseIs` put them together: the nodes are those there were,
    with one or without it, only `heap_index` is written, and the heap is in order.  In
    `EraseIs` the last element may have to go up or down from the hole, and never both;
    the slot given up may be the hole itself.  `RootLeast`: the first is due first.
  - Then the invariant, `IInv`, which adds to NodesAccounted that the heap is in order
    and that no node has 0 loops (or Poll would take it for its last time, and the
    queue would not).  Clear is why it has two cases: it deletes the nodes, and if there
    were timers their pointers stay in the heap (`Cleared`), where nothing but another
    Clear or the clock is a step.
  - Each call of the timer is a call of the queue; `Kept` says of the other timers that
    nothing about them changes.  Poll of the queue asks for the earliest, which is
    `RootLeast`, and PollNone that nothing is due, for which the first is enough.

  Assumed: `TimerAssumption` and `LimitsAssumption`: times and loops are integers.  The
  code's times have 64 bits, and a sum that they do not hold is undefined there.
- `PlaysAreAccounted` (`ServicesProofs`): PlaysAccounted of the mixer, for any number of
  channels, chunks and plays.  That each play is in one channel is not inductive: a play
  ends when its channel is cleared, and of it one has to know that no other channel
  plays it (`Alone`), that what it plays is not over and its chunk not freed (`Playing`),
  and that a play which is not over is in some channel (`Found`).  That it is reported
  once needs the array of functions that the audio thread keeps from one part of the
  callback to the next: a place in it is of a play that has been played to its end and
  not been reported (`ToReport`), no two are of the same (`Once`), a play without a
  report has its place (`Reported`), and the array is empty whenever the callback is not
  in the middle of it (`Pending`).  Stopping channels, freeing a chunk and collecting
  what has been played are one lemma (`EndedIsSound`), in which some channels are
  cleared and their plays are over.

  Assumed: `MixerAssumption` and `LimitsAssumption`.
- `IsTwoQueues`, `OnlyStopDrops` (`ServicesProofs`) of the Lua worker, from `PostLimit`
  and `AnswerLimit` in Nat.  The invariant is WorkerTypeOK and `Positions`, which ties
  the place of each thread to the lists; both ways are step simulations of a
  HandoffQueue, and the facts they need about two sequences that form one are in
  `SequenceFacts`.
- `EventsAreHandled` (`ServicesProofs`): EventsHandled of the event consumer, for any
  number of events, of calls of HandleEvent and of depths to which events make them.  The
  invariant, `ConsumerInv`, says of each loop that is not over that it is within its
  buffer and has called what it has passed (`InLoop`), and of the innermost that the list
  which is cleared at its end is its own buffer, all of it called by then, or one that is
  empty already because a call within has swapped and cleared it (`Innermost`); so no
  event is lost (`NoneLost`).  While no event handles events or throws, what waits
  continues what has been called, first the loop and then the other buffer (`InOrder`).
  It needs no assumption.
- `LinesAreKept` (`ServicesProofs`): LinesKept of the log, for any number of lines and
  days and for days of any length.  The invariant, `LogInv`, has the lines executed and
  those that wait as the numbers in order (`InTurn`), and bounds m_cur_day by the
  beginning of the day of the file, or of the day on which there was one last, and an
  hour (`DayOf`): a line which does not change the file then is of that day or of the
  first hour of the next.  The division into days is dealt with by `DayIs`, `DayGrows`
  and `DaySame`.  Assumed: `DayAssumption`, more than one hour in a day.

With the two theorems of the Lua worker these are all the parts of MessagesHandedOff.

The library's theorems of induction take an operator as a parameter and cannot be used.
Where a proof needs an induction over data it is over the numbers, by the least
element of a set of them without the fact (`WellFoundedInduction`), or over the finite
subsets of a set: that is how `Those`, FlattenSeq, FoldSet over m_outer_set, the loop of
HandleWebSocketReadData and those of the heap are dealt with, each a recursive function
or a fold.

Model-checked only:

- Liveness (EventuallyHandled, FlushedWhenIdle, EndsNoticed, and the liveness in
  CompletesOnce) and ENABLED: out of the prover's reach.
- Properties of other components of `services`: RequestsHandled, TimersAndRequestsKept,
  RelayKept, DebuggerAgrees, QueriesAnswered and their like.  Nothing forbids a proof;
  none has been made yet.
- Those of `algorithms` but the timer's and the event dispatcher's.  RoutesFound rests
  on the search of a map; `Text`, `Json`, `Crypto`, `AudioConversion`, `Message` and
  `StringSet` each compare a computation with its inverse or with a set, so that a proof
  would be one about arithmetic and data throughout, with hardly a step of a process in
  it.  Some are written with RECURSIVE operators, which the prover does not take.

The types of components without a proof are not
invariants of runs of their own: a field of another type would break the properties that
read it.

## Plan

In this order; each with its runs and theorems.

1. CarpThreadConsumer, RUDP, CarpConnectClient, CarpTaskConsumer: done.
2. CarpTimer on CarpMiniHeap, implementing `TimerQueue`: done and proved.
3. CarpEventDispatcher: done and proved.
4. CarpConnectServer: done and proved.
5. HTTP client and server, CarpSchedule and CarpNet: done.
6. UDP, RTP and NAT servers: done; CarpMixer and CarpLuaWorker: done and proved.
7. CarpStringSet, CarpSquareJPS, CarpMessage: done.
8. CarpLuaDebug, CarpMysql: done.
9. CarpString, CarpCsv, CarpJson, CarpCrypto, CarpRtp with the audio conversion,
   CarpRobot's graph: done.
10. Proofs of the invariants of RUDP, of the TCP client, of the TCP server, of the timer
   and of the mixer: done.  Not begun: TimersAndRequestsKept of the schedule.
11. CarpEventConsumer and the files of CarpLog: done and proved.

## Not modelled

- The rest of the generated JSON macros: each repeats, for another number of fields, the
  pattern that `Json` has for any.  One of them is mapped.
- Of CarpRobot: Dropout, convolution, pooling and random numbers (floating point that no
  modulus stands for), BinaryLogLoss (its Dim throws whatever it is given), the Adam
  trainer, serialisation; the layers and demonstrations built on the graph, and Darknet.
- What the digests mix in a block, the G.729 codec (external), and the speech features
  of carp_mfcc.hpp: arithmetic without control.
- The Lua glue (CarpScript and the `_bind` headers but CarpNet's): each function forwards
  to a class above.  CarpLuaProfiler and CarpLuaDecompile work on the internals of a Lua
  VM that is not part of the repository.
- CarpRedis and CarpSqlite: one command of a client library for each function;
  carp_sqlite.hpp does not compile (a parenthesis is missing at line 485).
- Images, fonts, files, processes, consoles, dumps, time and the other helpers of the
  operating system, and CarpMath2D: input and output or formulas without state.

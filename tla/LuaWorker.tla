----------------------------- MODULE LuaWorker -----------------------------
(***************************************************************************)
(* CarpLuaWorker (carp_lua_worker.hpp): a Lua state on a thread of its own.*)
(* The main thread posts messages to it and pulls what it has posted back. *)
(* Both ways the messages pass two lists, of which one is locked.          *)
(*                                                                         *)
(* Only the main thread calls PostToWorker, Pull and Stop.  Messages are   *)
(* numbered, those to the worker and those to the main thread.             *)
(***************************************************************************)
EXTENDS Integers, Sequences

CONSTANTS PostLimit,        \* messages to the worker
          AnswerLimit       \* messages to the main thread

VARIABLE worker

vars == <<worker>>

Init ==
    worker = [m_run |-> TRUE,
              m_thread |-> TRUE,        \* it is not null
              m_L |-> FALSE,
              at |-> "init",            \* of Run: or "test", "swap", "execute", "ended"
              stopping |-> "no",        \* Stop has got to "join" or "drain"
              m_push_list |-> <<>>, temp_list |-> <<>>,
              m_pull_list |-> <<>>, m_handle_list |-> <<>>,
              posted |-> 0, answers |-> 0,
              handled |-> <<>>,         \* history: messages that have been executed
              dropped |-> {},           \* history: of these, without a Lua state
              pulled |-> <<>>]          \* history

-----------------------------------------------------------------------------
(* The main thread.                                                        *)

Free == worker.stopping = "no"

PostToWorker ==
    /\ Free /\ worker.m_thread /\ worker.posted < PostLimit
    /\ worker' = [worker EXCEPT !.posted = @ + 1,
                                !.m_push_list = Append(@, worker.posted + 1)]

(* Mutant: the two lists are swapped whatever m_handle_list holds. *)
SwappedAlways(w) == [w EXCEPT !.m_handle_list = w.m_pull_list,
                              !.m_pull_list = w.m_handle_list]

Swapped(w) ==
    IF w.m_handle_list # <<>> THEN w
    ELSE [w EXCEPT !.m_handle_list = w.m_pull_list, !.m_pull_list = w.m_handle_list]

Pull ==
    /\ Free
    /\ LET w == Swapped(worker)
       IN  worker' = IF w.m_handle_list = <<>> THEN w
                     ELSE [w EXCEPT !.m_handle_list = Tail(@),
                                    !.pulled = Append(@, Head(w.m_handle_list))]

StopBegins ==
    /\ Free /\ worker.m_thread
    /\ worker' = [worker EXCEPT !.m_run = FALSE, !.stopping = "join"]

(* Mutant: the thread is not waited for. *)
Gone(w) == TRUE

Joined(w) == w.at = "ended"

StopJoins ==
    /\ worker.stopping = "join" /\ Joined(worker)
    /\ worker' = [worker EXCEPT !.m_thread = FALSE, !.stopping = "drain"]

(* What a call of the script may leave: it may post to the main thread.    *)
Invoke(w) ==
    {w} \cup {[t EXCEPT !.answers = @ + 1, !.m_pull_list = Append(@, t.answers + 1)] :
                t \in {u \in {w} : u.m_L /\ u.answers < AnswerLimit}}

(* Without a Lua state the message is lost. *)
Execute(w, message) ==
    Invoke([w EXCEPT !.handled = Append(@, message),
                     !.dropped = IF w.m_L THEN @ ELSE @ \cup {message}])

StopDrains ==
    /\ worker.stopping = "drain"
    /\ IF worker.m_push_list = <<>>
         THEN worker' = [worker EXCEPT !.stopping = "no"]
         ELSE worker' \in Execute([worker EXCEPT !.m_push_list = Tail(@)],
                                  Head(worker.m_push_list))

-----------------------------------------------------------------------------
(* The worker's thread.                                                    *)

RunBegins ==
    /\ worker.at = "init"
    /\ worker' \in Invoke([worker EXCEPT !.m_L = TRUE, !.at = "test"])

(* The test of m_run, outside of the lock; Release closes the Lua state.   *)
RunTests ==
    /\ worker.at = "test"
    /\ worker' = IF worker.m_run THEN [worker EXCEPT !.at = "swap"]
                                 ELSE [worker EXCEPT !.at = "ended", !.m_L = FALSE]

RunSwaps ==
    /\ worker.at = "swap"
    /\ worker' = [worker EXCEPT !.temp_list = worker.m_push_list,
                                !.m_push_list = worker.temp_list, !.at = "execute"]

(* What is in temp_list is executed before m_run is tested again, and the  *)
(* script's update is called.                                              *)
RunExecutes ==
    /\ worker.at = "execute"
    /\ IF worker.temp_list = <<>>
         THEN worker' \in Invoke([worker EXCEPT !.at = "test"])
         ELSE worker' \in Execute([worker EXCEPT !.temp_list = Tail(@)],
                                  Head(worker.temp_list))

Next ==
    \/ PostToWorker \/ Pull \/ StopBegins \/ StopJoins \/ StopDrains
    \/ RunBegins \/ RunTests \/ RunSwaps \/ RunExecutes

Spec == Init /\ [][Next]_vars

-----------------------------------------------------------------------------
ToWorker == INSTANCE HandoffQueue
              WITH Items <- 1..PostLimit,
                   queue <- worker.temp_list \o worker.m_push_list, done <- worker.handled

ToMain == INSTANCE HandoffQueue
            WITH Items <- 1..AnswerLimit,
                 queue <- worker.m_handle_list \o worker.m_pull_list, done <- worker.pulled

(* Both ways the lists implement one queue: every message is handed over   *)
(* once and in order, across the swaps of both threads and a Stop          *)
(* (carp_lua_worker.hpp:93, 120 and 169).                                  *)
MessagesHandedOff == ToWorker!Spec /\ ToMain!Spec

(* A message is executed by the script unless it is left when Stop has     *)
(* joined the thread: Execute then finds no Lua state.  What the worker    *)
(* has taken over is executed whatever Stop does meanwhile, and the Lua    *)
(* state is never that of two threads (carp_lua_worker.hpp:118).           *)
DroppedByStopOnly ==
    /\ worker.dropped # {} => ~worker.m_thread /\ ~worker.m_L
    /\ ~worker.m_thread => worker.at = "ended" /\ worker.temp_list = <<>>
=============================================================================

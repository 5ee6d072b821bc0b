---------------------------- MODULE TaskConsumer ----------------------------
(***************************************************************************)
(* CarpTaskConsumer (carp_task_consumer.hpp): tasks are dealt in turn to   *)
(* threads, each a CarpThreadConsumer whose steps ThreadConsumer.tla has   *)
(* in full; here a thread loops as Run does, a critical section at a time. *)
(*                                                                         *)
(* Shutdown deletes each thread.  ~CarpTaskThread has nothing to do; then  *)
(* ~CarpThreadConsumer calls Stop when the object is a CarpThreadConsumer  *)
(* only, whose Execute is pure and whose Abandon calls that: a call of     *)
(* either, by the worker or by Stop, ends the program.                     *)
(***************************************************************************)
EXTENDS Naturals, Sequences, FiniteSets

CONSTANTS Tasks, MaxThreads     \* MaxThreads bounds SetThreadCount

VARIABLES m_threads, m_index, given, outcome, shutdown, aborted

vars == <<m_threads, m_index, given, outcome, shutdown, aborted>>

(* A CarpTaskThread that has been started. *)
NewThread ==
    [m_list |-> <<>>, temp_list |-> <<>>, m_run |-> TRUE,
     at |-> "outer",        \* where its Run is
     derived |-> TRUE]      \* its virtual functions are CarpTaskThread's

Init ==
    /\ m_threads = <<>> /\ m_index = 0
    /\ given = {}                               \* tasks passed to AddTask
    /\ outcome = [t \in Tasks |-> "none"]
    /\ shutdown = "no"                          \* step of Shutdown's loop
    /\ aborted = FALSE                          \* std::terminate

Idle == ~aborted /\ shutdown = "no"

SetThreadCount(count) ==
    /\ Idle
    /\ m_threads' = m_threads \o
          [i \in 1..(count - Len(m_threads)) |-> NewThread]
    /\ UNCHANGED <<m_index, given, outcome, shutdown, aborted>>

(* m_index counts from 0 and outlives the threads. *)
AddTask(t) ==
    LET index == (m_index + 1) % Len(m_threads)
    IN  /\ Idle /\ t \notin given
        /\ given' = given \cup {t}
        /\ IF m_threads = <<>>
             THEN /\ outcome' = [outcome EXCEPT ![t] = "abandoned"]
                  /\ UNCHANGED <<m_threads, m_index>>
             ELSE /\ m_index' = index
                  /\ m_threads' = [m_threads EXCEPT
                        ![index + 1].m_list = Append(@, t)]
                  /\ UNCHANGED outcome
        /\ UNCHANGED <<shutdown, aborted>>

-----------------------------------------------------------------------------
(* A worker's Run.                                                         *)

Goes(i, to) == m_threads' = [m_threads EXCEPT ![i].at = to]

CheckRun(i) ==
    /\ ~aborted /\ m_threads[i].at = "outer"
    /\ Goes(i, IF m_threads[i].m_run THEN "locked" ELSE "ended")
    /\ UNCHANGED <<m_index, given, outcome, shutdown, aborted>>

(* The condition variable lets it pass when there are tasks or m_run has   *)
(* been reset.                                                             *)
TakeTasks(i) ==
    LET thread == m_threads[i]
    IN  /\ ~aborted /\ thread.at = "locked"
        /\ thread.m_list # <<>> \/ ~thread.m_run
        /\ m_threads' = [m_threads EXCEPT
              ![i] = [@ EXCEPT !.temp_list = thread.m_list, !.m_list = <<>>,
                               !.at = "executing"]]
        /\ UNCHANGED <<m_index, given, outcome, shutdown, aborted>>

ExecuteTask(i) ==
    LET thread == m_threads[i]
    IN  /\ ~aborted /\ thread.at = "executing" /\ thread.temp_list # <<>>
        /\ m_threads' = [m_threads EXCEPT ![i].temp_list = Tail(@)]
        /\ IF thread.derived
             THEN /\ outcome' = [outcome EXCEPT
                                    ![Head(thread.temp_list)] = "executed"]
                  /\ UNCHANGED aborted
             ELSE aborted' = TRUE /\ UNCHANGED outcome
        /\ UNCHANGED <<m_index, given, shutdown>>

LoopAgain(i) ==
    /\ ~aborted
    /\ m_threads[i].at = "executing" /\ m_threads[i].temp_list = <<>>
    /\ Goes(i, "outer")
    /\ UNCHANGED <<m_index, given, outcome, shutdown, aborted>>

-----------------------------------------------------------------------------
(* Shutdown: the first thread of m_threads is the one being deleted; those *)
(* already deleted have left the sequence, which the code clears last.     *)

BeginShutdown ==
    /\ Idle /\ m_threads # <<>> /\ shutdown' = "delete"
    /\ UNCHANGED <<m_threads, m_index, given, outcome, aborted>>

(* ~CarpTaskThread *)
DestroyDerived ==
    /\ ~aborted /\ shutdown = "delete"
    /\ m_threads' = [m_threads EXCEPT ![1].derived = FALSE]
    /\ shutdown' = "signal"
    /\ UNCHANGED <<m_index, given, outcome, aborted>>

(* ~CarpThreadConsumer: Stop, up to its join. *)
SignalStop ==
    /\ ~aborted /\ shutdown = "signal"
    /\ m_threads' = [m_threads EXCEPT ![1].m_run = FALSE]
    /\ shutdown' = "join"
    /\ UNCHANGED <<m_index, given, outcome, aborted>>

(* Once Run has ended, Stop abandons what is left. *)
JoinAndAbandon ==
    /\ ~aborted /\ shutdown = "join" /\ m_threads[1].at = "ended"
    /\ IF m_threads[1].m_list = <<>>
         THEN /\ m_threads' = Tail(m_threads)
              /\ shutdown' = IF Len(m_threads) = 1 THEN "no" ELSE "delete"
              /\ UNCHANGED aborted
         ELSE aborted' = TRUE /\ UNCHANGED <<m_threads, shutdown>>
    /\ UNCHANGED <<m_index, given, outcome>>

Next ==
    \/ \E count \in 1..MaxThreads : SetThreadCount(count)
    \/ \E t \in Tasks : AddTask(t)
    \/ BeginShutdown \/ DestroyDerived \/ SignalStop \/ JoinAndAbandon
    \/ \E i \in DOMAIN m_threads :
          CheckRun(i) \/ TakeTasks(i) \/ ExecuteTask(i) \/ LoopAgain(i)

Spec == Init /\ [][Next]_vars

-----------------------------------------------------------------------------
(* What carp_thread_consumer.hpp:57 and :63 say of Stop: it waits until    *)
(* the thread has ended normally, then the tasks that are left are         *)
(* abandoned.  No task is called through an object that is half destroyed. *)
ShutdownEndsNormally == ~aborted
=============================================================================

--------------------------- MODULE ThreadConsumer ---------------------------
(***************************************************************************)
(* CarpThreadConsumer<T, WAIT_FOR_FLUSH_MS> (carp_thread_consumer.hpp): a  *)
(* list protected by m_mutex and m_cv, a worker thread that swaps the list *)
(* out and executes it, any number of threads that call Add, and one       *)
(* owner thread that calls Start and Stop.                                 *)
(*                                                                         *)
(* A block of code under m_mutex is one action; what runs outside of the   *)
(* mutex (the m_thread test of Add, the m_run test of Run, every Execute,  *)
(* the drain loop of Stop) is a step of its own.                           *)
(***************************************************************************)
EXTENDS Naturals, Sequences, Functions

CONSTANTS Items,      \* what is handed to Add, each item once
          Adders,     \* the threads that call Add
          NoItem,     \* no Add in progress
          MaxStarts   \* bound of the model: calls of Start that find no thread

ASSUME ConsumerAssumption == NoItem \notin Items /\ MaxStarts \in Nat

VARIABLES
    timed,      \* WAIT_FOR_FLUSH_MS > 0, a template parameter
    m_run, m_thread, m_list,
    temp_list, flush,   \* the locals of Run
    worker,     \* where the worker thread stands in Run
    owner,      \* where the owner stands in Start or Stop
    adding,     \* per adder: the item of an Add that has passed the m_thread test
    used,       \* items given to Add so far
    done,       \* items executed or abandoned, oldest first
    late,       \* items that entered m_list after Stop had joined the worker
    dirty,      \* the worker has executed an item and has not flushed since
    starts

consumerVars == <<timed, m_run, m_thread, m_list, temp_list, flush, worker,
                  owner, adding, used, done, late, dirty, starts>>

WorkerStates ==
    {"none", "outer", "lock", "waiting", "notified", "executing", "exited"}
OwnerStates == {"idle", "joining", "draining"}

TypeOK ==
    /\ timed \in BOOLEAN /\ m_run \in BOOLEAN /\ m_thread \in BOOLEAN
    /\ m_list \in Seq(Items) /\ temp_list \in Seq(Items)
    /\ done \in Seq(Items)
    /\ flush \in BOOLEAN /\ dirty \in BOOLEAN
    /\ worker \in WorkerStates
    /\ owner \in OwnerStates
    /\ adding \in [Adders -> Items \cup {NoItem}]
    /\ used \in SUBSET Items /\ late \in SUBSET Items
    /\ starts \in Nat

ConsumerInit ==
    /\ timed \in BOOLEAN
    /\ m_run = FALSE /\ m_thread = FALSE
    /\ m_list = <<>> /\ temp_list = <<>> /\ done = <<>>
    /\ flush = FALSE /\ dirty = FALSE
    /\ worker = "none" /\ owner = "idle"
    /\ adding = [a \in Adders |-> NoItem]
    /\ used = {} /\ late = {}
    /\ starts = 0

-----------------------------------------------------------------------------
(* The condition variable.  Only the worker ever waits on m_cv, so notify  *)
(* one and notify all do the same.                                         *)

(* Mutant: the notification is left out. *)
NotifiesNobody == worker

Notified == IF worker = "waiting" THEN "notified" ELSE worker

-----------------------------------------------------------------------------
(* The threads that call Add.                                              *)

(* The unlocked test of m_thread: without a thread the item is dropped.    *)
AddCheck(a, i) ==
    /\ adding[a] = NoItem
    /\ i \notin used
    /\ used' = used \cup {i}
    /\ adding' = IF m_thread THEN [adding EXCEPT ![a] = i] ELSE adding
    /\ UNCHANGED <<timed, m_run, m_thread, m_list, temp_list, flush, worker,
                   owner, done, late, dirty, starts>>

(* The thread has passed the test and has not pushed its item yet. *)
InAdd(a) == adding[a] # NoItem

(* The locked part.  Stop drains m_list without the mutex: a push that     *)
(* runs beside the drain is a data race, whose outcomes are that the push  *)
(* counts or that it is overwritten.                                       *)
AddPush(a) ==
    /\ InAdd(a)
    /\ adding' = [adding EXCEPT ![a] = NoItem]
    /\ \/ m_list' = Append(m_list, adding[a])
       \/ owner = "draining" /\ m_list' = m_list
    /\ late' = IF m_thread THEN late ELSE late \cup {adding[a]}
    /\ worker' = Notified
    /\ UNCHANGED <<timed, m_run, m_thread, temp_list, flush, owner, used,
                   done, dirty, starts>>

-----------------------------------------------------------------------------
(* The owner thread.                                                       *)

Start ==
    /\ owner = "idle" /\ ~m_thread
    /\ starts < MaxStarts
    /\ starts' = starts + 1
    /\ m_run' = TRUE /\ m_thread' = TRUE
    /\ worker' = "outer"
    /\ temp_list' = <<>> /\ flush' = FALSE
    /\ UNCHANGED <<timed, m_list, owner, adding, used, done, late, dirty>>

StopSignal ==
    /\ owner = "idle" /\ m_thread
    /\ m_run' = FALSE
    /\ worker' = Notified
    /\ owner' = "joining"
    /\ UNCHANGED <<timed, m_thread, m_list, temp_list, flush, adding, used,
                   done, late, dirty, starts>>

(* Mutant: Stop returns once the worker is gone. *)
NothingLeft == "idle"

(* join, delete, m_thread = nullptr, and on to the loop over m_list. *)
DrainNext == "draining"

StopJoin ==
    /\ owner = "joining" /\ worker = "exited"
    /\ m_thread' = FALSE
    /\ worker' = "none"
    /\ owner' = DrainNext
    /\ UNCHANGED <<timed, m_run, m_list, temp_list, flush, adding, used,
                   done, late, dirty, starts>>

StopAbandon ==
    /\ owner = "draining" /\ m_list # <<>>
    /\ done' = Append(done, Head(m_list))
    /\ m_list' = Tail(m_list)
    /\ UNCHANGED <<timed, m_run, m_thread, temp_list, flush, worker, owner,
                   adding, used, late, dirty, starts>>

StopReturn ==
    /\ owner = "draining" /\ m_list = <<>>
    /\ owner' = "idle"
    /\ UNCHANGED <<timed, m_run, m_thread, m_list, temp_list, flush, worker,
                   adding, used, done, late, dirty, starts>>

-----------------------------------------------------------------------------
(* The worker thread, Run.                                                 *)

(* while (m_run): the unlocked test at the head of the outer loop. *)
RunOuter ==
    /\ worker = "outer"
    /\ flush' = FALSE
    /\ worker' = IF m_run THEN "lock" ELSE "exited"
    /\ UNCHANGED <<timed, m_run, m_thread, m_list, temp_list, owner, adding,
                   used, done, late, dirty, starts>>

(* Mutant: the list is copied, not swapped. *)
SwapByCopy ==
    /\ temp_list' = m_list
    /\ m_list' = m_list
    /\ worker' = "executing"

(* temp_list.swap(m_list), then the mutex is released. *)
Swap ==
    /\ temp_list' = m_list
    /\ m_list' = temp_list
    /\ worker' = "executing"

(* With the mutex: while (m_run && m_list.empty()) wait; then swap. *)
RunLocked ==
    /\ worker \in {"lock", "notified"}
    /\ IF m_run /\ m_list = <<>>
         THEN worker' = "waiting" /\ UNCHANGED <<m_list, temp_list>>
         ELSE Swap
    /\ UNCHANGED <<timed, m_run, m_thread, flush, owner, adding, used, done,
                   late, dirty, starts>>

(* A condition variable may wake its waiter without a notification. *)
RunSpuriousWake ==
    /\ worker = "waiting"
    /\ worker' = "notified"
    /\ UNCHANGED <<timed, m_run, m_thread, m_list, temp_list, flush, owner,
                   adding, used, done, late, dirty, starts>>

(* Mutant: a time-out is not remembered. *)
ForgetTimeout == flush' = flush

NoteTimeout == flush' = TRUE

(* wait_for returns timeout: the loop is left and the list swapped.        *)
RunTimeout ==
    /\ worker = "waiting" /\ timed
    /\ NoteTimeout
    /\ Swap
    /\ UNCHANGED <<timed, m_run, m_thread, owner, adding, used, done, late,
                   dirty, starts>>

(* Execute the front of temp_list and pop it. *)
RunExecute ==
    /\ worker = "executing" /\ temp_list # <<>>
    /\ done' = Append(done, Head(temp_list))
    /\ temp_list' = Tail(temp_list)
    /\ dirty' = TRUE
    /\ UNCHANGED <<timed, m_run, m_thread, m_list, flush, worker, owner,
                   adding, used, late, starts>>

(* if (flush) Flush(); and back to the head of the loop. *)
RunFlush ==
    /\ worker = "executing" /\ temp_list = <<>>
    /\ dirty' = (dirty /\ ~flush)
    /\ worker' = "outer"
    /\ UNCHANGED <<timed, m_run, m_thread, m_list, temp_list, flush, owner,
                   adding, used, done, late, starts>>

-----------------------------------------------------------------------------
ConsumerAdd == \E a \in Adders : AddPush(a) \/ \E i \in Items : AddCheck(a, i)
Stop == StopSignal \/ StopJoin \/ StopAbandon \/ StopReturn
Run == RunOuter \/ RunLocked \/ RunSpuriousWake \/ RunTimeout \/ RunExecute
           \/ RunFlush

ConsumerNext == ConsumerAdd \/ Start \/ Stop \/ Run

(* The scheduler runs every thread that can run.  A wait_for that is not   *)
(* cut short for ever by spurious wake-ups times out.  A spurious wake-up  *)
(* is never owed, a call of Start, Stop or Add neither.                    *)
Fairness ==
    /\ WF_consumerVars(RunOuter \/ RunLocked \/ RunExecute \/ RunFlush)
    /\ SF_consumerVars(RunTimeout)
    /\ WF_consumerVars(StopJoin \/ StopAbandon \/ StopReturn)

ConsumerSafeSpec == ConsumerInit /\ [][ConsumerNext]_consumerVars
ConsumerSpec == ConsumerSafeSpec /\ Fairness

-----------------------------------------------------------------------------
(* Properties.                                                             *)

(* The list, the worker's private list in front of it, is the queue.       *)
Handoff == INSTANCE HandoffQueue WITH queue <- temp_list \o m_list

(* Every item that enters the list is handled exactly once, in the order   *)
(* of the Adds, by whichever of the worker and Stop gets to it, across any *)
(* number of Stops and Starts.                                             *)
HandsOffInOrder == Handoff!Spec

(* When Stop has returned, the only items still in the list are those of   *)
(* an Add that passed its m_thread test before Stop cleared m_thread and   *)
(* pushed afterwards: the drain of Stop misses nothing else.               *)
OnlyLateItemsStay ==
    owner = "idle" /\ ~m_thread => Range(m_list) \subseteq late

(* No wake-up is lost: an item in the list of a started consumer is        *)
(* handled, by Run or by the drain of Stop; and Stop returns: the worker   *)
(* leaves its wait, ends and is joined.                                    *)
EventuallyHandled ==
    /\ \A i \in Items :
          (m_thread /\ i \in Range(m_list)) ~> (i \in Range(done))
    /\ owner = "joining" ~> owner = "idle"

(* With a flush interval, what was executed is flushed unless the          *)
(* consumer is stopped first.                                              *)
FlushedWhenIdle == (timed /\ dirty) ~> (~dirty \/ ~m_run)
=============================================================================

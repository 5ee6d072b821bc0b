--------------------------- MODULE EventConsumer ---------------------------
(***************************************************************************)
(* CarpEventConsumer (carp_event_consumer.hpp): threads push events, which *)
(* are functions, and one thread calls HandleEvent, which takes the list   *)
(* over and calls them.  The list they are taken into is static, so that   *)
(* it outlives the call, and an event that calls HandleEvent itself finds  *)
(* it with the events of the outer call.                                   *)
(*                                                                         *)
(* What swap exchanges are buffers: a loop over the static list goes on in *)
(* the buffer in which it began, whichever list has it by then.  A buffer  *)
(* that is cleared or moved while events in it are being called is         *)
(* undefined behaviour, after which nothing is said.                       *)
(***************************************************************************)
EXTENDS Integers, Sequences, SequencesExt

CONSTANTS EventLimit,   \* bounds of the model: events,
          HandleLimit,  \* calls of HandleEvent,
          DepthLimit    \* and how many of them within each other

VARIABLE consumer

vars == <<consumer>>

(* Events are numbered as they are pushed.                                 *)
Init ==
    consumer = [buffers |-> <<<<>>, <<>>>>,
                m_event_list |-> 1,     \* the buffer of each list
                event_list |-> 2,
                loops |-> <<>>,         \* of the calls of HandleEvent, the outermost first
                pushed |-> 0, calls |-> 0,
                handled |-> <<>>,       \* history: the events called,
                plain |-> TRUE,         \* whether none has thrown or called HandleEvent
                undefined |-> FALSE]

Buffer(list) == consumer.buffers[list]

Looped == {consumer.loops[i].buffer : i \in DOMAIN consumer.loops}

(* By any thread, or in an event. push_back may move the buffer.           *)
PushEvent ==
    /\ ~consumer.undefined /\ consumer.pushed < EventLimit
    /\ \E moved \in BOOLEAN :
         consumer' = [consumer EXCEPT
           !.pushed = @ + 1,
           !.buffers[consumer.m_event_list] = Append(@, consumer.pushed + 1),
           !.undefined = moved /\ consumer.m_event_list \in Looped]

(* Called when no event is, or in the event of the innermost loop.         *)
MayHandle ==
    consumer.loops # <<>> =>
        Last(consumer.loops).place > 0 /\ Len(consumer.loops) < DepthLimit

HandleEvent ==
    /\ ~consumer.undefined /\ MayHandle /\ consumer.calls < HandleLimit
    /\ consumer' = [consumer EXCEPT
         !.m_event_list = consumer.event_list,
         !.event_list = consumer.m_event_list,
         !.loops = Append(@, [buffer |-> consumer.m_event_list, place |-> 0,
                              last |-> Len(Buffer(consumer.m_event_list))]),
         !.plain = @ /\ consumer.loops = <<>>,
         !.calls = @ + 1]

(* The innermost loop calls its next event.                                *)
CallEvent ==
    /\ ~consumer.undefined /\ consumer.loops # <<>>
    /\ LET loop == Last(consumer.loops)
       IN  /\ loop.place < loop.last
           /\ consumer' = [consumer EXCEPT
                !.loops[Len(consumer.loops)].place = @ + 1,
                !.handled = Append(@, Buffer(loop.buffer)[loop.place + 1])]

(* event_list.resize(0), whichever buffer the list has now.                *)
LoopEnds ==
    /\ ~consumer.undefined /\ consumer.loops # <<>>
    /\ Last(consumer.loops).place = Last(consumer.loops).last
    /\ consumer' = [consumer EXCEPT
         !.loops = Front(@),
         !.buffers[consumer.event_list] = <<>>,
         !.undefined = \E i \in 1..(Len(consumer.loops) - 1) :
                          consumer.loops[i].buffer = consumer.event_list]

(* The exception leaves every call of HandleEvent; the list stays as it is.*)
EventThrows ==
    /\ ~consumer.undefined /\ consumer.loops # <<>> /\ Last(consumer.loops).place > 0
    /\ consumer' = [consumer EXCEPT !.loops = <<>>, !.plain = FALSE]

Next == PushEvent \/ HandleEvent \/ CallEvent \/ LoopEnds \/ EventThrows

Spec == Init /\ [][Next]_vars

-----------------------------------------------------------------------------
Waiting == ToSet(Buffer(1)) \cup ToSet(Buffer(2))

(* No event is lost, whatever events do: each that was pushed has been     *)
(* called or is in one of the lists, from which HandleEvent will take it.  *)
(* And unless one has thrown or called HandleEvent, they are called once   *)
(* each, as they were pushed.  (Otherwise those of the outer call, or those*)
(* called before the one that threw, are called again.)                    *)
EventsHandled ==
    ~consumer.undefined =>
        /\ 1..consumer.pushed \subseteq ToSet(consumer.handled) \cup Waiting
        /\ consumer.plain => consumer.handled = [i \in DOMAIN consumer.handled |-> i]
=============================================================================

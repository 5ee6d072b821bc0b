-------------------------- MODULE EventDispatcher --------------------------
(***************************************************************************)
(* CarpEventDispatcher (carp_event_dispatcher.hpp): listeners, held by     *)
(* weak pointers, register for types of events.  While an event is being   *)
(* dispatched the registration is locked: what the callbacks ask for is    *)
(* put off until the outermost dispatch is over.  Callbacks may dispatch,  *)
(* drop references to listeners, themselves included, and throw.           *)
(*                                                                         *)
(* One thread: an action runs up to the next callback or return of one.    *)
(***************************************************************************)
EXTENDS Integers, Sequences

CONSTANTS Listeners,    \* numbered as owner_less orders them
          Types,
          MaxDepth,     \* bounds of the model: nested dispatches ...
          MaxCalls      \* ... and calls of the application

ASSUME DispatcherAssumption == Listeners \subseteq Nat \ {0}

VARIABLES m_listener,   \* type -> its listeners, of the types that have a map
          m_object,     \* pairs of a listener and a type
          m_lock, m_lock_list,
          held,         \* the listeners the application has references to
          walks,        \* the dispatches under way, the outermost first
          unlocking,    \* Unlock is running m_lock_list
          wanted,       \* the pairs the calls have asked for so far
          calls

dispatcherVars == <<m_listener, m_object, m_lock, m_lock_list, held, walks,
                    unlocking, wanted, calls>>

DispatcherInit ==
    /\ m_listener = <<>> /\ m_object = {}
    /\ m_lock = 0 /\ m_lock_list = <<>>
    /\ held = Listeners
    /\ walks = <<>> /\ unlocking = FALSE
    /\ wanted = {} /\ calls = 0

(* A listener whose callback runs is held by the dispatch as well.         *)
Called(l) == \E i \in DOMAIN walks : walks[i].calling /\ walks[i].at = l

Alive(l) == l \in held \/ Called(l)

Listening(t) == IF t \in DOMAIN m_listener THEN m_listener[t] ELSE {}

-----------------------------------------------------------------------------
(* What the registering functions do when nothing is locked.               *)

(* Mutant: the type is not noted in m_object. *)
AddToListenersOnly(t, l) ==
    /\ m_listener' = [u \in DOMAIN m_listener \cup {t} |->
                        IF u = t THEN Listening(t) \cup {l} ELSE m_listener[u]]
    /\ UNCHANGED m_object

AddEventListener(t, l) ==
    IF Alive(l)
      THEN /\ m_listener' = [u \in DOMAIN m_listener \cup {t} |->
                                IF u = t THEN Listening(t) \cup {l}
                                         ELSE m_listener[u]]
           /\ m_object' = m_object \cup {<<l, t>>}
      ELSE UNCHANGED <<m_listener, m_object>>

(* The maps of `types` without l: one that is empty now is erased.         *)
WithoutListener(types, l) ==
    [u \in {v \in DOMAIN m_listener :
              v \in types => m_listener[v] \ {l} # {}} |->
        IF u \in types THEN m_listener[u] \ {l} ELSE m_listener[u]]

RemoveFromType(t, l) ==
    IF <<l, t>> \in m_object /\ t \in DOMAIN m_listener
      THEN /\ m_listener' = WithoutListener({t}, l)
           /\ m_object' = m_object \ {<<l, t>>}
      ELSE UNCHANGED <<m_listener, m_object>>

RemoveEventListener(l) ==
    /\ m_listener' = WithoutListener({t \in Types : <<l, t>> \in m_object}, l)
    /\ m_object' = {pair \in m_object : pair[1] # l}

ClearEventListener == m_listener' = <<>> /\ m_object' = {}

(* A call as it is put off: <<function, type, listener>>.                  *)
Calls(l) ==
    {<<"remove", 0, l>>, <<"clear", 0, 0>>}
      \cup {<<f, t, l>> : f \in {"add", "removeType"}, t \in Types}

AllCalls == UNION {Calls(l) : l \in Listeners}

Perform(call) ==
    CASE call[1] = "add" -> AddEventListener(call[2], call[3])
      [] call[1] = "removeType" -> RemoveFromType(call[2], call[3])
      [] call[1] = "remove" -> RemoveEventListener(call[3])
      [] call[1] = "clear" -> ClearEventListener

(* The pairs that a call is to leave registered.                           *)
Asked(call, pairs) ==
    CASE call[1] = "add" -> pairs \cup {<<call[3], call[2]>>}
      [] call[1] = "removeType" -> pairs \ {<<call[3], call[2]>>}
      [] call[1] = "remove" -> {pair \in pairs : pair[1] # call[3]}
      [] call[1] = "clear" -> {}

-----------------------------------------------------------------------------
Top == walks[Len(walks)]

(* The application is running: outside of any dispatch or in a callback.   *)
InApplication == ~unlocking /\ (walks # <<>> => Top.calling)

Counted == calls < MaxCalls /\ calls' = calls + 1

(* Mutant: only nested dispatches lock. *)
IsLockNested == m_lock > 1

IsLock == m_lock > 0

(* Mutant: the call that was put off last is to be performed first. *)
PutOffFirst(call) == m_lock_list' = <<call>> \o m_lock_list

PutOff(call) == m_lock_list' = Append(m_lock_list, call)

Register(call) ==
    /\ InApplication /\ Counted
    /\ call[1] = "add" => Alive(call[3])
    /\ wanted' = Asked(call, wanted)
    /\ IF IsLock
         THEN PutOff(call) /\ UNCHANGED <<m_listener, m_object>>
         ELSE Perform(call) /\ UNCHANGED m_lock_list
    /\ UNCHANGED <<m_lock, held, walks, unlocking>>

(* The application gives up its references to a listener.                  *)
Drop(l) ==
    /\ InApplication /\ Counted
    /\ l \in held
    /\ held' = held \ {l}
    /\ UNCHANGED <<m_listener, m_object, m_lock, m_lock_list, walks, unlocking,
                   wanted>>

(* `at` is the element the iterator has come to; `due` and `called` are    *)
(* the listeners of the type at the start and those called so far.         *)
DispatchEventImpl(t) ==
    /\ InApplication /\ Counted
    /\ Len(walks) < MaxDepth
    /\ m_lock' = m_lock + 1
    /\ walks' = Append(walks, [type |-> t, at |-> 0, calling |-> FALSE,
                               due |-> Listening(t), called |-> {}])
    /\ UNCHANGED <<m_listener, m_object, m_lock_list, held, unlocking, wanted>>

-----------------------------------------------------------------------------
(* The loop of DispatchEventImpl.                                          *)

Walking == ~unlocking /\ walks # <<>> /\ ~Top.calling

IsNext(l) ==
    /\ l \in Listening(Top.type) /\ l > Top.at
    /\ \A k \in Listening(Top.type) : k > Top.at => l <= k

CallNext(l) ==
    /\ Walking /\ IsNext(l) /\ Alive(l)
    /\ walks' = [walks EXCEPT ![Len(walks)] =
                   [Top EXCEPT !.at = l, !.calling = TRUE,
                               !.called = @ \cup {l}]]
    /\ UNCHANGED <<m_listener, m_object, m_lock, m_lock_list, held, unlocking,
                   wanted, calls>>

EraseNext(l) ==
    /\ Walking /\ IsNext(l) /\ ~Alive(l)
    /\ m_listener' = [m_listener EXCEPT ![Top.type] = @ \ {l}]
    /\ walks' = [walks EXCEPT ![Len(walks)].at = l]
    /\ UNCHANGED <<m_object, m_lock, m_lock_list, held, unlocking, wanted, calls>>

ReturnFromCallback ==
    /\ InApplication /\ walks # <<>>
    /\ walks' = [walks EXCEPT ![Len(walks)].calling = FALSE]
    /\ UNCHANGED <<m_listener, m_object, m_lock, m_lock_list, held, unlocking,
                   wanted, calls>>

(* An exception leaves every dispatch, and m_lock as it is.                *)
ThrowFromCallback ==
    /\ InApplication /\ walks # <<>>
    /\ walks' = <<>>
    /\ UNCHANGED <<m_listener, m_object, m_lock, m_lock_list, held, unlocking,
                   wanted, calls>>

LastUnlock(depth) == depth <= 0

Unlock ==
    /\ Walking /\ \A l \in Listening(Top.type) : l <= Top.at
    /\ walks' = SubSeq(walks, 1, Len(walks) - 1)
    /\ m_lock' = m_lock - 1
    /\ unlocking' = (LastUnlock(m_lock') /\ m_lock_list # <<>>)
    /\ UNCHANGED <<m_listener, m_object, m_lock_list, held, wanted, calls>>

(* Unlock runs the calls that were put off, the first one first; the list  *)
(* is cleared with the last.                                               *)
RunDeferred ==
    /\ unlocking
    /\ Perform(Head(m_lock_list))
    /\ m_lock_list' = Tail(m_lock_list)
    /\ unlocking' = (Len(m_lock_list) > 1)
    /\ UNCHANGED <<m_lock, held, walks, wanted, calls>>

DispatcherNext ==
    \/ \E call \in AllCalls : Register(call)
    \/ \E l \in Listeners : Drop(l) \/ CallNext(l) \/ EraseNext(l)
    \/ \E t \in Types : DispatchEventImpl(t)
    \/ ReturnFromCallback \/ ThrowFromCallback \/ Unlock \/ RunDeferred

DispatcherSpec == DispatcherInit /\ [][DispatcherNext]_dispatcherVars

-----------------------------------------------------------------------------
DispatcherTypeOK ==
    /\ DOMAIN m_listener \subseteq Types
    /\ \A t \in DOMAIN m_listener : m_listener[t] \subseteq Listeners
    /\ m_object \subseteq Listeners \X Types
    /\ m_lock \in Nat /\ Len(walks) <= m_lock
    /\ m_lock_list \in Seq(AllCalls)
    /\ held \subseteq Listeners
    /\ unlocking \in BOOLEAN
    /\ unlocking => walks = <<>> /\ m_lock_list # <<>>

(* The two maps agree: a listener that is registered for a type has the    *)
(* type in m_object, and one that has not expired is registered for every  *)
(* type it has there; only what has expired may differ.                    *)
MapsAgree ==
    \A l \in Listeners, t \in Types :
        /\ l \in Listening(t) => <<l, t>> \in m_object
        /\ Alive(l) /\ <<l, t>> \in m_object => l \in Listening(t)

(* The walk w has called those of its listeners, still referenced, that it *)
(* has passed, and no other; those before it are still registered.         *)
WalkSound(w) ==
    /\ Listening(w.type) \subseteq w.due /\ w.called \subseteq w.due
    /\ \A l \in w.due :
          /\ l \in w.called => l <= w.at
          /\ Alive(l) /\ l <= w.at => l \in w.called
          /\ Alive(l) /\ l > w.at => l \in Listening(w.type)

(* Whatever callbacks do, a dispatch calls the listeners that were there   *)
(* when it began, each once, in order, unless it has expired when its turn *)
(* comes: none of them goes before, and none is added.                     *)
EachCalledOnce == \A i \in DOMAIN walks : WalkSound(walks[i])

(* When nothing is locked the registered listeners that have not expired   *)
(* are those the calls have asked for, in their order, although some were  *)
(* put off by several dispatches within each other.                        *)
CallsTakeEffect ==
    ~IsLock /\ ~unlocking =>
        \A l \in Listeners, t \in Types :
            Alive(l) => (l \in Listening(t) <=> <<l, t>> \in wanted)
=============================================================================

----------------------------- MODULE TimerQueue -----------------------------
(***************************************************************************)
(* What CarpTimer promises (the comments of carp_timer.hpp:38-41 and       *)
(* 104-107): a set of timers, each with the time it is due, of which Poll  *)
(* reports a due one, the earliest first, or that there is none.           *)
(***************************************************************************)
EXTENDS Integers

VARIABLES timers,   \* id -> when it is due, how often (-1: for ever), period
          now,
          answer    \* the last call and what it returned

vars == <<timers, now, answer>>

Init == timers = <<>> /\ now = 0 /\ answer = <<"none", 0>>

Without(id) == [i \in DOMAIN timers \ {id} |-> timers[i]]

(* A timer gets a positive id that no other timer has. *)
Add(id, timer) ==
    /\ id > 0 /\ id \notin DOMAIN timers
    /\ timers' = [i \in DOMAIN timers \cup {id} |->
                     IF i = id THEN timer ELSE timers[i]]
    /\ answer' = <<"Add", id>>
    /\ UNCHANGED now

AddRefused == answer' = <<"Add", 0>> /\ UNCHANGED <<timers, now>>

Remove(id) ==
    /\ answer' = <<"Remove", IF id \in DOMAIN timers THEN id ELSE 0>>
    /\ timers' = Without(id)
    /\ UNCHANGED now

SetTime == now' \in Int /\ answer' = <<"Update", 0>> /\ UNCHANGED timers

Due(id) == timers[id].end_time <= now

PollNone ==
    /\ \A id \in DOMAIN timers : ~Due(id)
    /\ answer' = <<"Poll", 0>>
    /\ UNCHANGED <<timers, now>>

Poll(id) ==
    LET timer == timers[id]
        again == [timer EXCEPT !.end_time = @ + timer.interval_ms,
                               !.loop = IF @ > 0 THEN @ - 1 ELSE @]
    IN  /\ Due(id)
        /\ \A other \in DOMAIN timers : timer.end_time <= timers[other].end_time
        /\ IF timer.loop = 1
             THEN answer' = <<"Poll", -id>> /\ timers' = Without(id)
             ELSE answer' = <<"Poll", id>> /\ timers' = [timers EXCEPT ![id] = again]
        /\ UNCHANGED now

Clear == timers' = <<>> /\ answer' = <<"Clear", 0>> /\ UNCHANGED now

Next ==
    \/ \E id \in DOMAIN timers' : Add(id, timers'[id])
    \/ AddRefused
    \/ \E id \in DOMAIN timers \cup {0} : Remove(id)
    \/ SetTime \/ Clear
    \/ PollNone \/ \E id \in DOMAIN timers : Poll(id)

Spec == Init /\ [][Next]_vars
=============================================================================

------------------------------- MODULE Timer -------------------------------
(***************************************************************************)
(* CarpTimer (carp_timer.hpp) on CarpMiniHeap: the nodes of the timers are *)
(* found by id in m_map and by time in m_heap, and nodes that are not in   *)
(* use are kept in m_pool.  A pointer to a node is a number.               *)
(***************************************************************************)
EXTENDS MiniHeap, FiniteSets, Functions

CONSTANTS MaxId,        \* 0x7FFFFFFF
          FindCount,    \* 1000000
          PoolLimit,    \* 1000
          Limits        \* bounds of the model: how many timers, which ones

ASSUME TimerAssumption ==
    MaxId \in Nat \ {0, 1} /\ FindCount \in Nat \ {0} /\ PoolLimit \in Nat

(* Times and loops are integers. *)
ASSUME LimitsAssumption ==
    \A bounds \in Limits :
        /\ bounds.delays \subseteq Int /\ bounds.loops \subseteq Int
        /\ bounds.intervals \subseteq Int
        /\ bounds.frames \subseteq Int /\ bounds.clocks \subseteq Int

VARIABLES m_cur_time, m_max_id, m_heap, m_pool, m_map,
          node,     \* the nodes that are allocated
          answer,   \* the last call and what it returned
          limit,    \* the bounds of this behaviour
          adds

vars == <<m_cur_time, m_max_id, m_heap, m_pool, m_map, node, answer, limit, adds>>

Init ==
    /\ m_cur_time = 0 /\ m_max_id = 0
    /\ m_heap = <<>> /\ m_pool = <<>> /\ m_map = <<>>
    /\ node = <<>>
    /\ answer = <<"none", 0>>
    /\ limit \in Limits /\ adds = 0

Heap == [elements |-> m_heap, node |-> node]

-----------------------------------------------------------------------------
(* Nodes.                                                                  *)

CreateNode ==
    IF m_pool = <<>> THEN CHOOSE p \in 1..(Cardinality(DOMAIN node) + 1) :
                            p \notin DOMAIN node
                     ELSE m_pool[Len(m_pool)]

(* Mutant: the node is left in the pool. *)
PoolWith == m_pool

PoolWithout ==
    IF m_pool = <<>> THEN m_pool ELSE SubSeq(m_pool, 1, Len(m_pool) - 1)

With(f, x, v) == [y \in DOMAIN f \cup {x} |-> IF y = x THEN v ELSE f[y]]
Without(f, x) == Restrict(f, DOMAIN f \ {x})

(* ReleaseNode of p, when the pool is `pool`: a full pool deletes it.      *)
ReleaseNode(p, pool, nodes) ==
    IF Len(pool) > PoolLimit
      THEN m_pool' = pool /\ node' = Without(nodes, p)
      ELSE m_pool' = Append(pool, p) /\ node' = nodes

-----------------------------------------------------------------------------
(* The k-th id that Add looks at: after MaxId - 1 comes 1. *)
Candidate(k) == 1 + ((m_max_id + k - 1) % (MaxId - 1))

(* The search ends at the k-th id, or it fails.                            *)
Tried(k) ==
    /\ Candidate(k) \notin DOMAIN m_map
    /\ \A j \in 1..(k - 1) : Candidate(j) \in DOMAIN m_map

TriedAll == \A k \in 1..FindCount : Candidate(k) \in DOMAIN m_map

NewNode(id, delay_ms, loop, interval_ms) ==
    [end_time |-> m_cur_time + (IF delay_ms < 0 THEN 0 ELSE delay_ms),
     id |-> id, heap_index |-> 0,
     loop |-> IF loop <= 0 THEN -1 ELSE loop,
     interval_ms |-> IF interval_ms <= 0 THEN 1 ELSE interval_ms]

(* Clear deletes the nodes and leaves the pointers in m_heap: what a use   *)
(* of m_heap does then is undefined, and the model does not say.           *)
Intact == Range(m_heap) \subseteq DOMAIN node

Adding == Intact /\ adds < limit.adds /\ adds' = adds + 1

Add(delay_ms, loop, interval_ms) ==
    /\ Adding
    /\ \E k \in 1..FindCount :
          /\ Tried(k)
          /\ LET id == Candidate(k)
                 p == CreateNode
                 new == NewNode(id, delay_ms, loop, interval_ms)
                 heap == Push([Heap EXCEPT !.node = With(node, p, new)], p)
             IN  /\ m_max_id' = id /\ answer' = <<"Add", id>>
                 /\ m_heap' = heap.elements /\ node' = heap.node
                 /\ m_map' = With(m_map, id, p)
                 /\ m_pool' = PoolWithout
    /\ UNCHANGED <<m_cur_time, limit>>

(* No id is found, or m_heap cannot grow: the node goes back.              *)
AddFails(delay_ms, loop, interval_ms) ==
    /\ Adding
    /\ \E k \in 1..FindCount :
          /\ Tried(k) \/ (TriedAll /\ k = FindCount)
          /\ LET id == IF Tried(k) THEN Candidate(k) ELSE 0
                 new == NewNode(id, delay_ms, loop, interval_ms)
             IN  /\ m_max_id' = Candidate(k)
                 /\ ReleaseNode(CreateNode, PoolWithout,
                                With(node, CreateNode, new))
    /\ answer' = <<"Add", 0>>
    /\ UNCHANGED <<m_cur_time, m_heap, m_map, limit>>

Remove(id) ==
    /\ Intact
    /\ IF id \in DOMAIN m_map
         THEN LET heap == Erase(Heap, m_map[id])
              IN  /\ m_heap' = heap.elements
                  /\ ReleaseNode(m_map[id], m_pool, heap.node)
                  /\ m_map' = Without(m_map, id)
                  /\ answer' = <<"Remove", id>>
         ELSE answer' = <<"Remove", 0>> /\ UNCHANGED <<m_heap, m_map, m_pool, node>>
    /\ UNCHANGED <<m_cur_time, m_max_id, limit, adds>>

Update(frame_time) ==
    /\ m_cur_time + frame_time <= limit.time
    /\ m_cur_time' = m_cur_time + frame_time
    /\ answer' = <<"Update", 0>>
    /\ UNCHANGED <<m_max_id, m_heap, m_pool, m_map, node, limit, adds>>

(* The system's clock may have been set back.                              *)
UpdateCurTime(time) ==
    /\ m_cur_time' = time
    /\ answer' = <<"Update", 0>>
    /\ UNCHANGED <<m_max_id, m_heap, m_pool, m_map, node, limit, adds>>

PollNothing ==
    /\ Intact
    /\ m_heap # <<>> => node[m_heap[1]].end_time > m_cur_time
    /\ answer' = <<"Poll", 0>>
    /\ UNCHANGED <<m_cur_time, m_max_id, m_heap, m_pool, m_map, node, limit, adds>>

Poll ==
    LET p == m_heap[1]
        info == node[p]
        popped == Pop(Heap)
        again == [popped EXCEPT !.node[p].end_time = @ + info.interval_ms,
                                !.node[p].loop = IF @ > 1 THEN @ - 1 ELSE @]
    IN  /\ Intact /\ m_heap # <<>> /\ info.end_time <= m_cur_time
        /\ IF info.loop < 0 \/ info.loop > 1
             THEN /\ m_heap' = Push(again, p).elements
                  /\ node' = Push(again, p).node
                  /\ answer' = <<"Poll", info.id>>
                  /\ UNCHANGED <<m_map, m_pool>>
             ELSE /\ m_heap' = popped.elements
                  /\ m_map' = Without(m_map, info.id)
                  /\ ReleaseNode(p, m_pool, popped.node)
                  /\ answer' = <<"Poll", -info.id>>
        /\ UNCHANGED <<m_cur_time, m_max_id, limit, adds>>

Clear ==
    /\ m_map' = <<>> /\ m_pool' = <<>>
    /\ node' = [p \in DOMAIN node \ (Range(m_pool) \cup Range(m_map)) |-> node[p]]
    /\ answer' = <<"Clear", 0>>
    /\ UNCHANGED <<m_cur_time, m_max_id, m_heap, limit, adds>>

Next ==
    \/ \E delay_ms \in limit.delays, loop \in limit.loops,
          interval_ms \in limit.intervals :
          \/ Add(delay_ms, loop, interval_ms)
          \/ AddFails(delay_ms, loop, interval_ms)
    \/ \E id \in DOMAIN m_map \cup {0} : Remove(id)
    \/ \E frame_time \in limit.frames : Update(frame_time)
    \/ \E time \in limit.clocks : UpdateCurTime(time)
    \/ PollNothing \/ Poll
    \/ Clear

Spec == Init /\ [][Next]_vars

-----------------------------------------------------------------------------
(* Every node is either a timer's, in the heap at its place and in the map *)
(* under its id, or in the pool, and once in either: no node of            *)
(* the pool is reused while a timer has it, and none leaks.                *)
NodesAccounted ==
    Intact =>
        /\ Range(m_heap) = Range(m_map) /\ IsInjective(m_map)
        /\ Len(m_heap) = Cardinality(DOMAIN m_map)
        /\ \A i \in DOMAIN m_heap : node[m_heap[i]].heap_index = i
        /\ \A id \in DOMAIN m_map : node[m_map[id]].id = id
        /\ Range(m_pool) = DOMAIN node \ Range(m_map)
        /\ Len(m_pool) = Cardinality(Range(m_pool))

Timers ==
    [id \in DOMAIN m_map |->
        [end_time |-> node[m_map[id]].end_time, loop |-> node[m_map[id]].loop,
         interval_ms |-> node[m_map[id]].interval_ms]]

Queue == INSTANCE TimerQueue
           WITH timers <- Timers, now <- m_cur_time, answer <- answer

(* The timer does what its comments say: Poll returns 0 only when nothing  *)
(* is due, else the id of a timer that is due the earliest, negative when  *)
(* that was its last time; a timer comes back after its period as often as *)
(* it was asked to; no two timers have one id.                             *)
EarliestFirst == Queue!Spec
=============================================================================

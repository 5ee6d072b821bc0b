----------------------------- MODULE SquareJPS -----------------------------
(***************************************************************************)
(* CarpSquareJPS (carp_square_jps.hpp): jump point search on a grid.  The  *)
(* nodes are in a CarpMiniHeap (open_list), which orders them by end_time, *)
(* here their estimate f.  One step is one turn of SearchRoute's loop.     *)
(* Left out: the words of m_map that hold the bits, and m_node_pool, the   *)
(* memory of the nodes.  A cell is <<x, y>>.                               *)
(***************************************************************************)
EXTENDS MiniHeap, FiniteSets, FiniteSetsExt, SequencesExt

CONSTANT Maps   \* bounds of the model: maps, what is searched, how often one changes

VARIABLE jps

s_carp_square_straight_cost == 10
s_carp_square_hypotenuse_cost == 10

Cells == (0..(jps.m_width - 1)) \X (0..(jps.m_height - 1))
Blocked(c) == c \in jps.m_map
IsEmpty(c) == c \in Cells \ jps.m_map

(* The cell k steps from c in the direction d.                             *)
Step(c, d, k) == <<c[1] + k * d[1], c[2] + k * d[2]>>

(* The two sides of a straight direction.                                  *)
Sides(d) == {<<d[2], d[1]>>, <<-d[2], -d[1]>>}

(* How far a cell may be from another.                                     *)
Steps == 1..(Max({2, jps.m_width, jps.m_height}) - 1)

Nothing == <<>>

(* open_list with its nodes, and the cells in close_map.                   *)
NoNodes == [elements |-> <<>>, node |-> <<>>, closed |-> {}]

Init ==
    \E m \in Maps :
        jps = [m_width |-> m.width, m_height |-> m.height, m_map |-> m.blocked,
               open_list |-> NoNodes, start |-> Nothing, goal |-> Nothing,
               result |-> "none", route |-> <<>>, map |-> m, edits |-> 0]

-----------------------------------------------------------------------------
(* SearchHDir and SearchVDir: the first cell in a straight direction that  *)
(* is the goal, or where an obstacle at a side ends.                       *)
Stops(p, d) ==
    \/ p = jps.goal
    \/ \E s \in Sides(d) : Blocked(Step(Step(p, d, -1), s, 1)) /\ IsEmpty(Step(p, s, 1))

JumpPoint(c, d) ==
    LET Free(k) == \A j \in 1..k : IsEmpty(Step(c, d, j))
        found == {k \in Steps : Free(k) /\ Stops(Step(c, d, k), d)}
    IN  IF found = {} THEN Nothing ELSE Step(c, d, Min(found))

Abs(n) == Max({n, -n})

(* What is left from p to the goal, when nothing is in the way.            *)
Estimate(p, goal) ==
    LET delta == {Abs(p[1] - goal[1]), Abs(p[2] - goal[2])}
    IN  Min(delta) * s_carp_square_hypotenuse_cost + Max(delta) * s_carp_square_straight_cost

(* A new node at p, reached from the node `parent` (0 for none).           *)
PushNode(h, p, cost, parent, goal) ==
    LET n == [at |-> p, g |-> cost, end_time |-> cost + Estimate(p, goal),
              parent |-> parent, heap_index |-> 0]
    IN  Push([h EXCEPT !.node = Append(@, n)], Len(h.node) + 1)

(* TryAddHNode and TryAddVNode.                                            *)
TryAdd(h, parent, p) ==
    LET from == h.node[parent]
    IN  IF p = Nothing \/ p \in h.closed THEN h
        ELSE PushNode(h, p, from.g + Abs(p[1] - from.at[1]) + Abs(p[2] - from.at[2]),
                      parent, jps.goal)

(* The diagonal search stops at an obstacle, beside one, or at a closed    *)
(* node; it adds the goal, or the first cell that has a jump point straight*)
(* on in x or in y, and these.                                             *)
SearchHVDir(h, cur, d) ==
    LET c == h.node[cur].at
        H == <<d[1], 0>>
        V == <<0, d[2]>>
        Passes(p) == /\ p \notin h.closed /\ IsEmpty(p)
                     /\ IsEmpty(Step(p, V, -1)) /\ IsEmpty(Step(p, H, -1))
        Target(p) == p = jps.goal \/ JumpPoint(p, H) # Nothing \/ JumpPoint(p, V) # Nothing
        found == {k \in Steps : /\ \A j \in 1..k : Passes(Step(c, d, j))
                                /\ Target(Step(c, d, k))}
        p == Step(c, d, Min(found))
        added == PushNode(h, p, h.node[cur].g + s_carp_square_hypotenuse_cost, cur, jps.goal)
        target == Len(added.node)
    IN  IF found = {} THEN h
        ELSE IF p = jps.goal THEN added
        ELSE TryAdd(TryAdd(added, target, JumpPoint(p, H)), target, JumpPoint(p, V))

Search(h, cur, d) ==
    IF d[1] # 0 /\ d[2] # 0 THEN SearchHVDir(h, cur, d)
    ELSE TryAdd(h, cur, JumpPoint(h.node[cur].at, d))

-----------------------------------------------------------------------------
(* Where SearchRoute searches from a node, and in which order.             *)

Sign(a, b) == IF a < b THEN 1 ELSE -1

AllDirections(c) ==
    LET x == Sign(c[1], jps.goal[1])
        y == Sign(c[2], jps.goal[2])
    IN  << <<x, 0>>, <<-x, 0>>, <<0, y>>, <<0, -y>>,
           <<x, y>>, <<x, -y>>, <<-x, y>>, <<-x, -y>> >>

(* Mutant: a straight search goes straight on only. *)
OnOnly(c, d, left, right) == <<d>>

(* Reached straight on: on, and past the obstacles that end at its sides.  *)
(* A vertical search does not ask whether the side itself is free.         *)
Straight(c, d, left, right) ==
    LET Ends(s) == /\ Blocked(Step(Step(c, d, -1), s, 1))
                   /\ IsEmpty(IF d[2] = 0 THEN Step(c, s, 1) ELSE Step(c, d, -1))
        sides == SelectSeq(<<left, right>>, Ends)
    IN  <<d>> \o sides \o [i \in DOMAIN sides |-> Step(d, sides[i], 1)]

Directions(h, cur) ==
    LET n == h.node[cur]
        x == Sign(h.node[n.parent].at[1], n.at[1])
        y == Sign(h.node[n.parent].at[2], n.at[2])
    IN  IF n.parent = 0 THEN AllDirections(n.at)
        ELSE IF h.node[n.parent].at[2] = n.at[2]
          THEN Straight(n.at, <<x, 0>>, <<0, -x>>, <<0, x>>)
        ELSE IF h.node[n.parent].at[1] = n.at[1]
          THEN Straight(n.at, <<0, y>>, <<y, 0>>, <<-y, 0>>)
        ELSE << <<x, y>> >>

-----------------------------------------------------------------------------
(* The first lines of SearchRoute bring an x outside of the map into it;   *)
(* a y beyond the map they take for an x.  Such a y is not modelled: what  *)
(* is read then lies outside of m_map.                                     *)
Adjusted(c) ==
    <<IF c[1] < 0 THEN 0 ELSE Min({c[1], jps.m_width - 1}),
      IF c[2] < 0 THEN 0 ELSE c[2]>>

SearchRoute ==
    /\ jps.result = "none"
    /\ \E from \in jps.map.starts, to \in jps.map.ends :
        LET start == Adjusted(from)
            goal == Adjusted(to)
        IN  jps' = [jps EXCEPT
                      !.start = start, !.goal = goal,
                      !.result = IF IsEmpty(start) /\ IsEmpty(goal) THEN "searching" ELSE "failed",
                      !.open_list = IF IsEmpty(start) /\ IsEmpty(goal)
                                      THEN PushNode(NoNodes, start, 0, 0, goal) ELSE NoNodes]

(* The cells of the nodes from the start to n.                             *)
RouteTo(h, n) ==
    LET to[i \in 0..Len(h.node)] ==
          IF i = 0 THEN <<>> ELSE Append(to[h.node[i].parent], h.node[i].at)
    IN  to[n]

Expand ==
    /\ jps.result = "searching" /\ jps.open_list.elements # <<>>
    /\ LET cur == jps.open_list.elements[1]
           at == jps.open_list.node[cur].at
           h == [Pop(jps.open_list) EXCEPT !.closed = @ \cup {at}]
           SearchOn(open_list, d) == Search(open_list, cur, d)
       IN  IF at = jps.goal
             THEN jps' = [jps EXCEPT !.open_list = NoNodes, !.result = "found",
                                     !.route = RouteTo(h, cur)]
             ELSE jps' = [jps EXCEPT !.open_list = FoldLeft(SearchOn, h, Directions(h, cur))]

NothingLeft ==
    /\ jps.result = "searching" /\ jps.open_list.elements = <<>>
    /\ jps' = [jps EXCEPT !.open_list = NoNodes, !.result = "failed"]

-----------------------------------------------------------------------------
(* The map is changed between the searches.                                *)

Editing ==
    jps.result = "none" /\ jps.edits < jps.map.edits

SetEmpty(c, value) ==
    /\ Editing
    /\ jps' = [jps EXCEPT !.edits = @ + 1,
                          !.m_map = IF c \notin Cells THEN @
                                    ELSE IF value THEN @ \ {c} ELSE @ \cup {c}]

SetAllEmpty ==
    /\ Editing
    /\ jps' = [jps EXCEPT !.edits = @ + 1, !.m_map = {}]

Next ==
    \/ \E c \in Cells \cup {<<-1, 0>>, <<0, jps.m_height>>}, value \in BOOLEAN :
          SetEmpty(c, value)
    \/ SetAllEmpty \/ SearchRoute \/ Expand \/ NothingLeft

-----------------------------------------------------------------------------
(* What a walker may do: to a neighbour, and not around a corner.          *)
Around == ((-1..1) \X (-1..1)) \ {<<0, 0>>}

Walks(c, d) ==
    /\ IsEmpty(Step(c, d, 1))
    /\ IsEmpty(Step(c, <<d[1], 0>>, 1)) /\ IsEmpty(Step(c, <<0, d[2]>>, 1))

Reachable ==
    LET Further(cells) ==
          cells \cup {Step(cd[1], cd[2], 1) : cd \in {cd \in cells \X Around : Walks(cd[1], cd[2])}}
        within[n \in 0..Cardinality(Cells)] ==
          IF n = 0 THEN {jps.start} \ jps.m_map ELSE Further(within[n - 1])
    IN  within[Cardinality(Cells)]

(* One leg of a route goes straight or diagonally, over cells that are free*)
Leg(a, b) ==
    \E d \in Around, k \in Steps :
        Step(a, d, k) = b /\ \A j \in 0..(k - 1) : Walks(Step(a, d, j), d)

(* SearchRoute finds a route whenever the goal can be reached, whatever    *)
(* the pruning leaves out and in whatever order the nodes are closed, and  *)
(* what it returns can be walked: it goes from the start to the goal, and  *)
(* every leg between two of its nodes is free and cuts no corner.          *)
RoutesFound ==
    /\ jps.result = "failed" => jps.goal \notin Reachable
    /\ jps.result = "found" =>
         LET route == jps.route
         IN  /\ route[1] = jps.start /\ route[Len(route)] = jps.goal
             /\ \A i \in 1..(Len(route) - 1) : Leg(route[i], route[i + 1])
=============================================================================

------------------------------ MODULE MiniHeap ------------------------------
(***************************************************************************)
(* CarpMiniHeap (carp_miniheap.hpp): a binary heap of pointers to nodes,   *)
(* which bear the key (end_time) and their place in the heap (heap_index). *)
(* A heap is a record of m_elements, up to m_size, and of the nodes.       *)
(* Places count from 1, and place 0 is the code's -1: in no heap.          *)
(*                                                                         *)
(* The loops are recursive functions of the hole they start at.  All that  *)
(* a loop reads it has not written yet.                                    *)
(***************************************************************************)
EXTENDS Integers, Sequences

Greater(h, a, b) == h.node[a].end_time > h.node[b].end_time

(* (m_elements[i] = e)->SetHeapIndex(i) *)
Place(h, i, e) == [h EXCEPT !.elements[i] = e, !.node[e].heap_index = i]

ShiftUp(h, hole, e) ==
    LET el == h.elements
        up[i \in DOMAIN el] ==
            IF i > 1 /\ Greater(h, el[i \div 2], e)
              THEN Place(up[i \div 2], i, el[i \div 2])
              ELSE Place(h, i, e)
    IN  up[hole]

ShiftUpUnconditional(h, hole, e) ==
    Place(ShiftUp(h, hole \div 2, e), hole, h.elements[hole \div 2])

(* Mutant: the left child is taken for the smaller one. *)
LeftChild(h, size, i) == 2 * i

(* The smaller child of i; the right one if they are equal.                *)
MinChild(h, size, i) ==
    IF 2 * i = size \/ Greater(h, h.elements[2 * i + 1], h.elements[2 * i])
      THEN 2 * i ELSE 2 * i + 1

ShiftDown(h, size, hole, e) ==
    LET el == h.elements
        down[i \in DOMAIN el] ==
            LET child == MinChild(h, size, i)
            IN  IF 2 * i <= size /\ Greater(h, e, el[child])
                  THEN Place(down[child], i, el[child])
                  ELSE Place(h, i, e)
    IN  down[hole]

Push(h, e) ==
    ShiftUp([h EXCEPT !.elements = Append(@, e)], Len(h.elements) + 1, e)

(* The end of Pop and of Erase: the last place is given up.                *)
Shrunk(h, e) ==
    [h EXCEPT !.elements = SubSeq(@, 1, Len(@) - 1), !.node[e].heap_index = 0]

Pop(h) ==
    LET last == Len(h.elements)
    IN  Shrunk(ShiftDown(h, last - 1, 1, h.elements[last]), h.elements[1])

Erase(h, e) ==
    LET last == Len(h.elements)
        i == h.node[e].heap_index
    IN  IF i = 0 THEN h
        ELSE IF i > 1 /\ Greater(h, h.elements[i \div 2], h.elements[last])
          THEN Shrunk(ShiftUpUnconditional(h, i, h.elements[last]), e)
          ELSE Shrunk(ShiftDown(h, last - 1, i, h.elements[last]), e)
=============================================================================

---------------------------- MODULE HandoffQueue ----------------------------
(***************************************************************************)
(* What a CarpThreadConsumer promises to the threads that call Add: the    *)
(* items it has taken over form one queue, every item leaves the queue by  *)
(* being handled (executed by the worker or abandoned by Stop), one at a   *)
(* time, in the order in which they came in.  No item is handled twice,    *)
(* none overtakes another and none disappears from the queue.              *)
(***************************************************************************)
EXTENDS Sequences

CONSTANT Items

VARIABLES queue,   \* items taken over and not handled yet
          done     \* items handled, oldest first

vars == <<queue, done>>

TypeOK == queue \in Seq(Items) /\ done \in Seq(Items)

Init == queue = <<>> /\ done = <<>>

Submit == \E i \in Items : queue' = Append(queue, i) /\ done' = done

Handle ==
    /\ queue # <<>>
    /\ done' = Append(done, Head(queue))
    /\ queue' = Tail(queue)

Next == Submit \/ Handle

Spec == Init /\ [][Next]_vars
=============================================================================

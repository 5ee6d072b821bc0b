------------------------ MODULE ThreadConsumerProofs ------------------------
(***************************************************************************)
(* Proofs about ThreadConsumer, for any set of items, any set of adding    *)
(* threads and any number of Starts.                                       *)
(***************************************************************************)
EXTENDS ThreadConsumer, SequenceFacts

-----------------------------------------------------------------------------
(* Type correctness.                                                       *)

(* Every variable keeps its type: in particular what is executed and what  *)
(* is abandoned has always been given to Add.                              *)
THEOREM TypeCorrect == ConsumerSafeSpec => []TypeOK
<1>1. ConsumerInit => TypeOK
  <2>1. <<>> \in Seq(Items)
    BY EmptySeq, Zenon
  <2>2. QED
    <3>1. CASE ConsumerInit
      <4>1. m_list \in Seq(Items) /\ temp_list \in Seq(Items) /\ done \in Seq(Items)
        BY <2>1, <3>1, Zenon DEF ConsumerInit
      <4>2. adding \in [Adders -> Items \cup {NoItem}]
        BY <3>1 DEF ConsumerInit
      <4>3. worker \in WorkerStates /\ owner \in OwnerStates
        BY <3>1 DEF ConsumerInit, WorkerStates, OwnerStates
      <4>4. QED
        BY <3>1, <4>1, <4>2, <4>3 DEF ConsumerInit, TypeOK
    <3>2. QED
      BY <3>1
<1>2. TypeOK /\ [ConsumerNext]_consumerVars => TypeOK'
  <2> SUFFICES ASSUME TypeOK, [ConsumerNext]_consumerVars
               PROVE  TypeOK'
    OBVIOUS
  <2> USE DEF TypeOK, WorkerStates, OwnerStates
  <2>1. ASSUME NEW a \in Adders, AddPush(a)
        PROVE  TypeOK'
    <3>1. adding[a] \in Items
      BY <2>1 DEF AddPush, InAdd
    <3>2. Append(m_list, adding[a]) \in Seq(Items)
      BY <3>1
    <3>3. m_list' \in Seq(Items)
      BY <2>1, <3>2 DEF AddPush
    <3>4. worker' \in WorkerStates /\ late' \in SUBSET Items
      BY <2>1, <3>1 DEF AddPush, Notified
    <3>5. QED
      BY <2>1, <3>3, <3>4 DEF AddPush
  <2>2. ASSUME NEW a \in Adders, NEW i \in Items, AddCheck(a, i)
        PROVE  TypeOK'
    BY <2>2 DEF AddCheck
  <2>3. CASE Start
    <3>1. <<>> \in Seq(Items)
      BY EmptySeq, Zenon
    <3>2. QED
      <4>1. temp_list' \in Seq(Items)
        BY <2>3, <3>1, Zenon DEF Start
      <4>2. /\ m_run' = TRUE /\ m_thread' = TRUE /\ flush' = FALSE
            /\ worker' = "outer" /\ starts' = starts + 1
        BY <2>3, Zenon DEF Start
      <4>3. UNCHANGED <<timed, m_list, owner, adding, used, done, late, dirty>>
        BY <2>3 DEF Start
      <4>4. starts' \in Nat
        BY <4>2
      <4>5. QED
        BY <4>1, <4>2, <4>3, <4>4, Zenon
  <2>4. CASE StopSignal
    BY <2>4 DEF StopSignal, Notified
  <2>5. CASE StopJoin
    BY <2>5 DEF StopJoin, DrainNext
  <2>6. CASE StopAbandon
    BY <2>6 DEF StopAbandon
  <2>7. CASE StopReturn
    BY <2>7 DEF StopReturn
  <2>8. CASE RunOuter
    BY <2>8 DEF RunOuter
  <2>9. CASE RunLocked
    BY <2>9 DEF RunLocked, Swap
  <2>10. CASE RunSpuriousWake
    BY <2>10 DEF RunSpuriousWake
  <2>11. CASE RunTimeout
    BY <2>11 DEF RunTimeout, Swap, NoteTimeout
  <2>12. CASE RunExecute
    BY <2>12 DEF RunExecute
  <2>13. CASE RunFlush
    BY <2>13 DEF RunFlush
  <2>14. CASE UNCHANGED consumerVars
    BY <2>14 DEF consumerVars
  <2>15. QED
    BY <2>1, <2>2, <2>3, <2>4, <2>5, <2>6, <2>7, <2>8, <2>9, <2>10, <2>11,
       <2>12, <2>13, <2>14 DEF ConsumerNext, ConsumerAdd, Stop, Run
<1>3. QED
  BY <1>1, <1>2, PTL DEF ConsumerSafeSpec

-----------------------------------------------------------------------------
(* The inductive invariant: where the owner and the worker stand decides   *)
(* who may hold items.  OnlyLateItemsStay is not inductive without it: it  *)
(* takes the drain of Stop to know that no worker is left, and the worker  *)
(* to know that it leaves its loop with an empty temp_list.                *)

Positions ==
    /\ worker # "executing" => temp_list = <<>>
    /\ m_thread <=> worker # "none"
    /\ owner = "joining" => m_thread
    /\ owner = "draining" => ~m_thread

IInv == TypeOK /\ Positions /\ OnlyLateItemsStay

LEMMA InductiveInit == ConsumerInit => Positions /\ OnlyLateItemsStay
<1> SUFFICES ASSUME ConsumerInit PROVE Positions /\ OnlyLateItemsStay
  OBVIOUS
<1>1. Positions
  BY Zenon DEF ConsumerInit, Positions
<1>2. Range(m_list) = {}
  BY DEF ConsumerInit, Range
<1>3. QED
  BY <1>1, <1>2 DEF OnlyLateItemsStay

LEMMA PositionsStep == TypeOK /\ Positions /\ [ConsumerNext]_consumerVars => Positions'
<1> SUFFICES ASSUME TypeOK, Positions, [ConsumerNext]_consumerVars
             PROVE  Positions'
  OBVIOUS
<1> USE DEF Positions
<1>1. ASSUME NEW a \in Adders, AddPush(a)
      PROVE  Positions'
  BY <1>1, Zenon DEF AddPush, Notified
<1>2. ASSUME NEW a \in Adders, NEW i \in Items, AddCheck(a, i)
      PROVE  Positions'
  BY <1>2, Zenon DEF AddCheck
<1>3. CASE Start
  BY <1>3, Zenon DEF Start
<1>4. CASE StopSignal
  BY <1>4, Zenon DEF StopSignal, Notified
<1>5. CASE StopJoin
  BY <1>5, Zenon DEF StopJoin, DrainNext
<1>6. CASE StopAbandon
  BY <1>6, Zenon DEF StopAbandon
<1>7. CASE StopReturn
  BY <1>7, Zenon DEF StopReturn
<1>8. CASE RunOuter
  BY <1>8, Zenon DEF RunOuter
<1>9. CASE RunLocked
  BY <1>9, Zenon DEF RunLocked, Swap
<1>10. CASE RunSpuriousWake
  BY <1>10, Zenon DEF RunSpuriousWake
<1>11. CASE RunTimeout
  BY <1>11, Zenon DEF RunTimeout, Swap
<1>12. CASE RunExecute
  BY <1>12, Zenon DEF RunExecute
<1>13. CASE RunFlush
  BY <1>13, Zenon DEF RunFlush
<1>14. CASE UNCHANGED consumerVars
  BY <1>14, Zenon DEF consumerVars
<1>15. QED
  BY <1>1, <1>2, <1>3, <1>4, <1>5, <1>6, <1>7, <1>8, <1>9, <1>10, <1>11,
     <1>12, <1>13, <1>14 DEF ConsumerNext, ConsumerAdd, Stop, Run

LEMMA AppendSet ==
    ASSUME NEW S, NEW s \in Seq(S), NEW e \in S
    PROVE  Range(Append(s, e)) = Range(s) \cup {e}
<1>1. Range(Append(s, e)) \subseteq Range(s) \cup {e}
  BY DEF Range
<1>2. Range(s) \subseteq Range(Append(s, e))
  <2> SUFFICES ASSUME NEW i \in DOMAIN s
               PROVE  s[i] \in Range(Append(s, e))
    BY DEF Range
  <2>1. i \in DOMAIN Append(s, e) /\ Append(s, e)[i] = s[i]
    OBVIOUS
  <2>2. QED
    BY <2>1 DEF Range
<1>3. e \in Range(Append(s, e))
  <2>1. /\ Len(s) + 1 \in DOMAIN Append(s, e)
        /\ Append(s, e)[Len(s) + 1] = e
    OBVIOUS
  <2>2. QED
    BY <2>1 DEF Range
<1>4. QED
  BY <1>1, <1>2, <1>3

(* While the consumer is at rest the list only grows by late items; only   *)
(* StopReturn brings it to rest, and finds the list empty.                 *)
LEMMA LateStep ==
    TypeOK /\ Positions /\ OnlyLateItemsStay /\ [ConsumerNext]_consumerVars
        => OnlyLateItemsStay'
<1> SUFFICES ASSUME TypeOK, Positions, OnlyLateItemsStay, [ConsumerNext]_consumerVars,
                    owner' = "idle", ~m_thread'
             PROVE  Range(m_list)' \subseteq late'
  BY DEF OnlyLateItemsStay
<1>1. ASSUME NEW a \in Adders, AddPush(a)
      PROVE  Range(m_list)' \subseteq late'
  <2>1. owner = "idle" /\ ~m_thread
    BY <1>1, Zenon DEF AddPush
  <2>2. Range(m_list) \subseteq late /\ late' = late \cup {adding[a]}
    BY <1>1, <2>1, Zenon DEF AddPush, OnlyLateItemsStay
  <2>3. adding[a] \in Items
    BY <1>1 DEF AddPush, InAdd, TypeOK
  <2>4. m_list' = Append(m_list, adding[a])
    BY <1>1, <2>1, Zenon DEF AddPush
  <2>5. Range(m_list') = Range(m_list) \cup {adding[a]}
    BY <2>3, <2>4, AppendSet DEF TypeOK
  <2>6. QED
    BY <2>2, <2>5 DEF Range
<1>2. ASSUME NEW a \in Adders, NEW i \in Items, AddCheck(a, i)
      PROVE  Range(m_list)' \subseteq late'
  BY <1>2, Zenon DEF AddCheck, OnlyLateItemsStay, Range
<1>3. CASE StopReturn
  <2>1. m_list' = <<>>
    BY <1>3, Zenon DEF StopReturn
  <2>2. Range(m_list)' = {}
    BY <2>1 DEF Range
  <2>3. QED
    BY <2>2
<1>4. ~Start /\ ~StopSignal /\ ~StopJoin /\ ~StopAbandon
  BY Zenon DEF Start, StopSignal, StopJoin, StopAbandon, DrainNext
<1>5. CASE Run
  <2>1. worker = "none"
    BY <1>5, Zenon DEF Positions, Run, RunOuter, RunLocked, RunSpuriousWake,
       RunTimeout, RunExecute, RunFlush
  <2>2. QED
    BY <1>5, <2>1 DEF Run, RunOuter, RunLocked, RunSpuriousWake, RunTimeout,
       RunExecute, RunFlush
<1>6. CASE UNCHANGED consumerVars
  BY <1>6, Zenon DEF consumerVars, OnlyLateItemsStay, Range
<1>7. QED
  BY <1>1, <1>2, <1>3, <1>4, <1>5, <1>6, Zenon DEF ConsumerNext, ConsumerAdd, Stop

LEMMA Inductive == ConsumerSafeSpec => []IInv
<1>1. ConsumerInit => Positions /\ OnlyLateItemsStay
  BY InductiveInit
<1>2. TypeOK /\ Positions /\ OnlyLateItemsStay /\ [ConsumerNext]_consumerVars
         => Positions' /\ OnlyLateItemsStay'
  BY PositionsStep, LateStep
<1>3. QED
  BY <1>1, <1>2, TypeCorrect, PTL DEF ConsumerSafeSpec, IInv

(* Stop misses nothing but the items of Adds it overlapped with: for every *)
(* number of items, of adding threads and of Starts.                       *)
THEOREM StopMissesOnlyLateItems == ConsumerSafeSpec => []OnlyLateItemsStay
  BY Inductive, PTL DEF IInv

-----------------------------------------------------------------------------
(* Refinement: what the consumer does with its two lists is what           *)
(* HandoffQueue allows.                                                    *)

LEMMA RefineInit == ConsumerInit => Handoff!Init
<1> SUFFICES ASSUME ConsumerInit PROVE Handoff!Init
  OBVIOUS
<1>1. temp_list = <<>> /\ m_list = <<>> /\ done = <<>>
  BY Zenon DEF ConsumerInit
<1>2. <<>> \o <<>> = <<>>
  OBVIOUS
<1>3. QED
  BY <1>1, <1>2, Zenon DEF Handoff!Init

LEMMA RefineStep == IInv /\ [ConsumerNext]_consumerVars => [Handoff!Next]_(Handoff!vars)
<1> SUFFICES ASSUME IInv, [ConsumerNext]_consumerVars
             PROVE  Handoff!Next \/ UNCHANGED Handoff!vars
  OBVIOUS
<1> DEFINE q == temp_list \o m_list
<1>0. /\ m_list \in Seq(Items) /\ temp_list \in Seq(Items)
      /\ done \in Seq(Items)
  BY DEF IInv, TypeOK
<1>1. ASSUME temp_list' = temp_list, m_list' = m_list, done' = done
      PROVE  UNCHANGED Handoff!vars
  BY <1>1 DEF Handoff!vars
<1>2. ASSUME NEW a \in Adders, AddPush(a)
      PROVE  Handoff!Next \/ UNCHANGED Handoff!vars
  <2>1. temp_list' = temp_list /\ done' = done
    BY <1>2, Zenon DEF AddPush
  <2>2. CASE m_list' = m_list
    BY <1>1, <2>1, <2>2
  <2>3. CASE m_list' = Append(m_list, adding[a])
    <3>1. adding[a] \in Items
      BY <1>2 DEF AddPush, InAdd, IInv, TypeOK
    <3>2. q' = Append(q, adding[a])
      BY <1>0, <2>1, <2>3, <3>1, AppendConcat
    <3>3. QED
      BY <2>1, <3>1, <3>2 DEF Handoff!Next, Handoff!Submit
  <2>4. QED
    BY <1>2, <2>2, <2>3, Zenon DEF AddPush
<1>3. CASE RunExecute
  <2>1. /\ temp_list # <<>> /\ temp_list' = Tail(temp_list)
        /\ m_list' = m_list /\ done' = Append(done, Head(temp_list))
    BY <1>3, Zenon DEF RunExecute
  <2>2. q # <<>> /\ Head(q) = Head(temp_list) /\ Tail(q) = Tail(temp_list) \o m_list
    BY <1>0, <2>1, HeadTailConcat, Zenon
  <2>3. QED
    BY <2>1, <2>2, Zenon DEF Handoff!Next, Handoff!Handle
<1>4. CASE StopAbandon
  <2>1. temp_list = <<>>
    BY <1>4, Zenon DEF StopAbandon, IInv, Positions
  <2>2. /\ m_list # <<>> /\ m_list' = Tail(m_list) /\ temp_list' = temp_list
        /\ done' = Append(done, Head(m_list))
    BY <1>4, Zenon DEF StopAbandon
  <2>3. Tail(m_list) \in Seq(Items)
    BY <1>0, <2>2
  <2>4. q = m_list /\ q' = Tail(m_list)
    BY <1>0, <2>1, <2>2, <2>3, EmptyConcat, Zenon
  <2>5. QED
    BY <2>2, <2>4, Zenon DEF Handoff!Next, Handoff!Handle
<1>5. ASSUME Swap, done' = done, temp_list = <<>>
      PROVE  UNCHANGED Handoff!vars
  <2>1. temp_list' = m_list /\ m_list' = <<>>
    BY <1>5, Zenon DEF Swap
  <2>2. q' = q
    BY <1>0, <1>5, <2>1, EmptyConcat, Zenon
  <2>3. QED
    BY <1>5, <2>2, Zenon DEF Handoff!vars
<1>6. CASE RunLocked
  <2>1. temp_list = <<>> /\ done' = done
    BY <1>6, Zenon DEF RunLocked, IInv, Positions
  <2>2. Swap \/ UNCHANGED <<m_list, temp_list>>
    BY <1>6, Zenon DEF RunLocked
  <2>3. QED
    BY <1>1, <1>5, <2>1, <2>2
<1>7. CASE RunTimeout
  BY <1>5, <1>7, Zenon DEF RunTimeout, IInv, Positions
<1>8. CASE Start
  <2>1. temp_list = <<>> /\ temp_list' = <<>>
    BY <1>8, Zenon DEF Start, IInv, Positions
  <2>2. QED
    BY <1>1, <1>8, <2>1, Zenon DEF Start
<1>9. ASSUME NEW a \in Adders, NEW i \in Items, AddCheck(a, i)
      PROVE  UNCHANGED Handoff!vars
  BY <1>1, <1>9, Zenon DEF AddCheck
<1>10. CASE StopSignal \/ StopJoin \/ StopReturn
  BY <1>1, <1>10, Zenon DEF StopSignal, StopJoin, StopReturn
<1>11. CASE RunOuter \/ RunSpuriousWake \/ RunFlush
  BY <1>1, <1>11, Zenon DEF RunOuter, RunSpuriousWake, RunFlush
<1>12. CASE UNCHANGED consumerVars
  BY <1>1, <1>12, Zenon DEF consumerVars
<1>13. QED
  BY <1>2, <1>3, <1>4, <1>6, <1>7, <1>8, <1>9, <1>10, <1>11, <1>12, Zenon
     DEF ConsumerNext, ConsumerAdd, Stop, Run

(* For every choice of the constants the consumer is a FIFO hand-off:      *)
(* whatever the interleaving of Add, Run, Start and Stop, no item in the   *)
(* list is lost, handled twice or overtaken.                               *)
THEOREM ImplementsHandoff == ConsumerSafeSpec => HandsOffInOrder
<1>1. ConsumerInit => Handoff!Init
  BY RefineInit
<1>2. IInv /\ [ConsumerNext]_consumerVars => [Handoff!Next]_(Handoff!vars)
  BY RefineStep
<1>3. QED
  BY <1>1, <1>2, Inductive, PTL DEF ConsumerSafeSpec, HandsOffInOrder, Handoff!Spec
=============================================================================

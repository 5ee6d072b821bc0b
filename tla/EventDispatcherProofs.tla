----------------------- MODULE EventDispatcherProofs -----------------------
(***************************************************************************)
(* Proofs about EventDispatcher, for any numbered listeners, any types and *)
(* any depth of dispatches within each other.                              *)
(***************************************************************************)
EXTENDS EventDispatcher, SequenceTheorems, TLAPS

WalkRecords == [type : Types, at : Nat, calling : BOOLEAN,
                due : SUBSET Listeners, called : SUBSET Listeners]

WalksTyped == walks \in Seq(WalkRecords)

(* The inductive invariant.  EachCalledOnce needs MapsAgree for nothing    *)
(* but the types; what it rests on is that nothing is registered or        *)
(* removed while there is a walk, which is Len(walks) <= m_lock of         *)
(* DispatcherTypeOK.                                                       *)
IInv == DispatcherTypeOK /\ WalksTyped /\ MapsAgree /\ EachCalledOnce

-----------------------------------------------------------------------------
(* What the calls do to the two maps.                                      *)

LEMMA CallKinds ==
    ASSUME NEW call \in AllCalls
    PROVE  \/ \E t \in Types, l \in Listeners : call = <<"add", t, l>>
           \/ \E t \in Types, l \in Listeners : call = <<"removeType", t, l>>
           \/ \E l \in Listeners : call = <<"remove", 0, l>>
           \/ call = <<"clear", 0, 0>>
  BY DEF AllCalls, Calls

MapTypes ==
    /\ DOMAIN m_listener \subseteq Types
    /\ \A t \in DOMAIN m_listener : m_listener[t] \subseteq Listeners
    /\ m_object \subseteq Listeners \X Types

(* Of a listener that a call does not touch both maps keep what they had,  *)
(* and of the one it does touch they both lose or both gain the type.      *)
LEMMA PerformKeepsMaps ==
    ASSUME NEW call \in AllCalls, MapTypes, MapsAgree, Perform(call),
           UNCHANGED <<held, walks>>
    PROVE  MapTypes' /\ MapsAgree'
<1>1. \A l \in Listeners : Alive(l)' <=> Alive(l)
  BY DEF Alive, Called
<1>2. CASE \E t \in Types, l \in Listeners : call = <<"add", t, l>>
  <2>1. PICK t \in Types, l \in Listeners : call = <<"add", t, l>>
    BY <1>2
  <2>2. AddEventListener(t, l)
    BY <2>1 DEF Perform
  <2>3. CASE Alive(l)
    <3>1. Listening(t) \subseteq Listeners
      BY DEF MapTypes, Listening
    <3>2. /\ DOMAIN m_listener' = DOMAIN m_listener \cup {t}
          /\ \A u \in DOMAIN m_listener' :
                m_listener'[u] = IF u = t THEN Listening(t) \cup {l}
                                          ELSE m_listener[u]
      BY <2>2, <2>3 DEF AddEventListener
    <3>3. m_object' = m_object \cup {<<l, t>>}
      BY <2>2, <2>3 DEF AddEventListener
    <3>4. MapTypes'
      BY <3>1, <3>2, <3>3 DEF MapTypes
    <3>5. \A u \in Types : Listening(u)' =
             IF u = t THEN Listening(t) \cup {l} ELSE Listening(u)
      BY <3>2 DEF Listening
    <3>6. QED
      BY <1>1, <3>3, <3>4, <3>5 DEF MapsAgree
  <2>4. CASE ~Alive(l)
    BY <1>1, <2>2, <2>4 DEF MapTypes, MapsAgree, AddEventListener, Listening
  <2>5. QED
    BY <2>3, <2>4
<1>3. CASE \E t \in Types, l \in Listeners : call = <<"removeType", t, l>>
  <2>1. PICK t \in Types, l \in Listeners : call = <<"removeType", t, l>>
    BY <1>3
  <2>2. RemoveFromType(t, l)
    BY <2>1 DEF Perform
  <2>3. CASE <<l, t>> \in m_object /\ t \in DOMAIN m_listener
    <3>1. MapTypes'
      BY <2>2, <2>3 DEF MapTypes, RemoveFromType, WithoutListener
    <3>2. \A u \in Types : Listening(u)' =
             IF u = t THEN Listening(t) \ {l} ELSE Listening(u)
      BY <2>2, <2>3 DEF MapTypes, RemoveFromType, WithoutListener, Listening
    <3>3. m_object' = m_object \ {<<l, t>>}
      BY <2>2, <2>3 DEF RemoveFromType
    <3>4. QED
      BY <1>1, <3>1, <3>2, <3>3 DEF MapsAgree
  <2>4. CASE ~(<<l, t>> \in m_object /\ t \in DOMAIN m_listener)
    BY <1>1, <2>2, <2>4 DEF MapTypes, MapsAgree, RemoveFromType, Listening
  <2>5. QED
    BY <2>3, <2>4
<1>4. CASE \E l \in Listeners : call = <<"remove", 0, l>>
  <2>1. PICK l \in Listeners : call = <<"remove", 0, l>>
    BY <1>4
  <2>2. RemoveEventListener(l)
    BY <2>1 DEF Perform
  <2>3. MapTypes'
    BY <2>2 DEF MapTypes, RemoveEventListener, WithoutListener
  <2>4. \A u \in Types : Listening(u)' =
           IF <<l, u>> \in m_object THEN Listening(u) \ {l} ELSE Listening(u)
    BY <2>2 DEF MapTypes, RemoveEventListener, WithoutListener, Listening
  <2>5. m_object' = {pair \in m_object : pair[1] # l}
    BY <2>2 DEF RemoveEventListener
  <2>6. QED
    BY <1>1, <2>3, <2>4, <2>5 DEF MapsAgree
<1>5. CASE call = <<"clear", 0, 0>>
  <2>1. m_listener' = <<>> /\ m_object' = {}
    BY <1>5 DEF Perform, ClearEventListener
  <2>2. DOMAIN m_listener' = {}
    BY <2>1
  <2>3. QED
    BY <2>1, <2>2 DEF MapTypes, MapsAgree, Listening
<1>6. QED
  BY <1>2, <1>3, <1>4, <1>5, CallKinds

-----------------------------------------------------------------------------
(* What a step does to the walks it does not advance.                      *)

(* A walk stays sound while references to listeners go and expired         *)
(* listeners of its type with them, for nothing else is asked of it.       *)
LEMMA WalkStaysSound ==
    ASSUME NEW w \in WalkRecords, WalkSound(w),
           \A l \in Listeners : Alive(l)' => Alive(l),
           Listening(w.type)' \subseteq Listening(w.type),
           \A l \in Listening(w.type) : Alive(l) => l \in Listening(w.type)'
    PROVE  WalkSound(w)'
  BY DEF WalkSound, WalkRecords

(* The walks before the one that is on top are not touched.                *)
LEMMA ChangeTop ==
    ASSUME WalksTyped, walks # <<>>, NEW w \in WalkRecords,
           walks' = [walks EXCEPT ![Len(walks)] = w]
    PROVE  /\ WalksTyped' /\ Len(walks') = Len(walks)
           /\ Len(walks) \in DOMAIN walks /\ DOMAIN walks' = DOMAIN walks
           /\ walks'[Len(walks)] = w
           /\ \A i \in DOMAIN walks : i # Len(walks) => walks'[i] = walks[i]
  BY DEF WalksTyped

LEMMA TopTyped ==
    ASSUME WalksTyped, walks # <<>>
    PROVE  Top \in WalkRecords /\ Len(walks) \in DOMAIN walks
  BY DEF WalksTyped, Top

(* Of a listener the application has only ever fewer references.           *)
OnlyExpire == \A l \in Listeners : Alive(l)' => Alive(l)

(* Without a lock there is no walk.                                        *)
LEMMA NoWalk ==
    ASSUME DispatcherTypeOK, WalksTyped, ~IsLock
    PROVE  walks = <<>>
  BY DEF DispatcherTypeOK, WalksTyped, IsLock

-----------------------------------------------------------------------------
(* The invariant, action by action.                                        *)

LEMMA InitHolds == DispatcherInit => IInv
<1> SUFFICES ASSUME DispatcherInit PROVE IInv
  OBVIOUS
<1>1. <<>> \in Seq(WalkRecords) /\ <<>> \in Seq(AllCalls)
  BY EmptySeq, Zenon
<1>2. DOMAIN m_listener = {} /\ DOMAIN walks = {} /\ Len(walks) = 0
  BY DEF DispatcherInit
<1>3. DispatcherTypeOK
  <2>1. m_lock_list \in Seq(AllCalls)
    BY <1>1, Zenon DEF DispatcherInit
  <2>2. m_lock \in Nat /\ Len(walks) <= m_lock
    BY <1>2 DEF DispatcherInit
  <2>3. QED
    BY <1>2, <2>1, <2>2 DEF DispatcherInit, DispatcherTypeOK
<1>4. QED
  BY <1>1, <1>2, <1>3 DEF DispatcherInit, IInv, WalksTyped, MapsAgree, EachCalledOnce,
     Listening

LEMMA RegisterHolds ==
    ASSUME IInv, NEW call \in AllCalls, Register(call)
    PROVE  IInv'
<1> USE DEF IInv
<1>0. UNCHANGED <<m_lock, held, walks, unlocking>> /\ ~unlocking
  BY DEF Register, InApplication
<1>1. CASE IsLock
  <2>1. m_lock_list' = Append(m_lock_list, call)
        /\ UNCHANGED <<m_listener, m_object>>
    BY <1>1 DEF Register, PutOff
  <2>2. m_lock_list' \in Seq(AllCalls)
    BY <2>1 DEF DispatcherTypeOK
  <2>3. DispatcherTypeOK'
    BY <1>0, <2>1, <2>2 DEF DispatcherTypeOK
  <2>4. QED
    BY <1>0, <2>1, <2>3 DEF WalksTyped, MapsAgree, EachCalledOnce, WalkSound,
       Alive, Called, Listening
<1>2. CASE ~IsLock
  <2>1. Perform(call) /\ UNCHANGED m_lock_list
    BY <1>2 DEF Register
  <2>2. MapTypes' /\ MapsAgree'
    <3>1. MapTypes
      BY DEF DispatcherTypeOK, MapTypes
    <3>2. QED
      BY <1>0, <2>1, <3>1, PerformKeepsMaps
  <2>3. DispatcherTypeOK'
    BY <1>0, <2>1, <2>2 DEF DispatcherTypeOK, MapTypes
  <2>4. walks' = <<>>
    BY <1>0, <1>2, NoWalk
  <2>5. QED
    BY <1>0, <2>2, <2>3, <2>4 DEF WalksTyped, EachCalledOnce
<1>3. QED
  BY <1>1, <1>2

LEMMA RunDeferredHolds ==
    ASSUME IInv, RunDeferred
    PROVE  IInv'
<1> USE DEF IInv
<1>1. /\ walks = <<>> /\ m_lock_list # <<>> /\ m_lock_list \in Seq(AllCalls)
      /\ UNCHANGED <<m_lock, held, walks>>
      /\ Perform(Head(m_lock_list)) /\ m_lock_list' = Tail(m_lock_list)
      /\ unlocking' = (Len(m_lock_list) > 1)
  BY DEF RunDeferred, DispatcherTypeOK
<1>2. /\ Head(m_lock_list) \in AllCalls /\ m_lock_list' \in Seq(AllCalls)
      /\ Len(m_lock_list') = Len(m_lock_list) - 1
  BY <1>1
<1>3. MapTypes' /\ MapsAgree'
  <2>1. MapTypes
    BY DEF DispatcherTypeOK, MapTypes
  <2>2. QED
    BY <1>1, <1>2, <2>1, PerformKeepsMaps
<1>4. unlocking' => m_lock_list' # <<>>
  <2> SUFFICES ASSUME unlocking'
               PROVE  m_lock_list' # <<>>
    OBVIOUS
  <2>1. Len(m_lock_list) > 1
    BY <1>1, Zenon
  <2>2. Len(m_lock_list') # 0
    BY <1>1, <1>2, <2>1
  <2>3. QED
    BY <2>2
<1>5. DispatcherTypeOK'
  BY <1>1, <1>2, <1>3, <1>4 DEF DispatcherTypeOK, MapTypes
<1>6. QED
  BY <1>1, <1>3, <1>5 DEF WalksTyped, EachCalledOnce

LEMMA DropHolds ==
    ASSUME IInv, NEW l \in Listeners, Drop(l)
    PROVE  IInv' /\ OnlyExpire
<1> USE DEF IInv
<1>1. /\ UNCHANGED <<m_listener, m_object, m_lock, m_lock_list, walks, unlocking>>
      /\ held' = held \ {l}
  BY DEF Drop
<1>2. \A k : Alive(k)' => Alive(k)
  BY <1>1 DEF Alive, Called
<1>3. \A t : Listening(t)' = Listening(t)
  BY <1>1 DEF Listening
<1>4. DispatcherTypeOK' /\ WalksTyped'
  BY <1>1 DEF DispatcherTypeOK, WalksTyped
<1>5. MapsAgree'
  BY <1>1, <1>2, <1>3 DEF MapsAgree
<1>6. EachCalledOnce'
  BY <1>1, <1>2, <1>3 DEF EachCalledOnce, WalkSound
<1>7. QED
  BY <1>2, <1>4, <1>5, <1>6 DEF OnlyExpire

LEMMA DispatchHolds ==
    ASSUME IInv, NEW t \in Types, DispatchEventImpl(t)
    PROVE  IInv' /\ OnlyExpire
<1> USE DEF IInv
<1> DEFINE w == [type |-> t, at |-> 0, calling |-> FALSE,
                 due |-> Listening(t), called |-> {}]
<1>1. /\ UNCHANGED <<m_listener, m_object, m_lock_list, held, unlocking>>
      /\ m_lock' = m_lock + 1 /\ walks' = Append(walks, w) /\ ~unlocking
  BY DEF DispatchEventImpl, InApplication
<1>2. w \in WalkRecords
  BY DEF WalkRecords, Listening, DispatcherTypeOK
<1>3. /\ walks' \in Seq(WalkRecords) /\ Len(walks') = Len(walks) + 1
      /\ \A i \in DOMAIN walks : walks'[i] = walks[i]
      /\ walks'[Len(walks')] = w
      /\ DOMAIN walks' = DOMAIN walks \cup {Len(walks')}
  BY <1>1, <1>2 DEF WalksTyped
<1>4. \A k : Alive(k)' <=> Alive(k)
  BY <1>1, <1>3 DEF Alive, Called
<1>5. \A u : Listening(u)' = Listening(u)
  BY <1>1 DEF Listening
<1>6. DispatcherTypeOK' /\ WalksTyped'
  BY <1>1, <1>3 DEF DispatcherTypeOK, WalksTyped
<1>7. MapsAgree'
  BY <1>1, <1>4, <1>5 DEF MapsAgree
<1>8. EachCalledOnce'
  <2>1. \A i \in DOMAIN walks : WalkSound(walks[i])'
    <3> SUFFICES ASSUME NEW i \in DOMAIN walks
                 PROVE  WalkSound(walks[i])'
      OBVIOUS
    <3>1. WalkSound(walks[i]) /\ walks[i] \in WalkRecords
      BY DEF EachCalledOnce, WalksTyped
    <3>2. QED
      BY <1>3, <1>4, <1>5, <3>1 DEF WalkSound, WalkRecords
  <2>2. WalkSound(walks[Len(walks)])'
    <3>1. \A l \in Listening(t) : l \in Nat \ {0}
      BY DispatcherAssumption DEF DispatcherTypeOK, Listening
    <3>2. /\ walks'[Len(walks')].type = t /\ walks'[Len(walks')].at = 0
          /\ walks'[Len(walks')].due = Listening(t)
          /\ walks'[Len(walks')].called = {}
      BY <1>3
    <3>3. QED
      BY <1>5, <3>1, <3>2 DEF WalkSound
  <2>3. QED
    BY <1>3, <2>1, <2>2 DEF EachCalledOnce
<1>9. QED
  BY <1>4, <1>6, <1>7, <1>8 DEF OnlyExpire

LEMMA CallNextHolds ==
    ASSUME IInv, NEW l \in Listeners, CallNext(l)
    PROVE  IInv' /\ OnlyExpire
<1> USE DEF IInv
<1> DEFINE n == Len(walks)
<1>1. /\ UNCHANGED <<m_listener, m_object, m_lock, m_lock_list, held, unlocking>>
      /\ ~unlocking /\ walks # <<>> /\ ~Top.calling /\ IsNext(l) /\ Alive(l)
  BY DEF CallNext, Walking
<1>2. Top \in WalkRecords /\ n \in DOMAIN walks /\ Top = walks[n]
  BY <1>1, TopTyped DEF Top
<1> DEFINE v == [Top EXCEPT !.at = l, !.calling = TRUE,
                            !.called = @ \cup {l}]
<1>2a. /\ v \in WalkRecords /\ v.type = Top.type /\ v.at = l /\ v.calling = TRUE
      /\ v.due = Top.due /\ v.called = Top.called \cup {l}
  BY <1>2, DispatcherAssumption DEF WalkRecords
<1>2b. walks' = [walks EXCEPT ![n] = v]
  BY DEF CallNext
<1> HIDE DEF v
<1>3. PICK w \in WalkRecords :
         /\ w = v /\ w.type = Top.type /\ w.at = l /\ w.calling = TRUE
         /\ w.due = Top.due /\ w.called = Top.called \cup {l}
  BY <1>2a
<1>4. walks' = [walks EXCEPT ![n] = w]
  BY <1>3, <1>2b
<1>5. /\ WalksTyped' /\ Len(walks') = n
      /\ DOMAIN walks' = DOMAIN walks /\ walks'[n] = w
      /\ \A i \in DOMAIN walks : i # n => walks'[i] = walks[i]
  BY <1>1, <1>3, <1>4, ChangeTop
<1>6. \A k : Alive(k)' <=> Alive(k)
  BY <1>1, <1>2, <1>3, <1>5 DEF Alive, Called
<1>7. \A t : Listening(t)' = Listening(t)
  BY <1>1 DEF Listening
<1>8. DispatcherTypeOK'
  BY <1>1, <1>5 DEF DispatcherTypeOK
<1>9. MapsAgree'
  BY <1>1, <1>6, <1>7 DEF MapsAgree
<1>10. EachCalledOnce'
  <2>1. \A i \in DOMAIN walks : i # n => WalkSound(walks[i])'
    <3> SUFFICES ASSUME NEW i \in DOMAIN walks, i # n
                 PROVE  WalkSound(walks[i])'
      OBVIOUS
    <3>1. WalkSound(walks[i]) /\ walks'[i] = walks[i]
      BY <1>5 DEF EachCalledOnce
    <3>2. QED
      BY <1>6, <1>7, <3>1 DEF WalkSound
  <2>2. WalkSound(walks[n])'
    <3>1. WalkSound(Top) /\ Top.at \in Nat
          /\ Top.due \subseteq Nat /\ l \in Nat
      BY <1>2, DispatcherAssumption DEF EachCalledOnce, WalkRecords
    <3>2. /\ l \in Listening(Top.type) /\ l > Top.at
          /\ \A k \in Listening(Top.type) : k > Top.at => l <= k
      BY <1>1 DEF IsNext
    <3>3. WalkSound(w)
      BY <1>3, <3>1, <3>2 DEF WalkSound
    <3>4. /\ Len(walks') = n /\ walks'[n] = w
      BY <1>5
    <3>5. QED
      BY <1>6, <1>7, <3>3, <3>4 DEF WalkSound
  <2>3. QED
    BY <1>5, <2>1, <2>2 DEF EachCalledOnce
<1>11. QED
  BY <1>6, <1>5, <1>8, <1>9, <1>10 DEF OnlyExpire

LEMMA EraseNextHolds ==
    ASSUME IInv, NEW l \in Listeners, EraseNext(l)
    PROVE  IInv' /\ OnlyExpire
<1> USE DEF IInv
<1> DEFINE n == Len(walks)
<1>1. /\ UNCHANGED <<m_object, m_lock, m_lock_list, held, unlocking>>
      /\ ~unlocking /\ walks # <<>> /\ ~Top.calling /\ IsNext(l) /\ ~Alive(l)
      /\ m_listener' = [m_listener EXCEPT ![Top.type] = @ \ {l}]
  BY DEF EraseNext, Walking
<1>2. Top \in WalkRecords /\ n \in DOMAIN walks /\ Top = walks[n]
  BY <1>1, TopTyped DEF Top
<1> DEFINE v == [walks[n] EXCEPT !.at = l]
<1>2a. /\ v \in WalkRecords /\ v.type = Top.type /\ v.at = l /\ v.calling = FALSE
      /\ v.due = Top.due /\ v.called = Top.called
  BY <1>1, <1>2, DispatcherAssumption DEF WalkRecords
<1>2b. walks' = [walks EXCEPT ![n] = v]
  BY DEF EraseNext
<1> HIDE DEF v
<1>3. PICK w \in WalkRecords :
         /\ w = v /\ w.type = Top.type /\ w.at = l /\ w.calling = FALSE
         /\ w.due = Top.due /\ w.called = Top.called
  BY <1>2a
<1>4. walks' = [walks EXCEPT ![n] = w]
  BY <1>3, <1>2b
<1>5. /\ WalksTyped' /\ Len(walks') = n
      /\ DOMAIN walks' = DOMAIN walks /\ walks'[n] = w
      /\ \A i \in DOMAIN walks : i # n => walks'[i] = walks[i]
  BY <1>1, <1>3, <1>4, ChangeTop
<1>6. \A k : Alive(k)' <=> Alive(k)
  BY <1>1, <1>2, <1>3, <1>5 DEF Alive, Called
<1>7. /\ DOMAIN m_listener' = DOMAIN m_listener
      /\ \A t \in DOMAIN m_listener :
            m_listener'[t] = IF t = Top.type THEN m_listener[t] \ {l}
                                             ELSE m_listener[t]
  BY <1>1
<1>8. \A t : Listening(t)' = IF t = Top.type THEN Listening(t) \ {l}
                                             ELSE Listening(t)
  BY <1>7 DEF Listening
<1>9. DispatcherTypeOK'
  BY <1>1, <1>5, <1>7 DEF DispatcherTypeOK
<1>10. MapsAgree'
  BY <1>1, <1>6, <1>8 DEF MapsAgree
<1>11. EachCalledOnce'
  <2>1. \A i \in DOMAIN walks : i # n => WalkSound(walks[i])'
    <3> SUFFICES ASSUME NEW i \in DOMAIN walks, i # n
                 PROVE  WalkSound(walks[i])'
      OBVIOUS
    <3>1. WalkSound(walks[i]) /\ walks'[i] = walks[i]
      BY <1>5 DEF EachCalledOnce
    <3>2. QED
      BY <1>1, <1>6, <1>8, <3>1 DEF WalkSound
  <2>2. WalkSound(walks[n])'
    <3>1. WalkSound(Top) /\ Top.at \in Nat
          /\ Top.due \subseteq Nat /\ l \in Nat
      BY <1>2, DispatcherAssumption DEF EachCalledOnce, WalkRecords
    <3>2. /\ l \in Listening(Top.type) /\ l > Top.at
          /\ \A k \in Listening(Top.type) : k > Top.at => l <= k
      BY <1>1 DEF IsNext
    <3>3. Listening(w.type)' = Listening(Top.type) \ {l}
      BY <1>3, <1>8
    <3>4. \A k \in w.due :
             /\ k \in w.called => k <= w.at
             /\ Alive(k) /\ k <= w.at => k \in w.called
             /\ Alive(k) /\ k > w.at => k \in Listening(Top.type) \ {l}
      BY <1>1, <1>3, <3>1, <3>2 DEF WalkSound
    <3>5. WalkSound(w)'
      BY <1>3, <1>6, <3>1, <3>3, <3>4 DEF WalkSound
    <3>6. walks[Len(walks)]' = w
      BY <1>5
    <3>7. QED
      BY <1>5, <3>5, <3>6 DEF WalkSound
  <2>3. QED
    BY <1>5, <2>1, <2>2 DEF EachCalledOnce
<1>12. QED
  BY <1>6, <1>5, <1>9, <1>10, <1>11 DEF OnlyExpire

LEMMA ReturnHolds ==
    ASSUME IInv, ReturnFromCallback
    PROVE  IInv' /\ OnlyExpire
<1> USE DEF IInv
<1> DEFINE n == Len(walks)
<1>1. /\ UNCHANGED <<m_listener, m_object, m_lock, m_lock_list, held, unlocking>>
      /\ ~unlocking /\ walks # <<>>
  BY DEF ReturnFromCallback, InApplication
<1>2. Top \in WalkRecords /\ n \in DOMAIN walks /\ Top = walks[n]
  BY <1>1, TopTyped DEF Top
<1> DEFINE v == [walks[n] EXCEPT !.calling = FALSE]
<1>3. /\ v \in WalkRecords /\ v.type = Top.type /\ v.at = Top.at
      /\ v.calling = FALSE /\ v.due = Top.due /\ v.called = Top.called
  BY <1>2 DEF WalkRecords
<1>4. walks' = [walks EXCEPT ![n] = v]
  BY DEF ReturnFromCallback
<1> HIDE DEF v
<1>5. /\ WalksTyped' /\ Len(walks') = n
      /\ DOMAIN walks' = DOMAIN walks /\ walks'[n] = v
      /\ \A i \in DOMAIN walks : i # n => walks'[i] = walks[i]
  BY <1>1, <1>3, <1>4, ChangeTop
<1>6. \A k : Alive(k)' => Alive(k)
  BY <1>1, <1>2, <1>3, <1>5 DEF Alive, Called
<1>7. \A t : Listening(t)' = Listening(t)
  BY <1>1 DEF Listening
<1>8. DispatcherTypeOK'
  BY <1>1, <1>5 DEF DispatcherTypeOK
<1>9. MapsAgree'
  BY <1>1, <1>6, <1>7 DEF MapsAgree
<1>10. EachCalledOnce'
  <2> SUFFICES ASSUME NEW i \in DOMAIN walks
               PROVE  WalkSound(walks[i])'
    BY <1>5 DEF EachCalledOnce
  <2>1. WalkSound(walks[i])
    BY DEF EachCalledOnce
  <2>2. /\ walks'[i].type = walks[i].type /\ walks'[i].at = walks[i].at
        /\ walks'[i].due = walks[i].due /\ walks'[i].called = walks[i].called
    BY <1>2, <1>3, <1>5
  <2>3. QED
    BY <1>6, <1>7, <2>1, <2>2 DEF WalkSound
<1>11. QED
  BY <1>6, <1>5, <1>8, <1>9, <1>10 DEF OnlyExpire

LEMMA ThrowHolds ==
    ASSUME IInv, ThrowFromCallback
    PROVE  IInv' /\ OnlyExpire
<1> USE DEF IInv
<1>1. /\ UNCHANGED <<m_listener, m_object, m_lock, m_lock_list, held, unlocking>>
      /\ ~unlocking /\ walks' = <<>>
  BY DEF ThrowFromCallback, InApplication
<1>2. DOMAIN walks' = {} /\ Len(walks') = 0 /\ walks' \in Seq(WalkRecords)
  BY <1>1, EmptySeq
<1>3. \A k : Alive(k)' => Alive(k)
  BY <1>1, <1>2 DEF Alive, Called
<1>4. \A t : Listening(t)' = Listening(t)
  BY <1>1 DEF Listening
<1>5. DispatcherTypeOK'
  BY <1>1, <1>2 DEF DispatcherTypeOK
<1>6. MapsAgree'
  BY <1>1, <1>3, <1>4 DEF MapsAgree
<1>7. QED
  BY <1>3, <1>2, <1>5, <1>6 DEF OnlyExpire, WalksTyped, EachCalledOnce

LEMMA UnlockHolds ==
    ASSUME IInv, Unlock
    PROVE  IInv' /\ OnlyExpire
<1> USE DEF IInv
<1>1. /\ UNCHANGED <<m_listener, m_object, m_lock_list, held>>
      /\ ~unlocking /\ walks # <<>> /\ m_lock' = m_lock - 1
      /\ walks' = SubSeq(walks, 1, Len(walks) - 1)
      /\ unlocking' = (LastUnlock(m_lock') /\ m_lock_list # <<>>)
  BY DEF Unlock, Walking
<1>2. /\ WalksTyped' /\ Len(walks') = Len(walks) - 1 /\ Len(walks') \in Nat
      /\ \A i \in DOMAIN walks' : i \in DOMAIN walks /\ walks'[i] = walks[i]
  <2>1. Len(walks) \in Nat /\ Len(walks) # 0
    BY <1>1 DEF WalksTyped
  <2>2. \A i \in 1 .. (Len(walks) - 1) : walks[i] \in WalkRecords
    BY <2>1 DEF WalksTyped
  <2>3. /\ walks' \in Seq(WalkRecords) /\ Len(walks') = Len(walks) - 1
        /\ \A i \in 1 .. (Len(walks) - 1) : walks'[i] = walks[i]
    <3> DEFINE n == Len(walks) - 1
    <3>1. walks' = SubSeq(walks, 1, n) /\ n \in Nat
      BY <1>1, <2>1
    <3> HIDE DEF n
    <3>2. Len(SubSeq(walks, 1, n)) = n
      BY <3>1
    <3>3. \A i \in 1 .. n : SubSeq(walks, 1, n)[i] = walks[i]
      BY <3>1
    <3>4. \A i \in 1 .. n : walks[i] \in WalkRecords
      BY <2>2 DEF n
    <3>5. SubSeq(walks, 1, n) \in Seq(WalkRecords)
      <4>1. 1 \in Int /\ n \in Int
        BY <3>1
      <4>2. QED
        BY <3>4, <4>1, SubSeqProperties, ZenonT(30)
    <3>6. QED
      BY <3>1, <3>2, <3>3, <3>5 DEF n
  <2>4. QED
    BY <2>1, <2>3 DEF WalksTyped
<1>3. \A k : Alive(k)' => Alive(k)
  BY <1>1, <1>2 DEF Alive, Called
<1>4. \A t : Listening(t)' = Listening(t)
  BY <1>1 DEF Listening
<1>5. m_lock' \in Nat /\ Len(walks') <= m_lock'
  BY <1>1, <1>2 DEF DispatcherTypeOK
<1>6. unlocking' => walks' = <<>> /\ m_lock_list' # <<>>
  <2> SUFFICES ASSUME unlocking'
               PROVE  walks' = <<>> /\ m_lock_list' # <<>>
    OBVIOUS
  <2>1. LastUnlock(m_lock') /\ m_lock_list # <<>>
    BY <1>1, Zenon
  <2>2. walks' \in Seq(WalkRecords) /\ Len(walks') = 0
    BY <1>2, <1>5, <2>1 DEF LastUnlock, WalksTyped
  <2>3. walks' = <<>>
    BY <2>2
  <2>4. m_lock_list' # <<>>
    BY <1>1, <2>1, Zenon
  <2>5. QED
    BY <2>3, <2>4
<1>7. DispatcherTypeOK'
  <2>1. unlocking' \in BOOLEAN
    BY <1>1, Zenon
  <2>2. QED
    BY <1>1, <1>5, <1>6, <2>1 DEF DispatcherTypeOK
<1>8. MapsAgree'
  BY <1>1, <1>3, <1>4 DEF MapsAgree
<1>9. EachCalledOnce'
  <2> SUFFICES ASSUME NEW i \in DOMAIN walks'
               PROVE  WalkSound(walks[i])'
    BY DEF EachCalledOnce
  <2>1. WalkSound(walks[i]) /\ walks'[i] = walks[i]
    BY <1>2 DEF EachCalledOnce
  <2>2. QED
    BY <1>3, <1>4, <2>1 DEF WalkSound
<1>10. QED
  BY <1>3, <1>2, <1>7, <1>8, <1>9 DEF OnlyExpire

LEMMA StepHolds == IInv /\ [DispatcherNext]_dispatcherVars => IInv'
<1> SUFFICES ASSUME IInv, [DispatcherNext]_dispatcherVars
             PROVE  IInv'
  OBVIOUS
<1>1. ASSUME NEW call \in AllCalls, Register(call)
      PROVE  IInv'
  BY <1>1, RegisterHolds
<1>2. ASSUME NEW l \in Listeners, Drop(l)
      PROVE  IInv'
  BY <1>2, DropHolds
<1>3. ASSUME NEW l \in Listeners, CallNext(l)
      PROVE  IInv'
  BY <1>3, CallNextHolds
<1>4. ASSUME NEW l \in Listeners, EraseNext(l)
      PROVE  IInv'
  BY <1>4, EraseNextHolds
<1>5. ASSUME NEW t \in Types, DispatchEventImpl(t)
      PROVE  IInv'
  BY <1>5, DispatchHolds
<1>6. CASE ReturnFromCallback
  BY <1>6, ReturnHolds
<1>7. CASE ThrowFromCallback
  BY <1>7, ThrowHolds
<1>8. CASE Unlock
  BY <1>8, UnlockHolds
<1>9. CASE RunDeferred
  BY <1>9, RunDeferredHolds
<1>10. CASE UNCHANGED dispatcherVars
  BY <1>10 DEF dispatcherVars, IInv, DispatcherTypeOK, WalksTyped, MapsAgree, EachCalledOnce,
     WalkSound, Alive, Called, Listening
<1>11. QED
  BY <1>1, <1>2, <1>3, <1>4, <1>5, <1>6, <1>7, <1>8, <1>9, <1>10 DEF DispatcherNext

LEMMA Invariance == DispatcherSpec => []IInv
  BY InitHolds, StepHolds, PTL DEF DispatcherSpec

-----------------------------------------------------------------------------
(* Every variable keeps its type, the lock counts at least the dispatches  *)
(* under way, and the calls put off are run when there is none.            *)
THEOREM TypeCorrect == DispatcherSpec => []DispatcherTypeOK
<1>1. IInv => DispatcherTypeOK
  BY DEF IInv
<1>2. QED
  BY <1>1, Invariance, PTL

(* m_listener and m_object agree about every listener that has not expired, *)
(* for any number of dispatches within each other and any calls put off.   *)
THEOREM MapsAlwaysAgree == DispatcherSpec => []MapsAgree
<1>1. IInv => MapsAgree
  BY DEF IInv
<1>2. QED
  BY <1>1, Invariance, PTL

(* A dispatch calls each of the listeners that were registered when it     *)
(* began exactly once, in their order, but those that expire before their  *)
(* turn, whatever the callbacks register, remove, drop, dispatch or throw. *)
THEOREM DispatchCallsEachOnce == DispatcherSpec => []EachCalledOnce
<1>1. IInv => EachCalledOnce
  BY DEF IInv
<1>2. QED
  BY <1>1, Invariance, PTL

-----------------------------------------------------------------------------
(* What the calls that are put off will do.                                *)

(* A call that decides whether l is registered for t: it is to be if the   *)
(* call adds it, and not to be otherwise.                                  *)
Decides(call, l, t) ==
    \/ call[1] = "clear"
    \/ call[1] = "remove" /\ call[3] = l
    \/ call[1] \in {"add", "removeType"} /\ call[2] = t /\ call[3] = l

DecidedLast(i, l, t) ==
    /\ Decides(m_lock_list[i], l, t)
    /\ \A j \in DOMAIN m_lock_list : j > i => ~Decides(m_lock_list[j], l, t)

(* What was asked of l and t is what the last call put off that decides it *)
(* will do, and what m_object has when none of them does.                  *)
Explained(l, t) ==
    /\ \A i \in DOMAIN m_lock_list :
          DecidedLast(i, l, t) =>
            (<<l, t>> \in wanted <=> m_lock_list[i][1] = "add")
    /\ (\A i \in DOMAIN m_lock_list : ~Decides(m_lock_list[i], l, t)) =>
          (<<l, t>> \in wanted <=> <<l, t>> \in m_object)

(* A listener that expires leaves this for good: a call to add it that was *)
(* put off does nothing then, and is nothing that anyone can notice.       *)
PutOffExplained ==
    \A l \in Listeners, t \in Types : Alive(l) => Explained(l, t)

NothingPutOff == ~IsLock /\ ~unlocking => m_lock_list = <<>>

(* The inductive invariant of CallsTakeEffect, beside IInv.                *)
EInv == PutOffExplained /\ NothingPutOff

(* A call that decides leaves asked for what it says, in m_object too when *)
(* it is performed; one that does not leaves both as they are.             *)
LEMMA AskedDecides ==
    ASSUME NEW call \in AllCalls, NEW l \in Listeners, NEW t \in Types, NEW W
    PROVE  /\ Decides(call, l, t) =>
                 (<<l, t>> \in Asked(call, W) <=> call[1] = "add")
           /\ ~Decides(call, l, t) =>
                 (<<l, t>> \in Asked(call, W) <=> <<l, t>> \in W)
<1>1. CASE \E u \in Types, k \in Listeners : call = <<"add", u, k>>
  <2>1. PICK u \in Types, k \in Listeners : call = <<"add", u, k>>
    BY <1>1
  <2>2. Asked(call, W) = W \cup {<<k, u>>}
    BY <2>1 DEF Asked
  <2>3. QED
    BY <2>1, <2>2 DEF Decides
<1>2. CASE \E u \in Types, k \in Listeners : call = <<"removeType", u, k>>
  <2>1. PICK u \in Types, k \in Listeners : call = <<"removeType", u, k>>
    BY <1>2
  <2>2. Asked(call, W) = W \ {<<k, u>>}
    BY <2>1 DEF Asked
  <2>3. QED
    BY <2>1, <2>2 DEF Decides
<1>3. CASE \E k \in Listeners : call = <<"remove", 0, k>>
  <2>1. PICK k \in Listeners : call = <<"remove", 0, k>>
    BY <1>3
  <2>2. Asked(call, W) = {pair \in W : pair[1] # k}
    BY <2>1 DEF Asked
  <2>3. QED
    BY <2>1, <2>2 DEF Decides
<1>4. CASE call = <<"clear", 0, 0>>
  <2>1. Asked(call, W) = {}
    BY <1>4 DEF Asked
  <2>2. QED
    BY <1>4, <2>1 DEF Decides
<1>5. QED
  BY <1>1, <1>2, <1>3, <1>4, CallKinds

LEMMA PerformDecides ==
    ASSUME NEW call \in AllCalls, NEW l \in Listeners, NEW t \in Types,
           MapsAgree, Alive(l), Perform(call)
    PROVE  /\ Decides(call, l, t) => (<<l, t>> \in m_object' <=> call[1] = "add")
           /\ ~Decides(call, l, t) =>
                 (<<l, t>> \in m_object' <=> <<l, t>> \in m_object)
<1>1. CASE \E u \in Types, k \in Listeners : call = <<"add", u, k>>
  <2>1. PICK u \in Types, k \in Listeners : call = <<"add", u, k>>
    BY <1>1
  <2>2. m_object' = IF Alive(k) THEN m_object \cup {<<k, u>>} ELSE m_object
    BY <2>1 DEF Perform, AddEventListener
  <2>3. QED
    BY <2>1, <2>2 DEF Decides
<1>2. CASE \E u \in Types, k \in Listeners : call = <<"removeType", u, k>>
  <2>1. PICK u \in Types, k \in Listeners : call = <<"removeType", u, k>>
    BY <1>2
  <2>2. m_object' = IF <<k, u>> \in m_object /\ u \in DOMAIN m_listener
                      THEN m_object \ {<<k, u>>} ELSE m_object
    BY <2>1 DEF Perform, RemoveFromType
  <2>3. <<l, t>> \in m_object => t \in DOMAIN m_listener
    BY DEF MapsAgree, Listening
  <2>4. QED
    BY <2>1, <2>2, <2>3 DEF Decides
<1>3. CASE \E k \in Listeners : call = <<"remove", 0, k>>
  <2>1. PICK k \in Listeners : call = <<"remove", 0, k>>
    BY <1>3
  <2>2. m_object' = {pair \in m_object : pair[1] # k}
    BY <2>1 DEF Perform, RemoveEventListener
  <2>3. QED
    BY <2>1, <2>2 DEF Decides
<1>4. CASE call = <<"clear", 0, 0>>
  <2>1. m_object' = {}
    BY <1>4 DEF Perform, ClearEventListener
  <2>2. QED
    BY <1>4, <2>1 DEF Decides
<1>5. QED
  BY <1>1, <1>2, <1>3, <1>4, CallKinds

-----------------------------------------------------------------------------
(* That invariant, action by action.                                       *)

LEMMA EInvInit == DispatcherInit => EInv
<1> SUFFICES ASSUME DispatcherInit PROVE EInv
  OBVIOUS
<1>1. m_lock_list = <<>> /\ DOMAIN m_lock_list = {}
  BY DEF DispatcherInit
<1>2. QED
  BY <1>1 DEF DispatcherInit, EInv, PutOffExplained, NothingPutOff, Explained

LEMMA RegisterExplained ==
    ASSUME IInv, EInv, NEW call \in AllCalls, Register(call)
    PROVE  EInv'
<1>1. /\ wanted' = Asked(call, wanted)
      /\ UNCHANGED <<m_lock, held, walks, unlocking>> /\ ~unlocking
  BY DEF Register, InApplication
<1>2. \A l : Alive(l)' <=> Alive(l)
  BY <1>1 DEF Alive, Called
<1>3. CASE IsLock
  <2>1. m_lock_list' = Append(m_lock_list, call)
        /\ UNCHANGED <<m_listener, m_object>>
    BY <1>3 DEF Register, PutOff
  <2>2. m_lock_list \in Seq(AllCalls)
    BY DEF IInv, DispatcherTypeOK
  <2> DEFINE n == Len(m_lock_list)
  <2>3. /\ DOMAIN m_lock_list = 1 .. n /\ n \in Nat
        /\ DOMAIN m_lock_list' = 1 .. (n + 1)
        /\ m_lock_list'[n + 1] = call
        /\ \A i \in 1 .. n : m_lock_list'[i] = m_lock_list[i]
    BY <2>1, <2>2
  <2> HIDE DEF n
  <2>4. ASSUME NEW l \in Listeners, NEW t \in Types, Explained(l, t)
        PROVE  Explained(l, t)'
    <3>1. CASE Decides(call, l, t)
      <4>1. <<l, t>> \in wanted' <=> call[1] = "add"
        BY <1>1, <3>1, AskedDecides
      <4>2. ~\A i \in DOMAIN m_lock_list' : ~Decides(m_lock_list'[i], l, t)
        BY <2>3, <3>1
      <4>3. ASSUME NEW i \in DOMAIN m_lock_list', DecidedLast(i, l, t)'
            PROVE  <<l, t>> \in wanted' <=> m_lock_list'[i][1] = "add"
        <5>1. i \in 1 .. (n + 1) /\ ~(n + 1 > i)
          BY <2>3, <3>1, <4>3 DEF DecidedLast
        <5>2. i = n + 1
          BY <2>3, <5>1
        <5>3. QED
          BY <2>3, <4>1, <5>2
      <4>4. QED
        BY <4>2, <4>3 DEF Explained
    <3>2. CASE ~Decides(call, l, t)
      <4>1. <<l, t>> \in wanted' <=> <<l, t>> \in wanted
        BY <1>1, <3>2, AskedDecides
      <4>2. ASSUME NEW i \in DOMAIN m_lock_list', DecidedLast(i, l, t)'
            PROVE  <<l, t>> \in wanted' <=> m_lock_list'[i][1] = "add"
        <5>1. i \in 1 .. (n + 1) /\ i # n + 1
          BY <2>3, <3>2, <4>2 DEF DecidedLast
        <5>2. i \in 1 .. n
          BY <2>3, <5>1
        <5>3. DecidedLast(i, l, t)
          <6>1. Decides(m_lock_list[i], l, t)
            BY <2>3, <4>2, <5>2 DEF DecidedLast
          <6>2. ASSUME NEW j \in 1 .. n, j > i
                PROVE  ~Decides(m_lock_list[j], l, t)
            <7>1. j \in 1 .. (n + 1)
              BY <2>3
            <7>2. QED
              BY <2>3, <4>2, <6>2, <7>1 DEF DecidedLast
          <6>3. QED
            BY <2>3, <6>1, <6>2 DEF DecidedLast
        <5>4. <<l, t>> \in wanted <=> m_lock_list[i][1] = "add"
          BY <2>3, <2>4, <5>2, <5>3 DEF Explained
        <5>5. QED
          BY <2>3, <4>1, <5>2, <5>4
      <4>3. ASSUME \A i \in DOMAIN m_lock_list' : ~Decides(m_lock_list'[i], l, t)
            PROVE  <<l, t>> \in wanted' <=> <<l, t>> \in m_object'
        <5>1. ASSUME NEW i \in 1 .. n
              PROVE  ~Decides(m_lock_list[i], l, t)
          <6>1. i \in 1 .. (n + 1)
            BY <2>3
          <6>2. QED
            BY <2>3, <4>3, <6>1
        <5>2. <<l, t>> \in wanted <=> <<l, t>> \in m_object
          BY <2>3, <2>4, <5>1 DEF Explained
        <5>3. QED
          BY <2>1, <4>1, <5>2
      <4>4. QED
        BY <4>2, <4>3 DEF Explained
    <3>3. QED
      BY <3>1, <3>2
  <2>5. PutOffExplained'
    BY <1>2, <2>4 DEF EInv, PutOffExplained
  <2>6. QED
    BY <1>1, <1>3, <2>5 DEF EInv, NothingPutOff, IsLock
<1>4. CASE ~IsLock
  <2>1. Perform(call) /\ UNCHANGED m_lock_list
    BY <1>4 DEF Register
  <2>2. m_lock_list = <<>> /\ DOMAIN m_lock_list = {}
    BY <1>1, <1>4 DEF EInv, NothingPutOff
  <2>3. ASSUME NEW l \in Listeners, NEW t \in Types, Alive(l)
        PROVE  Explained(l, t)'
    <3>1. <<l, t>> \in wanted <=> <<l, t>> \in m_object
      BY <2>2, <2>3 DEF EInv, PutOffExplained, Explained
    <3>2. MapsAgree
      BY DEF IInv
    <3>3. <<l, t>> \in wanted' <=> <<l, t>> \in m_object'
      BY <1>1, <2>1, <2>3, <3>1, <3>2, AskedDecides, PerformDecides
    <3>4. QED
      BY <2>1, <2>2, <3>3 DEF Explained
  <2>4. PutOffExplained'
    BY <1>2, <2>3 DEF PutOffExplained
  <2>5. QED
    BY <2>1, <2>2, <2>4 DEF EInv, NothingPutOff
<1>5. QED
  BY <1>3, <1>4

LEMMA RunDeferredExplained ==
    ASSUME IInv, EInv, RunDeferred
    PROVE  EInv'
<1>1. /\ UNCHANGED <<m_lock, held, walks, wanted>>
      /\ Perform(Head(m_lock_list)) /\ m_lock_list' = Tail(m_lock_list)
      /\ unlocking' = (Len(m_lock_list) > 1)
  BY DEF RunDeferred
<1>2. m_lock_list \in Seq(AllCalls) /\ m_lock_list # <<>>
  BY DEF RunDeferred, IInv, DispatcherTypeOK
<1> DEFINE n == Len(m_lock_list)
           call == Head(m_lock_list)
<1>3. /\ DOMAIN m_lock_list = 1 .. n /\ n \in Nat \ {0}
      /\ DOMAIN m_lock_list' = 1 .. (n - 1) /\ Len(m_lock_list') = n - 1
      /\ m_lock_list' \in Seq(AllCalls)
      /\ m_lock_list[1] = call /\ call \in AllCalls
      /\ \A i \in 1 .. (n - 1) : m_lock_list'[i] = m_lock_list[i + 1]
  BY <1>1, <1>2
<1>4. Perform(call) /\ unlocking' = (n > 1)
  BY <1>1
<1> HIDE DEF n, call
<1>5. \A l : Alive(l)' <=> Alive(l)
  BY <1>1 DEF Alive, Called
<1>6. ASSUME NEW l \in Listeners, NEW t \in Types, Alive(l)
      PROVE  Explained(l, t)'
  <2>1. Explained(l, t) /\ MapsAgree
    BY <1>6 DEF IInv, EInv, PutOffExplained
  <2>2. ASSUME NEW i \in DOMAIN m_lock_list', DecidedLast(i, l, t)'
        PROVE  <<l, t>> \in wanted' <=> m_lock_list'[i][1] = "add"
    <3>1. i \in 1 .. (n - 1) /\ i + 1 \in 1 .. n
      BY <1>3, <2>2
    <3>2. Decides(m_lock_list[i + 1], l, t)
      BY <1>3, <2>2, <3>1 DEF DecidedLast
    <3>3. ASSUME NEW j \in 1 .. n, j > i + 1
          PROVE  ~Decides(m_lock_list[j], l, t)
      <4>1. j - 1 \in 1 .. (n - 1) /\ j - 1 > i /\ (j - 1) + 1 = j
        BY <1>3, <3>1, <3>3
      <4>2. m_lock_list'[j - 1] = m_lock_list[j]
        BY <1>3, <4>1
      <4>3. QED
        BY <1>3, <2>2, <4>1, <4>2 DEF DecidedLast
    <3>4. DecidedLast(i + 1, l, t)
      BY <1>3, <3>2, <3>3 DEF DecidedLast
    <3>5. <<l, t>> \in wanted <=> m_lock_list[i + 1][1] = "add"
      BY <1>3, <2>1, <3>1, <3>4 DEF Explained
    <3>6. QED
      BY <1>1, <1>3, <3>1, <3>5
  <2>3. ASSUME \A i \in DOMAIN m_lock_list' : ~Decides(m_lock_list'[i], l, t)
        PROVE  <<l, t>> \in wanted' <=> <<l, t>> \in m_object'
    <3>1. ASSUME NEW j \in 1 .. n, j > 1
          PROVE  ~Decides(m_lock_list[j], l, t)
      <4>1. j - 1 \in 1 .. (n - 1) /\ (j - 1) + 1 = j
        BY <1>3, <3>1
      <4>2. m_lock_list'[j - 1] = m_lock_list[j]
        BY <1>3, <4>1
      <4>3. QED
        BY <1>3, <2>3, <4>1, <4>2
    <3>2. 1 \in 1 .. n
      BY <1>3
    <3>3. CASE Decides(call, l, t)
      <4>1. DecidedLast(1, l, t)
        BY <1>3, <3>1, <3>2, <3>3 DEF DecidedLast
      <4>2. <<l, t>> \in wanted <=> call[1] = "add"
        BY <1>3, <2>1, <3>2, <4>1 DEF Explained
      <4>3. <<l, t>> \in m_object' <=> call[1] = "add"
        BY <1>3, <1>4, <1>6, <2>1, <3>3, PerformDecides
      <4>4. QED
        BY <1>1, <4>2, <4>3
    <3>4. CASE ~Decides(call, l, t)
      <4>1. ASSUME NEW j \in 1 .. n
            PROVE  ~Decides(m_lock_list[j], l, t)
        <5>1. j = 1 \/ j > 1
          BY <1>3
        <5>2. QED
          BY <1>3, <3>1, <3>4, <5>1
      <4>2. <<l, t>> \in wanted <=> <<l, t>> \in m_object
        BY <1>3, <2>1, <4>1 DEF Explained
      <4>3. <<l, t>> \in m_object' <=> <<l, t>> \in m_object
        BY <1>3, <1>4, <1>6, <2>1, <3>4, PerformDecides
      <4>4. QED
        BY <1>1, <4>2, <4>3
    <3>5. QED
      BY <3>3, <3>4
  <2>4. QED
    BY <2>2, <2>3 DEF Explained
<1>7. PutOffExplained'
  BY <1>5, <1>6 DEF PutOffExplained
<1>8. NothingPutOff'
  <2> SUFFICES ASSUME ~unlocking'
               PROVE  m_lock_list' = <<>>
    BY DEF NothingPutOff
  <2>1. ~(n > 1)
    BY <1>4, Zenon
  <2>2. Len(m_lock_list') = 0
    BY <1>3, <2>1
  <2>3. QED
    BY <1>3, <2>2
<1>9. QED
  BY <1>7, <1>8 DEF EInv

(* The other actions leave the calls and what is registered alone, and let *)
(* listeners only expire.                                                  *)
LEMMA ExplainedKept ==
    ASSUME EInv, UNCHANGED <<m_object, m_lock_list, wanted>>, OnlyExpire
    PROVE  PutOffExplained'
<1>1. ASSUME NEW l \in Listeners, NEW t \in Types, Alive(l)'
      PROVE  Explained(l, t)'
  <2>1. Explained(l, t)
    BY <1>1 DEF OnlyExpire, EInv, PutOffExplained
  <2>2. QED
    BY <2>1 DEF Explained, DecidedLast
<1>2. QED
  BY <1>1 DEF PutOffExplained

(* A dispatch is over: what was put off is run if that was the outermost.  *)
LEMMA UnlockExplained ==
    ASSUME IInv, EInv, Unlock
    PROVE  EInv'
<1>1. /\ UNCHANGED <<m_object, m_lock_list, wanted>>
      /\ unlocking' = (LastUnlock(m_lock') /\ m_lock_list # <<>>)
  BY DEF Unlock
<1>2. OnlyExpire /\ m_lock' \in Nat
  BY UnlockHolds DEF IInv, DispatcherTypeOK
<1>3. NothingPutOff'
  <2> SUFFICES ASSUME ~IsLock', ~unlocking'
               PROVE  m_lock_list' = <<>>
    BY DEF NothingPutOff
  <2>1. LastUnlock(m_lock')
    BY <1>2 DEF IsLock, LastUnlock
  <2>2. ~(m_lock_list # <<>>)
    BY <1>1, <2>1, Zenon
  <2>3. QED
    BY <1>1, <2>2
<1>4. QED
  BY <1>1, <1>2, <1>3, ExplainedKept DEF EInv

LEMMA EInvStep ==
    ASSUME IInv, EInv, [DispatcherNext]_dispatcherVars
    PROVE  EInv'
<1>1. ASSUME NEW call \in AllCalls, Register(call)
      PROVE  EInv'
  BY <1>1, RegisterExplained
<1>2. CASE RunDeferred
  BY <1>2, RunDeferredExplained
<1>3. CASE Unlock
  BY <1>3, UnlockExplained
<1>4. ASSUME NEW l \in Listeners, Drop(l) \/ CallNext(l) \/ EraseNext(l)
      PROVE  EInv'
  <2>1. OnlyExpire
    BY <1>4, DropHolds, CallNextHolds, EraseNextHolds
  <2>2. UNCHANGED <<m_object, m_lock, m_lock_list, unlocking, wanted>>
    BY <1>4 DEF Drop, CallNext, EraseNext
  <2>3. QED
    BY <2>1, <2>2, ExplainedKept DEF EInv, NothingPutOff, IsLock
<1>5. ASSUME NEW t \in Types, DispatchEventImpl(t)
      PROVE  EInv'
  <2>1. OnlyExpire
    BY <1>5, DispatchHolds
  <2>2. /\ UNCHANGED <<m_object, m_lock_list, unlocking, wanted>>
        /\ m_lock' = m_lock + 1 /\ m_lock \in Nat
    BY <1>5 DEF DispatchEventImpl, IInv, DispatcherTypeOK
  <2>3. NothingPutOff'
    BY <2>2 DEF NothingPutOff, IsLock
  <2>4. QED
    BY <2>1, <2>2, <2>3, ExplainedKept DEF EInv
<1>6. CASE ReturnFromCallback \/ ThrowFromCallback
  <2>1. OnlyExpire
    BY <1>6, ReturnHolds, ThrowHolds
  <2>2. UNCHANGED <<m_object, m_lock, m_lock_list, unlocking, wanted>>
    BY <1>6 DEF ReturnFromCallback, ThrowFromCallback
  <2>3. QED
    BY <2>1, <2>2, ExplainedKept DEF EInv, NothingPutOff, IsLock
<1>7. CASE UNCHANGED dispatcherVars
  <2>1. OnlyExpire
    BY <1>7 DEF dispatcherVars, OnlyExpire, Alive, Called
  <2>2. UNCHANGED <<m_object, m_lock, m_lock_list, unlocking, wanted>>
    BY <1>7 DEF dispatcherVars
  <2>3. QED
    BY <2>1, <2>2, ExplainedKept DEF EInv, NothingPutOff, IsLock
<1>8. QED
  BY <1>1, <1>2, <1>3, <1>4, <1>5, <1>6, <1>7 DEF DispatcherNext

(* Outside of any dispatch the listeners that are registered, of those     *)
(* that have not expired, are what the calls have asked for in the order   *)
(* they were made, however many of them callbacks had put off and however  *)
(* deeply their dispatches were within each other.                         *)
THEOREM PutOffCallsTakeEffect == DispatcherSpec => []CallsTakeEffect
<1>1. IInv /\ EInv => CallsTakeEffect
  <2> SUFFICES ASSUME IInv, EInv, ~IsLock, ~unlocking,
                      NEW l \in Listeners, NEW t \in Types, Alive(l)
               PROVE  l \in Listening(t) <=> <<l, t>> \in wanted
    BY DEF CallsTakeEffect
  <2>1. m_lock_list = <<>> /\ DOMAIN m_lock_list = {}
    BY DEF EInv, NothingPutOff
  <2>2. <<l, t>> \in wanted <=> <<l, t>> \in m_object
    BY <2>1 DEF EInv, PutOffExplained, Explained
  <2>3. QED
    BY <2>2 DEF IInv, MapsAgree
<1>2. IInv /\ EInv /\ [DispatcherNext]_dispatcherVars => EInv'
  BY EInvStep
<1>3. QED
  BY <1>1, <1>2, EInvInit, Invariance, PTL DEF DispatcherSpec
=============================================================================

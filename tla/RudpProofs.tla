----------------------------- MODULE RudpProofs -----------------------------
(***************************************************************************)
(* Proofs about the RUDP transport, for any number of clients, connections *)
(* and restarts: the convs the server hands out and takes back, the data   *)
(* it feeds to its receivers, what is true of each client whatever late,   *)
(* lost and repeated datagrams there are, and that sessions are kept.      *)
(***************************************************************************)
EXTENDS Rudp, FiniteSetTheorems, SequenceFacts

-----------------------------------------------------------------------------
(* CarpSafeIDCreator.                                                      *)

AnyCreator == [m_id_list : Seq(Nat), m_max_id : Nat]

(* ToSet of the sequences the creator makes. *)
LEMMA AppendToSet ==
    ASSUME NEW S, NEW s \in Seq(S), NEW e \in S
    PROVE  /\ ToSet(Append(s, e)) = ToSet(s) \cup {e}
           /\ NoRepeats(s) /\ e \notin ToSet(s) => NoRepeats(Append(s, e))
  BY DEF ToSet, NoRepeats

LEMMA TailToSet ==
    ASSUME NEW S, NEW s \in Seq(S), s # <<>>, NoRepeats(s)
    PROVE  /\ ToSet(Tail(s)) = ToSet(s) \ {Head(s)}
           /\ Head(s) \in ToSet(s)
           /\ NoRepeats(Tail(s))
  <1>1. Len(s) \in Nat \ {0} /\ DOMAIN s = 1..Len(s) /\ Head(s) = s[1]
    BY EmptySeq
  <1>2. /\ Tail(s) \in Seq(S) /\ Len(Tail(s)) = Len(s) - 1
        /\ DOMAIN Tail(s) = 1..(Len(s) - 1)
        /\ \A i \in 1..(Len(s) - 1) : Tail(s)[i] = s[i + 1]
    BY <1>1
  <1>3. Head(s) \in ToSet(s)
    BY <1>1 DEF ToSet
  <1>4. NoRepeats(Tail(s))
    BY <1>1, <1>2 DEF NoRepeats
  <1>5. ToSet(Tail(s)) \subseteq ToSet(s) \ {Head(s)}
    BY <1>1, <1>2 DEF ToSet, NoRepeats
  <1>6. ASSUME NEW x \in ToSet(s) \ {Head(s)} PROVE x \in ToSet(Tail(s))
    <2>1. PICK i \in 1..Len(s) : x = s[i]
      BY <1>1 DEF ToSet
    <2>2. i # 1
      BY <2>1, <1>1
    <2>3. i - 1 \in 1..(Len(s) - 1) /\ Tail(s)[i - 1] = x
      BY <2>1, <2>2, <1>1, <1>2
    <2> QED
      BY <2>3, <1>2 DEF ToSet
  <1> QED
    BY <1>3, <1>4, <1>5, <1>6

(* A new creator accounts for no number. *)
LEMMA NewAccounts == NewCreator \in AnyCreator /\ Accounts(NewCreator, {})
  <1>1. <<>> \in Seq(Nat) /\ DOMAIN << >> = {}
    BY EmptySeq
  <1> QED
    BY <1>1 DEF NewCreator, AnyCreator, Accounts, NoRepeats, ToSet

(* CreateID hands out a number that is not in use. *)
LEMMA CreateAccounts ==
    ASSUME NEW k \in AnyCreator, NEW live, Accounts(k, live)
    PROVE  /\ CreateID(k) \in AnyCreator
           /\ CreatedID(k) \notin live
           /\ Accounts(CreateID(k), live \cup {CreatedID(k)})
  <1>1. CASE k.m_id_list = <<>>
    <2>1. CreatedID(k) = k.m_max_id + 1
      BY <1>1 DEF CreatedID
    <2>2. /\ CreateID(k) \in AnyCreator
          /\ CreateID(k).m_id_list = <<>>
          /\ CreateID(k).m_max_id = k.m_max_id + 1
      BY <1>1 DEF CreateID, AnyCreator
    <2>3. ToSet(<<>>) = {} /\ NoRepeats(<<>>)
      BY EmptySeq DEF ToSet, NoRepeats
    <2>4. live = 1..k.m_max_id
      BY <1>1, <2>3 DEF Accounts
    <2>5. k.m_max_id \in Nat
      BY DEF AnyCreator
    <2> QED
      BY <2>1, <2>2, <2>3, <2>4, <2>5 DEF Accounts
  <1>2. CASE k.m_id_list # <<>>
    <2>1. k.m_id_list \in Seq(Nat)
      BY DEF AnyCreator
    <2>2. CreatedID(k) = Head(k.m_id_list)
      BY <1>2 DEF CreatedID
    <2>3. /\ CreateID(k) \in AnyCreator
          /\ CreateID(k).m_id_list = Tail(k.m_id_list)
          /\ CreateID(k).m_max_id = k.m_max_id
      <3>1. Tail(k.m_id_list) \in Seq(Nat)
        BY <1>2, <2>1
      <3>2. CreateID(k) = [k EXCEPT !.m_id_list = Tail(k.m_id_list)]
        BY <1>2 DEF CreateID
      <3> QED
        BY <3>1, <3>2 DEF AnyCreator
    <2>4. /\ ToSet(Tail(k.m_id_list)) = ToSet(k.m_id_list) \ {Head(k.m_id_list)}
          /\ Head(k.m_id_list) \in ToSet(k.m_id_list)
          /\ NoRepeats(Tail(k.m_id_list))
      BY <2>1, <1>2, TailToSet DEF Accounts
    <2> QED
      BY <2>2, <2>3, <2>4 DEF Accounts
  <1> QED
    BY <1>1, <1>2

(* ReleaseID takes back a number that is in use. *)
LEMMA ReleaseAccounts ==
    ASSUME NEW k \in AnyCreator, NEW live, Accounts(k, live), NEW id \in live
    PROVE  /\ ReleaseID(k, id) \in AnyCreator
           /\ Accounts(ReleaseID(k, id), live \ {id})
  <1>1. k.m_id_list \in Seq(Nat) /\ k.m_max_id \in Nat /\ id \in 1..k.m_max_id
    BY DEF AnyCreator, Accounts
  <1>2. CASE id = k.m_max_id
    <2>1. /\ ReleaseID(k, id) \in AnyCreator
          /\ ReleaseID(k, id).m_id_list = k.m_id_list
          /\ ReleaseID(k, id).m_max_id = k.m_max_id - 1
      <3>1. k.m_max_id - 1 \in Nat
        BY <1>1
      <3>2. ReleaseID(k, id) = [k EXCEPT !.m_max_id = k.m_max_id - 1]
        BY <1>2 DEF ReleaseID
      <3> QED
        BY <1>1, <3>1, <3>2 DEF AnyCreator
    <2>2. 1..(k.m_max_id - 1) = 1..k.m_max_id \ {id}
      <3>1. PICK n \in Nat : n = k.m_max_id
        BY <1>1
      <3>2. \A i \in Int : i \in 1..(n - 1) <=> i \in 1..n /\ i # n
        OBVIOUS
      <3>3. 1..(n - 1) = 1..n \ {n}
        BY <3>2
      <3> QED
        BY <1>2, <3>1, <3>3
    <2> QED
      BY <2>1, <2>2 DEF Accounts
  <1>3. CASE id # k.m_max_id
    <2>1. /\ ReleaseID(k, id) \in AnyCreator
          /\ ReleaseID(k, id).m_id_list = Append(k.m_id_list, id)
          /\ ReleaseID(k, id).m_max_id = k.m_max_id
      <3>1. Append(k.m_id_list, id) \in Seq(Nat)
        BY <1>1
      <3>2. ReleaseID(k, id) = [k EXCEPT !.m_id_list = Append(k.m_id_list, id)]
        BY <1>3 DEF ReleaseID
      <3> QED
        BY <3>1, <3>2 DEF AnyCreator
    <2>2. /\ ToSet(Append(k.m_id_list, id)) = ToSet(k.m_id_list) \cup {id}
          /\ NoRepeats(Append(k.m_id_list, id))
      BY <1>1, AppendToSet DEF Accounts
    <2> QED
      BY <2>1, <2>2 DEF Accounts
  <1> QED
    BY <1>2, <1>3

-----------------------------------------------------------------------------
(* The server's convs.                                                     *)

ConvInv ==
    /\ m_conv_creator \in AnyCreator
    /\ ConvsAccountedFor

(* No action of the server but three touches the creator or the keys of    *)
(* m_outer_map: a connection is granted, ends, or is ended by Close.       *)
ConvVars == <<m_conv_creator, DOMAIN m_outer_map>>

LEMMA RequestKeepsConvs ==
    ASSUME ConvInv, NEW d, HandleConnectRequest(d)
    PROVE  ConvInv'
  <1> DEFINE conv == CreatedID(m_conv_creator)
  <1>1. CASE IsEmpty(m_conv_creator, limit.convs)
    BY <1>1 DEF HandleConnectRequest, ConvInv, ConvsAccountedFor
  <1>2. CASE ~IsEmpty(m_conv_creator, limit.convs)
    <2>1. m_conv_creator' = CreateID(m_conv_creator)
      BY <1>2 DEF HandleConnectRequest
    <2>2. DOMAIN m_outer_map' = DOMAIN m_outer_map \cup {conv}
      BY <1>2 DEF HandleConnectRequest, HandleOuterConnect
    <2> QED
      BY <2>1, <2>2, CreateAccounts DEF ConvInv, ConvsAccountedFor
  <1> QED
    BY <1>1, <1>2

LEMMA ReleaseKeepsConvs ==
    ASSUME ConvInv, NEW conv \in DOMAIN m_outer_map,
           m_conv_creator' = ReleaseID(m_conv_creator, conv),
           m_outer_map' = WithoutConv(conv)
    PROVE  ConvInv'
  <1>1. DOMAIN m_outer_map' = DOMAIN m_outer_map \ {conv}
    BY DEF WithoutConv
  <1> QED
    BY <1>1, ReleaseAccounts DEF ConvInv, ConvsAccountedFor

LEMMA DatagramKeepsConvs ==
    ASSUME ConvInv, NEW d, HandleDatagram(d)
    PROVE  ConvInv'
  <1>1. CASE HandleConnectRequest(d)
    BY <1>1, RequestKeepsConvs
  <1>2. CASE HandleCloseRequest(d)
    <2>1. CASE CheckSession(d.conv, -d.session)
      <3>1. d.conv \in DOMAIN m_outer_map
        BY <2>1 DEF CheckSession
      <3>2. HandleOuterDisconnected(d.conv)
        BY <1>2, <2>1 DEF HandleCloseRequest
      <3> QED
        BY <3>1, <3>2, ReleaseKeepsConvs DEF HandleOuterDisconnected
    <2>2. CASE ~CheckSession(d.conv, -d.session)
      BY <1>2, <2>2 DEF HandleCloseRequest, ConvInv, ConvsAccountedFor
    <2> QED
      BY <2>1, <2>2
  <1>3. CASE HandleData(d)
    <2>1. DOMAIN m_outer_map' = DOMAIN m_outer_map
      BY <1>3 DEF HandleData
    <2>2. m_conv_creator' = m_conv_creator
      BY <1>3 DEF HandleData
    <2> QED
      BY <2>1, <2>2 DEF ConvInv, ConvsAccountedFor
  <1> QED
    BY <1>1, <1>2, <1>3 DEF HandleDatagram

LEMMA ConvInvInit == Init => ConvInv
  BY NewAccounts DEF Init, ServerInit, Empty, ConvInv, ConvsAccountedFor

LEMMA ConvInvStep == ConvInv /\ [Next]_vars => ConvInv'
  <1> SUFFICES ASSUME ConvInv, [Next]_vars PROVE ConvInv'
    OBVIOUS
  <1>1. ASSUME UNCHANGED ConvVars PROVE ConvInv'
    BY <1>1 DEF ConvVars, ConvInv, ConvsAccountedFor
  <1>2. CASE ServerStart \/ StartFails \/ CloseBegin \/ CloseEnd \/ ServerHandleSend
    BY <1>1, <1>2 DEF ServerStart, StartFails, CloseBegin, CloseEnd,
                      ServerHandleSend, ConvVars
  <1>3. CASE \E conv \in DOMAIN m_outer_map : CloseReceiver(conv)
    BY <1>3, ReleaseKeepsConvs DEF CloseReceiver
  <1>4. CASE ServerHandleRead
    BY <1>4, DatagramKeepsConvs DEF ServerHandleRead
  <1>5. CASE HandleLateRead
    BY <1>1, <1>5, DatagramKeepsConvs DEF HandleLateRead, ConvVars
  <1>6. CASE ServerSendHeartbeat \/ ServerUpdateKcp
    BY <1>1, <1>6 DEF ServerSendHeartbeat, ServerUpdateKcp, ConvVars
  <1>7. CASE UNCHANGED serverVars
    BY <1>1, <1>7 DEF serverVars, ConvVars
  <1>8. CASE UNCHANGED vars
    BY <1>7, <1>8 DEF vars, serverVars
  <1> QED
    BY <1>2, <1>3, <1>4, <1>5, <1>6, <1>7, <1>8 DEF Next, ServerNext

(* No conv is ever given to two receivers and none is ever lost, whatever  *)
(* the order in which clients come and go and the server is closed.        *)
THEOREM ConvsNeverShared == Spec => []ConvsAccountedFor
  <1>1. ConvInv => ConvsAccountedFor
    BY DEF ConvInv
  <1> QED
    BY <1>1, ConvInvInit, ConvInvStep, PTL DEF Spec

-----------------------------------------------------------------------------
(* The data of a receiver.                                                 *)

(* The fields a receiver has. *)
IsReceiver(r) ==
    r = [m_endpoint |-> r.m_endpoint, m_session |-> r.m_session,
         queued |-> r.queued, output |-> r.output, rcv |-> r.rcv]

DataInv ==
    /\ OnlyOwnData
    /\ \A conv \in DOMAIN m_outer_map : IsReceiver(m_outer_map[conv])

LEMMA DataInvInit == Init => DataInv
  BY DEF Init, ServerInit, Empty, DataInv, OnlyOwnData

LEMMA DatagramKeepsData ==
    ASSUME DataInv, NEW d, HandleDatagram(d)
    PROVE  DataInv'
  <1>1. CASE HandleConnectRequest(d)
    <2>1. CASE UNCHANGED m_outer_map
      BY <2>1 DEF DataInv, OnlyOwnData
    <2>2. ASSUME NEW endpoint, NEW session, NEW conv,
                 HandleOuterConnect(endpoint, session, conv)
          PROVE  DataInv'
      BY <2>2 DEF HandleOuterConnect, DataInv, OnlyOwnData, IsReceiver
    <2> QED
      BY <1>1, <2>1, <2>2 DEF HandleConnectRequest
  <1>2. CASE HandleCloseRequest(d)
    BY <1>2 DEF HandleCloseRequest, HandleOuterDisconnected, WithoutConv,
                DataInv, OnlyOwnData
  <1>3. CASE HandleData(d)
    <2>1. CASE CheckSession(d.conv, d.session)
      <3> DEFINE r == m_outer_map[d.conv]
                 more == IF d.seg = 0 THEN r.rcv
                         ELSE r.rcv \cup {<<d.session, d.seg>>}
      <3>1. /\ d.conv \in DOMAIN m_outer_map /\ r.m_session = d.session
            /\ IsReceiver(r) /\ \A s \in r.rcv : s[1] = d.session
        BY <2>1 DEF CheckSession, DataInv, OnlyOwnData
      <3>2. /\ DOMAIN m_outer_map' = DOMAIN m_outer_map
            /\ \A v \in DOMAIN m_outer_map \ {d.conv} :
                  m_outer_map'[v] = m_outer_map[v]
            /\ m_outer_map'[d.conv] = [r EXCEPT !.m_endpoint = d.from, !.rcv = more]
        BY <1>3, <2>1, <3>1 DEF HandleData
      <3>3. m_outer_map'[d.conv] =
              [m_endpoint |-> d.from, m_session |-> d.session,
               queued |-> r.queued, output |-> r.output, rcv |-> more]
        BY <3>1, <3>2 DEF IsReceiver
      <3>4. \A s \in more : s[1] = d.session
        BY <3>1
      <3> QED
        BY <3>1, <3>2, <3>3, <3>4 DEF DataInv, OnlyOwnData, IsReceiver
    <2>2. CASE ~CheckSession(d.conv, d.session)
      BY <1>3, <2>2 DEF HandleData, DataInv, OnlyOwnData
    <2> QED
      BY <2>1, <2>2
  <1> QED
    BY <1>1, <1>2, <1>3 DEF HandleDatagram

(* Heartbeats and UpdateKcp count in every receiver and feed none. *)
LEMMA CountingKeepsData ==
    ASSUME DataInv,
           DOMAIN m_outer_map' = DOMAIN m_outer_map,
           \A conv \in DOMAIN m_outer_map :
              \E n : \/ m_outer_map'[conv] = [m_outer_map[conv] EXCEPT !.queued = n]
                    \/ m_outer_map'[conv] = [m_outer_map[conv] EXCEPT !.output = n]
    PROVE  DataInv'
  <1> SUFFICES ASSUME NEW conv \in DOMAIN m_outer_map
               PROVE  /\ IsReceiver(m_outer_map'[conv])
                      /\ m_outer_map'[conv].rcv = m_outer_map[conv].rcv
                      /\ m_outer_map'[conv].m_session = m_outer_map[conv].m_session
    BY DEF DataInv, OnlyOwnData
  <1> DEFINE r == m_outer_map[conv]
  <1>1. IsReceiver(r)
    BY DEF DataInv
  <1>2. PICK n : \/ m_outer_map'[conv] = [r EXCEPT !.queued = n]
                 \/ m_outer_map'[conv] = [r EXCEPT !.output = n]
    OBVIOUS
  <1>3. CASE m_outer_map'[conv] = [r EXCEPT !.queued = n]
    <2>1. m_outer_map'[conv] =
            [m_endpoint |-> r.m_endpoint, m_session |-> r.m_session,
             queued |-> n, output |-> r.output, rcv |-> r.rcv]
      BY <1>1, <1>3 DEF IsReceiver
    <2> QED
      BY <2>1 DEF IsReceiver
  <1>4. CASE m_outer_map'[conv] = [r EXCEPT !.output = n]
    <2>1. m_outer_map'[conv] =
            [m_endpoint |-> r.m_endpoint, m_session |-> r.m_session,
             queued |-> r.queued, output |-> n, rcv |-> r.rcv]
      BY <1>1, <1>4 DEF IsReceiver
    <2> QED
      BY <2>1 DEF IsReceiver
  <1> QED
    BY <1>2, <1>3, <1>4

LEMMA DataInvStep == DataInv /\ [Next]_vars => DataInv'
  <1> SUFFICES ASSUME DataInv, [Next]_vars PROVE DataInv'
    OBVIOUS
  <1>1. ASSUME UNCHANGED m_outer_map PROVE DataInv'
    BY <1>1 DEF DataInv, OnlyOwnData
  <1>2. CASE ServerStart \/ StartFails \/ CloseBegin \/ CloseEnd \/ ServerHandleSend
    BY <1>1, <1>2 DEF ServerStart, StartFails, CloseBegin, CloseEnd,
                      ServerHandleSend
  <1>3. CASE \E conv \in DOMAIN m_outer_map : CloseReceiver(conv)
    BY <1>3 DEF CloseReceiver, WithoutConv, DataInv, OnlyOwnData
  <1>4. CASE ServerHandleRead
    BY <1>4, DatagramKeepsData DEF ServerHandleRead
  <1>5. CASE HandleLateRead
    BY <1>1, <1>5, DatagramKeepsData DEF HandleLateRead
  <1>6. CASE ServerSendHeartbeat
    BY <1>6, CountingKeepsData DEF ServerSendHeartbeat
  <1>7. CASE ServerUpdateKcp
    BY <1>7, CountingKeepsData DEF ServerUpdateKcp
  <1>8. CASE UNCHANGED serverVars
    BY <1>1, <1>8 DEF serverVars
  <1>9. CASE UNCHANGED vars
    BY <1>8, <1>9 DEF vars, serverVars
  <1> QED
    BY <1>2, <1>3, <1>4, <1>5, <1>6, <1>7, <1>8, <1>9 DEF Next, ServerNext

(* A receiver is never fed a segment of another session, however late or   *)
(* often the network delivers the datagrams of those that had its conv     *)
(* before.                                                                 *)
THEOREM ReceiversGetTheirOwn == Spec => []OnlyOwnData
  <1>1. DataInv => OnlyOwnData
    BY DEF DataInv
  <1> QED
    BY <1>1, DataInvInit, DataInvStep, PTL DEF Spec

-----------------------------------------------------------------------------
(* The send pump of either end, for datagrams of a set S.                  *)

SendsOf(S) == [packet : S, result : {"pending", "sent", "aborted"}]

PumpsOf(S) == [m_pocket_list : Seq(S), m_executing : BOOLEAN,
               sends : Seq(SendsOf(S))]

(* The pump still has the datagram d to send, or has it in a send.         *)
InPump(d, p) ==
    \/ \E i \in DOMAIN p.m_pocket_list : p.m_pocket_list[i] = d
    \/ \E i \in DOMAIN p.sends : p.sends[i].packet = d

PendingSend(p) == \E i \in DOMAIN p.sends : p.sends[i].result = "pending"

LEMMA IdlePumpIs ==
    ASSUME NEW S
    PROVE  /\ IdlePump \in PumpsOf(S) /\ ~IdlePump.m_executing
           /\ \A d : ~InPump(d, IdlePump)
<1>1. <<>> \in Seq(S) /\ <<>> \in Seq(SendsOf(S)) /\ DOMAIN <<>> = {}
  BY EmptySeq, EmptyIs
<1>2. QED
  BY <1>1 DEF IdlePump, PumpsOf, InPump

LEMMA PumpFields ==
    ASSUME NEW S, NEW p \in PumpsOf(S)
    PROVE  /\ p.m_pocket_list \in Seq(S) /\ p.sends \in Seq(SendsOf(S))
           /\ p.m_executing \in BOOLEAN
           /\ \A d : InPump(d, p) => d \in S
<1>1. /\ p.m_pocket_list \in Seq(S) /\ p.sends \in Seq(SendsOf(S))
      /\ p.m_executing \in BOOLEAN
  BY DEF PumpsOf
<1>2. \A i \in DOMAIN p.m_pocket_list : p.m_pocket_list[i] \in S
  BY <1>1
<1>3. \A i \in DOMAIN p.sends : p.sends[i] \in SendsOf(S)
  BY <1>1
<1>4. \A i \in DOMAIN p.sends : p.sends[i].packet \in S
  BY <1>3 DEF SendsOf
<1>5. QED
  BY <1>1, <1>2, <1>4 DEF InPump

(* The pump executes only with a socket and a send whose handler will go   *)
(* on; nothing gets into it that was not given to it.                      *)
LEMMA NextSendIs ==
    ASSUME NEW S, NEW p \in PumpsOf(S), NEW socket \in BOOLEAN
    PROVE  LET q == NextSend(p, socket)
           IN  /\ q \in PumpsOf(S)
               /\ \A d : InPump(d, q) => InPump(d, p)
               /\ q.m_executing => socket /\ PendingSend(q)
<1> DEFINE q == NextSend(p, socket)
           list == p.m_pocket_list
<1>1. list \in Seq(S) /\ p.sends \in Seq(SendsOf(S)) /\ p.m_executing \in BOOLEAN
  BY PumpFields
<1>2. CASE list = <<>> \/ ~socket
  <2>1. q = [p EXCEPT !.m_executing = FALSE]
    BY <1>2 DEF NextSend
  <2>2. /\ q \in PumpsOf(S) /\ ~q.m_executing
        /\ q.m_pocket_list = p.m_pocket_list /\ q.sends = p.sends
    BY <2>1 DEF PumpsOf
  <2> HIDE DEF q
  <2>3. QED
    BY <2>2 DEF q, InPump
<1>3. CASE list # <<>> /\ socket
  <2> DEFINE send == [packet |-> Head(list), result |-> "pending"]
  <2>1. /\ Tail(list) \in Seq(S) /\ Head(list) \in S /\ Head(list) = list[1]
        /\ 1 \in DOMAIN list
        /\ \A i \in DOMAIN Tail(list) :
              i + 1 \in DOMAIN list /\ Tail(list)[i] = list[i + 1]
    BY <1>1, <1>3, TailIs
  <2>2. send \in SendsOf(S)
    BY <2>1 DEF SendsOf
  <2>3. send.packet = list[1] /\ send.result = "pending"
    BY <2>1
  <2> HIDE DEF send
  <2> DEFINE sends == Append(p.sends, send)
  <2>4. /\ sends \in Seq(SendsOf(S))
        /\ Len(p.sends) + 1 \in DOMAIN sends /\ sends[Len(p.sends) + 1] = send
        /\ \A i \in DOMAIN sends :
              \/ i \in DOMAIN p.sends /\ sends[i] = p.sends[i]
              \/ i = Len(p.sends) + 1 /\ sends[i] = send
    BY <1>1, <2>2, AppendIs
  <2>5. q = [p EXCEPT !.m_pocket_list = Tail(list), !.sends = sends]
    BY <1>3 DEF NextSend, send, sends
  <2> HIDE DEF sends
  <2>6. q \in PumpsOf(S) /\ q.m_pocket_list = Tail(list) /\ q.sends = sends
    BY <1>1, <2>1, <2>4, <2>5 DEF PumpsOf
  <2> HIDE DEF q
  <2>7. PendingSend(q)
    BY <2>3, <2>4, <2>6 DEF PendingSend
  <2>8. \A d : InPump(d, q) => InPump(d, p)
    BY <2>1, <2>3, <2>4, <2>6 DEF InPump
  <2>9. QED
    BY <1>3, <2>6, <2>7, <2>8 DEF q
<1>4. QED
  BY <1>2, <1>3

LEMMA SendPocketIs ==
    ASSUME NEW S, NEW p \in PumpsOf(S), NEW socket \in BOOLEAN, NEW packet \in S
    PROVE  LET q == SendPocket(p, packet, socket)
           IN  /\ q \in PumpsOf(S)
               /\ \A d : InPump(d, q) => InPump(d, p) \/ d = packet
               /\ q.m_executing => p.m_executing \/ socket
               /\ q.m_executing => PendingSend(q) \/ (p.m_executing /\ q.sends = p.sends)
<1> DEFINE list == Append(p.m_pocket_list, packet)
           q == [p EXCEPT !.m_pocket_list = list]
           u == [q EXCEPT !.m_executing = TRUE]
<1>1. /\ p.m_pocket_list \in Seq(S) /\ p.sends \in Seq(SendsOf(S))
      /\ p.m_executing \in BOOLEAN
  BY PumpFields
<1>2. /\ list \in Seq(S)
      /\ \A i \in DOMAIN list :
            \/ i \in DOMAIN p.m_pocket_list /\ list[i] = p.m_pocket_list[i]
            \/ list[i] = packet
  BY <1>1, AppendIs
<1>3. SendPocket(p, packet, socket) = IF p.m_executing THEN q ELSE NextSend(u, socket)
  BY DEF SendPocket
<1> HIDE DEF list
<1>4. /\ q \in PumpsOf(S) /\ q.m_pocket_list = list /\ q.sends = p.sends
      /\ q.m_executing = p.m_executing
      /\ u \in PumpsOf(S) /\ u.m_pocket_list = list /\ u.sends = p.sends
  BY <1>1, <1>2 DEF PumpsOf
<1> HIDE DEF q, u
<1>5. /\ \A d : InPump(d, q) => InPump(d, p) \/ d = packet
      /\ \A d : InPump(d, u) => InPump(d, p) \/ d = packet
  BY <1>2, <1>4 DEF InPump
<1>6. CASE p.m_executing
  <2>1. SendPocket(p, packet, socket) = q
    BY <1>3, <1>6
  <2>2. QED
    BY <1>4, <1>5, <1>6, <2>1
<1>7. CASE ~p.m_executing
  <2> DEFINE v == NextSend(u, socket)
  <2>1. SendPocket(p, packet, socket) = v
    BY <1>3, <1>7
  <2>2. /\ v \in PumpsOf(S)
        /\ \A d : InPump(d, v) => InPump(d, u)
        /\ v.m_executing => socket /\ PendingSend(v)
    BY <1>4, NextSendIs
  <2> HIDE DEF v
  <2>3. QED
    BY <1>5, <2>1, <2>2
<1>8. QED
  BY <1>6, <1>7

(* Datagrams added to the end of the list are all that gets in.            *)
Longer(p, rest) == [p EXCEPT !.m_pocket_list = @ \o rest]

LEMMA LongerListIs ==
    ASSUME NEW S, NEW p \in PumpsOf(S), NEW rest \in Seq(S)
    PROVE  /\ Longer(p, rest) \in PumpsOf(S)
           /\ \A d : InPump(d, Longer(p, rest)) =>
                 InPump(d, p) \/ \E i \in DOMAIN rest : rest[i] = d
           /\ Longer(p, rest).m_executing = p.m_executing
           /\ Longer(p, rest).sends = p.sends
<1>1. PICK kept \in Seq(S) : kept = p.m_pocket_list
  BY PumpFields
<1> DEFINE list == kept \o rest
           q == [p EXCEPT !.m_pocket_list = list]
<1>2. /\ list \in Seq(S)
      /\ \A i \in DOMAIN list :
            \/ \E j \in DOMAIN kept : list[i] = kept[j]
            \/ \E j \in DOMAIN rest : list[i] = rest[j]
  BY ConcatElements
<1>3. Longer(p, rest) = q
  BY <1>1 DEF Longer
<1> HIDE DEF list
<1>4. /\ q \in PumpsOf(S) /\ q.m_pocket_list = list /\ q.sends = p.sends
      /\ q.m_executing = p.m_executing
  BY <1>2 DEF PumpsOf
<1> HIDE DEF q
<1>5. \A d : InPump(d, q) =>
                InPump(d, p) \/ \E i \in DOMAIN rest : rest[i] = d
  BY <1>1, <1>2, <1>4 DEF InPump
<1>6. QED
  BY <1>3, <1>4, <1>5

LEMMA SendAllIs ==
    ASSUME NEW S, NEW p \in PumpsOf(S), NEW socket \in BOOLEAN,
           NEW packets \in Seq(S)
    PROVE  LET q == SendAll(p, packets, socket)
           IN  /\ q \in PumpsOf(S)
               /\ \A d : InPump(d, q) =>
                     InPump(d, p) \/ \E i \in DOMAIN packets : packets[i] = d
               /\ q.m_executing => p.m_executing \/ socket
               /\ q.m_executing => PendingSend(q) \/ (p.m_executing /\ q.sends = p.sends)
<1>1. CASE packets = <<>>
  BY <1>1 DEF SendAll
<1>2. CASE packets # <<>>
  <2> DEFINE first == SendPocket(p, Head(packets), socket)
             rest == Tail(packets)
             q == Longer(first, rest)
  <2>1. /\ rest \in Seq(S) /\ Head(packets) \in S
        /\ Head(packets) = packets[1] /\ 1 \in DOMAIN packets
        /\ \A i \in DOMAIN rest :
              i + 1 \in DOMAIN packets /\ rest[i] = packets[i + 1]
    BY <1>2, TailIs
  <2>2. /\ first \in PumpsOf(S)
        /\ \A d : InPump(d, first) => InPump(d, p) \/ d = Head(packets)
        /\ first.m_executing => p.m_executing \/ socket
        /\ first.m_executing =>
              PendingSend(first) \/ (p.m_executing /\ first.sends = p.sends)
    BY <2>1, SendPocketIs
  <2>3. SendAll(p, packets, socket) = q
    BY <1>2 DEF SendAll, Longer
  <2> HIDE DEF first
  <2> HIDE DEF rest
  <2>5. /\ q \in PumpsOf(S)
        /\ \A d : InPump(d, q) =>
              InPump(d, first) \/ \E i \in DOMAIN rest : rest[i] = d
        /\ q.m_executing = first.m_executing /\ q.sends = first.sends
    BY <2>1, <2>2, LongerListIs
  <2> HIDE DEF q
  <2>6. \A d : InPump(d, q) =>
                  InPump(d, p) \/ \E i \in DOMAIN packets : packets[i] = d
    BY <2>1, <2>2, <2>5
  <2>7. PendingSend(q) <=> PendingSend(first)
    BY <2>5 DEF PendingSend
  <2>8. QED
    BY <2>2, <2>3, <2>5, <2>6, <2>7
<1>3. QED
  BY <1>1, <1>2

(* What is left of a pump when its socket is closed.                       *)
LEMMA SettledIs ==
    ASSUME NEW S, NEW p \in PumpsOf(S), NEW q \in Settled(p)
    PROVE  /\ q \in PumpsOf(S) /\ ~q.m_executing /\ q.m_pocket_list = <<>>
           /\ \A d : InPump(d, q) => InPump(d, p)
<1> DEFINE n == Len(p.sends)
<1>1. p.sends \in Seq(SendsOf(S)) /\ DOMAIN p.sends = 1 .. n /\ n \in Nat
  BY PumpFields
<1>2. PICK s \in Outcomes(SendOutcomes, p.sends) :
         q = [m_pocket_list |-> <<>>, m_executing |-> FALSE, sends |-> s]
  BY DEF Settled
<1>3. /\ DOMAIN s = DOMAIN p.sends /\ s = [i \in DOMAIN s |-> s[i]]
      /\ \A i \in DOMAIN p.sends : s[i] \in SendOutcomes(p.sends[i])
  BY <1>2 DEF Outcomes
<1>4. ASSUME NEW i \in DOMAIN p.sends
      PROVE  s[i] \in SendsOf(S) /\ s[i].packet = p.sends[i].packet
  <2>1. p.sends[i] \in SendsOf(S)
    BY <1>1
  <2>2. \/ s[i] = p.sends[i]
        \/ \E result \in {"sent", "aborted"} : s[i] = [p.sends[i] EXCEPT !.result = result]
    BY <1>3 DEF SendOutcomes
  <2>3. QED
    BY <2>1, <2>2 DEF SendsOf
<1> HIDE DEF n
<1>5. s \in [1 .. n -> SendsOf(S)]
  BY <1>1, <1>3, <1>4
<1>6. s \in Seq(SendsOf(S))
  BY <1>1, <1>5, FunctionIsSeq
<1>7. <<>> \in Seq(S) /\ DOMAIN <<>> = {}
  BY EmptySeq, EmptyIs
<1>8. q \in PumpsOf(S) /\ ~q.m_executing /\ q.m_pocket_list = <<>> /\ q.sends = s
  BY <1>2, <1>6, <1>7 DEF PumpsOf
<1>9. QED
  BY <1>3, <1>4, <1>7, <1>8 DEF InPump

(* A pump whose oldest send is over.                                       *)
LEMMA CompletedIs ==
    ASSUME NEW S, NEW p \in PumpsOf(S), p.sends # <<>>
    PROVE  LET q == Completed(p)
           IN  /\ q \in PumpsOf(S) /\ q.m_executing = p.m_executing
               /\ q.m_pocket_list = p.m_pocket_list /\ q.sends = Tail(p.sends)
               /\ Head(p.sends) \in SendsOf(S) /\ InPump(Head(p.sends).packet, p)
               /\ \A d : InPump(d, q) => InPump(d, p)
               /\ PendingSend(p) /\ Head(p.sends).result # "pending" =>
                     PendingSend(q)
<1> DEFINE q == Completed(p)
           sends == p.sends
           rest == Tail(sends)
<1>1. sends \in Seq(SendsOf(S))
  BY PumpFields
<1>2. /\ rest \in Seq(SendsOf(S)) /\ Head(sends) \in SendsOf(S)
      /\ Head(sends) = sends[1] /\ 1 \in DOMAIN sends
      /\ \A i \in DOMAIN rest : i + 1 \in DOMAIN sends /\ rest[i] = sends[i + 1]
      /\ \A i \in DOMAIN sends : i = 1 \/ (i - 1 \in DOMAIN rest /\ (i - 1) + 1 = i)
  <2>1. \A i \in DOMAIN sends : (i - 1) + 1 = i
    BY <1>1
  <2>2. QED
    BY <1>1, <2>1, TailIs
<1>3. q = [p EXCEPT !.sends = rest]
  BY DEF Completed
<1> HIDE DEF rest
<1>4. /\ q \in PumpsOf(S) /\ q.m_executing = p.m_executing
      /\ q.m_pocket_list = p.m_pocket_list /\ q.sends = rest
  BY <1>2, <1>3 DEF PumpsOf
<1> HIDE DEF q
<1>5. \A d : InPump(d, q) => InPump(d, p)
  BY <1>2, <1>4 DEF InPump
<1>6. InPump(Head(sends).packet, p)
  BY <1>2 DEF InPump
<1>7. ASSUME PendingSend(p), Head(sends).result # "pending"
      PROVE  PendingSend(q)
  <2>1. PICK i \in DOMAIN sends : sends[i].result = "pending"
    BY <1>7 DEF PendingSend
  <2>2. i # 1
    BY <1>2, <1>7, <2>1
  <2>3. i - 1 \in DOMAIN rest /\ rest[i - 1] = sends[i]
    BY <1>2, <2>2
  <2>4. QED
    BY <1>4, <2>1, <2>3 DEF PendingSend
<1>8. QED
  BY <1>2, <1>4, <1>5, <1>6, <1>7 DEF q, rest

-----------------------------------------------------------------------------
(* The clients, each a record.                                             *)

Kcps == [conv : Nat, queued : Nat, output : Nat, rcv : SUBSET Nat]

ReadsOf == [handler : {"connect", "read"}, socket : Nat,
            result : DownData \cup {Pending, Aborted}]

Reports == [owed : BOOLEAN, stray : BOOLEAN, orderly : BOOLEAN]

ClientRecords ==
    [m_is_connecting : BOOLEAN, m_is_connected : BOOLEAN, socket : Nat,
     open : BOOLEAN, m_session : Int, m_kcp : Kcps, m_kcp_timer : BOOLEAN,
     m_connect_timer : {"none", "armed", "spent"}, expired : Nat, posted : Nat,
     m_kcp_data_size : Nat, pump : PumpsOf(UpData), reads : Seq(ReadsOf),
     connects : Nat, reports : Reports, told : BOOLEAN, late : BOOLEAN,
     crashed : BOOLEAN]

Datagrams == UpData \cup DownData

LEMMA ArrivingIs ==
    ASSUME net \subseteq Datagrams, NEW c \in Clients, NEW n \in Nat,
           NEW d \in Arriving(Endpoint(c, n))
    PROVE  d \in DownData /\ d \in net /\ d.to = Endpoint(c, n)
<1>1. Endpoint(c, n) \in Endpoints
  BY DEF Endpoint, Endpoints
<1>2. d \in net /\ d.to = Endpoint(c, n)
  BY DEF Arriving
<1>3. d \notin UpData
  BY <1>1, <1>2, NamesAssumption DEF UpData
<1>4. QED
  BY <1>2, <1>3 DEF Datagrams

(* A receive that is started is the last.                                  *)
NewRead(r, handler) ==
    [handler |-> handler, socket |-> r.socket,
     result |-> IF r.open THEN Pending ELSE Aborted]

(* t is s with e at its end.                                               *)
OneMore(s, e, t) ==
    /\ Len(s) \in Nat /\ DOMAIN s = 1 .. Len(s)
    /\ Len(s) + 1 \in DOMAIN t /\ t[Len(s) + 1] = e
    /\ \A i \in DOMAIN s : i \in DOMAIN t /\ t[i] = s[i]
    /\ \A i \in DOMAIN t : \/ i \in DOMAIN s /\ t[i] = s[i]
                           \/ i = Len(s) + 1 /\ t[i] = e

(* t is s without its first element.                                       *)
OneLess(s, t) ==
    /\ Len(s) \in Nat /\ DOMAIN s = 1 .. Len(s) /\ 1 \in DOMAIN s
    /\ \A i \in DOMAIN t : /\ i \in Nat /\ i >= 1 /\ i + 1 \in DOMAIN s
                           /\ t[i] = s[i + 1]
    /\ \A i \in DOMAIN s : i = 1 \/ i - 1 \in DOMAIN t

WithReads(r, s) == [r EXCEPT !.reads = s]

LEMMA ReadIs ==
    ASSUME NEW r \in ClientRecords, NEW handler \in {"connect", "read"}
    PROVE  LET t == Read(r, handler)
               new == NewRead(r, handler)
           IN  /\ t = WithReads(r, t.reads)
               /\ t \in ClientRecords /\ t.reads \in Seq(ReadsOf)
               /\ new \in ReadsOf /\ new.socket = r.socket
               /\ new.handler = handler
               /\ r.open => new.result = Pending
               /\ ~r.open => new.result = Aborted
               /\ OneMore(r.reads, new, t.reads)
<1> DEFINE new == NewRead(r, handler)
           s == Append(r.reads, new)
<1>1. r.reads \in Seq(ReadsOf) /\ r.socket \in Nat /\ r.open \in BOOLEAN
  BY DEF ClientRecords
<1>2. /\ new \in ReadsOf /\ new.socket = r.socket /\ new.handler = handler
      /\ new.result = IF r.open THEN Pending ELSE Aborted
  BY <1>1 DEF NewRead, ReadsOf
<1>3. Read(r, handler) = [r EXCEPT !.reads = s]
  BY DEF Read, NewRead
<1> HIDE DEF new
<1>4. /\ s \in Seq(ReadsOf) /\ Len(r.reads) + 1 \in DOMAIN s
      /\ s[Len(r.reads) + 1] = new
      /\ \A i \in DOMAIN r.reads : i \in DOMAIN s /\ s[i] = r.reads[i]
      /\ \A i \in DOMAIN s :
            \/ i \in DOMAIN r.reads /\ s[i] = r.reads[i]
            \/ i = Len(r.reads) + 1 /\ s[i] = new
  BY <1>1, <1>2, AppendIs
<1>5. Len(r.reads) \in Nat /\ DOMAIN r.reads = 1 .. Len(r.reads)
  BY <1>1
<1>6. OneMore(r.reads, new, s)
  BY <1>4, <1>5 DEF OneMore
<1> HIDE DEF s
<1>7. /\ Read(r, handler) \in ClientRecords /\ Read(r, handler).reads = s
      /\ Read(r, handler) = WithReads(r, s)
  BY <1>3, <1>4 DEF ClientRecords, WithReads
<1>8. QED
  BY <1>1, <1>2, <1>4, <1>6, <1>7 DEF new

(* When the socket is closed no receive waits any more.                    *)
LEMMA SettledReadsIs ==
    ASSUME net \subseteq Datagrams, NEW c \in Clients, NEW r \in ClientRecords,
           NEW s \in SettledReads(c, r)
    PROVE  /\ s \in Seq(ReadsOf) /\ DOMAIN s = DOMAIN r.reads
           /\ \A i \in DOMAIN s :
                 /\ s[i].handler = r.reads[i].handler
                 /\ s[i].socket = r.reads[i].socket
                 /\ s[i].result # Pending
                 /\ \/ s[i].result = r.reads[i].result
                    \/ s[i].result = Aborted
                    \/ /\ s[i].result \in DownData /\ s[i].result \in net
                       /\ s[i].result.to = Endpoint(c, s[i].socket)
<1> DEFINE n == Len(r.reads)
           ReadOutcomes(op) ==
              IF op.result = Pending
                THEN {[op EXCEPT !.result = result] :
                        result \in {Aborted} \cup Arriving(Endpoint(c, op.socket))}
                ELSE {op}
<1>1. r.reads \in Seq(ReadsOf) /\ DOMAIN r.reads = 1 .. n /\ n \in Nat
  BY DEF ClientRecords
<1>2. /\ DOMAIN s = DOMAIN r.reads /\ s = [i \in DOMAIN s |-> s[i]]
      /\ \A i \in DOMAIN r.reads : s[i] \in ReadOutcomes(r.reads[i])
  BY DEF SettledReads, Outcomes
<1>3. ASSUME NEW i \in DOMAIN r.reads
      PROVE  /\ s[i] \in ReadsOf
             /\ s[i].handler = r.reads[i].handler
             /\ s[i].socket = r.reads[i].socket
             /\ s[i].result # Pending
             /\ \/ s[i].result = r.reads[i].result
                \/ s[i].result = Aborted
                \/ /\ s[i].result \in DownData /\ s[i].result \in net
                   /\ s[i].result.to = Endpoint(c, s[i].socket)
  <2> DEFINE op == r.reads[i]
  <2>1. op \in ReadsOf
    BY <1>1
  <2>2. CASE op.result = Pending
    <3>1. PICK result \in {Aborted} \cup Arriving(Endpoint(c, op.socket)) :
             s[i] = [op EXCEPT !.result = result]
      BY <1>2, <2>2
    <3>2. op.socket \in Nat
      BY <2>1 DEF ReadsOf
    <3>3. \/ result = Aborted
          \/ /\ result \in DownData /\ result \in net
             /\ result.to = Endpoint(c, op.socket)
      BY <3>1, <3>2, ArrivingIs
    <3>4. result # Pending /\ result \in DownData \cup {Pending, Aborted}
      BY <3>3, NamesAssumption
    <3> HIDE DEF op
    <3>5. /\ s[i] \in ReadsOf /\ s[i].handler = op.handler
          /\ s[i].socket = op.socket /\ s[i].result = result
      BY <2>1, <3>1, <3>4 DEF ReadsOf
    <3>6. QED
      BY <3>3, <3>4, <3>5 DEF op
  <2>3. CASE op.result # Pending
    <3>1. s[i] = op
      BY <1>2, <2>3
    <3>2. QED
      BY <2>1, <2>3, <3>1
  <2>4. QED
    BY <2>2, <2>3
<1> HIDE DEF n
<1>4. s \in [1 .. n -> ReadsOf]
  BY <1>1, <1>2, <1>3
<1>5. s \in Seq(ReadsOf)
  BY <1>1, <1>4, FunctionIsSeq
<1>6. QED
  BY <1>2, <1>3, <1>5

Cancelled(r, e) == [r EXCEPT !.m_connect_timer = "none", !.expired = e]

LEMMA CancelTimerIs ==
    ASSUME NEW r \in ClientRecords, NEW t \in CancelTimer(r)
    PROVE  /\ t \in ClientRecords
           /\ \E e \in Nat : t = Cancelled(r, e)
<1>1. PICK n \in {0, 1} :
         t = [r EXCEPT !.m_connect_timer = "none", !.expired = r.expired + n]
  BY DEF CancelTimer
<1>2. r.expired \in Nat
  BY DEF ClientRecords
<1>3. PICK e \in Nat : e = r.expired + n
  BY <1>2
<1>4. t = Cancelled(r, e)
  BY <1>1, <1>3 DEF Cancelled
<1>5. QED
  BY <1>4 DEF Cancelled, ClientRecords

(* What Close leaves.                                                      *)
ClosedAs(r, e, s, p) == Reset(Cancelled(r, e), s, p)

Crashed(r) == [r EXCEPT !.crashed = TRUE]

LEMMA ClosedIs ==
    ASSUME NEW c \in Clients, NEW r \in ClientRecords, NEW t \in Closed(c, r)
    PROVE  \/ CloseThrows(r) /\ t = Crashed(r)
           \/ /\ ~CloseThrows(r)
              /\ \E e \in Nat, s \in SettledReads(c, r), p \in Settled(r.pump) :
                    t = ClosedAs(r, e, s, p)
<1>1. CASE CloseThrows(r)
  BY <1>1 DEF Closed, Crashed
<1>2. CASE ~CloseThrows(r)
  <2>1. PICK u \in CancelTimer(r), s \in SettledReads(c, r), p \in Settled(r.pump) :
           t = Reset(u, s, p)
    BY <1>2 DEF Closed
  <2>2. PICK e \in Nat : u = Cancelled(r, e)
    BY CancelTimerIs
  <2>3. t = ClosedAs(r, e, s, p)
    BY <2>1, <2>2 DEF ClosedAs
  <2>4. QED
    BY <1>2, <2>3
<1>3. QED
  BY <1>1, <1>2

-----------------------------------------------------------------------------
(* What is true of each client, whatever the others and the server do.     *)

(* A datagram that was received had come for the socket of its receive.    *)
(* A receive that waits is on the present socket, and so are those after   *)
(* it.                                                                     *)
ReadsLocal(c, r) ==
    \A i \in DOMAIN r.reads :
       /\ r.reads[i].result \in DownData =>
             r.reads[i].result.to = Endpoint(c, r.reads[i].socket)
       /\ r.reads[i].result = Pending =>
             /\ r.open /\ r.reads[i].socket = r.socket
             /\ \A j \in DOMAIN r.reads : i < j => r.reads[j].result = Pending

(* The pump has nothing but segments of the client.                        *)
PumpLocal(c, p) == \A d : InPump(d, p) => d.from[1] = c /\ d.seg # 0

Sound(c, r) ==
    /\ r \in ClientRecords /\ IsFiniteSet(r.m_kcp.rcv)
    /\ ReadsLocal(c, r) /\ PumpLocal(c, r.pump)

Aligned(r) ==
    r.m_is_connected =>
        r.m_kcp_data_size = Cardinality(Contiguous(r.m_kcp.rcv)) % 2

Served(r) ==
    r.m_is_connected /\ ~r.crashed =>
        \E i \in DOMAIN r.reads :
           r.reads[i].handler = "read" /\ r.reads[i].socket = r.socket

(* A client that is connected has a KCP and a session; the socket of one   *)
(* that has taken no late answer is open.                                  *)
InSession(r) ==
    r.m_is_connected =>
        /\ r.m_kcp_timer
        /\ ~r.crashed \/ ~r.late => r.m_session > 0
        /\ ~r.late => r.open

Local(c, r) == Sound(c, r) /\ Aligned(r) /\ Served(r) /\ InSession(r)

(* A receive more, or the oldest one less.                                 *)
LEMMA ReadKeeps ==
    ASSUME NEW c \in Clients, NEW r, Sound(c, r),
           NEW handler \in {"connect", "read"}
    PROVE  /\ Sound(c, Read(r, handler))
           /\ handler = "read" \/ Served(r) => Served(Read(r, handler))
           /\ Aligned(r) => Aligned(Read(r, handler))
           /\ InSession(r) => InSession(Read(r, handler))
<1> DEFINE t == Read(r, handler)
           s == t.reads
           new == NewRead(r, handler)
           n == Len(r.reads)
<1>1. r \in ClientRecords
  BY DEF Sound
<1>2. /\ t = WithReads(r, s) /\ s \in Seq(ReadsOf) /\ t \in ClientRecords
      /\ new \in ReadsOf /\ new.socket = r.socket /\ new.handler = handler
      /\ r.open => new.result = Pending
      /\ ~r.open => new.result = Aborted
      /\ OneMore(r.reads, new, s)
  BY <1>1, ReadIs
<1> HIDE DEF t, new, n
<1>3. /\ t.socket = r.socket /\ t.open = r.open
      /\ t.m_kcp = r.m_kcp /\ t.pump = r.pump /\ t.reports = r.reports
      /\ t.m_is_connecting = r.m_is_connecting
      /\ t.m_is_connected = r.m_is_connected /\ t.crashed = r.crashed
      /\ t.m_kcp_timer = r.m_kcp_timer /\ t.m_session = r.m_session
      /\ t.late = r.late /\ t.m_kcp_data_size = r.m_kcp_data_size
  BY <1>1, <1>2 DEF ClientRecords, WithReads
<1>9. /\ n \in Nat /\ DOMAIN r.reads = 1 .. n
      /\ n + 1 \in DOMAIN s /\ s[n + 1] = new
      /\ \A i \in DOMAIN r.reads : i \in DOMAIN s /\ s[i] = r.reads[i]
      /\ \A i \in DOMAIN s :
            \/ i \in DOMAIN r.reads /\ s[i] = r.reads[i]
            \/ i = n + 1 /\ s[i] = new
  BY <1>2 DEF OneMore, n
<1>4. ReadsLocal(c, t)
  <2>1. ReadsLocal(c, r)
    BY DEF Sound
  <2>2. new.result \notin DownData
    BY <1>2, NamesAssumption
  <2>3. new.result = Pending => r.open
    BY <1>2, NamesAssumption
  <2>4. \A i \in DOMAIN r.reads : r.reads[i].result = Pending => new.result = Pending
    BY <1>2, <1>9, <2>1 DEF ReadsLocal
  <2>5. \A i, j \in DOMAIN s : i = n + 1 /\ i < j => FALSE
    BY <1>9
  <2>6. ASSUME NEW i \in DOMAIN s, s[i].result = Pending
        PROVE  /\ t.open /\ s[i].socket = t.socket
               /\ \A j \in DOMAIN s : i < j => s[j].result = Pending
    <3>1. CASE i \in DOMAIN r.reads
      <4>1. /\ r.open /\ r.reads[i].socket = r.socket
            /\ \A j \in DOMAIN r.reads : i < j => r.reads[j].result = Pending
            /\ r.reads[i].result = Pending
        BY <1>2, <1>9, <2>1, <2>6, <3>1 DEF ReadsLocal
      <4>2. QED
        BY <1>2, <1>3, <1>9, <2>4, <3>1, <4>1
    <3>2. CASE i = n + 1 /\ s[i] = new
      BY <1>2, <1>3, <1>9, <2>3, <2>5, <2>6, <3>2
    <3>3. QED
      BY <1>9, <3>1, <3>2
  <2>7. \A i \in DOMAIN s : s[i].result \in DownData =>
                               s[i].result.to = Endpoint(c, s[i].socket)
    BY <1>2, <1>9, <2>1, <2>2 DEF ReadsLocal
  <2>8. QED
    BY <2>6, <2>7 DEF ReadsLocal
<1>5. Sound(c, t)
  BY <1>2, <1>3, <1>4 DEF Sound
<1>6. handler = "read" \/ Served(r) => Served(t)
  BY <1>2, <1>3, <1>9 DEF Served
<1>7. /\ Aligned(r) => Aligned(t)
      /\ InSession(r) => InSession(t)
  BY <1>3 DEF Aligned, InSession
<1>8. QED
  BY <1>5, <1>6, <1>7 DEF t

LEMMA WithoutReadKeeps ==
    ASSUME NEW c \in Clients, NEW r, Sound(c, r), r.reads # <<>>
    PROVE  LET t == WithoutRead(r)
               op == Head(r.reads)
           IN  /\ Sound(c, t) /\ op \in ReadsOf
               /\ op.handler = "connect" /\ Served(r) => Served(t)
               /\ Aligned(r) => Aligned(t)
               /\ InSession(r) => InSession(t)
               /\ op.result \in DownData => op.result.to = Endpoint(c, op.socket)
               /\ op.result = Pending =>
                     /\ r.open /\ op.socket = r.socket
                     /\ \A i \in DOMAIN t.reads : t.reads[i].result = Pending
               /\ t = WithReads(r, t.reads) /\ t.reads \in Seq(ReadsOf)
               /\ OneLess(r.reads, t.reads) /\ op = r.reads[1]
<1> DEFINE t == WithoutRead(r)
           s == Tail(r.reads)
           op == Head(r.reads)
<1>1. r \in ClientRecords /\ r.reads \in Seq(ReadsOf) /\ ReadsLocal(c, r)
  BY DEF Sound, ClientRecords
<1>2. /\ s \in Seq(ReadsOf) /\ op \in ReadsOf /\ op = r.reads[1]
      /\ Len(r.reads) \in Nat /\ DOMAIN r.reads = 1 .. Len(r.reads)
      /\ 1 \in DOMAIN r.reads
      /\ \A i \in DOMAIN s : /\ i \in Nat /\ i >= 1 /\ i + 1 \in DOMAIN r.reads
                             /\ s[i] = r.reads[i + 1]
      /\ \A i \in DOMAIN r.reads : i = 1 \/ i - 1 \in DOMAIN s
  BY <1>1, TailIs
<1>3. t = [r EXCEPT !.reads = s]
  BY DEF WithoutRead
<1> HIDE DEF s, t, op
<1>4. /\ t.reads = s /\ t.socket = r.socket /\ t.open = r.open
      /\ t.m_kcp = r.m_kcp /\ t.pump = r.pump /\ t.reports = r.reports
      /\ t.m_is_connecting = r.m_is_connecting
      /\ t.m_is_connected = r.m_is_connected /\ t.crashed = r.crashed
      /\ t.m_kcp_timer = r.m_kcp_timer /\ t.m_session = r.m_session
      /\ t.late = r.late /\ t.m_kcp_data_size = r.m_kcp_data_size
  BY <1>1, <1>3 DEF ClientRecords
<1>5. t \in ClientRecords
  BY <1>1, <1>2, <1>3 DEF ClientRecords
<1>6. ReadsLocal(c, t)
  <2> SUFFICES ASSUME NEW i \in DOMAIN s
               PROVE  /\ s[i].result \in DownData =>
                            s[i].result.to = Endpoint(c, s[i].socket)
                      /\ s[i].result = Pending =>
                            /\ r.open /\ s[i].socket = r.socket
                            /\ \A j \in DOMAIN s : i < j => s[j].result = Pending
    BY <1>4 DEF ReadsLocal
  <2>1. /\ i + 1 \in DOMAIN r.reads /\ s[i] = r.reads[i + 1]
        /\ \A j \in DOMAIN s : i < j => /\ j + 1 \in DOMAIN r.reads
                                        /\ i + 1 < j + 1 /\ s[j] = r.reads[j + 1]
    BY <1>2
  <2>2. QED
    BY <1>1, <2>1 DEF ReadsLocal
<1>7. Sound(c, t)
  BY <1>4, <1>5, <1>6 DEF Sound
<1>8. ASSUME op.handler = "connect", Served(r)
      PROVE  Served(t)
  <2>1. SUFFICES ASSUME r.m_is_connected, ~r.crashed
                 PROVE  \E i \in DOMAIN s :
                           s[i].handler = "read" /\ s[i].socket = r.socket
    BY <1>4 DEF Served
  <2>2. PICK i \in DOMAIN r.reads :
           r.reads[i].handler = "read" /\ r.reads[i].socket = r.socket
    BY <1>8, <2>1 DEF Served
  <2>3. i - 1 \in DOMAIN s
    BY <1>2, <1>8, <2>2
  <2>4. s[i - 1] = r.reads[i]
    BY <1>2, <2>3
  <2>5. QED
    BY <2>2, <2>3, <2>4
<1>9. /\ Aligned(r) => Aligned(t)
      /\ InSession(r) => InSession(t)
  BY <1>4 DEF Aligned, InSession
<1>10. /\ op.result \in DownData => op.result.to = Endpoint(c, op.socket)
       /\ op.result = Pending =>
             /\ r.open /\ op.socket = r.socket
             /\ \A i \in DOMAIN t.reads : t.reads[i].result = Pending
  <2>1. \A i \in DOMAIN s : i + 1 \in DOMAIN r.reads /\ 1 < i + 1
    BY <1>2
  <2>2. /\ op.result \in DownData => op.result.to = Endpoint(c, op.socket)
        /\ op.result = Pending =>
              /\ r.open /\ op.socket = r.socket
              /\ \A j \in DOMAIN r.reads : 1 < j => r.reads[j].result = Pending
    BY <1>1, <1>2 DEF ReadsLocal
  <2>3. QED
    BY <1>2, <1>4, <2>1, <2>2
<1>11. OneLess(r.reads, s) /\ t = WithReads(r, s)
  BY <1>2, <1>3 DEF OneLess, WithReads
<1>12. QED
  BY <1>2, <1>4, <1>7, <1>8, <1>9, <1>10, <1>11 DEF t, op

-----------------------------------------------------------------------------
(* Close and HandleAsyncConnect.                                           *)

LEMMA NoKcpIs == NoKcp \in Kcps /\ NoKcp.rcv = {} /\ IsFiniteSet(NoKcp.rcv)
<1>1. NoKcp \in Kcps /\ NoKcp.rcv = {}
  BY DEF NoKcp, Kcps
<1>2. QED
  BY <1>1, FS_EmptySet

(* The fields of a client that has been closed.                            *)
LEMMA ClosedFields ==
    ASSUME net \subseteq Datagrams, NEW c \in Clients, NEW r \in ClientRecords,
           NEW e \in Nat, NEW s \in SettledReads(c, r), NEW p \in Settled(r.pump)
    PROVE  LET t == ClosedAs(r, e, s, p)
           IN  /\ t \in ClientRecords
               /\ ~t.m_is_connecting /\ ~t.m_is_connected /\ ~t.open
               /\ ~t.m_kcp_timer /\ t.m_kcp = NoKcp /\ t.reads = s /\ t.pump = p
               /\ t.socket = r.socket /\ t.m_session = r.m_session
               /\ t.reports = r.reports /\ t.told = r.told
               /\ t.late = r.late /\ t.crashed = r.crashed
<1>1. s \in Seq(ReadsOf)
  BY SettledReadsIs
<1>2. p \in PumpsOf(UpData)
  <2>1. r.pump \in PumpsOf(UpData)
    BY DEF ClientRecords
  <2>2. QED
    BY <2>1, SettledIs
<1> DEFINE u == [r EXCEPT !.m_connect_timer = "none", !.expired = e]
           v == [u EXCEPT !.m_kcp_data_size = 0]
<1>3. u \in ClientRecords /\ u = [r EXCEPT !.m_connect_timer = "none", !.expired = e]
  BY DEF ClientRecords
<1>4. ClosedAs(r, e, s, p) =
         [v EXCEPT
            !.m_is_connecting = FALSE, !.m_is_connected = FALSE, !.open = FALSE,
            !.m_kcp_timer = FALSE, !.m_kcp = NoKcp, !.reads = s, !.pump = p]
  BY DEF ClosedAs, Cancelled, Reset, ResetOffset
<1>5. v \in ClientRecords
  BY <1>3 DEF ClientRecords
<1>6. /\ v.socket = r.socket /\ v.m_session = r.m_session
      /\ v.reports = r.reports /\ v.told = r.told
      /\ v.late = r.late /\ v.crashed = r.crashed
  BY DEF ClientRecords
<1> HIDE DEF u, v
<1>7. ClosedAs(r, e, s, p) \in ClientRecords
  <2> DEFINE w == [v EXCEPT !.m_is_connecting = FALSE, !.m_is_connected = FALSE,
                            !.open = FALSE, !.m_kcp_timer = FALSE]
  <2>1. w \in ClientRecords
    BY <1>5 DEF ClientRecords
  <2>2. ClosedAs(r, e, s, p) = [w EXCEPT !.m_kcp = NoKcp, !.reads = s, !.pump = p]
    BY <1>4, <1>5 DEF ClientRecords
  <2> HIDE DEF w
  <2>3. NoKcp \in Kcps
    BY NoKcpIs
  <2>4. QED
    BY <1>1, <1>2, <2>1, <2>2, <2>3 DEF ClientRecords
<1>8. QED
  BY <1>4, <1>5, <1>6, <1>7 DEF ClientRecords

(* A client that has closed is as sound as before; so is one that crashes  *)
(* because it has taken a late answer.                                     *)
HasTimer(r) == r.m_is_connected => r.m_kcp_timer /\ (~r.late => r.open)

LEMMA ClosedKeeps ==
    ASSUME net \subseteq Datagrams, NEW c \in Clients, NEW r, Sound(c, r),
           Aligned(r), HasTimer(r), ~r.crashed, NEW t \in Closed(c, r)
    PROVE  /\ Local(c, t) /\ t.reports = r.reports
           /\ ~t.crashed => ~t.m_is_connecting /\ ~t.m_is_connected
<1>1. r \in ClientRecords /\ IsFiniteSet(r.m_kcp.rcv) /\ ReadsLocal(c, r)
      /\ PumpLocal(c, r.pump) /\ r.pump \in PumpsOf(UpData)
  BY DEF Sound, ClientRecords
<1>2. CASE CloseThrows(r) /\ t = Crashed(r)
  <2>1. t \in ClientRecords /\ t.crashed
    BY <1>1, <1>2 DEF Crashed, ClientRecords
  <2>2. /\ t.socket = r.socket /\ t.open = r.open /\ t.reads = r.reads
        /\ t.m_kcp = r.m_kcp /\ t.pump = r.pump /\ t.reports = r.reports
        /\ t.m_is_connecting = r.m_is_connecting
        /\ t.m_is_connected = r.m_is_connected
        /\ t.m_kcp_timer = r.m_kcp_timer /\ t.m_session = r.m_session
        /\ t.late = r.late /\ t.m_kcp_data_size = r.m_kcp_data_size
    BY <1>1, <1>2 DEF Crashed, ClientRecords
  <2>3. ~r.open /\ r.m_is_connected
    BY <1>2 DEF CloseThrows
  <2>4. Sound(c, t)
    BY <1>1, <2>1, <2>2 DEF Sound, ReadsLocal
  <2>5. Aligned(t) /\ Served(t)
    BY <2>1, <2>2 DEF Aligned, Served
  <2>6. InSession(t)
    BY <2>1, <2>2, <2>3 DEF InSession, HasTimer
  <2>7. QED
    BY <2>1, <2>2, <2>4, <2>5, <2>6 DEF Local
<1>3. ASSUME NEW e \in Nat, NEW s \in SettledReads(c, r),
             NEW p \in Settled(r.pump), t = ClosedAs(r, e, s, p)
      PROVE  /\ Local(c, t) /\ t.reports = r.reports
             /\ ~t.m_is_connecting /\ ~t.m_is_connected
  <2>1. /\ t \in ClientRecords
        /\ ~t.m_is_connecting /\ ~t.m_is_connected
        /\ t.m_kcp = NoKcp /\ t.reads = s /\ t.pump = p
        /\ t.reports = r.reports
    BY <1>1, <1>3, ClosedFields
  <2>2. \A d : InPump(d, p) => InPump(d, r.pump)
    BY <1>1, SettledIs
  <2>3. /\ DOMAIN s = DOMAIN r.reads
        /\ \A i \in DOMAIN s :
              /\ s[i].socket = r.reads[i].socket
              /\ s[i].result # Pending
              /\ \/ s[i].result = r.reads[i].result
                 \/ s[i].result = Aborted
                 \/ s[i].result.to = Endpoint(c, s[i].socket)
    BY <1>1, SettledReadsIs
  <2>4. Aborted \notin DownData
    BY NamesAssumption
  <2>5. ReadsLocal(c, t)
    BY <1>1, <2>1, <2>3, <2>4 DEF ReadsLocal
  <2>6. PumpLocal(c, t.pump)
    BY <1>1, <2>1, <2>2 DEF PumpLocal
  <2>8. Sound(c, t)
    BY <2>1, <2>5, <2>6, NoKcpIs DEF Sound
  <2>9. QED
    BY <2>1, <2>8 DEF Local, Aligned, Served, InSession
<1>4. QED
  BY <1>1, <1>2, <1>3, ClosedIs

LEMMA DisconnectKeeps ==
    ASSUME net \subseteq Datagrams, NEW c \in Clients, NEW r, Sound(c, r),
           Aligned(r), HasTimer(r), ~r.crashed,
           NEW t \in ExecuteDisconnectCallback(c, r)
    PROVE  Local(c, t)
<1>1. PICK u \in Closed(c, r) :
         t = [u EXCEPT !.reports =
                 IF ClosedBySelf(r) \/ u.crashed THEN @ ELSE Reported(@)]
  BY DEF ExecuteDisconnectCallback
<1>2. /\ Local(c, u) /\ u.reports = r.reports
      /\ ~u.crashed => ~u.m_is_connecting /\ ~u.m_is_connected
  BY ClosedKeeps
<1>3. u \in ClientRecords /\ Reported(u.reports) \in Reports
  BY <1>2 DEF Local, Sound, ClientRecords, Reports, Reported
<1>4. CASE ClosedBySelf(r) \/ u.crashed
  <2>1. t = u
    BY <1>1, <1>3, <1>4 DEF ClientRecords
  <2>2. QED
    BY <1>2, <2>1
<1>5. CASE ~(ClosedBySelf(r) \/ u.crashed)
  <2>3. t = [u EXCEPT !.reports = Reported(u.reports)]
    BY <1>1, <1>5
  <2>4. t \in ClientRecords
    BY <1>3, <2>3 DEF ClientRecords
  <2>5. /\ t.socket = u.socket /\ t.open = u.open /\ t.reads = u.reads
        /\ t.m_kcp = u.m_kcp /\ t.pump = u.pump
        /\ t.m_is_connecting = u.m_is_connecting
        /\ t.m_is_connected = u.m_is_connected
    BY <1>3, <2>3 DEF ClientRecords
  <2>6. ~t.m_is_connecting /\ ~t.m_is_connected
    BY <1>2, <1>5, <2>5
  <2>7. Sound(c, t)
    BY <1>2, <2>4, <2>5, <2>6 DEF Local, Sound, ReadsLocal
  <2>8. QED
    BY <2>6, <2>7 DEF Local, Aligned, Served, InSession
<1>6. QED
  BY <1>4, <1>5

(* HandleAsyncConnect up to the receive it starts.                         *)
Answered(r, succeed) ==
    [ResetOffset(r) EXCEPT !.m_is_connecting = FALSE,
                           !.pump.m_executing = FALSE,
                           !.m_is_connected = succeed,
                           !.reports = IF succeed THEN Promised(@) ELSE @]

LEMMA AnsweredIs ==
    ASSUME NEW r \in ClientRecords, NEW succeed \in BOOLEAN
    PROVE  LET t == Answered(r, succeed)
           IN  /\ t \in ClientRecords
               /\ ~t.m_is_connecting /\ t.m_is_connected = succeed
               /\ t.m_kcp_data_size = 0
               /\ succeed => t.reports = Promised(r.reports)
               /\ ~succeed => t.reports = r.reports
               /\ t.pump \in PumpsOf(UpData)
               /\ t.pump.m_pocket_list = r.pump.m_pocket_list
               /\ t.pump.sends = r.pump.sends
               /\ t.reads = r.reads /\ t.m_kcp = r.m_kcp
               /\ t.m_kcp_timer = r.m_kcp_timer /\ t.open = r.open
               /\ t.socket = r.socket /\ t.m_session = r.m_session
               /\ t.late = r.late /\ t.crashed = r.crashed
<1> DEFINE p == [r.pump EXCEPT !.m_executing = FALSE]
           n == IF succeed THEN Promised(r.reports) ELSE r.reports
           v == [r EXCEPT !.m_kcp_data_size = 0]
<1>1. /\ p \in PumpsOf(UpData) /\ p.sends = r.pump.sends
      /\ p.m_pocket_list = r.pump.m_pocket_list
  <2>1. r.pump \in PumpsOf(UpData)
    BY DEF ClientRecords
  <2>2. QED
    BY <2>1 DEF PumpsOf
<1>2. /\ succeed => n = Promised(r.reports)
      /\ ~succeed => n = r.reports
  BY DEF ClientRecords
<1>3. v \in ClientRecords /\ v.pump = r.pump /\ v.reports = r.reports
  BY DEF ClientRecords
<1>4. Answered(r, succeed) =
         [v EXCEPT !.m_is_connecting = FALSE, !.pump = p,
                   !.m_is_connected = succeed, !.reports = n]
  BY <1>3 DEF Answered, ResetOffset, ClientRecords
<1>5. n \in Reports
  BY DEF ClientRecords, Reports, Promised
<1>6. /\ v.m_kcp_data_size = 0 /\ v.reads = r.reads /\ v.m_kcp = r.m_kcp
      /\ v.m_kcp_timer = r.m_kcp_timer /\ v.open = r.open
      /\ v.socket = r.socket /\ v.m_session = r.m_session
      /\ v.late = r.late /\ v.crashed = r.crashed
  BY DEF ClientRecords
<1> HIDE DEF p, n, v
<1>7. Answered(r, succeed) \in ClientRecords
  BY <1>1, <1>3, <1>4, <1>5 DEF ClientRecords
<1> DEFINE t == Answered(r, succeed)
<1>8. /\ ~t.m_is_connecting /\ t.pump = p /\ t.reports = n
      /\ t.m_kcp_data_size = 0
      /\ t.reads = r.reads /\ t.m_kcp = r.m_kcp
      /\ t.m_kcp_timer = r.m_kcp_timer /\ t.open = r.open
      /\ t.socket = r.socket /\ t.m_session = r.m_session
      /\ t.late = r.late /\ t.crashed = r.crashed
  BY <1>3, <1>4, <1>6 DEF ClientRecords
<1>9. t.m_is_connected = succeed
  BY <1>3, <1>4 DEF ClientRecords
<1> HIDE DEF t
<1>10. /\ succeed => t.reports = Promised(r.reports)
       /\ ~succeed => t.reports = r.reports
  BY <1>2, <1>8
<1>11. /\ t.pump \in PumpsOf(UpData)
       /\ t.pump.m_pocket_list = r.pump.m_pocket_list
       /\ t.pump.sends = r.pump.sends
  BY <1>1, <1>8
<1>12. t \in ClientRecords
  BY <1>7 DEF t
<1>13. QED
  BY <1>8, <1>9, <1>10, <1>11, <1>12, Zenon DEF t

LEMMA SamePumpLocal ==
    ASSUME NEW c, NEW p, NEW q, PumpLocal(c, p),
           q.m_pocket_list = p.m_pocket_list, q.sends = p.sends
    PROVE  PumpLocal(c, q)
  BY DEF PumpLocal, InPump

LEMMA AnsweredKeeps ==
    ASSUME NEW c \in Clients, NEW r, Sound(c, r), NEW succeed \in BOOLEAN
    PROVE  LET t == Answered(r, succeed)
           IN  /\ Sound(c, t) /\ t.m_is_connected = succeed
               /\ t.m_kcp_data_size = 0 /\ t.m_kcp = r.m_kcp
               /\ t.m_kcp_timer = r.m_kcp_timer /\ t.open = r.open
               /\ t.m_session = r.m_session /\ t.late = r.late
<1> DEFINE t == Answered(r, succeed)
<1>1. r \in ClientRecords /\ IsFiniteSet(r.m_kcp.rcv) /\ ReadsLocal(c, r)
      /\ PumpLocal(c, r.pump)
  BY DEF Sound
<1>2. /\ t \in ClientRecords
      /\ ~t.m_is_connecting /\ t.m_is_connected = succeed
      /\ t.m_kcp_data_size = 0
      /\ t.pump.m_pocket_list = r.pump.m_pocket_list
      /\ t.pump.sends = r.pump.sends
      /\ t.reads = r.reads /\ t.m_kcp = r.m_kcp
      /\ t.m_kcp_timer = r.m_kcp_timer /\ t.open = r.open
      /\ t.socket = r.socket /\ t.m_session = r.m_session
      /\ t.late = r.late
  BY <1>1, AnsweredIs
<1> HIDE DEF t
<1>3. PumpLocal(c, t.pump)
  BY <1>1, <1>2, SamePumpLocal
<1>4. ReadsLocal(c, t)
  BY <1>1, <1>2 DEF ReadsLocal
<1>6. QED
  BY <1>1, <1>2, <1>3, <1>4 DEF Sound, t

LEMMA EmptyAligned ==
    ASSUME NEW r, r.m_kcp.rcv = {}, r.m_kcp_data_size = 0
    PROVE  Aligned(r)
<1>1. Contiguous(r.m_kcp.rcv) = {}
  BY DEF Contiguous
<1>2. Cardinality(Contiguous(r.m_kcp.rcv)) = 0
  BY <1>1, FS_EmptySet
<1>3. QED
  BY <1>2 DEF Aligned

LEMMA AsyncFails ==
    ASSUME NEW c \in Clients, NEW r, Sound(c, r)
    PROVE  Local(c, HandleAsyncConnect(r, FALSE))
<1> DEFINE t == Answered(r, FALSE)
<1>1. HandleAsyncConnect(r, FALSE) = t
  BY DEF HandleAsyncConnect, Answered
<1>2. Sound(c, t) /\ ~t.m_is_connected
  BY AnsweredKeeps
<1> HIDE DEF t
<1>3. QED
  BY <1>1, <1>2 DEF Local, Aligned, Served, InSession

LEMMA AsyncSucceeds ==
    ASSUME NEW c \in Clients, NEW r, Sound(c, r), r.m_kcp.rcv = {},
           r.m_kcp_timer, r.m_session > 0, ~r.late => r.open
    PROVE  Local(c, HandleAsyncConnect(r, TRUE))
<1> DEFINE t == Answered(r, TRUE)
<1>1. HandleAsyncConnect(r, TRUE) = Read(t, "read")
  BY DEF HandleAsyncConnect, Answered, StartReading
<1>2. /\ Sound(c, t) /\ t.m_kcp_data_size = 0 /\ t.m_kcp = r.m_kcp
      /\ t.m_kcp_timer = r.m_kcp_timer /\ t.open = r.open
      /\ t.m_session = r.m_session /\ t.late = r.late
  BY AnsweredKeeps
<1> HIDE DEF t
<1>3. Aligned(t)
  BY <1>2, EmptyAligned
<1>4. InSession(t)
  BY <1>2 DEF InSession
<1>5. /\ Sound(c, Read(t, "read")) /\ Served(Read(t, "read"))
      /\ Aligned(Read(t, "read")) /\ InSession(Read(t, "read"))
  BY <1>2, <1>3, <1>4, ReadKeeps
<1>6. QED
  BY <1>1, <1>5 DEF Local

-----------------------------------------------------------------------------
(* What a client receives.                                                 *)

(* Fields of which Sound does not speak may change.                        *)
LEMMA SameSound ==
    ASSUME NEW c \in Clients, NEW r, NEW t \in ClientRecords, Sound(c, r),
           t.reads = r.reads, t.socket = r.socket, t.open = r.open,
           t.m_kcp.rcv = r.m_kcp.rcv, t.pump = r.pump,
           t.reports = r.reports,
           t.m_is_connecting = r.m_is_connecting,
           t.m_is_connected = r.m_is_connected
    PROVE  Sound(c, t)
<1>1. ReadsLocal(c, t)
  BY DEF Sound, ReadsLocal
<1>2. PumpLocal(c, t.pump) /\ IsFiniteSet(t.m_kcp.rcv)
  BY DEF Sound
<1>3. QED
  BY <1>1, <1>2 DEF Sound

(* A client is fed one segment more, and the bytes that are left over are  *)
(* those of the segments handed over, without the messages they made.      *)
LEMMA FeedKeeps ==
    ASSUME NEW c \in Clients, NEW r, Sound(c, r), Aligned(r), NEW d \in DownData
    PROVE  LET t == Feed(r, d)
           IN  /\ Sound(c, t) /\ Aligned(t)
               /\ t.m_is_connected = r.m_is_connected
               /\ t.m_kcp_timer = r.m_kcp_timer /\ t.m_session = r.m_session
               /\ t.late = r.late /\ t.open = r.open /\ t.crashed = r.crashed
               /\ t.socket = r.socket /\ t.reads = r.reads /\ t.pump = r.pump
               /\ t.m_kcp.conv = r.m_kcp.conv
<1> DEFINE old == r.m_kcp.rcv
           new == old \cup {d.seg}
           more == Contiguous(new) \ Contiguous(old)
           size == Remaining(r.m_kcp_data_size + Cardinality(more))
           kcp == [r.m_kcp EXCEPT !.rcv = new]
           t == Feed(r, d)
<1>1. /\ r \in ClientRecords /\ IsFiniteSet(old) /\ r.m_kcp \in Kcps
      /\ r.m_kcp_data_size \in Nat /\ old \in SUBSET Nat
  BY DEF Sound, ClientRecords, Kcps
<1>2. d.seg \in Nat
  BY DEF DownData
<1>3. t = [r EXCEPT !.m_kcp = kcp, !.m_kcp_data_size = size]
  BY <1>1 DEF Feed, Available, ClientRecords
<1>4. kcp \in Kcps /\ kcp.rcv = new /\ kcp.conv = r.m_kcp.conv
  BY <1>1, <1>2 DEF Kcps
<1>5. /\ IsFiniteSet(new) /\ IsFiniteSet(more)
      /\ Cardinality(more) \in Nat
      /\ Cardinality(Contiguous(old)) \in Nat
      /\ Cardinality(Contiguous(new)) =
            Cardinality(Contiguous(old)) + Cardinality(more)
  <2>1. IsFiniteSet(new)
    BY <1>1, FS_AddElement
  <2>2. Contiguous(new) \subseteq new /\ Contiguous(old) \subseteq old
    BY DEF Contiguous
  <2>3. IsFiniteSet(Contiguous(new)) /\ IsFiniteSet(Contiguous(old))
    BY <1>1, <2>1, <2>2, FS_Subset
  <2>4. Contiguous(old) \subseteq Contiguous(new)
    BY DEF Contiguous
  <2>5. /\ IsFiniteSet(more)
        /\ Cardinality(more) =
              Cardinality(Contiguous(new))
                 - Cardinality(Contiguous(new) \cap Contiguous(old))
    BY <2>3, FS_Difference
  <2>6. Contiguous(new) \cap Contiguous(old) = Contiguous(old)
    BY <2>4
  <2>7. /\ Cardinality(more) \in Nat
        /\ Cardinality(Contiguous(old)) \in Nat
        /\ Cardinality(Contiguous(new)) \in Nat
    BY <2>3, <2>5, FS_CardinalityType
  <2>8. Cardinality(Contiguous(new) \cap Contiguous(old)) =
           Cardinality(Contiguous(old))
    BY <2>6
  <2>9. QED
    BY <2>1, <2>5, <2>7, <2>8
<1> HIDE DEF more, kcp
<1>6. size \in Nat /\ size = (r.m_kcp_data_size + Cardinality(more)) % 2
  BY <1>1, <1>5 DEF Remaining
<1> HIDE DEF size
<1>7. t \in ClientRecords
  BY <1>1, <1>3, <1>4, <1>6 DEF ClientRecords
<1>8. /\ t.m_kcp = kcp /\ t.m_kcp_data_size = size
      /\ t.m_is_connected = r.m_is_connected
      /\ t.m_is_connecting = r.m_is_connecting
      /\ t.reports = r.reports
      /\ t.m_kcp_timer = r.m_kcp_timer /\ t.m_session = r.m_session
      /\ t.late = r.late /\ t.open = r.open /\ t.crashed = r.crashed
      /\ t.socket = r.socket /\ t.reads = r.reads /\ t.pump = r.pump
  BY <1>1, <1>3 DEF ClientRecords
<1> HIDE DEF t, new, old
<1>9. Sound(c, t)
  <2>1. ReadsLocal(c, t)
    BY <1>8 DEF Sound, ReadsLocal
  <2>2. PumpLocal(c, t.pump)
    BY <1>8 DEF Sound
  <2>3. IsFiniteSet(t.m_kcp.rcv)
    BY <1>4, <1>5, <1>8
  <2>4. QED
    BY <1>7, <2>1, <2>2, <2>3 DEF Sound
<1>10. Aligned(t)
  <2> DEFINE a == Cardinality(Contiguous(old))
             b == Cardinality(more)
  <2>1. SUFFICES ASSUME r.m_is_connected
                 PROVE  size = (a + b) % 2
    BY <1>4, <1>5, <1>8 DEF Aligned
  <2>2. r.m_kcp_data_size = a % 2
    BY <2>1 DEF Aligned, old
  <2>3. a \in Nat /\ b \in Nat
    BY <1>5
  <2> HIDE DEF a, b
  <2>4. ((a % 2) + b) % 2 = (a + b) % 2
    BY <2>3
  <2>5. size = ((a % 2) + b) % 2
    BY <1>6, <2>2 DEF b
  <2>6. QED
    BY <2>4, <2>5
<1>11. QED
  BY <1>4, <1>8, <1>9, <1>10 DEF t

(* What a receive completes with: a datagram that came for its socket.     *)
LEMMA OutcomeIs ==
    ASSUME net \subseteq Datagrams, NEW c \in Clients, NEW r, Sound(c, r),
           NEW handler, NEW outcome \in ReadResults(c, r, handler)
    PROVE  LET op == Head(r.reads)
           IN  /\ r.reads # <<>> /\ op.handler = handler
               /\ outcome # Aborted => /\ outcome \in DownData
                                       /\ outcome.to = Endpoint(c, op.socket)
               /\ \/ op.result = outcome /\ op.result # Pending
                  \/ /\ op.result = Pending /\ r.open /\ op.socket = r.socket
                     /\ outcome \in net /\ outcome \in DownData
<1> DEFINE op == Head(r.reads)
<1>1. r.reads # <<>> /\ op.handler = handler
  BY DEF ReadResults
<1>2. /\ op \in ReadsOf
      /\ op.result \in DownData => op.result.to = Endpoint(c, op.socket)
      /\ op.result = Pending => r.open /\ op.socket = r.socket
  BY <1>1, WithoutReadKeeps
<1>3. op.result \in DownData \cup {Pending, Aborted} /\ op.socket \in Nat
  BY <1>2 DEF ReadsOf
<1>4. CASE op.result # Pending
  <2>1. outcome = op.result
    BY <1>1, <1>4 DEF ReadResults
  <2>2. QED
    BY <1>1, <1>2, <1>3, <1>4, <2>1
<1>5. CASE op.result = Pending
  <2>1. outcome \in Arriving(Endpoint(c, op.socket))
    BY <1>1, <1>5 DEF ReadResults
  <2>2. outcome \in DownData /\ outcome \in net /\ outcome.to = Endpoint(c, op.socket)
    BY <1>3, <2>1, ArrivingIs
  <2>3. QED
    BY <1>1, <1>2, <1>5, <2>2
<1>6. QED
  BY <1>4, <1>5

(* HandleRead of a datagram.                                               *)
LEMMA DatagramReadKeeps ==
    ASSUME net \subseteq Datagrams, NEW c \in Clients, NEW r, Sound(c, r),
           Aligned(r), InSession(r), ~r.crashed, NEW d \in DownData,
           NEW t \in HandleDatagramRead(c, r, d)
    PROVE  Local(c, t)
<1>1. r \in ClientRecords
  BY DEF Sound
<1>2. d.seg \in Nat /\ d.session \in Int /\ d.conv \in Nat
  BY DEF DownData
<1>3. CASE d.seg = 0
  <2> DEFINE u == Read(r, "read")
  <2>1. /\ Sound(c, u) /\ Aligned(u) /\ Served(u) /\ InSession(u)
    BY ReadKeeps
  <2> HIDE DEF u
  <2>2. u \in ClientRecords /\ u.told \in BOOLEAN
    BY <2>1 DEF Sound, ClientRecords
  <2>3. PICK told \in BOOLEAN : t = [u EXCEPT !.told = told]
    <3>1. t = [u EXCEPT !.told =
                 @ \/ (d.session = -r.m_session /\ d.conv = r.m_kcp.conv)]
      BY <1>3 DEF HandleDatagramRead, u
    <3>2. (u.told \/ (d.session = -r.m_session /\ d.conv = r.m_kcp.conv)) \in BOOLEAN
      OBVIOUS
    <3>3. QED
      BY <3>1, <3>2
  <2>4. t \in ClientRecords
    BY <2>2, <2>3 DEF ClientRecords
  <2>5. /\ t.reads = u.reads /\ t.socket = u.socket /\ t.open = u.open
        /\ t.m_kcp = u.m_kcp /\ t.pump = u.pump
        /\ t.reports = u.reports
        /\ t.m_is_connecting = u.m_is_connecting
        /\ t.m_is_connected = u.m_is_connected /\ t.crashed = u.crashed
        /\ t.m_kcp_timer = u.m_kcp_timer /\ t.m_session = u.m_session
        /\ t.late = u.late /\ t.m_kcp_data_size = u.m_kcp_data_size
    BY <2>2, <2>3 DEF ClientRecords
  <2>6. Sound(c, t)
    BY <2>1, <2>4, <2>5, SameSound
  <2>7. Aligned(t) /\ Served(t) /\ InSession(t)
    BY <2>1, <2>5 DEF Aligned, Served, InSession
  <2>8. QED
    BY <2>6, <2>7 DEF Local
<1>4. CASE d.seg # 0 /\ r.m_kcp = NoKcp
  <2>1. t = [r EXCEPT !.crashed = TRUE]
    BY <1>4 DEF HandleDatagramRead
  <2>2. t \in ClientRecords /\ t.crashed
    BY <1>1, <2>1 DEF ClientRecords
  <2>3. /\ t.reads = r.reads /\ t.socket = r.socket /\ t.open = r.open
        /\ t.m_kcp = r.m_kcp /\ t.pump = r.pump
        /\ t.reports = r.reports
        /\ t.m_is_connecting = r.m_is_connecting
        /\ t.m_is_connected = r.m_is_connected
        /\ t.m_kcp_timer = r.m_kcp_timer /\ t.m_session = r.m_session
        /\ t.late = r.late /\ t.m_kcp_data_size = r.m_kcp_data_size
    BY <1>1, <2>1 DEF ClientRecords
  <2>4. Sound(c, t)
    BY <2>2, <2>3, SameSound
  <2>5. Aligned(t) /\ Served(t) /\ InSession(t)
    BY <2>2, <2>3 DEF Aligned, Served, InSession
  <2>6. QED
    BY <2>4, <2>5 DEF Local
<1>5. CASE d.seg # 0 /\ r.m_kcp # NoKcp /\ d.conv # r.m_kcp.conv
  <2>1. t = Read(r, "read")
    BY <1>5 DEF HandleDatagramRead
  <2>2. QED
    BY <2>1, ReadKeeps DEF Local
<1>6. CASE d.seg # 0 /\ r.m_kcp # NoKcp /\ d.conv = r.m_kcp.conv
  <2> DEFINE u == [r EXCEPT !.m_session = d.session]
  <2>1. u \in ClientRecords
    BY <1>1, <1>2 DEF ClientRecords
  <2>2. /\ u.reads = r.reads /\ u.socket = r.socket /\ u.open = r.open
        /\ u.m_kcp = r.m_kcp /\ u.pump = r.pump
        /\ u.reports = r.reports
        /\ u.m_is_connecting = r.m_is_connecting
        /\ u.m_is_connected = r.m_is_connected /\ u.crashed = r.crashed
        /\ u.m_kcp_timer = r.m_kcp_timer /\ u.m_session = d.session
        /\ u.late = r.late /\ u.m_kcp_data_size = r.m_kcp_data_size
    BY <1>1 DEF ClientRecords
  <2>3. t \in (IF EndedByServer(r, d) THEN ExecuteDisconnectCallback(c, u)
               ELSE {Read(Feed(u, d), "read")} \cup ClosedInMessage(u, d))
    BY <1>6 DEF HandleDatagramRead
  <2> HIDE DEF u
  <2>4. Sound(c, u)
    BY <2>1, <2>2, SameSound
  <2>5. Aligned(u)
    BY <2>2 DEF Aligned
  <2>6. HasTimer(u)
    BY <2>2 DEF HasTimer, InSession
  <2>7. CASE EndedByServer(r, d)
    BY <2>2, <2>3, <2>4, <2>5, <2>6, <2>7, DisconnectKeeps
  <2>8. CASE ~EndedByServer(r, d)
    <3>1. d.session > 0
      BY <1>2, <1>6, <2>2, <2>8 DEF EndedByServer
    <3>2. InSession(u)
      BY <2>2, <3>1 DEF InSession
    <3>3. CASE t = Read(Feed(u, d), "read")
      <4> DEFINE v == Feed(u, d)
      <4>1. /\ Sound(c, v) /\ Aligned(v)
            /\ v.m_is_connected = u.m_is_connected
            /\ v.m_kcp_timer = u.m_kcp_timer /\ v.m_session = u.m_session
            /\ v.late = u.late /\ v.open = u.open /\ v.crashed = u.crashed
        BY <2>4, <2>5, FeedKeeps
      <4> HIDE DEF v
      <4>2. InSession(v)
        BY <3>2, <4>1 DEF InSession
      <4>3. /\ Sound(c, Read(v, "read")) /\ Served(Read(v, "read"))
            /\ Aligned(Read(v, "read")) /\ InSession(Read(v, "read"))
        BY <4>1, <4>2, ReadKeeps
      <4>4. QED
        BY <3>3, <4>3 DEF Local, v
    <3>4. CASE t = [u EXCEPT !.crashed = TRUE]
      <4>1. t \in ClientRecords /\ t.crashed
        BY <2>1, <3>4 DEF ClientRecords
      <4>2. /\ t.reads = u.reads /\ t.socket = u.socket /\ t.open = u.open
            /\ t.m_kcp = u.m_kcp /\ t.pump = u.pump
            /\ t.reports = u.reports
            /\ t.m_is_connecting = u.m_is_connecting
            /\ t.m_is_connected = u.m_is_connected
            /\ t.m_kcp_timer = u.m_kcp_timer /\ t.m_session = u.m_session
            /\ t.late = u.late /\ t.m_kcp_data_size = u.m_kcp_data_size
        BY <2>1, <3>4 DEF ClientRecords
      <4>3. Sound(c, t)
        BY <2>4, <4>1, <4>2, SameSound
      <4>4. Aligned(t) /\ Served(t) /\ InSession(t)
        BY <2>5, <3>1, <2>2, <3>2, <4>1, <4>2 DEF Aligned, Served, InSession
      <4>5. QED
        BY <4>3, <4>4 DEF Local
    <3>5. QED
      BY <2>3, <2>8, <3>3, <3>4 DEF ClosedInMessage
  <2>9. QED
    BY <2>7, <2>8
<1>7. QED
  BY <1>3, <1>4, <1>5, <1>6

-----------------------------------------------------------------------------
(* Each action of a client keeps what is true of it.                       *)

CloseRequestSent(c, r) == CloseRequest(c, r) \subseteq UpData

LEMMA CloseRequestIs ==
    ASSUME NEW c \in Clients, NEW r \in ClientRecords
    PROVE  CloseRequestSent(c, r)
<1>1. /\ r.socket \in Nat /\ r.m_session \in Int /\ r.m_kcp \in Kcps
      /\ -r.m_session \in Int
  BY DEF ClientRecords
<1>2. r.m_kcp.conv \in Nat
  BY <1>1 DEF Kcps
<1>3. Endpoint(c, r.socket) \in Endpoints
  BY <1>1 DEF Endpoint, Endpoints
<1>4. Datagram(Endpoint(c, r.socket), Server, -r.m_session, r.m_kcp.conv, 0)
         \in UpData
  BY <1>1, <1>2, <1>3 DEF Datagram, UpData
<1>5. QED
  BY <1>4 DEF CloseRequest, CloseRequestSent

LocalOf(c) == net \subseteq Datagrams /\ Local(c, client[c])

LocalNext(c) == net' \subseteq Datagrams /\ \E t : Becomes(c, t) /\ Local(c, t)

LEMMA RenewedIs ==
    ASSUME NEW r \in ClientRecords
    PROVE  /\ Renewed(r) \in Reports
           /\ Renewed(r).owed = r.reports.owed
           /\ Renewed(r).stray = r.reports.stray
           /\ Renewed(r).orderly <=> r.reports.orderly /\ NothingLeft(r)
<1>1. r.reports \in Reports
  BY DEF ClientRecords
<1>2. Renewed(r) = [r.reports EXCEPT !.orderly = r.reports.orderly /\ NothingLeft(r)]
  BY DEF Renewed
<1>3. (r.reports.orderly /\ NothingLeft(r)) \in BOOLEAN
  BY DEF NothingLeft
<1>4. QED
  BY <1>1, <1>2, <1>3 DEF Reports

LEMMA ConnectKeeps ==
    ASSUME NEW c \in Clients, LocalOf(c), Connect(c)
    PROVE  LocalNext(c)
<1> DEFINE r == client[c]
           n == r.socket + 1
           list == Readdressed(r.pump.m_pocket_list, Endpoint(c, n))
           p == [r.pump EXCEPT !.m_pocket_list = list]
           Left(s, opens) ==
              [r EXCEPT !.m_is_connecting = TRUE,
                        !.socket = @ + 1, !.open = opens,
                        !.pump.m_pocket_list =
                           Readdressed(@, Endpoint(c, r.socket + 1)),
                        !.reads = s, !.connects = @ + 1,
                        !.reports = Renewed(r), !.told = FALSE]
<1>1. /\ net \subseteq Datagrams /\ Sound(c, r) /\ r \in ClientRecords
      /\ ~r.m_is_connected /\ ~r.m_is_connecting /\ ~r.crashed
  BY DEF LocalOf, Local, Sound, Connect
<1>2. PICK s \in SettledReads(c, r), opens \in BOOLEAN :
         IF opens
           THEN \E u \in CancelTimer(Read(Left(s, opens), "connect")) :
                /\ Becomes(c, [u EXCEPT !.m_connect_timer = "armed"])
                /\ net' = Reachable(Endpoint(c, r.socket))
                     \cup {Datagram(Endpoint(c, Left(s, opens).socket),
                                    Server, 0, 0, 0)}
           ELSE /\ Becomes(c, [Left(s, opens) EXCEPT !.posted = @ + 1])
                /\ net' = Reachable(Endpoint(c, r.socket))
  BY DEF Connect
<1> DEFINE t == [r EXCEPT !.m_is_connecting = TRUE, !.socket = n,
                          !.open = opens, !.pump = p, !.reads = s,
                          !.connects = r.connects + 1, !.reports = Renewed(r),
                          !.told = FALSE]
<1>14. Left(s, opens) = t
  BY <1>1 DEF ClientRecords
<1> HIDE DEF Left
<1>3. /\ r.socket \in Nat /\ n \in Nat /\ r.pump \in PumpsOf(UpData)
      /\ PumpLocal(c, r.pump) /\ r.connects + 1 \in Nat
  BY <1>1 DEF Sound, ClientRecords
<1>4. Endpoint(c, n) \in Endpoints /\ Endpoint(c, n)[1] = c
  BY <1>3 DEF Endpoint, Endpoints
<1>5. /\ p \in PumpsOf(UpData) /\ p.sends = r.pump.sends /\ p.m_pocket_list = list
      /\ PumpLocal(c, p)
  <2> DEFINE old == r.pump.m_pocket_list
  <2>1. /\ old \in Seq(UpData) /\ DOMAIN old = 1 .. Len(old) /\ Len(old) \in Nat
        /\ r.pump.sends \in Seq(SendsOf(UpData))
    BY <1>3, PumpFields
  <2>2. /\ DOMAIN list = DOMAIN old
        /\ \A i \in DOMAIN old :
              list[i] = [old[i] EXCEPT !.from = Endpoint(c, n)]
    BY DEF Readdressed
  <2>3. \A i \in DOMAIN old : old[i] \in UpData
    BY <2>1
  <2>4. \A i \in DOMAIN old : /\ list[i] \in UpData
                              /\ list[i].from = Endpoint(c, n)
                              /\ list[i].seg = old[i].seg
    BY <1>4, <2>2, <2>3 DEF UpData
  <2>5. list = [i \in DOMAIN old |-> list[i]]
    BY DEF Readdressed
  <2> HIDE DEF list
  <2>6. list \in [1 .. Len(old) -> UpData]
    BY <2>1, <2>2, <2>4, <2>5
  <2>7. list \in Seq(UpData)
    BY <2>1, <2>6, FunctionIsSeq
  <2>8. /\ p \in PumpsOf(UpData) /\ p.sends = r.pump.sends
        /\ p.m_pocket_list = list
    BY <1>3, <2>7 DEF PumpsOf
  <2> HIDE DEF p
  <2>9. PumpLocal(c, p)
    BY <1>3, <1>4, <2>2, <2>4, <2>8 DEF PumpLocal, InPump
  <2>10. QED
    BY <2>8, <2>9
<1> HIDE DEF p
<1>6. /\ s \in Seq(ReadsOf) /\ DOMAIN s = DOMAIN r.reads
      /\ \A i \in DOMAIN s :
            /\ s[i].socket = r.reads[i].socket
            /\ s[i].result # Pending
            /\ \/ s[i].result = r.reads[i].result
               \/ s[i].result = Aborted
               \/ s[i].result.to = Endpoint(c, s[i].socket)
  BY <1>1, SettledReadsIs
<1> HIDE DEF n
<1>15. Renewed(r) \in Reports
  BY <1>1, RenewedIs
<1>7. t \in ClientRecords
  BY <1>1, <1>3, <1>5, <1>6, <1>15 DEF ClientRecords
<1>8. /\ t.reads = s /\ t.socket = n /\ t.m_kcp = r.m_kcp /\ t.pump = p
      /\ t.m_is_connected = r.m_is_connected
      /\ t.crashed = r.crashed
  BY <1>1 DEF ClientRecords
<1> HIDE DEF t
<1>9. Sound(c, t)
  <2>1. Aborted \notin DownData
    BY NamesAssumption
  <2>2. ReadsLocal(c, t)
    BY <1>1, <1>6, <1>8, <2>1 DEF Sound, ReadsLocal
  <2>4. QED
    BY <1>1, <1>5, <1>7, <1>8, <2>2 DEF Sound
<1>10. net' \subseteq Datagrams
  <2>1. Datagram(Endpoint(c, n), Server, 0, 0, 0) \in UpData
    BY <1>4 DEF Datagram, UpData
  <2>2. Reachable(Endpoint(c, r.socket)) \subseteq net
    BY DEF Reachable
  <2>3. \/ net' = Reachable(Endpoint(c, r.socket))
        \/ net' = Reachable(Endpoint(c, r.socket))
             \cup {Datagram(Endpoint(c, t.socket), Server, 0, 0, 0)}
    BY <1>2, <1>14
  <2>4. QED
    BY <1>1, <1>8, <2>1, <2>2, <2>3 DEF Datagrams
<1>11. CASE opens
  <2> DEFINE v == Read(t, "connect")
  <2>1. PICK u \in CancelTimer(v) : Becomes(c, [u EXCEPT !.m_connect_timer = "armed"])
    BY <1>2, <1>11, <1>14
  <2>2. Sound(c, v)
    BY <1>9, ReadKeeps
  <2>3. v \in ClientRecords /\ v = WithReads(t, v.reads)
    BY <1>7, ReadIs
  <2>4. v.m_is_connected = t.m_is_connected
    BY <1>7, <2>3 DEF WithReads, ClientRecords
  <2> HIDE DEF v
  <2>5. PICK e \in Nat : u = Cancelled(v, e)
    BY <2>3, CancelTimerIs
  <2> DEFINE w == [u EXCEPT !.m_connect_timer = "armed"]
  <2>6. w = [v EXCEPT !.m_connect_timer = "armed", !.expired = e]
    BY <2>3, <2>5 DEF Cancelled, ClientRecords
  <2>7. w \in ClientRecords
    BY <2>3, <2>6 DEF ClientRecords
  <2>8. /\ w.reads = v.reads /\ w.socket = v.socket /\ w.open = v.open
        /\ w.m_kcp = v.m_kcp /\ w.pump = v.pump
        /\ w.reports = v.reports
        /\ w.m_is_connecting = v.m_is_connecting
        /\ w.m_is_connected = v.m_is_connected
    BY <2>3, <2>6 DEF ClientRecords
  <2> HIDE DEF w
  <2>9. Sound(c, w)
    BY <2>2, <2>7, <2>8, SameSound
  <2>10. Local(c, w)
    BY <1>1, <1>8, <2>4, <2>8, <2>9 DEF Local, Aligned, Served, InSession
  <2>11. QED
    BY <1>10, <2>1, <2>10 DEF LocalNext, w
<1>12. CASE ~opens
  <2> DEFINE w == [t EXCEPT !.posted = @ + 1]
  <2>1. Becomes(c, w)
    BY <1>2, <1>12, <1>14
  <2>2. t.posted + 1 \in Nat
    BY <1>7 DEF ClientRecords
  <2>3. w \in ClientRecords
    BY <1>7, <2>2 DEF ClientRecords
  <2>4. /\ w.reads = t.reads /\ w.socket = t.socket /\ w.open = t.open
        /\ w.m_kcp = t.m_kcp /\ w.pump = t.pump
        /\ w.reports = t.reports
        /\ w.m_is_connecting = t.m_is_connecting
        /\ w.m_is_connected = t.m_is_connected
    BY <1>7 DEF ClientRecords
  <2> HIDE DEF w
  <2>5. Sound(c, w)
    BY <1>9, <2>3, <2>4, SameSound
  <2>6. Local(c, w)
    BY <1>1, <1>8, <2>4, <2>5 DEF Local, Aligned, Served, InSession
  <2>7. QED
    BY <1>10, <2>1, <2>6 DEF LocalNext
<1>13. QED
  BY <1>11, <1>12

(* The queued and timed calls of HandleAsyncConnect(false).                *)
LEMMA TimedKeeps ==
    ASSUME NEW c \in Clients, LocalOf(c),
           HandlePosted(c) \/ HandleConnectTimeout(c)
    PROVE  LocalNext(c)
<1> DEFINE r == client[c]
<1>1. net \subseteq Datagrams /\ Sound(c, r) /\ r \in ClientRecords
  BY DEF LocalOf, Local, Sound
<1>2. ASSUME NEW t \in ClientRecords, NEW posted, NEW timer, NEW expired,
             t = [r EXCEPT !.posted = posted, !.m_connect_timer = timer,
                           !.expired = expired]
      PROVE  Local(c, HandleAsyncConnect(t, FALSE))
  <2>1. /\ t.reads = r.reads /\ t.socket = r.socket /\ t.open = r.open
        /\ t.m_kcp = r.m_kcp /\ t.pump = r.pump
        /\ t.reports = r.reports
        /\ t.m_is_connecting = r.m_is_connecting
        /\ t.m_is_connected = r.m_is_connected
    BY <1>1, <1>2 DEF ClientRecords
  <2>2. Sound(c, t)
    BY <1>1, <2>1, SameSound
  <2>3. QED
    BY <2>2, AsyncFails
<1>3. CASE HandlePosted(c)
  <2> DEFINE t == [r EXCEPT !.posted = @ - 1]
  <2>1. r.posted > 0 /\ Becomes(c, HandleAsyncConnect(t, FALSE)) /\ net' = net
    BY <1>3 DEF HandlePosted
  <2>2. /\ t \in ClientRecords
        /\ t = [r EXCEPT !.posted = r.posted - 1,
                         !.m_connect_timer = r.m_connect_timer,
                         !.expired = r.expired]
    <3>1. r.posted \in Nat
      BY <1>1 DEF ClientRecords
    <3>2. r.posted - 1 \in Nat
      BY <2>1, <3>1
    <3>3. QED
      BY <1>1, <3>2 DEF ClientRecords
  <2> HIDE DEF t
  <2>3. Local(c, HandleAsyncConnect(t, FALSE))
    BY <1>2, <2>2
  <2>4. QED
    BY <1>1, <2>1, <2>3 DEF LocalNext
<1>4. CASE HandleConnectTimeout(c)
  <2> DEFINE t == [r EXCEPT !.m_connect_timer = "spent"]
             u == [r EXCEPT !.expired = @ - 1]
  <2>1. /\ net' = net
        /\ \/ Becomes(c, HandleAsyncConnect(t, FALSE))
           \/ r.expired > 0 /\ Becomes(c, HandleAsyncConnect(u, FALSE))
    BY <1>4 DEF HandleConnectTimeout
  <2>2. /\ t \in ClientRecords
        /\ t = [r EXCEPT !.posted = r.posted, !.m_connect_timer = "spent",
                         !.expired = r.expired]
    BY <1>1 DEF ClientRecords
  <2>3. r.expired > 0 =>
          /\ u \in ClientRecords
          /\ u = [r EXCEPT !.posted = r.posted,
                           !.m_connect_timer = r.m_connect_timer,
                           !.expired = r.expired - 1]
    <3>1. r.expired \in Nat
      BY <1>1 DEF ClientRecords
    <3>2. r.expired > 0 => r.expired - 1 \in Nat
      BY <3>1
    <3>3. QED
      BY <1>1, <3>2 DEF ClientRecords
  <2> HIDE DEF t, u
  <2>4. /\ Local(c, HandleAsyncConnect(t, FALSE))
        /\ r.expired > 0 => Local(c, HandleAsyncConnect(u, FALSE))
    BY <1>2, <2>2, <2>3
  <2>5. QED
    BY <1>1, <2>1, <2>4 DEF LocalNext
<1>5. QED
  BY <1>3, <1>4

LEMMA ConnectNowhereKeeps ==
    ASSUME NEW c \in Clients, LocalOf(c), ConnectNowhere(c)
    PROVE  LocalNext(c)
<1> DEFINE r == client[c]
           t == [r EXCEPT !.posted = @ + 1, !.connects = @ + 1]
<1>1. /\ net \subseteq Datagrams /\ Sound(c, r) /\ r \in ClientRecords
      /\ ~r.m_is_connected /\ Becomes(c, t) /\ net' = net
  <2>1. net \subseteq Datagrams /\ Sound(c, r) /\ r \in ClientRecords
    BY DEF LocalOf, Local, Sound
  <2>2. ~r.m_is_connected /\ Becomes(c, t) /\ net' = net
    BY DEF ConnectNowhere
  <2>3. QED
    BY <2>1, <2>2
<1>2. t \in ClientRecords
  <2>1. r.posted \in Nat /\ r.connects \in Nat
    BY <1>1 DEF ClientRecords
  <2>2. r.posted + 1 \in Nat /\ r.connects + 1 \in Nat
    BY <2>1
  <2>3. QED
    BY <1>1, <2>2 DEF ClientRecords
<1>3. /\ t.reads = r.reads /\ t.socket = r.socket /\ t.open = r.open
      /\ t.m_kcp = r.m_kcp /\ t.pump = r.pump
      /\ t.reports = r.reports
      /\ t.m_is_connecting = r.m_is_connecting
      /\ t.m_is_connected = r.m_is_connected
  BY <1>1 DEF ClientRecords
<1> HIDE DEF t
<1>4. Sound(c, t)
  BY <1>1, <1>2, <1>3, SameSound
<1>5. Local(c, t)
  BY <1>1, <1>3, <1>4 DEF Local, Aligned, Served, InSession
<1>6. QED
  BY <1>1, <1>5 DEF LocalNext

LEMMA ByApplicationIs ==
    ASSUME NEW r \in ClientRecords
    PROVE  LET t == ByApplication(r)
           IN  /\ t \in ClientRecords
               /\ t.reports = IF r.crashed THEN r.reports ELSE Waived(r.reports)
               /\ t.socket = r.socket /\ t.open = r.open /\ t.reads = r.reads
               /\ t.m_kcp = r.m_kcp /\ t.pump = r.pump
               /\ t.m_is_connecting = r.m_is_connecting
               /\ t.m_is_connected = r.m_is_connected
               /\ t.crashed = r.crashed /\ t.m_kcp_timer = r.m_kcp_timer
               /\ t.m_session = r.m_session /\ t.late = r.late
               /\ t.m_kcp_data_size = r.m_kcp_data_size
<1> DEFINE new == IF r.crashed THEN r.reports ELSE Waived(r.reports)
<1>1. new \in Reports
  BY DEF Reports, Waived, ClientRecords
<1>2. ByApplication(r) = [r EXCEPT !.reports = new]
  BY DEF ByApplication
<1> HIDE DEF new
<1>3. [r EXCEPT !.reports = new] \in ClientRecords
  BY <1>1 DEF ClientRecords
<1>4. QED
  BY <1>2, <1>3 DEF ClientRecords, new

LEMMA CloseKeeps ==
    ASSUME NEW c \in Clients, LocalOf(c), ClientClose(c)
    PROVE  LocalNext(c)
<1> DEFINE r == client[c]
<1>1. /\ net \subseteq Datagrams /\ Sound(c, r) /\ r \in ClientRecords
      /\ Aligned(r) /\ InSession(r) /\ ~r.crashed
  BY DEF LocalOf, Local, Sound, ClientClose
<1>2. PICK u \in Closed(c, r) : Becomes(c, ByApplication(u))
  BY DEF ClientClose
<1> DEFINE t == ByApplication(u)
<1>3. HasTimer(r)
  BY <1>1 DEF InSession, HasTimer
<1>4. Local(c, t)
  <2>1. Local(c, u) /\ u \in ClientRecords
    BY <1>1, <1>3, ClosedKeeps DEF Local, Sound
  <2>2. /\ t \in ClientRecords
        /\ t.socket = u.socket /\ t.open = u.open /\ t.reads = u.reads
        /\ t.m_kcp = u.m_kcp /\ t.pump = u.pump
        /\ t.m_is_connecting = u.m_is_connecting
        /\ t.m_is_connected = u.m_is_connected
        /\ t.crashed = u.crashed /\ t.m_kcp_timer = u.m_kcp_timer
        /\ t.m_session = u.m_session /\ t.late = u.late
        /\ t.m_kcp_data_size = u.m_kcp_data_size
    BY <2>1, ByApplicationIs
  <2> HIDE DEF t
  <2>3. Sound(c, t)
    BY <2>1, <2>2 DEF Local, Sound, ReadsLocal
  <2>4. QED
    BY <2>1, <2>2, <2>3 DEF Local, Aligned, Served, InSession
<1>5. net' \subseteq Datagrams
  BY <1>1, CloseRequestIs DEF ClientClose, Transmit, CloseRequestSent, Datagrams
<1>6. QED
  BY <1>2, <1>4, <1>5 DEF LocalNext

(* The answer to a request: WithoutRead(r) may have taken it late.         *)
TookAnswer(r, d) == [WithoutRead(r) EXCEPT !.late = @ \/ TakenLate(r, d)]

LEMMA TookAnswerIs ==
    ASSUME net \subseteq Datagrams, NEW c \in Clients, NEW r, Local(c, r),
           NEW d \in ReadResults(c, r, "connect"), d # Aborted
    PROVE  LET q == TookAnswer(r, d)
               u == WithoutRead(r)
           IN  /\ q \in ClientRecords /\ Sound(c, q) /\ Aligned(q) /\ Served(q)
               /\ d.seg = 0 /\ ~q.late => r.open /\ ~r.late
               /\ r.late => q.late
               /\ d.seg # 0 => q.late = r.late
               /\ q.reads = u.reads /\ q.socket = r.socket
               /\ q.open = r.open /\ q.m_kcp = r.m_kcp /\ q.pump = r.pump
               /\ q.reports = r.reports
               /\ q.m_is_connecting = r.m_is_connecting
               /\ q.m_is_connected = r.m_is_connected /\ q.crashed = r.crashed
               /\ q.m_kcp_timer = r.m_kcp_timer /\ q.m_session = r.m_session
               /\ q.m_kcp_data_size = r.m_kcp_data_size
<1> DEFINE q == TookAnswer(r, d)
           u == WithoutRead(r)
           op == Head(r.reads)
           late == r.late \/ (op.result # Pending /\ d.seg = 0)
<1>1. Sound(c, r) /\ r \in ClientRecords /\ Served(r) /\ Aligned(r)
  BY DEF Local, Sound
<1>2. /\ r.reads # <<>> /\ op.handler = "connect"
      /\ op.result = Pending => r.open
  <2>1. /\ r.reads # <<>> /\ op.handler = "connect"
        /\ \/ op.result = d /\ op.result # Pending
           \/ /\ op.result = Pending /\ r.open /\ op.socket = r.socket
              /\ d \in net /\ d \in DownData
    BY <1>1, OutcomeIs
  <2>2. QED
    BY <2>1
<1>3. /\ Sound(c, u) /\ Served(u) /\ Aligned(u) /\ u = WithReads(r, u.reads)
      /\ u.reads \in Seq(ReadsOf)
  BY <1>1, <1>2, WithoutReadKeeps
<1> HIDE DEF u
<1>4. /\ u.socket = r.socket
      /\ u.open = r.open /\ u.m_kcp = r.m_kcp /\ u.pump = r.pump
      /\ u.reports = r.reports
      /\ u.m_is_connecting = r.m_is_connecting
      /\ u.m_is_connected = r.m_is_connected /\ u.crashed = r.crashed
      /\ u.m_kcp_timer = r.m_kcp_timer /\ u.m_session = r.m_session
      /\ u.m_kcp_data_size = r.m_kcp_data_size /\ u.late = r.late
      /\ u \in ClientRecords
  BY <1>1, <1>3 DEF WithReads, ClientRecords
<1>5. q = [u EXCEPT !.late = late]
  BY <1>4 DEF TookAnswer, TakenLate, u
<1>6. late \in BOOLEAN
  OBVIOUS
<1> HIDE DEF late
<1>7. q \in ClientRecords
  BY <1>4, <1>5, <1>6 DEF ClientRecords
<1>8. /\ q.reads = u.reads /\ q.socket = u.socket
      /\ q.open = u.open /\ q.m_kcp = u.m_kcp /\ q.pump = u.pump
      /\ q.reports = u.reports
      /\ q.m_is_connecting = u.m_is_connecting
      /\ q.m_is_connected = u.m_is_connected /\ q.crashed = u.crashed
      /\ q.m_kcp_timer = u.m_kcp_timer /\ q.m_session = u.m_session
      /\ q.m_kcp_data_size = u.m_kcp_data_size
  BY <1>4, <1>5 DEF ClientRecords
<1>9. q.late = late
  BY <1>4, <1>5 DEF ClientRecords
<1> HIDE DEF q
<1>10. Sound(c, q)
  BY <1>3, <1>7, <1>8, SameSound
<1>11. Aligned(q) /\ Served(q)
  BY <1>3, <1>8 DEF Aligned, Served
<1>12. r.late \in BOOLEAN
  BY <1>1 DEF ClientRecords
<1>13. /\ d.seg = 0 /\ ~q.late => r.open /\ ~r.late
       /\ r.late => q.late
       /\ d.seg # 0 => q.late = r.late
  BY <1>2, <1>9, <1>12 DEF late
<1>14. QED
  BY <1>4, <1>7, <1>8, <1>10, <1>11, <1>13, Zenon DEF q, u

LEMMA ReceiveConnectKeeps ==
    ASSUME NEW c \in Clients, LocalOf(c), HandleReceiveConnect(c)
    PROVE  LocalNext(c)
<1> DEFINE r == client[c]
<1>1. /\ net \subseteq Datagrams /\ Local(c, r) /\ Sound(c, r) /\ ~r.crashed
      /\ net' = net
  BY DEF LocalOf, Local, HandleReceiveConnect
<1>2. PICK d \in ReadResults(c, r, "connect") :
         \E t \in IF Fails(d) THEN {HandleAsyncConnect(WithoutRead(r), FALSE)}
                  ELSE HandleAnswer(TookAnswer(r, d), d) :
            Becomes(c, t)
  BY DEF HandleReceiveConnect, TookAnswer
<1>3. CASE Fails(d)
  <2>1. Becomes(c, HandleAsyncConnect(WithoutRead(r), FALSE))
    BY <1>2, <1>3
  <2>2. r.reads # <<>>
    BY <1>1, OutcomeIs
  <2>3. Sound(c, WithoutRead(r))
    BY <1>1, <2>2, WithoutReadKeeps
  <2>4. QED
    BY <1>1, <2>1, <2>3, AsyncFails DEF LocalNext
<1>4. CASE ~Fails(d)
  <2> DEFINE q == TookAnswer(r, d)
  <2>1. PICK t \in HandleAnswer(q, d) : Becomes(c, t)
    BY <1>2, <1>4
  <2>2. d # Aborted
    BY <1>4 DEF Fails
  <2>3. /\ q \in ClientRecords /\ Sound(c, q) /\ Aligned(q) /\ Served(q)
        /\ d.seg = 0 /\ ~q.late => r.open
        /\ d.seg # 0 => q.late = r.late
        /\ q.open = r.open /\ q.m_is_connected = r.m_is_connected
        /\ q.crashed = r.crashed /\ q.m_kcp_timer = r.m_kcp_timer
        /\ q.m_session = r.m_session
    BY <1>1, <2>2, TookAnswerIs
  <2>4. d \in DownData
    BY <1>1, <2>2, OutcomeIs
  <2>5. d.seg \in Nat /\ d.session \in Int /\ d.conv \in Nat
    BY <2>4 DEF DownData
  <2> HIDE DEF q
  <2>6. CASE d.seg # 0
    <3>1. t = Read(q, "connect")
      BY <2>1, <2>6 DEF HandleAnswer
    <3>2. InSession(q)
      BY <1>1, <2>3, <2>6 DEF Local, InSession
    <3>3. Local(c, t)
      BY <2>3, <3>1, <3>2, ReadKeeps DEF Local
    <3>4. QED
      BY <1>1, <2>1, <3>3 DEF LocalNext
  <2>7. CASE d.seg = 0
    <3> DEFINE Failed(u) == [u EXCEPT !.m_session = d.session]
               Granted(u) == [u EXCEPT !.m_session = d.session,
                                       !.m_kcp = NewKcp(d.conv),
                                       !.m_kcp_timer = TRUE]
    <3>1. PICK u \in CancelTimer(q) :
             t = IF d.session <= 0 \/ d.conv = 0
                   THEN HandleAsyncConnect(Failed(u), FALSE)
                   ELSE HandleAsyncConnect(Granted(u), TRUE)
      BY <2>1, <2>7 DEF HandleAnswer
    <3>2. u \in ClientRecords /\ \E e \in Nat : u = Cancelled(q, e)
      BY <2>3, CancelTimerIs
    <3>3. /\ u.reads = q.reads /\ u.socket = q.socket /\ u.open = q.open
          /\ u.m_kcp = q.m_kcp /\ u.pump = q.pump
          /\ u.reports = q.reports /\ u.late = q.late
          /\ u.m_is_connecting = q.m_is_connecting
          /\ u.m_is_connected = q.m_is_connected
      BY <2>3, <3>2 DEF Cancelled, ClientRecords
    <3>4. Sound(c, u)
      BY <2>3, <3>2, <3>3, SameSound
    <3>5. CASE d.session <= 0 \/ d.conv = 0
      <4> DEFINE v == Failed(u)
      <4>1. v \in ClientRecords
        BY <2>5, <3>2 DEF ClientRecords
      <4>2. /\ v.reads = u.reads /\ v.socket = u.socket /\ v.open = u.open
            /\ v.m_kcp = u.m_kcp /\ v.pump = u.pump
            /\ v.reports = u.reports
            /\ v.m_is_connecting = u.m_is_connecting
            /\ v.m_is_connected = u.m_is_connected
        BY <3>2 DEF ClientRecords
      <4>3. t = HandleAsyncConnect(v, FALSE)
        BY <3>1, <3>5
      <4> HIDE DEF v
      <4>4. Sound(c, v)
        BY <3>4, <4>1, <4>2, SameSound
      <4>5. Local(c, t)
        BY <4>3, <4>4, AsyncFails
      <4>6. QED
        BY <1>1, <2>1, <4>5 DEF LocalNext
    <3>6. CASE ~(d.session <= 0 \/ d.conv = 0)
      <4> DEFINE v == Granted(u)
      <4>1. NewKcp(d.conv) \in Kcps /\ NewKcp(d.conv).rcv = {}
        BY <2>5 DEF NewKcp, NoKcp, Kcps
      <4>2. v \in ClientRecords
        BY <2>5, <3>2, <4>1 DEF ClientRecords
      <4>3. /\ v.reads = u.reads /\ v.socket = u.socket /\ v.open = u.open
            /\ v.m_kcp = NewKcp(d.conv) /\ v.pump = u.pump
            /\ v.reports = u.reports
            /\ v.m_is_connecting = u.m_is_connecting
            /\ v.m_is_connected = u.m_is_connected
            /\ v.m_kcp_timer /\ v.m_session = d.session /\ v.late = u.late
        BY <3>2 DEF ClientRecords
      <4>4. t = HandleAsyncConnect(v, TRUE)
        BY <3>1, <3>6
      <4> HIDE DEF v
      <4>5. Sound(c, v)
        <5>1. ReadsLocal(c, v)
          BY <3>4, <4>3 DEF Sound, ReadsLocal
        <5>2. PumpLocal(c, v.pump)
          BY <3>4, <4>3 DEF Sound
        <5>3. IsFiniteSet(v.m_kcp.rcv)
          BY <4>1, <4>3, FS_EmptySet
        <5>4. QED
          BY <4>2, <5>1, <5>2, <5>3 DEF Sound
      <4>6. v.m_session > 0
        BY <2>5, <3>6, <4>3
      <4>7. ~v.late => v.open
        BY <2>3, <2>7, <3>3, <4>3
      <4>8. v.m_kcp.rcv = {}
        BY <4>1, <4>3
      <4>9. Local(c, t)
        BY <4>3, <4>4, <4>5, <4>6, <4>7, <4>8, AsyncSucceeds
      <4>10. QED
        BY <1>1, <2>1, <4>9 DEF LocalNext
    <3>7. QED
      BY <3>5, <3>6
  <2>8. QED
    BY <2>6, <2>7
<1>5. QED
  BY <1>3, <1>4

LEMMA HandleReadKeeps ==
    ASSUME NEW c \in Clients, LocalOf(c), ClientHandleRead(c)
    PROVE  LocalNext(c)
<1> DEFINE r == client[c]
           q == WithoutRead(r)
<1>1. /\ net \subseteq Datagrams /\ Local(c, r) /\ Sound(c, r) /\ ~r.crashed
      /\ r \in ClientRecords
  BY DEF LocalOf, Local, Sound, ClientHandleRead
<1>2. PICK d \in ReadResults(c, r, "read") :
         IF Fails(d)
           THEN /\ \E t \in ExecuteDisconnectCallback(c, q) : Becomes(c, t)
                /\ Transmit(CloseRequest(c, r))
           ELSE /\ \E t \in HandleDatagramRead(c, q, d) : Becomes(c, t)
                /\ Transmit(IF EndedByServer(r, d)
                              THEN CloseRequest(c, [r EXCEPT !.m_session = d.session])
                              ELSE {})
  BY DEF ClientHandleRead
<1>3. r.reads # <<>>
  BY <1>1, OutcomeIs
<1>4. /\ Sound(c, q) /\ Aligned(q) /\ InSession(q) /\ q = WithReads(r, q.reads)
  BY <1>1, <1>3, WithoutReadKeeps DEF Local
<1> HIDE DEF q
<1>5. ~q.crashed
  BY <1>1, <1>4 DEF WithReads, ClientRecords
<1>6. CASE Fails(d)
  <2>1. PICK t \in ExecuteDisconnectCallback(c, q) : Becomes(c, t)
    BY <1>2, <1>6
  <2>2. HasTimer(q)
    BY <1>4 DEF InSession, HasTimer
  <2>3. Local(c, t)
    BY <1>1, <1>4, <1>5, <2>2, DisconnectKeeps
  <2>4. net' \subseteq Datagrams
    BY <1>1, <1>2, <1>6, CloseRequestIs DEF CloseRequestSent, Transmit, Datagrams
  <2>5. QED
    BY <2>1, <2>3, <2>4 DEF LocalNext
<1>7. CASE ~Fails(d)
  <2> DEFINE u == [r EXCEPT !.m_session = d.session]
  <2>1. PICK t \in HandleDatagramRead(c, q, d) : Becomes(c, t)
    BY <1>2, <1>7
  <2>2. d \in DownData
    BY <1>1, <1>7, OutcomeIs DEF Fails
  <2>3. Local(c, t)
    BY <1>1, <1>4, <1>5, <2>2, DatagramReadKeeps
  <2>4. d.session \in Int
    BY <2>2 DEF DownData
  <2>5. u \in ClientRecords
    BY <1>1, <2>4 DEF ClientRecords
  <2>6. net' = net \cup CloseRequest(c, u) \/ net' = net
    BY <1>2, <1>7 DEF Transmit
  <2> HIDE DEF u
  <2>7. net' \subseteq Datagrams
    BY <1>1, <2>5, <2>6, CloseRequestIs DEF CloseRequestSent, Datagrams
  <2>8. QED
    BY <2>1, <2>3, <2>7 DEF LocalNext
<1>8. QED
  BY <1>6, <1>7

LEMMA SendPocketKeeps ==
    ASSUME NEW c \in Clients, LocalOf(c), ClientSendPocket(c)
    PROVE  LocalNext(c)
<1> DEFINE r == client[c]
           kcp == [r.m_kcp EXCEPT !.queued = r.m_kcp.queued + 1]
           t == [r EXCEPT !.m_kcp = kcp]
<1>1. /\ net \subseteq Datagrams /\ Local(c, r) /\ Sound(c, r)
      /\ r \in ClientRecords /\ net' = net
  BY DEF LocalOf, Local, Sound, ClientSendPocket
<1>2. r.m_kcp \in Kcps /\ r.m_kcp.queued \in Nat
  BY <1>1 DEF ClientRecords, Kcps
<1>3. kcp \in Kcps /\ kcp.rcv = r.m_kcp.rcv
  <2>1. r.m_kcp.queued + 1 \in Nat
    BY <1>2
  <2>2. QED
    BY <1>2, <2>1 DEF Kcps
<1>4. Becomes(c, t)
  BY DEF ClientSendPocket
<1> HIDE DEF kcp
<1>5. t \in ClientRecords
  BY <1>1, <1>3 DEF ClientRecords
<1>6. /\ t.reads = r.reads /\ t.socket = r.socket /\ t.open = r.open
      /\ t.m_kcp = kcp /\ t.pump = r.pump
      /\ t.reports = r.reports
      /\ t.m_is_connecting = r.m_is_connecting
      /\ t.m_is_connected = r.m_is_connected /\ t.crashed = r.crashed
      /\ t.m_kcp_timer = r.m_kcp_timer /\ t.m_session = r.m_session
      /\ t.late = r.late /\ t.m_kcp_data_size = r.m_kcp_data_size
  BY <1>1 DEF ClientRecords
<1> HIDE DEF t
<1>7. Sound(c, t)
  BY <1>1, <1>3, <1>5, <1>6, SameSound
<1>8. Local(c, t)
  BY <1>1, <1>3, <1>6, <1>7 DEF Local, Aligned, Served, InSession
<1>9. QED
  BY <1>1, <1>4, <1>8 DEF LocalNext

(* A client with another pump.                                             *)
LEMMA PumpKeeps ==
    ASSUME NEW c \in Clients, NEW r, Local(c, r), NEW q \in PumpsOf(UpData),
           PumpLocal(c, q), NEW t, t = [r EXCEPT !.pump = q]
    PROVE  Local(c, t)
<1>1. Sound(c, r) /\ r \in ClientRecords
  BY DEF Local, Sound
<1>2. t \in ClientRecords
  BY <1>1 DEF ClientRecords
<1>3. /\ t.reads = r.reads /\ t.socket = r.socket /\ t.open = r.open
      /\ t.m_kcp = r.m_kcp /\ t.pump = q
      /\ t.reports = r.reports
      /\ t.m_is_connecting = r.m_is_connecting
      /\ t.m_is_connected = r.m_is_connected /\ t.crashed = r.crashed
      /\ t.m_kcp_timer = r.m_kcp_timer /\ t.m_session = r.m_session
      /\ t.late = r.late /\ t.m_kcp_data_size = r.m_kcp_data_size
  BY <1>1 DEF ClientRecords
<1>4. ReadsLocal(c, t)
  BY <1>1, <1>3 DEF Sound, ReadsLocal
<1>5. IsFiniteSet(t.m_kcp.rcv)
  BY <1>1, <1>3 DEF Sound
<1>6. Sound(c, t)
  BY <1>2, <1>3, <1>4, <1>5 DEF Sound
<1>7. QED
  BY <1>3, <1>6 DEF Local, Aligned, Served, InSession

LEMMA UpdateKeeps ==
    ASSUME NEW c \in Clients, LocalOf(c), ClientUpdateKcp(c)
    PROVE  LocalNext(c)
<1> DEFINE r == client[c]
           n == r.m_kcp.queued - r.m_kcp.output
           kcp == [r.m_kcp EXCEPT !.output = r.m_kcp.queued]
           segments == [i \in 1 .. n |->
                          Datagram(Endpoint(c, r.socket), Server, r.m_session,
                                   r.m_kcp.conv, r.m_kcp.output + i)]
           q == SendAll(r.pump, segments, TRUE)
           u == [r EXCEPT !.m_kcp = kcp]
           t == [u EXCEPT !.pump = q]
<1>1. /\ net \subseteq Datagrams /\ Local(c, r) /\ Sound(c, r)
      /\ r \in ClientRecords /\ net' = net /\ r.m_kcp.output < r.m_kcp.queued
  BY DEF LocalOf, Local, Sound, ClientUpdateKcp
<1>2. /\ r.m_kcp \in Kcps /\ r.m_kcp.queued \in Nat /\ r.m_kcp.output \in Nat
      /\ r.m_kcp.conv \in Nat /\ r.socket \in Nat /\ r.m_session \in Int
      /\ r.pump \in PumpsOf(UpData) /\ PumpLocal(c, r.pump)
  BY <1>1 DEF Sound, ClientRecords, Kcps
<1>3. kcp \in Kcps /\ kcp.rcv = r.m_kcp.rcv
  BY <1>2 DEF Kcps
<1>4. n \in Nat
  BY <1>1, <1>2
<1>5. Becomes(c, t)
  <2>1. Becomes(c, [r EXCEPT !.m_kcp.output = r.m_kcp.queued,
                             !.pump = SendAll(@, segments, TRUE)])
    BY DEF ClientUpdateKcp
  <2>2. [r EXCEPT !.m_kcp.output = r.m_kcp.queued,
                  !.pump = SendAll(@, segments, TRUE)] = t
    BY <1>1 DEF ClientRecords
  <2>3. QED
    BY <2>1, <2>2
<1>6. \A i \in 1 .. n : /\ segments[i] \in UpData
                        /\ segments[i].from[1] = c /\ segments[i].seg # 0
  <2> SUFFICES ASSUME NEW i \in 1 .. n
               PROVE  /\ segments[i] \in UpData
                      /\ segments[i].from[1] = c /\ segments[i].seg # 0
    OBVIOUS
  <2> DEFINE e == Endpoint(c, r.socket)
             k == r.m_kcp.output + i
  <2>1. e \in Endpoints /\ e[1] = c
    BY <1>2 DEF Endpoint, Endpoints
  <2>2. k \in Nat /\ k # 0
    BY <1>2, <1>4
  <2>3. segments[i] = Datagram(e, Server, r.m_session, r.m_kcp.conv, k)
    OBVIOUS
  <2> HIDE DEF e, k, segments
  <2>4. QED
    BY <1>2, <2>1, <2>2, <2>3 DEF Datagram, UpData
<1>7. DOMAIN segments = 1 .. n /\ segments = [i \in 1 .. n |-> segments[i]]
  OBVIOUS
<1> HIDE DEF segments, kcp
<1>8. segments \in [1 .. n -> UpData]
  BY <1>6, <1>7
<1> HIDE DEF n
<1>9. segments \in Seq(UpData)
  BY <1>4, <1>8, FunctionIsSeq
<1>10. /\ q \in PumpsOf(UpData)
       /\ \A d : InPump(d, q) =>
             InPump(d, r.pump) \/ \E i \in DOMAIN segments : segments[i] = d
  <2>1. ASSUME NEW socket \in BOOLEAN
        PROVE  LET w == SendAll(r.pump, segments, socket)
               IN  /\ w \in PumpsOf(UpData)
                   /\ \A d : InPump(d, w) =>
                         InPump(d, r.pump) \/ \E i \in DOMAIN segments : segments[i] = d
    BY <1>2, <1>9, SendAllIs
  <2>2. QED
    BY <2>1
<1> HIDE DEF q
<1>11. PumpLocal(c, q)
  BY <1>2, <1>6, <1>7, <1>10 DEF PumpLocal
<1>12. u \in ClientRecords
  BY <1>1, <1>3 DEF ClientRecords
<1>13. /\ u.reads = r.reads /\ u.socket = r.socket /\ u.open = r.open
       /\ u.m_kcp = kcp /\ u.pump = r.pump
       /\ u.reports = r.reports
       /\ u.m_is_connecting = r.m_is_connecting
       /\ u.m_is_connected = r.m_is_connected /\ u.crashed = r.crashed
       /\ u.m_kcp_timer = r.m_kcp_timer /\ u.m_session = r.m_session
       /\ u.late = r.late /\ u.m_kcp_data_size = r.m_kcp_data_size
  BY <1>1 DEF ClientRecords
<1> HIDE DEF u
<1>14. Sound(c, u)
  BY <1>1, <1>3, <1>12, <1>13, SameSound
<1>15. Local(c, u)
  BY <1>1, <1>3, <1>13, <1>14 DEF Local, Aligned, Served, InSession
<1>16. Local(c, t)
  BY <1>10, <1>11, <1>15, PumpKeeps
<1>17. QED
  BY <1>1, <1>5, <1>16 DEF LocalNext

LEMMA HandleSendKeeps ==
    ASSUME NEW c \in Clients, LocalOf(c), ClientHandleSend(c)
    PROVE  LocalNext(c)
<1> DEFINE r == client[c]
           p == Completed(r.pump)
           t == [r EXCEPT !.pump = p]
           q == NextSend(p, TRUE)
<1>1. /\ net \subseteq Datagrams /\ Local(c, r) /\ Sound(c, r)
      /\ r \in ClientRecords /\ ~r.crashed /\ r.pump \in PumpsOf(UpData)
      /\ PumpLocal(c, r.pump)
  BY DEF LocalOf, Local, Sound, ClientHandleSend, ClientRecords
<1>2. PICK result \in Results(r.pump) :
         IF result = "sent"
           THEN /\ Becomes(c, [t EXCEPT !.pump = NextSend(@, TRUE)])
                /\ Transmit({Head(r.pump.sends).packet})
           ELSE /\ \E u \in ExecuteDisconnectCallback(c, t) : Becomes(c, u)
                /\ Transmit(CloseRequest(c, r))
  <2>1. [r EXCEPT !.pump = Completed(@)] = t
    OBVIOUS
  <2>2. QED
    BY <2>1 DEF ClientHandleSend
<1>3. r.pump.sends # <<>>
  BY DEF Results
<1>4. /\ p \in PumpsOf(UpData)
      /\ \A d : InPump(d, p) => InPump(d, r.pump)
      /\ InPump(Head(r.pump.sends).packet, r.pump)
  BY <1>1, <1>3, CompletedIs
<1> HIDE DEF p
<1>5. PumpLocal(c, p)
  BY <1>1, <1>4 DEF PumpLocal
<1>6. Local(c, t)
  BY <1>1, <1>4, <1>5, PumpKeeps
<1>7. t \in ClientRecords /\ t.pump = p /\ ~t.crashed
  BY <1>1, <1>6 DEF Local, Sound, ClientRecords
<1>8. CASE result = "sent"
  <2> HIDE DEF t
  <2>1. Becomes(c, [t EXCEPT !.pump = q])
    BY <1>2, <1>7, <1>8
  <2>2. q \in PumpsOf(UpData) /\ \A d : InPump(d, q) => InPump(d, p)
    BY <1>4, NextSendIs
  <2> HIDE DEF q
  <2>3. PumpLocal(c, q)
    BY <1>5, <2>2 DEF PumpLocal
  <2>4. Local(c, [t EXCEPT !.pump = q])
    BY <1>6, <2>2, <2>3, PumpKeeps
  <2>5. Head(r.pump.sends).packet \in UpData
    BY <1>1, <1>4, PumpFields
  <2>6. net' \subseteq Datagrams
    BY <1>1, <1>2, <1>8, <2>5 DEF Transmit, Datagrams
  <2>7. QED
    BY <2>1, <2>4, <2>6 DEF LocalNext
<1>9. CASE result # "sent"
  <2>1. PICK u \in ExecuteDisconnectCallback(c, t) : Becomes(c, u)
    BY <1>2, <1>9
  <2> HIDE DEF t
  <2>2. Sound(c, t) /\ Aligned(t) /\ HasTimer(t)
    BY <1>6 DEF Local, InSession, HasTimer
  <2>3. Local(c, u)
    BY <1>1, <1>7, <2>2, DisconnectKeeps
  <2>4. net' \subseteq Datagrams
    BY <1>1, <1>2, <1>9, CloseRequestIs DEF CloseRequestSent, Transmit, Datagrams
  <2>5. QED
    BY <2>1, <2>3, <2>4 DEF LocalNext
<1>10. QED
  BY <1>8, <1>9

-----------------------------------------------------------------------------
(* The server's pump and receivers.                                        *)

Receivers == [m_endpoint : Endpoints, m_session : Nat, queued : Nat,
              output : Nat, rcv : SUBSET (Int \X Nat)]

ReceiversTyped == \A conv \in DOMAIN m_outer_map : m_outer_map[conv] \in Receivers

(* Without a socket the pump does not execute, and while it executes a     *)
(* send is under way, unless one has failed.                               *)
PumpServed ==
    /\ pump \in PumpsOf(DownData)
    /\ pump.m_executing /\ ~send_failed => PendingSend(pump)
    /\ ~HasSocket => ~pump.m_executing

(* The convs in use are finitely many numbers.                             *)
LEMMA ConvsAreNumbers ==
    ASSUME ConvInv
    PROVE  DOMAIN m_outer_map \subseteq Nat /\ IsFiniteSet(DOMAIN m_outer_map)
<1> DEFINE n == m_conv_creator.m_max_id
<1>1. n \in Nat /\ DOMAIN m_outer_map \subseteq 1 .. n
  BY DEF ConvInv, ConvsAccountedFor, Accounts, AnyCreator
<1>2. IsFiniteSet(1 .. n)
  BY <1>1, FS_Interval
<1>3. IsFiniteSet(DOMAIN m_outer_map)
  BY <1>1, <1>2, FS_Subset
<1>4. QED
  BY <1>1, <1>3

LEMMA CreatedIsNumber == ASSUME NEW k \in AnyCreator PROVE CreatedID(k) \in Nat
<1>1. k.m_id_list \in Seq(Nat) /\ k.m_max_id \in Nat
  BY DEF AnyCreator
<1>2. k.m_id_list # <<>> => Head(k.m_id_list) \in Nat
  BY <1>1, HeadTailIn
<1>3. QED
  BY <1>1, <1>2 DEF CreatedID

(* What is sent to a client is a datagram to it.                           *)
LEMMA DownDatagramIs ==
    ASSUME NEW e \in Endpoints, NEW session \in Int, NEW conv \in Nat,
           NEW seg \in Nat
    PROVE  Datagram(Server, e, session, conv, seg) \in DownData
  BY DEF Datagram, DownData

LEMMA CloseDatagramIs ==
    ASSUME ConvInv, ReceiversTyped, NEW conv \in DOMAIN m_outer_map
    PROVE  CloseDatagram(conv) \in DownData
<1> DEFINE r == m_outer_map[conv]
<1>1. r.m_endpoint \in Endpoints /\ r.m_session \in Nat
  BY DEF ReceiversTyped, Receivers
<1>2. -r.m_session \in Int /\ conv \in Nat /\ 0 \in Nat
  BY <1>1, ConvsAreNumbers
<1>3. QED
  BY <1>1, <1>2, DownDatagramIs DEF CloseDatagram

LEMMA SendPocketServes ==
    ASSUME PumpServed, NEW packet \in DownData,
           pump' = SendPocket(pump, packet, HasSocket),
           UNCHANGED <<m_socket, send_failed>>
    PROVE  PumpServed'
<1> DEFINE q == SendPocket(pump, packet, HasSocket)
<1>1. HasSocket \in BOOLEAN /\ HasSocket' = HasSocket
  BY DEF HasSocket
<1>2. /\ q \in PumpsOf(DownData)
      /\ q.m_executing => pump.m_executing \/ HasSocket
      /\ q.m_executing => PendingSend(q) \/ (pump.m_executing /\ q.sends = pump.sends)
  BY <1>1, SendPocketIs DEF PumpServed
<1> HIDE DEF q
<1>3. pump' = q
  BY DEF q
<1>4. QED
  BY <1>1, <1>2, <1>3 DEF PumpServed, PendingSend

(* A receiver whose counts alone have changed.                             *)
LEMMA CountedReceiver ==
    ASSUME NEW r \in Receivers, NEW n \in Nat
    PROVE  /\ [r EXCEPT !.queued = n] \in Receivers
           /\ [r EXCEPT !.output = n] \in Receivers
  BY DEF Receivers

(* What is true of the server.                                             *)
ServerSound ==
    /\ PumpServed
    /\ ReceiversTyped
    /\ granted \in Nat /\ reads \in Nat
    /\ late_reads \in Seq(UpData \cup {Aborted})

LEMMA RequestServed ==
    ASSUME ConvInv, PumpServed, ReceiversTyped, granted \in Nat,
           NEW d \in UpData, HandleConnectRequest(d),
           UNCHANGED <<m_socket, send_failed>>
    PROVE  PumpServed' /\ ReceiversTyped' /\ granted' \in Nat
<1>1. d.from \in Endpoints
  BY DEF UpData
<1>2. CASE IsEmpty(m_conv_creator, limit.convs)
  <2> DEFINE packet == Datagram(Server, d.from, 0, 0, 0)
  <2>1. /\ pump' = SendPocket(pump, packet, HasSocket)
        /\ m_outer_map' = m_outer_map /\ granted' = granted
    BY <1>2 DEF HandleConnectRequest
  <2>2. packet \in DownData
    BY <1>1, DownDatagramIs
  <2> HIDE DEF packet
  <2>3. PumpServed'
    BY <2>1, <2>2, SendPocketServes
  <2>4. QED
    BY <2>1, <2>3 DEF ReceiversTyped
<1>3. CASE ~IsEmpty(m_conv_creator, limit.convs)
  <2> DEFINE conv == CreatedID(m_conv_creator)
  <2>1. PICK session \in {0, granted + 1} :
           /\ granted' = granted + 1
           /\ pump' = SendPocket(pump, Datagram(Server, d.from, session, conv, 0),
                                 HasSocket)
           /\ HandleOuterConnect(d.from, session, conv)
    BY <1>3 DEF HandleConnectRequest
  <2>2. conv \in Nat /\ session \in Nat
    BY <2>1, CreatedIsNumber DEF ConvInv
  <2> HIDE DEF conv
  <2> DEFINE packet == Datagram(Server, d.from, session, conv, 0)
             r == [m_endpoint |-> d.from, m_session |-> session,
                   queued |-> 0, output |-> 0, rcv |-> {}]
  <2>3. packet \in DownData
    BY <1>1, <2>2, DownDatagramIs
  <2>4. PumpServed'
    <3>1. pump' = SendPocket(pump, packet, HasSocket)
      BY <2>1
    <3> HIDE DEF packet
    <3>2. QED
      BY <2>3, <3>1, SendPocketServes
  <2>5. r \in Receivers
    BY <1>1, <2>2 DEF Receivers
  <2>6. m_outer_map' = [v \in DOMAIN m_outer_map \cup {conv} |->
                          IF v = conv THEN r ELSE m_outer_map[v]]
    BY <2>1 DEF HandleOuterConnect
  <2> HIDE DEF r
  <2>7. ReceiversTyped'
    BY <2>5, <2>6 DEF ReceiversTyped
  <2>8. QED
    BY <2>1, <2>4, <2>7
<1>4. QED
  BY <1>2, <1>3

LEMMA WithoutConvTyped ==
    ASSUME ReceiversTyped, NEW conv, m_outer_map' = WithoutConv(conv)
    PROVE  ReceiversTyped'
  BY DEF ReceiversTyped, WithoutConv

LEMMA DatagramServed ==
    ASSUME ConvInv, PumpServed, ReceiversTyped, granted \in Nat,
           NEW d \in UpData, HandleDatagram(d),
           UNCHANGED <<m_socket, send_failed>>
    PROVE  PumpServed' /\ ReceiversTyped' /\ granted' \in Nat
<1>1. CASE HandleConnectRequest(d)
  BY <1>1, RequestServed
<1>2. CASE HandleCloseRequest(d)
  <2>1. CASE CheckSession(d.conv, -d.session)
    <3>1. /\ d.conv \in DOMAIN m_outer_map
          /\ pump' = SendPocket(pump, CloseDatagram(d.conv), HasSocket)
          /\ m_outer_map' = WithoutConv(d.conv) /\ granted' = granted
      BY <1>2, <2>1 DEF HandleCloseRequest, HandleOuterDisconnected, CheckSession
    <3>2. CloseDatagram(d.conv) \in DownData
      BY <3>1, CloseDatagramIs
    <3>3. QED
      BY <3>1, <3>2, SendPocketServes, WithoutConvTyped
  <2>2. CASE ~CheckSession(d.conv, -d.session)
    BY <1>2, <2>2 DEF HandleCloseRequest, PumpServed, ReceiversTyped, HasSocket
  <2>3. QED
    BY <2>1, <2>2
<1>3. CASE HandleData(d)
  <2>1. PumpServed' /\ granted' \in Nat
    BY <1>3 DEF HandleData, PumpServed, HasSocket
  <2>2. CASE CheckSession(d.conv, d.session)
    <3> DEFINE r == m_outer_map[d.conv]
               more == IF d.seg = 0 THEN r.rcv
                       ELSE r.rcv \cup {<<d.session, d.seg>>}
               t == [r EXCEPT !.m_endpoint = d.from, !.rcv = more]
    <3>1. /\ d.conv \in DOMAIN m_outer_map /\ r \in Receivers
          /\ d.from \in Endpoints /\ d.session \in Int /\ d.seg \in Nat
      BY <2>2 DEF CheckSession, ReceiversTyped, UpData
    <3>2. /\ DOMAIN m_outer_map' = DOMAIN m_outer_map
          /\ \A v \in DOMAIN m_outer_map \ {d.conv} :
                m_outer_map'[v] = m_outer_map[v]
          /\ m_outer_map'[d.conv] = t
      BY <1>3, <2>2, <3>1 DEF HandleData
    <3>3. more \in SUBSET (Int \X Nat)
      BY <3>1 DEF Receivers
    <3> HIDE DEF more
    <3>4. t \in Receivers
      BY <3>1, <3>3 DEF Receivers
    <3> HIDE DEF t
    <3>5. ReceiversTyped'
      BY <3>2, <3>4 DEF ReceiversTyped
    <3>6. QED
      BY <2>1, <3>5
  <2>3. CASE ~CheckSession(d.conv, d.session)
    BY <1>3, <2>1, <2>3 DEF HandleData, ReceiversTyped
  <2>4. QED
    BY <2>2, <2>3
<1>4. QED
  BY <1>1, <1>2, <1>3 DEF HandleDatagram

(* The segments a receiver has not yet sent are finitely many.             *)
LEMMA UnsentIs ==
    ASSUME ConvInv, ReceiversTyped, NEW conv \in DOMAIN m_outer_map
    PROVE  Unsent(conv) \subseteq DownData /\ IsFiniteSet(Unsent(conv))
<1> DEFINE r == m_outer_map[conv]
           S == (r.output + 1) .. r.queued
           f == [seg \in S |-> Datagram(Server, r.m_endpoint, r.m_session, conv, seg)]
<1>1. /\ r.m_endpoint \in Endpoints /\ r.m_session \in Nat
      /\ r.output \in Nat /\ r.queued \in Nat /\ conv \in Nat
  BY ConvsAreNumbers DEF ReceiversTyped, Receivers
<1>2. r.m_session \in Int /\ \A seg \in S : seg \in Nat
  BY <1>1
<1>3. Unsent(conv) \subseteq DownData
  BY <1>1, <1>2, DownDatagramIs DEF Unsent
<1>4. r.output + 1 \in Int /\ r.queued \in Int
  BY <1>1
<1>5. IsFiniteSet(S)
  BY <1>4, FS_Interval
<1>6. Unsent(conv) = {f[seg] : seg \in S}
  BY DEF Unsent
<1>7. f \in [S -> Unsent(conv)] /\ \A t \in Unsent(conv) : \E s \in S : f[s] = t
  BY DEF Unsent
<1> HIDE DEF f, S
<1>8. f \in Surjection(S, Unsent(conv))
  BY <1>7 DEF Surjection
<1>9. IsFiniteSet(Unsent(conv))
  BY <1>5, <1>8, FS_Surjection
<1>10. QED
  BY <1>3, <1>9

LEMMA AllUnsentIs ==
    ASSUME ConvInv, ReceiversTyped
    PROVE  LET S == UNION {Unsent(conv) : conv \in DOMAIN m_outer_map}
           IN  S \subseteq DownData /\ Cardinality(S) \in Nat
<1> DEFINE D == DOMAIN m_outer_map
           T == {Unsent(conv) : conv \in D}
           f == [conv \in D |-> Unsent(conv)]
<1>1. IsFiniteSet(D)
  BY ConvsAreNumbers
<1>2. f \in Surjection(D, T)
  BY DEF Surjection
<1>3. \A t \in T : t \subseteq DownData /\ IsFiniteSet(t)
  BY UnsentIs
<1> HIDE DEF f, T
<1>4. IsFiniteSet(T)
  BY <1>1, <1>2, FS_Surjection
<1>5. IsFiniteSet(UNION T)
  BY <1>3, <1>4, FS_UNION
<1>6. Cardinality(UNION T) \in Nat /\ UNION T \subseteq DownData
  BY <1>3, <1>5, FS_CardinalityType
<1>7. QED
  BY <1>6 DEF T


LEMMA LateResultsIs ==
    ASSUME net \subseteq Datagrams
    PROVE  LateResults \subseteq UpData \cup {Aborted} /\ Arriving(Server) \subseteq UpData
<1>1. \A d \in Arriving(Server) : d \in net /\ d \notin DownData
  BY NamesAssumption DEF Arriving, DownData
<1>2. QED
  BY <1>1 DEF Datagrams, LateResults

LEMMA CloseEndServes ==
    ASSUME net \subseteq Datagrams, ServerSound, CloseEnd
    PROVE  ServerSound'
<1>1. PICK results \in [1 .. reads -> LateResults] : late_reads' = late_reads \o results
  BY DEF CloseEnd
<1>2. LateResults \subseteq UpData \cup {Aborted} /\ reads \in Nat
  BY LateResultsIs DEF ServerSound
<1>3. results \in [1 .. reads -> UpData \cup {Aborted}]
  BY <1>2
<1>4. results \in Seq(UpData \cup {Aborted})
  BY <1>2, <1>3, FunctionIsSeq
<1>5. late_reads' \in Seq(UpData \cup {Aborted})
  BY <1>1, <1>4, ConcatElements DEF ServerSound
<1>6. pump' \in PumpsOf(DownData) /\ ~pump'.m_executing
  BY SettledIs DEF CloseEnd, ServerSound, PumpServed
<1>7. QED
  BY <1>5, <1>6 DEF CloseEnd, ServerSound, PumpServed, ReceiversTyped

LEMMA HandleSendServes ==
    ASSUME net \subseteq Datagrams, ServerSound, ServerHandleSend
    PROVE  PumpServed' /\ net' \subseteq Datagrams
<1> DEFINE p == Completed(pump)
           q == NextSend(p, HasSocket)
<1>1. PICK result \in Results(pump) :
         IF result = "sent"
           THEN /\ Transmit({Head(pump.sends).packet})
                /\ pump' = SendAgain(p)
                /\ UNCHANGED send_failed
           ELSE /\ pump' = p
                /\ send_failed' = (send_failed \/ result = "failed")
                /\ UNCHANGED net
  BY DEF ServerHandleSend
<1>2. pump.sends # <<>> /\ PumpServed /\ pump \in PumpsOf(DownData)
  BY <1>1 DEF Results, ServerSound, PumpServed
<1>3. /\ p \in PumpsOf(DownData) /\ p.m_executing = pump.m_executing
      /\ Head(pump.sends) \in SendsOf(DownData)
      /\ PendingSend(pump) /\ Head(pump.sends).result # "pending" => PendingSend(p)
  BY <1>2, CompletedIs
<1>4. HasSocket \in BOOLEAN /\ HasSocket' = HasSocket
  BY DEF HasSocket, ServerHandleSend
<1> HIDE DEF p
<1>5. CASE result = "sent"
  <2>1. q \in PumpsOf(DownData) /\ (q.m_executing => HasSocket /\ PendingSend(q))
    BY <1>3, <1>4, NextSendIs
  <2>2. pump' = q
    BY <1>1, <1>5 DEF SendAgain
  <2> HIDE DEF q
  <2>3. Head(pump.sends).packet \in DownData
    BY <1>3 DEF SendsOf
  <2>4. net' \subseteq Datagrams
    BY <1>1, <1>5, <2>3 DEF Transmit, Datagrams
  <2>5. QED
    BY <1>4, <2>1, <2>2, <2>4 DEF PumpServed
<1>6. CASE result # "sent"
  <2>1. ~send_failed' => result # "failed" /\ ~send_failed
    BY <1>1, <1>6
  <2>2. ~send_failed' => Head(pump.sends).result # "pending"
    BY <1>6, <2>1, <1>1 DEF Results, SendQueued
  <2>3. QED
    BY <1>1, <1>2, <1>3, <1>4, <1>6, <2>1, <2>2 DEF PumpServed
<1>7. QED
  BY <1>5, <1>6

LEMMA CloseReceiverServes ==
    ASSUME ConvInv, net \subseteq Datagrams, ServerSound,
           NEW conv \in DOMAIN m_outer_map, CloseReceiver(conv)
    PROVE  ServerSound' /\ net' \subseteq Datagrams
<1>1. /\ ReceiversTyped' /\ granted' \in Nat /\ reads' \in Nat
      /\ late_reads' \in Seq(UpData \cup {Aborted})
  BY WithoutConvTyped DEF CloseReceiver, ServerSound
<1>2. CloseDatagram(conv) \in DownData
  BY CloseDatagramIs DEF ServerSound
<1>3. CASE closing = "exit"
  BY <1>1, <1>2, <1>3 DEF CloseReceiver, ServerSound, PumpServed, HasSocket,
                          Transmit, Datagrams
<1>4. CASE closing # "exit"
  <2>1. /\ pump' = SendPocket(pump, CloseDatagram(conv), HasSocket)
        /\ UNCHANGED <<m_socket, send_failed>> /\ net' = net
    BY <1>4 DEF CloseReceiver
  <2>2. PumpServed'
    BY <1>2, <2>1, SendPocketServes DEF ServerSound
  <2>3. QED
    BY <1>1, <2>1, <2>2 DEF ServerSound
<1>5. QED
  BY <1>3, <1>4

LEMMA ReadServes ==
    ASSUME ConvInv, net \subseteq Datagrams, ServerSound,
           ServerHandleRead \/ HandleLateRead
    PROVE  ServerSound' /\ net' \subseteq Datagrams
<1>1. UNCHANGED <<m_socket, send_failed>> /\ net' = net
  BY DEF ServerHandleRead, HandleLateRead
<1>2. CASE ServerHandleRead
  <2>1. PICK d \in Arriving(Server) : HandleDatagram(d)
    BY <1>2 DEF ServerHandleRead
  <2>2. d \in UpData
    BY <2>1, LateResultsIs
  <2>3. PumpServed' /\ ReceiversTyped' /\ granted' \in Nat
    BY <1>1, <2>1, <2>2, DatagramServed DEF ServerSound
  <2>4. reads' \in Nat
    <3>1. reads \in Nat /\ reads > 0 /\ reads' = NextRead(reads - 1)
      BY <1>2 DEF ServerHandleRead, ServerSound
    <3>2. QED
      BY <3>1 DEF NextRead
  <2>5. late_reads' = late_reads
    BY <1>2 DEF ServerHandleRead
  <2>6. QED
    BY <1>1, <2>3, <2>4, <2>5 DEF ServerSound
<1>3. CASE HandleLateRead
  <2> DEFINE result == Head(late_reads)
  <2>1. /\ result \in UpData \cup {Aborted}
        /\ late_reads' \in Seq(UpData \cup {Aborted})
    BY <1>3, HeadTailIn DEF HandleLateRead, ServerSound
  <2>2. reads' \in Nat
    <3>1. reads \in Nat /\ reads' = NextRead(reads)
      BY <1>3 DEF HandleLateRead, ServerSound
    <3>2. QED
      BY <3>1 DEF NextRead
  <2>3. CASE result = Aborted
    BY <1>1, <1>3, <2>1, <2>2, <2>3 DEF HandleLateRead, ServerSound, PumpServed,
                                        ReceiversTyped, HasSocket
  <2>4. CASE result # Aborted
    <3>1. HandleDatagram(result)
      BY <1>3, <2>4 DEF HandleLateRead
    <3>2. result \in UpData
      BY <2>1, <2>4
    <3> HIDE DEF result
    <3>3. PumpServed' /\ ReceiversTyped' /\ granted' \in Nat
      BY <1>1, <3>1, <3>2, DatagramServed DEF ServerSound
    <3>4. QED
      BY <1>1, <2>1, <2>2, <3>3 DEF ServerSound
  <2>5. QED
    BY <2>3, <2>4
<1>4. QED
  BY <1>2, <1>3

LEMMA HeartbeatServes ==
    ASSUME ServerSound, ServerSendHeartbeat
    PROVE  ReceiversTyped'
<1> SUFFICES ASSUME NEW conv \in DOMAIN m_outer_map
             PROVE  m_outer_map'[conv] \in Receivers
  BY DEF ReceiversTyped, ServerSendHeartbeat
<1> DEFINE r == m_outer_map[conv]
           n == IF r.queued < limit.down THEN r.queued + 1 ELSE r.queued
<1>1. r \in Receivers /\ r.queued \in Nat
  BY DEF ServerSound, ReceiversTyped, Receivers
<1>2. m_outer_map'[conv] = [r EXCEPT !.queued = n]
  BY DEF ServerSendHeartbeat
<1>3. n \in Nat
  BY <1>1
<1> HIDE DEF n, r
<1>4. QED
  BY <1>1, <1>2, <1>3, CountedReceiver

LEMMA UpdateServes ==
    ASSUME ConvInv, ServerSound, ServerUpdateKcp
    PROVE  PumpServed' /\ ReceiversTyped'
<1> DEFINE S == UNION {Unsent(conv) : conv \in DOMAIN m_outer_map}
           n == Cardinality(S)
<1>1. S \subseteq DownData /\ n \in Nat
  BY AllUnsentIs DEF ServerSound
<1>2. PICK order \in SetToSeqs(S) : pump' = SendAll(pump, order, HasSocket)
  BY DEF ServerUpdateKcp
<1>3. HasSocket \in BOOLEAN /\ HasSocket' = HasSocket /\ send_failed' = send_failed
  BY DEF HasSocket, ServerUpdateKcp
<1> HIDE DEF S
<1>4. order \in [1 .. n -> DownData]
  BY <1>1, <1>2 DEF SetToSeqs
<1> HIDE DEF n
<1>5. order \in Seq(DownData)
  BY <1>1, <1>4, FunctionIsSeq
<1> DEFINE q == SendAll(pump, order, HasSocket)
<1>6. /\ q \in PumpsOf(DownData)
      /\ q.m_executing => pump.m_executing \/ HasSocket
      /\ q.m_executing => PendingSend(q) \/ (pump.m_executing /\ q.sends = pump.sends)
  BY <1>3, <1>5, SendAllIs DEF ServerSound, PumpServed
<1>7. pump' = q
  BY <1>2
<1> HIDE DEF q
<1>8. PumpServed'
  BY <1>3, <1>6, <1>7 DEF ServerSound, PumpServed, PendingSend
<1>9. ReceiversTyped'
  <2> SUFFICES ASSUME NEW conv \in DOMAIN m_outer_map
               PROVE  m_outer_map'[conv] \in Receivers
    BY DEF ReceiversTyped, ServerUpdateKcp
  <2> DEFINE r == m_outer_map[conv]
  <2>1. r \in Receivers /\ r.queued \in Nat
    BY DEF ServerSound, ReceiversTyped, Receivers
  <2>2. m_outer_map'[conv] = [r EXCEPT !.output = r.queued]
    BY DEF ServerUpdateKcp
  <2> HIDE DEF r
  <2>3. QED
    BY <2>1, <2>2, CountedReceiver
<1>10. QED
  BY <1>8, <1>9

LEMMA ServerServes ==
    ASSUME ConvInv, net \subseteq Datagrams, ServerSound, ServerNext
    PROVE  ServerSound' /\ net' \subseteq Datagrams
<1>1. CASE ServerStart
  BY <1>1 DEF ServerStart, ServerSound, PumpServed, ReceiversTyped, HasSocket
<1>2. CASE StartFails
  BY <1>2 DEF StartFails, ServerSound, PumpServed, ReceiversTyped, HasSocket
<1>3. CASE CloseBegin
  BY <1>3 DEF CloseBegin, ServerSound, PumpServed, ReceiversTyped, HasSocket
<1>4. CASE \E conv \in DOMAIN m_outer_map : CloseReceiver(conv)
  BY <1>4, CloseReceiverServes
<1>5. CASE CloseEnd
  <2>1. net' = net
    BY <1>5 DEF CloseEnd
  <2>2. QED
    BY <1>5, <2>1, CloseEndServes
<1>6. CASE ServerHandleRead \/ HandleLateRead
  BY <1>6, ReadServes
<1>7. CASE ServerHandleSend
  <2>1. PumpServed' /\ net' \subseteq Datagrams
    BY <1>7, HandleSendServes
  <2>2. UNCHANGED <<m_outer_map, granted, reads, late_reads>>
    BY <1>7 DEF ServerHandleSend
  <2>3. QED
    BY <2>1, <2>2 DEF ServerSound, ReceiversTyped
<1>8. CASE ServerSendHeartbeat
  <2>1. ReceiversTyped'
    BY <1>8, HeartbeatServes
  <2>2. UNCHANGED <<pump, m_socket, send_failed, granted, reads, late_reads, net>>
    BY <1>8 DEF ServerSendHeartbeat
  <2>3. QED
    BY <2>1, <2>2 DEF ServerSound, PumpServed, HasSocket
<1>9. CASE ServerUpdateKcp
  <2>1. PumpServed' /\ ReceiversTyped'
    BY <1>9, UpdateServes
  <2>2. UNCHANGED <<granted, reads, late_reads, net>>
    BY <1>9 DEF ServerUpdateKcp
  <2>3. QED
    BY <2>1, <2>2 DEF ServerSound
<1>10. QED
  BY <1>1, <1>2, <1>3, <1>4, <1>5, <1>6, <1>7, <1>8, <1>9 DEF ServerNext

-----------------------------------------------------------------------------
(* The server and its clients.                                             *)

IInv ==
    /\ ConvInv
    /\ ServerSound
    /\ net \subseteq Datagrams
    /\ client = [c \in Clients |-> client[c]]
    /\ \A c \in Clients : Local(c, client[c])

LEMMA IInvInit == Init => IInv
<1> SUFFICES ASSUME Init PROVE IInv
  OBVIOUS
<1>1. ServerSound
  <2>1. IdlePump \in PumpsOf(DownData) /\ ~IdlePump.m_executing
    BY IdlePumpIs
  <2>2. <<>> \in Seq(UpData \cup {Aborted})
    BY EmptySeq
  <2>3. QED
    BY <2>1, <2>2 DEF Init, ServerInit, Empty, ServerSound, PumpServed, ReceiversTyped
<1>2. ASSUME NEW c \in Clients
      PROVE  Local(c, client[c])
  <2> DEFINE r == client[c]
  <2>1. r = [m_is_connecting |-> FALSE, m_is_connected |-> FALSE, socket |-> 0,
             open |-> FALSE, m_session |-> 0, m_kcp |-> NoKcp,
             m_kcp_timer |-> FALSE, m_connect_timer |-> "none", expired |-> 0,
             posted |-> 0, m_kcp_data_size |-> 0, pump |-> IdlePump,
             reads |-> <<>>, connects |-> 0, reports |-> NoReports, told |-> FALSE,
             late |-> FALSE, crashed |-> FALSE]
    BY DEF Init, ClientInit
  <2>2. IdlePump \in PumpsOf(UpData) /\ \A d : ~InPump(d, IdlePump)
    BY IdlePumpIs
  <2>3. NoKcp \in Kcps /\ IsFiniteSet(NoKcp.rcv)
    BY NoKcpIs
  <2>4. <<>> \in Seq(ReadsOf) /\ DOMAIN <<>> = {}
    BY EmptySeq, EmptyIs
  <2>5. r \in ClientRecords
    <3>1. NoReports \in Reports
      BY DEF NoReports, Reports
    <3>2. QED
      BY <2>1, <2>2, <2>3, <2>4, <3>1 DEF ClientRecords
  <2>6. /\ ~r.m_is_connecting /\ ~r.m_is_connected /\ r.reads = <<>>
        /\ r.pump = IdlePump /\ r.m_kcp = NoKcp
    BY <2>1
  <2> HIDE DEF r
  <2>7. ReadsLocal(c, r) /\ PumpLocal(c, r.pump)
    BY <2>2, <2>4, <2>6 DEF ReadsLocal, PumpLocal
  <2>8. QED
    BY <2>3, <2>5, <2>6, <2>7 DEF Local, Sound, Aligned, Served, InSession, r
<1>3. ConvInv
  BY ConvInvInit
<1>4. QED
  BY <1>1, <1>2, <1>3 DEF Init, ClientInit, IInv

LEMMA ClientStepKeeps ==
    ASSUME NEW c \in Clients, LocalOf(c),
           \/ Connect(c) \/ ConnectNowhere(c) \/ HandlePosted(c)
           \/ ClientClose(c) \/ HandleConnectTimeout(c)
           \/ HandleReceiveConnect(c) \/ ClientHandleRead(c)
           \/ ClientSendPocket(c) \/ ClientUpdateKcp(c) \/ ClientHandleSend(c)
    PROVE  LocalNext(c)
  BY ConnectKeeps, ConnectNowhereKeeps, TimedKeeps, CloseKeeps,
     ReceiveConnectKeeps, HandleReadKeeps, SendPocketKeeps, UpdateKeeps,
     HandleSendKeeps

LEMMA IInvStep == IInv /\ [Next]_vars => IInv'
<1> SUFFICES ASSUME IInv, [Next]_vars PROVE IInv'
  OBVIOUS
<1>1. ConvInv'
  BY ConvInvStep DEF IInv
<1>2. CASE ServerNext /\ UNCHANGED <<client, limit>>
  <2>1. ServerSound' /\ net' \subseteq Datagrams
    BY <1>2, ServerServes DEF IInv
  <2>2. QED
    BY <1>1, <1>2, <2>1 DEF IInv
<1>3. CASE ClientNext /\ UNCHANGED <<serverVars, limit>>
  <2>1. PICK c \in Clients : LocalNext(c)
    <3>1. \A c \in Clients : LocalOf(c)
      BY DEF IInv, LocalOf
    <3>2. QED
      BY <1>3, <3>1, ClientStepKeeps DEF ClientNext
  <2>2. PICK t : Becomes(c, t) /\ Local(c, t)
    BY <2>1 DEF LocalNext
  <2>3. net' \subseteq Datagrams
    BY <2>1 DEF LocalNext
  <2>4. /\ client' = [b \in Clients |-> client'[b]]
        /\ \A b \in Clients : client'[b] = IF b = c THEN t ELSE client[b]
    BY <2>2 DEF IInv, Becomes
  <2>5. \A b \in Clients : Local(b, client'[b])
    BY <2>2, <2>4 DEF IInv
  <2>6. ServerSound'
    BY <1>3 DEF IInv, ServerSound, serverVars, PumpServed, ReceiversTyped, HasSocket
  <2>7. QED
    BY <1>1, <2>3, <2>4, <2>5, <2>6 DEF IInv
<1>4. CASE UNCHANGED vars
  <2>1. ServerSound'
    BY <1>4 DEF IInv, vars, ServerSound, serverVars, PumpServed, ReceiversTyped,
                HasSocket
  <2>2. net' = net /\ client' = client
    BY <1>4 DEF vars
  <2>3. QED
    BY <1>1, <2>1, <2>2 DEF IInv
<1>5. QED
  BY <1>2, <1>3, <1>4 DEF Next

LEMMA IInvAlways == Spec => []IInv
  BY IInvInit, IInvStep, PTL DEF Spec

-----------------------------------------------------------------------------
(* What the application is told.                                           *)

(* While the client connects in an orderly way nothing is left that would  *)
(* report a loss, and while it is connected one report is owed.            *)
Told(r) ==
    r.reports.orderly =>
        /\ ~r.reports.stray
        /\ r.m_is_connected /\ ~r.crashed => r.reports.owed
        /\ r.m_is_connecting /\ ~r.crashed => NothingLeft(r)

NotConnecting(r) == r.reports.orderly => ~r.m_is_connecting

ToldOf(c) == LocalOf(c) /\ Told(client[c]) /\ ~client[c].crashed

ToldNext(c) == \E t : Becomes(c, t) /\ Told(t)

LEMMA SameTold ==
    ASSUME NEW r, NEW t, Told(r), ~r.crashed, t.reports = r.reports,
           t.m_is_connecting = r.m_is_connecting,
           t.m_is_connected = r.m_is_connected,
           NotConnecting(r) \/ (NothingLeft(r) => NothingLeft(t))
    PROVE  Told(t)
  BY DEF Told, NotConnecting

LEMMA AsyncTold ==
    ASSUME NEW r \in ClientRecords, NEW succeed \in BOOLEAN,
           r.reports.orderly => ~r.reports.stray
    PROVE  Told(HandleAsyncConnect(r, succeed))
<1> DEFINE t == Answered(r, succeed)
<1>1. HandleAsyncConnect(r, succeed) = IF succeed THEN Read(t, "read") ELSE t
  BY DEF HandleAsyncConnect, Answered, StartReading
<1>2. /\ t \in ClientRecords /\ ~t.m_is_connecting /\ t.m_is_connected = succeed
      /\ succeed => t.reports = Promised(r.reports)
      /\ ~succeed => t.reports = r.reports
  BY AnsweredIs
<1>3. r.reports \in Reports
  BY DEF ClientRecords
<1>4. /\ Promised(r.reports).owed
      /\ Promised(r.reports).stray = r.reports.stray
      /\ Promised(r.reports).orderly = r.reports.orderly
  BY <1>3 DEF Promised, Reports
<1> HIDE DEF t
<1>5. Told(t)
  BY <1>2, <1>4 DEF Told
<1>6. Told(Read(t, "read"))
  <2> DEFINE u == Read(t, "read")
  <2>1. /\ u = WithReads(t, u.reads) /\ u \in ClientRecords
    BY <1>2, ReadIs
  <2> HIDE DEF u
  <2>2. /\ u.reports = t.reports /\ u.m_is_connecting = t.m_is_connecting
        /\ u.m_is_connected = t.m_is_connected /\ u.crashed = t.crashed
    BY <1>2, <2>1 DEF WithReads, ClientRecords
  <2>3. Told(u)
    BY <1>2, <1>5, <2>2 DEF Told
  <2>4. QED
    BY <2>3 DEF u
<1>7. QED
  BY <1>1, <1>5, <1>6

LEMMA ClosedTold ==
    ASSUME net \subseteq Datagrams, NEW c \in Clients, NEW r \in ClientRecords,
           NEW t \in Closed(c, r)
    PROVE  /\ t \in ClientRecords /\ t.reports = r.reports
           /\ t.crashed \/ (~t.m_is_connecting /\ ~t.m_is_connected)
<1>1. CASE t = Crashed(r)
  BY <1>1 DEF Crashed, ClientRecords
<1>2. ASSUME NEW e \in Nat, NEW s \in SettledReads(c, r),
             NEW p \in Settled(r.pump), t = ClosedAs(r, e, s, p)
      PROVE  /\ t \in ClientRecords /\ t.reports = r.reports
             /\ ~t.m_is_connecting /\ ~t.m_is_connected
  BY <1>2, ClosedFields
<1>3. \/ t = Crashed(r)
      \/ \E e \in Nat, s \in SettledReads(c, r), p \in Settled(r.pump) :
            t = ClosedAs(r, e, s, p)
  BY ClosedIs
<1>4. QED
  BY <1>1, <1>2, <1>3

(* The callback runs once for what is owed.                                *)
LEMMA DisconnectTold ==
    ASSUME net \subseteq Datagrams, NEW c \in Clients, NEW r \in ClientRecords,
           Told(r), ~r.crashed, NotConnecting(r),
           NEW t \in ExecuteDisconnectCallback(c, r)
    PROVE  Told(t)
<1>1. PICK u \in Closed(c, r) :
         t = [u EXCEPT !.reports =
                 IF ClosedBySelf(r) \/ u.crashed THEN @ ELSE Reported(@)]
  BY DEF ExecuteDisconnectCallback
<1>2. /\ u \in ClientRecords /\ u.reports = r.reports
      /\ u.crashed \/ (~u.m_is_connecting /\ ~u.m_is_connected)
  BY ClosedTold
<1>3. r.reports \in Reports
  BY DEF ClientRecords
<1>4. CASE ClosedBySelf(r) \/ u.crashed
  <2>1. t = u
    BY <1>1, <1>2, <1>4 DEF ClientRecords
  <2>2. QED
    BY <1>2, <2>1 DEF Told
<1>5. CASE ~(ClosedBySelf(r) \/ u.crashed)
  <2>1. t = [u EXCEPT !.reports = Reported(r.reports)]
    BY <1>1, <1>2, <1>5
  <2>2. /\ t.reports = Reported(r.reports)
        /\ ~t.m_is_connecting /\ ~t.m_is_connected
    BY <1>2, <1>5, <2>1 DEF ClientRecords
  <2>3. r.reports.orderly => r.reports.owed /\ ~r.reports.stray
    BY <1>5 DEF Told, NotConnecting, ClosedBySelf
  <2>4. /\ Reported(r.reports).orderly = r.reports.orderly
        /\ Reported(r.reports).stray <=> r.reports.stray \/ ~r.reports.owed
    BY <1>3 DEF Reported, Reports
  <2>5. QED
    BY <2>2, <2>3, <2>4 DEF Told
<1>6. QED
  BY <1>4, <1>5

(* One receive more, or one less.                                          *)
LEMMA ReadTold ==
    ASSUME NEW r \in ClientRecords, Told(r), ~r.crashed,
           NEW handler \in {"connect", "read"},
           handler = "connect" \/ NotConnecting(r)
    PROVE  Told(Read(r, handler))
<1> DEFINE t == Read(r, handler)
           new == NewRead(r, handler)
<1>1. /\ t = WithReads(r, t.reads) /\ t \in ClientRecords
      /\ new.handler = handler /\ OneMore(r.reads, new, t.reads)
  BY ReadIs
<1> HIDE DEF t, new
<1>2. /\ t.reports = r.reports /\ t.m_is_connecting = r.m_is_connecting
      /\ t.m_is_connected = r.m_is_connected /\ t.pump = r.pump
      /\ t.m_kcp_timer = r.m_kcp_timer
  BY <1>1 DEF WithReads, ClientRecords
<1>3. handler = "connect" /\ NothingLeft(r) => NothingLeft(t)
  BY <1>1, <1>2 DEF NothingLeft, OneMore
<1>4. Told(t)
  BY <1>2, <1>3, SameTold
<1>5. QED
  BY <1>4 DEF t

LEMMA WithoutReadTold ==
    ASSUME NEW r \in ClientRecords, Told(r), ~r.crashed, r.reads # <<>>
    PROVE  LET t == WithoutRead(r)
           IN  /\ t \in ClientRecords /\ Told(t) /\ ~t.crashed
               /\ t.reports = r.reports /\ t.m_is_connecting = r.m_is_connecting
               /\ Head(r.reads).handler = "read" => NotConnecting(t)
<1> DEFINE t == WithoutRead(r)
           s == Tail(r.reads)
           op == Head(r.reads)
<1>1. r.reads \in Seq(ReadsOf)
  BY DEF ClientRecords
<1>2. /\ s \in Seq(ReadsOf) /\ op = r.reads[1] /\ 1 \in DOMAIN r.reads
      /\ \A i \in DOMAIN s : i + 1 \in DOMAIN r.reads /\ s[i] = r.reads[i + 1]
  BY <1>1, TailIs
<1>3. t = [r EXCEPT !.reads = s]
  BY DEF WithoutRead
<1> HIDE DEF s, t, op
<1>4. /\ t \in ClientRecords /\ t.reads = s /\ t.pump = r.pump
      /\ t.m_kcp_timer = r.m_kcp_timer
      /\ t.m_is_connecting = r.m_is_connecting
      /\ t.m_is_connected = r.m_is_connected /\ t.crashed = r.crashed
      /\ t.reports = r.reports
  BY <1>2, <1>3 DEF ClientRecords
<1>5. NothingLeft(r) => NothingLeft(t)
  BY <1>2, <1>4 DEF NothingLeft
<1>6. Told(t)
  BY <1>4, <1>5, SameTold
<1>7. op.handler = "read" => NotConnecting(t)
  BY <1>2, <1>4 DEF NotConnecting, Told, NothingLeft
<1>8. QED
  BY <1>4, <1>6, <1>7 DEF t, op

LEMMA ConnectTold ==
    ASSUME NEW c \in Clients, ToldOf(c), Connect(c)
    PROVE  ToldNext(c)
<1> DEFINE r == client[c]
           n == r.socket + 1
           list == Readdressed(r.pump.m_pocket_list, Endpoint(c, n))
           Left(s, opens) ==
              [r EXCEPT !.m_is_connecting = TRUE,
                        !.socket = @ + 1, !.open = opens,
                        !.pump.m_pocket_list =
                           Readdressed(@, Endpoint(c, r.socket + 1)),
                        !.reads = s, !.connects = @ + 1,
                        !.reports = Renewed(r), !.told = FALSE]
<1>1. /\ net \subseteq Datagrams /\ r \in ClientRecords /\ Told(r)
      /\ ~r.m_is_connected /\ ~r.crashed
  BY DEF ToldOf, LocalOf, Local, Sound, Connect
<1>2. PICK s \in SettledReads(c, r), opens \in BOOLEAN :
         IF opens
           THEN \E u \in CancelTimer(Read(Left(s, opens), "connect")) :
                Becomes(c, [u EXCEPT !.m_connect_timer = "armed"])
           ELSE Becomes(c, [Left(s, opens) EXCEPT !.posted = @ + 1])
  BY DEF Connect
<1> DEFINE v == Left(s, opens)
<1>3. /\ v.pump.sends = r.pump.sends /\ v.reads = s /\ v.reports = Renewed(r)
      /\ v.m_kcp_timer = r.m_kcp_timer /\ v.m_is_connecting
      /\ ~v.m_is_connected /\ ~v.crashed
  <2>1. r.pump \in PumpsOf(UpData)
    BY <1>1 DEF ClientRecords
  <2>2. QED
    BY <1>1, <2>1 DEF ClientRecords, PumpsOf
<1>4. /\ DOMAIN s = DOMAIN r.reads
      /\ \A i \in DOMAIN s : s[i].handler = r.reads[i].handler
  BY <1>1, SettledReadsIs
<1> HIDE DEF v, Left
<1>5. Told(v)
  BY <1>1, <1>3, <1>4, RenewedIs DEF Told, NothingLeft
<1>6. CASE ~opens
  <2> DEFINE t == [v EXCEPT !.posted = @ + 1]
  <2>1. /\ t.reports = v.reports /\ t.m_is_connecting = v.m_is_connecting
        /\ t.m_is_connected = v.m_is_connected
        /\ t.reads = v.reads /\ t.pump = v.pump /\ t.m_kcp_timer = v.m_kcp_timer
    BY DEF v, Left
  <2>2. Becomes(c, t)
    BY <1>2, <1>6 DEF v
  <2> HIDE DEF t
  <2>3. Told(t)
    BY <1>3, <1>5, <2>1, SameTold DEF NothingLeft
  <2>4. QED
    BY <2>2, <2>3 DEF ToldNext
<1>7. CASE opens
  <2>1. PICK u \in CancelTimer(Read(v, "connect")) :
           Becomes(c, [u EXCEPT !.m_connect_timer = "armed"])
    BY <1>2, <1>7 DEF v
  <2> DEFINE w == Read(v, "connect")
             new == [handler |-> "connect", socket |-> v.socket,
                     result |-> IF v.open THEN Pending ELSE Aborted]
             t == [u EXCEPT !.m_connect_timer = "armed"]
  <2>2. w = [v EXCEPT !.reads = Append(v.reads, new)]
    BY DEF Read
  <2>3. PICK e : u = [w EXCEPT !.m_connect_timer = "none", !.expired = e]
    BY <2>1 DEF CancelTimer
  <2>4. s \in Seq(ReadsOf) /\ new.handler = "connect"
    BY <1>1, SettledReadsIs
  <2> HIDE DEF new
  <2>5. /\ t.reports = v.reports /\ t.m_is_connecting = v.m_is_connecting
        /\ t.m_is_connected = v.m_is_connected
        /\ t.reads = Append(v.reads, new) /\ t.pump = v.pump
        /\ t.m_kcp_timer = v.m_kcp_timer
    <3>1. /\ DOMAIN v = DOMAIN r /\ v = [f \in DOMAIN v |-> v[f]]
          /\ {"reports", "m_is_connecting", "m_is_connected", "reads", "pump",
              "m_kcp_timer", "expired", "m_connect_timer"} \subseteq DOMAIN v
      BY <1>1 DEF ClientRecords, v, Left
    <3>2. QED
      BY <2>2, <2>3, <3>1
  <2>6. Becomes(c, t)
    BY <2>1
  <2> HIDE DEF t
  <2>7. ASSUME NEW i \in DOMAIN t.reads, NothingLeft(v)
        PROVE  t.reads[i].handler # "read"
    <3>1. /\ DOMAIN s = 1 .. Len(s) /\ Len(s) \in Nat
          /\ DOMAIN t.reads = 1 .. Len(s) + 1
          /\ t.reads[i] = IF i = Len(s) + 1 THEN new ELSE s[i]
      BY <1>3, <2>4, <2>5, <2>7
    <3>2. QED
      BY <1>3, <2>4, <2>7, <3>1 DEF NothingLeft
  <2>8. NothingLeft(v) => NothingLeft(t)
    BY <2>5, <2>7 DEF NothingLeft
  <2>9. Told(t)
    BY <1>3, <1>5, <2>5, <2>8, SameTold
  <2>10. QED
    BY <2>6, <2>9 DEF ToldNext
<1>8. QED
  BY <1>6, <1>7

LEMMA TimedTold ==
    ASSUME NEW c \in Clients, ToldOf(c),
           \/ ConnectNowhere(c) \/ HandlePosted(c) \/ HandleConnectTimeout(c)
    PROVE  ToldNext(c)
<1> DEFINE r == client[c]
<1>1. r \in ClientRecords /\ Told(r) /\ ~r.crashed
  BY DEF ToldOf, LocalOf, Local, Sound
<1>2. r.posted \in Nat /\ r.connects \in Nat /\ r.expired \in Nat
  BY <1>1 DEF ClientRecords
<1>3. CASE ConnectNowhere(c)
  <2> DEFINE t == [r EXCEPT !.posted = @ + 1, !.connects = @ + 1]
  <2>1. Becomes(c, t)
    BY <1>3 DEF ConnectNowhere
  <2>2. /\ t.reports = r.reports /\ t.m_is_connecting = r.m_is_connecting
        /\ t.m_is_connected = r.m_is_connected
        /\ t.reads = r.reads /\ t.pump = r.pump /\ t.m_kcp_timer = r.m_kcp_timer
    BY <1>1 DEF ClientRecords
  <2> HIDE DEF t
  <2>3. Told(t)
    BY <1>1, <2>2, SameTold DEF NothingLeft
  <2>4. QED
    BY <2>1, <2>3 DEF ToldNext
<1>4. ASSUME NEW t \in ClientRecords, t.reports = r.reports,
             Becomes(c, HandleAsyncConnect(t, FALSE))
      PROVE  ToldNext(c)
  BY <1>1, <1>4, AsyncTold DEF Told, ToldNext
<1>5. CASE HandlePosted(c)
  <2> DEFINE t == [r EXCEPT !.posted = r.posted - 1]
  <2>1. Becomes(c, HandleAsyncConnect(t, FALSE)) /\ r.posted > 0
    BY <1>5 DEF HandlePosted
  <2>2. r.posted - 1 \in Nat
    BY <1>2, <2>1
  <2>3. t \in ClientRecords /\ t.reports = r.reports
    BY <1>1, <2>2 DEF ClientRecords
  <2> HIDE DEF t
  <2>4. QED
    BY <1>4, <2>1, <2>3
<1>6. CASE HandleConnectTimeout(c)
  <2>1. CASE Becomes(c, HandleAsyncConnect([r EXCEPT !.m_connect_timer = "spent"], FALSE))
    <3> DEFINE t == [r EXCEPT !.m_connect_timer = "spent"]
    <3>1. t \in ClientRecords /\ t.reports = r.reports
      BY <1>1 DEF ClientRecords
    <3> HIDE DEF t
    <3>2. QED
      BY <1>4, <2>1, <3>1 DEF t
  <2>2. CASE /\ r.expired > 0
             /\ Becomes(c, HandleAsyncConnect([r EXCEPT !.expired = @ - 1], FALSE))
    <3> DEFINE t == [r EXCEPT !.expired = r.expired - 1]
    <3>1. r.expired - 1 \in Nat
      BY <1>2, <2>2
    <3>2. t \in ClientRecords /\ t.reports = r.reports
      BY <1>1, <3>1 DEF ClientRecords
    <3>3. Becomes(c, HandleAsyncConnect(t, FALSE))
      BY <2>2
    <3> HIDE DEF t
    <3>4. QED
      BY <1>4, <3>2, <3>3
  <2>3. QED
    BY <1>6, <2>1, <2>2 DEF HandleConnectTimeout
<1>7. QED
  BY <1>3, <1>5, <1>6

LEMMA CloseTold ==
    ASSUME NEW c \in Clients, ToldOf(c), ClientClose(c)
    PROVE  ToldNext(c)
<1> DEFINE r == client[c]
<1>1. /\ net \subseteq Datagrams /\ r \in ClientRecords /\ Told(r)
      /\ ~r.crashed /\ r.reports \in Reports
  BY DEF ToldOf, LocalOf, Local, Sound, ClientRecords
<1>2. PICK u \in Closed(c, r) : Becomes(c, ByApplication(u))
  BY DEF ClientClose
<1>3. /\ u \in ClientRecords /\ u.reports = r.reports
      /\ u.crashed \/ (~u.m_is_connecting /\ ~u.m_is_connected)
  BY <1>1, ClosedTold
<1> DEFINE t == ByApplication(u)
<1>4. /\ t.reports = IF u.crashed THEN r.reports ELSE Waived(r.reports)
      /\ t.m_is_connecting = u.m_is_connecting
      /\ t.m_is_connected = u.m_is_connected /\ t.crashed = u.crashed
  BY <1>3, ByApplicationIs
<1> HIDE DEF t
<1>5. /\ Waived(r.reports).orderly = r.reports.orderly
      /\ Waived(r.reports).stray = r.reports.stray
  BY <1>1 DEF Waived, Reports
<1>6. Told(t)
  BY <1>1, <1>3, <1>4, <1>5 DEF Told
<1>7. QED
  BY <1>2, <1>6 DEF ToldNext, t

LEMMA ReceiveConnectTold ==
    ASSUME NEW c \in Clients, ToldOf(c), HandleReceiveConnect(c)
    PROVE  ToldNext(c)
<1> DEFINE r == client[c]
           u == WithoutRead(r)
<1>1. /\ net \subseteq Datagrams /\ r \in ClientRecords /\ Told(r) /\ ~r.crashed
  BY DEF ToldOf, LocalOf, Local, Sound
<1>8. net \subseteq Datagrams /\ Sound(c, r) /\ Aligned(r)
  BY DEF ToldOf, LocalOf, Local
<1>2. PICK outcome \in ReadResults(c, r, "connect") :
         \E t \in IF Fails(outcome)
                    THEN {HandleAsyncConnect(u, FALSE)}
                    ELSE HandleAnswer(TookAnswer(r, outcome), outcome) :
            Becomes(c, t)
  BY DEF HandleReceiveConnect, TookAnswer
<1>3. r.reads # <<>>
  BY DEF ReadResults
<1>4. u \in ClientRecords /\ Told(u) /\ ~u.crashed
  BY <1>1, <1>3, WithoutReadTold
<1> HIDE DEF u
<1>5. CASE Fails(outcome)
  BY <1>2, <1>4, <1>5, AsyncTold DEF Told, ToldNext
<1>6. CASE ~Fails(outcome)
  <2> DEFINE v == TookAnswer(r, outcome)
             d == outcome
  <2>1. PICK t \in HandleAnswer(v, d) : Becomes(c, t)
    BY <1>2, <1>6
  <2>2. v = [u EXCEPT !.late = u.late \/ TakenLate(r, outcome)]
    BY DEF TookAnswer, u
  <2>3. (u.late \/ TakenLate(r, outcome)) \in BOOLEAN
    BY DEF TakenLate
  <2>4. /\ v \in ClientRecords /\ v.reports = u.reports /\ v.pump = u.pump
        /\ v.reads = u.reads /\ v.m_kcp_timer = u.m_kcp_timer
        /\ v.m_is_connecting = u.m_is_connecting
        /\ v.m_is_connected = u.m_is_connected /\ v.crashed = u.crashed
    BY <1>4, <2>2, <2>3 DEF ClientRecords
  <2>6. d \in DownData
    BY <1>6, <1>8, OutcomeIs DEF Fails
  <2> HIDE DEF v, d
  <2>5. Told(v) /\ ~v.crashed
    BY <1>4, <2>4, SameTold DEF NothingLeft
  <2>7. CASE d.seg # 0
    <3>1. t = Read(v, "connect")
      BY <2>1, <2>7 DEF HandleAnswer
    <3>2. QED
      BY <2>1, <2>4, <2>5, <3>1, ReadTold DEF ToldNext
  <2>8. CASE d.seg = 0
    <3>1. PICK w \in CancelTimer(v) :
             t = IF d.session <= 0 \/ d.conv = 0
                   THEN HandleAsyncConnect([w EXCEPT !.m_session = d.session], FALSE)
                   ELSE HandleAsyncConnect([w EXCEPT !.m_session = d.session,
                                                     !.m_kcp = NewKcp(d.conv),
                                                     !.m_kcp_timer = TRUE], TRUE)
      BY <2>1, <2>8 DEF HandleAnswer
    <3>2. PICK e \in Nat : w = Cancelled(v, e)
      BY <2>4, CancelTimerIs
    <3>3. w \in ClientRecords /\ w.reports = v.reports
      BY <2>4, <3>1, <3>2, CancelTimerIs DEF Cancelled, ClientRecords
    <3>4. d.session \in Int /\ NewKcp(d.conv) \in Kcps
      BY <2>6 DEF DownData, NewKcp, NoKcp, Kcps
    <3>5. /\ [w EXCEPT !.m_session = d.session] \in ClientRecords
          /\ [w EXCEPT !.m_session = d.session].reports = w.reports
      BY <3>3, <3>4 DEF ClientRecords
    <3>6. /\ [w EXCEPT !.m_session = d.session, !.m_kcp = NewKcp(d.conv),
                       !.m_kcp_timer = TRUE] \in ClientRecords
          /\ [w EXCEPT !.m_session = d.session, !.m_kcp = NewKcp(d.conv),
                       !.m_kcp_timer = TRUE].reports = w.reports
      BY <3>3, <3>4 DEF ClientRecords
    <3>7. w.reports.orderly => ~w.reports.stray
      BY <2>5, <3>3 DEF Told
    <3>8. Told(t)
      BY <3>1, <3>5, <3>6, <3>7, AsyncTold
    <3>9. QED
      BY <2>1, <3>8 DEF ToldNext
  <2>9. QED
    BY <2>7, <2>8
<1>7. QED
  BY <1>5, <1>6

LEMMA HandleReadTold ==
    ASSUME NEW c \in Clients, ToldOf(c), ClientHandleRead(c)
    PROVE  ToldNext(c)
<1> DEFINE r == client[c]
           u == WithoutRead(r)
<1>1. /\ net \subseteq Datagrams /\ r \in ClientRecords /\ Told(r) /\ ~r.crashed
  BY DEF ToldOf, LocalOf, Local, Sound
<1>8. net \subseteq Datagrams /\ Sound(c, r) /\ Aligned(r)
  BY DEF ToldOf, LocalOf, Local
<1>2. PICK outcome \in ReadResults(c, r, "read") :
         IF Fails(outcome)
           THEN \E t \in ExecuteDisconnectCallback(c, u) : Becomes(c, t)
           ELSE \E t \in HandleDatagramRead(c, u, outcome) : Becomes(c, t)
  BY DEF ClientHandleRead
<1>3. r.reads # <<>> /\ Head(r.reads).handler = "read"
  BY DEF ReadResults
<1>4. /\ u \in ClientRecords /\ Told(u) /\ ~u.crashed /\ NotConnecting(u)
  BY <1>1, <1>3, WithoutReadTold
<1> HIDE DEF u
<1>5. CASE Fails(outcome)
  BY <1>1, <1>2, <1>4, <1>5, DisconnectTold DEF ToldNext
<1>6. CASE ~Fails(outcome)
  <2> DEFINE d == outcome
  <2>1. PICK t \in HandleDatagramRead(c, u, d) : Becomes(c, t)
    BY <1>2, <1>6
  <2>2. d \in DownData
    BY <1>6, <1>8, OutcomeIs DEF Fails
  <2> HIDE DEF d
  <2>3. ASSUME NEW v \in ClientRecords, Told(v), ~v.crashed, NotConnecting(v)
        PROVE  Told(Read(v, "read"))
    BY <2>3, ReadTold
  <2>4. ASSUME NEW v, v.reports = u.reports,
               v.m_is_connecting = u.m_is_connecting,
               v.m_is_connected = u.m_is_connected
        PROVE  Told(v) /\ NotConnecting(v)
    BY <1>4, <2>4, SameTold DEF NotConnecting
  <2>5. CASE d.seg = 0
    <3> DEFINE q == Read(u, "read")
    <3>1. PICK now : t = [q EXCEPT !.told = now]
      BY <2>1, <2>5 DEF HandleDatagramRead
    <3>2. Told(q) /\ q \in ClientRecords /\ q = WithReads(u, q.reads)
      BY <1>4, <2>3, ReadIs
    <3>3. ~q.crashed
      BY <1>4, <3>2 DEF WithReads, ClientRecords
    <3> HIDE DEF q
    <3>4. /\ t.reports = q.reports /\ t.m_is_connecting = q.m_is_connecting
          /\ t.m_is_connected = q.m_is_connected /\ t.reads = q.reads
          /\ t.pump = q.pump /\ t.m_kcp_timer = q.m_kcp_timer
      BY <3>1, <3>2 DEF ClientRecords
    <3>5. Told(t)
      BY <3>2, <3>3, <3>4, SameTold DEF NothingLeft
    <3>6. QED
      BY <2>1, <3>5 DEF ToldNext
  <2>6. CASE d.seg # 0 /\ u.m_kcp = NoKcp
    <3>1. t = [u EXCEPT !.crashed = TRUE]
      BY <2>1, <2>6 DEF HandleDatagramRead
    <3>2. Told(t)
      BY <1>4, <2>4, <3>1 DEF ClientRecords
    <3>3. QED
      BY <2>1, <3>2 DEF ToldNext
  <2>7. CASE d.seg # 0 /\ u.m_kcp # NoKcp /\ d.conv # u.m_kcp.conv
    <3>1. t = Read(u, "read")
      BY <2>1, <2>7 DEF HandleDatagramRead
    <3>2. QED
      BY <1>4, <2>1, <2>3, <3>1 DEF ToldNext
  <2>8. CASE d.seg # 0 /\ u.m_kcp # NoKcp /\ d.conv = u.m_kcp.conv
    <3> DEFINE v == [u EXCEPT !.m_session = d.session]
    <3>1. \/ t \in ExecuteDisconnectCallback(c, v)
          \/ t = Read(Feed(v, d), "read")
          \/ t = [v EXCEPT !.crashed = TRUE]
      BY <2>1, <2>8 DEF HandleDatagramRead, ClosedInMessage
    <3>2. d.session \in Int
      BY <2>2 DEF DownData
    <3>3. /\ v \in ClientRecords /\ v.reports = u.reports /\ v.crashed = u.crashed
          /\ v.m_is_connecting = u.m_is_connecting
          /\ v.m_is_connected = u.m_is_connected /\ v.m_kcp = u.m_kcp
          /\ v.reads = u.reads /\ v.socket = u.socket /\ v.open = u.open
          /\ v.pump = u.pump /\ v.m_kcp_data_size = u.m_kcp_data_size
      BY <1>4, <3>2 DEF ClientRecords
    <3> HIDE DEF v
    <3>4. Told(v) /\ NotConnecting(v) /\ ~v.crashed
      BY <1>4, <2>4, <3>3
    <3>5. CASE t \in ExecuteDisconnectCallback(c, v)
      BY <1>1, <2>1, <3>3, <3>4, <3>5, DisconnectTold DEF ToldNext
    <3>6. CASE t = [v EXCEPT !.crashed = TRUE]
      <4>1. Told(t)
        BY <2>4, <3>3, <3>6 DEF ClientRecords
      <4>2. QED
        BY <2>1, <4>1 DEF ToldNext
    <3>7. CASE t = Read(Feed(v, d), "read")
      <4> DEFINE w == Feed(v, d)
      <4>1. Sound(c, u) /\ Aligned(u)
        BY <1>3, <1>8, WithoutReadKeeps DEF u
      <4>2. w \in ClientRecords
        <5>1. Sound(c, v)
          BY <3>3, <4>1, SameSound
        <5>2. Aligned(v)
          BY <3>3, <4>1 DEF Aligned
        <5>3. Sound(c, w)
          BY <2>2, <5>1, <5>2, FeedKeeps
        <5>4. QED
          BY <5>3 DEF Sound
      <4>3. /\ w.reports = v.reports /\ w.m_is_connecting = v.m_is_connecting
            /\ w.m_is_connected = v.m_is_connected /\ w.crashed = v.crashed
        BY <3>3 DEF Feed, ClientRecords
      <4> HIDE DEF w
      <4>4. Told(w) /\ NotConnecting(w) /\ ~w.crashed
        BY <2>4, <3>3, <3>4, <4>3
      <4>5. Told(t)
        BY <2>3, <3>7, <4>2, <4>4 DEF w
      <4>6. QED
        BY <2>1, <4>5 DEF ToldNext
    <3>8. QED
      BY <3>1, <3>5, <3>6, <3>7
  <2>9. QED
    BY <2>5, <2>6, <2>7, <2>8
<1>7. QED
  BY <1>5, <1>6

LEMMA SendTold ==
    ASSUME NEW c \in Clients, ToldOf(c),
           \/ ClientSendPocket(c) \/ ClientUpdateKcp(c) \/ ClientHandleSend(c)
    PROVE  ToldNext(c)
<1> DEFINE r == client[c]
<1>1. /\ net \subseteq Datagrams /\ r \in ClientRecords /\ Told(r) /\ ~r.crashed
  BY DEF ToldOf, LocalOf, Local, Sound
<1>2. ASSUME NEW t, t.reports = r.reports,
             t.m_is_connecting = r.m_is_connecting,
             t.m_is_connected = r.m_is_connected, NotConnecting(r)
      PROVE  Told(t) /\ NotConnecting(t)
  BY <1>1, <1>2, SameTold DEF NotConnecting
<1>3. CASE ClientSendPocket(c)
  <2> DEFINE t == [r EXCEPT !.m_kcp.queued = @ + 1]
  <2>1. Becomes(c, t)
    BY <1>3 DEF ClientSendPocket
  <2>2. /\ t.reports = r.reports /\ t.m_is_connecting = r.m_is_connecting
        /\ t.m_is_connected = r.m_is_connected
        /\ t.reads = r.reads /\ t.pump = r.pump /\ t.m_kcp_timer = r.m_kcp_timer
    BY <1>1 DEF ClientRecords
  <2> HIDE DEF t
  <2>3. Told(t)
    BY <1>1, <2>2, SameTold DEF NothingLeft
  <2>4. QED
    BY <2>1, <2>3 DEF ToldNext
<1>4. CASE ClientUpdateKcp(c)
  <2>1. NotConnecting(r)
    BY <1>1, <1>4 DEF ClientUpdateKcp, NotConnecting, Told, NothingLeft
  <2> DEFINE segments == [i \in 1..(r.m_kcp.queued - r.m_kcp.output) |->
                            Datagram(Endpoint(c, r.socket), Server, r.m_session,
                                     r.m_kcp.conv, r.m_kcp.output + i)]
             t == [r EXCEPT !.m_kcp.output = r.m_kcp.queued,
                            !.pump = SendAll(@, segments, TRUE)]
  <2>2. Becomes(c, t)
    BY <1>4 DEF ClientUpdateKcp
  <2> HIDE DEF segments
  <2>3. /\ t.reports = r.reports /\ t.m_is_connecting = r.m_is_connecting
        /\ t.m_is_connected = r.m_is_connected
    BY <1>1 DEF ClientRecords
  <2> HIDE DEF t
  <2>4. QED
    BY <1>2, <2>1, <2>2, <2>3 DEF ToldNext
<1>5. CASE ClientHandleSend(c)
  <2> DEFINE t == [r EXCEPT !.pump = Completed(r.pump)]
  <2>1. PICK result \in Results(r.pump) :
           \/ Becomes(c, [t EXCEPT !.pump = NextSend(@, TRUE)])
           \/ \E u \in ExecuteDisconnectCallback(c, t) : Becomes(c, u)
    BY <1>5 DEF ClientHandleSend
  <2>2. r.pump.sends # <<>>
    BY DEF Results
  <2>3. NotConnecting(r)
    BY <1>1, <2>2 DEF NotConnecting, Told, NothingLeft
  <2>4. t \in ClientRecords
    <3>1. r.pump \in PumpsOf(UpData)
      BY <1>1 DEF ClientRecords
    <3>2. Completed(r.pump) \in PumpsOf(UpData)
      BY <2>2, <3>1, CompletedIs
    <3>3. QED
      BY <1>1, <3>2 DEF ClientRecords
  <2>5. /\ t.reports = r.reports /\ t.m_is_connecting = r.m_is_connecting
        /\ t.m_is_connected = r.m_is_connected /\ t.crashed = r.crashed
    BY <1>1 DEF ClientRecords
  <2> HIDE DEF t
  <2>6. Told(t) /\ NotConnecting(t) /\ ~t.crashed
    BY <1>1, <1>2, <2>3, <2>5
  <2>7. CASE Becomes(c, [t EXCEPT !.pump = NextSend(@, TRUE)])
    <3> DEFINE q == [t EXCEPT !.pump = NextSend(@, TRUE)]
    <3>1. /\ q.reports = r.reports /\ q.m_is_connecting = r.m_is_connecting
          /\ q.m_is_connected = r.m_is_connected
      BY <2>4, <2>5 DEF ClientRecords
    <3> HIDE DEF q
    <3>2. Told(q)
      BY <1>2, <2>3, <3>1
    <3>3. QED
      BY <2>7, <3>2 DEF ToldNext, q
  <2>8. QED
    BY <1>1, <2>1, <2>4, <2>6, <2>7, DisconnectTold DEF ToldNext
<1>6. QED
  BY <1>3, <1>4, <1>5

ToldInv == IInv /\ \A c \in Clients : Told(client[c])

LEMMA ToldInit == Init => ToldInv
<1> SUFFICES ASSUME Init PROVE ToldInv
  OBVIOUS
<1>1. ASSUME NEW c \in Clients
      PROVE  Told(client[c])
  <2>1. /\ ~client[c].reports.stray /\ ~client[c].m_is_connected
        /\ ~client[c].m_is_connecting
    BY DEF Init, ClientInit, NoReports
  <2>2. QED
    BY <2>1 DEF Told
<1>2. QED
  BY <1>1, IInvInit DEF ToldInv

LEMMA ToldStep == ToldInv /\ [Next]_vars => ToldInv'
<1> SUFFICES ASSUME ToldInv, [Next]_vars PROVE ToldInv'
  OBVIOUS
<1>1. IInv'
  BY IInvStep DEF ToldInv
<1>2. CASE UNCHANGED client
  BY <1>1, <1>2 DEF ToldInv, Told, NothingLeft
<1>3. CASE ClientNext
  <2>1. PICK c \in Clients :
           \/ Connect(c) \/ ConnectNowhere(c) \/ HandlePosted(c)
           \/ ClientClose(c) \/ HandleConnectTimeout(c)
           \/ HandleReceiveConnect(c) \/ ClientHandleRead(c)
           \/ ClientSendPocket(c) \/ ClientUpdateKcp(c) \/ ClientHandleSend(c)
    BY <1>3 DEF ClientNext
  <2>2. ~client[c].crashed
    BY <2>1 DEF Connect, ConnectNowhere, HandlePosted, ClientClose,
                HandleConnectTimeout, HandleReceiveConnect, ClientHandleRead,
                ClientSendPocket, ClientUpdateKcp, ClientHandleSend
  <2>4. ToldOf(c)
    BY <2>2 DEF ToldOf, ToldInv, IInv, LocalOf
  <2>5. ToldNext(c)
    BY <2>1, <2>4, ConnectTold, TimedTold, CloseTold, ReceiveConnectTold,
       HandleReadTold, SendTold
  <2>6. PICK t : Becomes(c, t) /\ Told(t)
    BY <2>5 DEF ToldNext
  <2>7. \A b \in Clients : client'[b] = IF b = c THEN t ELSE client[b]
    BY <2>6 DEF ToldInv, IInv, Becomes
  <2>8. \A b \in Clients : Told(client'[b])
    BY <2>6, <2>7 DEF ToldInv
  <2>9. QED
    BY <1>1, <2>8 DEF ToldInv, Told, NothingLeft
<1>4. QED
  BY <1>2, <1>3 DEF Next, vars

(* m_disconnected_func is called only when m_succeed_func has been called  *)
(* before it, once for that, and not after the application's own Close, in *)
(* whatever order receives, sends, time-outs and answers end, as long as   *)
(* Connect is not called with anything left of an earlier connection.      *)
THEOREM DisconnectedAtMostOnce == Spec => []OrderlyDisconnectedOnce
<1>1. ToldInv => OrderlyDisconnectedOnce
  BY DEF ToldInv, Told, OrderlyDisconnectedOnce
<1>2. QED
  BY <1>1, ToldInit, ToldStep, PTL DEF Spec

(* A connected client keeps bytes of an incomplete message exactly when    *)
(* the KCP of the present connection has handed over half of one, whatever *)
(* was left of the connections before.                                     *)
THEOREM FramesStayAligned == Spec => []FramesAligned
<1>1. IInv => FramesAligned
  BY DEF IInv, Local, Aligned, FramesAligned
<1>2. QED
  BY <1>1, IInvAlways, PTL

(* The server's pump never waits for a send that is not under way, and a   *)
(* connected client has a receive on its socket.                           *)
THEOREM SocketsAreServed == Spec => []SocketsServed
<1>1. IInv => SocketsServed
  <2> SUFFICES ASSUME IInv PROVE SocketsServed
    OBVIOUS
  <2>1. PendingSend(pump) => pump.sends # <<>>
    BY EmptyIs DEF PendingSend
  <2>2. \A c \in Clients : Served(client[c])
    BY DEF IInv, Local
  <2>3. QED
    BY <2>1, <2>2 DEF IInv, ServerSound, PumpServed, Served, SocketsServed
<1>2. QED
  BY <1>1, IInvAlways, PTL

-----------------------------------------------------------------------------
(* Sessions: a session lasts until its client or the server's Close ends   *)
(* it.  The invariant says of every session, wherever it is written (in    *)
(* the network, in the pumps, in the receivers, in the results of receives *)
(* and in the clients), to whom it was granted and under which conv; that  *)
(* the server has its receiver unless it is over; and from which sockets   *)
(* its client may have closed it.                                          *)
(*                                                                         *)
(* What the proof knows of the past: own says to which client and under    *)
(* which conv each session was granted; closes are the close requests sent,*)
(* held the convs and sessions of the receivers.                           *)

Closes == {d \in net : d.to = Server /\ d.seg = 0 /\ d.session < 0}

Held == {<<conv, m_outer_map[conv].m_session>> : conv \in DOMAIN m_outer_map}

History(own) ==
    [own |-> own, socket |-> [c \in Clients |-> client[c].socket],
     late |-> {c \in Clients : client[c].late},
     granted |-> granted, dropped |-> dropped, held |-> Held, closes |-> Closes]

(* The session s was ended: by Close of the server, or by its client.      *)
NotClosed(h, s) == \A d \in h.closes : d.session # -s
Over(h, s) == s \in h.dropped \/ ~NotClosed(h, s)

(* What is true of a session, with its conv, wherever it is found beside   *)
(* an endpoint e.  It was granted to the client of e; it is over, or the   *)
(* server has its receiver; and its client has closed it from no socket    *)
(* before that of e.                                                       *)
ClosedSince(h, e, s) == \A d \in h.closes : d.session = -s => e[2] <= d.from[2]

Claim(h, e, s, conv) ==
    /\ e[2] <= h.socket[e[1]]
    /\ s > 0 =>
          /\ s <= h.granted /\ h.own[s] = <<e[1], conv>> /\ conv # 0
          /\ Over(h, s) \/ <<conv, s>> \in h.held
          /\ e[1] \notin h.late => ClosedSince(h, e, s)
    /\ s < 0 => Over(h, -s)

UpOk(h, d) == Claim(h, d.from, d.session, d.conv)

(* The server sends no segment of a session that it ends.                  *)
DownOk(h, d) == Claim(h, d.to, d.session, d.conv) /\ (d.seg # 0 => d.session >= 0)

(* A session is closed by its own client.                                  *)
Consistent(h) ==
    /\ h.granted \in Nat
    /\ \A c \in Clients : h.socket[c] \in Nat
    /\ h.closes \subseteq UpData
    /\ \A d \in h.closes :
          /\ d.session < 0 /\ -d.session <= h.granted
          /\ h.own[-d.session][1] = d.from[1]

NetOk(h, sent) ==
    \A d \in sent : (d \in UpData => UpOk(h, d)) /\ (d \in DownData => DownOk(h, d))

(* The server's pump, its receivers, and the receives that Close ended.    *)
PumpDown(h, p) == \A d : InPump(d, p) => DownOk(h, d)

MapOk(h, map) ==
    \A conv \in DOMAIN map :
       Claim(h, map[conv].m_endpoint, map[conv].m_session, conv)

ResultsUp(h, results) ==
    \A i \in DOMAIN results : results[i] # Aborted => UpOk(h, results[i])

ServerOk(h, p, map, results) ==
    PumpDown(h, p) /\ MapOk(h, map) /\ ResultsUp(h, results)

(* The client's pump.  What waits for the next socket is of sessions that  *)
(* are not closed.                                                         *)
PumpOk(h, c, p) ==
    /\ \A d : InPump(d, p) => UpOk(h, d)
    /\ c \notin h.late =>
          \A i \in DOMAIN p.m_pocket_list :
             p.m_pocket_list[i].session > 0 =>
                NotClosed(h, p.m_pocket_list[i].session)

(* While the client has a KCP its receives are on sockets later than those *)
(* it has closed a session from.                                           *)
ReadsOk(h, c, r) ==
    /\ \A i \in DOMAIN r.reads :
          r.reads[i].result \in DownData => DownOk(h, r.reads[i].result)
    /\ r.m_kcp_timer /\ c \notin h.late =>
          \A i \in DOMAIN r.reads : \A d \in h.closes :
             d.from[1] = c => d.from[2] < r.reads[i].socket

SessionOk(h, c, r) ==
    r.m_kcp_timer =>
       /\ Claim(h, Endpoint(c, r.socket), r.m_session, r.m_kcp.conv)
       /\ c \notin h.late /\ r.m_session > 0 => NotClosed(h, r.m_session)

(* The socket from which a session was closed is closed, and the KCP gone. *)
SocketOk(h, c, r) ==
    \A d \in h.closes :
       d.from[1] = c =>
          /\ d.from[2] <= r.socket
          /\ d.from[2] = r.socket =>
                ~r.open /\ (c \notin h.late => ~r.m_kcp_timer)

ClientOk(h, c, r) ==
    PumpOk(h, c, r.pump) /\ ReadsOk(h, c, r) /\ SessionOk(h, c, r) /\ SocketOk(h, c, r)

Kept(own) ==
    /\ Consistent(History(own))
    /\ NetOk(History(own), net)
    /\ ServerOk(History(own), pump, m_outer_map, late_reads)
    /\ \A c \in Clients : ClientOk(History(own), c, client[c])

-----------------------------------------------------------------------------
(* Time passes from h to h2: sessions end or are granted, and whoever      *)
(* closes a session does so from its present socket.                       *)
Grows(h, h2) ==
    /\ \A c \in Clients : h.socket[c] <= h2.socket[c]
    /\ h.late \subseteq h2.late
    /\ h.granted <= h2.granted
    /\ \A s \in 1 .. h.granted : h2.own[s] = h.own[s]
    /\ h.dropped \subseteq h2.dropped /\ h.closes \subseteq h2.closes
    /\ \A conv, s : <<conv, s>> \in h.held => <<conv, s>> \in h2.held \/ Over(h2, s)
    /\ \A d \in h2.closes :
          d \in h.closes \/ d.from[2] = h2.socket[d.from[1]]

LEMMA OverGrows ==
    ASSUME NEW h, NEW h2, Grows(h, h2), NEW s, Over(h, s)
    PROVE  Over(h2, s)
  BY DEF Grows, Over, NotClosed

LEMMA ClaimGrows ==
    ASSUME NEW h, NEW h2, Consistent(h), Consistent(h2), Grows(h, h2),
           NEW e \in Endpoints, NEW s \in Int, NEW conv, Claim(h, e, s, conv)
    PROVE  Claim(h2, e, s, conv)
<1>1. e[1] \in Clients /\ e[2] \in Nat
  BY DEF Endpoints
<1>2. h.socket[e[1]] \in Nat /\ h2.socket[e[1]] \in Nat
  BY <1>1 DEF Consistent
<1>3. e[2] <= h2.socket[e[1]]
  BY <1>1, <1>2 DEF Grows, Claim
<1>4. s < 0 => Over(h2, -s)
  BY OverGrows DEF Claim
<1>5. ASSUME s > 0
      PROVE  /\ s <= h2.granted /\ h2.own[s] = <<e[1], conv>> /\ conv # 0
             /\ Over(h2, s) \/ <<conv, s>> \in h2.held
             /\ e[1] \notin h2.late => ClosedSince(h2, e, s)
  <2>1. /\ s <= h.granted /\ h.own[s] = <<e[1], conv>> /\ conv # 0
        /\ Over(h, s) \/ <<conv, s>> \in h.held
        /\ e[1] \notin h.late => ClosedSince(h, e, s)
    BY <1>5 DEF Claim
  <2>2. s \in 1 .. h.granted /\ h.granted \in Nat /\ h2.granted \in Nat
    BY <1>5, <2>1 DEF Consistent
  <2>3. s <= h2.granted /\ h2.own[s] = <<e[1], conv>>
    BY <2>1, <2>2 DEF Grows
  <2>4. Over(h2, s) \/ <<conv, s>> \in h2.held
    BY <2>1, OverGrows DEF Grows
  <2>5. ASSUME e[1] \notin h2.late, NEW d \in h2.closes, d.session = -s
        PROVE  e[2] <= d.from[2]
    <3>1. CASE d \in h.closes
      BY <2>1, <2>5, <3>1 DEF Grows, ClosedSince
    <3>2. CASE d.from[2] = h2.socket[d.from[1]]
      <4>1. -d.session = s
        BY <2>5
      <4>2. h2.own[s][1] = d.from[1]
        BY <2>5, <4>1 DEF Consistent
      <4>3. d.from[1] = e[1]
        BY <2>3, <4>2
      <4>4. QED
        BY <1>3, <3>2, <4>3
    <3>3. QED
      BY <2>5, <3>1, <3>2 DEF Grows
  <2>6. QED
    BY <2>1, <2>3, <2>4, <2>5 DEF ClosedSince
<1>6. QED
  BY <1>3, <1>4, <1>5 DEF Claim

LEMMA UpGrows ==
    ASSUME NEW h, NEW h2, Consistent(h), Consistent(h2), Grows(h, h2),
           NEW d \in UpData, UpOk(h, d)
    PROVE  UpOk(h2, d)
<1>1. d.from \in Endpoints /\ d.session \in Int
  BY DEF UpData
<1>2. QED
  BY <1>1, ClaimGrows DEF UpOk

LEMMA DownGrows ==
    ASSUME NEW h, NEW h2, Consistent(h), Consistent(h2), Grows(h, h2),
           NEW d \in DownData, DownOk(h, d)
    PROVE  DownOk(h2, d)
<1>1. d.to \in Endpoints /\ d.session \in Int
  BY DEF DownData
<1>2. QED
  BY <1>1, ClaimGrows DEF DownOk

(* What is written on datagrams and in receivers stays true.               *)
LEMMA NetGrows ==
    ASSUME NEW h, NEW h2, Consistent(h), Consistent(h2), Grows(h, h2),
           NEW sent, NetOk(h, sent)
    PROVE  NetOk(h2, sent)
  BY UpGrows, DownGrows DEF NetOk

LEMMA ServerGrows ==
    ASSUME NEW h, NEW h2, Consistent(h), Consistent(h2), Grows(h, h2),
           NEW p \in PumpsOf(DownData), NEW map, NEW results \in Seq(UpData \cup {Aborted}),
           \A conv \in DOMAIN map : map[conv] \in Receivers,
           ServerOk(h, p, map, results)
    PROVE  ServerOk(h2, p, map, results)
<1>1. ASSUME NEW d, InPump(d, p) PROVE DownOk(h2, d)
  <2>1. d \in DownData
    BY <1>1, PumpFields
  <2>2. QED
    BY <1>1, <2>1, DownGrows DEF ServerOk, PumpDown
<1>2. ASSUME NEW conv \in DOMAIN map
      PROVE  Claim(h2, map[conv].m_endpoint, map[conv].m_session, conv)
  <2>1. map[conv].m_endpoint \in Endpoints /\ map[conv].m_session \in Int
    BY DEF Receivers
  <2>2. QED
    BY <2>1, ClaimGrows DEF ServerOk, MapOk
<1>3. ASSUME NEW i \in DOMAIN results, results[i] # Aborted
      PROVE  UpOk(h2, results[i])
  <2>1. results[i] \in UpData
    BY <1>3
  <2>2. QED
    BY <1>3, <2>1, UpGrows DEF ServerOk, ResultsUp
<1>4. QED
  BY <1>1, <1>2, <1>3 DEF ServerOk, PumpDown, MapOk, ResultsUp

(* So does what is true of a client when it closes no session and has not  *)
(* taken a late answer meanwhile.                                          *)
Untouched(h, h2, c) ==
    /\ \A d \in h2.closes : d.from[1] = c => d \in h.closes
    /\ c \in h2.late <=> c \in h.late

LEMMA StillNotClosed ==
    ASSUME NEW h, NEW h2, Consistent(h2), NEW c, Untouched(h, h2, c),
           NEW e, e[1] = c, NEW s \in Int, s > 0, NEW conv,
           Claim(h2, e, s, conv), NotClosed(h, s)
    PROVE  NotClosed(h2, s)
<1> SUFFICES ASSUME NEW d \in h2.closes, d.session = -s PROVE FALSE
  BY DEF NotClosed
<1>1. -d.session = s
  OBVIOUS
<1>2. h2.own[s] = <<e[1], conv>>
  BY DEF Claim
<1>3. h2.own[s][1] = d.from[1]
  BY <1>1 DEF Consistent
<1>4. d \in h.closes
  BY <1>2, <1>3 DEF Untouched
<1>5. QED
  BY <1>4 DEF NotClosed

LEMMA PumpOkGrows ==
    ASSUME NEW h, NEW h2, Consistent(h), Consistent(h2), Grows(h, h2),
           NEW c \in Clients, Untouched(h, h2, c), NEW p \in PumpsOf(UpData),
           PumpLocal(c, p), PumpOk(h, c, p)
    PROVE  PumpOk(h2, c, p)
<1>1. ASSUME NEW d, InPump(d, p)
      PROVE  d \in UpData /\ UpOk(h2, d) /\ d.from[1] = c
  <2>1. d \in UpData
    BY <1>1, PumpFields
  <2>2. QED
    BY <1>1, <2>1, UpGrows DEF PumpOk, PumpLocal
<1>2. ASSUME NEW i \in DOMAIN p.m_pocket_list, p.m_pocket_list[i].session > 0,
             c \notin h2.late
      PROVE  NotClosed(h2, p.m_pocket_list[i].session)
  <2> DEFINE d == p.m_pocket_list[i]
  <2>1. InPump(d, p)
    BY DEF InPump
  <2>2. d \in UpData /\ UpOk(h2, d) /\ d.from[1] = c
    BY <1>1, <2>1
  <2>3. NotClosed(h, d.session)
    BY <1>2 DEF PumpOk, Untouched
  <2>4. d.session \in Int /\ d.session > 0
    BY <1>2, <2>2 DEF UpData
  <2> HIDE DEF d
  <2>5. NotClosed(h2, d.session)
    BY <2>2, <2>3, <2>4, StillNotClosed DEF UpOk
  <2>6. QED
    BY <2>5 DEF d
<1>3. QED
  BY <1>1, <1>2 DEF PumpOk

(* Every receive has a datagram of which this holds.                       *)
ResultsOk(h, r) ==
    \A i \in DOMAIN r.reads :
       r.reads[i].result \in DownData => DownOk(h, r.reads[i].result)

LEMMA ResultsOkGrows ==
    ASSUME NEW h, NEW h2, Consistent(h), Consistent(h2), Grows(h, h2),
           NEW r, ResultsOk(h, r)
    PROVE  ResultsOk(h2, r)
  BY DownGrows DEF ResultsOk

LEMMA ClientOkGrows ==
    ASSUME NEW h, NEW h2, Consistent(h), Consistent(h2), Grows(h, h2),
           NEW c \in Clients, Untouched(h, h2, c), NEW r, Sound(c, r),
           ClientOk(h, c, r)
    PROVE  ClientOk(h2, c, r)
<1>1. /\ r \in ClientRecords /\ r.pump \in PumpsOf(UpData) /\ PumpLocal(c, r.pump)
      /\ r.socket \in Nat /\ r.m_session \in Int
  BY DEF Sound, ClientRecords
<1>2. PumpOk(h2, c, r.pump)
  BY <1>1, PumpOkGrows DEF ClientOk
<1>3. ReadsOk(h2, c, r)
  <2>1. ResultsOk(h, r)
    BY DEF ClientOk, ReadsOk, ResultsOk
  <2>2. ResultsOk(h2, r)
    BY <2>1, ResultsOkGrows
  <2>3. QED
    BY <2>2 DEF ClientOk, ReadsOk, ResultsOk, Untouched
<1>4. SessionOk(h2, c, r)
  <2> SUFFICES ASSUME r.m_kcp_timer PROVE SessionOk(h2, c, r)
    BY DEF SessionOk
  <2> DEFINE e == Endpoint(c, r.socket)
  <2>1. e \in Endpoints /\ e[1] = c
    BY <1>1 DEF Endpoint, Endpoints
  <2>2. /\ Claim(h, e, r.m_session, r.m_kcp.conv)
        /\ c \notin h.late /\ r.m_session > 0 => NotClosed(h, r.m_session)
    BY DEF ClientOk, SessionOk
  <2> HIDE DEF e
  <2>3. Claim(h2, e, r.m_session, r.m_kcp.conv)
    BY <1>1, <2>1, <2>2, ClaimGrows
  <2>4. c \notin h2.late /\ r.m_session > 0 => NotClosed(h2, r.m_session)
    BY <1>1, <2>1, <2>2, <2>3, StillNotClosed DEF Untouched
  <2>5. QED
    BY <2>3, <2>4 DEF SessionOk, e
<1>5. SocketOk(h2, c, r)
  BY DEF ClientOk, SocketOk, Untouched
<1>6. QED
  BY <1>2, <1>3, <1>4, <1>5 DEF ClientOk

-----------------------------------------------------------------------------
(* A client changes while nothing of the past does.                        *)

(* The receives s have good results and are on sockets of r.               *)
ReadsFrom(h, r, s) ==
    \A i \in DOMAIN s :
       /\ s[i].result \in DownData => DownOk(h, s[i].result)
       /\ \/ s[i].socket = r.socket
          \/ \E j \in DOMAIN r.reads : s[i].socket = r.reads[j].socket

PumpFrom(p, q) ==
    /\ \A d : InPump(d, q) => InPump(d, p)
    /\ \A i \in DOMAIN q.m_pocket_list :
          \E j \in DOMAIN p.m_pocket_list : q.m_pocket_list[i] = p.m_pocket_list[j]

SessionFrom(r, t) ==
    /\ t.socket = r.socket
    /\ t.open => r.open
    /\ t.m_kcp_timer =>
          r.m_kcp_timer /\ t.m_session = r.m_session /\ t.m_kcp.conv = r.m_kcp.conv

LEMMA PumpOkFrom ==
    ASSUME NEW h, NEW c, NEW p, NEW q, PumpOk(h, c, p), PumpFrom(p, q)
    PROVE  PumpOk(h, c, q)
<1>1. ASSUME NEW i \in DOMAIN q.m_pocket_list, q.m_pocket_list[i].session > 0,
             c \notin h.late
      PROVE  NotClosed(h, q.m_pocket_list[i].session)
  <2>1. PICK j \in DOMAIN p.m_pocket_list : q.m_pocket_list[i] = p.m_pocket_list[j]
    BY DEF PumpFrom
  <2>2. QED
    BY <1>1, <2>1 DEF PumpOk
<1>2. QED
  BY <1>1 DEF PumpOk, PumpFrom

LEMMA ReadsOkFrom ==
    ASSUME NEW h, Consistent(h), NEW c \in Clients, NEW r \in ClientRecords,
           NEW t, ReadsOk(h, c, r), SocketOk(h, c, r), ReadsFrom(h, r, t.reads),
           t.m_kcp_timer => r.m_kcp_timer
    PROVE  ReadsOk(h, c, t)
<1>1. ASSUME t.m_kcp_timer, c \notin h.late, NEW i \in DOMAIN t.reads,
             NEW d \in h.closes, d.from[1] = c
      PROVE  d.from[2] < t.reads[i].socket
  <2>1. CASE t.reads[i].socket = r.socket
    <3>1. d.from[2] <= r.socket /\ d.from[2] # r.socket
      BY <1>1 DEF SocketOk
    <3>2. d.from[2] \in Nat /\ r.socket \in Nat
      BY DEF Consistent, UpData, Endpoints, ClientRecords
    <3>3. QED
      BY <2>1, <3>1, <3>2
  <2>2. ASSUME NEW j \in DOMAIN r.reads, t.reads[i].socket = r.reads[j].socket
        PROVE  d.from[2] < t.reads[i].socket
    BY <1>1, <2>2 DEF ReadsOk
  <2>3. QED
    BY <2>1, <2>2 DEF ReadsFrom
<1>2. QED
  BY <1>1 DEF ReadsFrom, ReadsOk

LEMMA ClientOkFrom ==
    ASSUME NEW h, Consistent(h), NEW c \in Clients, NEW r \in ClientRecords,
           NEW t, ClientOk(h, c, r), PumpFrom(r.pump, t.pump),
           ReadsFrom(h, r, t.reads), SessionFrom(r, t)
    PROVE  ClientOk(h, c, t)
<1>1. PumpOk(h, c, t.pump)
  BY PumpOkFrom DEF ClientOk
<1>2. ReadsOk(h, c, t)
  BY ReadsOkFrom DEF ClientOk, SessionFrom
<1>3. SessionOk(h, c, t) /\ SocketOk(h, c, t)
  BY DEF ClientOk, SessionFrom, SessionOk, SocketOk
<1>4. QED
  BY <1>1, <1>2, <1>3 DEF ClientOk

(* The same pump, the same receives.                                       *)
LEMMA SameFrom ==
    ASSUME NEW h, NEW c, NEW r, NEW t, ClientOk(h, c, r)
    PROVE  /\ t.pump.m_pocket_list = r.pump.m_pocket_list
              /\ t.pump.sends = r.pump.sends => PumpFrom(r.pump, t.pump)
           /\ t.reads = r.reads => ReadsFrom(h, r, t.reads)
<1>1. t.reads = r.reads => ReadsFrom(h, r, t.reads)
  BY DEF ClientOk, ReadsOk, ReadsFrom
<1>2. t.pump.m_pocket_list = r.pump.m_pocket_list /\ t.pump.sends = r.pump.sends
         => PumpFrom(r.pump, t.pump)
  BY DEF PumpFrom, InPump
<1>3. QED
  BY <1>1, <1>2

(* A receive more, or the oldest one less.                                 *)
LEMMA ReadOk ==
    ASSUME NEW h, Consistent(h), NEW c \in Clients, NEW r \in ClientRecords,
           ClientOk(h, c, r), NEW handler \in {"connect", "read"}
    PROVE  ClientOk(h, c, Read(r, handler))
<1> DEFINE t == Read(r, handler)
           new == NewRead(r, handler)
<1>1. /\ t = WithReads(r, t.reads) /\ new.socket = r.socket
      /\ new.result = Pending \/ new.result = Aborted
      /\ OneMore(r.reads, new, t.reads)
  BY ReadIs DEF ClientRecords
<1> HIDE DEF t, new
<1>2. /\ t.socket = r.socket /\ t.open = r.open /\ t.pump = r.pump
      /\ t.m_kcp = r.m_kcp /\ t.m_kcp_timer = r.m_kcp_timer
      /\ t.m_session = r.m_session
  BY <1>1 DEF WithReads, ClientRecords
<1>3. new.result \notin DownData
  BY <1>1, NamesAssumption
<1>4. ReadsFrom(h, r, t.reads)
  <2> SUFFICES ASSUME NEW i \in DOMAIN t.reads
               PROVE  /\ t.reads[i].result \in DownData => DownOk(h, t.reads[i].result)
                      /\ \/ t.reads[i].socket = r.socket
                         \/ \E j \in DOMAIN r.reads : t.reads[i].socket = r.reads[j].socket
    BY DEF ReadsFrom
  <2>1. CASE i \in DOMAIN r.reads /\ t.reads[i] = r.reads[i]
    BY <2>1 DEF ClientOk, ReadsOk
  <2>2. CASE t.reads[i] = new
    BY <1>1, <1>3, <2>2
  <2>3. QED
    BY <1>1, <2>1, <2>2 DEF OneMore
<1>5. PumpFrom(r.pump, t.pump)
  BY <1>2, SameFrom
<1>6. SessionFrom(r, t)
  BY <1>2 DEF SessionFrom
<1>7. QED
  BY <1>4, <1>5, <1>6, ClientOkFrom DEF t

LEMMA WithoutReadOk ==
    ASSUME NEW h, Consistent(h), NEW c \in Clients, NEW r, Sound(c, r),
           ClientOk(h, c, r), r.reads # <<>>
    PROVE  ClientOk(h, c, WithoutRead(r))
<1> DEFINE t == WithoutRead(r)
<1>1. r \in ClientRecords
  BY DEF Sound
<1>2. t = WithReads(r, t.reads) /\ OneLess(r.reads, t.reads)
  BY WithoutReadKeeps
<1> HIDE DEF t
<1>3. /\ t.socket = r.socket /\ t.open = r.open /\ t.pump = r.pump
      /\ t.m_kcp = r.m_kcp /\ t.m_kcp_timer = r.m_kcp_timer
      /\ t.m_session = r.m_session
  BY <1>1, <1>2 DEF WithReads, ClientRecords
<1>4. ReadsFrom(h, r, t.reads)
  BY <1>2 DEF OneLess, ReadsFrom, ClientOk, ReadsOk
<1>5. PumpFrom(r.pump, t.pump)
  BY <1>3, SameFrom
<1>6. SessionFrom(r, t)
  BY <1>3 DEF SessionFrom
<1>7. QED
  BY <1>1, <1>4, <1>5, <1>6, ClientOkFrom DEF t

LEMMA AnsweredOk ==
    ASSUME NEW h, Consistent(h), NEW c \in Clients, NEW r \in ClientRecords,
           ClientOk(h, c, r), NEW succeed \in BOOLEAN
    PROVE  ClientOk(h, c, Answered(r, succeed))
<1> DEFINE t == Answered(r, succeed)
<1>1. /\ t.pump.m_pocket_list = r.pump.m_pocket_list
      /\ t.pump.sends = r.pump.sends
      /\ t.reads = r.reads /\ t.m_kcp = r.m_kcp
      /\ t.m_kcp_timer = r.m_kcp_timer /\ t.open = r.open
      /\ t.socket = r.socket /\ t.m_session = r.m_session
  BY AnsweredIs
<1> HIDE DEF t
<1>2. PumpFrom(r.pump, t.pump) /\ ReadsFrom(h, r, t.reads)
  BY <1>1, SameFrom
<1>3. SessionFrom(r, t)
  BY <1>1 DEF SessionFrom
<1>4. QED
  BY <1>2, <1>3, ClientOkFrom DEF t

LEMMA AsyncOk ==
    ASSUME NEW h, Consistent(h), NEW c \in Clients, NEW r \in ClientRecords,
           ClientOk(h, c, r)
    PROVE  /\ ClientOk(h, c, HandleAsyncConnect(r, FALSE))
           /\ ClientOk(h, c, HandleAsyncConnect(r, TRUE))
           /\ HandleAsyncConnect(r, FALSE).socket = r.socket
           /\ HandleAsyncConnect(r, FALSE).late = r.late
           /\ HandleAsyncConnect(r, TRUE).socket = r.socket
           /\ HandleAsyncConnect(r, TRUE).late = r.late
<1>1. ASSUME NEW succeed \in BOOLEAN
      PROVE  LET t == Answered(r, succeed)
             IN  /\ ClientOk(h, c, t) /\ t \in ClientRecords
                 /\ t.socket = r.socket /\ t.late = r.late
  BY AnsweredOk, AnsweredIs
<1>2. HandleAsyncConnect(r, FALSE) = Answered(r, FALSE)
  BY DEF HandleAsyncConnect, Answered
<1>3. HandleAsyncConnect(r, TRUE) = Read(Answered(r, TRUE), "read")
  BY DEF HandleAsyncConnect, Answered, StartReading
<1> DEFINE t == Answered(r, TRUE)
           u == Read(t, "read")
<1>4. /\ ClientOk(h, c, t) /\ t \in ClientRecords
      /\ t.socket = r.socket /\ t.late = r.late
  BY <1>1
<1> HIDE DEF t
<1>5. ClientOk(h, c, u)
  BY <1>4, ReadOk
<1>6. u = WithReads(t, u.reads)
  BY <1>4, ReadIs
<1> HIDE DEF u
<1>7. u.socket = t.socket /\ u.late = t.late
  BY <1>4, <1>6 DEF WithReads, ClientRecords
<1>8. QED
  BY <1>1, <1>2, <1>3, <1>4, <1>5, <1>7 DEF t, u

(* Close: what is left has no KCP, no socket, and nothing to send.         *)
Shut(t) == ~t.m_kcp_timer /\ ~t.open /\ t.pump.m_pocket_list = <<>>

LEMMA ClosedOk ==
    ASSUME net \subseteq Datagrams, NEW h, Consistent(h), NetOk(h, net),
           NEW c \in Clients, NEW r, r \in ClientRecords, ClientOk(h, c, r),
           NEW t \in Closed(c, r)
    PROVE  /\ ClientOk(h, c, t) /\ t.socket = r.socket /\ t.late = r.late
           /\ t \in ClientRecords
           /\ CloseThrows(r) \/ Shut(t)
<1>1. r.pump \in PumpsOf(UpData)
  BY DEF ClientRecords
<1>2. CASE CloseThrows(r) /\ t = Crashed(r)
  <2>1. /\ t.socket = r.socket /\ t.open = r.open /\ t.reads = r.reads
        /\ t.m_kcp = r.m_kcp /\ t.pump = r.pump
        /\ t.m_kcp_timer = r.m_kcp_timer /\ t.m_session = r.m_session
        /\ t.late = r.late /\ t \in ClientRecords
    BY <1>2 DEF Crashed, ClientRecords
  <2>2. PumpFrom(r.pump, t.pump) /\ ReadsFrom(h, r, t.reads)
    BY <2>1, SameFrom
  <2>3. SessionFrom(r, t)
    BY <2>1 DEF SessionFrom
  <2>4. QED
    BY <1>2, <2>1, <2>2, <2>3, ClientOkFrom
<1>3. ASSUME ~CloseThrows(r), NEW e \in Nat, NEW s \in SettledReads(c, r),
             NEW p \in Settled(r.pump), t = ClosedAs(r, e, s, p)
      PROVE  /\ ClientOk(h, c, t) /\ t.socket = r.socket /\ t.late = r.late
             /\ t \in ClientRecords
             /\ Shut(t)
  <2>1. /\ t \in ClientRecords /\ ~t.open /\ ~t.m_kcp_timer
        /\ t.reads = s /\ t.pump = p /\ t.socket = r.socket /\ t.late = r.late
    BY <1>3, ClosedFields
  <2>2. p.m_pocket_list = <<>> /\ \A d : InPump(d, p) => InPump(d, r.pump)
    BY <1>1, SettledIs
  <2>3. PumpFrom(r.pump, t.pump)
    BY <2>1, <2>2, EmptyIs DEF PumpFrom
  <2>4. /\ DOMAIN s = DOMAIN r.reads
        /\ \A i \in DOMAIN s :
              /\ s[i].socket = r.reads[i].socket
              /\ \/ s[i].result = r.reads[i].result
                 \/ s[i].result = Aborted
                 \/ s[i].result \in DownData /\ s[i].result \in net
    BY SettledReadsIs
  <2>5. Aborted \notin DownData
    BY NamesAssumption
  <2>6. ReadsFrom(h, r, t.reads)
    BY <2>1, <2>4, <2>5 DEF ReadsFrom, ClientOk, ReadsOk, NetOk
  <2>7. SessionFrom(r, t)
    BY <2>1 DEF SessionFrom
  <2>8. QED
    BY <2>1, <2>2, <2>3, <2>6, <2>7, ClientOkFrom DEF Shut
<1>4. QED
  BY <1>2, <1>3, ClosedIs

LEMMA DisconnectOk ==
    ASSUME net \subseteq Datagrams, NEW h, Consistent(h), NetOk(h, net),
           NEW c \in Clients, NEW r, r \in ClientRecords, ClientOk(h, c, r),
           NEW t \in ExecuteDisconnectCallback(c, r)
    PROVE  /\ ClientOk(h, c, t) /\ t.socket = r.socket /\ t.late = r.late
           /\ t \in ClientRecords
           /\ CloseThrows(r) \/ Shut(t)
<1>1. PICK u \in Closed(c, r) :
         t = [u EXCEPT !.reports =
                 IF ClosedBySelf(r) \/ u.crashed THEN @ ELSE Reported(@)]
  BY DEF ExecuteDisconnectCallback
<1>2. /\ ClientOk(h, c, u) /\ u.socket = r.socket /\ u.late = r.late
      /\ u \in ClientRecords
      /\ CloseThrows(r) \/ Shut(u)
  BY ClosedOk
<1>3. /\ t.socket = u.socket /\ t.open = u.open /\ t.reads = u.reads
      /\ t.m_kcp = u.m_kcp /\ t.pump = u.pump
      /\ t.m_kcp_timer = u.m_kcp_timer /\ t.m_session = u.m_session
      /\ t.late = u.late
  BY <1>1, <1>2 DEF ClientRecords
<1>4. PumpFrom(u.pump, t.pump) /\ ReadsFrom(h, u, t.reads)
  BY <1>2, <1>3, SameFrom
<1>5. SessionFrom(u, t)
  BY <1>3 DEF SessionFrom
<1>6. ClientOk(h, c, t)
  BY <1>2, <1>4, <1>5, ClientOkFrom
<1>7. t \in ClientRecords
  <2>1. u.reports \in Reports /\ Reported(u.reports) \in Reports
    BY <1>2 DEF ClientRecords, Reports, Reported
  <2>2. QED
    BY <1>1, <1>2, <2>1 DEF ClientRecords
<1>8. QED
  BY <1>2, <1>3, <1>6, <1>7 DEF Shut

LEMMA TimerOk ==
    ASSUME NEW h, Consistent(h), NEW c \in Clients, NEW r \in ClientRecords,
           ClientOk(h, c, r), NEW t \in CancelTimer(r)
    PROVE  /\ ClientOk(h, c, t) /\ t \in ClientRecords
           /\ t.socket = r.socket /\ t.late = r.late /\ t.open = r.open
           /\ t.reads = r.reads /\ t.m_kcp_timer = r.m_kcp_timer /\ t.m_kcp = r.m_kcp
<1>1. t \in ClientRecords /\ \E e \in Nat : t = Cancelled(r, e)
  BY CancelTimerIs
<1>2. /\ t.socket = r.socket /\ t.open = r.open /\ t.reads = r.reads
      /\ t.m_kcp = r.m_kcp /\ t.pump = r.pump
      /\ t.m_kcp_timer = r.m_kcp_timer /\ t.m_session = r.m_session
      /\ t.late = r.late
  BY <1>1 DEF Cancelled, ClientRecords
<1>3. PumpFrom(r.pump, t.pump) /\ ReadsFrom(h, r, t.reads)
  BY <1>2, SameFrom
<1>4. SessionFrom(r, t)
  BY <1>2 DEF SessionFrom
<1>5. QED
  BY <1>1, <1>2, <1>3, <1>4, ClientOkFrom

(* The KCP of a new session.                                               *)
LEMMA GrantOk ==
    ASSUME NEW h, Consistent(h), NEW c \in Clients, NEW r \in ClientRecords,
           ClientOk(h, c, r), NEW t,
           t.pump = r.pump, t.reads = r.reads, t.socket = r.socket,
           t.open = r.open,
           Claim(h, Endpoint(c, r.socket), t.m_session, t.m_kcp.conv),
           c \notin h.late =>
              /\ NotClosed(h, t.m_session)
              /\ \A d \in h.closes : d.from[1] = c => d.from[2] < r.socket
              /\ \A i \in DOMAIN r.reads : r.reads[i].socket = r.socket
    PROVE  ClientOk(h, c, t)
<1>1. PumpOk(h, c, t.pump)
  BY DEF ClientOk
<1>2. ReadsOk(h, c, t)
  BY DEF ClientOk, ReadsOk
<1>3. SessionOk(h, c, t)
  BY DEF SessionOk
<1>4. SocketOk(h, c, t)
  <2> SUFFICES ASSUME NEW d \in h.closes, d.from[1] = c
               PROVE  /\ d.from[2] <= r.socket
                      /\ d.from[2] = r.socket =>
                            ~r.open /\ (c \notin h.late => ~t.m_kcp_timer)
    BY DEF SocketOk
  <2>1. d.from[2] <= r.socket /\ (d.from[2] = r.socket => ~r.open)
    BY DEF ClientOk, SocketOk
  <2>2. c \notin h.late => d.from[2] # r.socket
    <3>1. d.from[2] \in Nat /\ r.socket \in Nat
      BY DEF Consistent, UpData, Endpoints, ClientRecords
    <3>2. QED
      BY <3>1
  <2>3. QED
    BY <2>1, <2>2
<1>5. QED
  BY <1>1, <1>2, <1>3, <1>4 DEF ClientOk

(* Another session for the KCP there is.                                   *)
LEMMA SessionGiven ==
    ASSUME NEW h, NEW c \in Clients, NEW r, ClientOk(h, c, r), NEW t,
           t.pump = r.pump, t.reads = r.reads, t.socket = r.socket,
           t.open = r.open, t.m_kcp_timer = r.m_kcp_timer,
           r.m_kcp_timer =>
              /\ Claim(h, Endpoint(c, r.socket), t.m_session, t.m_kcp.conv)
              /\ c \notin h.late /\ t.m_session > 0 => NotClosed(h, t.m_session)
    PROVE  ClientOk(h, c, t)
<1>1. PumpOk(h, c, t.pump) /\ ReadsOk(h, c, t) /\ SocketOk(h, c, t)
  BY DEF ClientOk, ReadsOk, SocketOk
<1>2. SessionOk(h, c, t)
  BY DEF SessionOk
<1>3. QED
  BY <1>1, <1>2 DEF ClientOk

-----------------------------------------------------------------------------
(* The steps of a client.                                                  *)

LEMMA HistoryIs ==
    ASSUME NEW own
    PROVE  LET h == History(own)
           IN  /\ h.own = own /\ h.granted = granted /\ h.dropped = dropped
               /\ h.held = Held /\ h.closes = Closes
               /\ \A c \in Clients :
                     /\ h.socket[c] = client[c].socket
                     /\ c \in h.late <=> client[c].late
  BY DEF History

LEMMA HistoryNextIs ==
    ASSUME NEW own
    PROVE  LET h == History(own)'
           IN  /\ h.own = own /\ h.granted = granted' /\ h.dropped = dropped'
               /\ h.held = Held' /\ h.closes = Closes'
               /\ \A c \in Clients :
                     /\ h.socket[c] = client'[c].socket
                     /\ c \in h.late <=> client'[c].late
  BY DEF History

(* What is true of a client before a step of it, and what is to be true    *)
(* after it.                                                               *)
ClientHas(own, c) ==
    /\ LocalOf(c) /\ client = [b \in Clients |-> client[b]]
    /\ Consistent(History(own))
    /\ NetOk(History(own), net)
    /\ ClientOk(History(own), c, client[c])

ClientLeaves(own, c) ==
    /\ Consistent(History(own)')
    /\ Grows(History(own), History(own)')
    /\ NetOk(History(own)', net')
    /\ ClientOk(History(own)', c, client'[c])
    /\ \A b \in Clients \ {c} : /\ client'[b] = client[b]
                                /\ Untouched(History(own), History(own)', b)

LEMMA BecomesIs ==
    ASSUME NEW c \in Clients, client = [b \in Clients |-> client[b]],
           NEW t, Becomes(c, t)
    PROVE  client'[c] = t /\ \A b \in Clients \ {c} : client'[b] = client[b]
  BY DEF Becomes

LEMMA ClosesStay ==
    ASSUME NEW new, net' = net \cup new,
           \A d \in new : ~(d.seg = 0 /\ d.session < 0)
    PROVE  Closes' = Closes
  BY DEF Closes

LEMMA GrowsItself ==
    ASSUME NEW h, Consistent(h)
    PROVE  Grows(h, h) /\ \A c : Untouched(h, h, c)
<1>1. h.granted \in Nat /\ \A c \in Clients : h.socket[c] \in Nat
  BY DEF Consistent
<1>2. QED
  BY <1>1 DEF Grows, Untouched

(* A step of which the others see nothing but datagrams.                   *)
LEMMA Quiet ==
    ASSUME NEW own, NEW c \in Clients, ClientHas(own, c), UNCHANGED serverVars,
           NEW t, Becomes(c, t),
           t.socket = client[c].socket, t.late = client[c].late,
           ClientOk(History(own), c, t),
           NEW new, net' = net \cup new,
           \A d \in new : /\ d \in UpData /\ UpOk(History(own), d)
                          /\ ~(d.seg = 0 /\ d.session < 0)
    PROVE  ClientLeaves(own, c)
<1> DEFINE h == History(own)
           h2 == History(own)'
<1>1. client'[c] = t /\ \A b \in Clients \ {c} : client'[b] = client[b]
  BY BecomesIs DEF ClientHas
<1>2. Closes' = Closes
  BY ClosesStay
<1>3. h2 = h
  <2>1. \A b \in Clients : /\ client'[b].socket = client[b].socket
                           /\ client'[b].late = client[b].late
    BY <1>1
  <2>2. /\ [b \in Clients |-> client'[b].socket] = [b \in Clients |-> client[b].socket]
        /\ {b \in Clients : client'[b].late} = {b \in Clients : client[b].late}
    BY <2>1
  <2>3. granted' = granted /\ dropped' = dropped /\ Held' = Held
    BY DEF serverVars, Held
  <2>4. QED
    BY <1>2, <2>2, <2>3 DEF History
<1>4. Consistent(h) /\ NetOk(h, net) /\ ClientOk(h, c, t)
  BY DEF ClientHas
<1> HIDE DEF h, h2
<1>5. NetOk(h, net')
  <2>1. \A d \in new : d \in UpData /\ UpOk(h, d) /\ d \notin DownData
    <3>1. \A d \in new : d \in UpData /\ UpOk(h, d)
      BY DEF h
    <3>2. QED
      BY <3>1, NamesAssumption DEF UpData, DownData
  <2>2. QED
    BY <1>4, <2>1 DEF NetOk
<1>6. Grows(h, h) /\ \A b : Untouched(h, h, b)
  BY <1>4, GrowsItself
<1>7. QED
  BY <1>1, <1>3, <1>4, <1>5, <1>6 DEF ClientLeaves, h, h2

LEMMA ShutGrows ==
    ASSUME NEW h, NEW h2, Consistent(h), Consistent(h2), Grows(h, h2),
           NEW c \in Clients, NEW t \in ClientRecords, ClientOk(h, c, t), Shut(t),
           h2.socket[c] = t.socket
    PROVE  ClientOk(h2, c, t)
<1>1. t.pump \in PumpsOf(UpData) /\ t.socket \in Nat
  BY DEF ClientRecords
<1>2. ASSUME NEW d, InPump(d, t.pump) PROVE UpOk(h2, d)
  <2>1. d \in UpData
    BY <1>1, <1>2, PumpFields
  <2>2. QED
    BY <1>2, <2>1, UpGrows DEF ClientOk, PumpOk
<1>3. PumpOk(h2, c, t.pump)
  BY <1>2, EmptyIs DEF PumpOk, Shut
<1>4. ReadsOk(h2, c, t)
  <2>1. ResultsOk(h, t)
    BY DEF ClientOk, ReadsOk, ResultsOk
  <2>2. ResultsOk(h2, t)
    BY <2>1, ResultsOkGrows
  <2>3. QED
    BY <2>2 DEF ReadsOk, ResultsOk, Shut
<1>5. SocketOk(h2, c, t)
  BY <1>1 DEF ClientOk, SocketOk, Shut, Grows
<1>6. QED
  BY <1>3, <1>4, <1>5 DEF ClientOk, SessionOk, Shut

(* A client that is connected closes its session: the request says so, and *)
(* it comes from its present socket.                                       *)
LEMMA Ends ==
    ASSUME NEW own, NEW c \in Clients, ClientHas(own, c), UNCHANGED serverVars,
           ~client[c].crashed, NEW t \in ClientRecords, Becomes(c, t),
           t.socket = client[c].socket, t.late = client[c].late,
           ClientOk(History(own), c, t), CloseThrows(client[c]) \/ Shut(t),
           net' = net \cup CloseRequest(c, client[c])
    PROVE  ClientLeaves(own, c)
<1> DEFINE r == client[c]
           d == Datagram(Endpoint(c, r.socket), Server, -r.m_session, r.m_kcp.conv, 0)
           h == History(own)
           h2 == History(own)'
<1>1. /\ Sound(c, r) /\ r \in ClientRecords /\ InSession(r)
      /\ Consistent(h) /\ NetOk(h, net) /\ ClientOk(h, c, r)
  BY DEF ClientHas, LocalOf, Local, Sound
<1>2. CASE ~(r.m_is_connected /\ r.m_kcp # NoKcp /\ r.open)
  <2>1. PICK new : new = {} /\ net' = net \cup new
    BY <1>2 DEF CloseRequest
  <2>2. \A e \in new : /\ e \in UpData /\ UpOk(History(own), e)
                       /\ ~(e.seg = 0 /\ e.session < 0)
    BY <2>1
  <2>3. QED
    BY <2>1, <2>2, Quiet
<1>3. CASE r.m_is_connected /\ r.m_kcp # NoKcp /\ r.open
  <2>1. net' = net \cup {d} /\ Shut(t)
    BY <1>3 DEF CloseRequest, CloseThrows
  <2>2. r.m_session > 0 /\ r.m_kcp_timer
    BY <1>1, <1>3 DEF InSession
  <2>3. /\ r.socket \in Nat /\ r.m_session \in Int /\ r.m_kcp.conv \in Nat
        /\ -r.m_session \in Int /\ -r.m_session < 0 /\ -(-r.m_session) = r.m_session
    <3>1. /\ r.socket \in Nat /\ r.m_session \in Int /\ r.m_kcp \in Kcps
      BY <1>1 DEF ClientRecords
    <3>2. r.m_kcp.conv \in Nat
      BY <3>1 DEF Kcps
    <3>3. \A n \in Int : n > 0 => -n \in Int /\ -n < 0 /\ -(-n) = n
      OBVIOUS
    <3>4. QED
      BY <2>2, <3>1, <3>2, <3>3
  <2>4. Claim(h, Endpoint(c, r.socket), r.m_session, r.m_kcp.conv)
    BY <1>1, <2>2 DEF ClientOk, SessionOk
  <2>5. /\ Endpoint(c, r.socket) \in Endpoints
        /\ Endpoint(c, r.socket)[1] = c /\ Endpoint(c, r.socket)[2] = r.socket
    BY <2>3 DEF Endpoint, Endpoints
  <2>6. /\ d \in UpData /\ d.to = Server /\ d.seg = 0 /\ d.session = -r.m_session
        /\ d.from = Endpoint(c, r.socket) /\ d.conv = r.m_kcp.conv
    BY <2>3, <2>5 DEF Datagram, UpData
  <2> HIDE DEF d
  <2>7. Closes' = Closes \cup {d}
    BY <2>1, <2>3, <2>6 DEF Closes
  <2>8. client'[c] = t /\ \A b \in Clients \ {c} : client'[b] = client[b]
    BY BecomesIs DEF ClientHas
  <2>9. /\ h2.own = h.own /\ h2.granted = h.granted /\ h2.dropped = h.dropped
        /\ h2.held = h.held /\ h2.closes = h.closes \cup {d}
        /\ \A b \in Clients : /\ h2.socket[b] = h.socket[b]
                              /\ b \in h2.late <=> b \in h.late
    <3>1. granted' = granted /\ dropped' = dropped /\ Held' = Held
      BY DEF serverVars, Held
    <3>2. \A b \in Clients : /\ client'[b].socket = client[b].socket
                             /\ client'[b].late <=> client[b].late
      BY <2>8
    <3>3. QED
      BY <2>7, <3>1, <3>2, HistoryIs, HistoryNextIs
  <2>10. h.socket[c] = r.socket /\ h2.late = h.late
    <3>1. h.socket[c] = r.socket
      BY HistoryIs
    <3>2. h.late \subseteq Clients /\ h2.late \subseteq Clients
      BY DEF History
    <3>3. QED
      BY <2>9, <3>1, <3>2
  <2>11. r.m_session <= h.granted /\ h.own[r.m_session][1] = c
    BY <2>2, <2>4, <2>5 DEF Claim
  <2> HIDE DEF h, h2
  <2>12. Consistent(h2)
    BY <1>1, <2>3, <2>5, <2>6, <2>9, <2>11 DEF Consistent
  <2>13. Grows(h, h2)
    <3>1. /\ \A b \in Clients : h.socket[b] <= h2.socket[b]
          /\ h.granted <= h2.granted
      BY <1>1, <2>9 DEF Consistent
    <3>2. d.from[2] = h2.socket[d.from[1]]
      BY <2>5, <2>6, <2>9, <2>10
    <3>3. QED
      BY <2>9, <2>10, <3>1, <3>2 DEF Grows
  <2>14. UpOk(h2, d)
    <3>1. Over(h2, r.m_session)
      BY <2>6, <2>9 DEF Over, NotClosed
    <3>2. r.socket <= h2.socket[c]
      BY <2>3, <2>9, <2>10
    <3>3. QED
      BY <2>3, <2>5, <2>6, <3>1, <3>2 DEF UpOk, Claim
  <2>15. NetOk(h2, net')
    <3>1. NetOk(h2, net)
      BY <1>1, <2>12, <2>13, NetGrows
    <3>2. d \notin DownData
      BY <2>6, NamesAssumption DEF UpData, DownData
    <3>3. QED
      BY <2>1, <2>14, <3>1, <3>2 DEF NetOk
  <2>16. ClientOk(h2, c, t)
    <3>1. ClientOk(h, c, t) /\ h2.socket[c] = t.socket
      BY <2>9, <2>10 DEF h
    <3>2. QED
      BY <1>1, <2>1, <2>12, <2>13, <3>1, ShutGrows
  <2>17. \A b \in Clients \ {c} : Untouched(h, h2, b)
    BY <2>5, <2>6, <2>9 DEF Untouched
  <2>18. QED
    BY <2>8, <2>12, <2>13, <2>15, <2>16, <2>17 DEF ClientLeaves, h, h2
<1>4. QED
  BY <1>2, <1>3

(* What waits in the list of a pump waited there before, or was given to   *)
(* it.                                                                     *)
LEMMA NextSendList ==
    ASSUME NEW S, NEW p \in PumpsOf(S), NEW socket
    PROVE  \A i \in DOMAIN NextSend(p, socket).m_pocket_list :
              \E j \in DOMAIN p.m_pocket_list :
                 NextSend(p, socket).m_pocket_list[i] = p.m_pocket_list[j]
<1> DEFINE list == p.m_pocket_list
           q == NextSend(p, socket)
<1>1. list \in Seq(S)
  BY PumpFields
<1>2. CASE list = <<>> \/ ~socket
  <2>1. q = [p EXCEPT !.m_executing = FALSE]
    BY <1>2 DEF NextSend
  <2>2. q.m_pocket_list = list
    BY <2>1 DEF PumpsOf
  <2>3. QED
    BY <2>2
<1>3. CASE list # <<>> /\ socket
  <2> DEFINE rest == Tail(list)
             sends == Append(p.sends, [packet |-> Head(list), result |-> "pending"])
  <2>1. \A i \in DOMAIN rest : i + 1 \in DOMAIN list /\ rest[i] = list[i + 1]
    BY <1>1, <1>3, TailIs
  <2>2. q = [p EXCEPT !.m_pocket_list = rest, !.sends = sends]
    BY <1>3 DEF NextSend
  <2> HIDE DEF rest, sends
  <2>3. q.m_pocket_list = rest
    BY <2>2 DEF PumpsOf
  <2>4. QED
    BY <2>1, <2>3
<1>4. QED
  BY <1>2, <1>3

LEMMA SendPocketList ==
    ASSUME NEW S, NEW p \in PumpsOf(S), NEW socket, NEW packet \in S
    PROVE  LET q == SendPocket(p, packet, socket)
           IN  \A i \in DOMAIN q.m_pocket_list :
                  \/ q.m_pocket_list[i] = packet
                  \/ \E j \in DOMAIN p.m_pocket_list :
                        q.m_pocket_list[i] = p.m_pocket_list[j]
<1> DEFINE list == Append(p.m_pocket_list, packet)
           q == [p EXCEPT !.m_pocket_list = list]
           u == [q EXCEPT !.m_executing = TRUE]
<1>1. p.m_pocket_list \in Seq(S)
  BY PumpFields
<1>2. /\ list \in Seq(S)
      /\ \A i \in DOMAIN list :
            \/ i \in DOMAIN p.m_pocket_list /\ list[i] = p.m_pocket_list[i]
            \/ list[i] = packet
  BY <1>1, AppendIs
<1>3. SendPocket(p, packet, socket) = IF p.m_executing THEN q ELSE NextSend(u, socket)
  BY DEF SendPocket
<1> HIDE DEF list
<1>4. /\ q.m_pocket_list = list
      /\ u \in PumpsOf(S) /\ u.m_pocket_list = list
  BY <1>2 DEF PumpsOf
<1> HIDE DEF q, u
<1>5. \A i \in DOMAIN NextSend(u, socket).m_pocket_list :
         \E j \in DOMAIN list : NextSend(u, socket).m_pocket_list[i] = list[j]
  BY <1>4, NextSendList
<1>6. CASE p.m_executing
  <2>1. SendPocket(p, packet, socket) = q
    BY <1>3, <1>6
  <2>2. QED
    BY <1>2, <1>4, <2>1
<1>7. CASE ~p.m_executing
  <2> DEFINE v == NextSend(u, socket)
  <2>1. SendPocket(p, packet, socket) = v
    BY <1>3, <1>7
  <2> HIDE DEF v
  <2>2. \A i \in DOMAIN v.m_pocket_list :
           \E j \in DOMAIN list : v.m_pocket_list[i] = list[j]
    BY <1>5 DEF v
  <2>3. QED
    BY <1>2, <2>1, <2>2
<1>8. QED
  BY <1>6, <1>7

LEMMA LongerList ==
    ASSUME NEW S, NEW p \in PumpsOf(S), NEW rest \in Seq(S)
    PROVE  LET q == Longer(p, rest)
           IN  \A i \in DOMAIN q.m_pocket_list :
                  \/ \E j \in DOMAIN rest : q.m_pocket_list[i] = rest[j]
                  \/ \E j \in DOMAIN p.m_pocket_list :
                        q.m_pocket_list[i] = p.m_pocket_list[j]
<1>1. PICK kept \in Seq(S) : kept = p.m_pocket_list
  BY PumpFields
<1> DEFINE list == kept \o rest
           q == [p EXCEPT !.m_pocket_list = list]
<1>2. /\ list \in Seq(S)
      /\ \A i \in DOMAIN list :
            \/ \E j \in DOMAIN kept : list[i] = kept[j]
            \/ \E j \in DOMAIN rest : list[i] = rest[j]
  BY ConcatElements
<1>3. Longer(p, rest) = q
  BY <1>1 DEF Longer
<1> HIDE DEF list
<1>4. q.m_pocket_list = list
  BY <1>2 DEF PumpsOf
<1> HIDE DEF q
<1>5. QED
  BY <1>1, <1>2, <1>3, <1>4

LEMMA SendAllList ==
    ASSUME NEW S, NEW p \in PumpsOf(S), NEW socket \in BOOLEAN, NEW packets \in Seq(S)
    PROVE  LET q == SendAll(p, packets, socket)
           IN  \A i \in DOMAIN q.m_pocket_list :
                  \/ \E j \in DOMAIN packets : q.m_pocket_list[i] = packets[j]
                  \/ \E j \in DOMAIN p.m_pocket_list :
                        q.m_pocket_list[i] = p.m_pocket_list[j]
<1>1. CASE packets = <<>>
  BY <1>1 DEF SendAll
<1>2. CASE packets # <<>>
  <2> DEFINE first == SendPocket(p, Head(packets), socket)
             rest == Tail(packets)
             q == Longer(first, rest)
  <2>1. /\ rest \in Seq(S) /\ Head(packets) \in S
        /\ Head(packets) = packets[1] /\ 1 \in DOMAIN packets
        /\ \A i \in DOMAIN rest :
              i + 1 \in DOMAIN packets /\ rest[i] = packets[i + 1]
    BY <1>2, TailIs
  <2>2. first \in PumpsOf(S)
    BY <2>1, SendPocketIs
  <2>3. \A i \in DOMAIN first.m_pocket_list :
           \/ first.m_pocket_list[i] = Head(packets)
           \/ \E j \in DOMAIN p.m_pocket_list :
                 first.m_pocket_list[i] = p.m_pocket_list[j]
    BY <2>1, SendPocketList
  <2>4. SendAll(p, packets, socket) = q
    BY <1>2 DEF SendAll, Longer
  <2> HIDE DEF first, rest
  <2>5. \A i \in DOMAIN q.m_pocket_list :
           \/ \E j \in DOMAIN rest : q.m_pocket_list[i] = rest[j]
           \/ \E j \in DOMAIN first.m_pocket_list :
                 q.m_pocket_list[i] = first.m_pocket_list[j]
    BY <2>1, <2>2, LongerList
  <2> HIDE DEF q
  <2>6. \A i \in DOMAIN q.m_pocket_list :
           \/ \E j \in DOMAIN packets : q.m_pocket_list[i] = packets[j]
           \/ \E j \in DOMAIN p.m_pocket_list :
                 q.m_pocket_list[i] = p.m_pocket_list[j]
    BY <2>1, <2>3, <2>5
  <2>7. QED
    BY <2>4, <2>6
<1>3. QED
  BY <1>1, <1>2

-----------------------------------------------------------------------------
(* Each step of a client, but Connect and the answer to it.                *)

LEMMA SameOk ==
    ASSUME NEW h, Consistent(h), NEW c \in Clients, NEW r \in ClientRecords, NEW t,
           ClientOk(h, c, r),
           t.pump = r.pump, t.reads = r.reads, t.socket = r.socket,
           t.open = r.open, t.m_kcp_timer = r.m_kcp_timer,
           t.m_session = r.m_session, t.m_kcp.conv = r.m_kcp.conv
    PROVE  ClientOk(h, c, t)
<1>1. PumpFrom(r.pump, t.pump) /\ ReadsFrom(h, r, t.reads)
  BY SameFrom
<1>2. SessionFrom(r, t)
  BY DEF SessionFrom
<1>3. QED
  BY <1>1, <1>2, ClientOkFrom

LEMMA QuietNet ==
    ASSUME NEW own, NEW c \in Clients, ClientHas(own, c), UNCHANGED serverVars,
           NEW t, Becomes(c, t), net' = net,
           t.socket = client[c].socket, t.late = client[c].late,
           ClientOk(History(own), c, t)
    PROVE  ClientLeaves(own, c)
<1>1. PICK new : new = {}
  OBVIOUS
<1>2. net' = net \cup new
  BY <1>1
<1>3. \A e \in new : /\ e \in UpData /\ UpOk(History(own), e)
                     /\ ~(e.seg = 0 /\ e.session < 0)
  BY <1>1
<1>4. QED
  BY <1>2, <1>3, Quiet

(* What ClientHas says, of the record.                                     *)
LEMMA HasIs ==
    ASSUME NEW own, NEW c \in Clients, ClientHas(own, c)
    PROVE  /\ Sound(c, client[c]) /\ client[c] \in ClientRecords
           /\ InSession(client[c]) /\ Local(c, client[c])
           /\ net \subseteq Datagrams
           /\ Consistent(History(own)) /\ NetOk(History(own), net)
           /\ ClientOk(History(own), c, client[c])
  BY DEF ClientHas, LocalOf, Local, Sound

LEMMA TimedLeaves ==
    ASSUME NEW own, NEW c \in Clients, ClientHas(own, c), UNCHANGED serverVars,
           HandlePosted(c) \/ HandleConnectTimeout(c)
    PROVE  ClientLeaves(own, c)
<1> DEFINE r == client[c]
<1>1. /\ r \in ClientRecords /\ Consistent(History(own))
      /\ ClientOk(History(own), c, r)
  BY HasIs
<1>2. PICK v \in { [r EXCEPT !.posted = @ - 1], [r EXCEPT !.expired = @ - 1],
                   [r EXCEPT !.m_connect_timer = "spent"]} :
         /\ Becomes(c, HandleAsyncConnect(v, FALSE)) /\ net' = net
         /\ v \in ClientRecords
  <2>1. CASE HandlePosted(c)
    <3>1. r.posted \in Nat /\ r.posted > 0 /\ r.posted - 1 \in Nat
      BY <1>1, <2>1 DEF HandlePosted, ClientRecords
    <3>2. [r EXCEPT !.posted = r.posted - 1] \in ClientRecords
      BY <1>1, <3>1 DEF ClientRecords
    <3>3. QED
      BY <2>1, <3>2 DEF HandlePosted
  <2>2. CASE HandleConnectTimeout(c)
    <3>1. [r EXCEPT !.m_connect_timer = "spent"] \in ClientRecords
      BY <1>1 DEF ClientRecords
    <3>2. ASSUME r.expired > 0
          PROVE  [r EXCEPT !.expired = r.expired - 1] \in ClientRecords
      <4>1. r.expired \in Nat /\ r.expired - 1 \in Nat
        BY <1>1, <3>2 DEF ClientRecords
      <4>2. QED
        BY <1>1, <4>1 DEF ClientRecords
    <3>3. QED
      BY <2>2, <3>1, <3>2 DEF HandleConnectTimeout
  <2>3. QED
    BY <2>1, <2>2
<1>3. /\ v.pump = r.pump /\ v.reads = r.reads /\ v.socket = r.socket
      /\ v.open = r.open /\ v.m_kcp_timer = r.m_kcp_timer
      /\ v.m_session = r.m_session /\ v.m_kcp = r.m_kcp /\ v.late = r.late
  BY <1>1, <1>2 DEF ClientRecords
<1>4. ClientOk(History(own), c, v)
  BY <1>1, <1>3, SameOk
<1> DEFINE t == HandleAsyncConnect(v, FALSE)
<1>5. ClientOk(History(own), c, t) /\ t.socket = v.socket /\ t.late = v.late
  BY <1>1, <1>2, <1>4, AsyncOk
<1> HIDE DEF t
<1>6. Becomes(c, t) /\ net' = net
  BY <1>2 DEF t
<1>7. QED
  BY <1>3, <1>5, <1>6, QuietNet

LEMMA ConnectNowhereLeaves ==
    ASSUME NEW own, NEW c \in Clients, ClientHas(own, c), UNCHANGED serverVars,
           ConnectNowhere(c)
    PROVE  ClientLeaves(own, c)
<1> DEFINE r == client[c]
           t == [r EXCEPT !.posted = @ + 1, !.connects = @ + 1]
<1>1. /\ r \in ClientRecords /\ Consistent(History(own))
      /\ ClientOk(History(own), c, r)
  BY HasIs
<1>2. Becomes(c, t) /\ net' = net
  BY DEF ConnectNowhere
<1>3. /\ t.pump = r.pump /\ t.reads = r.reads /\ t.socket = r.socket
      /\ t.open = r.open /\ t.m_kcp_timer = r.m_kcp_timer
      /\ t.m_session = r.m_session /\ t.m_kcp = r.m_kcp /\ t.late = r.late
  BY <1>1 DEF ClientRecords
<1> HIDE DEF t
<1>4. ClientOk(History(own), c, t)
  BY <1>1, <1>3, SameOk
<1>5. QED
  BY <1>2, <1>3, <1>4, QuietNet

LEMMA SendPocketLeaves ==
    ASSUME NEW own, NEW c \in Clients, ClientHas(own, c), UNCHANGED serverVars,
           ClientSendPocket(c)
    PROVE  ClientLeaves(own, c)
<1> DEFINE r == client[c]
           kcp == [r.m_kcp EXCEPT !.queued = @ + 1]
           t == [r EXCEPT !.m_kcp = kcp]
<1>1. /\ r \in ClientRecords /\ Consistent(History(own))
      /\ ClientOk(History(own), c, r)
  BY HasIs
<1>2. Becomes(c, t) /\ net' = net
  BY DEF ClientSendPocket
<1>3. kcp.conv = r.m_kcp.conv
  BY <1>1 DEF ClientRecords, Kcps
<1> HIDE DEF kcp
<1>4. /\ t.pump = r.pump /\ t.reads = r.reads /\ t.socket = r.socket
      /\ t.open = r.open /\ t.m_kcp_timer = r.m_kcp_timer
      /\ t.m_session = r.m_session /\ t.m_kcp = kcp /\ t.late = r.late
  BY <1>1 DEF ClientRecords
<1> HIDE DEF t
<1>5. ClientOk(History(own), c, t)
  BY <1>1, <1>3, <1>4, SameOk
<1>6. QED
  BY <1>2, <1>4, <1>5, QuietNet

LEMMA CloseLeaves ==
    ASSUME NEW own, NEW c \in Clients, ClientHas(own, c), UNCHANGED serverVars,
           ClientClose(c)
    PROVE  ClientLeaves(own, c)
<1> DEFINE r == client[c]
<1>1. /\ r \in ClientRecords /\ Consistent(History(own)) /\ net \subseteq Datagrams
      /\ NetOk(History(own), net) /\ ClientOk(History(own), c, r)
  BY HasIs
<1>2. PICK u \in Closed(c, r) : Becomes(c, ByApplication(u))
  BY DEF ClientClose
<1>3. /\ ~r.crashed /\ net' = net \cup CloseRequest(c, r)
  BY DEF ClientClose, Transmit
<1> DEFINE t == ByApplication(u)
           h == History(own)
<1>4. /\ ClientOk(History(own), c, t) /\ t.socket = r.socket /\ t.late = r.late
      /\ t \in ClientRecords
      /\ CloseThrows(r) \/ Shut(t)
  <2>1. /\ ClientOk(h, c, u) /\ u.socket = r.socket /\ u.late = r.late
        /\ u \in ClientRecords
        /\ CloseThrows(r) \/ Shut(u)
    BY <1>1, <1>2, ClosedOk
  <2>2. /\ t \in ClientRecords
        /\ t.socket = u.socket /\ t.open = u.open /\ t.reads = u.reads
        /\ t.m_kcp = u.m_kcp /\ t.pump = u.pump
        /\ t.m_kcp_timer = u.m_kcp_timer /\ t.m_session = u.m_session
        /\ t.late = u.late /\ t.m_is_connected = u.m_is_connected
        /\ t.m_is_connecting = u.m_is_connecting
    BY <2>1, ByApplicationIs
  <2> HIDE DEF t, h
  <2>3. PumpFrom(u.pump, t.pump) /\ ReadsFrom(h, u, t.reads)
    BY <2>1, <2>2, SameFrom
  <2>4. SessionFrom(u, t)
    BY <2>2 DEF SessionFrom
  <2>5. ClientOk(h, c, t)
    BY <1>1, <2>1, <2>2, <2>3, <2>4, ClientOkFrom DEF h
  <2>6. QED
    BY <2>1, <2>2, <2>5 DEF Shut, h
<1>5. QED
  BY <1>2, <1>3, <1>4, Ends

LEMMA UpdateLeaves ==
    ASSUME NEW own, NEW c \in Clients, ClientHas(own, c), UNCHANGED serverVars,
           ClientUpdateKcp(c)
    PROVE  ClientLeaves(own, c)
<1> DEFINE r == client[c]
           h == History(own)
           n == r.m_kcp.queued - r.m_kcp.output
           kcp == [r.m_kcp EXCEPT !.output = r.m_kcp.queued]
           segments == [i \in 1 .. n |->
                          Datagram(Endpoint(c, r.socket), Server, r.m_session,
                                   r.m_kcp.conv, r.m_kcp.output + i)]
           q == SendAll(r.pump, segments, TRUE)
           t == [r EXCEPT !.m_kcp = kcp, !.pump = q]
<1>1. /\ r \in ClientRecords /\ Consistent(h) /\ ClientOk(h, c, r)
      /\ net' = net /\ r.m_kcp.output < r.m_kcp.queued /\ r.m_kcp_timer
  BY HasIs DEF ClientUpdateKcp
<1>2. /\ r.m_kcp \in Kcps /\ r.socket \in Nat /\ r.m_session \in Int
      /\ r.pump \in PumpsOf(UpData)
  BY <1>1 DEF ClientRecords
<1>3. /\ r.m_kcp.queued \in Nat /\ r.m_kcp.output \in Nat /\ r.m_kcp.conv \in Nat
  BY <1>2 DEF Kcps
<1>4. n \in Nat
  BY <1>1, <1>3
<1>5. Becomes(c, t)
  <2>1. Becomes(c, [r EXCEPT !.m_kcp.output = r.m_kcp.queued,
                             !.pump = SendAll(@, segments, TRUE)])
    BY DEF ClientUpdateKcp
  <2>2. [r EXCEPT !.m_kcp.output = r.m_kcp.queued,
                  !.pump = SendAll(@, segments, TRUE)] = t
    BY <1>1 DEF ClientRecords
  <2>3. QED
    BY <2>1, <2>2
<1>6. \A i \in 1 .. n : /\ segments[i] \in UpData
                        /\ segments[i].from = Endpoint(c, r.socket)
                        /\ segments[i].session = r.m_session
                        /\ segments[i].conv = r.m_kcp.conv
  <2> SUFFICES ASSUME NEW i \in 1 .. n
               PROVE  /\ segments[i] \in UpData
                      /\ segments[i].from = Endpoint(c, r.socket)
                      /\ segments[i].session = r.m_session
                      /\ segments[i].conv = r.m_kcp.conv
    OBVIOUS
  <2> DEFINE e == Endpoint(c, r.socket)
             k == r.m_kcp.output + i
  <2>1. e \in Endpoints
    BY <1>2 DEF Endpoint, Endpoints
  <2>2. k \in Nat
    BY <1>3, <1>4
  <2>3. segments[i] = Datagram(e, Server, r.m_session, r.m_kcp.conv, k)
    OBVIOUS
  <2> HIDE DEF e, k, segments
  <2>4. QED
    BY <1>2, <1>3, <2>1, <2>2, <2>3 DEF Datagram, UpData, e
<1>7. DOMAIN segments = 1 .. n /\ segments = [i \in 1 .. n |-> segments[i]]
  OBVIOUS
<1>8. kcp.conv = r.m_kcp.conv
  BY <1>2 DEF Kcps
<1> HIDE DEF segments, kcp
<1>9. segments \in [1 .. n -> UpData]
  BY <1>6, <1>7
<1> HIDE DEF n
<1>10. segments \in Seq(UpData)
  BY <1>4, <1>9, FunctionIsSeq
<1>11. /\ \A d : InPump(d, q) =>
             InPump(d, r.pump) \/ \E i \in DOMAIN segments : segments[i] = d
       /\ \A i \in DOMAIN q.m_pocket_list :
             \/ \E j \in DOMAIN segments : q.m_pocket_list[i] = segments[j]
             \/ \E j \in DOMAIN r.pump.m_pocket_list :
                   q.m_pocket_list[i] = r.pump.m_pocket_list[j]
  <2>1. ASSUME NEW socket \in BOOLEAN
        PROVE  LET w == SendAll(r.pump, segments, socket)
               IN  /\ \A d : InPump(d, w) =>
                         InPump(d, r.pump) \/ \E i \in DOMAIN segments : segments[i] = d
                   /\ \A i \in DOMAIN w.m_pocket_list :
                         \/ \E j \in DOMAIN segments : w.m_pocket_list[i] = segments[j]
                         \/ \E j \in DOMAIN r.pump.m_pocket_list :
                               w.m_pocket_list[i] = r.pump.m_pocket_list[j]
    <3>1. LET w == SendAll(r.pump, segments, socket)
          IN  \A d : InPump(d, w) =>
                  InPump(d, r.pump) \/ \E i \in DOMAIN segments : segments[i] = d
      BY <1>2, <1>10, SendAllIs
    <3>2. LET w == SendAll(r.pump, segments, socket)
          IN  \A i \in DOMAIN w.m_pocket_list :
                 \/ \E j \in DOMAIN segments : w.m_pocket_list[i] = segments[j]
                 \/ \E j \in DOMAIN r.pump.m_pocket_list :
                       w.m_pocket_list[i] = r.pump.m_pocket_list[j]
      BY <1>2, <1>10, SendAllList
    <3>3. QED
      BY <3>1, <3>2
  <2>2. QED
    BY <2>1
<1> HIDE DEF q
<1>12. /\ t.pump = q /\ t.reads = r.reads /\ t.socket = r.socket
       /\ t.open = r.open /\ t.m_kcp_timer = r.m_kcp_timer
       /\ t.m_session = r.m_session /\ t.m_kcp = kcp /\ t.late = r.late
  BY <1>1 DEF ClientRecords
<1> HIDE DEF t
<1>13. /\ Claim(h, Endpoint(c, r.socket), r.m_session, r.m_kcp.conv)
       /\ c \notin h.late /\ r.m_session > 0 => NotClosed(h, r.m_session)
  BY <1>1 DEF ClientOk, SessionOk
<1> HIDE DEF h
<1>14. PumpOk(h, c, q)
  <2>1. ASSUME NEW d, InPump(d, q) PROVE UpOk(h, d)
    <3>1. CASE InPump(d, r.pump)
      BY <1>1, <3>1 DEF ClientOk, PumpOk
    <3>2. ASSUME NEW i \in DOMAIN segments, segments[i] = d
          PROVE  UpOk(h, d)
      BY <1>6, <1>7, <1>13, <3>2 DEF UpOk
    <3>3. QED
      BY <1>11, <2>1, <3>1, <3>2
  <2>2. ASSUME c \notin h.late, NEW i \in DOMAIN q.m_pocket_list,
               q.m_pocket_list[i].session > 0
        PROVE  NotClosed(h, q.m_pocket_list[i].session)
    <3>1. ASSUME NEW j \in DOMAIN segments, q.m_pocket_list[i] = segments[j]
          PROVE  NotClosed(h, q.m_pocket_list[i].session)
      BY <1>6, <1>7, <1>13, <2>2, <3>1
    <3>2. ASSUME NEW j \in DOMAIN r.pump.m_pocket_list,
                 q.m_pocket_list[i] = r.pump.m_pocket_list[j]
          PROVE  NotClosed(h, q.m_pocket_list[i].session)
      BY <1>1, <2>2, <3>2 DEF ClientOk, PumpOk
    <3>3. QED
      BY <1>11, <3>1, <3>2
  <2>3. QED
    BY <2>1, <2>2 DEF PumpOk
<1>15. ClientOk(h, c, t)
  BY <1>1, <1>8, <1>12, <1>14 DEF ClientOk, ReadsOk, SessionOk, SocketOk
<1>16. QED
  BY <1>1, <1>5, <1>12, <1>15, QuietNet DEF h

LEMMA HandleSendLeaves ==
    ASSUME NEW own, NEW c \in Clients, ClientHas(own, c), UNCHANGED serverVars,
           ClientHandleSend(c)
    PROVE  ClientLeaves(own, c)
<1> DEFINE r == client[c]
           h == History(own)
           p == Completed(r.pump)
           t == [r EXCEPT !.pump = p]
           q == NextSend(p, TRUE)
<1>1. /\ Sound(c, r) /\ r \in ClientRecords /\ ~r.crashed /\ net \subseteq Datagrams
      /\ Consistent(h) /\ NetOk(h, net) /\ ClientOk(h, c, r)
      /\ r.pump \in PumpsOf(UpData) /\ PumpLocal(c, r.pump)
  BY HasIs DEF Sound, ClientHandleSend, ClientRecords
<1>2. PICK result \in Results(r.pump) :
         IF result = "sent"
           THEN /\ Becomes(c, [t EXCEPT !.pump = NextSend(@, TRUE)])
                /\ Transmit({Head(r.pump.sends).packet})
           ELSE /\ \E u \in ExecuteDisconnectCallback(c, t) : Becomes(c, u)
                /\ Transmit(CloseRequest(c, r))
  <2>1. [r EXCEPT !.pump = Completed(@)] = t
    OBVIOUS
  <2>2. QED
    BY <2>1 DEF ClientHandleSend
<1>3. r.pump.sends # <<>>
  BY DEF Results
<1>4. /\ p \in PumpsOf(UpData) /\ p.m_pocket_list = r.pump.m_pocket_list
      /\ \A d : InPump(d, p) => InPump(d, r.pump)
      /\ InPump(Head(r.pump.sends).packet, r.pump)
  BY <1>1, <1>3, CompletedIs
<1> HIDE DEF p
<1>5. t \in ClientRecords
  BY <1>1, <1>4 DEF ClientRecords
<1>6. /\ t.pump = p /\ t.reads = r.reads /\ t.socket = r.socket
      /\ t.open = r.open /\ t.m_kcp_timer = r.m_kcp_timer /\ t.late = r.late
      /\ t.m_session = r.m_session /\ t.m_kcp = r.m_kcp
      /\ t.m_is_connected = r.m_is_connected
  BY <1>1 DEF ClientRecords
<1>7. PumpFrom(r.pump, p)
  BY <1>4 DEF PumpFrom
<1> HIDE DEF h, t
<1>8. ClientOk(h, c, t)
  <2>1. ReadsFrom(h, r, t.reads)
    BY <1>1, <1>6, SameFrom
  <2>2. SessionFrom(r, t)
    BY <1>6 DEF SessionFrom
  <2>3. QED
    BY <1>1, <1>6, <1>7, <2>1, <2>2, ClientOkFrom
<1>9. CASE result = "sent"
  <2> DEFINE u == [t EXCEPT !.pump = q]
             d == Head(r.pump.sends).packet
  <2>1. Becomes(c, u) /\ net' = net \cup {d}
    BY <1>2, <1>6, <1>9 DEF Transmit
  <2>2. PumpFrom(p, q)
    <3>1. ASSUME NEW socket \in BOOLEAN
          PROVE  \A e : InPump(e, NextSend(p, socket)) => InPump(e, p)
      BY <1>4, NextSendIs
    <3>2. \A e : InPump(e, q) => InPump(e, p)
      BY <3>1
    <3>3. ASSUME NEW socket \in BOOLEAN
          PROVE  LET v == NextSend(p, socket)
                 IN  \A i \in DOMAIN v.m_pocket_list :
                        \E j \in DOMAIN p.m_pocket_list :
                           v.m_pocket_list[i] = p.m_pocket_list[j]
      BY <1>4, NextSendList
    <3>5. \A i \in DOMAIN q.m_pocket_list :
             \E j \in DOMAIN p.m_pocket_list : q.m_pocket_list[i] = p.m_pocket_list[j]
      BY <3>3
    <3> HIDE DEF q
    <3>4. QED
      BY <3>2, <3>5 DEF PumpFrom
  <2>3. d \in UpData /\ UpOk(h, d) /\ d.seg # 0
    <3>1. InPump(d, r.pump)
      BY <1>4
    <3> HIDE DEF d
    <3>2. QED
      BY <1>1, <3>1, PumpFields DEF ClientOk, PumpOk, PumpLocal
  <2> HIDE DEF q, d
  <2>4. /\ u.pump = q /\ u.reads = t.reads /\ u.socket = t.socket
        /\ u.open = t.open /\ u.m_kcp_timer = t.m_kcp_timer /\ u.late = t.late
        /\ u.m_session = t.m_session /\ u.m_kcp = t.m_kcp
    BY <1>5 DEF ClientRecords
  <2> HIDE DEF u
  <2>5. ClientOk(h, c, u)
    <3>1. ReadsFrom(h, t, u.reads)
      BY <1>8, <2>4, SameFrom
    <3>2. SessionFrom(t, u)
      BY <2>4 DEF SessionFrom
    <3>3. QED
      BY <1>1, <1>5, <1>6, <1>8, <2>2, <2>4, <3>1, <3>2, ClientOkFrom
  <2>6. PICK new : new = {d} /\ net' = net \cup new
    BY <2>1
  <2>7. \A e \in new : /\ e \in UpData /\ UpOk(History(own), e)
                       /\ ~(e.seg = 0 /\ e.session < 0)
    BY <2>3, <2>6 DEF h
  <2>8. u.socket = r.socket /\ u.late = r.late
    BY <1>6, <2>4
  <2>9. QED
    BY <2>1, <2>5, <2>6, <2>7, <2>8, Quiet DEF h
<1>10. CASE result # "sent"
  <2>1. PICK u \in ExecuteDisconnectCallback(c, t) : Becomes(c, u)
    BY <1>2, <1>10
  <2>2. /\ ClientOk(h, c, u) /\ u.socket = t.socket /\ u.late = t.late
        /\ u \in ClientRecords
        /\ CloseThrows(t) \/ Shut(u)
    BY <1>1, <1>5, <1>8, DisconnectOk
  <2>3. CloseThrows(r) \/ Shut(u)
    BY <1>6, <2>2 DEF CloseThrows
  <2>4. net' = net \cup CloseRequest(c, r)
    BY <1>2, <1>10 DEF Transmit
  <2>5. QED
    BY <1>1, <1>6, <2>1, <2>2, <2>3, <2>4, Ends DEF h
<1>11. QED
  BY <1>9, <1>10

(* What a receive completes with is good.                                  *)
LEMMA OutcomeOk ==
    ASSUME net \subseteq Datagrams, NEW h, NetOk(h, net), NEW c \in Clients,
           NEW r, Sound(c, r), ClientOk(h, c, r), NEW handler,
           NEW d \in ReadResults(c, r, handler)
    PROVE  /\ r.reads # <<>> /\ 1 \in DOMAIN r.reads /\ Head(r.reads) = r.reads[1]
           /\ r.reads[1].socket \in Nat
           /\ d # Aborted =>
                 /\ d \in DownData /\ DownOk(h, d)
                 /\ d.to = Endpoint(c, r.reads[1].socket)
<1> DEFINE op == Head(r.reads)
<1>1. /\ r.reads # <<>> /\ op.handler = handler
      /\ d # Aborted => d \in DownData /\ d.to = Endpoint(c, op.socket)
      /\ \/ op.result = d /\ op.result # Pending
         \/ /\ op.result = Pending /\ r.open /\ op.socket = r.socket
            /\ d \in net /\ d \in DownData
  BY OutcomeIs
<1>2. r.reads \in Seq(ReadsOf)
  BY DEF Sound, ClientRecords
<1>3. /\ op = r.reads[1] /\ 1 \in DOMAIN r.reads /\ op \in ReadsOf
  BY <1>1, <1>2, TailIs
<1>4. op.socket \in Nat
  BY <1>3 DEF ReadsOf
<1> HIDE DEF op
<1>5. ASSUME d # Aborted PROVE DownOk(h, d)
  <2>1. CASE op.result = d
    BY <1>1, <1>3, <1>5, <2>1 DEF ClientOk, ReadsOk
  <2>2. CASE d \in net
    BY <1>1, <1>5, <2>2 DEF NetOk
  <2>3. QED
    BY <1>1, <2>1, <2>2
<1>6. QED
  BY <1>1, <1>3, <1>4, <1>5 DEF op

(* A segment has a session that the client may have for its own: it has    *)
(* closed that session from no socket, for one from which it has closed    *)
(* any is before that of the receive.                                      *)
SessionMay(h, c, r, d) ==
    r.m_kcp_timer =>
       /\ Claim(h, Endpoint(c, r.socket), d.session, d.conv)
       /\ c \notin h.late /\ d.session > 0 => NotClosed(h, d.session)

LEMMA SegmentOk ==
    ASSUME NEW h, Consistent(h), NEW c \in Clients, NEW r \in ClientRecords,
           ClientOk(h, c, r), 1 \in DOMAIN r.reads, r.reads[1].socket \in Nat,
           NEW d \in DownData, DownOk(h, d), d.seg # 0,
           d.to = Endpoint(c, r.reads[1].socket)
    PROVE  SessionMay(h, c, r, d)
<1> SUFFICES ASSUME r.m_kcp_timer
             PROVE  /\ Claim(h, Endpoint(c, r.socket), d.session, d.conv)
                    /\ c \notin h.late /\ d.session > 0 => NotClosed(h, d.session)
  BY DEF SessionMay
<1> DEFINE n == r.reads[1].socket
           e == Endpoint(c, r.socket)
<1>1. d.session \in Int /\ d.session >= 0 /\ r.socket \in Nat
  BY DEF DownData, DownOk, ClientRecords
<1>2. /\ d.to[1] = c /\ d.to[2] = n /\ e[1] = c /\ e[2] = r.socket
  BY DEF Endpoint
<1>3. Claim(h, d.to, d.session, d.conv)
  BY DEF DownOk
<1>4. e[2] <= h.socket[e[1]]
  BY <1>2 DEF ClientOk, SessionOk, Claim
<1> HIDE DEF e
<1>5. ASSUME c \notin h.late, d.session > 0
      PROVE  NotClosed(h, d.session)
  <2> SUFFICES ASSUME NEW f \in h.closes, f.session = -d.session
               PROVE  FALSE
    BY DEF NotClosed
  <2>1. n <= f.from[2]
    BY <1>2, <1>3, <1>5 DEF Claim, ClosedSince
  <2>2. f \in UpData /\ f.from \in Endpoints
    BY DEF Consistent, UpData
  <2>3. f.from[2] \in Nat
    BY <2>2 DEF Endpoints
  <2>4. -f.session = d.session
    BY <1>1
  <2>5. f.from[1] = c
    <3>1. h.own[-f.session][1] = f.from[1]
      BY DEF Consistent
    <3>2. h.own[d.session][1] = c
      BY <1>2, <1>3, <1>5 DEF Claim
    <3>3. QED
      BY <2>4, <3>1, <3>2
  <2>6. f.from[2] < n
    BY <1>5, <2>5 DEF ClientOk, ReadsOk
  <2>7. QED
    BY <2>1, <2>3, <2>6
<1>6. ASSUME d.session > 0
      PROVE  /\ d.session <= h.granted /\ h.own[d.session] = <<e[1], d.conv>>
             /\ d.conv # 0
             /\ Over(h, d.session) \/ <<d.conv, d.session>> \in h.held
             /\ e[1] \notin h.late => ClosedSince(h, e, d.session)
  <2>1. /\ d.session <= h.granted /\ h.own[d.session] = <<c, d.conv>>
        /\ d.conv # 0
        /\ Over(h, d.session) \/ <<d.conv, d.session>> \in h.held
    BY <1>2, <1>3, <1>6 DEF Claim
  <2>2. c \notin h.late => ClosedSince(h, e, d.session)
    BY <1>5, <1>6 DEF NotClosed, ClosedSince
  <2>3. QED
    BY <1>2, <2>1, <2>2
<1>7. ~(d.session < 0)
  BY <1>1
<1>8. Claim(h, e, d.session, d.conv)
  BY <1>4, <1>6, <1>7 DEF Claim
<1>9. QED
  BY <1>5, <1>8 DEF e

(* HandleRead of a datagram.                                               *)
LEMMA DatagramReadOk ==
    ASSUME net \subseteq Datagrams, NEW h, Consistent(h), NetOk(h, net),
           NEW c \in Clients, NEW r, r \in ClientRecords, Sound(c, r), Aligned(r),
           ClientOk(h, c, r), NEW d \in DownData, d.seg # 0 => SessionMay(h, c, r, d),
           NEW t \in HandleDatagramRead(c, r, d)
    PROVE  ClientOk(h, c, t) /\ t.socket = r.socket /\ t.late = r.late
<1>1. d.session \in Int /\ r.m_kcp \in Kcps
  BY DEF DownData, ClientRecords
<1>2. ASSUME NEW u \in ClientRecords, ClientOk(h, c, u)
      PROVE  LET v == Read(u, "read")
             IN  /\ ClientOk(h, c, v) /\ v \in ClientRecords
                 /\ v.socket = u.socket /\ v.late = u.late
  <2> DEFINE v == Read(u, "read")
  <2>1. ClientOk(h, c, v)
    BY <1>2, ReadOk
  <2>2. v \in ClientRecords /\ v = WithReads(u, v.reads)
    BY <1>2, ReadIs
  <2> HIDE DEF v
  <2>3. v.socket = u.socket /\ v.late = u.late
    BY <1>2, <2>2 DEF WithReads, ClientRecords
  <2>4. QED
    BY <2>1, <2>2, <2>3 DEF v
<1>3. ASSUME NEW u \in ClientRecords, ClientOk(h, c, u), t = [u EXCEPT !.crashed = TRUE]
      PROVE  ClientOk(h, c, t) /\ t.socket = u.socket /\ t.late = u.late
  <2>1. /\ t.pump = u.pump /\ t.reads = u.reads /\ t.socket = u.socket
        /\ t.open = u.open /\ t.m_kcp_timer = u.m_kcp_timer
        /\ t.m_session = u.m_session /\ t.m_kcp = u.m_kcp /\ t.late = u.late
    BY <1>3 DEF ClientRecords
  <2>2. QED
    BY <1>3, <2>1, SameOk
<1>4. CASE d.seg = 0
  <2> DEFINE u == Read(r, "read")
  <2>1. /\ ClientOk(h, c, u) /\ u \in ClientRecords
        /\ u.socket = r.socket /\ u.late = r.late
    BY <1>2
  <2>2. t = [u EXCEPT !.told =
               @ \/ (d.session = -r.m_session /\ d.conv = r.m_kcp.conv)]
    BY <1>4 DEF HandleDatagramRead
  <2> HIDE DEF u
  <2>3. /\ t.pump = u.pump /\ t.reads = u.reads /\ t.socket = u.socket
        /\ t.open = u.open /\ t.m_kcp_timer = u.m_kcp_timer
        /\ t.m_session = u.m_session /\ t.m_kcp = u.m_kcp /\ t.late = u.late
    BY <2>1, <2>2 DEF ClientRecords
  <2>4. QED
    BY <2>1, <2>3, SameOk
<1>5. CASE d.seg # 0 /\ r.m_kcp = NoKcp
  <2>1. t = [r EXCEPT !.crashed = TRUE]
    BY <1>5 DEF HandleDatagramRead
  <2>2. QED
    BY <1>3, <2>1
<1>6. CASE d.seg # 0 /\ r.m_kcp # NoKcp /\ d.conv # r.m_kcp.conv
  <2>1. t = Read(r, "read")
    BY <1>6 DEF HandleDatagramRead
  <2>2. QED
    BY <1>2, <2>1
<1>7. CASE d.seg # 0 /\ r.m_kcp # NoKcp /\ d.conv = r.m_kcp.conv
  <2> DEFINE u == [r EXCEPT !.m_session = d.session]
  <2>1. /\ u \in ClientRecords /\ u.pump = r.pump /\ u.reads = r.reads
        /\ u.socket = r.socket /\ u.open = r.open /\ u.m_kcp = r.m_kcp
        /\ u.m_kcp_timer = r.m_kcp_timer /\ u.late = r.late
        /\ u.m_session = d.session
    BY <1>1 DEF ClientRecords
  <2>2. t \in (IF EndedByServer(r, d) THEN ExecuteDisconnectCallback(c, u)
               ELSE {Read(Feed(u, d), "read")} \cup ClosedInMessage(u, d))
    BY <1>7 DEF HandleDatagramRead
  <2> HIDE DEF u
  <2>3. ClientOk(h, c, u)
    <3>1. r.m_kcp_timer =>
             /\ Claim(h, Endpoint(c, r.socket), u.m_session, u.m_kcp.conv)
             /\ c \notin h.late /\ u.m_session > 0 => NotClosed(h, u.m_session)
      BY <1>7, <2>1 DEF SessionMay
    <3>2. QED
      BY <2>1, <3>1, SessionGiven
  <2>4. Sound(c, u) /\ Aligned(u)
    <3>1. /\ u.m_is_connected = r.m_is_connected
          /\ u.m_is_connecting = r.m_is_connecting
          /\ u.reports = r.reports
          /\ u.m_kcp_data_size = r.m_kcp_data_size
      BY DEF ClientRecords, u
    <3>2. Sound(c, u)
      BY <2>1, <3>1, SameSound
    <3>3. QED
      BY <2>1, <3>1, <3>2 DEF Aligned
  <2>5. CASE EndedByServer(r, d)
    <3>1. t \in ExecuteDisconnectCallback(c, u)
      BY <2>2, <2>5
    <3>2. QED
      BY <2>1, <2>3, <3>1, DisconnectOk
  <2>6. CASE ~EndedByServer(r, d)
    <3>1. CASE t = Read(Feed(u, d), "read")
      <4> DEFINE v == Feed(u, d)
      <4>1. /\ Sound(c, v) /\ v.pump = u.pump /\ v.reads = u.reads
            /\ v.socket = u.socket /\ v.open = u.open
            /\ v.m_kcp_timer = u.m_kcp_timer /\ v.m_session = u.m_session
            /\ v.m_kcp.conv = u.m_kcp.conv /\ v.late = u.late
        BY <2>4, FeedKeeps
      <4> HIDE DEF v
      <4>2. ClientOk(h, c, v) /\ v \in ClientRecords
        BY <2>1, <2>3, <4>1, SameOk DEF Sound
      <4>3. /\ ClientOk(h, c, Read(v, "read"))
            /\ Read(v, "read").socket = v.socket /\ Read(v, "read").late = v.late
        BY <1>2, <4>2
      <4>4. QED
        BY <2>1, <3>1, <4>1, <4>3 DEF v
    <3>2. CASE t = [u EXCEPT !.crashed = TRUE]
      BY <1>3, <2>1, <2>3, <3>2
    <3>3. QED
      BY <2>2, <2>6, <3>1, <3>2 DEF ClosedInMessage
  <2>7. QED
    BY <2>5, <2>6
<1>8. QED
  BY <1>4, <1>5, <1>6, <1>7

LEMMA ReadLeaves ==
    ASSUME NEW own, NEW c \in Clients, ClientHas(own, c), UNCHANGED serverVars,
           ClientHandleRead(c)
    PROVE  ClientLeaves(own, c)
<1> DEFINE r == client[c]
           h == History(own)
           q == WithoutRead(r)
<1>1. /\ Sound(c, r) /\ Local(c, r) /\ r \in ClientRecords /\ ~r.crashed
      /\ net \subseteq Datagrams
      /\ Consistent(h) /\ NetOk(h, net) /\ ClientOk(h, c, r)
  BY HasIs DEF ClientHandleRead
<1>2. PICK d \in ReadResults(c, r, "read") :
         IF Fails(d)
           THEN /\ \E t \in ExecuteDisconnectCallback(c, q) : Becomes(c, t)
                /\ Transmit(CloseRequest(c, r))
           ELSE /\ \E t \in HandleDatagramRead(c, q, d) : Becomes(c, t)
                /\ Transmit(IF EndedByServer(r, d)
                              THEN CloseRequest(c, [r EXCEPT !.m_session = d.session])
                              ELSE {})
  BY DEF ClientHandleRead
<1> HIDE DEF h
<1>3. /\ r.reads # <<>> /\ 1 \in DOMAIN r.reads /\ r.reads[1].socket \in Nat
      /\ d # Aborted => /\ d \in DownData /\ DownOk(h, d)
                        /\ d.to = Endpoint(c, r.reads[1].socket)
  BY <1>1, OutcomeOk
<1>4. /\ Sound(c, q) /\ Aligned(q) /\ q = WithReads(r, q.reads)
      /\ ClientOk(h, c, q) /\ q \in ClientRecords
  BY <1>1, <1>3, WithoutReadKeeps, WithoutReadOk DEF Local, Sound
<1> HIDE DEF q
<1>5. /\ q.socket = r.socket /\ q.late = r.late /\ q.open = r.open
      /\ q.m_kcp = r.m_kcp /\ q.m_kcp_timer = r.m_kcp_timer
      /\ q.m_is_connected = r.m_is_connected /\ q.m_session = r.m_session
  BY <1>1, <1>4 DEF WithReads, ClientRecords
<1>6. CASE Fails(d)
  <2>1. PICK t \in ExecuteDisconnectCallback(c, q) : Becomes(c, t)
    BY <1>2, <1>6
  <2>2. /\ ClientOk(h, c, t) /\ t.socket = q.socket /\ t.late = q.late
        /\ t \in ClientRecords
        /\ CloseThrows(q) \/ Shut(t)
    BY <1>1, <1>4, DisconnectOk
  <2>3. CloseThrows(r) \/ Shut(t)
    BY <1>5, <2>2 DEF CloseThrows
  <2>4. net' = net \cup CloseRequest(c, r)
    BY <1>2, <1>6 DEF Transmit
  <2>5. QED
    BY <1>1, <1>5, <2>1, <2>2, <2>3, <2>4, Ends DEF h
<1>7. CASE ~Fails(d)
  <2> DEFINE new == IF EndedByServer(r, d)
                      THEN CloseRequest(c, [r EXCEPT !.m_session = d.session])
                      ELSE {}
  <2>1. PICK t \in HandleDatagramRead(c, q, d) : Becomes(c, t)
    BY <1>2, <1>7
  <2>2. /\ d \in DownData /\ DownOk(h, d) /\ d.session \in Int
        /\ d.to = Endpoint(c, r.reads[1].socket)
    BY <1>3, <1>7 DEF Fails, DownData
  <2>3. d.seg # 0 => SessionMay(h, c, r, d)
    BY <1>1, <1>3, <2>2, SegmentOk
  <2>4. d.seg # 0 => SessionMay(h, c, q, d)
    BY <1>5, <2>3 DEF SessionMay
  <2>5. ClientOk(h, c, t) /\ t.socket = q.socket /\ t.late = q.late
    BY <1>1, <1>4, <2>2, <2>4, DatagramReadOk
  <2>6. net' = net \cup new
    BY <1>2, <1>7 DEF Transmit
  <2>7. \A f \in new : f \in UpData /\ UpOk(h, f) /\ ~(f.seg = 0 /\ f.session < 0)
    <3> SUFFICES ASSUME NEW f \in new
                 PROVE  f \in UpData /\ UpOk(h, f) /\ ~(f.seg = 0 /\ f.session < 0)
      OBVIOUS
    <3> DEFINE u == [r EXCEPT !.m_session = d.session]
    <3>1. EndedByServer(r, d) /\ f \in CloseRequest(c, u)
      OBVIOUS
    <3>2. d.session = 0
      BY <2>2, <3>1 DEF EndedByServer, DownOk
    <3>3. u.m_session = 0 /\ u.socket = r.socket
      BY <1>1, <3>2 DEF ClientRecords
    <3>4. /\ r.socket \in Nat /\ r.m_kcp \in Kcps /\ u \in ClientRecords
      BY <1>1, <2>2 DEF ClientRecords
    <3> HIDE DEF u
    <3>5. f \in UpData
      BY <3>1, <3>4, CloseRequestIs DEF CloseRequestSent
    <3>6. f.session = 0 /\ f.from = Endpoint(c, r.socket)
      BY <3>1, <3>3 DEF CloseRequest, Datagram
    <3>7. h.socket[c] = r.socket
      BY HistoryIs DEF h
    <3>8. Endpoint(c, r.socket)[1] = c /\ Endpoint(c, r.socket)[2] = r.socket
      BY DEF Endpoint
    <3>9. UpOk(h, f)
      BY <3>4, <3>6, <3>7, <3>8 DEF UpOk, Claim
    <3>10. QED
      BY <3>5, <3>6, <3>9
  <2> HIDE DEF new
  <2>8. \A f \in new : /\ f \in UpData /\ UpOk(History(own), f)
                       /\ ~(f.seg = 0 /\ f.session < 0)
    BY <2>7 DEF h
  <2>9. t.socket = client[c].socket /\ t.late = client[c].late
    BY <1>5, <2>5
  <2>10. ClientOk(History(own), c, t)
    BY <2>5 DEF h
  <2>11. QED
    BY <2>1, <2>6, <2>8, <2>9, <2>10, Quiet
<1>8. QED
  BY <1>6, <1>7

-----------------------------------------------------------------------------
(* The answer to a request.                                                *)

(* Nothing of the past changes but who has taken a late answer.            *)
LateOnly(h, h2) ==
    /\ h2.own = h.own /\ h2.granted = h.granted /\ h2.dropped = h.dropped
    /\ h2.held = h.held /\ h2.closes = h.closes
    /\ \A b \in Clients : h2.socket[b] = h.socket[b]
    /\ h.late \subseteq h2.late

LEMMA LateOk ==
    ASSUME NEW h, NEW h2, Consistent(h), LateOnly(h, h2), NEW c \in Clients,
           NEW r \in ClientRecords, ClientOk(h, c, r)
    PROVE  Consistent(h2) /\ Grows(h, h2) /\ ClientOk(h2, c, r)
<1>1. Consistent(h2)
  BY DEF Consistent, LateOnly
<1>2. Grows(h, h2)
  <2>1. h.granted \in Nat /\ \A b \in Clients : h.socket[b] \in Nat
    BY DEF Consistent
  <2>2. QED
    BY <2>1 DEF LateOnly, Grows
<1>3. /\ r.pump \in PumpsOf(UpData) /\ r.socket \in Nat /\ r.m_session \in Int
  BY DEF ClientRecords
<1>4. PumpOk(h2, c, r.pump)
  <2>1. ASSUME NEW d, InPump(d, r.pump) PROVE UpOk(h2, d)
    <3>1. d \in UpData /\ UpOk(h, d)
      BY <1>3, <2>1, PumpFields DEF ClientOk, PumpOk
    <3>2. QED
      BY <1>1, <1>2, <3>1, UpGrows
  <2>2. QED
    BY <2>1 DEF ClientOk, PumpOk, LateOnly, NotClosed
<1>5. ReadsOk(h2, c, r)
  <2>1. ResultsOk(h, r)
    BY DEF ClientOk, ReadsOk, ResultsOk
  <2>2. ResultsOk(h2, r)
    BY <1>1, <1>2, <2>1, ResultsOkGrows
  <2>3. QED
    BY <2>2 DEF ClientOk, ReadsOk, ResultsOk, LateOnly
<1>6. SessionOk(h2, c, r)
  <2> SUFFICES ASSUME r.m_kcp_timer
               PROVE  /\ Claim(h2, Endpoint(c, r.socket), r.m_session, r.m_kcp.conv)
                      /\ c \notin h2.late /\ r.m_session > 0 =>
                            NotClosed(h2, r.m_session)
    BY DEF SessionOk
  <2>1. /\ Claim(h, Endpoint(c, r.socket), r.m_session, r.m_kcp.conv)
        /\ c \notin h.late /\ r.m_session > 0 => NotClosed(h, r.m_session)
    BY DEF ClientOk, SessionOk
  <2>2. Endpoint(c, r.socket) \in Endpoints
    BY <1>3 DEF Endpoint, Endpoints
  <2>3. Claim(h2, Endpoint(c, r.socket), r.m_session, r.m_kcp.conv)
    BY <1>1, <1>2, <1>3, <2>1, <2>2, ClaimGrows
  <2>4. QED
    BY <2>1, <2>3 DEF LateOnly, NotClosed
<1>7. SocketOk(h2, c, r)
  BY DEF ClientOk, SocketOk, LateOnly
<1>8. QED
  BY <1>1, <1>2, <1>4, <1>5, <1>6, <1>7 DEF ClientOk

LEMMA LateIs ==
    ASSUME NEW own, NEW c \in Clients, ClientHas(own, c), UNCHANGED serverVars,
           NEW t, Becomes(c, t), net' = net, t.socket = client[c].socket,
           client[c].late => t.late
    PROVE  /\ LateOnly(History(own), History(own)')
           /\ c \in History(own)'.late <=> t.late
           /\ History(own)'.socket[c] = client[c].socket
           /\ c \in History(own).late <=> client[c].late
           /\ client'[c] = t
           /\ \A b \in Clients \ {c} : /\ client'[b] = client[b]
                                       /\ Untouched(History(own), History(own)', b)
<1> DEFINE h == History(own)
           h2 == History(own)'
<1>1. client'[c] = t /\ \A b \in Clients \ {c} : client'[b] = client[b]
  BY BecomesIs DEF ClientHas
<1>2. /\ h.own = own /\ h.granted = granted /\ h.dropped = dropped
      /\ h.held = Held /\ h.closes = Closes
      /\ \A b \in Clients : /\ h.socket[b] = client[b].socket
                            /\ b \in h.late <=> client[b].late
  BY HistoryIs
<1>3. /\ h2.own = own /\ h2.granted = granted' /\ h2.dropped = dropped'
      /\ h2.held = Held' /\ h2.closes = Closes'
      /\ \A b \in Clients : /\ h2.socket[b] = client'[b].socket
                            /\ b \in h2.late <=> client'[b].late
  BY HistoryNextIs
<1>4. granted' = granted /\ dropped' = dropped /\ Held' = Held /\ Closes' = Closes
  BY DEF serverVars, Held, Closes
<1>5. h.late \subseteq Clients
  BY DEF History
<1> HIDE DEF h, h2
<1>6. \A b \in Clients : h2.socket[b] = h.socket[b]
  BY <1>1, <1>2, <1>3
<1>7. h.late \subseteq h2.late
  BY <1>1, <1>2, <1>3, <1>5
<1>8. \A b \in Clients \ {c} : b \in h2.late <=> b \in h.late
  BY <1>1, <1>2, <1>3
<1>9. LateOnly(h, h2)
  BY <1>2, <1>3, <1>4, <1>6, <1>7 DEF LateOnly
<1>10. \A b \in Clients \ {c} : Untouched(h, h2, b)
  BY <1>2, <1>3, <1>4, <1>8 DEF Untouched
<1>11. /\ c \in h2.late <=> t.late
       /\ c \in h.late <=> client[c].late
       /\ h2.socket[c] = client[c].socket
  BY <1>1, <1>2, <1>3
<1>12. QED
  BY <1>1, <1>9, <1>10, <1>11 DEF h, h2

LEMMA AsyncFields ==
    ASSUME NEW r \in ClientRecords
    PROVE  /\ HandleAsyncConnect(r, FALSE).socket = r.socket
           /\ HandleAsyncConnect(r, FALSE).late = r.late
           /\ HandleAsyncConnect(r, TRUE).socket = r.socket
           /\ HandleAsyncConnect(r, TRUE).late = r.late
<1>1. ASSUME NEW succeed \in BOOLEAN
      PROVE  LET t == Answered(r, succeed)
             IN  t \in ClientRecords /\ t.socket = r.socket /\ t.late = r.late
  BY AnsweredIs
<1>2. HandleAsyncConnect(r, FALSE) = Answered(r, FALSE)
  BY DEF HandleAsyncConnect, Answered
<1>3. HandleAsyncConnect(r, TRUE) = Read(Answered(r, TRUE), "read")
  BY DEF HandleAsyncConnect, Answered, StartReading
<1> DEFINE t == Answered(r, TRUE)
           u == Read(t, "read")
<1>4. t \in ClientRecords /\ t.socket = r.socket /\ t.late = r.late
  BY <1>1
<1> HIDE DEF t
<1>5. u = WithReads(t, u.reads)
  BY <1>4, ReadIs
<1> HIDE DEF u
<1>6. u.socket = t.socket /\ u.late = t.late
  BY <1>4, <1>5 DEF WithReads, ClientRecords
<1>7. QED
  BY <1>1, <1>2, <1>3, <1>4, <1>6 DEF t, u

(* An answer that the open socket has received names a session that the    *)
(* client has not closed: it has closed none from this socket or a later.  *)
LEMMA AnswerIsNew ==
    ASSUME NEW h, Consistent(h), NEW c \in Clients, NEW r \in ClientRecords,
           ClientOk(h, c, r), r.open, NEW d \in DownData, DownOk(h, d),
           d.to = Endpoint(c, r.socket), d.session > 0, c \notin h.late
    PROVE  /\ NotClosed(h, d.session)
           /\ \A f \in h.closes : f.from[1] = c => f.from[2] < r.socket
<1>1. \A f \in h.closes : f.from[1] = c => f.from[2] < r.socket
  <2> SUFFICES ASSUME NEW f \in h.closes, f.from[1] = c
               PROVE  f.from[2] < r.socket
    OBVIOUS
  <2>1. f.from[2] \in Nat /\ r.socket \in Nat
    BY DEF Consistent, UpData, Endpoints, ClientRecords
  <2>2. f.from[2] <= r.socket /\ f.from[2] # r.socket
    BY DEF ClientOk, SocketOk
  <2>3. QED
    BY <2>1, <2>2
<1>2. ASSUME NEW f \in h.closes, f.session = -d.session
      PROVE  FALSE
  <2>1. d.to[1] = c /\ d.to[2] = r.socket /\ d.session \in Int
    BY DEF Endpoint, DownData
  <2>2. /\ h.own[d.session] = <<c, d.conv>>
        /\ ClosedSince(h, d.to, d.session)
    BY <2>1 DEF DownOk, Claim
  <2>3. r.socket <= f.from[2]
    BY <1>2, <2>1, <2>2 DEF ClosedSince
  <2>4. -f.session = d.session
    BY <1>2, <2>1
  <2>5. h.own[-f.session][1] = f.from[1]
    BY DEF Consistent
  <2>6. f.from[1] = c
    BY <2>2, <2>4, <2>5
  <2>7. f.from[2] \in Nat /\ r.socket \in Nat
    BY DEF Consistent, UpData, Endpoints, ClientRecords
  <2>8. QED
    BY <1>1, <2>3, <2>6, <2>7
<1>3. QED
  BY <1>1, <1>2 DEF NotClosed

LEMMA AnswerLeaves ==
    ASSUME NEW own, NEW c \in Clients, ClientHas(own, c), UNCHANGED serverVars,
           HandleReceiveConnect(c)
    PROVE  ClientLeaves(own, c)
<1> DEFINE r == client[c]
           h == History(own)
           h2 == History(own)'
           w == WithoutRead(r)
<1>1. /\ Sound(c, r) /\ Local(c, r) /\ r \in ClientRecords
      /\ net \subseteq Datagrams /\ net' = net
      /\ Consistent(h) /\ NetOk(h, net) /\ ClientOk(h, c, r)
  BY HasIs DEF HandleReceiveConnect
<1>2. PICK d \in ReadResults(c, r, "connect") :
         \E t \in IF Fails(d) THEN {HandleAsyncConnect(w, FALSE)}
                  ELSE HandleAnswer(TookAnswer(r, d), d) :
            Becomes(c, t)
  BY DEF HandleReceiveConnect, TookAnswer
<1> HIDE DEF h, h2
<1>3. /\ r.reads # <<>> /\ 1 \in DOMAIN r.reads /\ r.reads[1].socket \in Nat
      /\ Head(r.reads) = r.reads[1]
      /\ d # Aborted => /\ d \in DownData /\ DownOk(h, d)
                        /\ d.to = Endpoint(c, r.reads[1].socket)
  BY <1>1, OutcomeOk
<1> DEFINE op == r.reads[1]
<1>4. /\ Sound(c, w) /\ w = WithReads(r, w.reads)
      /\ ClientOk(h, c, w) /\ w \in ClientRecords
      /\ op.result = Pending =>
            /\ r.open /\ op.socket = r.socket
            /\ \A i \in DOMAIN w.reads : w.reads[i].result = Pending
  BY <1>1, <1>3, WithoutReadKeeps, WithoutReadOk DEF Sound
<1>5. CASE Fails(d)
  <2> DEFINE t == HandleAsyncConnect(w, FALSE)
  <2>1. ClientOk(h, c, t) /\ t.socket = w.socket /\ t.late = w.late
    BY <1>1, <1>4, AsyncOk
  <2>2. Becomes(c, t)
    BY <1>2, <1>5
  <2> HIDE DEF t, w
  <2>3. w.socket = r.socket /\ w.late = r.late
    BY <1>1, <1>4 DEF WithReads, ClientRecords
  <2>4. QED
    BY <1>1, <2>1, <2>2, <2>3, QuietNet DEF h
<1>6. CASE ~Fails(d)
  <2> DEFINE q == TookAnswer(r, d)
  <2>1. PICK t \in HandleAnswer(q, d) : Becomes(c, t)
    BY <1>2, <1>6
  <2>2. /\ d # Aborted /\ d \in DownData /\ DownOk(h, d)
        /\ d.to = Endpoint(c, op.socket)
        /\ d.session \in Int /\ d.conv \in Nat
    BY <1>3, <1>6 DEF Fails, DownData
  <2>3. /\ q \in ClientRecords
        /\ r.late => q.late
        /\ d.seg # 0 => q.late = r.late
        /\ q.reads = w.reads /\ q.socket = r.socket
        /\ q.open = r.open /\ q.m_kcp = r.m_kcp /\ q.pump = r.pump
        /\ q.m_kcp_timer = r.m_kcp_timer /\ q.m_session = r.m_session
    BY <1>1, <2>2, TookAnswerIs
  <2>4. d.seg = 0 /\ ~q.late =>
           /\ r.open /\ op.socket = r.socket
           /\ \A i \in DOMAIN w.reads : w.reads[i].result = Pending
    <3>1. q = [w EXCEPT !.late = @ \/ TakenLate(r, d)]
      BY DEF TookAnswer
    <3> HIDE DEF w
    <3>2. ~q.late => ~TakenLate(r, d)
      BY <1>4, <3>1 DEF ClientRecords
    <3>3. QED
      BY <1>3, <1>4, <3>2 DEF TakenLate
  <2> HIDE DEF q, w
  <2>5. /\ w.pump = r.pump /\ w.socket = r.socket /\ w.open = r.open
        /\ w.m_kcp_timer = r.m_kcp_timer /\ w.m_session = r.m_session
        /\ w.m_kcp = r.m_kcp
    BY <1>1, <1>4 DEF WithReads, ClientRecords
  <2>6. ClientOk(h, c, q)
    BY <1>1, <1>4, <2>3, <2>5, SameOk
  <2>7. CASE d.seg # 0
    <3>1. t = Read(q, "connect")
      BY <2>1, <2>7 DEF HandleAnswer
    <3>2. ClientOk(h, c, t) /\ t = WithReads(q, t.reads)
      BY <1>1, <2>3, <2>6, <3>1, ReadOk, ReadIs
    <3>3. t.socket = r.socket /\ t.late = r.late
      BY <2>3, <2>7, <3>2 DEF WithReads, ClientRecords
    <3>4. QED
      BY <1>1, <2>1, <3>2, <3>3, QuietNet DEF h
  <2>8. CASE d.seg = 0
    <3> DEFINE Failed(u) == [u EXCEPT !.m_session = d.session]
               Granted(u) == [u EXCEPT !.m_session = d.session,
                                       !.m_kcp = NewKcp(d.conv),
                                       !.m_kcp_timer = TRUE]
    <3>1. PICK u \in CancelTimer(q) :
             t = IF d.session <= 0 \/ d.conv = 0
                   THEN HandleAsyncConnect(Failed(u), FALSE)
                   ELSE HandleAsyncConnect(Granted(u), TRUE)
      BY <2>1, <2>8 DEF HandleAnswer
    <3>2. /\ u \in ClientRecords /\ u.socket = q.socket /\ u.late = q.late
          /\ u.open = q.open /\ u.reads = q.reads
          /\ u.m_kcp_timer = q.m_kcp_timer /\ u.m_kcp = q.m_kcp
      BY <1>1, <2>3, <2>6, TimerOk
    <3>3. /\ Failed(u) \in ClientRecords
          /\ Failed(u).pump = u.pump /\ Failed(u).reads = u.reads
          /\ Failed(u).socket = u.socket /\ Failed(u).open = u.open
          /\ Failed(u).late = u.late /\ Failed(u).m_kcp = u.m_kcp
          /\ Failed(u).m_kcp_timer = u.m_kcp_timer
          /\ Failed(u).m_session = d.session
      BY <2>2, <3>2 DEF ClientRecords
    <3>4. /\ Granted(u) \in ClientRecords
          /\ Granted(u).pump = u.pump /\ Granted(u).reads = u.reads
          /\ Granted(u).socket = u.socket /\ Granted(u).open = u.open
          /\ Granted(u).late = u.late /\ Granted(u).m_kcp.conv = d.conv
          /\ Granted(u).m_session = d.session
      <4>1. NewKcp(d.conv) \in Kcps /\ NewKcp(d.conv).conv = d.conv
        BY <2>2 DEF NewKcp, NoKcp, Kcps
      <4>2. QED
        BY <2>2, <3>2, <4>1 DEF ClientRecords
    <3> HIDE DEF Failed, Granted
    <3>5. t.socket = r.socket /\ t.late = q.late
      BY <2>3, <3>1, <3>2, <3>3, <3>4, AsyncFields
    <3>6. /\ LateOnly(h, h2) /\ h2.socket[c] = r.socket
          /\ c \in h2.late <=> q.late
          /\ c \in h.late <=> r.late
          /\ client'[c] = t
          /\ \A b \in Clients \ {c} : /\ client'[b] = client[b]
                                      /\ Untouched(h, h2, b)
      BY <1>1, <2>1, <2>3, <3>5, LateIs DEF h, h2
    <3>7. Consistent(h2) /\ Grows(h, h2) /\ ClientOk(h2, c, q)
      BY <1>1, <2>3, <2>6, <3>6, LateOk
    <3>8. NetOk(h2, net')
      BY <1>1, <3>7, NetGrows
    <3>9. ClientOk(h2, c, u)
      BY <2>3, <3>1, <3>7, TimerOk
    <3>10. DownOk(h2, d) /\ Claim(h2, d.to, d.session, d.conv)
      BY <1>1, <2>2, <3>7, DownGrows DEF DownOk
    <3>11. /\ d.to[1] = c /\ Endpoint(c, u.socket)[1] = c
           /\ Endpoint(c, u.socket)[2] = u.socket /\ u.socket \in Nat
      BY <2>2, <3>2 DEF Endpoint, ClientRecords
    <3>12. Endpoint(c, u.socket)[2] <= h2.socket[c]
      BY <2>3, <3>2, <3>6, <3>11
    <3>13. CASE d.session <= 0 \/ d.conv = 0
      <4>1. d.session <= 0
        BY <2>2, <3>10, <3>13 DEF Claim
      <4>2. ~(d.session > 0)
        BY <2>2, <4>1
      <4> DEFINE v == Failed(u)
      <4>3. Claim(h2, Endpoint(c, u.socket), d.session, v.m_kcp.conv)
        BY <3>10, <3>11, <3>12, <4>2 DEF Claim
      <4>4. ClientOk(h2, c, v)
        BY <3>3, <3>9, <4>2, <4>3, SessionGiven
      <4>5. t = HandleAsyncConnect(v, FALSE)
        BY <3>1, <3>13
      <4>6. ClientOk(h2, c, t)
        BY <3>3, <3>7, <4>4, <4>5, AsyncOk
      <4>7. QED
        BY <3>6, <3>7, <3>8, <4>6 DEF ClientLeaves, h, h2
    <3>14. CASE ~(d.session <= 0 \/ d.conv = 0)
      <4>1. d.session > 0
        BY <2>2, <3>14
      <4> DEFINE v == Granted(u)
      <4>2. ASSUME c \notin h2.late
            PROVE  /\ NotClosed(h2, d.session)
                   /\ \A f \in h2.closes : f.from[1] = c => f.from[2] < u.socket
                   /\ \A i \in DOMAIN u.reads : u.reads[i].socket = u.socket
        <5>1. /\ u.open /\ op.socket = u.socket
              /\ \A i \in DOMAIN u.reads : u.reads[i].result = Pending
          BY <2>3, <2>4, <2>8, <3>2, <3>6, <4>2
        <5>2. /\ NotClosed(h2, d.session)
              /\ \A f \in h2.closes : f.from[1] = c => f.from[2] < u.socket
          BY <2>2, <3>2, <3>7, <3>9, <3>10, <4>1, <4>2, <5>1, AnswerIsNew
        <5>3. \A i \in DOMAIN w.reads :
                 w.reads[i].result = Pending => w.reads[i].socket = w.socket
          BY <1>4 DEF Sound, ReadsLocal
        <5>4. QED
          BY <2>3, <2>5, <3>2, <5>1, <5>2, <5>3
      <4>3. Claim(h2, Endpoint(c, u.socket), d.session, d.conv)
        <5>1. c \notin h2.late => ClosedSince(h2, Endpoint(c, u.socket), d.session)
          BY <4>2 DEF NotClosed, ClosedSince
        <5>2. ~(d.session < 0)
          BY <2>2, <4>1
        <5>3. QED
          BY <3>10, <3>11, <3>12, <4>1, <5>1, <5>2 DEF Claim
      <4>4. ClientOk(h2, c, v)
        BY <3>2, <3>4, <3>7, <3>9, <4>2, <4>3, GrantOk
      <4>5. t = HandleAsyncConnect(v, TRUE)
        BY <3>1, <3>14
      <4>6. ClientOk(h2, c, t)
        BY <3>4, <3>7, <4>4, <4>5, AsyncOk
      <4>7. QED
        BY <3>6, <3>7, <3>8, <4>6 DEF ClientLeaves, h, h2
    <3>15. QED
      BY <3>13, <3>14
  <2>9. QED
    BY <2>7, <2>8
<1>7. QED
  BY <1>5, <1>6

-----------------------------------------------------------------------------
(* Connect: the client goes on to its next socket.                         *)

Moved(h, h2, c) ==
    /\ h2.own = h.own /\ h2.granted = h.granted /\ h2.dropped = h.dropped
    /\ h2.held = h.held /\ h2.closes = h.closes /\ h2.late = h.late
    /\ h2.socket[c] = h.socket[c] + 1
    /\ \A b \in Clients \ {c} : h2.socket[b] = h.socket[b]

LEMMA MovedIs ==
    ASSUME NEW h, NEW h2, Consistent(h), NEW c \in Clients, Moved(h, h2, c)
    PROVE  Consistent(h2) /\ Grows(h, h2) /\ \A b : Untouched(h, h2, b)
<1>1. \A b \in Clients : /\ h.socket[b] \in Nat /\ h2.socket[b] \in Nat
                         /\ h.socket[b] <= h2.socket[b]
  BY DEF Consistent, Moved
<1>2. Consistent(h2)
  BY <1>1 DEF Consistent, Moved
<1>3. Grows(h, h2)
  BY <1>1 DEF Consistent, Moved, Grows
<1>4. QED
  BY <1>2, <1>3 DEF Untouched, Moved

(* What is not closed may be said of the next socket.                      *)
LEMMA ClaimMoves ==
    ASSUME NEW h, NEW h2, Consistent(h), NEW c \in Clients, Moved(h, h2, c),
           NEW e, e[1] = c, NEW s \in Int, NEW conv, Claim(h, e, s, conv),
           c \notin h.late /\ s > 0 => NotClosed(h, s)
    PROVE  Claim(h2, Endpoint(c, h.socket[c] + 1), s, conv)
<1> DEFINE f == Endpoint(c, h.socket[c] + 1)
<1>1. f[1] = c /\ f[2] = h.socket[c] + 1
  BY DEF Endpoint
<1>2. f[2] <= h2.socket[f[1]]
  BY <1>1 DEF Moved, Consistent
<1> HIDE DEF f
<1>3. ASSUME s > 0
      PROVE  /\ s <= h2.granted /\ h2.own[s] = <<f[1], conv>> /\ conv # 0
             /\ Over(h2, s) \/ <<conv, s>> \in h2.held
             /\ f[1] \notin h2.late => ClosedSince(h2, f, s)
  <2>1. /\ s <= h.granted /\ h.own[s] = <<c, conv>> /\ conv # 0
        /\ Over(h, s) \/ <<conv, s>> \in h.held
    BY <1>3 DEF Claim
  <2>2. c \notin h.late => ClosedSince(h2, f, s)
    BY <1>3 DEF NotClosed, ClosedSince, Moved
  <2>3. Over(h, s) => Over(h2, s)
    BY DEF Over, NotClosed, Moved
  <2>4. QED
    BY <1>1, <2>1, <2>2, <2>3 DEF Moved
<1>4. s < 0 => Over(h2, -s)
  BY DEF Claim, Over, NotClosed, Moved
<1>5. QED
  BY <1>2, <1>3, <1>4 DEF Claim, f

(* The list of the pump, for the next socket.                              *)
LEMMA ReaddressedOk ==
    ASSUME NEW h, NEW h2, Consistent(h), NEW c \in Clients, Moved(h, h2, c),
           NEW p \in PumpsOf(UpData), PumpLocal(c, p), PumpOk(h, c, p),
           NEW q, q.sends = p.sends,
           q.m_pocket_list =
              Readdressed(p.m_pocket_list, Endpoint(c, h.socket[c] + 1))
    PROVE  PumpOk(h2, c, q)
<1> DEFINE old == p.m_pocket_list
           list == q.m_pocket_list
           f == Endpoint(c, h.socket[c] + 1)
<1>1. Consistent(h2) /\ Grows(h, h2)
  BY MovedIs
<1>2. old \in Seq(UpData) /\ \A d : InPump(d, p) => d \in UpData
  BY PumpFields
<1>3. /\ DOMAIN list = DOMAIN old
      /\ \A i \in DOMAIN old : list[i] = [old[i] EXCEPT !.from = f]
  BY DEF Readdressed
<1> HIDE DEF f
<1>4. \A i \in DOMAIN old : old[i] \in UpData
  BY <1>2
<1>5. \A i \in DOMAIN old : /\ list[i].from = f
                            /\ list[i].session = old[i].session
                            /\ list[i].conv = old[i].conv
  BY <1>3, <1>4 DEF UpData
<1>6. ASSUME NEW i \in DOMAIN old PROVE UpOk(h2, list[i])
  <2>1. /\ UpOk(h, old[i]) /\ old[i].from[1] = c
        /\ c \notin h.late /\ old[i].session > 0 => NotClosed(h, old[i].session)
    BY DEF InPump, PumpOk, PumpLocal
  <2>2. old[i].session \in Int
    BY <1>4 DEF UpData
  <2>3. Claim(h2, f, old[i].session, old[i].conv)
    BY <2>1, <2>2, ClaimMoves DEF UpOk, f
  <2>4. QED
    BY <1>5, <2>3 DEF UpOk
<1>7. ASSUME NEW i \in DOMAIN p.sends PROVE UpOk(h2, p.sends[i].packet)
  <2>1. UpOk(h, p.sends[i].packet) /\ p.sends[i].packet \in UpData
    BY <1>2 DEF InPump, PumpOk
  <2>2. QED
    BY <1>1, <2>1, UpGrows
<1>8. \A d : InPump(d, q) => UpOk(h2, d)
  BY <1>3, <1>6, <1>7 DEF InPump
<1>9. ASSUME c \notin h2.late, NEW i \in DOMAIN list, list[i].session > 0
      PROVE  NotClosed(h2, list[i].session)
  BY <1>3, <1>5, <1>9 DEF PumpOk, Moved, NotClosed
<1>10. QED
  BY <1>8, <1>9 DEF PumpOk

LEMMA MovedClient ==
    ASSUME net \subseteq Datagrams, NEW h, NEW h2, Consistent(h), NetOk(h, net),
           NEW c \in Clients, Moved(h, h2, c),
           NEW r, Sound(c, r), ClientOk(h, c, r), h.socket[c] = r.socket,
           NEW t, t.pump.sends = r.pump.sends,
           t.pump.m_pocket_list =
              Readdressed(r.pump.m_pocket_list, Endpoint(c, r.socket + 1)),
           t.reads \in SettledReads(c, r), t.socket = r.socket + 1,
           t.m_kcp = r.m_kcp, t.m_kcp_timer = r.m_kcp_timer,
           t.m_session = r.m_session
    PROVE  ClientOk(h2, c, t)
<1>1. /\ r \in ClientRecords /\ r.socket \in Nat /\ r.pump \in PumpsOf(UpData)
      /\ PumpLocal(c, r.pump) /\ r.m_session \in Int
  BY DEF Sound, ClientRecords
<1>2. Consistent(h2) /\ Grows(h, h2) /\ h2.closes = h.closes /\ h2.late = h.late
  BY MovedIs DEF Moved
<1>3. PumpOk(h2, c, t.pump)
  BY <1>1, ReaddressedOk DEF ClientOk
<1>4. /\ DOMAIN t.reads = DOMAIN r.reads
      /\ \A i \in DOMAIN t.reads :
            /\ t.reads[i].socket = r.reads[i].socket
            /\ \/ t.reads[i].result = r.reads[i].result
               \/ t.reads[i].result = Aborted
               \/ t.reads[i].result \in DownData /\ t.reads[i].result \in net
  BY <1>1, SettledReadsIs
<1>5. ReadsOk(h2, c, t)
  <2>1. ASSUME NEW i \in DOMAIN t.reads, t.reads[i].result \in DownData
        PROVE  DownOk(h2, t.reads[i].result)
    <3>1. DownOk(h, t.reads[i].result)
      <4>1. t.reads[i].result # Aborted
        BY <2>1, NamesAssumption
      <4>2. QED
        BY <1>4, <2>1, <4>1 DEF ClientOk, ReadsOk, NetOk
    <3>2. QED
      BY <1>2, <2>1, <3>1, DownGrows
  <2>2. ASSUME t.m_kcp_timer, c \notin h2.late, NEW i \in DOMAIN t.reads,
               NEW d \in h2.closes, d.from[1] = c
        PROVE  d.from[2] < t.reads[i].socket
    BY <1>2, <1>4, <2>2 DEF ClientOk, ReadsOk
  <2>3. QED
    BY <2>1, <2>2 DEF ReadsOk
<1>6. SessionOk(h2, c, t)
  <2> SUFFICES ASSUME r.m_kcp_timer
               PROVE  /\ Claim(h2, Endpoint(c, r.socket + 1), r.m_session, r.m_kcp.conv)
                      /\ c \notin h2.late /\ r.m_session > 0 =>
                            NotClosed(h2, r.m_session)
    BY DEF SessionOk
  <2>1. /\ Claim(h, Endpoint(c, r.socket), r.m_session, r.m_kcp.conv)
        /\ c \notin h.late /\ r.m_session > 0 => NotClosed(h, r.m_session)
    BY DEF ClientOk, SessionOk
  <2>2. Endpoint(c, r.socket)[1] = c
    BY DEF Endpoint
  <2>3. Claim(h2, Endpoint(c, r.socket + 1), r.m_session, r.m_kcp.conv)
    BY <1>1, <2>1, <2>2, ClaimMoves
  <2>4. QED
    BY <1>2, <2>1, <2>3 DEF NotClosed
<1>7. SocketOk(h2, c, t)
  <2> SUFFICES ASSUME NEW d \in h.closes, d.from[1] = c
               PROVE  d.from[2] <= r.socket + 1 /\ d.from[2] # r.socket + 1
    BY <1>2 DEF SocketOk
  <2>1. d.from[2] \in Nat
    BY DEF Consistent, UpData, Endpoints
  <2>2. d.from[2] <= r.socket
    BY DEF ClientOk, SocketOk
  <2>3. QED
    BY <1>1, <2>1, <2>2
<1>8. QED
  BY <1>3, <1>5, <1>6, <1>7 DEF ClientOk

LEMMA ConnectLeaves ==
    ASSUME NEW own, NEW c \in Clients, ClientHas(own, c), UNCHANGED serverVars,
           Connect(c)
    PROVE  ClientLeaves(own, c)
<1> DEFINE r == client[c]
           h == History(own)
           h2 == History(own)'
           n == r.socket + 1
           list == Readdressed(r.pump.m_pocket_list, Endpoint(c, n))
           p == [r.pump EXCEPT !.m_pocket_list = list]
           Left(s, opens) ==
              [r EXCEPT !.m_is_connecting = TRUE,
                        !.socket = @ + 1, !.open = opens,
                        !.pump.m_pocket_list =
                           Readdressed(@, Endpoint(c, r.socket + 1)),
                        !.reads = s, !.connects = @ + 1,
                        !.reports = Renewed(r), !.told = FALSE]
<1>1. /\ Sound(c, r) /\ r \in ClientRecords /\ net \subseteq Datagrams
      /\ Consistent(h) /\ NetOk(h, net) /\ ClientOk(h, c, r)
      /\ h.socket[c] = r.socket
  BY HasIs, HistoryIs
<1>2. PICK s \in SettledReads(c, r), opens \in BOOLEAN :
         IF opens
           THEN \E u \in CancelTimer(Read(Left(s, opens), "connect")) :
                /\ Becomes(c, [u EXCEPT !.m_connect_timer = "armed"])
                /\ net' = Reachable(Endpoint(c, r.socket))
                     \cup {Datagram(Endpoint(c, Left(s, opens).socket),
                                    Server, 0, 0, 0)}
           ELSE /\ Becomes(c, [Left(s, opens) EXCEPT !.posted = @ + 1])
                /\ net' = Reachable(Endpoint(c, r.socket))
  BY DEF Connect
<1> DEFINE t == [r EXCEPT !.m_is_connecting = TRUE, !.socket = n,
                          !.open = opens, !.pump = p, !.reads = s,
                          !.connects = r.connects + 1, !.reports = Renewed(r),
                          !.told = FALSE]
<1>3. Left(s, opens) = t
  BY <1>1 DEF ClientRecords
<1> HIDE DEF Left, h, h2
<1>4. /\ r.socket \in Nat /\ n \in Nat /\ r.pump \in PumpsOf(UpData)
      /\ r.connects + 1 \in Nat
  BY <1>1 DEF ClientRecords
<1>5. p.sends = r.pump.sends /\ p.m_pocket_list = list /\ p \in PumpsOf(UpData)
  <2>1. list \in Seq(UpData)
    <3> DEFINE old == r.pump.m_pocket_list
    <3>1. old \in Seq(UpData) /\ DOMAIN old = 1 .. Len(old) /\ Len(old) \in Nat
      BY <1>4, PumpFields
    <3>2. \A i \in DOMAIN old : old[i] \in UpData
      BY <3>1
    <3>3. Endpoint(c, n) \in Endpoints
      BY <1>4 DEF Endpoint, Endpoints
    <3>4. \A i \in DOMAIN old : list[i] \in UpData
      BY <3>2, <3>3 DEF Readdressed, UpData
    <3>5. list = [i \in DOMAIN old |-> list[i]]
      BY DEF Readdressed
    <3> HIDE DEF list
    <3>6. list \in [1 .. Len(old) -> UpData]
      BY <3>1, <3>4, <3>5
    <3>7. QED
      BY <3>1, <3>6, FunctionIsSeq
  <2> HIDE DEF list
  <2>2. QED
    BY <1>4, <2>1 DEF PumpsOf
<1>6. s \in Seq(ReadsOf)
  BY <1>1, SettledReadsIs
<1> HIDE DEF p, list
<1>7. t \in ClientRecords
  <2>1. Renewed(r) \in Reports
    BY <1>1, RenewedIs
  <2>2. QED
    BY <1>1, <1>4, <1>5, <1>6, <2>1 DEF ClientRecords
<1>8. /\ t.reads = s /\ t.socket = n /\ t.m_kcp = r.m_kcp /\ t.pump = p
      /\ t.m_kcp_timer = r.m_kcp_timer /\ t.m_session = r.m_session
      /\ t.late = r.late /\ t.open = opens
  BY <1>1 DEF ClientRecords
<1> HIDE DEF t
<1> DEFINE d == Datagram(Endpoint(c, n), Server, 0, 0, 0)
<1>9. /\ d \in UpData /\ d.from = Endpoint(c, n) /\ d.session = 0 /\ d.conv = 0
      /\ d.from[1] = c /\ d.from[2] = n
  <2>1. Endpoint(c, n) \in Endpoints
    BY <1>4 DEF Endpoint, Endpoints
  <2>2. QED
    BY <2>1 DEF Datagram, UpData, Endpoint
<1>10. net' = Reachable(Endpoint(c, r.socket)) \/
       net' = Reachable(Endpoint(c, r.socket)) \cup {d}
  BY <1>2, <1>3, <1>8
<1> HIDE DEF d, n
<1>11. Closes' = Closes
  <2>1. ASSUME NEW f, f.to = Server
        PROVE  f \in Reachable(Endpoint(c, r.socket)) <=> f \in net
    <3>1. Endpoint(c, r.socket) \in Endpoints
      BY <1>4 DEF Endpoint, Endpoints
    <3>2. QED
      BY <2>1, <3>1, NamesAssumption DEF Reachable
  <2>2. ~(d.session < 0)
    BY <1>9
  <2>3. QED
    BY <1>10, <2>1, <2>2 DEF Closes
<1>12. PICK w :
          /\ Becomes(c, w) /\ w.socket = n /\ w.late = r.late
          /\ \A g : Consistent(g) /\ ClientOk(g, c, t) => ClientOk(g, c, w)
  <2>1. CASE opens
    <3> DEFINE v == Read(t, "connect")
    <3>1. PICK u \in CancelTimer(v) : Becomes(c, [u EXCEPT !.m_connect_timer = "armed"])
      BY <1>2, <1>3, <2>1
    <3> DEFINE w == [u EXCEPT !.m_connect_timer = "armed"]
    <3>2. v \in ClientRecords /\ v = WithReads(t, v.reads)
      BY <1>7, ReadIs
    <3> HIDE DEF v
    <3>3. v.socket = n /\ v.late = r.late
      BY <1>7, <1>8, <3>2 DEF WithReads, ClientRecords
    <3>4. PICK e \in Nat : u \in ClientRecords /\ u = Cancelled(v, e)
      BY <3>2, CancelTimerIs
    <3>5. u.socket = v.socket /\ u.late = v.late
      BY <3>2, <3>4 DEF Cancelled, ClientRecords
    <3>6. /\ w.pump = u.pump /\ w.reads = u.reads /\ w.socket = u.socket
          /\ w.open = u.open /\ w.m_kcp_timer = u.m_kcp_timer
          /\ w.m_session = u.m_session /\ w.m_kcp = u.m_kcp /\ w.late = u.late
      BY <3>4 DEF ClientRecords
    <3> HIDE DEF w
    <3>7. ASSUME NEW g, Consistent(g), ClientOk(g, c, t)
          PROVE  ClientOk(g, c, w)
      <4>1. ClientOk(g, c, v)
        BY <1>7, <3>7, ReadOk DEF v
      <4>2. ClientOk(g, c, u)
        BY <3>1, <3>2, <3>7, <4>1, TimerOk
      <4>3. QED
        BY <3>4, <3>6, <3>7, <4>2, SameOk
    <3>8. QED
      BY <3>1, <3>3, <3>5, <3>6, <3>7 DEF w
  <2>2. CASE ~opens
    <3> DEFINE w == [t EXCEPT !.posted = @ + 1]
    <3>1. Becomes(c, w)
      BY <1>2, <1>3, <2>2
    <3>2. /\ w.pump = t.pump /\ w.reads = t.reads /\ w.socket = t.socket
          /\ w.open = t.open /\ w.m_kcp_timer = t.m_kcp_timer
          /\ w.m_session = t.m_session /\ w.m_kcp = t.m_kcp /\ w.late = t.late
      BY <1>7 DEF ClientRecords
    <3> HIDE DEF w
    <3>3. ASSUME NEW g, Consistent(g), ClientOk(g, c, t)
          PROVE  ClientOk(g, c, w)
      BY <1>7, <3>2, <3>3, SameOk
    <3>4. QED
      BY <1>8, <3>1, <3>2, <3>3
  <2>3. QED
    BY <2>1, <2>2
<1>13. client'[c] = w /\ \A b \in Clients \ {c} : client'[b] = client[b]
  BY <1>12, BecomesIs DEF ClientHas
<1>14. Moved(h, h2, c)
  <2>1. granted' = granted /\ dropped' = dropped /\ Held' = Held
    BY DEF serverVars, Held
  <2>2. /\ h.own = own /\ h.granted = granted /\ h.dropped = dropped
        /\ h.held = Held /\ h.closes = Closes
        /\ \A b \in Clients : h.socket[b] = client[b].socket
    BY HistoryIs DEF h
  <2>3. /\ h2.own = own /\ h2.granted = granted' /\ h2.dropped = dropped'
        /\ h2.held = Held' /\ h2.closes = Closes'
        /\ \A b \in Clients : h2.socket[b] = client'[b].socket
    BY HistoryNextIs DEF h2
  <2>4. \A b \in Clients : client'[b].late = client[b].late
    BY <1>12, <1>13
  <2>5. {b \in Clients : client'[b].late} = {b \in Clients : client[b].late}
    BY <2>4
  <2>6. h2.late = h.late
    BY <2>5 DEF h, h2, History
  <2>7. h2.socket[c] = h.socket[c] + 1
    BY <1>12, <1>13, <2>2, <2>3 DEF n
  <2>8. \A b \in Clients \ {c} : h2.socket[b] = h.socket[b]
    BY <1>13, <2>2, <2>3
  <2>9. QED
    BY <1>11, <2>1, <2>2, <2>3, <2>6, <2>7, <2>8 DEF Moved
<1>15. Consistent(h2) /\ Grows(h, h2) /\ \A b : Untouched(h, h2, b)
  BY <1>1, <1>14, MovedIs
<1>16. ClientOk(h2, c, t)
  BY <1>1, <1>5, <1>8, <1>14, MovedClient DEF n, list
<1>17. NetOk(h2, net')
  <2>1. NetOk(h2, net)
    BY <1>1, <1>15, NetGrows
  <2>2. n <= h2.socket[c]
    BY <1>1, <1>4, <1>14 DEF Moved, n
  <2>3. UpOk(h2, d)
    BY <1>9, <2>2 DEF UpOk, Claim
  <2>4. d \notin DownData
    BY <1>9, NamesAssumption DEF UpData, DownData
  <2>5. Reachable(Endpoint(c, r.socket)) \subseteq net
    BY DEF Reachable
  <2>6. QED
    BY <1>10, <2>1, <2>3, <2>4, <2>5 DEF NetOk
<1>18. ClientOk(h2, c, w)
  BY <1>12, <1>15, <1>16
<1>19. QED
  BY <1>13, <1>15, <1>17, <1>18 DEF ClientLeaves, h, h2

-----------------------------------------------------------------------------
LEMMA ClientStepLeaves ==
    ASSUME NEW own, NEW c \in Clients, ClientHas(own, c), UNCHANGED serverVars,
           \/ Connect(c)
           \/ ConnectNowhere(c)
           \/ HandlePosted(c)
           \/ ClientClose(c)
           \/ HandleConnectTimeout(c)
           \/ HandleReceiveConnect(c)
           \/ ClientHandleRead(c)
           \/ ClientSendPocket(c)
           \/ ClientUpdateKcp(c)
           \/ ClientHandleSend(c)
    PROVE  ClientLeaves(own, c)
  BY ConnectLeaves, ConnectNowhereLeaves, TimedLeaves, CloseLeaves, AnswerLeaves,
     ReadLeaves, SendPocketLeaves, UpdateLeaves, HandleSendLeaves

-----------------------------------------------------------------------------
(* The steps of the server.  It moves no client and closes no session by   *)
(* request.                                                                *)

Passed(h, h2) ==
    /\ \A c \in Clients : h2.socket[c] = h.socket[c]
    /\ h2.late = h.late /\ h2.closes = h.closes
    /\ h2.granted \in Nat /\ h.granted <= h2.granted
    /\ \A s \in 1 .. h.granted : h2.own[s] = h.own[s]
    /\ h.dropped \subseteq h2.dropped
    /\ \A conv, s : <<conv, s>> \in h.held => <<conv, s>> \in h2.held \/ Over(h2, s)

LEMMA PassedIs ==
    ASSUME NEW h, NEW h2, Consistent(h), Passed(h, h2)
    PROVE  Consistent(h2) /\ Grows(h, h2) /\ \A b : Untouched(h, h2, b)
<1>1. ASSUME NEW d \in h.closes
      PROVE  /\ d.session < 0 /\ -d.session <= h2.granted
             /\ h2.own[-d.session][1] = d.from[1]
  <2>1. /\ d.session < 0 /\ -d.session <= h.granted
        /\ h.own[-d.session][1] = d.from[1] /\ h.granted \in Nat
    BY DEF Consistent
  <2>2. d.session \in Int
    BY DEF Consistent, UpData
  <2>3. -d.session \in 1 .. h.granted
    BY <2>1, <2>2
  <2>4. h2.own[-d.session] = h.own[-d.session]
    BY <2>3 DEF Passed
  <2>5. -d.session <= h2.granted
    BY <2>1, <2>2 DEF Passed
  <2>6. QED
    BY <2>1, <2>4, <2>5
<1>2. Consistent(h2)
  BY <1>1 DEF Consistent, Passed
<1>3. Grows(h, h2)
  BY DEF Consistent, Passed, Grows
<1>4. QED
  BY <1>2, <1>3 DEF Untouched, Passed

LEMMA HeldIs ==
    /\ \A conv, s : <<conv, s>> \in Held <=>
          conv \in DOMAIN m_outer_map /\ s = m_outer_map[conv].m_session
    /\ \A conv, s : <<conv, s>> \in Held' <=>
          conv \in DOMAIN m_outer_map' /\ s = m_outer_map'[conv].m_session
  BY DEF Held

(* Whatever the server sends, no close request is among it.                *)
LEMMA DownClosesNothing ==
    ASSUME NEW new, net' = net \cup new, \A d \in new : d \in DownData
    PROVE  Closes' = Closes
<1>1. \A d \in new : d.to # Server
  BY NamesAssumption DEF DownData
<1>2. QED
  BY <1>1 DEF Closes

LEMMA PassedBy ==
    ASSUME NEW own, Consistent(History(own)), UNCHANGED <<client, granted>>,
           Closes' = Closes, dropped \subseteq dropped',
           \A conv \in DOMAIN m_outer_map :
              \/ /\ conv \in DOMAIN m_outer_map'
                 /\ m_outer_map'[conv].m_session = m_outer_map[conv].m_session
              \/ Over(History(own)', m_outer_map[conv].m_session)
    PROVE  Passed(History(own), History(own)')
<1> DEFINE h == History(own)
           h2 == History(own)'
<1>1. /\ h.own = own /\ h.granted = granted /\ h.dropped = dropped
      /\ h.held = Held /\ h.closes = Closes
      /\ \A c \in Clients : h.socket[c] = client[c].socket
  BY HistoryIs
<1>2. /\ h2.own = own /\ h2.granted = granted' /\ h2.dropped = dropped'
      /\ h2.held = Held' /\ h2.closes = Closes'
      /\ \A c \in Clients : h2.socket[c] = client'[c].socket
  BY HistoryNextIs
<1>3. h2.late = h.late
  BY DEF History
<1>4. h.granted \in Nat
  BY DEF Consistent
<1>5. \A conv \in DOMAIN m_outer_map :
         \/ /\ conv \in DOMAIN m_outer_map'
            /\ m_outer_map'[conv].m_session = m_outer_map[conv].m_session
         \/ Over(h2, m_outer_map[conv].m_session)
  OBVIOUS
<1> HIDE DEF h, h2
<1>6. ASSUME NEW conv, NEW s, <<conv, s>> \in h.held
      PROVE  <<conv, s>> \in h2.held \/ Over(h2, s)
  BY <1>1, <1>2, <1>5, <1>6, HeldIs
<1>7. Passed(h, h2)
  BY <1>1, <1>2, <1>3, <1>4, <1>6 DEF Passed
<1>8. QED
  BY <1>7 DEF h, h2

(* What Kept says, and what is to be shown after a step of the server.     *)
LEMMA ServerStepKept ==
    ASSUME IInv, NEW own, Kept(own), NEW own2,
           Passed(History(own), History(own2)'), UNCHANGED client,
           ServerOk(History(own2)', pump', m_outer_map', late_reads'),
           NEW new, net' = net \cup new,
           \A d \in new : d \in DownData /\ DownOk(History(own2)', d)
    PROVE  Kept(own2)'
<1> DEFINE h == History(own)
           h2 == History(own2)'
<1>1. Consistent(h) /\ NetOk(h, net) /\ \A c \in Clients : ClientOk(h, c, client[c])
  BY DEF Kept
<1>2. Passed(h, h2) /\ \A d \in new : d \in DownData /\ DownOk(h2, d)
  OBVIOUS
<1>3. \A c \in Clients : Sound(c, client[c])
  BY DEF IInv, Local
<1> HIDE DEF h, h2
<1>4. Consistent(h2) /\ Grows(h, h2) /\ \A b : Untouched(h, h2, b)
  BY <1>1, <1>2, PassedIs
<1>5. NetOk(h2, net')
  <2>1. NetOk(h2, net)
    BY <1>1, <1>4, NetGrows
  <2>2. \A d \in new : d \notin UpData
    BY <1>2, NamesAssumption DEF UpData, DownData
  <2>3. QED
    BY <1>2, <2>1, <2>2 DEF NetOk
<1>6. \A c \in Clients : ClientOk(h2, c, client'[c])
  BY <1>1, <1>3, <1>4, ClientOkGrows
<1>7. QED
  BY <1>4, <1>5, <1>6 DEF Kept, h2

(* What was good before a step of the server is good after it.             *)
LEMMA ServerStays ==
    ASSUME IInv, NEW own, Kept(own), NEW own2,
           Passed(History(own), History(own2)')
    PROVE  /\ ServerOk(History(own2)', pump, m_outer_map, late_reads)
           /\ NetOk(History(own2)', net)
<1> DEFINE h == History(own)
           h2 == History(own2)'
<1>1. /\ Consistent(h) /\ NetOk(h, net)
      /\ ServerOk(h, pump, m_outer_map, late_reads)
  BY DEF Kept
<1>2. Passed(h, h2)
  OBVIOUS
<1>3. /\ pump \in PumpsOf(DownData) /\ late_reads \in Seq(UpData \cup {Aborted})
      /\ \A conv \in DOMAIN m_outer_map : m_outer_map[conv] \in Receivers
  BY DEF IInv, ServerSound, PumpServed, ReceiversTyped
<1> HIDE DEF h, h2
<1>4. Consistent(h2) /\ Grows(h, h2)
  BY <1>1, <1>2, PassedIs
<1>5. ServerOk(h2, pump, m_outer_map, late_reads)
  BY <1>1, <1>3, <1>4, ServerGrows
<1>6. NetOk(h2, net)
  BY <1>1, <1>4, NetGrows
<1>7. QED
  BY <1>5, <1>6 DEF h2

LEMMA PocketDown ==
    ASSUME NEW h, pump \in PumpsOf(DownData), PumpDown(h, pump),
           NEW packet \in DownData, DownOk(h, packet),
           pump' = SendPocket(pump, packet, HasSocket)
    PROVE  PumpDown(h, pump')
<1> DEFINE q == SendPocket(pump, packet, HasSocket)
<1>1. HasSocket \in BOOLEAN
  BY DEF HasSocket
<1>2. \A d : InPump(d, q) => InPump(d, pump) \/ d = packet
  BY <1>1, SendPocketIs
<1> HIDE DEF q
<1>3. pump' = q
  BY DEF q
<1>4. QED
  BY <1>2, <1>3 DEF PumpDown

(* A datagram without a session says nothing but where it goes.            *)
LEMMA NoSession ==
    ASSUME NEW h, NEW h2, Passed(h, h2), NEW e \in Endpoints, NEW s, NEW conv,
           NEW conv2, Claim(h, e, s, conv)
    PROVE  Claim(h2, e, 0, conv2)
  BY DEF Claim, Passed, Endpoints

ServerLeaves(own) ==
    \E own2 : /\ Passed(History(own), History(own2)')
              /\ PumpDown(History(own2)', pump')
              /\ MapOk(History(own2)', m_outer_map')

(* A session that is granted is nobody's yet: no client has closed it.     *)
LEMMA GrantLeaves ==
    ASSUME IInv, NEW own, Kept(own), NEW d \in UpData, UpOk(History(own), d),
           HandleConnectRequest(d), ~IsEmpty(m_conv_creator, limit.convs),
           UNCHANGED <<client, dropped, net>>
    PROVE  ServerLeaves(own)
<1> DEFINE conv == CreatedID(m_conv_creator)
           h == History(own)
<1>1. PICK session \in {0, granted + 1} :
         /\ granted' = granted + 1
         /\ pump' = SendPocket(pump, Datagram(Server, d.from, session, conv, 0),
                               HasSocket)
         /\ HandleOuterConnect(d.from, session, conv)
  BY DEF HandleConnectRequest
<1>2. conv \notin DOMAIN m_outer_map /\ conv \in Nat /\ conv # 0
  <2>1. /\ m_conv_creator \in AnyCreator
        /\ Accounts(m_conv_creator, DOMAIN m_outer_map)
    BY DEF IInv, ConvInv, ConvsAccountedFor
  <2>2. /\ conv \notin DOMAIN m_outer_map
        /\ Accounts(CreateID(m_conv_creator), DOMAIN m_outer_map \cup {conv})
        /\ CreateID(m_conv_creator) \in AnyCreator
    BY <2>1, CreateAccounts
  <2>3. conv \in 1 .. CreateID(m_conv_creator).m_max_id
    BY <2>2 DEF Accounts
  <2>4. CreateID(m_conv_creator).m_max_id \in Nat
    BY <2>2 DEF AnyCreator
  <2>5. QED
    BY <2>2, <2>3, <2>4
<1>3. /\ d.from \in Endpoints /\ d.from[1] \in Clients /\ d.session \in Int
      /\ granted \in Nat /\ granted + 1 \in Nat
      /\ granted + 1 > granted /\ granted <= granted + 1
      /\ session \in Int /\ pump \in PumpsOf(DownData)
  BY <1>1 DEF UpData, Endpoints, IInv, ServerSound, PumpServed
<1> HIDE DEF conv
<1>4. PICK own2 : own2 = [n \in Nat |-> IF n = granted + 1
                                          THEN <<d.from[1], conv>> ELSE own[n]]
  OBVIOUS
<1>5. /\ own2[granted + 1] = <<d.from[1], conv>>
      /\ \A s \in 1 .. granted : own2[s] = own[s]
  BY <1>3, <1>4
<1> DEFINE h2 == History(own2)'
<1>6. /\ h.own = own /\ h.granted = granted /\ h.dropped = dropped
      /\ h.held = Held /\ h.closes = Closes
      /\ \A c \in Clients : h.socket[c] = client[c].socket
  BY HistoryIs
<1>7. /\ h2.own = own2 /\ h2.granted = granted' /\ h2.dropped = dropped'
      /\ h2.held = Held' /\ h2.closes = Closes'
      /\ \A c \in Clients : h2.socket[c] = client'[c].socket
  BY HistoryNextIs
<1>8. h2.late = h.late /\ Closes' = Closes
  BY DEF History, Closes
<1>9. /\ DOMAIN m_outer_map' = DOMAIN m_outer_map \cup {conv}
      /\ m_outer_map'[conv].m_endpoint = d.from
      /\ m_outer_map'[conv].m_session = session
      /\ \A v \in DOMAIN m_outer_map : m_outer_map'[v] = m_outer_map[v]
  BY <1>1, <1>2 DEF HandleOuterConnect
<1>10. Consistent(h) /\ UpOk(h, d)
  BY DEF Kept
<1> HIDE DEF h, h2
<1>11. Passed(h, h2)
  <2>1. ASSUME NEW v, NEW s, <<v, s>> \in h.held
        PROVE  <<v, s>> \in h2.held
    BY <1>6, <1>7, <1>9, <2>1, HeldIs
  <2>2. QED
    BY <1>1, <1>3, <1>5, <1>6, <1>7, <1>8, <2>1 DEF Passed
<1>12. Passed(History(own), History(own2)')
  BY <1>11 DEF h, h2
<1>13. /\ PumpDown(h2, pump) /\ MapOk(h2, m_outer_map)
  BY <1>12, ServerStays DEF ServerOk, h2
<1>14. Claim(h2, d.from, session, conv)
  <2>1. d.from[2] <= h2.socket[d.from[1]]
    BY <1>3, <1>10, <1>11 DEF UpOk, Claim, Passed
  <2>2. CASE session = 0
    BY <2>1, <2>2 DEF Claim
  <2>3. CASE session = granted + 1
    <3>1. session <= h2.granted /\ h2.own[session] = <<d.from[1], conv>>
      BY <1>1, <1>3, <1>5, <1>7, <2>3
    <3>2. <<conv, session>> \in h2.held
      BY <1>7, <1>9, HeldIs
    <3>3. ClosedSince(h2, d.from, session)
      <4> SUFFICES ASSUME NEW f \in h2.closes, f.session = -session PROVE FALSE
        BY DEF ClosedSince
      <4>1. -f.session <= granted /\ f.session \in Int
        BY <1>6, <1>8, <1>7, <1>10 DEF Consistent, UpData
      <4>2. -f.session = granted + 1
        BY <1>3, <2>3
      <4>3. QED
        BY <1>3, <4>1, <4>2
    <3>4. ~(session < 0)
      BY <1>3, <2>3
    <3>5. QED
      BY <1>2, <2>1, <3>1, <3>2, <3>3, <3>4 DEF Claim
  <2>4. QED
    BY <2>2, <2>3
<1> DEFINE packet == Datagram(Server, d.from, session, conv, 0)
<1>15. packet \in DownData
  BY <1>2, <1>3, DownDatagramIs
<1>16. DownOk(h2, packet)
  BY <1>14 DEF DownOk, Datagram
<1> HIDE DEF packet
<1>17. PumpDown(h2, pump')
  BY <1>1, <1>3, <1>13, <1>15, <1>16, PocketDown DEF packet
<1>18. MapOk(h2, m_outer_map')
  BY <1>9, <1>13, <1>14 DEF MapOk
<1>19. QED
  BY <1>12, <1>17, <1>18 DEF ServerLeaves, h2

LEMMA OverStays ==
    ASSUME NEW own, NEW s, Over(History(own), s), Closes' = Closes,
           dropped \subseteq dropped'
    PROVE  Over(History(own)', s)
<1> DEFINE h == History(own)
           h2 == History(own)'
<1>1. h.dropped = dropped /\ h.closes = Closes
  BY HistoryIs
<1>2. h2.dropped = dropped' /\ h2.closes = Closes'
  BY HistoryNextIs
<1>3. Over(h, s)
  OBVIOUS
<1> HIDE DEF h, h2
<1>4. Over(h2, s)
  BY <1>1, <1>2, <1>3 DEF Over, NotClosed
<1>5. QED
  BY <1>4 DEF h2

(* A receiver is removed when its session is over.                         *)
LEMMA RemovedLeaves ==
    ASSUME IInv, NEW own, Kept(own), NEW conv \in DOMAIN m_outer_map,
           m_outer_map' = WithoutConv(conv), UNCHANGED <<client, granted>>,
           Closes' = Closes, dropped \subseteq dropped',
           Over(History(own)', m_outer_map[conv].m_session)
    PROVE  /\ Passed(History(own), History(own)')
           /\ MapOk(History(own)', m_outer_map')
           /\ PumpDown(History(own)', pump)
           /\ DownOk(History(own)', CloseDatagram(conv))
<1> DEFINE h == History(own)
           h2 == History(own)'
<1>1. Consistent(History(own))
  BY DEF Kept
<1>2. /\ DOMAIN m_outer_map' = DOMAIN m_outer_map \ {conv}
      /\ \A v \in DOMAIN m_outer_map \ {conv} : m_outer_map'[v] = m_outer_map[v]
  BY DEF WithoutConv
<1>3. Passed(History(own), History(own)')
  BY <1>1, <1>2, PassedBy
<1>4. /\ PumpDown(h2, pump) /\ MapOk(h2, m_outer_map)
  BY <1>3, ServerStays DEF ServerOk
<1>5. Over(h2, m_outer_map[conv].m_session)
  OBVIOUS
<1> HIDE DEF h2
<1>6. MapOk(h2, m_outer_map')
  BY <1>2, <1>4 DEF MapOk
<1> DEFINE e == m_outer_map[conv].m_endpoint
           s == m_outer_map[conv].m_session
<1>7. s \in Nat /\ -(-s) = s /\ ~(-s > 0)
  <2>1. s \in Nat
    BY DEF IInv, ServerSound, ReceiversTyped, Receivers
  <2>2. \A n \in Nat : -(-n) = n /\ ~(-n > 0)
    OBVIOUS
  <2>3. QED
    BY <2>1, <2>2
<1>8. Claim(h2, e, s, conv) /\ Over(h2, s)
  BY <1>4, <1>5 DEF MapOk
<1> DEFINE packet == CloseDatagram(conv)
<1>9. packet.to = e /\ packet.session = -s /\ packet.conv = conv /\ packet.seg = 0
  BY DEF CloseDatagram, Datagram
<1> HIDE DEF e, s, packet
<1>10. Claim(h2, e, -s, conv)
  BY <1>7, <1>8 DEF Claim
<1>11. DownOk(h2, packet)
  BY <1>9, <1>10 DEF DownOk
<1>12. QED
  BY <1>3, <1>4, <1>6, <1>11 DEF h2, packet

(* A request that is refused, and a close request.                         *)
LEMMA RefusalLeaves ==
    ASSUME IInv, NEW own, Kept(own), NEW d \in UpData, UpOk(History(own), d),
           HandleConnectRequest(d), IsEmpty(m_conv_creator, limit.convs),
           UNCHANGED <<client, dropped, net>>
    PROVE  ServerLeaves(own)
<1> DEFINE packet == Datagram(Server, d.from, 0, 0, 0)
           h == History(own)
           h2 == History(own)'
<1>1. /\ pump' = SendPocket(pump, packet, HasSocket)
      /\ UNCHANGED <<m_outer_map, granted>>
  BY DEF HandleConnectRequest
<1>2. Closes' = Closes /\ Consistent(History(own))
  BY DEF Closes, Kept
<1>3. Passed(History(own), History(own)')
  BY <1>1, <1>2, PassedBy
<1>4. PumpDown(h2, pump) /\ MapOk(h2, m_outer_map')
  BY <1>1, <1>3, ServerStays DEF ServerOk
<1>5. d.from \in Endpoints
  BY DEF UpData
<1>6. packet \in DownData
  BY <1>5, DownDatagramIs
<1>7. Claim(h, d.from, d.session, d.conv) /\ Passed(h, h2)
  BY <1>3 DEF UpOk
<1> HIDE DEF h, h2
<1>8. Claim(h2, d.from, 0, 0)
  BY <1>5, <1>7, NoSession
<1>9. DownOk(h2, packet)
  BY <1>8 DEF DownOk, Datagram
<1>10. pump \in PumpsOf(DownData)
  BY DEF IInv, ServerSound, PumpServed
<1> HIDE DEF packet
<1>11. PumpDown(h2, pump')
  BY <1>1, <1>4, <1>6, <1>9, <1>10, PocketDown
<1>12. QED
  BY <1>3, <1>4, <1>11 DEF ServerLeaves, h2

LEMMA NothingLeaves ==
    ASSUME IInv, NEW own, Kept(own),
           UNCHANGED <<client, granted, dropped, net, pump, m_outer_map>>
    PROVE  ServerLeaves(own)
<1>1. Closes' = Closes /\ Consistent(History(own))
  BY DEF Closes, Kept
<1>2. Passed(History(own), History(own)')
  BY <1>1, PassedBy
<1>3. PumpDown(History(own)', pump') /\ MapOk(History(own)', m_outer_map')
  BY <1>2, ServerStays DEF ServerOk
<1>4. QED
  BY <1>2, <1>3 DEF ServerLeaves

LEMMA CloseRequestLeaves ==
    ASSUME IInv, NEW own, Kept(own), NEW d \in UpData, UpOk(History(own), d),
           HandleCloseRequest(d), UNCHANGED <<client, dropped, net>>
    PROVE  ServerLeaves(own)
<1>1. Closes' = Closes
  BY DEF Closes
<1>2. CASE CheckSession(d.conv, -d.session)
  <2> DEFINE h2 == History(own)'
             packet == CloseDatagram(d.conv)
  <2>1. /\ d.conv \in DOMAIN m_outer_map
        /\ m_outer_map[d.conv].m_session = -d.session
        /\ pump' = SendPocket(pump, CloseDatagram(d.conv), HasSocket)
        /\ m_outer_map' = WithoutConv(d.conv) /\ granted' = granted
    BY <1>2 DEF HandleCloseRequest, HandleOuterDisconnected, CheckSession
  <2>2. Over(History(own), -d.session)
    BY DEF UpOk, Claim, HandleCloseRequest
  <2>3. Over(History(own)', m_outer_map[d.conv].m_session)
    BY <1>1, <2>1, <2>2, OverStays
  <2>4. /\ Passed(History(own), History(own)')
        /\ MapOk(h2, m_outer_map') /\ PumpDown(h2, pump) /\ DownOk(h2, packet)
    BY <1>1, <2>1, <2>3, RemovedLeaves
  <2>5. packet \in DownData /\ pump \in PumpsOf(DownData)
    BY <2>1, CloseDatagramIs DEF IInv, ServerSound, PumpServed
  <2>6. pump' = SendPocket(pump, packet, HasSocket)
    BY <2>1
  <2> HIDE DEF packet, h2
  <2>7. PumpDown(h2, pump')
    BY <2>4, <2>5, <2>6, PocketDown
  <2>8. QED
    BY <2>4, <2>7 DEF ServerLeaves, h2
<1>3. CASE ~CheckSession(d.conv, -d.session)
  <2>1. UNCHANGED <<pump, m_outer_map, granted>>
    BY <1>3 DEF HandleCloseRequest
  <2>2. QED
    BY <2>1, NothingLeaves
<1>4. QED
  BY <1>2, <1>3

(* Data names the conv and the session of its receiver, which takes the    *)
(* address it comes from.                                                  *)
LEMMA DataLeaves ==
    ASSUME IInv, NEW own, Kept(own), NEW d \in UpData, UpOk(History(own), d),
           HandleData(d), UNCHANGED <<client, dropped, net>>
    PROVE  ServerLeaves(own)
<1>1. CASE CheckSession(d.conv, d.session)
  <2> DEFINE h2 == History(own)'
  <2>1. /\ d.conv \in DOMAIN m_outer_map
        /\ m_outer_map[d.conv].m_session = d.session
        /\ UNCHANGED <<pump, granted>>
    BY <1>1 DEF HandleData, CheckSession
  <2>2. m_outer_map[d.conv] \in Receivers
    BY <2>1 DEF IInv, ServerSound, ReceiversTyped
  <2>3. /\ DOMAIN m_outer_map' = DOMAIN m_outer_map
        /\ \A v \in DOMAIN m_outer_map \ {d.conv} :
              m_outer_map'[v] = m_outer_map[v]
        /\ m_outer_map'[d.conv].m_session = d.session
        /\ m_outer_map'[d.conv].m_endpoint = d.from
    BY <1>1, <2>1, <2>2 DEF HandleData, Receivers
  <2>4. Closes' = Closes /\ Consistent(History(own))
    BY DEF Closes, Kept
  <2>5. \A v \in DOMAIN m_outer_map :
           v \in DOMAIN m_outer_map' /\ m_outer_map'[v].m_session = m_outer_map[v].m_session
    BY <2>1, <2>3
  <2>6. Passed(History(own), History(own)')
    BY <2>1, <2>4, <2>5, PassedBy
  <2>7. PumpDown(h2, pump') /\ MapOk(h2, m_outer_map)
    BY <2>1, <2>6, ServerStays DEF ServerOk
  <2>8. UpOk(h2, d)
    <3>1. Grows(History(own), History(own)') /\ Consistent(History(own)')
      BY <2>4, <2>6, PassedIs
    <3>2. QED
      BY <2>4, <3>1, UpGrows
  <2> HIDE DEF h2
  <2>9. MapOk(h2, m_outer_map')
    BY <2>3, <2>7, <2>8 DEF MapOk, UpOk
  <2>10. QED
    BY <2>6, <2>7, <2>9 DEF ServerLeaves, h2
<1>2. CASE ~CheckSession(d.conv, d.session)
  <2>1. UNCHANGED <<pump, m_outer_map, granted>>
    BY <1>2 DEF HandleData
  <2>2. QED
    BY <2>1, NothingLeaves
<1>3. QED
  BY <1>1, <1>2

LEMMA DatagramLeaves ==
    ASSUME IInv, NEW own, Kept(own), NEW d \in UpData, UpOk(History(own), d),
           HandleDatagram(d), UNCHANGED <<client, dropped, net>>
    PROVE  ServerLeaves(own)
  BY GrantLeaves, RefusalLeaves, CloseRequestLeaves, DataLeaves DEF HandleDatagram

(* A step that reads leaves the results of a Close, or fewer of them.      *)
LEMMA LeavesKept ==
    ASSUME IInv, NEW own, Kept(own), ServerLeaves(own), UNCHANGED <<client, net>>,
           \A i \in DOMAIN late_reads' :
              \E j \in DOMAIN late_reads : late_reads'[i] = late_reads[j]
    PROVE  \E own2 : Kept(own2)'
<1>1. PICK own2 : /\ Passed(History(own), History(own2)')
                  /\ PumpDown(History(own2)', pump')
                  /\ MapOk(History(own2)', m_outer_map')
  BY DEF ServerLeaves
<1> DEFINE h2 == History(own2)'
<1>2. ResultsUp(h2, late_reads)
  BY <1>1, ServerStays DEF ServerOk
<1>3. PumpDown(h2, pump') /\ MapOk(h2, m_outer_map')
  BY <1>1
<1> HIDE DEF h2
<1>4. ResultsUp(h2, late_reads')
  BY <1>2 DEF ResultsUp
<1>5. ServerOk(h2, pump', m_outer_map', late_reads')
  BY <1>3, <1>4 DEF ServerOk
<1>6. PICK new : new = {}
  OBVIOUS
<1>7. net' = net \cup new /\ \A d \in new : d \in DownData /\ DownOk(h2, d)
  BY <1>6
<1>8. Kept(own2)'
  BY <1>1, <1>5, <1>7, ServerStepKept DEF h2
<1>9. QED
  BY <1>8

LEMMA ServerReadKept ==
    ASSUME IInv, NEW own, Kept(own), UNCHANGED client,
           ServerHandleRead \/ HandleLateRead
    PROVE  \E own2 : Kept(own2)'
<1>1. CASE ServerHandleRead
  <2>1. PICK d \in Arriving(Server) : HandleDatagram(d)
    BY <1>1 DEF ServerHandleRead
  <2>2. d \in UpData /\ d \in net
    BY <2>1, LateResultsIs DEF IInv, Arriving
  <2>3. UpOk(History(own), d)
    BY <2>2 DEF Kept, NetOk
  <2>4. UNCHANGED <<client, dropped, net>> /\ late_reads' = late_reads
    BY <1>1 DEF ServerHandleRead
  <2>5. ServerLeaves(own)
    BY <2>1, <2>2, <2>3, <2>4, DatagramLeaves
  <2>6. QED
    BY <2>4, <2>5, LeavesKept
<1>2. CASE HandleLateRead
  <2> DEFINE result == Head(late_reads)
  <2>1. late_reads \in Seq(UpData \cup {Aborted}) /\ late_reads # <<>>
    BY <1>2 DEF IInv, ServerSound, HandleLateRead
  <2>2. /\ result \in UpData \cup {Aborted} /\ result = late_reads[1]
        /\ 1 \in DOMAIN late_reads
        /\ \A i \in DOMAIN Tail(late_reads) :
              i + 1 \in DOMAIN late_reads /\ Tail(late_reads)[i] = late_reads[i + 1]
    BY <2>1, TailIs
  <2>3. UNCHANGED <<client, dropped, net>> /\ late_reads' = Tail(late_reads)
    BY <1>2 DEF HandleLateRead
  <2>4. \A i \in DOMAIN late_reads' :
           \E j \in DOMAIN late_reads : late_reads'[i] = late_reads[j]
    BY <2>2, <2>3
  <2>5. ServerLeaves(own)
    <3>1. CASE result = Aborted
      <4>1. UNCHANGED <<pump, m_outer_map, granted>>
        BY <1>2, <3>1 DEF HandleLateRead
      <4>2. QED
        BY <2>3, <4>1, NothingLeaves
    <3>2. CASE result # Aborted
      <4>1. HandleDatagram(result)
        BY <1>2, <3>2 DEF HandleLateRead
      <4>2. UpOk(History(own), result) /\ result \in UpData
        BY <2>2, <3>2 DEF Kept, ServerOk, ResultsUp
      <4> HIDE DEF result
      <4>3. QED
        BY <2>3, <4>1, <4>2, DatagramLeaves
    <3>3. QED
      BY <3>1, <3>2
  <2>6. QED
    BY <2>3, <2>4, <2>5, LeavesKept
<1>3. QED
  BY <1>1, <1>2

(* Close, one receiver after the other.                                    *)
LEMMA CloseReceiverKept ==
    ASSUME IInv, NEW own, Kept(own), NEW conv \in DOMAIN m_outer_map,
           CloseReceiver(conv), UNCHANGED client
    PROVE  Kept(own)'
<1> DEFINE packet == CloseDatagram(conv)
           h2 == History(own)'
<1>1. /\ m_outer_map' = WithoutConv(conv) /\ UNCHANGED <<client, granted, late_reads>>
      /\ dropped' = dropped \cup {m_outer_map[conv].m_session}
      /\ \/ net' = net \cup {packet} /\ pump' = pump
         \/ net' = net /\ pump' = SendPocket(pump, packet, HasSocket)
  BY DEF CloseReceiver, Transmit
<1>2. packet \in DownData /\ pump \in PumpsOf(DownData)
  BY CloseDatagramIs DEF IInv, ServerSound, PumpServed
<1>3. PICK new : new = (IF net' = net THEN {} ELSE {packet})
  OBVIOUS
<1>4. \A d \in new : d = packet
  BY <1>3
<1> HIDE DEF packet
<1>5. net' = net \cup new
  BY <1>1, <1>3
<1>6. Closes' = Closes
  BY <1>2, <1>4, <1>5, DownClosesNothing
<1>7. dropped \subseteq dropped'
  BY <1>1
<1>8. Over(History(own)', m_outer_map[conv].m_session)
  <2>1. h2.dropped = dropped'
    BY HistoryNextIs
  <2> HIDE DEF h2
  <2>2. Over(h2, m_outer_map[conv].m_session)
    BY <1>1, <2>1 DEF Over
  <2>3. QED
    BY <2>2 DEF h2
<1>9. /\ Passed(History(own), History(own)')
      /\ MapOk(h2, m_outer_map') /\ PumpDown(h2, pump) /\ DownOk(h2, packet)
  BY <1>1, <1>6, <1>7, <1>8, RemovedLeaves DEF packet
<1>10. ResultsUp(h2, late_reads')
  BY <1>1, <1>9, ServerStays DEF ServerOk
<1> HIDE DEF h2
<1>11. PumpDown(h2, pump')
  <2>1. CASE pump' = pump
    BY <1>9, <2>1
  <2>2. CASE pump' = SendPocket(pump, packet, HasSocket)
    BY <1>2, <1>9, <2>2, PocketDown
  <2>3. QED
    BY <1>1, <2>1, <2>2
<1>12. ServerOk(h2, pump', m_outer_map', late_reads')
  BY <1>9, <1>10, <1>11 DEF ServerOk
<1>13. \A d \in new : d \in DownData /\ DownOk(h2, d)
  BY <1>2, <1>4, <1>9
<1>14. QED
  BY <1>1, <1>5, <1>9, <1>12, <1>13, ServerStepKept DEF h2

(* A step that moves no session and adds to the datagrams what the pump    *)
(* held.                                                                   *)
LEMMA StillKept ==
    ASSUME IInv, NEW own, Kept(own), UNCHANGED <<client, granted, dropped>>,
           DOMAIN m_outer_map' = DOMAIN m_outer_map,
           \A conv \in DOMAIN m_outer_map :
              /\ m_outer_map'[conv].m_session = m_outer_map[conv].m_session
              /\ m_outer_map'[conv].m_endpoint = m_outer_map[conv].m_endpoint,
           \A d : InPump(d, pump') => InPump(d, pump) \/ DownOk(History(own)', d),
           \A i \in DOMAIN late_reads' :
              \/ late_reads'[i] = Aborted
              \/ late_reads'[i] \in net /\ late_reads'[i] \in UpData
              \/ \E j \in DOMAIN late_reads : late_reads'[i] = late_reads[j],
           NEW new, net' = net \cup new, \A d \in new : InPump(d, pump)
    PROVE  Kept(own)'
<1> DEFINE h2 == History(own)'
<1>1. \A d \in new : d \in DownData
  BY PumpFields DEF IInv, ServerSound, PumpServed
<1>2. Closes' = Closes
  BY <1>1, DownClosesNothing
<1>3. Consistent(History(own))
  BY DEF Kept
<1>4. Passed(History(own), History(own)')
  BY <1>2, <1>3, PassedBy
<1>5. /\ PumpDown(h2, pump) /\ MapOk(h2, m_outer_map) /\ ResultsUp(h2, late_reads)
      /\ NetOk(h2, net)
  BY <1>4, ServerStays DEF ServerOk
<1>6. \A d : InPump(d, pump') => InPump(d, pump) \/ DownOk(h2, d)
  OBVIOUS
<1> HIDE DEF h2
<1>7. PumpDown(h2, pump')
  BY <1>5, <1>6 DEF PumpDown
<1>8. MapOk(h2, m_outer_map')
  BY <1>5 DEF MapOk
<1>9. ResultsUp(h2, late_reads')
  <2> SUFFICES ASSUME NEW i \in DOMAIN late_reads', late_reads'[i] # Aborted
               PROVE  UpOk(h2, late_reads'[i])
    BY DEF ResultsUp
  <2>1. CASE late_reads'[i] \in net /\ late_reads'[i] \in UpData
    BY <1>5, <2>1 DEF NetOk
  <2>2. CASE \E j \in DOMAIN late_reads : late_reads'[i] = late_reads[j]
    BY <1>5, <2>2 DEF ResultsUp
  <2>3. QED
    BY <2>1, <2>2
<1>10. ServerOk(h2, pump', m_outer_map', late_reads')
  BY <1>7, <1>8, <1>9 DEF ServerOk
<1>11. \A d \in new : d \in DownData /\ DownOk(h2, d)
  BY <1>1, <1>5 DEF PumpDown
<1>12. QED
  BY <1>4, <1>10, <1>11, ServerStepKept DEF h2

LEMMA CloseEndKept ==
    ASSUME IInv, NEW own, Kept(own), CloseEnd, UNCHANGED client
    PROVE  Kept(own)'
<1>1. PICK results \in [1 .. reads -> LateResults] : late_reads' = late_reads \o results
  BY DEF CloseEnd
<1>2. /\ LateResults \subseteq UpData \cup {Aborted} /\ reads \in Nat
      /\ late_reads \in Seq(UpData \cup {Aborted}) /\ pump \in PumpsOf(DownData)
  BY LateResultsIs DEF IInv, ServerSound, PumpServed
<1>3. results \in [1 .. reads -> UpData \cup {Aborted}]
  BY <1>2
<1>4. results \in Seq(UpData \cup {Aborted})
  BY <1>2, <1>3, FunctionIsSeq
<1>5. \A i \in DOMAIN late_reads' :
         \/ \E j \in DOMAIN late_reads : late_reads'[i] = late_reads[j]
         \/ \E j \in DOMAIN results : late_reads'[i] = results[j]
  <2> DEFINE all == late_reads \o results
  <2>1. \A i \in DOMAIN all : \/ \E j \in DOMAIN late_reads : all[i] = late_reads[j]
                             \/ \E j \in DOMAIN results : all[i] = results[j]
    BY <1>2, <1>4, ConcatElements
  <2>2. late_reads' = all
    BY <1>1
  <2> HIDE DEF all
  <2>3. QED
    BY <2>1, <2>2
<1>6. \A j \in DOMAIN results :
         results[j] = Aborted \/ (results[j] \in net /\ results[j] \in UpData)
  BY <1>3 DEF LateResults, Arriving
<1>7. \A i \in DOMAIN late_reads' :
         \/ late_reads'[i] = Aborted
         \/ late_reads'[i] \in net /\ late_reads'[i] \in UpData
         \/ \E j \in DOMAIN late_reads : late_reads'[i] = late_reads[j]
  BY <1>5, <1>6
<1>8. \A d : InPump(d, pump') => InPump(d, pump)
  BY <1>2, SettledIs DEF CloseEnd
<1>9. UNCHANGED <<granted, dropped, m_outer_map, net>>
  BY DEF CloseEnd
<1>10. PICK new : new = {}
  OBVIOUS
<1>11. net' = net \cup new /\ \A d \in new : InPump(d, pump)
  BY <1>9, <1>10
<1>12. QED
  BY <1>7, <1>8, <1>9, <1>11, StillKept

LEMMA ServerHandleSendKept ==
    ASSUME IInv, NEW own, Kept(own), ServerHandleSend, UNCHANGED client
    PROVE  Kept(own)'
<1> DEFINE p == Completed(pump)
           q == NextSend(p, HasSocket)
           packet == Head(pump.sends).packet
<1>1. PICK result \in Results(pump) :
         IF result = "sent"
           THEN Transmit({packet}) /\ pump' = SendAgain(p)
           ELSE pump' = p /\ UNCHANGED net
  BY DEF ServerHandleSend
<1>2. pump.sends # <<>> /\ pump \in PumpsOf(DownData)
  BY <1>1 DEF Results, IInv, ServerSound, PumpServed
<1>3. /\ p \in PumpsOf(DownData) /\ InPump(packet, pump)
      /\ \A d : InPump(d, p) => InPump(d, pump)
  BY <1>2, CompletedIs
<1>4. HasSocket \in BOOLEAN
  BY DEF HasSocket
<1> HIDE DEF p, packet
<1>5. \A d : InPump(d, q) => InPump(d, p)
  BY <1>3, <1>4, NextSendIs
<1>6. PICK new : new = (IF result = "sent" THEN {packet} ELSE {})
  OBVIOUS
<1>7. net' = net \cup new /\ \A d \in new : InPump(d, pump)
  BY <1>1, <1>3, <1>6 DEF Transmit
<1>8. pump' = q \/ pump' = p
  BY <1>1 DEF SendAgain
<1> HIDE DEF q
<1>9. \A d : InPump(d, pump') => InPump(d, pump)
  BY <1>3, <1>5, <1>8
<1>10. UNCHANGED <<granted, dropped, m_outer_map, late_reads>>
  BY DEF ServerHandleSend
<1>11. QED
  BY <1>7, <1>9, <1>10, StillKept

LEMMA HeartbeatKept ==
    ASSUME IInv, NEW own, Kept(own), ServerSendHeartbeat, UNCHANGED client
    PROVE  Kept(own)'
<1>1. UNCHANGED <<granted, dropped, pump, late_reads, net>>
  BY DEF ServerSendHeartbeat
<1>2. DOMAIN m_outer_map' = DOMAIN m_outer_map
  BY DEF ServerSendHeartbeat
<1>3. ASSUME NEW conv \in DOMAIN m_outer_map
      PROVE  /\ m_outer_map'[conv].m_session = m_outer_map[conv].m_session
             /\ m_outer_map'[conv].m_endpoint = m_outer_map[conv].m_endpoint
  <2> DEFINE r == m_outer_map[conv]
             n == IF r.queued < limit.down THEN r.queued + 1 ELSE r.queued
  <2>1. r \in Receivers
    BY DEF IInv, ServerSound, ReceiversTyped
  <2>2. m_outer_map'[conv] = [r EXCEPT !.queued = n]
    BY DEF ServerSendHeartbeat
  <2> HIDE DEF n, r
  <2>3. m_outer_map'[conv].m_session = r.m_session /\ m_outer_map'[conv].m_endpoint = r.m_endpoint
    BY <2>1, <2>2 DEF Receivers
  <2>4. QED
    BY <2>3 DEF r
<1>4. PICK new : new = {}
  OBVIOUS
<1>5. net' = net \cup new /\ \A d \in new : InPump(d, pump)
  BY <1>1, <1>4
<1>6. QED
  BY <1>1, <1>2, <1>3, <1>5, StillKept

(* The segments sent are of the session of their receiver.                 *)
LEMMA UnsentOk ==
    ASSUME NEW h, MapOk(h, m_outer_map), ReceiversTyped,
           NEW conv \in DOMAIN m_outer_map, NEW d \in Unsent(conv)
    PROVE  DownOk(h, d)
<1> DEFINE r == m_outer_map[conv]
<1>1. r.m_session \in Nat
  BY DEF ReceiversTyped, Receivers
<1>2. PICK seg \in (r.output + 1) .. r.queued :
         d = Datagram(Server, r.m_endpoint, r.m_session, conv, seg)
  BY DEF Unsent
<1>3. d.to = r.m_endpoint /\ d.session = r.m_session /\ d.conv = conv
  BY <1>2 DEF Datagram
<1>4. Claim(h, r.m_endpoint, r.m_session, conv)
  BY DEF MapOk
<1> HIDE DEF r
<1>5. QED
  BY <1>1, <1>3, <1>4 DEF DownOk

LEMMA ServerUpdateKept ==
    ASSUME IInv, NEW own, Kept(own), ServerUpdateKcp, UNCHANGED client
    PROVE  Kept(own)'
<1> DEFINE S == UNION {Unsent(conv) : conv \in DOMAIN m_outer_map}
           n == Cardinality(S)
           h2 == History(own)'
<1>1. S \subseteq DownData /\ n \in Nat
  BY AllUnsentIs DEF IInv, ServerSound
<1>2. PICK order \in SetToSeqs(S) : pump' = SendAll(pump, order, HasSocket)
  BY DEF ServerUpdateKcp
<1>3. HasSocket \in BOOLEAN /\ pump \in PumpsOf(DownData)
  BY DEF HasSocket, IInv, ServerSound, PumpServed
<1>4. UNCHANGED <<granted, dropped, late_reads, net>>
  BY DEF ServerUpdateKcp
<1>5. DOMAIN m_outer_map' = DOMAIN m_outer_map
  BY DEF ServerUpdateKcp
<1>6. ASSUME NEW conv \in DOMAIN m_outer_map
      PROVE  /\ m_outer_map'[conv].m_session = m_outer_map[conv].m_session
             /\ m_outer_map'[conv].m_endpoint = m_outer_map[conv].m_endpoint
  <2> DEFINE r == m_outer_map[conv]
  <2>1. r \in Receivers
    BY DEF IInv, ServerSound, ReceiversTyped
  <2>2. m_outer_map'[conv] = [r EXCEPT !.output = r.queued]
    BY DEF ServerUpdateKcp
  <2> HIDE DEF r
  <2>3. m_outer_map'[conv].m_session = r.m_session /\ m_outer_map'[conv].m_endpoint = r.m_endpoint
    BY <2>1, <2>2 DEF Receivers
  <2>4. QED
    BY <2>3 DEF r
<1>7. MapOk(h2, m_outer_map)
  <2>1. Closes' = Closes /\ Consistent(History(own))
    BY <1>4 DEF Closes, Kept
  <2>2. Passed(History(own), History(own)')
    BY <1>4, <1>5, <1>6, <2>1, PassedBy
  <2>3. QED
    BY <2>2, ServerStays DEF ServerOk
<1> HIDE DEF h2
<1>8. \A d \in S : DownOk(h2, d)
  BY <1>7, UnsentOk DEF IInv, ServerSound
<1> HIDE DEF S
<1>9. order \in [1 .. n -> S]
  BY <1>1, <1>2 DEF SetToSeqs
<1> HIDE DEF n
<1>10. order \in Seq(DownData) /\ \A i \in DOMAIN order : order[i] \in S
  <2>1. order \in [1 .. n -> DownData]
    BY <1>1, <1>9
  <2>2. QED
    BY <1>1, <1>9, <2>1, FunctionIsSeq
<1> DEFINE q == SendAll(pump, order, HasSocket)
<1>11. \A d : InPump(d, q) => InPump(d, pump) \/ \E i \in DOMAIN order : order[i] = d
  BY <1>3, <1>10, SendAllIs
<1>12. pump' = q
  BY <1>2
<1> HIDE DEF q
<1>13. \A d : InPump(d, pump') => InPump(d, pump) \/ DownOk(h2, d)
  BY <1>8, <1>10, <1>11, <1>12
<1>14. PICK new : new = {}
  OBVIOUS
<1>15. net' = net \cup new /\ \A d \in new : InPump(d, pump)
  BY <1>4, <1>14
<1>16. QED
  BY <1>4, <1>5, <1>6, <1>13, <1>15, StillKept DEF h2

LEMMA ServerKept ==
    ASSUME IInv, NEW own, Kept(own), ServerNext, UNCHANGED client
    PROVE  \E own2 : Kept(own2)'
<1>1. CASE ServerStart \/ StartFails \/ CloseBegin
  <2>1. UNCHANGED <<granted, dropped, m_outer_map, pump, late_reads, net>>
    BY <1>1 DEF ServerStart, StartFails, CloseBegin
  <2>2. PICK new : new = {}
    OBVIOUS
  <2>3. net' = net \cup new /\ \A d \in new : InPump(d, pump)
    BY <2>1, <2>2
  <2>4. Kept(own)'
    BY <2>1, <2>3, StillKept
  <2>5. QED
    BY <2>4
<1>2. CASE \E conv \in DOMAIN m_outer_map : CloseReceiver(conv)
  <2>1. Kept(own)'
    BY <1>2, CloseReceiverKept
  <2>2. QED
    BY <2>1
<1>3. CASE CloseEnd
  <2>1. Kept(own)'
    BY <1>3, CloseEndKept
  <2>2. QED
    BY <2>1
<1>4. CASE ServerHandleRead \/ HandleLateRead
  BY <1>4, ServerReadKept
<1>5. CASE ServerHandleSend \/ ServerSendHeartbeat \/ ServerUpdateKcp
  <2>1. Kept(own)'
    BY <1>5, ServerHandleSendKept, HeartbeatKept, ServerUpdateKept
  <2>2. QED
    BY <2>1
<1>6. QED
  BY <1>1, <1>2, <1>3, <1>4, <1>5 DEF ServerNext

-----------------------------------------------------------------------------
(* The server and its clients: there is always such a past.                *)

SInv == \E own : Kept(own)

LEMMA SInvInit == Init => SInv
<1> SUFFICES ASSUME Init PROVE SInv
  OBVIOUS
<1>1. PICK own : own = [n \in Nat |-> 0]
  OBVIOUS
<1> DEFINE h == History(own)
<1>2. /\ h.own = own /\ h.granted = granted /\ h.dropped = dropped
      /\ h.held = Held /\ h.closes = Closes
      /\ \A c \in Clients : h.socket[c] = client[c].socket
  BY HistoryIs
<1> HIDE DEF h
<1>3. /\ net = {} /\ granted = 0 /\ DOMAIN m_outer_map = {} /\ pump = IdlePump
      /\ late_reads = <<>>
  BY DEF Init, ServerInit, Empty
<1>4. \A d : ~InPump(d, IdlePump)
  BY IdlePumpIs
<1>5. DOMAIN <<>> = {}
  BY EmptyIs
<1>6. ASSUME NEW c \in Clients
      PROVE  /\ client[c].socket = 0 /\ client[c].pump = IdlePump
             /\ client[c].reads = <<>> /\ ~client[c].m_kcp_timer
  BY DEF Init, ClientInit
<1>7. IdlePump.m_pocket_list = <<>>
  BY DEF IdlePump
<1>8. h.closes = {}
  BY <1>2, <1>3 DEF Closes
<1>9. Consistent(h)
  BY <1>2, <1>3, <1>6, <1>8 DEF Consistent
<1>10. NetOk(h, net)
  BY <1>3 DEF NetOk
<1>11. ServerOk(h, pump, m_outer_map, late_reads)
  BY <1>3, <1>4, <1>5 DEF ServerOk, PumpDown, MapOk, ResultsUp
<1>12. ASSUME NEW c \in Clients
       PROVE  ClientOk(h, c, client[c])
  <2>1. PumpOk(h, c, client[c].pump)
    BY <1>4, <1>5, <1>6, <1>7 DEF PumpOk
  <2>2. ReadsOk(h, c, client[c])
    BY <1>5, <1>6 DEF ReadsOk
  <2>3. SessionOk(h, c, client[c])
    BY <1>6 DEF SessionOk
  <2>4. SocketOk(h, c, client[c])
    BY <1>8 DEF SocketOk
  <2>5. QED
    BY <2>1, <2>2, <2>3, <2>4 DEF ClientOk
<1>13. Kept(own)
  BY <1>9, <1>10, <1>11, <1>12 DEF Kept, h
<1>14. QED
  BY <1>13 DEF SInv

LEMMA ClientKept ==
    ASSUME IInv, NEW own, Kept(own), NEW c \in Clients, UNCHANGED serverVars,
           ClientLeaves(own, c)
    PROVE  Kept(own)'
<1> DEFINE h == History(own)
           h2 == History(own)'
<1>1. /\ Consistent(h) /\ ServerOk(h, pump, m_outer_map, late_reads)
      /\ \A b \in Clients : ClientOk(h, b, client[b])
  BY DEF Kept
<1>2. /\ Consistent(h2) /\ Grows(h, h2) /\ NetOk(h2, net')
      /\ ClientOk(h2, c, client'[c])
      /\ \A b \in Clients \ {c} : client'[b] = client[b] /\ Untouched(h, h2, b)
  BY DEF ClientLeaves
<1>3. \A b \in Clients : Sound(b, client[b])
  BY DEF IInv, Local
<1>4. /\ pump \in PumpsOf(DownData) /\ late_reads \in Seq(UpData \cup {Aborted})
      /\ \A conv \in DOMAIN m_outer_map : m_outer_map[conv] \in Receivers
  BY DEF IInv, ServerSound, PumpServed, ReceiversTyped
<1> HIDE DEF h, h2
<1>5. ServerOk(h2, pump, m_outer_map, late_reads)
  BY <1>1, <1>2, <1>4, ServerGrows
<1>6. UNCHANGED <<pump, m_outer_map, late_reads>>
  BY DEF serverVars
<1>7. ServerOk(h2, pump', m_outer_map', late_reads')
  BY <1>5, <1>6
<1>8. ASSUME NEW b \in Clients
      PROVE  ClientOk(h2, b, client'[b])
  <2>1. CASE b = c
    BY <1>2, <2>1
  <2>2. CASE b # c
    <3>1. ClientOk(h2, b, client[b])
      BY <1>1, <1>2, <1>3, <2>2, ClientOkGrows
    <3>2. QED
      BY <1>2, <2>2, <3>1
  <2>3. QED
    BY <2>1, <2>2
<1>9. QED
  BY <1>2, <1>7, <1>8 DEF Kept, h2

LEMMA SInvStep == IInv /\ SInv /\ [Next]_vars => SInv'
<1> SUFFICES ASSUME IInv, SInv, [Next]_vars PROVE SInv'
  OBVIOUS
<1>1. PICK own : Kept(own)
  BY DEF SInv
<1>2. SUFFICES \E own2 : Kept(own2)'
  BY DEF SInv
<1>3. CASE ServerNext /\ UNCHANGED <<client, limit>>
  BY <1>1, <1>3, ServerKept
<1>4. CASE ClientNext /\ UNCHANGED <<serverVars, limit>>
  <2>1. \A c \in Clients : ClientHas(own, c)
    BY <1>1 DEF IInv, LocalOf, Kept, ClientHas
  <2>2. PICK c \in Clients : ClientLeaves(own, c)
    BY <1>4, <2>1, ClientStepLeaves DEF ClientNext
  <2>3. Kept(own)'
    BY <1>1, <1>4, <2>2, ClientKept
  <2>4. QED
    BY <2>3
<1>5. CASE UNCHANGED vars
  <2>1. UNCHANGED <<client, granted, dropped, pump, m_outer_map, late_reads, net>>
    BY <1>5 DEF vars, serverVars
  <2>2. PICK new : new = {}
    OBVIOUS
  <2>3. net' = net \cup new /\ \A d \in new : InPump(d, pump)
    BY <2>1, <2>2
  <2>4. Kept(own)'
    BY <1>1, <2>1, <2>3, StillKept
  <2>5. QED
    BY <2>4
<1>6. QED
  BY <1>3, <1>4, <1>5 DEF Next

(* While a client is connected the server holds the receiver that was      *)
(* granted to it, under its conv, unless Close has ended the session or    *)
(* the client has gone back to a session of its own that it had ended.     *)
THEOREM SessionsAreKept == Spec => []SessionKept
<1>1. IInv /\ SInv => SessionKept
  <2> SUFFICES ASSUME IInv, SInv, NEW c \in Clients,
                      client[c].m_is_connected, ~client[c].late,
                      client[c].m_session \notin dropped
               PROVE  CheckSession(client[c].m_kcp.conv, client[c].m_session)
    BY DEF SessionKept
  <2>1. PICK own : Kept(own)
    BY DEF SInv
  <2> DEFINE h == History(own)
             r == client[c]
  <2>2. /\ h.dropped = dropped /\ h.held = Held
        /\ c \in h.late <=> r.late
    BY HistoryIs
  <2>3. r.m_kcp_timer /\ r.m_session > 0
    BY DEF IInv, Local, InSession
  <2>4. SessionOk(h, c, r)
    BY <2>1 DEF Kept, ClientOk
  <2> HIDE DEF h
  <2>5. /\ Over(h, r.m_session) \/ <<r.m_kcp.conv, r.m_session>> \in h.held
        /\ NotClosed(h, r.m_session)
    BY <2>2, <2>3, <2>4 DEF SessionOk, Claim
  <2>6. <<r.m_kcp.conv, r.m_session>> \in Held
    BY <2>2, <2>5 DEF Over
  <2>7. QED
    BY <2>6, HeldIs DEF CheckSession
<1>2. Spec => []SInv
  BY SInvInit, SInvStep, IInvAlways, PTL DEF Spec
<1>3. QED
  BY <1>1, <1>2, IInvAlways, PTL
=============================================================================

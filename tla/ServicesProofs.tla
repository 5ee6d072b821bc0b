--------------------------- MODULE ServicesProofs ---------------------------
(***************************************************************************)
(* Proofs about four components of MCServices, for any bounds: the mixer,  *)
(* with any number of channels, chunks and plays, the Lua worker, with any *)
(* number of messages in both directions, the event consumer, with any     *)
(* number of events and calls, and the log, with any number of lines and   *)
(* days.  They share no state.                                             *)
(***************************************************************************)
EXTENDS Mixer, SequenceFacts

-----------------------------------------------------------------------------
(* The mixer.                                                              *)

ChannelType ==
    [chunk : Nat, cursor : Nat, loop : Int, stopped_cb : BOOLEAN, play : Nat]

ChunkType == [data_len : Nat, channels : Nat, freed : BOOLEAN]

PlayType == [over : {"no", "stopped", "played"}, reports : Nat, cb : BOOLEAN]

MixerStates ==
    [limit : MixerLimits, m_setup : BOOLEAN, m_channel_num : Nat,
     m_mutex : {"nobody", "main", "audio"},
     m_channel : [1..CHANNELS -> ChannelType], stopped_func : [1..CHANNELS -> Nat],
     m_stream : BOOLEAN, m_stream_channels : Nat, m_stream_data : Nat,
     open : BOOLEAN, main : {"free", "setup", "assign", "shutdown"}, wanted : Nat,
     audio : {"idle", "called", "reports", "hangs"},
     chunk : Seq(ChunkType), setups : Nat, play : Seq(PlayType), crashed : BOOLEAN]

(* What plays in channel i is a play that is not over, of a chunk that is  *)
(* there.                                                                  *)
Playing(m, i) ==
    LET c == m.m_channel[i]
    IN  \/ c.chunk = 0 /\ c.play = 0
        \/ /\ c.chunk \in DOMAIN m.chunk /\ ~m.chunk[c.chunk].freed
           /\ c.play \in DOMAIN m.play /\ m.play[c.play].over = "no"
           /\ m.play[c.play].cb = c.stopped_cb

PlayOf(m, i) == m.m_channel[i].play

Alone(m) ==
    \A i, j \in 1..CHANNELS : PlayOf(m, i) = PlayOf(m, j) /\ PlayOf(m, i) # 0 => i = j

Found(m) ==
    \A p \in DOMAIN m.play :
        m.play[p].over = "no" => \E i \in 1..CHANNELS : PlayOf(m, i) = p

Reportable(play) == play.over = "played" /\ play.cb

(* A function in the array is that of a play which has been played, and    *)
(* which no other place of the array is for.                               *)
ToReport(m, i) ==
    LET p == m.stopped_func[i]
    IN  p # 0 => p \in DOMAIN m.play /\ Reportable(m.play[p]) /\ m.play[p].reports = 0

Once(m) ==
    \A i, j \in 1..CHANNELS :
        m.stopped_func[i] = m.stopped_func[j] /\ m.stopped_func[i] # 0 => i = j

Reported(m, p) ==
    IF Reportable(m.play[p])
      THEN \/ m.play[p].reports = 1
           \/ m.play[p].reports = 0 /\ \E i \in 1..CHANNELS : m.stopped_func[i] = p
      ELSE m.play[p].reports = 0

Sound(m) ==
    /\ m \in MixerStates
    /\ \A i \in 1..CHANNELS : Playing(m, i) /\ ToReport(m, i)
    /\ Alone(m) /\ Found(m) /\ Once(m)
    /\ \A p \in DOMAIN m.play : Reported(m, p)

(* The array has functions while they are reported, and at no other time.  *)
Pending(m) ==
    /\ m.audio \in {"idle", "called"} => Reports(m) = {}
    /\ m.audio = "reports" => Reports(m) # {}

MixerInv == Sound(mixer) /\ Pending(mixer)

(* Of an invariant state, what its parts are. *)
LEMMA StateIs ==
    ASSUME NEW m \in MixerStates
    PROVE  /\ m.limit \in MixerLimits /\ m.m_channel \in [1..CHANNELS -> ChannelType]
           /\ m.stopped_func \in [1..CHANNELS -> Nat]
           /\ m.chunk \in Seq(ChunkType) /\ m.play \in Seq(PlayType)
           /\ m.m_channel_num \in Nat
  BY DEF MixerStates

LEMMA LimitsAre ==
    ASSUME NEW m \in MixerStates
    PROVE  /\ m.limit.channels \subseteq Nat /\ m.limit.setups \in Nat
           /\ m.limit.sizes \in Seq(Nat) /\ m.limit.plays \in Nat
           /\ m.limit.loops \subseteq Int /\ m.limit.streams \subseteq Nat
  BY StateIs, LimitsAssumption

(* What does not touch the plays, and at most adds a chunk.                *)
LEMMA PlaysUntouched ==
    ASSUME NEW m, Sound(m), NEW n \in MixerStates,
           n.m_channel = m.m_channel, n.stopped_func = m.stopped_func, n.play = m.play,
           \A c \in DOMAIN m.chunk : c \in DOMAIN n.chunk /\ n.chunk[c] = m.chunk[c]
    PROVE  Sound(n) /\ (n.audio = m.audio /\ Pending(m) => Pending(n))
<1>1. \A i \in 1..CHANNELS : Playing(n, i) /\ ToReport(n, i)
  BY DEF Sound, Playing, ToReport
<1>2. Alone(n) /\ Found(n) /\ Once(n)
  BY DEF Sound, Alone, Found, Once, PlayOf
<1>3. \A p \in DOMAIN n.play : Reported(n, p)
  BY DEF Sound, Reported
<1>4. Reports(n) = Reports(m)
  BY DEF Reports
<1>5. QED
  BY <1>1, <1>2, <1>3, <1>4 DEF Sound, Pending

Untouched ==
    /\ mixer' \in MixerStates /\ mixer'.m_channel = mixer.m_channel
    /\ mixer'.stopped_func = mixer.stopped_func /\ mixer'.play = mixer.play
    /\ mixer'.chunk = mixer.chunk /\ mixer'.audio = mixer.audio

LEMMA UntouchedKeeps == ASSUME MixerInv, Untouched PROVE MixerInv'
<1>1. Sound(mixer) /\ Pending(mixer)
  BY DEF MixerInv
<1>2. /\ mixer' \in MixerStates /\ mixer'.m_channel = mixer.m_channel
      /\ mixer'.stopped_func = mixer.stopped_func /\ mixer'.play = mixer.play
      /\ \A c \in DOMAIN mixer.chunk : c \in DOMAIN mixer'.chunk /\ mixer'.chunk[c] = mixer.chunk[c]
      /\ mixer'.audio = mixer.audio
  BY DEF Untouched
<1>3. QED
  BY <1>1, <1>2, PlaysUntouched DEF MixerInv

LEMMA MixerStarts == Init => MixerInv
<1> SUFFICES ASSUME Init PROVE MixerInv
  OBVIOUS
<1>1. PICK limit \in MixerLimits :
        mixer = [limit |-> limit,
                 m_setup |-> FALSE, m_channel_num |-> 0, m_mutex |-> "nobody",
                 m_channel |-> [i \in 1..CHANNELS |-> Free],
                 stopped_func |-> [i \in 1..CHANNELS |-> 0],
                 m_stream |-> FALSE, m_stream_channels |-> 0, m_stream_data |-> 0,
                 open |-> FALSE, main |-> "free", wanted |-> 0, audio |-> "idle",
                 chunk |-> <<>>, setups |-> 0, play |-> <<>>, crashed |-> FALSE]
  BY DEF Init
<1>2. Free \in ChannelType /\ Free.chunk = 0 /\ Free.play = 0
  BY DEF Free, ChannelType
<1>3. <<>> \in Seq(ChunkType) /\ <<>> \in Seq(PlayType)
  OBVIOUS
<1>4. mixer \in MixerStates
  BY <1>1, <1>2, <1>3 DEF MixerStates
<1>5. /\ \A i \in 1..CHANNELS : mixer.m_channel[i] = Free /\ mixer.stopped_func[i] = 0
      /\ mixer.play = <<>> /\ mixer.audio = "idle"
  BY <1>1
<1>6. DOMAIN mixer.play = {}
  BY <1>5, EmptyIs
<1>7. \A i \in 1..CHANNELS : Playing(mixer, i) /\ ToReport(mixer, i)
  BY <1>2, <1>5 DEF Playing, ToReport
<1>8. Alone(mixer) /\ Found(mixer) /\ Once(mixer)
  BY <1>2, <1>5, <1>6 DEF Alone, Found, Once, PlayOf
<1>9. Reports(mixer) = {}
  BY <1>5 DEF Reports
<1>10. QED
  BY <1>4, <1>5, <1>6, <1>7, <1>8, <1>9 DEF MixerInv, Sound, Pending

-----------------------------------------------------------------------------
(* Setup, Shutdown and the stream.                                         *)

LEMMA SetupKeeps == ASSUME MixerInv, Setup PROVE MixerInv'
<1>1. mixer \in MixerStates /\ Sound(mixer) /\ Pending(mixer)
  BY DEF MixerInv, Sound
<1>2. PICK channels \in mixer.limit.channels :
        mixer' = [mixer EXCEPT !.main = "setup", !.wanted = channels,
                               !.setups = mixer.setups + 1]
  BY DEF Setup
<1>3. channels \in Nat /\ mixer.setups + 1 \in Nat
  BY <1>1, LimitsAre DEF MixerStates
<1>4. Untouched
  BY <1>1, <1>2, <1>3 DEF MixerStates, Untouched
<1>5. QED
  BY <1>4, UntouchedKeeps

LEMMA SetupOpensKeeps == ASSUME MixerInv, SetupOpens PROVE MixerInv'
<1>1. mixer \in MixerStates /\ Sound(mixer) /\ Pending(mixer)
  BY DEF MixerInv, Sound
<1>2. PICK opened \in BOOLEAN :
        mixer' = [mixer EXCEPT !.m_setup = FALSE, !.open = opened,
                               !.main = IF opened THEN "assign" ELSE "free"]
  BY DEF SetupOpens
<1>3. Untouched
  BY <1>1, <1>2 DEF MixerStates, Untouched
<1>4. QED
  BY <1>3, UntouchedKeeps

LEMMA SetupAssignsKeeps == ASSUME MixerInv, SetupAssigns PROVE MixerInv'
<1>1. mixer \in MixerStates /\ Sound(mixer) /\ Pending(mixer)
  BY DEF MixerInv, Sound
<1>2. Untouched
  BY <1>1 DEF MixerStates, SetupAssigns, Untouched
<1>3. QED
  BY <1>2, UntouchedKeeps

LEMMA ShutdownKeeps == ASSUME MixerInv, Shutdown PROVE MixerInv'
<1>1. mixer \in MixerStates /\ Sound(mixer) /\ Pending(mixer)
  BY DEF MixerInv, Sound
<1>2. Untouched
  BY <1>1 DEF MixerStates, Shutdown, Untouched
<1>3. QED
  BY <1>2, UntouchedKeeps

LEMMA ShutdownClosesKeeps == ASSUME MixerInv, ShutdownCloses PROVE MixerInv'
<1>1. mixer \in MixerStates /\ Sound(mixer) /\ Pending(mixer)
  BY DEF MixerInv, Sound
<1>2. Untouched
  BY <1>1 DEF MixerStates, ShutdownCloses, Untouched
<1>3. QED
  BY <1>2, UntouchedKeeps

LEMMA StreamKeeps ==
    ASSUME MixerInv, StartStream \/ PushStreamSample \/ StopStream
    PROVE  MixerInv'
<1>1. mixer \in MixerStates /\ Sound(mixer) /\ Pending(mixer)
  BY DEF MixerInv, Sound
<1>2. CASE StartStream
  <2>1. PICK channels \in mixer.limit.streams, made \in BOOLEAN :
          mixer' = [mixer EXCEPT !.m_stream = made, !.m_stream_channels = channels,
                                 !.m_stream_data = IF mixer.m_stream THEN 0 ELSE @]
    BY <1>2 DEF StartStream
  <2>2. channels \in Nat
    BY <1>1, LimitsAre
  <2>3. Untouched
    BY <1>1, <2>1, <2>2 DEF MixerStates, Untouched
  <2>4. QED
    BY <2>3, UntouchedKeeps
<1>3. CASE PushStreamSample
  <2> DEFINE size == mixer.m_stream_data + mixer.m_stream_channels
  <2>1. size \in Nat
    BY <1>1 DEF MixerStates
  <2>2. \/ mixer' = [mixer EXCEPT !.crashed = TRUE]
        \/ \E data \in {0, size} : mixer' = [mixer EXCEPT !.m_stream_data = data]
    BY <1>3 DEF PushStreamSample
  <2> HIDE DEF size
  <2>3. CASE mixer' = [mixer EXCEPT !.crashed = TRUE]
    <3>1. Untouched
      BY <1>1, <2>3 DEF MixerStates, Untouched
    <3>2. QED
      BY <3>1, UntouchedKeeps
  <2>4. ASSUME NEW data \in {0, size}, mixer' = [mixer EXCEPT !.m_stream_data = data]
        PROVE  MixerInv'
    <3>1. data \in Nat
      BY <2>1
    <3>2. Untouched
      BY <1>1, <2>4, <3>1 DEF MixerStates, Untouched
    <3>3. QED
      BY <3>2, UntouchedKeeps
  <2>5. QED
    BY <2>2, <2>3, <2>4
<1>4. CASE StopStream
  <2>1. Untouched
    BY <1>1, <1>4 DEF MixerStates, StopStream, Untouched
  <2>2. QED
    BY <2>1, UntouchedKeeps
<1>5. QED
  BY <1>2, <1>3, <1>4

-----------------------------------------------------------------------------
(* Chunks.                                                                 *)

LEMMA LoadChunkKeeps == ASSUME MixerInv, LoadChunk PROVE MixerInv'
<1>1. mixer \in MixerStates /\ Sound(mixer) /\ Pending(mixer)
  BY DEF MixerInv, Sound
<1> DEFINE s == mixer.chunk
           n == Len(s)
           size == mixer.limit.sizes[n + 1]
           new == [data_len |-> size, channels |-> mixer.m_channel_num, freed |-> FALSE]
<1>2. s \in Seq(ChunkType) /\ n \in Nat /\ DOMAIN s = 1..n /\ mixer.m_channel_num \in Nat
  BY <1>1, StateIs
<1>3. size \in Nat
  <2>1. mixer.limit.sizes \in Seq(Nat) /\ n < Len(mixer.limit.sizes)
    BY <1>1, LimitsAre DEF LoadChunk
  <2> HIDE DEF n
  <2>2. n + 1 \in 1..Len(mixer.limit.sizes)
    BY <1>2, <2>1
  <2>3. QED
    BY <2>1, <2>2
<1> HIDE DEF size
<1>4. new \in ChunkType
  BY <1>2, <1>3 DEF ChunkType
<1>5. mixer' = [mixer EXCEPT !.chunk = Append(s, new)]
  BY DEF LoadChunk, size
<1> HIDE DEF s, n, new
<1>6. /\ Append(s, new) \in Seq(ChunkType) /\ Len(Append(s, new)) = n + 1
      /\ \A c \in 1..n : Append(s, new)[c] = s[c]
  BY <1>2, <1>4, AppendProperties DEF n
<1>7. /\ mixer' \in MixerStates /\ mixer'.m_channel = mixer.m_channel
      /\ mixer'.stopped_func = mixer.stopped_func /\ mixer'.play = mixer.play
      /\ mixer'.chunk = Append(s, new) /\ mixer'.audio = mixer.audio
  BY <1>1, <1>5, <1>6 DEF MixerStates
<1>8. DOMAIN Append(s, new) = 1..(n + 1)
  BY <1>6
<1>9. \A c \in 1..n : c \in 1..(n + 1)
  BY <1>2
<1>10. \A c \in DOMAIN mixer.chunk : c \in DOMAIN mixer'.chunk /\ mixer'.chunk[c] = mixer.chunk[c]
  BY <1>2, <1>6, <1>7, <1>8, <1>9 DEF s
<1>11. QED
  BY <1>1, <1>7, <1>10, PlaysUntouched DEF MixerInv

-----------------------------------------------------------------------------
(* Channels that are cleared.                                              *)

(* The channels are cleared and what they play is over: stopped, or played *)
(* to its end and then to be reported.                                     *)
Over(m, channels, p) == \E i \in channels : PlayOf(m, i) = p

Ended(m, n, channels, over) ==
    /\ n.chunk = m.chunk /\ DOMAIN n.play = DOMAIN m.play
    /\ \A i \in 1..CHANNELS :
          IF i \in channels THEN n.m_channel[i] = Free
          ELSE /\ n.m_channel[i].chunk = m.m_channel[i].chunk
               /\ n.m_channel[i].stopped_cb = m.m_channel[i].stopped_cb
               /\ PlayOf(n, i) = PlayOf(m, i)
    /\ \A i \in 1..CHANNELS :
          n.stopped_func[i] =
              IF over = "played" /\ i \in channels /\ m.m_channel[i].stopped_cb
                THEN PlayOf(m, i) ELSE m.stopped_func[i]
    /\ \A p \in DOMAIN m.play :
          /\ n.play[p].cb = m.play[p].cb /\ n.play[p].reports = m.play[p].reports
          /\ n.play[p].over = IF Over(m, channels, p) THEN over ELSE m.play[p].over

LEMMA ChunkTypeIs ==
    ASSUME NEW m \in MixerStates, NEW c \in DOMAIN m.chunk
    PROVE  m.chunk[c] \in ChunkType
<1>1. m.chunk \in Seq(ChunkType)
  BY StateIs
<1>2. QED
  BY <1>1

LEMMA PlayTypeIs ==
    ASSUME NEW m \in MixerStates, NEW p \in DOMAIN m.play
    PROVE  m.play[p] \in PlayType /\ p \in Nat /\ p # 0
<1>1. m.play \in Seq(PlayType)
  BY StateIs
<1>2. QED
  BY <1>1

(* A play in a channel is not over, and is in no other channel. *)
LEMMA InChannel ==
    ASSUME NEW m, Sound(m), NEW i \in 1..CHANNELS, PlayOf(m, i) # 0
    PROVE  /\ PlayOf(m, i) \in DOMAIN m.play
           /\ m.play[PlayOf(m, i)].over = "no" /\ m.play[PlayOf(m, i)].reports = 0
           /\ m.play[PlayOf(m, i)].cb = m.m_channel[i].stopped_cb
           /\ \A j \in 1..CHANNELS : PlayOf(m, j) = PlayOf(m, i) => j = i
<1>1. Playing(m, i) /\ Alone(m)
  BY DEF Sound
<1>2. /\ PlayOf(m, i) \in DOMAIN m.play /\ m.play[PlayOf(m, i)].over = "no"
      /\ m.play[PlayOf(m, i)].cb = m.m_channel[i].stopped_cb
  BY <1>1 DEF Playing, PlayOf
<1>3. Reported(m, PlayOf(m, i))
  BY <1>2 DEF Sound
<1>4. m.play[PlayOf(m, i)].reports = 0
  BY <1>2, <1>3 DEF Reported, Reportable
<1>5. QED
  BY <1>1, <1>2, <1>4 DEF Alone

LEMMA EndedIsSound ==
    ASSUME NEW m, Sound(m), NEW n \in MixerStates,
           NEW channels \in SUBSET (1..CHANNELS), NEW over \in {"stopped", "played"},
           Ended(m, n, channels, over), over = "played" => Reports(m) = {}
    PROVE  Sound(n)
<1>1. m \in MixerStates /\ \A i \in 1..CHANNELS : Playing(m, i) /\ ToReport(m, i)
  BY DEF Sound
<1>2. Free.chunk = 0 /\ Free.play = 0
  BY DEF Free
<1>3. ASSUME NEW i \in 1..CHANNELS PROVE PlayOf(n, i) = IF i \in channels THEN 0 ELSE PlayOf(m, i)
  BY <1>2 DEF Ended, PlayOf
<1>4. ASSUME NEW i \in 1..CHANNELS PROVE Playing(n, i)
  <2>1. CASE i \in channels
    BY <1>2, <2>1 DEF Ended, Playing
  <2>2. CASE i \notin channels
    <3>1. /\ n.m_channel[i].chunk = m.m_channel[i].chunk
          /\ n.m_channel[i].stopped_cb = m.m_channel[i].stopped_cb
          /\ n.m_channel[i].play = m.m_channel[i].play /\ n.chunk = m.chunk
      BY <2>2 DEF Ended, PlayOf
    <3>2. CASE m.m_channel[i].chunk = 0
      <4>1. m.m_channel[i].play = 0 \/ m.m_channel[i].chunk \in DOMAIN m.chunk
        BY <1>1 DEF Playing
      <4>2. m.chunk \in Seq(ChunkType)
        BY <1>1, StateIs
      <4>3. 0 \notin DOMAIN m.chunk
        BY <4>2
      <4>4. QED
        BY <3>1, <3>2, <4>1, <4>3 DEF Playing
    <3>3. CASE m.m_channel[i].chunk # 0
      <4> DEFINE p == m.m_channel[i].play
      <4>1. /\ m.m_channel[i].chunk \in DOMAIN m.chunk
            /\ ~m.chunk[m.m_channel[i].chunk].freed
            /\ p \in DOMAIN m.play /\ m.play[p].over = "no"
            /\ m.play[p].cb = m.m_channel[i].stopped_cb
        BY <1>1, <3>3 DEF Playing
      <4>2. p = PlayOf(m, i)
        BY DEF PlayOf
      <4> HIDE DEF p
      <4>3. p # 0
        BY <1>1, <4>1, PlayTypeIs
      <4>4. ~Over(m, channels, p)
        BY <2>2, <4>2, <4>3, InChannel DEF Over
      <4>5. p \in DOMAIN n.play /\ n.play[p].over = "no" /\ n.play[p].cb = m.play[p].cb
        BY <4>1, <4>4 DEF Ended
      <4>6. QED
        BY <3>1, <4>1, <4>5 DEF Playing, p
    <3>4. QED
      BY <3>2, <3>3
  <2>3. QED
    BY <2>1, <2>2
<1>5. ASSUME NEW i \in 1..CHANNELS PROVE ToReport(n, i)
  <2> DEFINE p == n.stopped_func[i]
  <2> SUFFICES ASSUME p # 0
               PROVE  /\ p \in DOMAIN n.play /\ n.play[p].over = "played" /\ n.play[p].cb
                      /\ n.play[p].reports = 0
    BY DEF ToReport, Reportable
  <2>1. CASE over = "played" /\ i \in channels /\ m.m_channel[i].stopped_cb
    <3>1. p = PlayOf(m, i)
      BY <2>1 DEF Ended
    <3>2. /\ p \in DOMAIN m.play /\ m.play[p].reports = 0 /\ m.play[p].cb
          /\ Over(m, channels, p)
      BY <2>1, <3>1, InChannel DEF Over
    <3> HIDE DEF p
    <3>3. QED
      BY <2>1, <3>2 DEF Ended
  <2>2. CASE ~(over = "played" /\ i \in channels /\ m.m_channel[i].stopped_cb)
    <3>1. p = m.stopped_func[i]
      BY <2>2 DEF Ended
    <3>2. /\ p \in DOMAIN m.play /\ m.play[p].reports = 0 /\ m.play[p].cb
          /\ m.play[p].over = "played"
      BY <1>1, <3>1 DEF ToReport, Reportable
    <3> HIDE DEF p
    <3>3. ~Over(m, channels, p)
      <4> SUFFICES ASSUME NEW j \in channels, PlayOf(m, j) = p PROVE FALSE
        BY DEF Over
      <4>1. p # 0
        BY <1>1, <3>2, PlayTypeIs
      <4>2. m.play[p].over = "no"
        BY <4>1, InChannel
      <4>3. QED
        BY <3>2, <4>2
    <3>4. QED
      BY <3>2, <3>3 DEF Ended
  <2>3. QED
    BY <2>1, <2>2
<1>6. Alone(n)
  BY <1>3 DEF Alone, Sound
<1>7. Found(n)
  <2> SUFFICES ASSUME NEW p \in DOMAIN n.play, n.play[p].over = "no"
               PROVE  \E i \in 1..CHANNELS : PlayOf(n, i) = p
    BY DEF Found
  <2>1. p \in DOMAIN m.play /\ ~Over(m, channels, p) /\ m.play[p].over = "no"
    BY DEF Ended
  <2>2. PICK i \in 1..CHANNELS : PlayOf(m, i) = p
    BY <2>1 DEF Sound, Found
  <2>3. i \notin channels
    BY <2>1, <2>2 DEF Over
  <2>4. QED
    BY <1>3, <2>2, <2>3
<1>8. Once(n)
  <2> SUFFICES ASSUME NEW i \in 1..CHANNELS, NEW j \in 1..CHANNELS,
                      n.stopped_func[i] = n.stopped_func[j], n.stopped_func[i] # 0
               PROVE  i = j
    BY DEF Once
  <2>1. CASE over = "stopped"
    <3>1. n.stopped_func[i] = m.stopped_func[i] /\ n.stopped_func[j] = m.stopped_func[j]
      BY <2>1 DEF Ended
    <3>2. QED
      BY <3>1 DEF Sound, Once
  <2>2. CASE over = "played"
    <3>1. m.stopped_func[i] = 0 /\ m.stopped_func[j] = 0
      BY <2>2 DEF Reports
    <3>2. n.stopped_func[i] = PlayOf(m, i) /\ n.stopped_func[j] = PlayOf(m, j)
      BY <3>1 DEF Ended
    <3>3. QED
      BY <3>2, InChannel
  <2>3. QED
    BY <2>1, <2>2
<1>9. ASSUME NEW p \in DOMAIN n.play PROVE Reported(n, p)
  <2>1. /\ p \in DOMAIN m.play /\ n.play[p].cb = m.play[p].cb
        /\ n.play[p].reports = m.play[p].reports
        /\ n.play[p].over = IF Over(m, channels, p) THEN over ELSE m.play[p].over
    BY DEF Ended
  <2>2. Reported(m, p) /\ p # 0
    BY <1>1, <2>1, PlayTypeIs DEF Sound
  <2>3. CASE Over(m, channels, p)
    <3>1. PICK i \in channels : PlayOf(m, i) = p
      BY <2>3 DEF Over
    <3>2. m.play[p].reports = 0 /\ m.play[p].cb = m.m_channel[i].stopped_cb
      BY <2>2, <3>1, InChannel
    <3>3. over = "played" /\ m.play[p].cb => n.stopped_func[i] = p
      BY <3>1, <3>2 DEF Ended
    <3>4. QED
      BY <2>1, <2>3, <3>2, <3>3 DEF Reported, Reportable
  <2>4. CASE ~Over(m, channels, p)
    <3>1. Reportable(n.play[p]) = Reportable(m.play[p])
      BY <2>1, <2>4 DEF Reportable
    <3>2. ASSUME NEW i \in 1..CHANNELS, m.stopped_func[i] = p PROVE n.stopped_func[i] = p
      <4>1. over # "played"
        BY <2>2, <3>2 DEF Reports
      <4>2. QED
        BY <3>2, <4>1 DEF Ended
    <3>3. QED
      BY <2>1, <2>2, <3>1, <3>2 DEF Reported
  <2>5. QED
    BY <2>3, <2>4
<1>10. QED
  BY <1>4, <1>5, <1>6, <1>7, <1>8, <1>9 DEF Sound

LEMMA FreeIs == Free \in ChannelType
  BY DEF Free, ChannelType

LEMMA StoppedIs ==
    ASSUME NEW m, Sound(m), NEW channels \in SUBSET (1..CHANNELS)
    PROVE  LET n == Stopped(m, channels)
           IN  /\ Sound(n) /\ n.chunk = m.chunk /\ n.audio = m.audio
               /\ n.stopped_func = m.stopped_func
               /\ \A i \in 1..CHANNELS :
                     n.m_channel[i] = IF i \in channels THEN Free ELSE m.m_channel[i]
<1> DEFINE chs == [i \in 1..CHANNELS |-> IF i \in channels THEN Free ELSE m.m_channel[i]]
           plays == [p \in DOMAIN m.play |->
                       IF Over(m, channels, p)
                         THEN [m.play[p] EXCEPT !.over = "stopped"] ELSE m.play[p]]
           n == Stopped(m, channels)
<1>1. m \in MixerStates
  BY DEF Sound
<1>2. n = [m EXCEPT !.m_channel = chs, !.play = plays]
  BY DEF Stopped, Over, PlayOf
<1>3. chs \in [1..CHANNELS -> ChannelType]
  BY <1>1, FreeIs, StateIs
<1>4. \A p \in DOMAIN m.play :
          /\ plays[p] \in PlayType /\ plays[p].cb = m.play[p].cb
          /\ plays[p].reports = m.play[p].reports
          /\ plays[p].over = IF Over(m, channels, p) THEN "stopped" ELSE m.play[p].over
  <2> SUFFICES ASSUME NEW p \in DOMAIN m.play
               PROVE  /\ plays[p] \in PlayType /\ plays[p].cb = m.play[p].cb
                      /\ plays[p].reports = m.play[p].reports
                      /\ plays[p].over =
                            IF Over(m, channels, p) THEN "stopped" ELSE m.play[p].over
    OBVIOUS
  <2>1. m.play[p] \in PlayType
    BY <1>1, PlayTypeIs
  <2>2. plays[p] = IF Over(m, channels, p)
                     THEN [m.play[p] EXCEPT !.over = "stopped"] ELSE m.play[p]
    OBVIOUS
  <2> HIDE DEF plays
  <2>3. QED
    BY <2>1, <2>2 DEF PlayType
<1>5. plays \in Seq(PlayType) /\ DOMAIN plays = DOMAIN m.play
  <2>1. m.play \in Seq(PlayType)
    BY <1>1, StateIs
  <2>2. DOMAIN plays = 1..Len(m.play) /\ Len(m.play) \in Nat
    BY <2>1
  <2>3. plays \in [1..Len(m.play) -> PlayType]
    BY <1>4, <2>2
  <2> HIDE DEF plays
  <2>4. QED
    BY <2>1, <2>2, <2>3, FunctionIsSeq
<1>6. \A i \in 1..CHANNELS : chs[i] = IF i \in channels THEN Free ELSE m.m_channel[i]
  OBVIOUS
<1> HIDE DEF chs, plays, n
<1>7. /\ n \in MixerStates /\ n.m_channel = chs /\ n.play = plays /\ n.chunk = m.chunk
      /\ n.stopped_func = m.stopped_func /\ n.audio = m.audio
  BY <1>1, <1>2, <1>3, <1>5 DEF MixerStates
<1>8. Ended(m, n, channels, "stopped")
  BY <1>4, <1>5, <1>6, <1>7 DEF Ended, PlayOf
<1>9. Sound(n)
  BY <1>7, <1>8, EndedIsSound
<1>10. QED
  BY <1>6, <1>7, <1>9 DEF n

LEMMA PendingIs ==
    ASSUME NEW m, Pending(m), NEW n, n.audio = m.audio, n.stopped_func = m.stopped_func
    PROVE  Pending(n)
<1>1. Reports(n) = Reports(m)
  BY DEF Reports
<1>2. QED
  BY <1>1 DEF Pending

LEMMA StopKeeps == ASSUME MixerInv, StopChunk \/ StopChannel PROVE MixerInv'
<1>1. Sound(mixer) /\ Pending(mixer)
  BY DEF MixerInv
<1>2. PICK channels \in SUBSET (1..CHANNELS) : mixer' = Stopped(mixer, channels)
  BY DEF StopChunk, StopChannel, ChannelsOf
<1>3. /\ Sound(mixer') /\ mixer'.audio = mixer.audio
      /\ mixer'.stopped_func = mixer.stopped_func
  BY <1>1, <1>2, StoppedIs
<1>4. QED
  BY <1>1, <1>3, PendingIs DEF MixerInv

(* A chunk that no channel plays may be freed. *)
LEMMA FreeChunkKeeps == ASSUME MixerInv, FreeChunk PROVE MixerInv'
<1>1. Sound(mixer) /\ Pending(mixer) /\ mixer \in MixerStates
  BY DEF MixerInv, Sound
<1>2. PICK c \in Chunks :
        mixer' = [Stopped(mixer, ChannelsOf(mixer, c)) EXCEPT !.chunk[c].freed = TRUE]
  BY DEF FreeChunk
<1> DEFINE n == Stopped(mixer, ChannelsOf(mixer, c))
           chunks == [mixer.chunk EXCEPT ![c] = [mixer.chunk[c] EXCEPT !.freed = TRUE]]
<1>3. ChannelsOf(mixer, c) \in SUBSET (1..CHANNELS)
  BY DEF ChannelsOf
<1>4. /\ Sound(n) /\ n.chunk = mixer.chunk /\ n.audio = mixer.audio
      /\ n.stopped_func = mixer.stopped_func
      /\ \A i \in 1..CHANNELS :
            n.m_channel[i] =
                IF i \in ChannelsOf(mixer, c) THEN Free ELSE mixer.m_channel[i]
  BY <1>1, <1>3, StoppedIs
<1>5. mixer' = [n EXCEPT !.chunk = chunks]
  BY <1>2, <1>4
<1>6. c \in DOMAIN mixer.chunk /\ mixer.chunk \in Seq(ChunkType)
  BY <1>1, StateIs DEF Chunks
<1>7. c # 0 /\ mixer.chunk[c] \in ChunkType
  BY <1>6
<1>8. [mixer.chunk[c] EXCEPT !.freed = TRUE] \in ChunkType
  BY <1>7 DEF ChunkType
<1>9. /\ chunks \in Seq(ChunkType) /\ DOMAIN chunks = DOMAIN mixer.chunk
      /\ \A d \in DOMAIN mixer.chunk : d # c => chunks[d] = mixer.chunk[d]
  BY <1>6, <1>8
<1>10. \A i \in 1..CHANNELS : n.m_channel[i].chunk # c
  BY <1>4, <1>7 DEF ChannelsOf, Free
<1> HIDE DEF chunks, n
<1>11. n \in MixerStates
  BY <1>4 DEF Sound
<1>12. /\ mixer' \in MixerStates /\ mixer'.m_channel = n.m_channel /\ mixer'.chunk = chunks
       /\ mixer'.play = n.play /\ mixer'.stopped_func = n.stopped_func
       /\ mixer'.audio = n.audio
  BY <1>5, <1>9, <1>11 DEF MixerStates
<1>13. ASSUME NEW i \in 1..CHANNELS PROVE Playing(mixer', i) /\ ToReport(mixer', i)
  <2>1. Playing(n, i) /\ ToReport(n, i)
    BY <1>4 DEF Sound
  <2>2. ToReport(mixer', i)
    BY <1>12, <2>1 DEF ToReport
  <2>3. Playing(mixer', i)
    BY <1>4, <1>9, <1>10, <1>12, <2>1 DEF Playing
  <2>4. QED
    BY <2>2, <2>3
<1>14. Alone(mixer') /\ Found(mixer') /\ Once(mixer')
  BY <1>4, <1>12 DEF Sound, Alone, Found, Once, PlayOf
<1>15. \A p \in DOMAIN mixer'.play : Reported(mixer', p)
  BY <1>4, <1>12 DEF Sound, Reported
<1>16. Sound(mixer')
  BY <1>12, <1>13, <1>14, <1>15 DEF Sound
<1>17. Pending(mixer')
  BY <1>1, <1>4, <1>12, PendingIs
<1>18. QED
  BY <1>16, <1>17 DEF MixerInv

LEMMA MinIs ==
    ASSUME NEW S \in SUBSET Nat, S # {}
    PROVE  Min(S) \in S /\ \A y \in S : Min(S) <= y
<1> DEFINE below == {ss \in Nat \X Nat : ss[1] < ss[2]}
<1>1. IsWellFoundedOn(below, Nat)
  BY NatLessThanWellFounded DEF OpToRel
<1>2. \A x, y \in Nat : x < y => <<x, y>> \in below
  OBVIOUS
<1> HIDE DEF below
<1>3. PICK x \in S : \A y \in S : ~(<<y, x>> \in below)
  BY <1>1, WFMin
<1>4. \A y \in S : x <= y
  <2> SUFFICES ASSUME NEW y \in S PROVE x <= y
    OBVIOUS
  <2>1. x \in Nat /\ y \in Nat /\ ~(y < x)
    BY <1>2, <1>3
  <2>2. QED
    BY <2>1
<1>5. QED
  BY <1>3, <1>4 DEF Min

(* A chunk is played on a channel that is free, and nothing else changes. *)
LEMMA PlayChunkKeeps == ASSUME MixerInv, PlayChunk PROVE MixerInv'
<1>1. Sound(mixer) /\ Pending(mixer) /\ mixer \in MixerStates
  BY DEF MixerInv, Sound
<1> DEFINE free == {i \in 1..CHANNELS : mixer.m_channel[i].chunk = 0}
           number == Len(mixer.play) + 1
           k == Min(free)
           in(c, loop, reported) ==
               [chunk |-> c, cursor |-> 0, loop |-> loop, stopped_cb |-> reported,
                play |-> number]
           new(reported) == [over |-> "no", reports |-> 0, cb |-> reported]
<1>2. PICK c \in Chunks, loop \in mixer.limit.loops, reported \in BOOLEAN :
        /\ free # {}
        /\ mixer' = [mixer EXCEPT !.m_channel[k] = in(c, loop, reported),
                                  !.play = Append(mixer.play, new(reported))]
  BY DEF PlayChunk
<1> DEFINE chs == [mixer.m_channel EXCEPT ![k] = in(c, loop, reported)]
           plays == Append(mixer.play, new(reported))
<1>3. k \in 1..CHANNELS /\ mixer.m_channel[k].chunk = 0
  BY <1>2, MinIs
<1>4. mixer.chunk \in Seq(ChunkType) /\ mixer.play \in Seq(PlayType)
  BY <1>1, StateIs
<1>5. c \in DOMAIN mixer.chunk /\ ~mixer.chunk[c].freed /\ c \in Nat /\ c # 0
  BY <1>4 DEF Chunks
<1>6. number \in Nat /\ number # 0 /\ number \notin DOMAIN mixer.play
  BY <1>4
<1>7. loop \in Int
  BY <1>1, LimitsAre
<1>8. in(c, loop, reported) \in ChannelType
  BY <1>5, <1>6, <1>7 DEF ChannelType
<1>9. chs \in [1..CHANNELS -> ChannelType]
  BY <1>1, <1>8, StateIs
<1>10. \A i \in 1..CHANNELS :
          chs[i] = IF i = k THEN in(c, loop, reported) ELSE mixer.m_channel[i]
  BY <1>1, StateIs
<1>11. new(reported) \in PlayType
  BY DEF PlayType
<1>12. /\ plays \in Seq(PlayType) /\ number \in DOMAIN plays
       /\ DOMAIN plays = DOMAIN mixer.play \cup {number}
       /\ plays[number].over = "no" /\ plays[number].reports = 0
       /\ plays[number].cb = reported
       /\ \A p \in DOMAIN mixer.play : plays[p] = mixer.play[p]
  <2>1. /\ plays \in Seq(PlayType) /\ Len(plays) = number
        /\ \A p \in 1..Len(mixer.play) : plays[p] = mixer.play[p]
        /\ plays[number] = new(reported)
    BY <1>4, <1>11, AppendProperties
  <2>2. DOMAIN plays = 1..number /\ DOMAIN mixer.play = 1..Len(mixer.play)
    BY <1>4, <2>1
  <2>3. 1..number = 1..Len(mixer.play) \cup {number} /\ number \in 1..number
    BY <1>4
  <2> HIDE DEF plays, number
  <2>4. QED
    BY <2>1, <2>2, <2>3
<1>13. mixer' = [mixer EXCEPT !.m_channel = chs, !.play = plays]
  BY <1>2
<1>14. /\ in(c, loop, reported).chunk = c /\ in(c, loop, reported).play = number
       /\ in(c, loop, reported).stopped_cb = reported
  OBVIOUS
<1> HIDE DEF chs, plays, in, new, number, k, free
<1>15. /\ mixer' \in MixerStates /\ mixer'.m_channel = chs /\ mixer'.play = plays
       /\ mixer'.chunk = mixer.chunk /\ mixer'.stopped_func = mixer.stopped_func
       /\ mixer'.audio = mixer.audio
  BY <1>1, <1>9, <1>12, <1>13 DEF MixerStates
<1>16. \A i \in 1..CHANNELS :
          PlayOf(mixer', i) = IF i = k THEN number ELSE PlayOf(mixer, i)
  BY <1>10, <1>14, <1>15 DEF PlayOf
<1>17. \A i \in 1..CHANNELS : PlayOf(mixer, i) # number
  <2> SUFFICES ASSUME NEW i \in 1..CHANNELS, PlayOf(mixer, i) = number PROVE FALSE
    OBVIOUS
  <2>1. number \in DOMAIN mixer.play
    BY <1>1, <1>6, InChannel
  <2>2. QED
    BY <1>6, <2>1
<1>18. PlayOf(mixer, k) = 0
  <2>1. Playing(mixer, k)
    BY <1>1, <1>3 DEF Sound
  <2>2. 0 \notin DOMAIN mixer.chunk
    BY <1>4
  <2>3. QED
    BY <1>3, <2>1, <2>2 DEF Playing, PlayOf
<1>19. ASSUME NEW i \in 1..CHANNELS PROVE Playing(mixer', i) /\ ToReport(mixer', i)
  <2>1. Playing(mixer, i) /\ ToReport(mixer, i)
    BY <1>1 DEF Sound
  <2>2. ToReport(mixer', i)
    BY <1>12, <1>15, <2>1 DEF ToReport
  <2>3. CASE i = k
    <3>1. Playing(mixer', i)
      BY <1>5, <1>10, <1>12, <1>14, <1>15, <2>3 DEF Playing
    <3>2. QED
      BY <2>2, <3>1
  <2>4. CASE i # k
    <3>1. mixer'.m_channel[i] = mixer.m_channel[i]
      BY <1>10, <1>15, <2>4
    <3>2. Playing(mixer', i)
      BY <1>12, <1>15, <2>1, <3>1 DEF Playing
    <3>3. QED
      BY <2>2, <3>2
  <2>5. QED
    BY <2>3, <2>4
<1>20. Alone(mixer')
  BY <1>1, <1>16, <1>17 DEF Sound, Alone
<1>21. Found(mixer')
  <2> SUFFICES ASSUME NEW p \in DOMAIN mixer'.play, mixer'.play[p].over = "no"
               PROVE  \E i \in 1..CHANNELS : PlayOf(mixer', i) = p
    BY DEF Found
  <2>1. CASE p = number
    BY <1>3, <1>16, <2>1
  <2>2. CASE p # number
    <3>1. p \in DOMAIN mixer.play /\ mixer.play[p].over = "no"
      BY <1>12, <1>15, <2>2
    <3>2. PICK i \in 1..CHANNELS : PlayOf(mixer, i) = p
      BY <1>1, <3>1 DEF Sound, Found
    <3>3. i # k
      BY <1>1, <1>18, <3>1, <3>2, PlayTypeIs
    <3>4. QED
      BY <1>16, <3>2, <3>3
  <2>3. QED
    BY <2>1, <2>2
<1>22. Once(mixer')
  BY <1>1, <1>15 DEF Sound, Once
<1>23. ASSUME NEW p \in DOMAIN mixer'.play PROVE Reported(mixer', p)
  <2>1. CASE p = number
    BY <1>12, <1>15, <2>1 DEF Reported, Reportable
  <2>2. CASE p # number
    <3>1. p \in DOMAIN mixer.play /\ mixer'.play[p] = mixer.play[p]
      BY <1>12, <1>15, <2>2
    <3>2. Reported(mixer, p)
      BY <1>1, <3>1 DEF Sound
    <3>3. QED
      BY <1>15, <3>1, <3>2 DEF Reported
  <2>3. QED
    BY <2>1, <2>2
<1>24. Sound(mixer')
  BY <1>15, <1>19, <1>20, <1>21, <1>22, <1>23 DEF Sound
<1>25. Pending(mixer')
  BY <1>1, <1>15, PendingIs
<1>26. QED
  BY <1>24, <1>25 DEF MixerInv

-----------------------------------------------------------------------------
(* The audio thread.                                                       *)

(* Mixing moves the cursors. *)
LEMMA MixedIs ==
    ASSUME NEW m, Sound(m)
    PROVE  LET n == Mixed(m)
           IN  /\ Sound(n) /\ n.audio = m.audio /\ n.stopped_func = m.stopped_func
<1> DEFINE moved(c) == [c EXCEPT !.cursor = @ + m.chunk[c.chunk].channels]
           moves(c) == /\ c.chunk # 0 /\ m.m_channel_num # 0
                       /\ m.chunk[c.chunk].data_len - c.cursor >= m.m_channel_num
           chs == [i \in 1..CHANNELS |->
                     IF moves(m.m_channel[i]) THEN moved(m.m_channel[i]) ELSE m.m_channel[i]]
           n == Mixed(m)
<1>1. m \in MixerStates
  BY DEF Sound
<1>2. n = [m EXCEPT !.m_channel = chs]
  BY DEF Mixed
<1>3. ASSUME NEW i \in 1..CHANNELS
      PROVE  /\ chs[i] \in ChannelType /\ chs[i].chunk = m.m_channel[i].chunk
             /\ chs[i].stopped_cb = m.m_channel[i].stopped_cb
             /\ chs[i].play = m.m_channel[i].play
  <2> DEFINE c == m.m_channel[i]
  <2>1. c \in ChannelType
    BY <1>1, StateIs
  <2>2. CASE ~moves(c)
    BY <2>1, <2>2
  <2>3. CASE moves(c)
    <3>1. c.chunk \in DOMAIN m.chunk /\ m.chunk \in Seq(ChunkType)
      BY <1>1, <2>3, StateIs DEF Sound, Playing
    <3>2. m.chunk[c.chunk].channels \in Nat
      <4> HIDE DEF c
      <4>1. m.chunk[c.chunk] \in ChunkType
        BY <1>1, <3>1, ChunkTypeIs
      <4>2. QED
        BY <4>1 DEF ChunkType
    <3>3. c.cursor + m.chunk[c.chunk].channels \in Nat
      BY <2>1, <3>2 DEF ChannelType
    <3>4. chs[i] = [c EXCEPT !.cursor = c.cursor + m.chunk[c.chunk].channels]
      BY <2>3
    <3> HIDE DEF chs, c
    <3>5. /\ chs[i] \in ChannelType /\ chs[i].chunk = c.chunk
          /\ chs[i].stopped_cb = c.stopped_cb /\ chs[i].play = c.play
      BY <2>1, <3>3, <3>4 DEF ChannelType
    <3>6. QED
      BY <3>5 DEF c
  <2>4. QED
    BY <2>2, <2>3
<1>4. chs = [i \in 1..CHANNELS |-> chs[i]]
  OBVIOUS
<1> HIDE DEF chs, n
<1>5. chs \in [1..CHANNELS -> ChannelType]
  BY <1>3, <1>4
<1>6. /\ n \in MixerStates /\ n.m_channel = chs /\ n.play = m.play /\ n.chunk = m.chunk
      /\ n.stopped_func = m.stopped_func /\ n.audio = m.audio
  BY <1>1, <1>2, <1>5 DEF MixerStates
<1>7. Ended(m, n, {}, "stopped")
  BY <1>3, <1>6 DEF Ended, Over, PlayOf
<1>8. Sound(n)
  BY <1>6, <1>7, EndedIsSound
<1>9. QED
  BY <1>6, <1>8 DEF n

LEMMA RewoundIs ==
    ASSUME NEW c \in ChannelType
    PROVE  /\ Rewound(c) \in ChannelType /\ Rewound(c).chunk = c.chunk
           /\ Rewound(c).stopped_cb = c.stopped_cb /\ Rewound(c).play = c.play
<1> DEFINE loop == IF c.loop <= 0 THEN c.loop ELSE c.loop - 1
<1>1. loop \in Int
  BY DEF ChannelType
<1> DEFINE d == [c EXCEPT !.cursor = 0]
<1>2. /\ d \in ChannelType /\ d.chunk = c.chunk
      /\ d.stopped_cb = c.stopped_cb /\ d.play = c.play
  BY DEF ChannelType
<1>3. Rewound(c) = [d EXCEPT !.loop = loop]
  BY DEF Rewound, ChannelType
<1> HIDE DEF loop, d
<1>4. /\ Rewound(c) \in ChannelType /\ Rewound(c).chunk = d.chunk
      /\ Rewound(c).stopped_cb = d.stopped_cb /\ Rewound(c).play = d.play
  BY <1>1, <1>2, <1>3 DEF ChannelType
<1>5. QED
  BY <1>2, <1>4

(* What has been played to its end is collected. *)
LEMMA CollectIs ==
    ASSUME NEW m, Sound(m), Reports(m) = {}
    PROVE  Sound(Collect(m)) /\ Collect(m).audio = m.audio
<1> DEFINE over(p) == \E i \in Ending(m) : m.m_channel[i].play = p
           chs == [i \in 1..CHANNELS |->
                        IF i \in Ending(m) THEN Free
                        ELSE IF AtEnd(m, i) THEN Rewound(m.m_channel[i])
                        ELSE m.m_channel[i]]
           funcs == [i \in 1..CHANNELS |->
                           IF i \in Ending(m) /\ m.m_channel[i].stopped_cb
                             THEN m.m_channel[i].play ELSE m.stopped_func[i]]
           plays == [p \in DOMAIN m.play |->
                       IF over(p) THEN [m.play[p] EXCEPT !.over = "played"] ELSE m.play[p]]
           n == Collect(m)
<1>1. /\ m \in MixerStates /\ m.m_channel \in [1..CHANNELS -> ChannelType]
      /\ m.stopped_func \in [1..CHANNELS -> Nat] /\ m.play \in Seq(PlayType)
  BY StateIs DEF Sound
<1>2. n = [m EXCEPT !.m_channel = chs, !.stopped_func = funcs, !.play = plays]
  BY DEF Collect
<1>3. \A p : over(p) <=> Over(m, Ending(m), p)
  BY DEF Over, PlayOf
<1>4. Ending(m) \in SUBSET (1..CHANNELS)
  BY DEF Ending
<1>5. ASSUME NEW i \in 1..CHANNELS
      PROVE  /\ chs[i] \in ChannelType
             /\ i \in Ending(m) => chs[i] = Free
             /\ i \notin Ending(m) =>
                   /\ chs[i].chunk = m.m_channel[i].chunk
                   /\ chs[i].stopped_cb = m.m_channel[i].stopped_cb
                   /\ chs[i].play = m.m_channel[i].play
  <2> DEFINE c == m.m_channel[i]
  <2>1. c \in ChannelType
    BY <1>1
  <2>2. /\ Rewound(c) \in ChannelType /\ Rewound(c).chunk = c.chunk
        /\ Rewound(c).stopped_cb = c.stopped_cb /\ Rewound(c).play = c.play
    BY <2>1, RewoundIs
  <2>3. chs[i] = IF i \in Ending(m) THEN Free
                 ELSE IF AtEnd(m, i) THEN Rewound(c) ELSE c
    OBVIOUS
  <2> HIDE DEF chs
  <2>4. QED
    BY <2>1, <2>2, <2>3, FreeIs
<1>6. chs \in [1..CHANNELS -> ChannelType]
  <2>1. chs = [i \in 1..CHANNELS |-> chs[i]]
    OBVIOUS
  <2> HIDE DEF chs
  <2>2. QED
    BY <1>5, <2>1
<1>7. ASSUME NEW i \in 1..CHANNELS
      PROVE  /\ funcs[i] \in Nat
             /\ funcs[i] = IF "played" = "played" /\ i \in Ending(m) /\ m.m_channel[i].stopped_cb
                             THEN PlayOf(m, i) ELSE m.stopped_func[i]
  <2>1. m.m_channel[i].play \in Nat /\ m.stopped_func[i] \in Nat
    BY <1>1 DEF ChannelType
  <2>2. QED
    BY <2>1 DEF PlayOf
<1>8. funcs \in [1..CHANNELS -> Nat]
  <2>1. funcs = [i \in 1..CHANNELS |-> funcs[i]]
    OBVIOUS
  <2> HIDE DEF funcs
  <2>2. QED
    BY <1>7, <2>1
<1>9. ASSUME NEW p \in DOMAIN m.play
      PROVE  /\ plays[p] \in PlayType /\ plays[p].cb = m.play[p].cb
             /\ plays[p].reports = m.play[p].reports
             /\ plays[p].over = IF Over(m, Ending(m), p) THEN "played" ELSE m.play[p].over
  <2>1. m.play[p] \in PlayType
    BY <1>1, PlayTypeIs
  <2>2. plays[p] = IF Over(m, Ending(m), p)
                     THEN [m.play[p] EXCEPT !.over = "played"] ELSE m.play[p]
    BY <1>3
  <2> HIDE DEF plays
  <2>3. QED
    BY <2>1, <2>2 DEF PlayType
<1>10. plays \in Seq(PlayType) /\ DOMAIN plays = DOMAIN m.play
  <2>1. DOMAIN plays = 1..Len(m.play) /\ Len(m.play) \in Nat /\ DOMAIN m.play = 1..Len(m.play)
    BY <1>1
  <2>2. plays = [p \in DOMAIN m.play |-> plays[p]]
    OBVIOUS
  <2> HIDE DEF plays
  <2>3. plays \in [1..Len(m.play) -> PlayType]
    BY <1>9, <2>1, <2>2
  <2>4. QED
    BY <2>1, <2>3, FunctionIsSeq
<1> HIDE DEF chs, funcs, plays, n, over
<1>11. /\ n \in MixerStates /\ n.m_channel = chs /\ n.play = plays /\ n.chunk = m.chunk
       /\ n.stopped_func = funcs /\ n.audio = m.audio
  BY <1>1, <1>2, <1>6, <1>8, <1>10 DEF MixerStates
<1>12. Ended(m, n, Ending(m), "played")
  <2>1. \A i \in 1..CHANNELS :
          IF i \in Ending(m) THEN n.m_channel[i] = Free
          ELSE /\ n.m_channel[i].chunk = m.m_channel[i].chunk
               /\ n.m_channel[i].stopped_cb = m.m_channel[i].stopped_cb
               /\ PlayOf(n, i) = PlayOf(m, i)
    BY <1>5, <1>11 DEF PlayOf
  <2>2. QED
    BY <1>7, <1>9, <1>10, <1>11, <2>1 DEF Ended
<1>13. Sound(n)
  BY <1>4, <1>11, <1>12, EndedIsSound
<1>14. QED
  BY <1>11, <1>13 DEF n

(* Of a sound state, with the audio thread elsewhere or the mutex taken.   *)
LEMMA AudioMoves ==
    ASSUME NEW m, Sound(m), NEW n, NEW audio \in {"idle", "called", "reports", "hangs"},
           n = [m EXCEPT !.audio = audio]
    PROVE  Sound(n) /\ n.audio = audio /\ Reports(n) = Reports(m)
<1>1. m \in MixerStates
  BY DEF Sound
<1>2. /\ n \in MixerStates /\ n.m_channel = m.m_channel /\ n.play = m.play
      /\ n.chunk = m.chunk /\ n.stopped_func = m.stopped_func /\ n.audio = audio
  BY <1>1 DEF MixerStates
<1>3. Sound(n)
  BY <1>2, PlaysUntouched
<1>4. QED
  BY <1>2, <1>3 DEF Reports

LEMMA AudioIs ==
    ASSUME NEW m, Sound(m), NEW n, NEW audio \in {"idle", "called", "reports", "hangs"},
           NEW mutex \in {"nobody", "main", "audio"},
           n = [m EXCEPT !.audio = audio, !.m_mutex = mutex]
    PROVE  Sound(n) /\ n.audio = audio /\ Reports(n) = Reports(m)
<1> DEFINE o == [m EXCEPT !.m_mutex = mutex]
<1>1. m \in MixerStates
  BY DEF Sound
<1>2. /\ o \in MixerStates /\ o.m_channel = m.m_channel /\ o.play = m.play
      /\ o.chunk = m.chunk /\ o.stopped_func = m.stopped_func
  BY <1>1 DEF MixerStates
<1>3. n = [o EXCEPT !.audio = audio]
  BY <1>1 DEF MixerStates
<1> HIDE DEF o
<1>4. Sound(o)
  BY <1>2, PlaysUntouched
<1>5. Sound(n) /\ n.audio = audio /\ Reports(n) = Reports(o)
  BY <1>3, <1>4, AudioMoves
<1>6. QED
  BY <1>2, <1>5 DEF Reports

LEMMA DeviceCallsKeeps == ASSUME MixerInv, DeviceCalls PROVE MixerInv'
<1>1. Sound(mixer) /\ Pending(mixer) /\ mixer \in MixerStates
  BY DEF MixerInv, Sound
<1>2. mixer' = [mixer EXCEPT !.audio = "called"] /\ mixer.audio = "idle"
  BY DEF DeviceCalls
<1>3. /\ mixer' \in MixerStates /\ mixer'.m_channel = mixer.m_channel
      /\ mixer'.stopped_func = mixer.stopped_func /\ mixer'.play = mixer.play
      /\ mixer'.chunk = mixer.chunk /\ mixer'.audio = "called"
  BY <1>1, <1>2 DEF MixerStates
<1>4. Sound(mixer')
  BY <1>1, <1>3, PlaysUntouched
<1>5. Reports(mixer') = {}
  BY <1>1, <1>2, <1>3 DEF Pending, Reports
<1>6. QED
  BY <1>3, <1>4, <1>5 DEF MixerInv, Pending

LEMMA StreamCallbackKeeps == ASSUME MixerInv, StreamCallback PROVE MixerInv'
<1> DEFINE m == Collect(mixer)
<1>1. Sound(mixer) /\ Reports(mixer) = {}
  BY DEF MixerInv, Pending, StreamCallback
<1>2. Sound(m)
  BY <1>1, CollectIs
<1>3. mixer' = IF Reports(m) = {} THEN [Mixed(m) EXCEPT !.audio = "idle"]
               ELSE [m EXCEPT !.audio = "reports", !.m_mutex = "audio"]
  BY DEF StreamCallback
<1> HIDE DEF m
<1>4. CASE Reports(m) = {}
  <2> DEFINE n == Mixed(m)
  <2>1. Sound(n) /\ n.stopped_func = m.stopped_func
    BY <1>2, MixedIs
  <2> HIDE DEF n
  <2>2. mixer' = [n EXCEPT !.audio = "idle"]
    BY <1>3, <1>4 DEF n
  <2>3. Sound(mixer') /\ mixer'.audio = "idle" /\ Reports(mixer') = Reports(n)
    BY <2>1, <2>2, AudioMoves
  <2>4. Reports(n) = {}
    BY <1>4, <2>1 DEF Reports
  <2>5. QED
    BY <2>3, <2>4 DEF MixerInv, Pending
<1>5. CASE Reports(m) # {}
  <2>1. mixer' = [m EXCEPT !.audio = "reports", !.m_mutex = "audio"]
    BY <1>3, <1>5
  <2>2. Sound(mixer') /\ mixer'.audio = "reports" /\ Reports(mixer') = Reports(m)
    BY <1>2, <2>1, AudioIs
  <2>3. QED
    BY <1>5, <2>2 DEF MixerInv, Pending
<1>6. QED
  BY <1>4, <1>5

(* The function of place i is taken from the array and called. *)
LEMMA ReportedIs ==
    ASSUME NEW m, Sound(m), NEW i \in Reports(m)
    PROVE  LET n == Cleared([m EXCEPT !.play[m.stopped_func[i]].reports = @ + 1], i)
           IN  Sound(n) /\ n.audio = m.audio /\ Reports(n) = Reports(m) \ {i}
<1> DEFINE q == m.stopped_func[i]
           played == [m.play[q] EXCEPT !.reports = m.play[q].reports + 1]
           plays == [m.play EXCEPT ![q] = played]
           funcs == [m.stopped_func EXCEPT ![i] = 0]
           n == Cleared([m EXCEPT !.play[m.stopped_func[i]].reports = @ + 1], i)
<1>1. /\ m \in MixerStates /\ m.m_channel \in [1..CHANNELS -> ChannelType]
      /\ m.stopped_func \in [1..CHANNELS -> Nat] /\ m.play \in Seq(PlayType)
  BY StateIs DEF Sound
<1>2. i \in 1..CHANNELS /\ q # 0
  BY DEF Reports
<1>3. q \in DOMAIN m.play /\ Reportable(m.play[q]) /\ m.play[q].reports = 0
  BY <1>2 DEF Sound, ToReport
<1>4. m.play[q] \in PlayType
  BY <1>1, <1>3, PlayTypeIs
<1>5. n = [[m EXCEPT !.play = plays] EXCEPT !.stopped_func = funcs]
  BY <1>1, <1>3 DEF Cleared, MixerStates
<1> HIDE DEF q
<1>6. /\ played \in PlayType /\ played.reports = 1 /\ played.over = m.play[q].over
      /\ played.cb = m.play[q].cb
  BY <1>3, <1>4 DEF PlayType
<1> HIDE DEF played
<1>7. /\ plays \in Seq(PlayType) /\ DOMAIN plays = DOMAIN m.play
      /\ \A p \in DOMAIN m.play : plays[p] = IF p = q THEN played ELSE m.play[p]
  BY <1>1, <1>3, <1>6
<1>8. /\ funcs \in [1..CHANNELS -> Nat]
      /\ \A j \in 1..CHANNELS : funcs[j] = IF j = i THEN 0 ELSE m.stopped_func[j]
  BY <1>1
<1> HIDE DEF plays, funcs, n
<1>9. /\ n \in MixerStates /\ n.m_channel = m.m_channel /\ n.play = plays
      /\ n.chunk = m.chunk /\ n.stopped_func = funcs /\ n.audio = m.audio
  BY <1>1, <1>5, <1>7, <1>8 DEF MixerStates
<1>10. \A p \in DOMAIN m.play :
          n.play[p].over = m.play[p].over /\ n.play[p].cb = m.play[p].cb
  BY <1>6, <1>7, <1>9
<1>11. \A j \in 1..CHANNELS : n.stopped_func[j] # q
  BY <1>2, <1>8, <1>9 DEF Sound, Once, q
<1>12. ASSUME NEW j \in 1..CHANNELS PROVE Playing(n, j) /\ ToReport(n, j)
  <2>1. Playing(m, j) /\ ToReport(m, j)
    BY DEF Sound
  <2>2. Playing(n, j)
    BY <1>7, <1>9, <1>10, <2>1 DEF Playing
  <2>3. CASE j = i
    BY <1>8, <1>9, <2>2, <2>3 DEF ToReport
  <2>4. CASE j # i
    <3>1. n.stopped_func[j] = m.stopped_func[j]
      BY <1>8, <1>9, <2>4
    <3>2. m.stopped_func[j] \in DOMAIN m.play =>
             n.play[m.stopped_func[j]] = m.play[m.stopped_func[j]]
      BY <1>7, <1>9, <1>11, <3>1
    <3>3. QED
      BY <1>7, <1>9, <2>1, <2>2, <3>1, <3>2 DEF ToReport
  <2>5. QED
    BY <2>3, <2>4
<1>13. Alone(n)
  BY <1>9 DEF Sound, Alone, PlayOf
<1>14. Found(n)
  BY <1>7, <1>9, <1>10 DEF Sound, Found, PlayOf
<1>15. Once(n)
  BY <1>8, <1>9 DEF Sound, Once
<1>16. ASSUME NEW p \in DOMAIN n.play PROVE Reported(n, p)
  <2>1. p \in DOMAIN m.play /\ Reported(m, p)
    BY <1>7, <1>9 DEF Sound
  <2>2. CASE p = q
    BY <1>3, <1>6, <1>7, <1>9, <2>1, <2>2 DEF Reported, Reportable
  <2>3. CASE p # q
    <3>1. n.play[p] = m.play[p]
      BY <1>7, <1>9, <2>1, <2>3
    <3>2. \A j \in 1..CHANNELS : m.stopped_func[j] = p => n.stopped_func[j] = p
      BY <1>8, <1>9, <2>3 DEF q
    <3>3. QED
      BY <2>1, <3>1, <3>2 DEF Reported
  <2>4. QED
    BY <2>2, <2>3
<1>17. Sound(n)
  BY <1>9, <1>12, <1>13, <1>14, <1>15, <1>16 DEF Sound
<1>18. Reports(n) = Reports(m) \ {i}
  BY <1>2, <1>8, <1>9 DEF Reports
<1>19. QED
  BY <1>9, <1>17, <1>18 DEF n

LEMMA ReportKeeps == ASSUME MixerInv, Report PROVE MixerInv'
<1> DEFINE i == Min(Reports(mixer))
           m == Cleared([mixer EXCEPT !.play[mixer.stopped_func[i]].reports = @ + 1], i)
<1>1. Sound(mixer) /\ mixer.audio = "reports" /\ Reports(mixer) # {}
  BY DEF MixerInv, Pending, Report
<1>2. mixer' \in {[m EXCEPT !.audio = "hangs"],
                  IF Reports(m) \ 1..i # {} THEN m
                  ELSE [Mixed(m) EXCEPT !.audio = "idle", !.m_mutex = "nobody"]}
  BY DEF Report
<1>3. Reports(mixer) \in SUBSET Nat /\ Reports(mixer) \subseteq 1..CHANNELS
  BY DEF Reports
<1>4. i \in Reports(mixer) /\ \A j \in Reports(mixer) : i <= j
  BY <1>1, <1>3, MinIs
<1> HIDE DEF i
<1>5. /\ Sound(m) /\ m.audio = mixer.audio
      /\ Reports(m) = Reports(mixer) \ {i}
  BY <1>1, <1>4, ReportedIs
<1> HIDE DEF m
<1>6. CASE mixer' = [m EXCEPT !.audio = "hangs"]
  <2>1. Sound(mixer') /\ mixer'.audio = "hangs"
    BY <1>5, <1>6, AudioMoves
  <2>2. QED
    BY <2>1 DEF MixerInv, Pending
<1>7. CASE Reports(m) \ 1..i # {} /\ mixer' = m
  BY <1>1, <1>5, <1>7 DEF MixerInv, Pending
<1>8. CASE /\ Reports(m) \ 1..i = {}
           /\ mixer' = [Mixed(m) EXCEPT !.audio = "idle", !.m_mutex = "nobody"]
  <2>1. Reports(m) = {}
    <3> SUFFICES ASSUME NEW j \in Reports(m) PROVE FALSE
      OBVIOUS
    <3>1. j \in 1..i
      BY <1>8
    <3>2. j \in Reports(mixer) /\ j # i
      BY <1>5
    <3>3. i <= j /\ i \in Nat
      BY <1>3, <1>4, <3>2
    <3>4. QED
      BY <3>1, <3>2, <3>3
  <2> DEFINE n == Mixed(m)
  <2>2. Sound(n) /\ n.stopped_func = m.stopped_func
    BY <1>5, MixedIs
  <2>3. mixer' = [n EXCEPT !.audio = "idle", !.m_mutex = "nobody"]
    BY <1>8
  <2> HIDE DEF n
  <2>4. Sound(mixer') /\ mixer'.audio = "idle" /\ Reports(mixer') = Reports(n)
    BY <2>2, <2>3, AudioIs
  <2>5. Reports(n) = {}
    BY <2>1, <2>2 DEF Reports
  <2>6. QED
    BY <2>4, <2>5 DEF MixerInv, Pending
<1>9. QED
  BY <1>2, <1>6, <1>7, <1>8

-----------------------------------------------------------------------------
LEMMA MixerUnchanged == ASSUME MixerInv, UNCHANGED vars PROVE MixerInv'
  BY DEF MixerInv, Sound, Pending, vars, Playing, ToReport, Alone, Found, Once, Reported,
         Reports, PlayOf

LEMMA MixerSteps == MixerInv /\ [Next]_vars => MixerInv'
<1> SUFFICES ASSUME MixerInv, [Next]_vars PROVE MixerInv'
  OBVIOUS
<1>1. CASE Setup
  BY <1>1, SetupKeeps
<1>2. CASE SetupOpens
  BY <1>2, SetupOpensKeeps
<1>3. CASE SetupAssigns
  BY <1>3, SetupAssignsKeeps
<1>4. CASE Shutdown
  BY <1>4, ShutdownKeeps
<1>5. CASE ShutdownCloses
  BY <1>5, ShutdownClosesKeeps
<1>6. CASE LoadChunk
  BY <1>6, LoadChunkKeeps
<1>7. CASE PlayChunk
  BY <1>7, PlayChunkKeeps
<1>8. CASE FreeChunk
  BY <1>8, FreeChunkKeeps
<1>9. CASE StopChunk \/ StopChannel
  BY <1>9, StopKeeps
<1>10. CASE StartStream \/ PushStreamSample \/ StopStream
  BY <1>10, StreamKeeps
<1>11. CASE DeviceCalls
  BY <1>11, DeviceCallsKeeps
<1>12. CASE StreamCallback
  BY <1>12, StreamCallbackKeeps
<1>13. CASE Report
  BY <1>13, ReportKeeps
<1>14. CASE UNCHANGED vars
  BY <1>14, MixerUnchanged
<1>15. QED
  BY <1>1, <1>2, <1>3, <1>4, <1>5, <1>6, <1>7, <1>8, <1>9, <1>10, <1>11, <1>12, <1>13, <1>14
     DEF Next

LEMMA MixerInvAccounts == MixerInv => PlaysAccounted
<1> SUFFICES ASSUME MixerInv, NEW p \in DOMAIN mixer.play
             PROVE  LET play == mixer.play[p]
                        in == {i \in 1..CHANNELS : mixer.m_channel[i].play = p}
                    IN  /\ Cardinality(in) = (IF play.over = "no" THEN 1 ELSE 0)
                        /\ \A i \in in : ~mixer.chunk[mixer.m_channel[i].chunk].freed
                        /\ play.reports <= (IF play.over = "played" /\ play.cb THEN 1 ELSE 0)
                        /\ mixer.audio \in {"idle", "called"} /\ play.over = "played" /\ play.cb =>
                             play.reports = 1
  BY DEF PlaysAccounted
<1> DEFINE play == mixer.play[p]
           in == {i \in 1..CHANNELS : mixer.m_channel[i].play = p}
<1>1. Sound(mixer) /\ Pending(mixer) /\ mixer \in MixerStates
  BY DEF MixerInv, Sound
<1>2. p # 0 /\ Reported(mixer, p)
  BY <1>1, PlayTypeIs DEF Sound
<1>3. \A i \in in : i \in 1..CHANNELS /\ PlayOf(mixer, i) = p
  BY DEF PlayOf
<1>4. Cardinality(in) = (IF play.over = "no" THEN 1 ELSE 0)
  <2>1. CASE play.over = "no"
    <3>1. PICK i \in 1..CHANNELS : PlayOf(mixer, i) = p
      BY <1>1, <2>1 DEF Sound, Found
    <3>2. in = {i}
      BY <1>1, <1>2, <3>1, InChannel DEF PlayOf
    <3>3. QED
      BY <2>1, <3>2, FS_Singleton
  <2>2. CASE play.over # "no"
    <3>1. in = {}
      <4> SUFFICES ASSUME NEW i \in in PROVE FALSE
        OBVIOUS
      <4>1. play.over = "no"
        BY <1>1, <1>2, <1>3, InChannel
      <4>2. QED
        BY <2>2, <4>1
    <3>2. QED
      BY <2>2, <3>1, FS_EmptySet
  <2>3. QED
    BY <2>1, <2>2
<1>5. \A i \in in : ~mixer.chunk[mixer.m_channel[i].chunk].freed
  <2> SUFFICES ASSUME NEW i \in in PROVE ~mixer.chunk[mixer.m_channel[i].chunk].freed
    OBVIOUS
  <2>1. Playing(mixer, i) /\ mixer.m_channel[i].play # 0
    BY <1>1, <1>2, <1>3 DEF Sound
  <2>2. QED
    BY <2>1 DEF Playing
<1>6. play.reports <= (IF play.over = "played" /\ play.cb THEN 1 ELSE 0)
  BY <1>2 DEF Reported, Reportable
<1>7. mixer.audio \in {"idle", "called"} /\ play.over = "played" /\ play.cb => play.reports = 1
  <2> SUFFICES ASSUME mixer.audio \in {"idle", "called"}, play.over = "played", play.cb
               PROVE  play.reports = 1
    OBVIOUS
  <2>1. Reports(mixer) = {}
    BY <1>1 DEF Pending
  <2>2. \A i \in 1..CHANNELS : mixer.stopped_func[i] # p
    BY <1>2, <2>1 DEF Reports
  <2>3. QED
    BY <1>2, <2>2 DEF Reported, Reportable
<1>8. QED
  BY <1>4, <1>5, <1>6, <1>7

(* A play is in one channel until it is over, of a chunk that is not freed, *)
(* and is reported once when it has been played to its end and not         *)
(* otherwise, whatever the main thread and the audio thread do in turn,    *)
(* for any number of channels and any requests (PlayChunk, StopChunk,      *)
(* FreeChunk and StreamCallback of carp_mixer.hpp).                        *)
THEOREM PlaysAreAccounted == Spec => []PlaysAccounted
<1>1. Init => MixerInv
  BY MixerStarts
<1>2. MixerInv /\ [Next]_vars => MixerInv'
  BY MixerSteps
<1>3. MixerInv => PlaysAccounted
  BY MixerInvAccounts
<1>4. QED
  BY <1>1, <1>2, <1>3, PTL DEF Spec

-----------------------------------------------------------------------------
(* The Lua worker.                                                         *)

CONSTANTS PostLimit, AnswerLimit

VARIABLE worker

Lua == INSTANCE LuaWorker

(* The inductive invariant.  Where Run and Stop stand decides whether      *)
(* temp_list may hold messages and whether the Lua state is there.         *)

WorkerStates ==
    [m_run : BOOLEAN, m_thread : BOOLEAN, m_L : BOOLEAN,
     at : {"init", "test", "swap", "execute", "ended"},
     stopping : {"no", "join", "drain"},
     m_push_list : Seq(1..PostLimit), temp_list : Seq(1..PostLimit),
     m_pull_list : Seq(1..AnswerLimit), m_handle_list : Seq(1..AnswerLimit),
     posted : Nat, answers : Nat,
     handled : Seq(1..PostLimit), dropped : SUBSET (1..PostLimit),
     pulled : Seq(1..AnswerLimit)]

WorkerTypeOK == worker \in WorkerStates

Positions ==
    /\ worker.at # "execute" => worker.temp_list = <<>>
    /\ worker.stopping = "drain" \/ ~worker.m_thread => worker.at = "ended"
    /\ worker.stopping = "drain" => ~worker.m_thread
    /\ worker.at \in {"test", "swap", "execute"} => worker.m_L
    /\ worker.at = "ended" => ~worker.m_L
    /\ worker.dropped # {} => ~worker.m_thread

WorkerInv == WorkerTypeOK /\ Positions

-----------------------------------------------------------------------------
(* A call of the script changes nothing but what it posts.                 *)
LEMMA InvokePosts ==
    ASSUME NEW w, NEW v \in Lua!Invoke(w)
    PROVE  \/ v = w
           \/ /\ w.answers < AnswerLimit
              /\ v = [w EXCEPT !.answers = @ + 1,
                               !.m_pull_list = Append(@, w.answers + 1)]
  BY DEF Lua!Invoke

LEMMA WorkerStarts == Lua!Init => WorkerInv
<1>1. <<>> \in Seq(1..PostLimit) /\ <<>> \in Seq(1..AnswerLimit)
  OBVIOUS
<1>2. QED
  BY <1>1 DEF Lua!Init, WorkerInv, WorkerTypeOK, WorkerStates, Positions

(* The script's posts keep the invariant in whatever state it is called.   *)
LEMMA InvokeKeeps ==
    ASSUME AnswerLimit \in Nat, NEW w, worker' \in Lua!Invoke(w),
           w \in WorkerStates
    PROVE  /\ WorkerTypeOK'
           /\ worker'.m_run = w.m_run /\ worker'.m_thread = w.m_thread
           /\ worker'.m_L = w.m_L /\ worker'.at = w.at
           /\ worker'.stopping = w.stopping
           /\ worker'.m_push_list = w.m_push_list /\ worker'.temp_list = w.temp_list
           /\ worker'.m_handle_list = w.m_handle_list
           /\ worker'.handled = w.handled /\ worker'.dropped = w.dropped
           /\ worker'.pulled = w.pulled
           /\ \/ worker'.m_pull_list = w.m_pull_list
              \/ \E e \in 1..AnswerLimit : worker'.m_pull_list = Append(w.m_pull_list, e)
<1>1. CASE worker' = w
  BY <1>1 DEF WorkerTypeOK, WorkerStates
<1>2. CASE /\ w.answers < AnswerLimit
           /\ worker' = [w EXCEPT !.answers = @ + 1,
                                  !.m_pull_list = Append(@, w.answers + 1)]
  <2>0. w.answers \in Nat /\ w.m_pull_list \in Seq(1..AnswerLimit)
    BY DEF WorkerStates
  <2>1. w.answers + 1 \in 1..AnswerLimit /\ w.answers + 1 \in Nat
    BY <1>2, <2>0
  <2>2. Append(w.m_pull_list, w.answers + 1) \in Seq(1..AnswerLimit)
    BY <2>0, <2>1
  <2>3. WorkerTypeOK'
    BY <1>2, <2>1, <2>2 DEF WorkerTypeOK, WorkerStates
  <2>4. QED
    BY <1>2, <2>1, <2>3 DEF WorkerStates
<1>3. QED
  BY <1>1, <1>2, InvokePosts

-----------------------------------------------------------------------------
(* Every step keeps the invariant and is a step of the two queues.         *)

WorkerRefines == [Lua!ToWorker!Next]_(Lua!ToWorker!vars) /\ [Lua!ToMain!Next]_(Lua!ToMain!vars)

(* What lets the worker's queue, or the main thread's, stay as it is.      *)
LEMMA SameToWorker ==
    ASSUME worker'.temp_list = worker.temp_list,
           worker'.m_push_list = worker.m_push_list, worker'.handled = worker.handled
    PROVE  UNCHANGED Lua!ToWorker!vars
  BY DEF Lua!ToWorker!vars

LEMMA SameToMain ==
    ASSUME worker'.m_handle_list = worker.m_handle_list,
           worker'.m_pull_list = worker.m_pull_list, worker'.pulled = worker.pulled
    PROVE  UNCHANGED Lua!ToMain!vars
  BY DEF Lua!ToMain!vars

(* A message of the script to the main thread enters its queue.            *)
LEMMA ScriptPosts ==
    ASSUME WorkerTypeOK, NEW e \in 1..AnswerLimit,
           worker'.m_handle_list = worker.m_handle_list,
           worker'.m_pull_list = Append(worker.m_pull_list, e),
           worker'.pulled = worker.pulled
    PROVE  Lua!ToMain!Next
<1>1. worker.m_handle_list \in Seq(1..AnswerLimit) /\ worker.m_pull_list \in Seq(1..AnswerLimit)
  BY DEF WorkerTypeOK, WorkerStates
<1>2. worker'.m_handle_list \o worker'.m_pull_list
        = Append(worker.m_handle_list \o worker.m_pull_list, e)
  <2>1. worker.m_handle_list \o Append(worker.m_pull_list, e)
          = Append(worker.m_handle_list \o worker.m_pull_list, e)
    <3> DEFINE S == 1..AnswerLimit
    <3>1. e \in S /\ worker.m_handle_list \in Seq(S) /\ worker.m_pull_list \in Seq(S)
      BY <1>1
    <3> HIDE DEF S
    <3>2. \A s, t \in Seq(S) : \A x \in S : s \o Append(t, x) = Append(s \o t, x)
      BY AppendConcat
    <3>3. QED
      BY <3>1, <3>2, Zenon
  <2>2. QED
    BY <2>1, Zenon
<1>3. QED
  BY <1>2 DEF Lua!ToMain!Next, Lua!ToMain!Submit

LEMMA PostToWorkerStep ==
    ASSUME PostLimit \in Nat, WorkerInv, Lua!PostToWorker
    PROVE  WorkerInv' /\ WorkerRefines
<1> DEFINE e == worker.posted + 1
<1>1. e \in 1..PostLimit /\ e \in Nat
  BY DEF Lua!PostToWorker, WorkerInv, WorkerTypeOK, WorkerStates
<1>2. worker.m_push_list \in Seq(1..PostLimit) /\ worker.temp_list \in Seq(1..PostLimit)
  BY DEF WorkerInv, WorkerTypeOK, WorkerStates
<1>3. Append(worker.m_push_list, e) \in Seq(1..PostLimit)
  BY <1>1, <1>2
<1>4. worker' = [worker EXCEPT !.posted = e, !.m_push_list = Append(worker.m_push_list, e)]
  BY DEF Lua!PostToWorker
<1>5. WorkerInv'
  BY <1>1, <1>3, <1>4 DEF Lua!PostToWorker, WorkerInv, WorkerTypeOK, WorkerStates, Positions
<1>6. /\ worker'.m_push_list = Append(worker.m_push_list, e)
      /\ worker'.temp_list = worker.temp_list /\ worker'.handled = worker.handled
      /\ worker'.m_handle_list = worker.m_handle_list
      /\ worker'.m_pull_list = worker.m_pull_list /\ worker'.pulled = worker.pulled
  BY <1>4 DEF WorkerInv, WorkerTypeOK, WorkerStates
<1>7. worker'.temp_list \o worker'.m_push_list
        = Append(worker.temp_list \o worker.m_push_list, e)
  <2>1. worker.temp_list \o Append(worker.m_push_list, e)
          = Append(worker.temp_list \o worker.m_push_list, e)
    <3> DEFINE S == 1..PostLimit
    <3>1. e \in S /\ worker.temp_list \in Seq(S) /\ worker.m_push_list \in Seq(S)
      BY <1>1, <1>2
    <3> HIDE DEF S, e
    <3>2. \A s, t \in Seq(S) : \A x \in S : s \o Append(t, x) = Append(s \o t, x)
      BY AppendConcat
    <3>3. QED
      BY <3>1, <3>2, Zenon
  <2>2. QED
    BY <1>6, <2>1, Zenon
<1>8. Lua!ToWorker!Next
  BY <1>1, <1>6, <1>7 DEF Lua!ToWorker!Next, Lua!ToWorker!Submit
<1>9. QED
  BY <1>5, <1>6, <1>8, SameToMain DEF WorkerRefines

LEMMA PullStep ==
    ASSUME WorkerInv, Lua!Pull
    PROVE  WorkerInv' /\ WorkerRefines
<1> DEFINE w == Lua!Swapped(worker)
<1>0. /\ worker.m_handle_list \in Seq(1..AnswerLimit)
      /\ worker.m_pull_list \in Seq(1..AnswerLimit)
      /\ worker.pulled \in Seq(1..AnswerLimit)
  BY DEF WorkerInv, WorkerTypeOK, WorkerStates
<1>1. /\ w \in WorkerStates
      /\ w.m_handle_list \o w.m_pull_list = worker.m_handle_list \o worker.m_pull_list
      /\ w.m_run = worker.m_run /\ w.m_thread = worker.m_thread
      /\ w.m_L = worker.m_L /\ w.at = worker.at /\ w.stopping = worker.stopping
      /\ w.m_push_list = worker.m_push_list /\ w.temp_list = worker.temp_list
      /\ w.handled = worker.handled /\ w.dropped = worker.dropped
      /\ w.pulled = worker.pulled
  <2>1. CASE worker.m_handle_list # <<>>
    BY <2>1 DEF Lua!Swapped, WorkerInv, WorkerTypeOK
  <2>2. CASE worker.m_handle_list = <<>>
    <3>1. /\ w.m_handle_list = worker.m_pull_list /\ w.m_pull_list = <<>>
          /\ w \in WorkerStates
          /\ w.m_run = worker.m_run /\ w.m_thread = worker.m_thread
          /\ w.m_L = worker.m_L /\ w.at = worker.at /\ w.stopping = worker.stopping
          /\ w.m_push_list = worker.m_push_list /\ w.temp_list = worker.temp_list
          /\ w.handled = worker.handled /\ w.dropped = worker.dropped
          /\ w.pulled = worker.pulled
      BY <2>2 DEF Lua!Swapped, WorkerInv, WorkerTypeOK, WorkerStates
    <3>2. QED
      BY <1>0, <2>2, <3>1, EmptyConcat
  <2>3. QED
    BY <2>1, <2>2
<1>2. CASE w.m_handle_list = <<>>
  <2>1. worker' = w
    BY <1>2 DEF Lua!Pull
  <2>2. QED
    BY <1>1, <2>1
       DEF WorkerInv, WorkerTypeOK, Positions, WorkerRefines, Lua!ToWorker!vars, Lua!ToMain!vars
<1>3. CASE w.m_handle_list # <<>>
  <2>1. worker' = [w EXCEPT !.m_handle_list = Tail(w.m_handle_list),
                            !.pulled = Append(w.pulled, Head(w.m_handle_list))]
    BY <1>3 DEF Lua!Pull
  <2>2. /\ w.m_handle_list \in Seq(1..AnswerLimit)
        /\ w.m_pull_list \in Seq(1..AnswerLimit) /\ w.pulled \in Seq(1..AnswerLimit)
    BY <1>1 DEF WorkerStates
  <2>3. /\ Tail(w.m_handle_list) \in Seq(1..AnswerLimit)
        /\ Head(w.m_handle_list) \in 1..AnswerLimit
    <3> DEFINE S == 1..AnswerLimit
    <3>1. w.m_handle_list \in Seq(S)
      BY <2>2
    <3> HIDE DEF S, w
    <3>2. Tail(w.m_handle_list) \in Seq(S) /\ Head(w.m_handle_list) \in S
      BY <1>3, <3>1, HeadTailIn, Zenon
    <3>3. QED
      BY <3>2 DEF S
  <2>4. Append(w.pulled, Head(w.m_handle_list)) \in Seq(1..AnswerLimit)
    BY <2>2, <2>3
  <2>5. /\ worker' \in WorkerStates
        /\ worker'.m_handle_list = Tail(w.m_handle_list)
        /\ worker'.pulled = Append(w.pulled, Head(w.m_handle_list))
        /\ worker'.m_pull_list = w.m_pull_list
        /\ worker'.m_run = worker.m_run /\ worker'.m_thread = worker.m_thread
        /\ worker'.m_L = worker.m_L /\ worker'.at = worker.at
        /\ worker'.stopping = worker.stopping
        /\ worker'.m_push_list = worker.m_push_list
        /\ worker'.temp_list = worker.temp_list
        /\ worker'.handled = worker.handled /\ worker'.dropped = worker.dropped
    BY <1>1, <2>1, <2>3, <2>4 DEF WorkerStates
  <2>6. WorkerInv'
    BY <2>5 DEF WorkerInv, WorkerTypeOK, Positions
  <2>7. Lua!ToMain!Next
    <3> DEFINE q == w.m_handle_list \o w.m_pull_list
    <3>1. /\ q # <<>> /\ Head(q) = Head(w.m_handle_list)
          /\ Tail(q) = Tail(w.m_handle_list) \o w.m_pull_list
      BY <1>3, <2>2, HeadTailConcat, Zenon
    <3>2. QED
      BY <1>1, <2>5, <3>1 DEF Lua!ToMain!Next, Lua!ToMain!Handle
  <2>8. QED
    BY <2>5, <2>6, <2>7, SameToWorker DEF WorkerRefines
<1>4. QED
  BY <1>2, <1>3

LEMMA StopBeginsStep ==
    ASSUME WorkerInv, Lua!StopBegins
    PROVE  WorkerInv' /\ WorkerRefines
<1>1. worker' = [worker EXCEPT !.m_run = FALSE, !.stopping = "join"]
  BY DEF Lua!StopBegins
<1>2. WorkerInv'
  <2>1. WorkerTypeOK'
    BY <1>1 DEF WorkerInv, WorkerTypeOK, WorkerStates
  <2>2. Positions'
    BY <1>1 DEF WorkerInv, WorkerTypeOK, WorkerStates, Positions, Lua!StopBegins, Lua!Free
  <2>3. QED
    BY <2>1, <2>2 DEF WorkerInv
<1>3. QED
  BY <1>1, <1>2, SameToWorker, SameToMain DEF WorkerRefines, WorkerInv, WorkerTypeOK, WorkerStates

LEMMA StopJoinsStep ==
    ASSUME WorkerInv, Lua!StopJoins
    PROVE  WorkerInv' /\ WorkerRefines
<1>1. worker' = [worker EXCEPT !.m_thread = FALSE, !.stopping = "drain"]
  BY DEF Lua!StopJoins
<1>2. WorkerInv'
  <2>1. WorkerTypeOK'
    BY <1>1 DEF WorkerInv, WorkerTypeOK, WorkerStates
  <2>2. Positions'
    BY <1>1 DEF WorkerInv, WorkerTypeOK, WorkerStates, Positions, Lua!StopJoins, Lua!Joined
  <2>3. QED
    BY <2>1, <2>2 DEF WorkerInv
<1>3. QED
  BY <1>1, <1>2, SameToWorker, SameToMain DEF WorkerRefines, WorkerInv, WorkerTypeOK, WorkerStates

LEMMA RunTestsStep ==
    ASSUME WorkerInv, Lua!RunTests
    PROVE  WorkerInv' /\ WorkerRefines
<1>1. worker' = IF worker.m_run THEN [worker EXCEPT !.at = "swap"]
                                ELSE [worker EXCEPT !.at = "ended", !.m_L = FALSE]
  BY DEF Lua!RunTests
<1>2. WorkerInv'
  <2>1. CASE worker.m_run
    <3>1. worker' = [worker EXCEPT !.at = "swap"]
      BY <1>1, <2>1
    <3>2. WorkerTypeOK'
      BY <3>1 DEF WorkerInv, WorkerTypeOK, WorkerStates
    <3>3. Positions'
      BY <3>1 DEF WorkerInv, WorkerTypeOK, WorkerStates, Positions, Lua!RunTests
    <3>4. QED
      BY <3>2, <3>3 DEF WorkerInv
  <2>2. CASE ~worker.m_run
    <3>1. worker' = [worker EXCEPT !.at = "ended", !.m_L = FALSE]
      BY <1>1, <2>2
    <3>2. WorkerTypeOK'
      BY <3>1 DEF WorkerInv, WorkerTypeOK, WorkerStates
    <3>3. Positions'
      BY <3>1 DEF WorkerInv, WorkerTypeOK, WorkerStates, Positions, Lua!RunTests
    <3>4. QED
      BY <3>2, <3>3 DEF WorkerInv
  <2>3. QED
    BY <2>1, <2>2
<1>3. QED
  BY <1>1, <1>2, SameToWorker, SameToMain DEF WorkerRefines, WorkerInv, WorkerTypeOK, WorkerStates

(* Run swaps when temp_list is empty, so the queue stays what it was.      *)
LEMMA RunSwapsStep ==
    ASSUME WorkerInv, Lua!RunSwaps
    PROVE  WorkerInv' /\ WorkerRefines
<1>1. worker' = [worker EXCEPT !.temp_list = worker.m_push_list,
                               !.m_push_list = worker.temp_list, !.at = "execute"]
  BY DEF Lua!RunSwaps
<1>2. WorkerInv'
  <2>1. WorkerTypeOK'
    BY <1>1 DEF WorkerInv, WorkerTypeOK, WorkerStates
  <2>2. Positions'
    BY <1>1 DEF WorkerInv, WorkerTypeOK, WorkerStates, Positions, Lua!RunSwaps
  <2>3. QED
    BY <2>1, <2>2 DEF WorkerInv
<1>3. worker.temp_list = <<>> /\ worker.m_push_list \in Seq(1..PostLimit)
  BY DEF WorkerInv, WorkerTypeOK, WorkerStates, Positions, Lua!RunSwaps
<1>4. worker.temp_list \o worker.m_push_list = worker.m_push_list \o worker.temp_list
  BY <1>3, EmptyConcat
<1>5. UNCHANGED Lua!ToWorker!vars
  BY <1>1, <1>4 DEF Lua!ToWorker!vars, WorkerInv, WorkerTypeOK, WorkerStates
<1>6. QED
  BY <1>1, <1>2, <1>5, SameToMain DEF WorkerRefines, WorkerInv, WorkerTypeOK, WorkerStates

-----------------------------------------------------------------------------
(* The steps that call the script.                                         *)

LEMMA ScriptCalled ==
    ASSUME AnswerLimit \in Nat, WorkerTypeOK, NEW w \in WorkerStates, worker' \in Lua!Invoke(w),
           w.m_handle_list = worker.m_handle_list, w.m_pull_list = worker.m_pull_list,
           w.pulled = worker.pulled
    PROVE  [Lua!ToMain!Next]_(Lua!ToMain!vars)
<1>1. worker'.m_handle_list = worker.m_handle_list /\ worker'.pulled = worker.pulled
  BY InvokeKeeps
<1>2. \/ worker'.m_pull_list = worker.m_pull_list
      \/ \E e \in 1..AnswerLimit : worker'.m_pull_list = Append(worker.m_pull_list, e)
  BY InvokeKeeps
<1>3. QED
  BY <1>1, <1>2, SameToMain, ScriptPosts

LEMMA RunBeginsStep ==
    ASSUME AnswerLimit \in Nat, WorkerInv, Lua!RunBegins
    PROVE  WorkerInv' /\ WorkerRefines
<1> DEFINE w == [worker EXCEPT !.m_L = TRUE, !.at = "test"]
<1>1. /\ w \in WorkerStates /\ worker' \in Lua!Invoke(w)
      /\ w.m_L /\ w.at = "test" /\ w.m_thread = worker.m_thread
      /\ w.stopping = worker.stopping /\ w.dropped = worker.dropped
      /\ w.m_push_list = worker.m_push_list /\ w.temp_list = worker.temp_list
      /\ w.handled = worker.handled /\ w.pulled = worker.pulled
      /\ w.m_handle_list = worker.m_handle_list /\ w.m_pull_list = worker.m_pull_list
  BY DEF Lua!RunBegins, WorkerInv, WorkerTypeOK, WorkerStates
<1> HIDE DEF w
<1>2. /\ WorkerTypeOK' /\ worker'.m_L /\ worker'.at = "test"
      /\ worker'.m_thread = worker.m_thread /\ worker'.stopping = worker.stopping
      /\ worker'.dropped = worker.dropped /\ worker'.m_push_list = worker.m_push_list
      /\ worker'.temp_list = worker.temp_list /\ worker'.handled = worker.handled
  BY <1>1, InvokeKeeps
<1>3. WorkerInv'
  BY <1>2 DEF WorkerInv, Positions, Lua!RunBegins
<1>4. [Lua!ToMain!Next]_(Lua!ToMain!vars)
  BY <1>1, ScriptCalled DEF WorkerInv
<1>5. QED
  BY <1>2, <1>3, <1>4, SameToWorker DEF WorkerRefines

(* Execute takes the head of the worker's queue: of temp_list, or of       *)
(* m_push_list when temp_list is empty.                                    *)
LEMMA ExecuteHandles ==
    ASSUME AnswerLimit \in Nat, WorkerInv, NEW w \in WorkerStates, NEW message \in 1..PostLimit,
           worker' \in Lua!Execute(w, message),
           LET q == worker.temp_list \o worker.m_push_list
           IN  q # <<>> /\ message = Head(q) /\ w.temp_list \o w.m_push_list = Tail(q),
           w.m_thread = worker.m_thread, w.m_L = worker.m_L, w.at = worker.at,
           w.stopping = worker.stopping, w.dropped = worker.dropped,
           w.handled = worker.handled, w.m_handle_list = worker.m_handle_list,
           w.m_pull_list = worker.m_pull_list, w.pulled = worker.pulled
    PROVE  /\ WorkerTypeOK' /\ WorkerRefines
           /\ worker'.m_thread = worker.m_thread /\ worker'.m_L = worker.m_L
           /\ worker'.at = worker.at /\ worker'.stopping = worker.stopping
           /\ worker'.temp_list = w.temp_list
           /\ worker'.dropped # worker.dropped => ~worker.m_L
<1> DEFINE d == IF w.m_L THEN w.dropped ELSE w.dropped \cup {message}
           v == [w EXCEPT !.handled = Append(w.handled, message), !.dropped = d]
<1>0. /\ d \in SUBSET (1..PostLimit)
      /\ d # worker.dropped => ~worker.m_L
  BY DEF WorkerStates
<1>1. worker' \in Lua!Invoke(v)
  BY DEF Lua!Execute
<1>2. Append(w.handled, message) \in Seq(1..PostLimit)
  <2>1. w.handled \in Seq(1..PostLimit)
    BY DEF WorkerStates
  <2> DEFINE S == 1..PostLimit
  <2>2. w.handled \in Seq(S) /\ message \in S
    BY <2>1
  <2> HIDE DEF S
  <2>3. Append(w.handled, message) \in Seq(S)
    BY <2>2, AppendIn, Zenon
  <2>4. QED
    BY <2>3 DEF S
<1> HIDE DEF d
<1>3. v \in WorkerStates
  BY <1>0, <1>2 DEF WorkerStates
<1>4. /\ v.handled = Append(w.handled, message) /\ v.dropped = d
      /\ v.temp_list = w.temp_list /\ v.m_push_list = w.m_push_list
      /\ v.m_thread = w.m_thread /\ v.m_L = w.m_L /\ v.at = w.at
      /\ v.stopping = w.stopping /\ v.pulled = w.pulled
      /\ v.m_handle_list = w.m_handle_list /\ v.m_pull_list = w.m_pull_list
  BY DEF WorkerStates
<1> HIDE DEF v
<1>5. /\ WorkerTypeOK' /\ worker'.handled = Append(worker.handled, message)
      /\ worker'.dropped = v.dropped
      /\ worker'.temp_list = w.temp_list /\ worker'.m_push_list = w.m_push_list
      /\ worker'.m_thread = worker.m_thread /\ worker'.m_L = worker.m_L
      /\ worker'.at = worker.at /\ worker'.stopping = worker.stopping
  BY <1>1, <1>3, <1>4, InvokeKeeps
<1>6. [Lua!ToMain!Next]_(Lua!ToMain!vars)
  BY <1>1, <1>3, <1>4, ScriptCalled DEF WorkerInv
<1>7. Lua!ToWorker!Next
  BY <1>5, Zenon DEF Lua!ToWorker!Next, Lua!ToWorker!Handle
<1>8. QED
  BY <1>0, <1>4, <1>5, <1>6, <1>7 DEF WorkerRefines

LEMMA StopDrainsStep ==
    ASSUME AnswerLimit \in Nat, WorkerInv, Lua!StopDrains
    PROVE  WorkerInv' /\ WorkerRefines
<1>1. /\ worker.stopping = "drain" /\ ~worker.m_thread /\ worker.at = "ended"
      /\ ~worker.m_L /\ worker.temp_list = <<>>
      /\ worker.m_push_list \in Seq(1..PostLimit)
  BY DEF Lua!StopDrains, WorkerInv, WorkerTypeOK, WorkerStates, Positions
<1>2. CASE worker.m_push_list = <<>>
  <2>1. worker' = [worker EXCEPT !.stopping = "no"]
    BY <1>2 DEF Lua!StopDrains
  <2>2. WorkerInv'
    BY <1>1, <2>1 DEF WorkerInv, WorkerTypeOK, WorkerStates, Positions
  <2>3. QED
    BY <2>1, <2>2, SameToWorker, SameToMain DEF WorkerRefines, WorkerInv, WorkerTypeOK, WorkerStates
<1>3. CASE worker.m_push_list # <<>>
  <2> DEFINE w == [worker EXCEPT !.m_push_list = Tail(worker.m_push_list)]
             message == Head(worker.m_push_list)
  <2>1. worker' \in Lua!Execute(w, message)
    BY <1>3 DEF Lua!StopDrains
  <2>2. /\ Tail(worker.m_push_list) \in Seq(1..PostLimit)
        /\ message \in 1..PostLimit
    <3> DEFINE S == 1..PostLimit
    <3>1. worker.m_push_list \in Seq(S)
      BY <1>1
    <3> HIDE DEF S
    <3>2. Tail(worker.m_push_list) \in Seq(S) /\ Head(worker.m_push_list) \in S
      BY <1>3, <3>1, HeadTailIn, Zenon
    <3>3. QED
      BY <3>2 DEF S
  <2>3. /\ w \in WorkerStates
        /\ w.m_push_list = Tail(worker.m_push_list) /\ w.temp_list = <<>>
        /\ w.m_thread = worker.m_thread /\ w.m_L = worker.m_L /\ w.at = worker.at
        /\ w.stopping = worker.stopping /\ w.dropped = worker.dropped
        /\ w.handled = worker.handled /\ w.m_handle_list = worker.m_handle_list
        /\ w.m_pull_list = worker.m_pull_list /\ w.pulled = worker.pulled
    BY <1>1, <2>2 DEF WorkerInv, WorkerTypeOK, WorkerStates
  <2> HIDE DEF w
  <2>4. /\ worker.temp_list \o worker.m_push_list = worker.m_push_list
        /\ w.temp_list \o w.m_push_list = Tail(worker.m_push_list)
    BY <1>1, <2>2, <2>3, EmptyConcat
  <2>5. LET q == worker.temp_list \o worker.m_push_list
        IN  q # <<>> /\ message = Head(q) /\ w.temp_list \o w.m_push_list = Tail(q)
    BY <1>3, <2>4
  <2> HIDE DEF message
  <2>6. /\ WorkerTypeOK' /\ WorkerRefines
        /\ worker'.m_thread = worker.m_thread /\ worker'.m_L = worker.m_L
        /\ worker'.at = worker.at /\ worker'.stopping = worker.stopping
        /\ worker'.temp_list = w.temp_list
    BY <2>1, <2>2, <2>3, <2>5, ExecuteHandles
  <2>7. Positions'
    BY <1>1, <2>3, <2>6 DEF Positions
  <2>8. QED
    BY <2>6, <2>7 DEF WorkerInv
<1>4. QED
  BY <1>2, <1>3

LEMMA RunExecutesStep ==
    ASSUME AnswerLimit \in Nat, WorkerInv, Lua!RunExecutes
    PROVE  WorkerInv' /\ WorkerRefines
<1>1. /\ worker.at = "execute" /\ worker.m_L /\ worker.m_thread
      /\ worker.stopping # "drain" /\ worker.dropped = {}
      /\ worker.temp_list \in Seq(1..PostLimit)
      /\ worker.m_push_list \in Seq(1..PostLimit)
  BY DEF Lua!RunExecutes, WorkerInv, WorkerTypeOK, WorkerStates, Positions
<1>2. CASE worker.temp_list = <<>>
  <2> DEFINE w == [worker EXCEPT !.at = "test"]
  <2>1. /\ w \in WorkerStates /\ worker' \in Lua!Invoke(w)
        /\ w.at = "test" /\ w.m_L = worker.m_L /\ w.m_thread = worker.m_thread
        /\ w.stopping = worker.stopping /\ w.dropped = worker.dropped
        /\ w.m_push_list = worker.m_push_list /\ w.temp_list = worker.temp_list
        /\ w.handled = worker.handled /\ w.pulled = worker.pulled
        /\ w.m_handle_list = worker.m_handle_list /\ w.m_pull_list = worker.m_pull_list
    BY <1>2 DEF Lua!RunExecutes, WorkerInv, WorkerTypeOK, WorkerStates
  <2> HIDE DEF w
  <2>2. /\ WorkerTypeOK' /\ worker'.m_L = worker.m_L /\ worker'.at = "test"
        /\ worker'.m_thread = worker.m_thread /\ worker'.stopping = worker.stopping
        /\ worker'.dropped = worker.dropped /\ worker'.m_push_list = worker.m_push_list
        /\ worker'.temp_list = worker.temp_list /\ worker'.handled = worker.handled
    BY <2>1, InvokeKeeps
  <2>3. Positions'
    BY <1>1, <1>2, <2>2 DEF Positions
  <2>4. [Lua!ToMain!Next]_(Lua!ToMain!vars)
    BY <2>1, ScriptCalled DEF WorkerInv
  <2>5. QED
    BY <2>2, <2>3, <2>4, SameToWorker DEF WorkerInv, WorkerRefines
<1>3. CASE worker.temp_list # <<>>
  <2> DEFINE w == [worker EXCEPT !.temp_list = Tail(worker.temp_list)]
             message == Head(worker.temp_list)
  <2>1. worker' \in Lua!Execute(w, message)
    BY <1>3 DEF Lua!RunExecutes
  <2>2. /\ Tail(worker.temp_list) \in Seq(1..PostLimit)
        /\ message \in 1..PostLimit
    <3> DEFINE S == 1..PostLimit
    <3>1. worker.temp_list \in Seq(S)
      BY <1>1
    <3> HIDE DEF S
    <3>2. Tail(worker.temp_list) \in Seq(S) /\ Head(worker.temp_list) \in S
      BY <1>3, <3>1, HeadTailIn, Zenon
    <3>3. QED
      BY <3>2 DEF S
  <2>3. /\ w \in WorkerStates
        /\ w.temp_list = Tail(worker.temp_list) /\ w.m_push_list = worker.m_push_list
        /\ w.m_thread = worker.m_thread /\ w.m_L = worker.m_L /\ w.at = worker.at
        /\ w.stopping = worker.stopping /\ w.dropped = worker.dropped
        /\ w.handled = worker.handled /\ w.m_handle_list = worker.m_handle_list
        /\ w.m_pull_list = worker.m_pull_list /\ w.pulled = worker.pulled
    BY <2>2 DEF WorkerInv, WorkerTypeOK, WorkerStates
  <2> HIDE DEF w
  <2>4. LET q == worker.temp_list \o worker.m_push_list
        IN  q # <<>> /\ Head(q) = message /\ Tail(q) = Tail(worker.temp_list) \o worker.m_push_list
    <3> DEFINE S == 1..PostLimit
    <3>1. worker.temp_list \in Seq(S) /\ worker.m_push_list \in Seq(S)
      BY <1>1
    <3> HIDE DEF S
    <3>2. \A s, t \in Seq(S) : s # <<>> =>
             s \o t # <<>> /\ Head(s \o t) = Head(s) /\ Tail(s \o t) = Tail(s) \o t
      BY HeadTailConcat
    <3>3. QED
      BY <1>3, <3>1, <3>2, Zenon
  <2>5. LET q == worker.temp_list \o worker.m_push_list
        IN  q # <<>> /\ message = Head(q) /\ w.temp_list \o w.m_push_list = Tail(q)
    BY <2>3, <2>4
  <2> HIDE DEF message
  <2>6. /\ WorkerTypeOK' /\ WorkerRefines
        /\ worker'.m_thread = worker.m_thread /\ worker'.m_L = worker.m_L
        /\ worker'.at = worker.at /\ worker'.stopping = worker.stopping
        /\ worker'.dropped # worker.dropped => ~worker.m_L
    BY <2>1, <2>2, <2>3, <2>5, ExecuteHandles
  <2>7. Positions'
    BY <1>1, <2>6 DEF Positions
  <2>8. QED
    BY <2>6, <2>7 DEF WorkerInv
<1>4. QED
  BY <1>2, <1>3

-----------------------------------------------------------------------------
LEMMA WorkerSteps ==
    ASSUME PostLimit \in Nat, AnswerLimit \in Nat, WorkerInv, [Lua!Next]_(Lua!vars)
    PROVE  WorkerInv' /\ WorkerRefines
<1>1. CASE UNCHANGED Lua!vars
  <2>1. worker' = worker
    BY <1>1 DEF Lua!vars
  <2>2. QED
    BY <2>1
       DEF WorkerInv, WorkerTypeOK, Positions, WorkerRefines, Lua!ToWorker!vars, Lua!ToMain!vars
<1>2. CASE Lua!Next
  BY <1>2, PostToWorkerStep, PullStep, StopBeginsStep, StopJoinsStep, StopDrainsStep,
     RunBeginsStep, RunTestsStep, RunSwapsStep, RunExecutesStep DEF Lua!Next
<1>3. QED
  BY <1>1, <1>2

LEMMA QueuesInit == Lua!Init => Lua!ToWorker!Init /\ Lua!ToMain!Init
  BY DEF Lua!Init, Lua!ToWorker!Init, Lua!ToMain!Init

(* Whatever the interleaving of the two threads, and for any number of     *)
(* messages, both ways the lists are one queue: nothing is lost between    *)
(* them, handed over twice or overtaken.                                   *)
THEOREM IsTwoQueues ==
    ASSUME PostLimit \in Nat, AnswerLimit \in Nat
    PROVE  Lua!Spec => Lua!MessagesHandedOff
<1>1. Lua!Init => WorkerInv /\ Lua!ToWorker!Init /\ Lua!ToMain!Init
  BY WorkerStarts, QueuesInit
<1>2. WorkerInv /\ [Lua!Next]_(Lua!vars) =>
        WorkerInv' /\ [Lua!ToWorker!Next]_(Lua!ToWorker!vars) /\ [Lua!ToMain!Next]_(Lua!ToMain!vars)
  BY WorkerSteps DEF WorkerRefines
<1>3. QED
  BY <1>1, <1>2, PTL DEF Lua!Spec, Lua!MessagesHandedOff, Lua!ToWorker!Spec, Lua!ToMain!Spec

(* A message that is not executed was left when Stop had joined the        *)
(* thread, for any number of messages: the worker leaves none behind.      *)
THEOREM OnlyStopDrops ==
    ASSUME PostLimit \in Nat, AnswerLimit \in Nat
    PROVE  Lua!Spec => []Lua!DroppedByStopOnly
<1>1. Lua!Init => WorkerInv
  BY WorkerStarts
<1>2. WorkerInv /\ [Lua!Next]_(Lua!vars) => WorkerInv'
  BY WorkerSteps
<1>3. WorkerInv => Lua!DroppedByStopOnly
  BY DEF WorkerInv, WorkerTypeOK, WorkerStates, Positions, Lua!DroppedByStopOnly
<1>4. QED
  BY <1>1, <1>2, <1>3, PTL DEF Lua!Spec
-----------------------------------------------------------------------------
(* The event consumer.                                                     *)

CONSTANTS EventLimit, HandleLimit, DepthLimit

VARIABLE consumer

Events == INSTANCE EventConsumer

LoopType == [buffer : 1..2, place : Nat, last : Nat]

ConsumerStates ==
    [buffers : [1..2 -> Seq(Nat)], m_event_list : 1..2, event_list : 1..2,
     loops : Seq(LoopType), pushed : Nat, calls : Nat, handled : Seq(Nat),
     plain : BOOLEAN, undefined : BOOLEAN]

Elements(s) == {s[i] : i \in DOMAIN s}

(* A loop is within its buffer, and what it has passed has been called.    *)
InLoop(c, loop) ==
    /\ loop.place <= loop.last /\ loop.last <= Len(c.buffers[loop.buffer])
    /\ \A i \in 1..loop.place : c.buffers[loop.buffer][i] \in Elements(c.handled)

(* What the innermost loop clears at its end is its own buffer, to which   *)
(* nothing has been added, or an inner call has swapped that away and      *)
(* cleared the other.                                                      *)
Clears(c, loop) ==
    \/ loop.buffer = c.event_list /\ Len(c.buffers[c.event_list]) = loop.last
    \/ loop.buffer = c.m_event_list /\ c.buffers[c.event_list] = <<>>

Innermost(c) == c.loops # <<>> => Clears(c, c.loops[Len(c.loops)])

NoneLost(c) ==
    \A e \in 1..c.pushed :
        \/ e \in Elements(c.handled)
        \/ e \in Elements(c.buffers[1]) \/ e \in Elements(c.buffers[2])

(* Without nested calls the events that wait follow those called: first    *)
(* what is left of the loop, then the other buffer.                        *)
Follow(c, left) ==
    /\ c.pushed = Len(c.handled) + left + Len(c.buffers[c.m_event_list])
    /\ \A i \in DOMAIN c.buffers[c.m_event_list] :
          c.buffers[c.m_event_list][i] = Len(c.handled) + left + i

InOrder(c) ==
    c.plain =>
      /\ \A i \in DOMAIN c.handled : c.handled[i] = i
      /\ \/ c.loops = <<>> /\ c.buffers[c.event_list] = <<>> /\ Follow(c, 0)
         \/ /\ Len(c.loops) = 1 /\ c.loops[1].buffer = c.event_list
            /\ Follow(c, c.loops[1].last - c.loops[1].place)
            /\ \A i \in DOMAIN c.buffers[c.event_list] :
                  c.buffers[c.event_list][i] = Len(c.handled) - c.loops[1].place + i

Defined(c) ==
    /\ c.m_event_list # c.event_list
    /\ \A i \in DOMAIN c.loops : InLoop(c, c.loops[i])
    /\ Innermost(c) /\ NoneLost(c) /\ InOrder(c)

ConsumerInv ==
    consumer \in ConsumerStates /\ (~consumer.undefined => Defined(consumer))

LEMMA ConsumerIs ==
    ASSUME NEW c \in ConsumerStates
    PROVE  /\ c.buffers \in [1..2 -> Seq(Nat)] /\ c.loops \in Seq(LoopType)
           /\ c.m_event_list \in 1..2 /\ c.event_list \in 1..2
           /\ c.handled \in Seq(Nat) /\ c.pushed \in Nat /\ c.calls \in Nat
           /\ \A i \in DOMAIN c.loops : c.loops[i] \in LoopType
<1>1. c.loops \in Seq(LoopType)
  BY DEF ConsumerStates
<1>2. \A i \in DOMAIN c.loops : c.loops[i] \in LoopType
  BY <1>1
<1>3. QED
  BY <1>1, <1>2 DEF ConsumerStates

LEMMA LoopIs ==
    ASSUME NEW loop \in LoopType
    PROVE  loop.buffer \in 1..2 /\ loop.place \in Nat /\ loop.last \in Nat
  BY DEF LoopType

(* A loop goes on as it was when its buffer has at most been added to. *)
LEMMA InLoopKept ==
    ASSUME NEW c \in ConsumerStates, NEW d \in ConsumerStates, NEW loop \in LoopType,
           InLoop(c, loop), Elements(c.handled) \subseteq Elements(d.handled),
           Len(c.buffers[loop.buffer]) <= Len(d.buffers[loop.buffer]),
           \A i \in 1..Len(c.buffers[loop.buffer]) :
              d.buffers[loop.buffer][i] = c.buffers[loop.buffer][i]
    PROVE  InLoop(d, loop)
<1> DEFINE b == c.buffers[loop.buffer]
           e == d.buffers[loop.buffer]
<1>1. Len(b) \in Nat /\ Len(e) \in Nat /\ loop.place \in Nat /\ loop.last \in Nat
  BY ConsumerIs, LoopIs
<1>2. /\ loop.place <= loop.last /\ loop.last <= Len(b) /\ Len(b) <= Len(e)
      /\ \A i \in 1..loop.place : b[i] \in Elements(c.handled)
      /\ \A i \in 1..Len(b) : e[i] = b[i]
  BY DEF InLoop
<1> HIDE DEF b, e
<1>3. loop.last <= Len(e) /\ \A i \in 1..loop.place : i \in 1..Len(b)
  BY <1>1, <1>2
<1>4. \A i \in 1..loop.place : e[i] \in Elements(d.handled)
  BY <1>2, <1>3
<1>5. QED
  BY <1>2, <1>3, <1>4 DEF InLoop, e

LEMMA ConsumerStarts == Events!Init => ConsumerInv
<1> SUFFICES ASSUME Events!Init PROVE ConsumerInv
  OBVIOUS
<1>1. /\ consumer = [buffers |-> <<<<>>, <<>>>>, m_event_list |-> 1, event_list |-> 2,
                     loops |-> <<>>, pushed |-> 0, calls |-> 0, handled |-> <<>>,
                     plain |-> TRUE, undefined |-> FALSE]
      /\ <<>> \in Seq(Nat) /\ <<>> \in Seq(LoopType)
  BY DEF Events!Init
<1>2. consumer \in ConsumerStates
  <2> DEFINE buffers == <<<<>>, <<>>>>
  <2>1. DOMAIN buffers = 1..2 /\ \A i \in 1..2 : buffers[i] = <<>>
    OBVIOUS
  <2>2. buffers = [i \in 1..2 |-> buffers[i]]
    BY <2>1
  <2>3. consumer.buffers = buffers
    BY <1>1
  <2> HIDE DEF buffers
  <2>4. buffers \in [1..2 -> Seq(Nat)]
    BY <1>1, <2>1, <2>2
  <2>5. consumer = [buffers |-> buffers, m_event_list |-> 1, event_list |-> 2,
                    loops |-> <<>>, pushed |-> 0, calls |-> 0, handled |-> <<>>,
                    plain |-> TRUE, undefined |-> FALSE]
    BY <1>1 DEF buffers
  <2>6. QED
    BY <1>1, <2>4, <2>5 DEF ConsumerStates
<1>3. /\ consumer.buffers[1] = <<>> /\ consumer.buffers[2] = <<>>
      /\ consumer.m_event_list = 1 /\ consumer.event_list = 2 /\ consumer.loops = <<>>
      /\ consumer.pushed = 0 /\ consumer.handled = <<>>
  BY <1>1
<1>4. NoneLost(consumer) /\ Innermost(consumer)
  BY <1>3 DEF NoneLost, Innermost
<1>5. InOrder(consumer)
  BY <1>3, EmptyIs DEF InOrder, Follow
<1>6. \A i \in DOMAIN consumer.loops : InLoop(consumer, consumer.loops[i])
  BY <1>3, EmptyIs
<1>7. QED
  BY <1>2, <1>3, <1>4, <1>5, <1>6 DEF ConsumerInv, Defined

LEMMA PushEventKeeps == ASSUME ConsumerInv, Events!PushEvent PROVE ConsumerInv'
<1> DEFINE c == consumer
           m == c.m_event_list
           e == c.event_list
           new == c.pushed + 1
           list == Append(c.buffers[m], new)
           buffers == [c.buffers EXCEPT ![m] = list]
<1>1. c \in ConsumerStates /\ Defined(c)
  BY DEF ConsumerInv, Events!PushEvent
<1>2. PICK undefined \in BOOLEAN :
        consumer' = [c EXCEPT !.pushed = new, !.buffers = buffers, !.undefined = undefined]
  BY DEF Events!PushEvent
<1>3. /\ m \in 1..2 /\ e \in 1..2 /\ m # e /\ c.buffers \in [1..2 -> Seq(Nat)]
      /\ c.buffers[m] \in Seq(Nat) /\ Len(c.buffers[m]) \in Nat
      /\ DOMAIN c.buffers[m] = 1..Len(c.buffers[m]) /\ c.pushed \in Nat /\ new \in Nat
      /\ c.handled \in Seq(Nat) /\ Len(c.handled) \in Nat
  BY <1>1, ConsumerIs DEF Defined
<1>4. /\ list \in Seq(Nat) /\ Len(list) = Len(c.buffers[m]) + 1
      /\ list[Len(c.buffers[m]) + 1] = new
      /\ \A i \in 1..Len(c.buffers[m]) : list[i] = c.buffers[m][i]
  BY <1>3, AppendProperties
<1>5. DOMAIN list = 1..(Len(c.buffers[m]) + 1)
  BY <1>4
<1> HIDE DEF list
<1>6. /\ buffers \in [1..2 -> Seq(Nat)] /\ buffers[m] = list
      /\ \A b \in 1..2 : b # m => buffers[b] = c.buffers[b]
  BY <1>3, <1>4
<1> HIDE DEF buffers
<1>7. /\ consumer' \in ConsumerStates /\ consumer'.buffers = buffers /\ consumer'.pushed = new
      /\ consumer'.m_event_list = m /\ consumer'.event_list = e
      /\ consumer'.loops = c.loops /\ consumer'.handled = c.handled
      /\ consumer'.plain = c.plain
  BY <1>1, <1>2, <1>3, <1>6 DEF ConsumerStates
<1> HIDE DEF c, m, e, new
<1>8. ASSUME NEW i \in DOMAIN c.loops PROVE InLoop(consumer', c.loops[i])
  <2> DEFINE loop == c.loops[i]
  <2>1. loop \in LoopType /\ InLoop(c, loop) /\ loop.buffer \in 1..2
    BY <1>1, ConsumerIs, LoopIs DEF Defined
  <2> HIDE DEF loop
  <2>2. /\ Len(c.buffers[loop.buffer]) <= Len(buffers[loop.buffer])
        /\ \A j \in 1..Len(c.buffers[loop.buffer]) :
              buffers[loop.buffer][j] = c.buffers[loop.buffer][j]
    <3>1. CASE loop.buffer = m
      BY <1>3, <1>4, <1>6, <3>1
    <3>2. CASE loop.buffer # m
      <4>1. buffers[loop.buffer] = c.buffers[loop.buffer] /\ c.buffers[loop.buffer] \in Seq(Nat)
        BY <1>3, <1>6, <2>1, <3>2
      <4>2. QED
        BY <4>1
    <3>3. QED
      BY <3>1, <3>2
  <2>3. InLoop(consumer', loop)
    BY <1>1, <1>7, <2>1, <2>2, InLoopKept
  <2>4. QED
    BY <2>3 DEF loop
<1>9. Innermost(consumer')
  BY <1>1, <1>3, <1>6, <1>7 DEF Defined, Innermost, Clears, m, e
<1>10. NoneLost(consumer')
  <2> SUFFICES ASSUME NEW n \in 1..new
               PROVE  \/ n \in Elements(c.handled)
                      \/ n \in Elements(buffers[1]) \/ n \in Elements(buffers[2])
    BY <1>7 DEF NoneLost
  <2>1. \A b \in 1..2 : Elements(c.buffers[b]) \subseteq Elements(buffers[b])
    <3> SUFFICES ASSUME NEW b \in 1..2, NEW x \in Elements(c.buffers[b])
                 PROVE  x \in Elements(buffers[b])
      OBVIOUS
    <3>1. CASE b = m
      <4>1. PICK i \in 1..Len(c.buffers[m]) : x = c.buffers[m][i]
        BY <1>3, <3>1 DEF Elements
      <4>2. i \in DOMAIN list /\ list[i] = x
        BY <1>3, <1>4, <1>5, <4>1
      <4>3. QED
        BY <1>6, <3>1, <4>2 DEF Elements
    <3>2. QED
      BY <1>6, <3>1
  <2>2. CASE n = new
    <3>1. Len(c.buffers[m]) + 1 \in DOMAIN list
      BY <1>3, <1>5
    <3>2. new \in Elements(buffers[m])
      BY <1>4, <1>6, <3>1 DEF Elements
    <3>3. m = 1 \/ m = 2
      BY <1>3
    <3>4. QED
      BY <2>2, <3>2, <3>3
  <2>3. CASE n # new
    <3>1. n \in 1..c.pushed
      BY <1>3, <2>3 DEF new
    <3>2. \/ n \in Elements(c.handled)
          \/ n \in Elements(c.buffers[1]) \/ n \in Elements(c.buffers[2])
      BY <1>1, <3>1 DEF Defined, NoneLost
    <3>3. QED
      BY <2>1, <3>2
  <2>4. QED
    BY <2>2, <2>3
<1>11. ASSUME NEW left, left \in Nat, Follow(c, left) PROVE Follow(consumer', left)
  <2> DEFINE h == Len(c.handled)
             n == Len(c.buffers[m])
  <2>1. h \in Nat /\ n \in Nat /\ c.pushed = h + left + n
    BY <1>3, <1>11 DEF Follow, m
  <2>2. \A i \in 1..n : c.buffers[m][i] = h + left + i
    BY <1>3, <1>11 DEF Follow, m
  <2> HIDE DEF h, n
  <2>3. new = h + left + (n + 1)
    BY <1>11, <2>1 DEF new
  <2>4. \A i \in 1..(n + 1) : list[i] = h + left + i
    <3> SUFFICES ASSUME NEW i \in 1..(n + 1) PROVE list[i] = h + left + i
      OBVIOUS
    <3>1. CASE i = n + 1
      BY <1>4, <2>3, <3>1 DEF n
    <3>2. CASE i # n + 1
      <4>1. i \in 1..n
        BY <2>1, <3>2
      <4>2. QED
        BY <1>4, <2>2, <4>1 DEF n
    <3>3. QED
      BY <3>1, <3>2
  <2>5. QED
    BY <1>4, <1>5, <1>6, <1>7, <2>3, <2>4 DEF Follow, h, n
<1>12. InOrder(consumer')
  <2> SUFFICES ASSUME c.plain PROVE InOrder(consumer')
    BY <1>7 DEF InOrder
  <2>1. InOrder(c)
    BY <1>1 DEF Defined
  <2>2. buffers[e] = c.buffers[e]
    BY <1>3, <1>6
  <2>3. CASE c.loops = <<>> /\ c.buffers[e] = <<>> /\ Follow(c, 0)
    <3>1. Follow(consumer', 0)
      BY <1>11, <2>3
    <3>2. QED
      BY <1>7, <2>1, <2>2, <2>3, <3>1 DEF InOrder
  <2>4. CASE /\ Len(c.loops) = 1 /\ c.loops[1].buffer = e
             /\ Follow(c, c.loops[1].last - c.loops[1].place)
             /\ \A i \in DOMAIN c.buffers[e] :
                   c.buffers[e][i] = Len(c.handled) - c.loops[1].place + i
    <3> DEFINE left == c.loops[1].last - c.loops[1].place
    <3>1. c.loops[1] \in LoopType /\ InLoop(c, c.loops[1])
      <4>1. 1 \in DOMAIN c.loops
        BY <1>1, <2>4, ConsumerIs
      <4>2. QED
        BY <1>1, <4>1, ConsumerIs DEF Defined
    <3>2. left \in Nat
      BY <3>1, LoopIs DEF InLoop
    <3> HIDE DEF left
    <3>3. Follow(consumer', left)
      BY <1>11, <2>4, <3>2 DEF left
    <3>4. QED
      BY <1>7, <2>1, <2>2, <2>4, <3>3 DEF InOrder, left
  <2>5. QED
    BY <2>1, <2>3, <2>4 DEF InOrder, e
<1>13. QED
  BY <1>1, <1>3, <1>7, <1>8, <1>9, <1>10, <1>12 DEF ConsumerInv, Defined, m, e

LEMMA HandleEventKeeps == ASSUME ConsumerInv, Events!HandleEvent PROVE ConsumerInv'
<1> DEFINE c == consumer
           m == c.m_event_list
           e == c.event_list
           new == [buffer |-> m, place |-> 0, last |-> Len(c.buffers[m])]
           loops == Append(c.loops, new)
<1>1. c \in ConsumerStates /\ Defined(c)
  BY DEF ConsumerInv, Events!HandleEvent
<1>2. consumer' = [c EXCEPT !.m_event_list = e, !.event_list = m, !.loops = loops,
                            !.plain = c.plain /\ c.loops = <<>>, !.calls = c.calls + 1]
  BY DEF Events!HandleEvent, Events!Buffer
<1>3. /\ m \in 1..2 /\ e \in 1..2 /\ m # e /\ c.buffers \in [1..2 -> Seq(Nat)]
      /\ c.buffers[m] \in Seq(Nat) /\ Len(c.buffers[m]) \in Nat
      /\ DOMAIN c.buffers[m] = 1..Len(c.buffers[m])
      /\ c.handled \in Seq(Nat) /\ Len(c.handled) \in Nat /\ c.calls + 1 \in Nat
      /\ c.loops \in Seq(LoopType) /\ c.plain \in BOOLEAN
  BY <1>1, ConsumerIs DEF Defined, ConsumerStates
<1>4. new \in LoopType
  BY <1>3 DEF LoopType
<1>5. new.buffer = m /\ new.place = 0 /\ new.last = Len(c.buffers[m])
  OBVIOUS
<1> HIDE DEF new
<1>6. /\ loops \in Seq(LoopType) /\ Len(loops) = Len(c.loops) + 1 /\ loops # <<>>
      /\ loops[Len(loops)] = new
      /\ \A i \in DOMAIN loops : (i \in DOMAIN c.loops /\ loops[i] = c.loops[i]) \/ loops[i] = new
  <2> DEFINE old == c.loops
  <2>1. old \in Seq(LoopType) /\ loops = Append(old, new)
    BY <1>3
  <2> HIDE DEF loops, old
  <2>2. /\ loops \in Seq(LoopType) /\ Len(loops) = Len(old) + 1 /\ loops # <<>>
        /\ loops[Len(old) + 1] = new
        /\ \A i \in DOMAIN loops : \/ i \in DOMAIN old /\ loops[i] = old[i]
                                   \/ i = Len(old) + 1 /\ loops[i] = new
    BY <2>1, <1>4, AppendIs
  <2>3. QED
    BY <2>2 DEF old
<1> HIDE DEF loops
<1>7. /\ consumer' \in ConsumerStates /\ consumer'.buffers = c.buffers
      /\ consumer'.pushed = c.pushed /\ consumer'.handled = c.handled
      /\ consumer'.m_event_list = e /\ consumer'.event_list = m /\ consumer'.loops = loops
      /\ consumer'.plain = (c.plain /\ c.loops = <<>>)
  <2> DEFINE plain == c.plain /\ c.loops = <<>>
  <2>1. plain \in BOOLEAN
    OBVIOUS
  <2> HIDE DEF plain
  <2>2. consumer' = [c EXCEPT !.m_event_list = e, !.event_list = m, !.loops = loops,
                              !.plain = plain, !.calls = c.calls + 1]
    BY <1>2 DEF plain
  <2>3. consumer' \in ConsumerStates
    BY <1>1, <1>3, <1>6, <2>1, <2>2 DEF ConsumerStates
  <2>4. /\ consumer'.buffers = c.buffers /\ consumer'.pushed = c.pushed
        /\ consumer'.handled = c.handled /\ consumer'.m_event_list = e
        /\ consumer'.event_list = m /\ consumer'.loops = loops /\ consumer'.plain = plain
    BY <1>1, <2>2 DEF ConsumerStates
  <2>5. QED
    BY <2>3, <2>4 DEF plain
<1> HIDE DEF c, m, e
<1>8. ASSUME NEW i \in DOMAIN loops PROVE InLoop(consumer', loops[i])
  <2>1. CASE i \in DOMAIN c.loops /\ loops[i] = c.loops[i]
    BY <1>1, <1>7, <2>1 DEF Defined, InLoop
  <2>2. CASE loops[i] = new
    <3>1. new.place <= new.last /\ new.last <= Len(c.buffers[new.buffer])
      BY <1>3, <1>5
    <3>2. 1..new.place = {}
      BY <1>5
    <3>3. QED
      BY <1>7, <2>2, <3>1, <3>2 DEF InLoop
  <2>3. QED
    BY <1>6, <2>1, <2>2
<1>9. Innermost(consumer')
  BY <1>5, <1>6, <1>7 DEF Innermost, Clears
<1>10. NoneLost(consumer')
  BY <1>1, <1>7 DEF Defined, NoneLost
<1>11. InOrder(consumer')
  <2> SUFFICES ASSUME c.plain, c.loops = <<>> PROVE InOrder(consumer')
    BY <1>7 DEF InOrder
  <2>1. /\ \A i \in DOMAIN c.handled : c.handled[i] = i
        /\ c.buffers[e] = <<>> /\ Follow(c, 0)
    BY <1>1, EmptyIs DEF Defined, InOrder, e
  <2>2. /\ c.pushed = Len(c.handled) + 0 + Len(c.buffers[m])
        /\ \A i \in DOMAIN c.buffers[m] : c.buffers[m][i] = Len(c.handled) + 0 + i
    BY <2>1 DEF Follow, m
  <2>3. Len(loops) = 1 /\ loops[1] = new
    BY <1>6, EmptyIs
  <2>4. Follow(consumer', new.last - new.place)
    <3>1. DOMAIN c.buffers[e] = {} /\ Len(c.buffers[e]) = 0
      BY <2>1, EmptyIs
    <3>2. c.pushed = Len(c.handled) + (new.last - new.place) + Len(c.buffers[e])
      BY <1>3, <1>5, <2>2, <3>1
    <3>3. QED
      BY <1>7, <3>1, <3>2 DEF Follow
  <2>5. \A i \in DOMAIN c.buffers[m] : c.buffers[m][i] = Len(c.handled) - new.place + i
    BY <1>3, <1>5, <2>2
  <2>6. QED
    BY <1>5, <1>7, <2>1, <2>3, <2>4, <2>5 DEF InOrder
<1>12. QED
  BY <1>3, <1>7, <1>8, <1>9, <1>10, <1>11 DEF ConsumerInv, Defined

(* The innermost loop. *)
LEMMA LastIs ==
    ASSUME NEW c \in ConsumerStates, c.loops # <<>>
    PROVE  /\ Len(c.loops) \in Nat /\ Len(c.loops) \in DOMAIN c.loops
           /\ DOMAIN c.loops = 1..Len(c.loops)
           /\ c.loops[Len(c.loops)] \in LoopType
<1>1. c.loops \in Seq(LoopType)
  BY ConsumerIs
<1>2. /\ Len(c.loops) \in Nat /\ Len(c.loops) \in DOMAIN c.loops
      /\ DOMAIN c.loops = 1..Len(c.loops)
  BY <1>1
<1>3. QED
  BY <1>2, ConsumerIs

LEMMA CallEventKeeps == ASSUME ConsumerInv, Events!CallEvent PROVE ConsumerInv'
<1> DEFINE c == consumer
           m == c.m_event_list
           e == c.event_list
           k == Len(c.loops)
           loop == c.loops[k]
           called == c.buffers[loop.buffer][loop.place + 1]
           new == [loop EXCEPT !.place = loop.place + 1]
           loops == [c.loops EXCEPT ![k] = new]
           handled == Append(c.handled, called)
<1>1. c \in ConsumerStates /\ Defined(c) /\ c.loops # <<>> /\ loop.place < loop.last
  BY DEF ConsumerInv, Events!CallEvent, Events!Last
<1>2. consumer' = [c EXCEPT !.loops = loops, !.handled = handled]
  BY DEF Events!CallEvent, Events!Last, Events!Buffer
<1>3. /\ k \in Nat /\ k \in DOMAIN c.loops /\ DOMAIN c.loops = 1..k /\ loop \in LoopType
      /\ loop.place \in Nat /\ loop.last \in Nat /\ loop.buffer \in 1..2
      /\ InLoop(c, loop) /\ Clears(c, loop)
  BY <1>1, LastIs, LoopIs DEF Defined, Innermost
<1>4. /\ m \in 1..2 /\ e \in 1..2 /\ m # e /\ c.buffers \in [1..2 -> Seq(Nat)]
      /\ c.buffers[loop.buffer] \in Seq(Nat) /\ Len(c.buffers[loop.buffer]) \in Nat
      /\ c.handled \in Seq(Nat) /\ Len(c.handled) \in Nat
      /\ DOMAIN c.handled = 1..Len(c.handled)
      /\ c.loops \in Seq(LoopType)
  BY <1>1, <1>3, ConsumerIs DEF Defined
<1>5. loop.place + 1 \in 1..Len(c.buffers[loop.buffer])
  <2> DEFINE b == c.buffers[loop.buffer]
  <2>1. loop.last <= Len(b) /\ loop.place < loop.last
    BY <1>1, <1>3 DEF InLoop
  <2>2. loop.place \in Nat /\ loop.last \in Nat /\ Len(b) \in Nat
    BY <1>3, <1>4
  <2> HIDE DEF b, loop
  <2>3. loop.place + 1 \in 1..Len(b)
    BY <2>1, <2>2
  <2>4. QED
    BY <2>3 DEF b
<1>6. called \in Nat
  <2> DEFINE b == c.buffers[loop.buffer]
             i == loop.place + 1
  <2>1. b \in Seq(Nat) /\ i \in 1..Len(b)
    BY <1>4, <1>5
  <2> HIDE DEF b, i
  <2>2. b[i] \in Nat
    BY <2>1
  <2>3. QED
    BY <2>2 DEF b, i
<1> HIDE DEF called
<1>7. /\ handled \in Seq(Nat) /\ Len(handled) = Len(c.handled) + 1
      /\ handled[Len(c.handled) + 1] = called
      /\ \A i \in 1..Len(c.handled) : handled[i] = c.handled[i]
  BY <1>4, <1>6, AppendProperties
<1>8. DOMAIN handled = 1..(Len(c.handled) + 1)
  BY <1>7
<1> HIDE DEF handled, loop
<1>9. /\ new \in LoopType /\ new.buffer = loop.buffer /\ new.last = loop.last
      /\ new.place = loop.place + 1
  BY <1>3 DEF LoopType
<1> HIDE DEF new
<1>10. /\ loops \in Seq(LoopType) /\ DOMAIN loops = 1..k /\ Len(loops) = k /\ loops[k] = new
       /\ \A i \in 1..k : i # k => loops[i] = c.loops[i]
  BY <1>3, <1>4, <1>9
<1> HIDE DEF loops
<1>11. /\ consumer' \in ConsumerStates /\ consumer'.buffers = c.buffers
       /\ consumer'.pushed = c.pushed /\ consumer'.handled = handled
       /\ consumer'.m_event_list = m /\ consumer'.event_list = e
       /\ consumer'.loops = loops /\ consumer'.plain = c.plain
  BY <1>1, <1>2, <1>7, <1>10 DEF ConsumerStates
<1> HIDE DEF c, m, e, k
<1>12. Elements(c.handled) \subseteq Elements(handled) /\ called \in Elements(handled)
  <2>1. ASSUME NEW x \in Elements(c.handled) PROVE x \in Elements(handled)
    <3>1. PICK i \in 1..Len(c.handled) : x = c.handled[i]
      BY <1>4 DEF Elements
    <3>2. i \in DOMAIN handled
      BY <1>4, <1>8
    <3>3. QED
      BY <1>7, <3>1, <3>2 DEF Elements
  <2>2. Len(c.handled) + 1 \in DOMAIN handled
    BY <1>4, <1>8
  <2>3. QED
    BY <1>7, <2>1, <2>2 DEF Elements
<1>13. ASSUME NEW i \in DOMAIN loops PROVE InLoop(consumer', loops[i])
  <2>1. CASE i # k
    <3>1. i \in DOMAIN c.loops /\ loops[i] = c.loops[i]
      BY <1>3, <1>10, <2>1
    <3>2. InLoop(c, c.loops[i])
      BY <1>1, <3>1 DEF Defined
    <3>3. QED
      BY <1>11, <1>12, <3>1, <3>2 DEF InLoop
  <2>2. CASE i = k
    <3> DEFINE b == c.buffers[loop.buffer]
    <3>1. /\ loop.last <= Len(b) /\ b[loop.place + 1] = called
          /\ \A j \in 1..loop.place : b[j] \in Elements(c.handled)
      BY <1>3 DEF InLoop, called
    <3> HIDE DEF b
    <3>2. \A j \in 1..(loop.place + 1) : b[j] \in Elements(handled)
      <4> SUFFICES ASSUME NEW j \in 1..(loop.place + 1) PROVE b[j] \in Elements(handled)
        OBVIOUS
      <4>1. j = loop.place + 1 \/ j \in 1..loop.place
        BY <1>3
      <4>2. QED
        BY <1>12, <3>1, <4>1
    <3>3. loop.place + 1 <= loop.last
      BY <1>1, <1>3
    <3>4. QED
      BY <1>9, <1>10, <1>11, <2>2, <3>1, <3>2, <3>3 DEF InLoop, b
  <2>3. QED
    BY <2>1, <2>2
<1>14. Innermost(consumer')
  BY <1>3, <1>9, <1>10, <1>11 DEF Innermost, Clears, m, e
<1>15. NoneLost(consumer')
  BY <1>1, <1>11, <1>12 DEF Defined, NoneLost
<1>16. InOrder(consumer')
  <2> SUFFICES ASSUME c.plain PROVE InOrder(consumer')
    BY <1>11 DEF InOrder
  <2> DEFINE h == Len(c.handled)
             n == Len(c.buffers[m])
  <2>1. /\ \A i \in DOMAIN c.handled : c.handled[i] = i
        /\ k = 1 /\ loop.buffer = e /\ Follow(c, loop.last - loop.place)
        /\ \A i \in DOMAIN c.buffers[e] : c.buffers[e][i] = h - loop.place + i
    BY <1>1 DEF Defined, InOrder, k, loop, e
  <2>2. /\ c.pushed = h + (loop.last - loop.place) + n
        /\ \A i \in DOMAIN c.buffers[m] : c.buffers[m][i] = h + (loop.last - loop.place) + i
    BY <2>1 DEF Follow, m
  <2>3. /\ h \in Nat /\ n \in Nat
        /\ DOMAIN c.buffers[m] = 1..n /\ DOMAIN c.buffers[e] = 1..Len(c.buffers[e])
    BY <1>4
  <2>4. Len(c.buffers[e]) \in Nat
    BY <1>4
  <2>5. called = h + 1
    <3>1. loop.place + 1 \in DOMAIN c.buffers[e]
      BY <1>5, <2>1, <2>3
    <3>2. called = h - loop.place + (loop.place + 1)
      BY <2>1, <3>1 DEF called
    <3> HIDE DEF h
    <3>3. QED
      BY <1>3, <2>3, <3>2
  <2>6. \A i \in DOMAIN handled : handled[i] = i
    <3> SUFFICES ASSUME NEW i \in 1..(h + 1) PROVE handled[i] = i
      BY <1>8
    <3>1. i = h + 1 \/ i \in 1..h
      BY <2>3
    <3>2. QED
      BY <1>4, <1>7, <2>1, <2>5, <3>1
  <2> HIDE DEF h, n
  <2>7. /\ h + (loop.last - loop.place) = (h + 1) + (loop.last - (loop.place + 1))
         /\ h - loop.place = (h + 1) - (loop.place + 1)
    BY <1>3, <2>3
  <2>8. /\ c.pushed = (h + 1) + (loop.last - (loop.place + 1)) + n
        /\ \A i \in 1..n : c.buffers[m][i] = (h + 1) + (loop.last - (loop.place + 1)) + i
    BY <2>2, <2>3, <2>7
  <2>9. \A i \in 1..Len(c.buffers[e]) :
            c.buffers[e][i] = (h + 1) - (loop.place + 1) + i
    BY <2>1, <2>3, <2>7
  <2>10. Len(handled) = h + 1 /\ Len(loops) = 1 /\ loops[1] = new
    BY <1>7, <1>10, <2>1 DEF h
  <2>11. Follow(consumer', new.last - new.place)
    BY <1>9, <1>11, <2>3, <2>8, <2>10 DEF Follow, n
  <2>12. QED
    BY <1>9, <1>11, <2>1, <2>3, <2>6, <2>9, <2>10, <2>11 DEF InOrder
<1>17. QED
  BY <1>4, <1>11, <1>13, <1>14, <1>15, <1>16 DEF ConsumerInv, Defined

LEMMA LoopEndsKeeps == ASSUME ConsumerInv, Events!LoopEnds PROVE ConsumerInv'
<1> DEFINE c == consumer
           m == c.m_event_list
           e == c.event_list
           k == Len(c.loops)
           loop == c.loops[k]
           loops == SubSeq(c.loops, 1, k - 1)
           buffers == [c.buffers EXCEPT ![e] = <<>>]
           undefined == \E i \in 1..(k - 1) : c.loops[i].buffer = e
<1>1. c \in ConsumerStates /\ Defined(c) /\ c.loops # <<>> /\ loop.place = loop.last
  BY DEF ConsumerInv, Events!LoopEnds, Events!Last
<1>2. consumer' = [c EXCEPT !.loops = loops, !.buffers = buffers, !.undefined = undefined]
  BY DEF Events!LoopEnds, Events!Front
<1>3. /\ k \in Nat /\ k \in DOMAIN c.loops /\ DOMAIN c.loops = 1..k /\ loop \in LoopType
      /\ loop.place \in Nat /\ loop.last \in Nat /\ loop.buffer \in 1..2
      /\ InLoop(c, loop) /\ Clears(c, loop)
  BY <1>1, LastIs, LoopIs DEF Defined, Innermost
<1>4. /\ m \in 1..2 /\ e \in 1..2 /\ m # e /\ c.buffers \in [1..2 -> Seq(Nat)]
      /\ c.buffers[e] \in Seq(Nat) /\ Len(c.buffers[e]) \in Nat
      /\ DOMAIN c.buffers[e] = 1..Len(c.buffers[e])
      /\ c.loops \in Seq(LoopType)
  BY <1>1, ConsumerIs DEF Defined
<1>5. /\ loops \in Seq(LoopType) /\ Len(loops) = k - 1 /\ k - 1 \in Nat
      /\ \A i \in 1..(k - 1) : loops[i] = c.loops[i]
  BY <1>3, <1>4, SubSeqProperties
<1>6. DOMAIN loops = 1..(k - 1)
  BY <1>5
<1>7. /\ buffers \in [1..2 -> Seq(Nat)] /\ buffers[e] = <<>>
      /\ \A b \in 1..2 : b # e => buffers[b] = c.buffers[b]
  <2>1. <<>> \in Seq(Nat)
    OBVIOUS
  <2>2. QED
    BY <1>4, <2>1
<1>8. undefined \in BOOLEAN
  OBVIOUS
<1> HIDE DEF loops, buffers, undefined, loop
<1>9. /\ consumer' \in ConsumerStates /\ consumer'.buffers = buffers
      /\ consumer'.pushed = c.pushed /\ consumer'.handled = c.handled
      /\ consumer'.m_event_list = m /\ consumer'.event_list = e
      /\ consumer'.loops = loops /\ consumer'.plain = c.plain
      /\ consumer'.undefined = undefined
  BY <1>1, <1>2, <1>5, <1>7, <1>8 DEF ConsumerStates
<1> SUFFICES ASSUME ~undefined PROVE Defined(consumer')
  BY <1>9 DEF ConsumerInv
<1> HIDE DEF c, m, e, k
<1>10. ASSUME NEW i \in DOMAIN loops
       PROVE  loops[i] = c.loops[i] /\ i \in DOMAIN c.loops /\ loops[i].buffer = m
  <2>1. i \in 1..(k - 1) /\ i \in DOMAIN c.loops
    BY <1>3, <1>6
  <2>2. c.loops[i].buffer \in 1..2
    BY <1>1, <2>1, ConsumerIs, LoopIs
  <2>3. c.loops[i].buffer # e
    BY <2>1 DEF undefined
  <2>4. QED
    BY <1>4, <1>5, <2>1, <2>2, <2>3
<1>11. ASSUME NEW i \in DOMAIN loops PROVE InLoop(consumer', loops[i])
  <2>1. InLoop(c, loops[i]) /\ loops[i].buffer = m
    BY <1>1, <1>10 DEF Defined
  <2>2. buffers[m] = c.buffers[m]
    BY <1>4, <1>7
  <2>3. QED
    BY <1>9, <2>1, <2>2 DEF InLoop
<1>12. Innermost(consumer')
  <2> SUFFICES ASSUME loops # <<>> PROVE Clears(consumer', loops[Len(loops)])
    BY <1>9 DEF Innermost
  <2>1. Len(loops) \in DOMAIN loops
    BY <1>5
  <2>2. loops[Len(loops)].buffer = m
    BY <1>10, <2>1
  <2>3. QED
    BY <1>7, <1>9, <2>2 DEF Clears
<1>13. Elements(c.buffers[e]) \subseteq Elements(c.handled)
  <2>1. CASE loop.buffer = e /\ Len(c.buffers[e]) = loop.last
    <3>1. \A i \in 1..loop.last : c.buffers[e][i] \in Elements(c.handled)
      BY <1>1, <1>3, <2>1 DEF InLoop
    <3>2. QED
      BY <1>4, <2>1, <3>1 DEF Elements
  <2>2. CASE c.buffers[e] = <<>>
    BY <2>2, EmptyIs DEF Elements
  <2>3. QED
    BY <1>3, <2>1, <2>2 DEF Clears, e
<1>14. NoneLost(consumer')
  <2> SUFFICES ASSUME NEW n \in 1..c.pushed
               PROVE  \/ n \in Elements(c.handled)
                      \/ n \in Elements(buffers[1]) \/ n \in Elements(buffers[2])
    BY <1>9 DEF NoneLost
  <2>1. n \in Elements(c.handled) \/ n \in Elements(c.buffers[1]) \/ n \in Elements(c.buffers[2])
    BY <1>1 DEF Defined, NoneLost
  <2>2. \A b \in 1..2 : b = e \/ buffers[b] = c.buffers[b]
    BY <1>7
  <2>3. QED
    BY <1>13, <2>1, <2>2
<1>15. InOrder(consumer')
  <2> SUFFICES ASSUME c.plain PROVE InOrder(consumer')
    BY <1>9 DEF InOrder
  <2>1. /\ \A i \in DOMAIN c.handled : c.handled[i] = i
        /\ k = 1 /\ Follow(c, loop.last - loop.place)
    BY <1>1 DEF Defined, InOrder, k, loop
  <2>2. Follow(c, 0)
    <3>1. loop.last - loop.place = 0
      BY <1>1, <1>3
    <3>2. QED
      BY <2>1, <3>1
  <2>3. buffers[m] = c.buffers[m]
    BY <1>4, <1>7
  <2>4. Follow(consumer', 0)
    BY <1>9, <2>2, <2>3 DEF Follow, m
  <2>5. loops = <<>>
    BY <1>5, <2>1
  <2>6. QED
    BY <1>7, <1>9, <2>1, <2>4, <2>5 DEF InOrder
<1>16. QED
  BY <1>4, <1>9, <1>11, <1>12, <1>14, <1>15 DEF Defined

LEMMA EventThrowsKeeps == ASSUME ConsumerInv, Events!EventThrows PROVE ConsumerInv'
<1> DEFINE c == consumer
<1>1. c \in ConsumerStates /\ Defined(c)
  BY DEF ConsumerInv, Events!EventThrows
<1>2. consumer' = [c EXCEPT !.loops = <<>>, !.plain = FALSE]
  BY DEF Events!EventThrows
<1>3. <<>> \in Seq(LoopType)
  OBVIOUS
<1>4. /\ consumer' \in ConsumerStates /\ consumer'.buffers = c.buffers
      /\ consumer'.pushed = c.pushed /\ consumer'.handled = c.handled
      /\ consumer'.m_event_list = c.m_event_list /\ consumer'.event_list = c.event_list
      /\ consumer'.loops = <<>> /\ ~consumer'.plain
  BY <1>1, <1>2, <1>3 DEF ConsumerStates
<1> HIDE DEF c
<1>5. NoneLost(consumer')
  BY <1>1, <1>4 DEF Defined, NoneLost
<1>6. Innermost(consumer') /\ InOrder(consumer')
  BY <1>4 DEF Innermost, InOrder
<1>7. \A i \in DOMAIN consumer'.loops : InLoop(consumer', consumer'.loops[i])
  BY <1>4, EmptyIs
<1>8. QED
  BY <1>1, <1>4, <1>5, <1>6, <1>7 DEF ConsumerInv, Defined

LEMMA ConsumerSteps == ConsumerInv /\ [Events!Next]_(Events!vars) => ConsumerInv'
<1> SUFFICES ASSUME ConsumerInv, [Events!Next]_(Events!vars) PROVE ConsumerInv'
  OBVIOUS
<1>1. CASE Events!PushEvent
  BY <1>1, PushEventKeeps
<1>2. CASE Events!HandleEvent
  BY <1>2, HandleEventKeeps
<1>3. CASE Events!CallEvent
  BY <1>3, CallEventKeeps
<1>4. CASE Events!LoopEnds
  BY <1>4, LoopEndsKeeps
<1>5. CASE Events!EventThrows
  BY <1>5, EventThrowsKeeps
<1>6. CASE UNCHANGED Events!vars
  <2>1. consumer' = consumer
    BY <1>6 DEF Events!vars
  <2>2. QED
    BY <2>1 DEF ConsumerInv, Defined, InLoop, Innermost, Clears, NoneLost, InOrder, Follow
<1>7. QED
  BY <1>1, <1>2, <1>3, <1>4, <1>5, <1>6 DEF Events!Next

LEMMA ConsumerInvHandles == ConsumerInv => Events!EventsHandled
<1> SUFFICES ASSUME ConsumerInv, ~consumer.undefined
             PROVE  /\ 1..consumer.pushed \subseteq
                          Elements(consumer.handled)
                            \cup (Elements(consumer.buffers[1]) \cup Elements(consumer.buffers[2]))
                    /\ consumer.plain =>
                          consumer.handled = [i \in DOMAIN consumer.handled |-> i]
  BY DEF Events!EventsHandled, Events!Waiting, Events!Buffer, Events!ToSet, Elements
<1>1. NoneLost(consumer) /\ InOrder(consumer) /\ consumer \in ConsumerStates
  BY DEF ConsumerInv, Defined
<1>2. ASSUME consumer.plain PROVE consumer.handled = [i \in DOMAIN consumer.handled |-> i]
  <2>1. consumer.handled \in Seq(Nat)
    BY <1>1, ConsumerIs
  <2>2. \A i \in DOMAIN consumer.handled : consumer.handled[i] = i
    BY <1>1, <1>2 DEF InOrder
  <2>3. consumer.handled = [i \in DOMAIN consumer.handled |-> consumer.handled[i]]
    BY <2>1
  <2>4. QED
    BY <2>2, <2>3
<1>3. QED
  BY <1>1, <1>2 DEF NoneLost

(* Whatever the events do, push, throw or call HandleEvent, each event that *)
(* was pushed has been called or is in one of the two lists; and when none *)
(* throws or calls HandleEvent they are called once each, in order, for any *)
(* number of events and calls (CarpEventConsumer::HandleEvent).            *)
THEOREM EventsAreHandled == Events!Spec => []Events!EventsHandled
<1>1. Events!Init => ConsumerInv
  BY ConsumerStarts
<1>2. ConsumerInv /\ [Events!Next]_(Events!vars) => ConsumerInv'
  BY ConsumerSteps
<1>3. ConsumerInv => Events!EventsHandled
  BY ConsumerInvHandles
<1>4. QED
  BY <1>1, <1>2, <1>3, PTL DEF Events!Spec

-----------------------------------------------------------------------------
(* The files of the log.                                                   *)

CONSTANTS DAY, TimeLimit, LineLimit, SetupLimit

VARIABLE log

Lines == INSTANCE Log

LineType == [line : Nat, at : Nat, file : Nat, closed : Nat]

LogStates ==
    [now : Nat, thread : {"none", "runs", "stops"}, list : Seq(Nat), m_file : Nat,
     m_cur_day : Int, closed : Nat, lines : Nat, setups : Nat, executed : Seq(LineType)]

(* The lines executed and those that wait are those logged, in order. *)
InTurn(l) ==
    /\ l.lines = Len(l.executed) + Len(l.list)
    /\ \A i \in DOMAIN l.list : l.list[i] = Len(l.executed) + i

(* m_cur_day is at most an hour after the beginning of the day of the file *)
(* or, when there is none, of the day on which there was one last or none  *)
(* could be opened.                                                        *)
DayOf(l) ==
    /\ DAY <= l.now
    /\ l.m_file # 0 => l.m_file <= l.now /\ l.m_cur_day <= DAY * Lines!Day(l.m_file) + 1
    /\ l.m_file = 0 => \/ l.m_cur_day <= 0
                       \/ l.closed # 0 /\ l.m_cur_day <= DAY * Lines!Day(l.closed) + 1

LineKept(e, i) ==
    /\ e.line = i
    /\ e.file # 0 => Lines!Day(e.at - 1) <= Lines!Day(e.file) /\ e.file <= e.at
    /\ e.file = 0 => e.closed # 0 /\ Lines!Day(e.at - 1) <= Lines!Day(e.closed)

AllKept(l) == \A i \in DOMAIN l.executed : LineKept(l.executed[i], i)

LogSound(l) == l \in LogStates /\ InTurn(l) /\ DayOf(l) /\ AllKept(l)

LogInv == LogSound(log)

DayAssumption == DAY \in Nat /\ DAY > 1

LEMMA DivisionIs ==
    ASSUME NEW b \in Nat, b > 1, NEW x \in Nat
    PROVE  /\ x \div b \in Nat /\ b * (x \div b) \in Nat
           /\ b * (x \div b) <= x /\ x < b * (x \div b) + b
<1>1. x \div b \in Nat
  BY SMT
<1>2. b * (x \div b) <= x
  BY SMT
<1>3. x < b * (x \div b) + b
  BY SMT
<1> DEFINE q == x \div b
<1>4. q \in Nat
  BY <1>1
<1> HIDE DEF q
<1>5. b * q \in Nat
  BY <1>4
<1>6. QED
  BY <1>1, <1>2, <1>3, <1>5 DEF q

LEMMA DayIs ==
    ASSUME DayAssumption, NEW x \in Nat
    PROVE  /\ Lines!Day(x) \in Nat /\ DAY * Lines!Day(x) \in Nat
           /\ DAY * Lines!Day(x) <= x /\ x < DAY * Lines!Day(x) + DAY
<1>1. DAY \in Nat /\ DAY > 1 /\ Lines!Day(x) = x \div DAY
  BY DEF DayAssumption, Lines!Day
<1> DEFINE q == x \div DAY
<1>2. q \in Nat /\ DAY * q \in Nat /\ DAY * q <= x /\ x < DAY * q + DAY
  BY <1>1, DivisionIs
<1>3. Lines!Day(x) = q
  BY <1>1
<1> HIDE DEF q
<1>4. QED
  BY <1>2, <1>3

LEMMA DayAtMost ==
    ASSUME DayAssumption, NEW x \in Nat, NEW q \in Nat, x < DAY * q + DAY
    PROVE  Lines!Day(x) <= q
<1> DEFINE p == Lines!Day(x)
<1>1. p \in Nat /\ DAY * p <= x /\ DAY \in Nat /\ DAY * p \in Nat /\ DAY * q \in Nat
  BY DayIs DEF DayAssumption
<1> HIDE DEF p
<1>2. ASSUME p > q PROVE FALSE
  <2> DEFINE r == p - q - 1
  <2>1. r \in Nat /\ p = q + 1 + r
    BY <1>1, <1>2
  <2> HIDE DEF r
  <2>2. DAY * p = DAY * q + DAY + DAY * r
    BY <1>1, <2>1
  <2>3. DAY * r \in Nat
    BY <1>1, <2>1
  <2> DEFINE a == DAY * p
             b == DAY * q
             d == DAY * r
  <2>4. a = b + DAY + d /\ a <= x /\ x < b + DAY /\ a \in Nat /\ b \in Nat /\ d \in Nat
    BY <1>1, <2>2, <2>3
  <2> HIDE DEF a, b, d
  <2>5. QED
    BY <1>1, <2>4
<1>3. p <= q
  BY <1>1, <1>2
<1>4. QED
  BY <1>3 DEF p

LEMMA DayGrows ==
    ASSUME DayAssumption, NEW x \in Nat, NEW y \in Nat, x <= y
    PROVE  /\ Lines!Day(x) <= Lines!Day(y)
           /\ DAY * Lines!Day(x) <= DAY * Lines!Day(y)
<1> DEFINE p == Lines!Day(x)
           q == Lines!Day(y)
<1>1. /\ p \in Nat /\ q \in Nat /\ y < DAY * q + DAY /\ DAY \in Nat
      /\ DAY * p \in Nat /\ DAY * q \in Nat
  BY DayIs DEF DayAssumption
<1>2. x < DAY * q + DAY
  BY <1>1
<1>3. p <= q
  BY <1>1, <1>2, DayAtMost
<1> HIDE DEF p, q
<1>4. DAY * p <= DAY * q
  <2> DEFINE r == q - p
  <2>1. r \in Nat /\ q = p + r
    BY <1>1, <1>3
  <2> HIDE DEF r
  <2>2. DAY * q = DAY * p + DAY * r /\ DAY * r \in Nat
    BY <1>1, <2>1
  <2>3. QED
    BY <1>1, <2>2
<1>5. QED
  BY <1>3, <1>4 DEF p, q

(* A line written on the day after the file's is written in its first hour. *)
LEMMA DaySame ==
    ASSUME DayAssumption, NEW now \in Nat, NEW x \in Nat, NEW day \in Int,
           day <= DAY * Lines!Day(x) + 1, now - day < DAY, now > 0
    PROVE  Lines!Day(now - 1) <= Lines!Day(x)
<1> DEFINE a == DAY * Lines!Day(x)
<1>1. Lines!Day(x) \in Nat /\ a \in Nat /\ DAY \in Nat /\ day <= a + 1
  BY DayIs DEF DayAssumption
<1> HIDE DEF a
<1>2. now - 1 \in Nat /\ now - 1 < a + DAY
  BY <1>1
<1>3. QED
  BY <1>1, <1>2, DayAtMost DEF a

LEMMA LogIs ==
    ASSUME NEW l \in LogStates
    PROVE  /\ l.now \in Nat /\ l.m_file \in Nat /\ l.m_cur_day \in Int /\ l.closed \in Nat
           /\ l.list \in Seq(Nat) /\ l.executed \in Seq(LineType)
           /\ l.lines \in Nat /\ l.setups \in Nat
           /\ Len(l.list) \in Nat /\ Len(l.executed) \in Nat
           /\ DOMAIN l.list = 1..Len(l.list) /\ DOMAIN l.executed = 1..Len(l.executed)
<1>1. /\ l.now \in Nat /\ l.m_file \in Nat /\ l.m_cur_day \in Int /\ l.closed \in Nat
      /\ l.list \in Seq(Nat) /\ l.executed \in Seq(LineType)
      /\ l.lines \in Nat /\ l.setups \in Nat
  BY DEF LogStates
<1>2. QED
  BY <1>1

LEMMA LogStarts == ASSUME DayAssumption, Lines!Init PROVE LogInv
<1>1. /\ log = [now |-> DAY, thread |-> "none", list |-> <<>>, m_file |-> 0, m_cur_day |-> 0,
                closed |-> 0, lines |-> 0, setups |-> 0, executed |-> <<>>]
      /\ <<>> \in Seq(Nat) /\ <<>> \in Seq(LineType) /\ DAY \in Nat
  BY DEF Lines!Init, Lines!Null, DayAssumption
<1>2. log \in LogStates
  BY <1>1 DEF LogStates
<1>3. InTurn(log) /\ AllKept(log)
  BY <1>1, EmptyIs DEF InTurn, AllKept
<1>4. DayOf(log)
  BY <1>1 DEF DayOf
<1>5. QED
  BY <1>2, <1>3, <1>4 DEF LogInv, LogSound

(* A change of other parts of the state than the lines and the file. *)
LEMMA OthersKeep ==
    ASSUME DayAssumption, NEW l, LogSound(l), NEW m \in LogStates,
           m.list = l.list, m.lines = l.lines, m.executed = l.executed,
           m.m_file = l.m_file, m.m_cur_day = l.m_cur_day, m.closed = l.closed,
           l.now <= m.now
    PROVE  LogSound(m)
<1>1. InTurn(m)
  BY DEF LogSound, InTurn
<1>2. AllKept(m)
  BY DEF LogSound, AllKept
<1>3. DayOf(m)
  <2>1. /\ l.now \in Nat /\ m.now \in Nat /\ l.m_file \in Nat /\ DAY <= l.now
        /\ DAY \in Nat /\ DayOf(l)
    BY LogIs DEF LogSound, DayOf, DayAssumption
  <2>2. m.m_file # 0 => m.m_file <= m.now /\ m.m_cur_day <= DAY * Lines!Day(m.m_file) + 1
    <3>1. SUFFICES ASSUME l.m_file # 0
                   PROVE  l.m_file <= m.now /\ l.m_cur_day <= DAY * Lines!Day(l.m_file) + 1
      OBVIOUS
    <3>2. l.m_file <= l.now /\ l.m_cur_day <= DAY * Lines!Day(l.m_file) + 1
      BY <2>1, <3>1 DEF DayOf
    <3>3. QED
      BY <2>1, <3>2
  <2>3. m.m_file = 0 => \/ m.m_cur_day <= 0
                        \/ m.closed # 0 /\ m.m_cur_day <= DAY * Lines!Day(m.closed) + 1
    BY <2>1 DEF DayOf
  <2>4. DAY <= m.now
    BY <2>1
  <2>5. QED
    BY <2>2, <2>3, <2>4 DEF DayOf
<1>4. QED
  BY <1>1, <1>2, <1>3 DEF LogSound

LEMMA HourKeeps ==
    ASSUME DayAssumption, LogInv, Lines!Hour
    PROVE  LogInv'
<1>1. log \in LogStates /\ log' = [log EXCEPT !.now = log.now + 1]
  BY DEF LogInv, LogSound, Lines!Hour
<1>2. log.now \in Nat /\ log.now + 1 \in Nat /\ log.now <= log.now + 1
  BY <1>1, LogIs
<1>3. log' \in LogStates /\ log'.now = log.now + 1
  BY <1>1, <1>2 DEF LogStates
<1>4. /\ log'.list = log.list /\ log'.lines = log.lines /\ log'.executed = log.executed
      /\ log'.m_file = log.m_file /\ log'.m_cur_day = log.m_cur_day /\ log'.closed = log.closed
  BY <1>1 DEF LogStates
<1>5. QED
  BY <1>2, <1>3, <1>4, OthersKeep DEF LogInv

LEMMA ThreadKeeps ==
    ASSUME DayAssumption, LogInv, Lines!Setup \/ Lines!Shutdown
    PROVE  LogInv'
<1>1. /\ log \in LogStates
      /\ \/ log' = [log EXCEPT !.thread = "runs", !.setups = log.setups + 1]
         \/ log' = [log EXCEPT !.thread = "stops"]
  BY DEF LogInv, LogSound, Lines!Setup, Lines!Shutdown
<1>2. log.now \in Nat /\ log.now <= log.now /\ log.setups + 1 \in Nat
  BY <1>1, LogIs
<1>3. log' \in LogStates
  BY <1>1, <1>2 DEF LogStates
<1>4. /\ log'.list = log.list /\ log'.lines = log.lines /\ log'.executed = log.executed
      /\ log'.m_file = log.m_file /\ log'.m_cur_day = log.m_cur_day /\ log'.closed = log.closed
      /\ log'.now = log.now
  BY <1>1 DEF LogStates
<1>5. QED
  BY <1>2, <1>3, <1>4, OthersKeep DEF LogInv

LEMMA LogLineKeeps ==
    ASSUME LogInv, Lines!LogLine
    PROVE  LogInv'
<1> DEFINE n == log.lines + 1
           list == Append(log.list, n)
<1>1. /\ log \in LogStates /\ InTurn(log) /\ DayOf(log) /\ AllKept(log)
      /\ log' = [log EXCEPT !.list = list, !.lines = n]
  BY DEF LogInv, LogSound, Lines!LogLine
<1>2. /\ log.list \in Seq(Nat) /\ n \in Nat /\ log.lines \in Nat
      /\ Len(log.list) \in Nat /\ Len(log.executed) \in Nat
  BY <1>1, LogIs
<1>3. /\ list \in Seq(Nat) /\ Len(list) = Len(log.list) + 1
      /\ \A i \in DOMAIN list : \/ i \in DOMAIN log.list /\ list[i] = log.list[i]
                                \/ i = Len(log.list) + 1 /\ list[i] = n
  BY <1>2, AppendIs
<1>4. log.lines = Len(log.executed) + Len(log.list)
  BY <1>1 DEF InTurn
<1>5. n = Len(log.executed) + (Len(log.list) + 1)
  <2> DEFINE p == Len(log.executed)
             q == Len(log.list)
             k == log.lines
  <2>1. k = p + q /\ k \in Nat /\ p \in Nat /\ q \in Nat
    BY <1>2, <1>4
  <2> HIDE DEF p, q, k
  <2>2. k + 1 = p + (q + 1)
    BY <2>1
  <2>3. QED
    BY <2>2 DEF p, q, k
<1>6. \A i \in DOMAIN list : list[i] = Len(log.executed) + i
  BY <1>1, <1>3, <1>5 DEF InTurn
<1> HIDE DEF n, list
<1>7. log' \in LogStates
  BY <1>1, <1>2, <1>3 DEF LogStates
<1>8. log'.list = list /\ log'.lines = n
  BY <1>1 DEF LogStates
<1>9. /\ log'.executed = log.executed /\ log'.now = log.now
      /\ log'.m_file = log.m_file /\ log'.m_cur_day = log.m_cur_day /\ log'.closed = log.closed
  BY <1>1 DEF LogStates
<1>10. InTurn(log')
  BY <1>3, <1>5, <1>6, <1>8, <1>9 DEF InTurn
<1>11. DayOf(log') /\ AllKept(log')
  BY <1>1, <1>9 DEF DayOf, AllKept
<1>12. QED
  BY <1>7, <1>10, <1>11 DEF LogInv, LogSound

LEMMA FileClosesKeeps ==
    ASSUME DayAssumption, LogInv, Lines!ShutdownCloses
    PROVE  LogInv'
<1> DEFINE c == IF log.m_file = 0 THEN log.closed ELSE log.now
<1>1. /\ log \in LogStates /\ InTurn(log) /\ DayOf(log) /\ AllKept(log)
      /\ log' = [log EXCEPT !.thread = "none", !.m_file = 0, !.closed = c]
  BY DEF LogInv, LogSound, Lines!ShutdownCloses, Lines!Null
<1>2. /\ log.now \in Nat /\ log.closed \in Nat /\ c \in Nat /\ log.m_file \in Nat
      /\ log.m_cur_day \in Int /\ DAY \in Nat /\ DAY > 1 /\ DAY <= log.now
  BY <1>1, LogIs DEF DayAssumption, DayOf
<1>3. \/ log.m_cur_day <= 0
      \/ c # 0 /\ log.m_cur_day <= DAY * Lines!Day(c) + 1
  <2>1. CASE log.m_file = 0
    BY <1>1, <2>1 DEF DayOf
  <2>2. CASE log.m_file # 0
    <3> DEFINE a == DAY * Lines!Day(log.m_file)
               b == DAY * Lines!Day(log.now)
    <3>1. log.m_file <= log.now /\ log.m_cur_day <= a + 1
      BY <1>1, <2>2 DEF DayOf
    <3>2. a <= b /\ a \in Nat /\ b \in Nat
      BY <1>2, <3>1, DayGrows, DayIs
    <3>3. c = log.now
      BY <2>2
    <3> HIDE DEF a, b, c
    <3>4. log.m_cur_day <= b + 1
      BY <1>2, <3>1, <3>2
    <3>5. log.now # 0
      BY <1>2
    <3>6. QED
      BY <3>3, <3>4, <3>5 DEF b
  <2>3. QED
    BY <2>1, <2>2
<1> HIDE DEF c
<1>4. log' \in LogStates
  BY <1>1, <1>2 DEF LogStates
<1>5. log'.m_file = 0 /\ log'.closed = c
  BY <1>1 DEF LogStates
<1>6. /\ log'.executed = log.executed /\ log'.list = log.list /\ log'.lines = log.lines
      /\ log'.now = log.now /\ log'.m_cur_day = log.m_cur_day
  BY <1>1 DEF LogStates
<1>7. InTurn(log') /\ AllKept(log')
  BY <1>1, <1>6 DEF InTurn, AllKept
<1>8. DayOf(log')
  BY <1>2, <1>3, <1>5, <1>6 DEF DayOf
<1>9. QED
  BY <1>4, <1>7, <1>8 DEF LogInv, LogSound

(* The file into which a line is written: what ChangeFile leaves. *)
LEMMA ChangeFileKeeps ==
    ASSUME DayAssumption, LogInv, NEW l \in Lines!ChangeFile
    PROVE  /\ l \in LogStates /\ DayOf(l)
           /\ l.now = log.now /\ l.thread = log.thread /\ l.setups = log.setups
           /\ l.list = log.list /\ l.lines = log.lines /\ l.executed = log.executed
           /\ l.m_file # 0 => Lines!Day(log.now - 1) <= Lines!Day(l.m_file)
                                /\ l.m_file <= log.now
           /\ l.m_file = 0 => l.closed # 0 /\ Lines!Day(log.now - 1) <= Lines!Day(l.closed)
<1>1. log \in LogStates /\ DayOf(log)
  BY DEF LogInv, LogSound
<1>2. /\ log.now \in Nat /\ log.closed \in Nat /\ log.m_file \in Nat /\ log.m_cur_day \in Int
      /\ DAY \in Nat /\ DAY > 1 /\ DAY <= log.now
  BY <1>1, LogIs DEF DayAssumption, DayOf
<1>3. log.now > 0 /\ log.now # 0 /\ log.now - 1 \in Nat /\ log.now - 1 <= log.now
      /\ log.now <= log.now
  BY <1>2
<1>4. CASE log.now - log.m_cur_day >= DAY
  <2>1. PICK opened \in BOOLEAN, day \in Lines!CalcTodayBeginTime(log.now) :
           l = Lines!WithFile(opened, day)
    BY <1>4 DEF Lines!ChangeFile
  <2> DEFINE b == DAY * Lines!Day(log.now)
             f == IF opened THEN log.now ELSE 0
             c == IF opened THEN log.closed ELSE log.now
  <2>2. b \in Nat
    BY <1>2, DayIs
  <2>3. PICK d \in -1..1 : day = b + d
    BY DEF Lines!CalcTodayBeginTime
  <2>4. f \in Nat /\ c \in Nat /\ (f # 0 => f = log.now) /\ (f = 0 => c = log.now)
    BY <1>2, <1>3
  <2>5. l = [log EXCEPT !.m_file = f, !.closed = c, !.m_cur_day = day]
    BY <2>1 DEF Lines!WithFile, Lines!Null
  <2>6. Lines!Day(log.now - 1) <= Lines!Day(log.now)
    BY <1>2, <1>3, DayGrows
  <2> HIDE DEF f, c, b
  <2>7. day \in Int /\ day <= b + 1
    BY <2>2, <2>3
  <2>8. l \in LogStates
    BY <1>1, <2>4, <2>5, <2>7 DEF LogStates
  <2>9. l.m_file = f /\ l.closed = c /\ l.m_cur_day = day
    BY <1>1, <2>5 DEF LogStates
  <2>10. /\ l.now = log.now /\ l.thread = log.thread /\ l.setups = log.setups
         /\ l.list = log.list /\ l.lines = log.lines /\ l.executed = log.executed
    BY <1>1, <2>5 DEF LogStates
  <2>11. DayOf(l)
    <3>1. DAY <= l.now
      BY <1>2, <2>10
    <3>2. f # 0 => f <= log.now /\ day <= DAY * Lines!Day(f) + 1
      BY <1>3, <2>4, <2>7 DEF b
    <3>3. f = 0 => c # 0 /\ day <= DAY * Lines!Day(c) + 1
      BY <1>3, <2>4, <2>7 DEF b
    <3>4. QED
      BY <2>9, <2>10, <3>1, <3>2, <3>3 DEF DayOf
  <2>12. f # 0 => Lines!Day(log.now - 1) <= Lines!Day(f) /\ f <= log.now
    BY <1>3, <2>4, <2>6
  <2>13. f = 0 => c # 0 /\ Lines!Day(log.now - 1) <= Lines!Day(c)
    BY <1>3, <2>4, <2>6
  <2>14. QED
    BY <2>8, <2>9, <2>10, <2>11, <2>12, <2>13
<1>5. CASE ~(log.now - log.m_cur_day >= DAY)
  <2>1. l = log
    BY <1>5 DEF Lines!ChangeFile
  <2>2. log.now - log.m_cur_day < DAY /\ ~(log.m_cur_day <= 0)
    BY <1>2, <1>5
  <2>3. ASSUME log.m_file # 0
        PROVE  Lines!Day(log.now - 1) <= Lines!Day(log.m_file) /\ log.m_file <= log.now
    <3>1. log.m_file <= log.now /\ log.m_cur_day <= DAY * Lines!Day(log.m_file) + 1
      BY <1>1, <2>3 DEF DayOf
    <3>2. QED
      BY <1>2, <1>3, <2>2, <3>1, DaySame
  <2>4. ASSUME log.m_file = 0
        PROVE  log.closed # 0 /\ Lines!Day(log.now - 1) <= Lines!Day(log.closed)
    <3>1. log.closed # 0 /\ log.m_cur_day <= DAY * Lines!Day(log.closed) + 1
      BY <1>1, <2>2, <2>4 DEF DayOf
    <3>2. QED
      BY <1>2, <1>3, <2>2, <3>1, DaySame
  <2>5. QED
    BY <1>1, <2>1, <2>3, <2>4
<1>6. QED
  BY <1>4, <1>5

LEMMA ExecuteKeeps ==
    ASSUME DayAssumption, LogInv, Lines!Execute
    PROVE  LogInv'
<1>1. PICK l \in Lines!ChangeFile :
         log' = [l EXCEPT !.list = Tail(l.list),
                          !.executed = Append(l.executed, [line |-> Head(log.list), at |-> log.now,
                                                           file |-> l.m_file,
                                                           closed |-> l.closed])]
  BY DEF Lines!Execute
<1> DEFINE e == [line |-> Head(log.list), at |-> log.now, file |-> l.m_file,
                 closed |-> l.closed]
           list == Tail(log.list)
           executed == Append(log.executed, e)
<1>2. /\ l \in LogStates /\ DayOf(l) /\ l.now = log.now
      /\ l.list = log.list /\ l.lines = log.lines /\ l.executed = log.executed
  BY ChangeFileKeeps
<1>3. /\ l.m_file # 0 => Lines!Day(log.now - 1) <= Lines!Day(l.m_file) /\ l.m_file <= log.now
      /\ l.m_file = 0 => l.closed # 0 /\ Lines!Day(log.now - 1) <= Lines!Day(l.closed)
  BY ChangeFileKeeps
<1>4. log' = [l EXCEPT !.list = list, !.executed = executed]
  BY <1>1, <1>2
<1>5. /\ log \in LogStates /\ InTurn(log) /\ AllKept(log) /\ log.list # <<>>
  BY DEF LogInv, LogSound, Lines!Execute
<1>6. /\ log.list \in Seq(Nat) /\ log.executed \in Seq(LineType) /\ log.lines \in Nat
      /\ Len(log.list) \in Nat /\ Len(log.executed) \in Nat
      /\ log.now \in Nat /\ l.m_file \in Nat /\ l.closed \in Nat
  BY <1>2, <1>5, LogIs
<1>7. /\ list \in Seq(Nat) /\ Head(log.list) \in Nat /\ Head(log.list) = log.list[1]
      /\ Len(list) = Len(log.list) - 1 /\ 1 \in DOMAIN log.list
      /\ \A i \in DOMAIN list : i \in Nat /\ i + 1 \in DOMAIN log.list
                                  /\ list[i] = log.list[i + 1]
  BY <1>5, <1>6, TailIs
<1>8. e \in LineType
  BY <1>6, <1>7 DEF LineType
<1>9. Head(log.list) = Len(log.executed) + 1
  BY <1>5, <1>7 DEF InTurn
<1>10. LineKept(e, Len(log.executed) + 1)
  BY <1>3, <1>9 DEF LineKept
<1> HIDE DEF e
<1>11. /\ executed \in Seq(LineType) /\ Len(executed) = Len(log.executed) + 1
       /\ \A i \in DOMAIN executed : \/ i \in DOMAIN log.executed /\ executed[i] = log.executed[i]
                                     \/ i = Len(log.executed) + 1 /\ executed[i] = e
  BY <1>6, <1>8, AppendIs
<1> HIDE DEF list, executed
<1>12. \A i \in DOMAIN executed : LineKept(executed[i], i)
  BY <1>5, <1>10, <1>11 DEF AllKept
<1>13. \A i \in DOMAIN list : list[i] = Len(executed) + i
  <2>1. SUFFICES ASSUME NEW i \in DOMAIN list PROVE list[i] = Len(executed) + i
    OBVIOUS
  <2>2. i \in Nat /\ list[i] = Len(log.executed) + (i + 1)
    BY <1>5, <1>7 DEF InTurn
  <2> DEFINE p == Len(log.executed)
  <2>3. p \in Nat /\ Len(executed) = p + 1
    BY <1>6, <1>11
  <2> HIDE DEF p
  <2>4. p + (i + 1) = (p + 1) + i
    BY <2>2, <2>3
  <2>5. QED
    BY <2>2, <2>3, <2>4 DEF p
<1>14. log.lines = Len(executed) + Len(list)
  <2>1. log.lines = Len(log.executed) + Len(log.list)
    BY <1>5 DEF InTurn
  <2> DEFINE p == Len(log.executed)
             q == Len(log.list)
  <2>2. p \in Nat /\ q \in Nat /\ Len(executed) = p + 1 /\ Len(list) = q - 1
    BY <1>6, <1>7, <1>11
  <2> HIDE DEF p, q
  <2>3. p + q = (p + 1) + (q - 1)
    BY <2>2
  <2>4. QED
    BY <2>1, <2>2, <2>3 DEF p, q
<1>15. log' \in LogStates
  BY <1>2, <1>4, <1>7, <1>11 DEF LogStates
<1>16. log'.list = list /\ log'.executed = executed
  BY <1>2, <1>4 DEF LogStates
<1>17. /\ log'.lines = log.lines /\ log'.now = l.now
       /\ log'.m_file = l.m_file /\ log'.m_cur_day = l.m_cur_day /\ log'.closed = l.closed
  BY <1>2, <1>4 DEF LogStates
<1>18. InTurn(log')
  BY <1>13, <1>14, <1>16, <1>17 DEF InTurn
<1>19. AllKept(log')
  BY <1>12, <1>16 DEF AllKept
<1>20. DayOf(log')
  BY <1>2, <1>17 DEF DayOf
<1>21. QED
  BY <1>15, <1>18, <1>19, <1>20 DEF LogInv, LogSound

LEMMA LogSteps ==
    ASSUME DayAssumption
    PROVE  LogInv /\ [Lines!Next]_(Lines!vars) => LogInv'
<1> SUFFICES ASSUME LogInv, [Lines!Next]_(Lines!vars) PROVE LogInv'
  OBVIOUS
<1>1. CASE Lines!Hour
  BY <1>1, HourKeeps
<1>2. CASE Lines!Setup \/ Lines!Shutdown
  BY <1>2, ThreadKeeps
<1>3. CASE Lines!LogLine
  BY <1>3, LogLineKeeps
<1>4. CASE Lines!ShutdownCloses
  BY <1>4, FileClosesKeeps
<1>5. CASE Lines!Execute
  BY <1>5, ExecuteKeeps
<1>6. CASE UNCHANGED Lines!vars
  <2>1. log' = log
    BY <1>6 DEF Lines!vars
  <2>2. QED
    BY <2>1 DEF LogInv
<1>7. QED
  BY <1>1, <1>2, <1>3, <1>4, <1>5, <1>6 DEF Lines!Next

(* The log writes the lines in the order in which they were logged, each   *)
(* into the file of its day or, in the first hour of a day, of the day     *)
(* before, and drops a line only near a day on which the file could not be *)
(* opened or was closed, for any number of lines and days and for days of  *)
(* any number of hours but one (CarpLog::Execute and ::Shutdown).          *)
THEOREM LinesAreKept ==
    ASSUME DayAssumption
    PROVE  Lines!Spec => []Lines!LinesKept
<1>1. Lines!Init => LogInv
  BY LogStarts
<1>2. LogInv /\ [Lines!Next]_(Lines!vars) => LogInv'
  BY LogSteps
<1>3. LogInv => Lines!LinesKept
  <2> SUFFICES ASSUME LogInv PROVE Lines!LinesKept
    OBVIOUS
  <2>1. \A i \in DOMAIN log.executed : LineKept(log.executed[i], i)
    BY DEF LogInv, LogSound, AllKept
  <2>2. QED
    BY <2>1 DEF Lines!LinesKept, Lines!Null, LineKept
<1>4. QED
  BY <1>1, <1>2, <1>3, PTL DEF Lines!Spec

=============================================================================

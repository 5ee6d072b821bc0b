------------------------------- MODULE Mixer -------------------------------
(***************************************************************************)
(* CarpMixer (carp_mixer.hpp): channels that the main thread fills and the *)
(* audio thread of SDL mixes and clears, under one mutex, and a stream.    *)
(* The function that reports the end of a chunk is called by the audio     *)
(* thread with the mutex held.                                             *)
(*                                                                         *)
(* A chunk is its length in samples and the number of channels it is for,  *)
(* which stands for the sample rate as well; volumes and samples are left  *)
(* out.  Each call of StreamCallback mixes one frame.                      *)
(***************************************************************************)
EXTENDS Integers, Sequences, FiniteSets, FiniteSetsExt

CONSTANTS MixerLimits,      \* see MCServices
          CHANNELS,         \* CARP_MIXER_CHANNELS
          StreamDataLimit   \* samples that wait for the stream

ASSUME MixerAssumption == CHANNELS \in Nat

(* Sizes, loops and numbers of channels are numbers. *)
ASSUME LimitsAssumption ==
    \A limit \in MixerLimits :
        /\ limit.channels \subseteq Nat /\ limit.setups \in Nat
        /\ limit.sizes \in Seq(Nat) /\ limit.plays \in Nat
        /\ limit.loops \subseteq Int /\ limit.streams \subseteq Nat

VARIABLE mixer

vars == <<mixer>>

Free == [chunk |-> 0, cursor |-> 0, loop |-> 0, stopped_cb |-> FALSE, play |-> 0]

(* Chunks and plays are numbered, 0 is null.                               *)
Init ==
  \E limit \in MixerLimits :
    mixer = [limit |-> limit,
             m_setup |-> FALSE, m_channel_num |-> 0,
             m_mutex |-> "nobody",      \* or "main" or "audio"
             m_channel |-> [i \in 1..CHANNELS |-> Free],
             stopped_func |-> [i \in 1..CHANNELS |-> 0],
             m_stream |-> FALSE, m_stream_channels |-> 0,
             m_stream_data |-> 0,       \* its size
             open |-> FALSE,            \* the audio device is
             main |-> "free",           \* or in "setup", "assign" or "shutdown"
             wanted |-> 0,              \* the channels that Setup asks for
             audio |-> "idle",          \* or "called", "reports" or "hangs"
             chunk |-> <<>>,
             setups |-> 0,
             play |-> <<>>,             \* history: how each play has ended
             crashed |-> FALSE]

Main == mixer.main = "free" /\ ~mixer.crashed

Unlocked == mixer.m_mutex = "nobody"

-----------------------------------------------------------------------------
(* Setup and Shutdown.  SDL_CloseAudio waits for a call of StreamCallback  *)
(* to return, in Shutdown with the mutex held.                             *)

Setup ==
    /\ Main /\ mixer.setups < mixer.limit.setups
    /\ \E channels \in mixer.limit.channels :
         mixer' = [mixer EXCEPT !.main = "setup", !.wanted = channels, !.setups = @ + 1]

(* The callback may run before m_channel_num is assigned. *)
SetupOpens ==
    /\ mixer.main = "setup" /\ (mixer.open => mixer.audio = "idle")
    /\ \E opened \in BOOLEAN :
         mixer' = [mixer EXCEPT !.m_setup = FALSE, !.open = opened,
                                !.main = IF opened THEN "assign" ELSE "free"]

SetupAssigns ==
    /\ mixer.main = "assign"
    /\ mixer' = [mixer EXCEPT !.m_setup = TRUE, !.m_channel_num = mixer.wanted,
                              !.main = "free"]

Shutdown ==
    /\ Main /\ mixer.m_setup /\ Unlocked
    /\ mixer' = [mixer EXCEPT !.m_mutex = "main", !.m_setup = FALSE, !.main = "shutdown",
                              !.m_stream = FALSE,
                              !.m_stream_channels = IF mixer.m_stream THEN 0 ELSE @]

ShutdownCloses ==
    /\ mixer.main = "shutdown" /\ mixer.audio = "idle"
    /\ mixer' = [mixer EXCEPT !.m_mutex = "nobody", !.open = FALSE, !.main = "free"]

-----------------------------------------------------------------------------
(* Chunks.                                                                 *)

(* The samples are converted for the device, which has been set up. *)
LoadChunk ==
    /\ Main /\ mixer.m_setup
    /\ Len(mixer.chunk) < Len(mixer.limit.sizes)
    /\ mixer' = [mixer EXCEPT !.chunk =
                   Append(@, [data_len |-> mixer.limit.sizes[Len(mixer.chunk) + 1],
                              channels |-> mixer.m_channel_num, freed |-> FALSE])]

Chunks == {c \in DOMAIN mixer.chunk : ~mixer.chunk[c].freed}

(* The channels are cleared, what they play is over. *)
Stopped(m, channels) ==
    [m EXCEPT !.m_channel = [i \in 1..CHANNELS |-> IF i \in channels THEN Free ELSE @[i]],
              !.play = [p \in DOMAIN @ |->
                          IF \E i \in channels : m.m_channel[i].play = p
                            THEN [@[p] EXCEPT !.over = "stopped"] ELSE @[p]]]

ChannelsOf(m, c) == {i \in 1..CHANNELS : m.m_channel[i].chunk = c}

PlayChunk ==
    /\ Main /\ mixer.m_setup /\ Unlocked
    /\ Len(mixer.play) < mixer.limit.plays
    /\ \E c \in Chunks, loop \in mixer.limit.loops, reported \in BOOLEAN :
         LET free == {i \in 1..CHANNELS : mixer.m_channel[i].chunk = 0}
             number == Len(mixer.play) + 1
         IN  /\ mixer.chunk[c].channels = mixer.m_channel_num /\ free # {}
             /\ mixer' = [mixer EXCEPT
                  !.m_channel[Min(free)] = [chunk |-> c, cursor |-> 0, loop |-> loop,
                                            stopped_cb |-> reported, play |-> number],
                  !.play = Append(@, [over |-> "no", reports |-> 0, cb |-> reported])]

FreeChunk ==
    /\ Main /\ Unlocked
    /\ \E c \in Chunks :
         mixer' = [Stopped(mixer, ChannelsOf(mixer, c)) EXCEPT !.chunk[c].freed = TRUE]

StopChunk ==
    /\ Main /\ Unlocked
    /\ \E c \in Chunks : mixer' = Stopped(mixer, ChannelsOf(mixer, c))

StopChannel ==
    /\ Main /\ Unlocked
    /\ \E i \in 1..CHANNELS : mixer' = Stopped(mixer, {i})

-----------------------------------------------------------------------------
(* The stream.  A second of samples is put into it at a time, and a second *)
(* is as many as there are channels.                                       *)

StartStream ==
    /\ Main /\ mixer.m_setup /\ Unlocked
    /\ \E channels \in mixer.limit.streams, made \in BOOLEAN :
         mixer' = [mixer EXCEPT !.m_stream = made, !.m_stream_channels = channels,
                                !.m_stream_data = IF mixer.m_stream THEN 0 ELSE @]

(* Before StartStream and after StopStream the size is divided by zero.    *)
PushStreamSample ==
    /\ Main /\ mixer.limit.streams # {}
    /\ mixer.m_stream_data < StreamDataLimit
    /\ LET size == mixer.m_stream_data + mixer.m_stream_channels
       IN  IF mixer.m_stream_channels = 0
             THEN mixer' = [mixer EXCEPT !.crashed = TRUE]
           ELSE IF size % mixer.m_stream_channels # 0
             THEN mixer' = [mixer EXCEPT !.m_stream_data = size]
           ELSE Unlocked /\ mixer' = [mixer EXCEPT !.m_stream_data =
                                         IF mixer.m_stream THEN 0 ELSE size]

StopStream ==
    /\ Main /\ Unlocked /\ mixer.m_stream
    /\ mixer' = [mixer EXCEPT !.m_stream = FALSE, !.m_stream_channels = 0, !.m_stream_data = 0]

-----------------------------------------------------------------------------
(* StreamCallback, on the audio thread.                                    *)

AtEnd(m, i) ==
    LET c == m.m_channel[i]
    IN  c.chunk # 0 /\ c.cursor >= m.chunk[c.chunk].data_len

(* loop <= 0 is endless. *)
Ending(m) == {i \in 1..CHANNELS : AtEnd(m, i) /\ m.m_channel[i].loop = 1}

Rewound(c) ==
    [c EXCEPT !.cursor = 0, !.loop = IF c.loop <= 0 THEN c.loop ELSE c.loop - 1]

Collect(m) ==
    [m EXCEPT
       !.m_channel = [i \in 1..CHANNELS |->
                        IF i \in Ending(m) THEN Free
                        ELSE IF AtEnd(m, i) THEN Rewound(@[i]) ELSE @[i]],
       !.stopped_func = [i \in 1..CHANNELS |->
                           IF i \in Ending(m) /\ m.m_channel[i].stopped_cb
                             THEN m.m_channel[i].play ELSE @[i]],
       !.play = [p \in DOMAIN @ |->
                   IF \E i \in Ending(m) : m.m_channel[i].play = p
                     THEN [@[p] EXCEPT !.over = "played"] ELSE @[p]]]

Mixed(m) ==
    [m EXCEPT !.m_channel = [i \in 1..CHANNELS |->
       LET c == @[i]
           left == m.chunk[c.chunk].data_len - c.cursor
       IN  IF c.chunk # 0 /\ m.m_channel_num # 0 /\ left >= m.m_channel_num
             THEN [c EXCEPT !.cursor = @ + m.chunk[c.chunk].channels] ELSE c]]

DeviceCalls ==
    /\ mixer.open /\ mixer.audio = "idle" /\ ~mixer.crashed
    /\ mixer' = [mixer EXCEPT !.audio = "called"]

Reports(m) == {i \in 1..CHANNELS : m.stopped_func[i] # 0}

StreamCallback ==
    /\ mixer.audio = "called" /\ Unlocked
    /\ LET m == Collect(mixer)
       IN  mixer' = IF Reports(m) = {} THEN [Mixed(m) EXCEPT !.audio = "idle"]
                    ELSE [m EXCEPT !.audio = "reports", !.m_mutex = "audio"]

(* Mutant: the function stays in the array. *)
Noted(m, i) == m

Cleared(m, i) == [m EXCEPT !.stopped_func[i] = 0]

(* A function that calls the mixer's locks the mutex again and hangs.      *)
Report ==
    /\ mixer.audio = "reports"
    /\ LET i == Min(Reports(mixer))
           m == Cleared([mixer EXCEPT !.play[mixer.stopped_func[i]].reports = @ + 1], i)
       IN  mixer' \in {[m EXCEPT !.audio = "hangs"],
                       IF Reports(m) \ 1..i # {} THEN m
                       ELSE [Mixed(m) EXCEPT !.audio = "idle", !.m_mutex = "nobody"]}

Next ==
    \/ Setup \/ SetupOpens \/ SetupAssigns \/ Shutdown \/ ShutdownCloses
    \/ LoadChunk \/ PlayChunk \/ FreeChunk \/ StopChunk \/ StopChannel
    \/ StartStream \/ PushStreamSample \/ StopStream
    \/ DeviceCalls \/ StreamCallback \/ Report

Spec == Init /\ [][Next]_vars

-----------------------------------------------------------------------------
(* A play is in one channel until it is over, whatever else is played,     *)
(* stopped or freed, and with a chunk that is not freed; when it has been  *)
(* played to its end, and only then, it is reported, once                  *)
(* (carp_mixer.hpp:281).                                                   *)
PlaysAccounted ==
    \A p \in DOMAIN mixer.play :
      LET play == mixer.play[p]
          in == {i \in 1..CHANNELS : mixer.m_channel[i].play = p}
      IN  /\ Cardinality(in) = (IF play.over = "no" THEN 1 ELSE 0)
          /\ \A i \in in : ~mixer.chunk[mixer.m_channel[i].chunk].freed
          /\ play.reports <= (IF play.over = "played" /\ play.cb THEN 1 ELSE 0)
          /\ mixer.audio \in {"idle", "called"} /\ play.over = "played" /\ play.cb =>
               play.reports = 1
=============================================================================

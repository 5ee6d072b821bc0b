---------------------------- MODULE MCAlgorithms ----------------------------
(***************************************************************************)
(* The timer on its heap, the event dispatcher, the grid search, the string*)
(* set, messages, texts, JSON, what crypto does, conversions of audio and  *)
(* the robot's graph, with the bounds under which they are checked.  They  *)
(* share nothing, so `part` tells which of them takes the steps of a       *)
(* behaviour: the first two stay as one of their initial states when it is *)
(* another, and the others are not there.                                  *)
(***************************************************************************)
EXTENDS Timer, EventDispatcher

(* Limits of the timer: six timers in the heap; ids used again; a clock    *)
(* that is set back; and timers that come back.                            *)
Timing(count, latest, delays, loops, intervals, frames, clocks) ==
    [adds |-> count, time |-> latest, delays |-> delays, loops |-> loops,
     intervals |-> intervals, frames |-> frames, clocks |-> clocks]

SmallTimings ==
    {Timing(6, 0, {0, 1}, {1}, {1}, {}, {}), Timing(7, 0, {0}, {1}, {1}, {}, {}),
     Timing(2, 4, {-1, 1}, {0, 2}, {0, 2}, {1, 3}, {0}),
     Timing(3, 3, {0, 2}, {0, 2}, {1}, {1, 2}, {})}

-----------------------------------------------------------------------------
(* Maps for the search: every map of three by three, searched from a       *)
(* corner, a side and the middle; and larger ones with walls, of which two *)
(* cells are changed before a search.  A start and a goal are out of them. *)
Map(width, height, blocked, starts, ends, edits) ==
    [width |-> width, height |-> height, blocked |-> blocked, starts |-> starts,
     ends |-> ends, edits |-> edits]

SquareOf(n) == (0..(n - 1)) \X (0..(n - 1))

SmallMaps ==
    {Map(3, 3, blocked, {<<0, 0>>, <<1, 1>>, <<1, 2>>}, SquareOf(3), 0) :
       blocked \in SUBSET SquareOf(3)}
      \cup {Map(4, 4, {<<1, 1>>, <<2, 1>>}, {<<0, 0>>, <<3, 0>>}, SquareOf(4), 2),
            Map(4, 4, {}, {<<-1, -1>>, <<1, 2>>}, SquareOf(4), 2),
            Map(5, 3, {<<1, 0>>, <<1, 1>>, <<3, 2>>, <<3, 1>>}, {<<0, 0>>},
                {<<2, 0>>, <<4, 0>>, <<4, 2>>, <<5, 1>>}, 2)}

(* Strings: three digits long, so that Combine meets grandchildren, and of *)
(* three digits, so that a node is split into three.                       *)
SmallStrings ==
    {[digits |-> {2, 3}, length |-> 3, calls |-> 5],
     [digits |-> {2, 3, 4}, length |-> 2, calls |-> 6]}

-----------------------------------------------------------------------------
(* Messages: flat ones, of which the reader knows more, fewer or as many   *)
(* fields; and messages within messages and in lists, in three versions.   *)
(* Types of fields (carp_message.hpp): *)
Char == [kind |-> "char"]
Int32 == [kind |-> "int"]
String == [kind |-> "string"]
ListOf(type) == [kind |-> "list", of |-> type]
MessageOf(fields) == [kind |-> "message", fields |-> fields]

Case(sender, reader, value) ==
    [sender |-> MessageOf(sender), reader |-> MessageOf(reader), value |-> value]

First(n, s) == SubSeq(s, 1, n)

FlatCases ==
    {Case(First(n, fields), First(m, fields), First(n, <<1, number, string, 2>>)) :
       fields \in {<<Char, Int32, String, Int32>>}, n \in 0..4, m \in 0..4,
       number \in {0, 1}, string \in {<<>>, <<1>>, <<1, 2>>}}

Version(n) == MessageOf(First(n, <<Int32, String, ListOf(MessageOf(<<Int32>>))>>))

Value(n) ==
    {First(n, <<1, string, list>>) :
       string \in {<<>>, <<1>>}, list \in {<<>>, <<<<2>>, <<3>>>>}}

NestedFields(n) == <<Version(n), ListOf(Version(n)), Char>>

NestedCases ==
    UNION {{Case(NestedFields(n), NestedFields(m), <<a, <<b, a>>, 1>>) :
              a \in Value(n), b \in Value(n)} : n \in 1..3, m \in 1..3}

SmallMessages == <<FlatCases, NestedCases>>
-----------------------------------------------------------------------------
(* Strings to be split and escaped, bytes at the bounds of UTF-8's words,  *)
(* and tables of up to two cells.                                          *)
Words(S, n) == UNION {[1..k -> S] : k \in 0..n}

TextCases ==
    {[kind |-> "split", list |-> list, split |-> split] :
       list \in Words(Words({97, 98}, 2), 3), split \in {<<44>>, <<58, 59>>, <<59, 59>>}}
      \cup {[kind |-> "utf8", bytes |-> bytes] :
              bytes \in Words({65, 128, 159, 160, 191, 193, 194, 224, 237, 240, 244, 245}, 3)
                         \cup {w \o <<65>> : w \in [1..4 -> {143, 144, 191, 239, 240, 243, 244, 248}]}}
      \cup {[kind |-> "escape", a |-> a, b |-> b] :
              a \in Words({9, 10, 13, 34, 92, 116}, 2), b \in Words({9, 34, 92, 110, 114, 116}, 3)}
      \cup {[kind |-> "csv", table |-> table, eol |-> eol, end |-> end] :
              table \in LET cells == Words({13, 10, 34, 44, 97}, 2) IN
                        {<<<<a>>>> : a \in cells} \cup {<<<<a, b>>>> : a \in cells, b \in cells}
                          \cup {<<<<a>>, <<b>>>> : a \in cells, b \in cells},
              eol \in {<<10>>, <<13, 10>>}, end \in BOOLEAN}
-----------------------------------------------------------------------------
(* Memory of up to two blocks of three words with two bytes each and a byte*)
(* more, under keys that are filled up or not; and bytes for Base64.       *)
CryptoCases ==
    {[kind |-> "xxtea", memory |-> First(n, memory), key |-> key] :
       n \in 0..13, key \in {<<>>, <<1, 9>>, <<1, 2, 3, 4, 5, 6, 7, 8>>},
       memory \in {[i \in 1..13 |-> 0], [i \in 1..13 |-> 15], [i \in 1..13 |-> (i * i * 7) % 16]}}
      \cup {[kind |-> "base64", bytes |-> bytes] : bytes \in Words({0, 1, 77, 128, 255}, 4)}
-----------------------------------------------------------------------------
(* Classes of JSON fields, of which a reader has more, fewer or others.    *)
Plain(kind) == [kind |-> kind]
Number(bits, signed) == [kind |-> "number", bits |-> bits, signed |-> signed, written |-> bits]
(* Of 24 bits, where an int has 16.                                        *)
Long(signed) == [kind |-> "number", bits |-> 24, signed |-> signed, written |-> 16]
Of(kind, type) == [kind |-> kind, of |-> type]
Field(n, type) == [name |-> <<n>>, type |-> type]
Class(fields) == [kind |-> "class", fields |-> fields]
SplitClass(fields) == [kind |-> "split", fields |-> fields, split |-> <<58>>]
SplitVector(type, separator) == [kind |-> "splits", of |-> type, split |-> <<separator>>]

Sender(type, values) == [type |-> type, values |-> values]

JsonCase(way, reader, senders) == [way |-> way, reader |-> reader, senders |-> senders]

(* Each field beside another: read as itself and as every other type.      *)
FieldTypes ==
    <<Number(8, TRUE), Number(16, FALSE), Long(TRUE), Long(FALSE), Plain("double"), Plain("bool"), Plain("string"),
      Of("list", Number(8, TRUE)), Of("set", Number(8, TRUE)), Of("array", Plain("string")),
      Of("map", Of("list", Number(16, FALSE))), Of("int map", Plain("string")),
      Class(<<Field(1, Number(16, TRUE)), Field(2, Of("list", Plain("string")))>>)>>

FieldValues ==
    <<{0, 1, -128}, {0, 300, 65535}, {0, 32768, -70000}, {7, 65535, 65537}, {0, 5, -3}, BOOLEAN, {<<>>, <<97>>, <<97, 0, 98>>},
      {<<>>, <<1, 1, -2>>}, {{}, {1, 2}}, {<<>>, <<<<97>>, <<>>>>},
      {<<>>, [k \in {<<97>>, <<98>>} |-> <<1, 300>>]}, {<<>>, [k \in {-1, 10} |-> <<97>>]},
      {<<7, <<<<97>>, <<98>>>>>>, <<0, <<>>>>}>>

NestedClass(n) ==
    Class(SubSeq(<<Field(3, Number(8, TRUE)), Field(1, FieldTypes[13]), Field(2, FieldTypes[10])>>, 1, n))

NestedValue(n) == {SubSeq(<<a, b, c>>, 1, n) : a \in {0, 5}, b \in FieldValues[13], c \in FieldValues[10]}

SplitFields(n) ==
    SplitClass(SubSeq(<<Field(1, Plain("string")), Field(2, Number(16, TRUE)),
                        Field(3, Plain("bool"))>>, 1, n))

SplitValues(n) ==
    {SubSeq(<<a, b, c>>, 1, n) : a \in {<<>>, <<97>>, <<97, 98>>}, b \in {0, -7}, c \in BOOLEAN}

SwappedFields == SplitClass(<<Field(2, Plain("string")), Field(1, Number(16, TRUE))>>)

(* Sets of cases with values of one kind each.                             *)
JsonCases ==
    [s \in DOMAIN FieldTypes |->
        {JsonCase("json", Class(<<Field(k, FieldTypes[r]), Field(3, FieldTypes[r])>>),
                  <<Sender(Class(<<Field(1, FieldTypes[s]), Field(2, FieldTypes[s])>>),
                           {<<v, w>> : v \in FieldValues[s], w \in FieldValues[s]})>>) :
            r \in DOMAIN FieldTypes, k \in 1..2}]
      \o <<{JsonCase(way, NestedClass(m), [n \in 1..3 |-> Sender(NestedClass(n), NestedValue(n))]) :
               way \in {"json", "value", "map"}, m \in 1..3}>>
      \o <<{JsonCase("split", SplitFields(m),
                     [n \in 1..3 |-> Sender(SplitFields(n), SplitValues(n))]) : m \in 1..3}>>
      \o <<{JsonCase("split", SwappedFields, <<Sender(SwappedFields, {<<<<97>>, 5>>, <<<<>>, 0>>})>>)}>>
      \o [n \in 1..2 |->
            {JsonCase("split", SplitVector(SplitFields(m), 124),
                      <<Sender(SplitVector(SplitFields(n), 124),
                               {[own |-> own, base |-> <<>>] : own \in Words(SplitValues(n), 2)})>>) :
               m \in 1..2}]
-----------------------------------------------------------------------------
(* Samples, packets, and files of each kind: whole, cut, and not what they *)
(* should be.  A WAV head is three bytes with the length of the format, the*)
(* format, and three with the length of the data.                          *)
SamplesToBeCoded ==
    {-32768, 32767} \cup {n * 37 : n \in -885..885}
      \cup {s * 2^k + d : s \in {-1, 1}, k \in 0..14, d \in -1..1}

PacketsToBeSent ==
    [p : {0}, x : {1}, m : {0, 1}, pt : {8}, seq : {0, 258}, timestamp : {<<1, 2, 3, 4>>},
     ssrc : {<<255, 0, 0, 9>>}, csrc : Words({<<0, 0, 1, 5>>}, 2), reserved : {0, 772},
     extension : {<<>>, <<1, 2, 3, 4>>}, payload : Words({0, 1, 3}, 2)]
      \cup [p : {0}, x : {0}, m : {1}, pt : {18}, seq : {7}, timestamp : {<<0, 0, 0, 0>>},
            ssrc : {<<0, 0, 0, 1>>}, csrc : Words({<<9, 0, 1, 5>>}, 1), reserved : {0},
            extension : {<<>>}, payload : Words({0, 2}, 4)]

AudioFile(file, from, to, result) ==
    [kind |-> "file", file |-> file, from |-> from, to |-> to, fails |-> "nothing", wav |-> "PCM",
     data |-> <<>>, packets |-> <<>>, mixed |-> FALSE, result |-> result]

Speech(n) == [i \in 1..n |-> (i * 53) % 256]

WavHead(format, length) == <<82, 70, Len(format)>> \o format \o <<68, 65, length>>

WavFile(format, wav, n, length, to) ==
    [AudioFile(WavHead(format, length) \o Speech(n), "WAV", to, "OK") EXCEPT
       !.wav = wav, !.data = Speech(IF n < length THEN n ELSE length)]

(* A-law bytes with what they mean, so that the quiet of one source and the*)
(* loud of another add up.                                                 *)
Quiet == <<<<213, 8>>, <<212, 24>>>>
Loud == <<<<229, 1056>>, <<228, 1120>>, <<231, 1184>>>>

Voice(source, i) == IF source = 1 THEN Quiet[1 + (i % 2)] ELSE Loud[1 + (i % 3)]

RtpPackage(first, pt, source, payload) ==
    <<12 + Len(payload), 0, first, pt, 0, 1, 0, 0, 0, 0, 0, 0, 0, source>> \o payload

(* Packets of sources in an order, of one or two samples.                  *)
Conference(order, to) ==
    LET voices(i) == [j \in 1..(1 + (i % 2)) |-> Voice(order[i], i + j)]
        package(i) == RtpPackage(128, 8, order[i], [j \in DOMAIN voices(i) |-> voices(i)[j][1]])
        joined[n \in 0..Len(order)] == IF n = 0 THEN <<>> ELSE joined[n - 1] \o package(n)
    IN  [AudioFile(joined[Len(order)], "RTP", to, "OK") EXCEPT
           !.packets = [i \in DOMAIN order |-> [j \in DOMAIN voices(i) |-> voices(i)[j][2]]],
           !.mixed = \E i \in DOMAIN order : order[i] # order[1]]

Strange ==
    RtpPackage(64, 8, 1, <<1>>) \o RtpPackage(128, 3, 1, <<1>>) \o RtpPackage(160, 8, 1, <<>>)

AudioCases ==
    <<{[kind |-> "sample", pcm |-> pcm] : pcm \in SamplesToBeCoded},
      {[kind |-> "packet", packet |-> packet, padding |-> padding] :
          packet \in PacketsToBeSent, padding \in 0..2},
      {AudioFile(Speech(n), from, to, "OK") :
          n \in 0..10, from \in {"PCM", "PCMA", "PCMU", "G729"},
          to \in {"PCM", "PCMA", "PCMU", "G729", "WAV"}}
        \cup {WavFile(<<format, channel, size * channel, 0>> \o more, wav, n, length, to) :
                 <<format, size, wav>> \in
                    {<<1, 2, "PCM">>, <<16, 2, "PCM">>, <<6, 1, "PCMA">>, <<7, 1, "PCMU">>},
                 channel \in 1..2, more \in {<<>>, <<0>>, <<0, 0>>}, n \in {0, 6, 7, 10},
                 length \in {0, 4, 7, 20}, to \in {"PCM", "WAV"}}
        \cup {AudioFile(WavHead(format, 4) \o Speech(4), "WAV", "PCM", result) :
                 <<format, result>> \in
                    {<<<<>>, "DECODER_DECODE_FAILED">>, <<<<1, 3, 6>>, "DECODER_READ_HEAD_FAILED">>,
                     <<<<6, 1, 2, 0>>, "DECODER_READ_HEAD_FAILED">>,
                     <<<<2, 1, 2, 0>>, "DECODER_READ_HEAD_FAILED">>,
                     <<[i \in 1..7 |-> 1], "DECODER_READ_HEAD_FAILED">>}}
        \cup {AudioFile(SubSeq(WavHead(<<1, 1, 2, 0>>, 4), 1, n), "WAV", "PCM", "DECODER_READ_FILE_FAILED") :
                 n \in 0..9}
        \cup {AudioFile(WavHead(<<1, 1, 2, 0>>, 4), "WAV", "MP3", "ENCODER_CREATE_FAILED"),
              AudioFile(Speech(4), "PCM", "RTP", "ENCODER_CREATE_FAILED"),
              AudioFile(Speech(4), "MP3", "PCM", "DECODER_CREATE_FAILED"),
              [AudioFile(Speech(4), "PCM", "PCM", "SRC_FILE_OPEN_FAILED") EXCEPT !.fails = "src"],
              [AudioFile(Speech(4), "PCM", "PCM", "DST_FILE_OPEN_FAILED") EXCEPT !.fails = "dst"]}
        \cup {Conference(order, to) : order \in Words({1, 2}, 7), to \in {"PCM", "WAV"}}
        \cup {[Conference([i \in 1..n |-> 1], "PCM") EXCEPT !.file = Strange \o @ \o Strange] :
                 n \in {1, 6}}>>
-----------------------------------------------------------------------------
(* Nodes of the robot's graph, each with what it is computed from; tensors *)
(* and parameters; and what is built of them: a node of each kind with one *)
(* input, two of every shape, a layer with its loss, the gate of an LSTM.  *)
RobotNode(op, args, with) == [op |-> op, args |-> args, with |-> with]

RobotTensor(d, s) ==
    [dim |-> [d |-> d, total |-> Len(s)],
     value |-> [c \in (0..(d[1] - 1)) \X (0..(IF Len(d) > 1 THEN d[2] - 1 ELSE 0)) \X {0} |->
                  <<s[1 + c[1] + d[1] * c[2]] % 42, 0>>]]

RobotCase(nodes, params, inputs, labels, count) ==
    [nodes |-> nodes, params |-> params, inputs |-> inputs, labels |-> labels,
     calls |-> count, m_learning_rate |-> 3]

Parameter(p) == RobotNode("Parameter", <<>>, <<p>>)

(* A parameter through a node, squared, and added to itself. *)
OneInput(op, with, d, s, count) ==
    RobotCase(<<Parameter(1), RobotNode(op, <<1>>, with), RobotNode("Square", <<2>>, <<0>>),
                RobotNode("CwiseSum", <<3, 3>>, <<0>>)>>, <<RobotTensor(d, s)>>, <<>>, <<0>>, count)

OneInputs ==
    {OneInput(op, <<2>>, d, <<4, -9>>, 2) :
       op \in {"Negate", "ConstantPlusX", "ConstantMinusX", "ConstScalarMultiply", "Sigmoid", "Tanh",
               "Rectify", "Softmax", "LogSoftmax", "StdElements"}, d \in {<<2>>, <<1, 2>>}}

(* Two parameters of shapes that are broadcast to each other. *)
TwoInputs ==
    {RobotCase(<<Parameter(1), Parameter(2), RobotNode(op, <<1, 2>>, <<0>>),
                 RobotNode("CwiseSum", <<3, 1>>, <<0>>), RobotNode("Square", <<4>>, <<0>>)>>,
               <<RobotTensor(d[1], SubSeq(<<1, 5, 3, 8>>, 1, d[2])),
                 RobotTensor(d[3], SubSeq(<<2, 3, 4, 6>>, 1, d[4]))>>, <<>>, <<0>>, 1) :
       op \in {"CwiseSum", "CwiseMultiply", "CwiseQuotient", "MatrixMultiply"},
       d \in {<<<<2>>, 2, <<2>>, 2>>, <<<<2>>, 2, <<1>>, 1>>, <<<<2, 2>>, 4, <<2>>, 2>>,
              <<<<2, 2>>, 4, <<1, 2>>, 2>>, <<<<1, 2>>, 2, <<2, 1>>, 2>>, <<<<2>>, 2, <<2, 2>>, 4>>}}

(* A layer and its loss; a layer of an LSTM's gates, with the gates picked *)
(* out of it and added; and the others, some of which Dim or memory refuse.*)
Layer == <<Parameter(1), Parameter(2), RobotNode("Input", <<>>, <<1>>)>>

Others ==
    {RobotCase(Layer \o nodes, <<RobotTensor(<<2, 2>>, <<1, 2, 0, 5>>), RobotTensor(<<2>>, <<3, 1>>)>>,
               <<RobotTensor(<<2>>, <<4, 3>>)>>, labels, count) :
       nodes \in {<<RobotNode("MatrixMultiply", <<1, 3>>, <<0>>), RobotNode("CwiseSum", <<4, 2>>, <<0>>),
                   RobotNode("PickNegLogSoftmax", <<5>>, <<0>>)>>,
                 <<RobotNode("AffineTransform", <<2, 1, 3, 1, 2>>, <<0>>),
                   RobotNode("PickElement", <<4>>, <<0>>), RobotNode("Square", <<5>>, <<0>>)>>},
       labels \in {<<0>>, <<1, 0, 2>>}, count \in {2}}
      \cup
    {RobotCase(Layer \o nodes, <<RobotTensor(<<2, 2>>, <<1, 2, 0, 5>>), RobotTensor(<<2>>, <<3, 1>>)>>,
               <<RobotTensor(<<2>>, <<4, 3>>)>>, <<0>>, 2) :
       nodes \in {<<RobotNode("AffineTransform", <<2, 1, 1>>, <<0>>), RobotNode("PickRange", <<4>>, <<1, 2, 1>>),
                   RobotNode("ConstantPlusX", <<5>>, <<2>>), RobotNode("Square", <<6>>, <<0>>)>>,
                 <<RobotNode("Reshape", <<1>>, <<4>>), RobotNode("MeanElements", <<4>>, <<1>>),
                   RobotNode("Square", <<5>>, <<0>>)>>,
                 <<RobotNode("MeanElements", <<1>>, <<0>>), RobotNode("Square", <<4>>, <<0>>)>>,
                 <<RobotNode("ConstParameter", <<>>, <<2>>), RobotNode("CwiseSum", <<4, 2>>, <<0>>),
                   RobotNode("Square", <<5>>, <<0>>), RobotNode("Concatenate", <<6>>, <<0>>)>>,
                 <<RobotNode("Concatenate", <<2, 3>>, <<0>>)>>,
                 <<RobotNode("PickRange", <<2>>, <<0, 1, 0>>), RobotNode("PickRange", <<2>>, <<1, 2, 0>>),
                   RobotNode("CwiseMultiply", <<4, 5>>, <<0>>)>>,
                 <<RobotNode("PickRange", <<1>>, <<0, 1, 0>>), RobotNode("PickRange", <<2>>, <<0, 1, 0>>),
                   RobotNode("CwiseSum", <<4, 5>>, <<0>>)>>,
                 <<RobotNode("Reshape", <<2>>, <<1, 1, 2>>), RobotNode("Softmax", <<4>>, <<0>>)>>,
                 <<RobotNode("Reshape", <<2>>, <<1, 2, 1>>), RobotNode("Softmax", <<4>>, <<0>>),
                   RobotNode("Square", <<2>>, <<0>>)>>,
                 <<RobotNode("Reshape", <<2>>, <<1, 2, 1>>), RobotNode("Softmax", <<4>>, <<0>>)>>,
                 <<RobotNode("Reshape", <<2>>, <<1, 2, 1>>), RobotNode("LogSoftmax", <<4>>, <<0>>),
                   RobotNode("Square", <<2>>, <<0>>)>>,
                 <<RobotNode("BinaryLogLoss", <<2>>, <<0>>), RobotNode("Square", <<2>>, <<0>>)>>}}
      \cup
    {RobotCase(Layer \o <<RobotNode("PickElement", <<2>>, <<0>>), RobotNode("Square", <<2>>, <<0>>)>>,
               <<RobotTensor(<<1>>, <<5>>), RobotTensor(<<2>>, <<3, 1>>)>>,
               <<RobotTensor(<<2>>, <<4, 3>>)>>, <<0, 2>>, 3)}

RobotCases == OneInputs \cup TwoInputs \cup Others

-----------------------------------------------------------------------------
(* The parts, and what takes the steps of a behaviour.                     *)

VARIABLES part, jps, set, message, text, json, crypto, audio, robot

Grid == INSTANCE SquareJPS WITH Maps <- SmallMaps

Strings == INSTANCE StringSet WITH StringLimits <- SmallStrings

Messages == INSTANCE Message WITH Cases <- SmallMessages, SIZEOF_INT <- 2, RewriteLimit <- 1

Texts == INSTANCE Text

Jsons == INSTANCE Json

(* Words of two bytes of 16 values, blocks of 8 bytes and lengths of two   *)
(* halves of 128 and 2 values.                                             *)
Ciphers ==
    INSTANCE Crypto WITH MessageLimit <- 36, XXTEA_BLOCK_SIZE <- 3, SIZEOF_INT <- 2, BYTE <- 16,
                         DELTA <- 185, BLOCK <- 8, LOWS <- 128, HIGHS <- 2

(* Reads of four bytes, and frames of G729 of three bytes, four samples.   *)
Sounds ==
    INSTANCE AudioConversion WITH READ_SIZE <- 4, FRAME <- 3, FRAME_SAMPLES <- 4, SIZE_T <- 2,
                                  HEAD_1 <- 3, HEAD_3 <- 3, FMT_MAX <- 6

Graphs == INSTANCE RobotGraph WITH P <- 7, ROOT <- 3

-----------------------------------------------------------------------------
queues == <<vars, dispatcherVars>>
searches == <<jps, set, message>>
data == <<text, json, crypto, audio, robot>>

PartsInit ==
    /\ part \in {"timer", "dispatcher", "jps", "set", "message", "text", "json",
                 "crypto", "audio", "robot"}
    /\ Init /\ (part # "timer" => limit = CHOOSE l \in Limits : TRUE)
    /\ DispatcherInit
    /\ IF part = "jps" THEN Grid!Init ELSE jps = <<>>
    /\ IF part = "set" THEN Strings!Init ELSE set = <<>>
    /\ IF part = "message" THEN Messages!Init ELSE message = <<>>
    /\ IF part = "text" THEN Texts!Init ELSE text = <<>>
    /\ IF part = "json" THEN Jsons!Init ELSE json = <<>>
    /\ IF part = "crypto" THEN Ciphers!Init ELSE crypto = <<>>
    /\ IF part = "audio" THEN Sounds!Init ELSE audio = <<>>
    /\ IF part = "robot" THEN Graphs!Init ELSE robot = <<>>

TimerSteps ==
    part = "timer" /\ Next /\ UNCHANGED <<part, dispatcherVars, searches, data>>

DispatcherSteps ==
    part = "dispatcher" /\ DispatcherNext /\ UNCHANGED <<part, vars, searches, data>>

JpsSteps == part = "jps" /\ Grid!Next /\ UNCHANGED <<part, queues, set, message, data>>

SetSteps == part = "set" /\ Strings!Next /\ UNCHANGED <<part, queues, jps, message, data>>

MessageSteps == part = "message" /\ Messages!Next /\ UNCHANGED <<part, queues, jps, set, data>>

JsonSteps ==
    part = "json" /\ Jsons!Next /\ UNCHANGED <<part, queues, searches, text, crypto, audio, robot>>

CryptoSteps ==
    part = "crypto" /\ Ciphers!Next /\ UNCHANGED <<part, queues, searches, text, json, audio, robot>>

AudioSteps ==
    part = "audio" /\ Sounds!Next /\ UNCHANGED <<part, queues, searches, text, json, crypto, robot>>

RobotSteps ==
    part = "robot" /\ Graphs!Next /\ UNCHANGED <<part, queues, searches, text, json, crypto, audio>>

PartsNext ==
    \/ TimerSteps \/ DispatcherSteps \/ JpsSteps \/ SetSteps \/ MessageSteps
    \/ JsonSteps \/ CryptoSteps \/ AudioSteps \/ RobotSteps

PartsSpec == PartsInit /\ [][PartsNext]_<<part, queues, searches, data>>

RobotSpec == PartsInit /\ part = "robot" /\ [][RobotSteps]_<<part, queues, searches, data>>

-----------------------------------------------------------------------------
(* The search finds a route that can be walked whenever there is one.      *)
RoutesFound == part = "jps" => Grid!RoutesFound

(* The tree of strings is a set.                                           *)
IsASet == part = "set" => Strings!IsASet

(* Messages are compatible between versions of their types.                *)
VersionsUnderstood == part = "message" => Messages!VersionsUnderstood

(* Strings, words and tables are taken apart as they were put together.    *)
TextKept == part = "text" => Texts!TextKept

(* What an object reads last from JSON is what was sent last.              *)
JsonKept == part = "json" => Jsons!JsonKept

(* What is decoded was encoded, and digests are of the whole message.      *)
CryptoKept == part = "crypto" => Ciphers!CryptoKept

(* Speech is kept by codecs, packets and conversions.                      *)
AudioKept == part = "audio" => Sounds!AudioKept

(* Gradients of parameters are the derivatives of what is to be computed.  *)
GradientsExact == part = "robot" => Graphs!GradientsExact

(* So they are when tensors of one shape are multiplied (carp_robot.hpp    *)
(* line 1351).                                                             *)
ProductsMultiply == part = "robot" => Graphs!ProductsMultiply
=============================================================================

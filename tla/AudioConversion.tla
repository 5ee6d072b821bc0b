--------------------------- MODULE AudioConversion ---------------------------
(***************************************************************************)
(* CarpAudioConversion (carp_audio_conversion.hpp): a file of speech is    *)
(* read piece by piece, decoded, encoded and written; the codecs of        *)
(* carp_audio_codec.hpp; and the RTP packets of carp_rtp.hpp.              *)
(*                                                                         *)
(* A byte is a number under 256, and a sample is one of 16 bits.  Sizes are*)
(* as small as the constants say.  Of the head of a WAV file the fields    *)
(* that are looked at are left, with a byte each.  bcg729 is external.     *)
(***************************************************************************)
EXTENDS Integers, Sequences, FiniteSetsExt, SequencesExt

CONSTANTS
    AudioCases,         \* files, samples and packets
    READ_SIZE,          \* bytes of a read: 1020
    FRAME,              \* bytes of a G.729 frame: 10
    FRAME_SAMPLES,      \* samples of a G.729 frame: 80
    SIZE_T,             \* bytes of a size_t: 8
    HEAD_1,             \* sizes of WAVCODERHEAD_1 and WAVCODERHEAD_3
    HEAD_3,
    FMT_MAX             \* bytes of m_head_2: 32

VARIABLE audio

Prefix(n, s) == SubSeq(s, 1, IF n < Len(s) THEN n ELSE Len(s))
Beyond(n, s) == SubSeq(s, n + 1, Len(s))

(* The i-th piece of so many elements. *)
Piece(s, size, i) == SubSeq(s, (i - 1) * size + 1, i * size)

Bit(b, at) == (b \div 2^at) % 2

-----------------------------------------------------------------------------
(* A-law and mu-law: sign, segment and place in it, with bits turned over: *)
(* of A-law every other one, of mu-law all.                                *)
Alternate(b) == b + MapThenSumSet(LAMBDA at : 2^at * (1 - 2 * Bit(b, at)), {0, 2, 4, 6})

(* search: how many segments end below the value; the first ends at `end`. *)
Segment(val, end) == Cardinality({i \in 0..7 : end * 2^i - 1 < val})

PCM2ALaw(pcm) ==
    LET scaled == pcm \div 8
        val == IF scaled >= 0 THEN scaled ELSE -scaled - 1
        seg == Segment(val, 32)
        code == IF seg = 8 THEN 127
                ELSE seg * 16 + ((val \div 2^(IF seg < 2 THEN 1 ELSE seg)) % 16)
    IN  Alternate(code) + (IF scaled >= 0 THEN 128 ELSE 0)

ALaw2PCM(byte) ==
    LET a_val == Alternate(byte)
        quant == (a_val % 16) * 16
        seg == (a_val \div 16) % 8
        t == IF seg = 0 THEN quant + 8 ELSE (quant + 264) * 2^(seg - 1)
    IN  IF a_val >= 128 THEN t ELSE -t

CLIP == 8159
BIAS == 132

PCM2ULaw(pcm) ==
    LET scaled == pcm \div 4
        magnitude == IF scaled < 0 THEN -scaled ELSE scaled
        val == (IF magnitude > CLIP THEN CLIP ELSE magnitude) + BIAS \div 4
        seg == Segment(val, 64)
        code == IF seg = 8 THEN 127 ELSE seg * 16 + ((val \div 2^(seg + 1)) % 16)
    IN  (IF scaled < 0 THEN 127 ELSE 255) - code

ULaw2PCM(byte) ==
    LET u_val == 255 - byte
        t == ((u_val % 16) * 8 + BIAS) * 2^((u_val \div 16) % 8)
    IN  IF u_val >= 128 THEN BIAS - t ELSE t - BIAS

-----------------------------------------------------------------------------
(* Encoders, of which G729 leaves out what is no whole frame.              *)

Short(lo, hi) == IF hi < 128 THEN lo + 256 * hi ELSE lo + 256 * (hi - 256)

PCMBytes(samples) ==
    FlattenSeq([i \in DOMAIN samples |-> <<samples[i] % 256, (samples[i] \div 256) % 256>>])

(* Any codec would do that tells frames and samples apart. *)
G729Frame(samples) == [i \in 1..FRAME |-> (samples[i] \div 256) % 256]
G729Samples(frame) == [i \in 1..FRAME_SAMPLES |-> 256 * (frame[((i - 1) % FRAME) + 1] % 128)]

Encode(kind, samples) ==
    CASE kind \in {"PCM", "WAV"} -> PCMBytes(samples)
      [] kind = "PCMA" -> [i \in DOMAIN samples |-> PCM2ALaw(samples[i])]
      [] kind = "PCMU" -> [i \in DOMAIN samples |-> PCM2ULaw(samples[i])]
      [] kind = "G729" ->
           FlattenSeq([i \in 1..(Len(samples) \div FRAME_SAMPLES) |->
                         G729Frame(Piece(samples, FRAME_SAMPLES, i))])

(* The head of a WAV file that is written: what it says of the lengths.    *)
NewHead == [riff_len |-> 36, data_len |-> 0]

Longer(head, bytes) ==
    [riff_len |-> head.riff_len + Len(bytes), data_len |-> head.data_len + Len(bytes)]

-----------------------------------------------------------------------------
(* RTP packets.  A field of 32 bits is its bytes.                          *)

CARP_RTP_VERSION == 2
CARP_RTP_FIXED_HEADER == 12

Failed == [ok |-> FALSE]

(* Packets with an extension or padding say so; both must be there.        *)
CarpRtpPacketDeserialize(data) ==
    LET bytes == Len(data)
        cc == data[1] % 16
        x == Bit(data[1], 4)
        p == Bit(data[1], 5)
        hdr_len == CARP_RTP_FIXED_HEADER + cc * 4
        extlen == ((data[hdr_len + 3] * 256 + data[hdr_len + 4]) * 4) % 65536
        start == hdr_len + (IF x = 1 THEN 4 + extlen ELSE 0)
        padding == IF p = 1 THEN data[bytes] ELSE 0
    IN  IF \/ bytes < CARP_RTP_FIXED_HEADER
           \/ data[1] \div 64 # CARP_RTP_VERSION
           \/ bytes < hdr_len + 4 * x + p
           \/ x = 1 /\ extlen + 4 > bytes - hdr_len
           \/ bytes - start < padding
          THEN Failed
        ELSE [ok |-> TRUE, p |-> p, x |-> x, m |-> Bit(data[2], 7), pt |-> data[2] % 128,
              seq |-> data[3] * 256 + data[4], timestamp |-> SubSeq(data, 5, 8),
              ssrc |-> SubSeq(data, 9, 12),
              csrc |-> [i \in 1..cc |-> SubSeq(data, 9 + i * 4, 12 + i * 4)],
              reserved |-> IF x = 1 THEN data[hdr_len + 1] * 256 + data[hdr_len + 2] ELSE 0,
              extension |-> IF x = 1 THEN SubSeq(data, hdr_len + 5, start) ELSE <<>>,
              payload |-> SubSeq(data, start + 1, bytes - padding)]

CarpRtpPacketSerialize(pkt) ==
    LET flags == CARP_RTP_VERSION * 64 + pkt.p * 32 + pkt.x * 16 + Len(pkt.csrc)
        extlen == Len(pkt.extension)
        extension == IF pkt.x = 1
                       THEN <<pkt.reserved \div 256, pkt.reserved % 256,
                              (extlen \div 4) \div 256, (extlen \div 4) % 256>> \o pkt.extension
                       ELSE [i \in 1..extlen |-> 0]
    IN  IF extlen % 4 # 0 THEN <<>>
        ELSE <<flags, pkt.m * 128 + pkt.pt, pkt.seq \div 256, pkt.seq % 256>>
               \o pkt.timestamp \o pkt.ssrc \o FlattenSeq(pkt.csrc) \o extension \o pkt.payload

-----------------------------------------------------------------------------
(* Decoders.  Each gives a record of itself, its success and samples.      *)

NewDecoder(kind) ==
    [kind |-> kind, remain |-> <<>>,                                    \* G729
     package_list |-> <<>>, sample_map |-> <<>>, out_list |-> <<>>,     \* RTP
     head_1 |-> <<>>, head_2 |-> <<>>, head_3 |-> <<>>, m_decoder |-> "none",
     handle_data_len |-> 0]                                             \* WAV

Decoded(d, samples) == [decoder |-> d, ok |-> TRUE, samples |-> samples, odd |-> FALSE]

Simple(kind, bytes) ==
    CASE kind = "PCM" -> [i \in 1..(Len(bytes) \div 2) |-> Short(bytes[2 * i - 1], bytes[2 * i])]
      [] kind = "PCMA" -> [i \in DOMAIN bytes |-> ALaw2PCM(bytes[i])]
      [] kind = "PCMU" -> [i \in DOMAIN bytes |-> ULaw2PCM(bytes[i])]

(* All bytes of PCM are copied, into samples that have room for whole ones.*)
DecodeSimple(d, kind, bytes) ==
    [Decoded(d, Simple(kind, bytes)) EXCEPT !.odd = kind = "PCM" /\ Len(bytes) % 2 = 1]

(* Whole frames; what remains waits for more. *)
DecodeG729(d, bytes) ==
    LET buffer == d.remain \o bytes
        count == Len(buffer) \div FRAME
    IN  Decoded([d EXCEPT !.remain = Beyond(count * FRAME, buffer)],
                FlattenSeq([i \in 1..count |-> G729Samples(Piece(buffer, FRAME, i))]))

(* -- RTP: packages of a length and a packet, of several sources.          *)

Size(package) ==
    FoldRight(LAMBDA byte, n : byte + n * 256, Prefix(SIZE_T, package), 0)

Complete(package) ==
    Len(package) >= SIZE_T /\ Len(package) >= SIZE_T + Size(package)

PushByte(list, byte) ==
    IF list = <<>> \/ Complete(Last(list)) THEN Append(list, <<byte>>)
    ELSE [list EXCEPT ![Len(list)] = Append(@, byte)]

PushBuffer(d, bytes) == [d EXCEPT !.package_list = FoldLeft(PushByte, @, bytes)]

(* C's division goes towards zero. *)
Quotient(a, b) == IF a >= 0 THEN a \div b ELSE -((-a) \div b)

Mix(a, b) ==
    IF a < 0 /\ b < 0 THEN a + b + Quotient(a * b, 32767) ELSE a + b - Quotient(a * b, 32767)

MixList(out, sample_list) ==
    [i \in 1..(IF Len(out) < Len(sample_list) THEN Len(sample_list) ELSE Len(out)) |->
        CASE i > Len(out) -> sample_list[i]
          [] i > Len(sample_list) -> out[i]
          [] OTHER -> Mix(out[i], sample_list[i])]

(* The next of every source that has one. *)
MixOne(d) ==
    LET ready == {ssrc \in DOMAIN d.sample_map : d.sample_map[ssrc] # <<>>}
        less(a, b) == \E i \in 1..4 : a[i] < b[i] /\ \A j \in 1..(i - 1) : a[j] = b[j]
        heads == [i \in 1..Cardinality(ready) |-> d.sample_map[SetToSortSeq(ready, less)[i]][1]]
    IN  [d EXCEPT !.out_list = Append(@, FoldLeft(MixList, <<>>, heads)),
                  !.sample_map = [ssrc \in DOMAIN @ |->
                     IF ssrc \in ready THEN Tail(@[ssrc]) ELSE @[ssrc]]]

NeedMix(d, package_count) ==
    \E ssrc \in DOMAIN d.sample_map : Len(d.sample_map[ssrc]) >= package_count

MixAudio(d, package_count, mix_count) ==
    IF NeedMix(d, package_count)
      THEN FoldLeft(LAMBDA e, i : MixOne(e), d, [i \in 1..mix_count |-> i])
    ELSE d

(* Only these three formats are decoded; the sources share the decoders.   *)
ParseOne(d, package) ==
    LET packet == CarpRtpPacketDeserialize(Beyond(SIZE_T, package))
        decoded == CASE packet.pt = 18 -> DecodeG729(d, packet.payload)
                     [] packet.pt = 8 -> Decoded(d, Simple("PCMA", packet.payload))
                     [] packet.pt = 0 -> Decoded(d, Simple("PCMU", packet.payload))
        old == IF packet.ssrc \in DOMAIN d.sample_map THEN d.sample_map[packet.ssrc] ELSE <<>>
        pushed == [decoded.decoder EXCEPT !.sample_map =
                     [ssrc \in DOMAIN @ \cup {packet.ssrc} |->
                        IF ssrc = packet.ssrc THEN Append(old, decoded.samples) ELSE @[ssrc]]]
    IN  IF ~packet.ok THEN d
        ELSE IF packet.pt \in {0, 8, 18} THEN MixAudio(pushed, 5, 4) ELSE d

ParsePackage(d) ==
    LET list == d.package_list
    IN  [FoldLeft(ParseOne, d, SelectSeq(list, Complete)) EXCEPT
           !.package_list = SelectSeq(list, LAMBDA package : ~Complete(package))]

(* Mutant: of the packages that are mixed only the last is given out.      *)
TakeLast(d) == Decoded([d EXCEPT !.out_list = <<>>],
                       IF d.out_list = <<>> THEN <<>> ELSE Last(d.out_list))

TakeOut(d) == Decoded([d EXCEPT !.out_list = <<>>], FlattenSeq(d.out_list))

(* -- WAV: a head in three parts, each of which may come in pieces.        *)

Field(head, i) == IF i \in DOMAIN head THEN head[i] ELSE 0

(* The decoder that the second part asks for. *)
FormatOf(head_2) ==
    LET audio_fmt == Field(head_2, 1)
        channel == Field(head_2, 2)
        bytes_per_sample == Field(head_2, 3)
    IN  CASE channel \notin {1, 2} -> "none"
          [] audio_fmt \in {1, 16} /\ bytes_per_sample = channel * 2 -> "PCM"
          [] audio_fmt = 6 /\ bytes_per_sample = channel -> "PCMA"
          [] audio_fmt = 7 /\ bytes_per_sample = channel -> "PCMU"
          [] OTHER -> "none"

DecodeWav(d, bytes) ==
    LET last_len == d.head_3[HEAD_3] - d.handle_data_len
        real == Prefix(last_len, bytes)
    IN  CASE d.m_decoder = "none" -> [Decoded(d, <<>>) EXCEPT !.ok = FALSE]
          [] last_len <= 0 -> Decoded(d, <<>>)
          [] OTHER -> DecodeSimple([d EXCEPT !.handle_data_len = @ + Len(real)],
                                   d.m_decoder, real)

(* The parts take what they lack; what is left is decoded.                 *)
ReadHead(d, bytes) ==
    LET first == HEAD_1 - Len(d.head_1)
        d1 == [d EXCEPT !.head_1 = @ \o Prefix(first, bytes)]
        fmt_len == d1.head_1[HEAD_1]
        rest1 == Beyond(first, bytes)
        second == fmt_len - Len(d.head_2)
        d2 == [d1 EXCEPT !.head_2 = @ \o Prefix(second, rest1)]
        whole2 == Len(d2.head_2) = fmt_len
        d3 == IF second > 0 THEN [d2 EXCEPT !.m_decoder = FormatOf(d2.head_2)] ELSE d2
        rest2 == Beyond(second, rest1)
        third == HEAD_3 - Len(d.head_3)
        d4 == [d3 EXCEPT !.head_3 = @ \o Prefix(third, rest2)]
        waiting(e) == [completed |-> FALSE] @@ Decoded(e, <<>>)
        refused(e) == [waiting(e) EXCEPT !.ok = FALSE]
    IN  CASE Len(d1.head_1) < HEAD_1 -> waiting(d1)
          [] first > 0 /\ fmt_len > FMT_MAX -> refused(d1)
          [] second > 0 /\ ~whole2 -> waiting(d2)
          [] second > 0 /\ d3.m_decoder = "none" -> refused(d2)
          [] Len(d4.head_3) < HEAD_3 -> waiting(d4)
          [] OTHER -> [ok |-> TRUE, completed |-> TRUE] @@ DecodeWav(d4, Beyond(third, rest2))

(* -- What all of them do. *)

Decode(d, bytes) ==
    CASE d.kind = "RTP" -> TakeOut(ParsePackage(PushBuffer(d, bytes)))
      [] d.kind = "WAV" -> DecodeWav(d, bytes)
      [] d.kind = "G729" -> DecodeG729(d, bytes)
      [] OTHER -> DecodeSimple(d, d.kind, bytes)

(* What is left to be mixed, or a frame that is not whole; what a G.729    *)
(* source of RTP leaves is lost.                                           *)
Flush(d) ==
    LET longest == Max({0} \cup {Len(d.sample_map[ssrc]) : ssrc \in DOMAIN d.sample_map})
    IN  CASE d.kind = "RTP" ->
               TakeOut(FoldLeft(LAMBDA e, i : MixAudio(e, 1, 1), d, [i \in 1..longest |-> i]))
          [] d.kind = "G729" /\ d.remain # <<>> ->
               Decoded([d EXCEPT !.remain = <<>>],
                       G729Samples(d.remain \o [i \in 1..(FRAME - Len(d.remain)) |-> 0]))
          [] OTHER -> Decoded(d, <<>>)

-----------------------------------------------------------------------------
(* Conversion of a file.                                                   *)

Case == audio.case

Begun(case) ==
    [case |-> case, pc |-> "open", rest |-> <<>>, decoder |-> NewDecoder("none"),
     head |-> NewHead, dst |-> <<>>, open |-> {}, room |-> 0, result |-> "none"]

Init == \E i \in DOMAIN AudioCases : \E case \in AudioCases[i] : audio = Begun(case)

(* What has been opened and made is closed and deleted. *)
Return(a, result) == [a EXCEPT !.pc = "done", !.open = {}, !.result = result]

(* The odd byte is written behind what sample_data has had room for: memory*)
(* of the vector's, or of others, and what comes of that is left open.     *)
Outcomes(then, decoded, room) ==
    {then} \cup (IF decoded.odd /\ Len(decoded.samples) >= room
                   THEN {[audio EXCEPT !.pc = "done", !.result = "crashed"]} ELSE {})

Kinds == {"PCM", "PCMA", "PCMU", "G729", "WAV"}

Open ==
    /\ audio.pc = "open" /\ Case.kind = "file"
    /\ audio' =
         CASE Case.fails = "src" -> Return(audio, "SRC_FILE_OPEN_FAILED")
           [] Case.fails = "dst" -> Return(audio, "DST_FILE_OPEN_FAILED")
           [] Case.from \notin Kinds \cup {"RTP"} -> Return(audio, "DECODER_CREATE_FAILED")
           [] OTHER -> [audio EXCEPT !.open = {"src", "dst", "decoder"}, !.rest = Case.file,
                                     !.decoder = NewDecoder(Case.from),
                                     !.pc = IF Case.from = "WAV" THEN "head" ELSE "create"]

(* Encode and fwrite, when there is something to be encoded. *)
Write(a, samples) ==
    LET bytes == Encode(Case.to, samples)
    IN  [a EXCEPT !.dst = @ \o bytes, !.head = Longer(@, bytes)]

CreateEncoder(a, samples) ==
    IF Case.to \notin Kinds THEN Return(a, "ENCODER_CREATE_FAILED")
    ELSE Write([a EXCEPT !.pc = "body", !.open = @ \cup {"encoder"}], samples)

NextBytes == Prefix(READ_SIZE, audio.rest)

ReadFileHead ==
    /\ audio.pc = "head"
    /\ LET read == ReadHead(audio.decoder, NextBytes)
           then == [audio EXCEPT !.rest = Beyond(READ_SIZE, @), !.decoder = read.decoder]
       IN  IF NextBytes = <<>> THEN audio' = Return(audio, "DECODER_READ_FILE_FAILED")
           ELSE audio' \in
                  Outcomes(CASE ~read.ok -> Return(then, "DECODER_READ_HEAD_FAILED")
                             [] ~read.completed -> then
                             [] OTHER -> CreateEncoder(then, read.samples), read, 0)

Create ==
    /\ audio.pc = "create"
    /\ audio' = CreateEncoder(audio, <<>>)

ReadBody ==
    /\ audio.pc = "body" /\ NextBytes # <<>>
    /\ LET decoded == Decode(audio.decoder, NextBytes)
           then == [audio EXCEPT !.rest = Beyond(READ_SIZE, @), !.decoder = decoded.decoder,
                                 !.room = Max({@, Len(decoded.samples)})]
       IN  audio' \in Outcomes(IF decoded.ok THEN Write(then, decoded.samples)
                               ELSE Return(then, "DECODER_DECODE_FAILED"), decoded, audio.room)

(* At the end of the file; encoders have nothing to flush. *)
Finish ==
    /\ audio.pc = "body" /\ NextBytes = <<>>
    /\ audio' = Return(Write(audio, Flush(audio.decoder).samples), "OK")

Next == Open \/ ReadFileHead \/ Create \/ ReadBody \/ Finish

-----------------------------------------------------------------------------
Magnitude(n) == IF n < 0 THEN -n ELSE n

(* A code means a sample that has this code (of the two zeros of mu-law one*)
(* is used), and a sample is met by its code to a thirty-second and eight. *)
LawsClose(pcm) ==
    LET close(back) == 32 * Magnitude(back - pcm) <= Magnitude(pcm) + 256
        code == pcm % 256
    IN  /\ close(ALaw2PCM(PCM2ALaw(pcm))) /\ close(ULaw2PCM(PCM2ULaw(pcm)))
        /\ PCM2ALaw(ALaw2PCM(code)) = code
        /\ code # 127 => PCM2ULaw(ULaw2PCM(code)) = code

(* A packet is read as it was written, with whatever padding was in its    *)
(* payload taken off; one that is cut is refused or has lost the end of its*)
(* payload.  (An extension without its flag is written as zeros.)          *)
PacketsKept(pkt, padding) ==
    LET data == CarpRtpPacketSerialize(pkt)
        padded == data \o [i \in 1..padding |-> padding]
        whole == [pkt EXCEPT !.p = IF padding > 0 THEN 1 ELSE 0]
    IN  /\ CarpRtpPacketDeserialize([padded EXCEPT ![1] = @ + 32 * (whole.p - pkt.p)])
             = [ok |-> TRUE] @@ whole
        /\ \A n \in 0..(Len(data) - 1) :
              LET cut == CarpRtpPacketDeserialize(Prefix(n, data))
              IN  cut.ok => cut = [ok |-> TRUE] @@ [pkt EXCEPT !.payload = Prefix(Len(cut.payload), @)]

(* What a file says, read at once. *)
Said(case) ==
    CASE case.from \in {"PCM", "PCMA", "PCMU"} -> Simple(case.from, case.file)
      [] case.from = "G729" ->
           LET frames == (Len(case.file) + FRAME - 1) \div FRAME
               filled == case.file \o [i \in 1..FRAME |-> 0]
           IN  FlattenSeq([i \in 1..frames |-> G729Samples(Piece(filled, FRAME, i))])
      [] case.from = "WAV" -> Simple(case.wav, case.data)
      [] case.from = "RTP" -> FlattenSeq(case.packets)

Total(samples) == FoldLeft(LAMBDA a, b : a + b, 0, samples)

(* A sample is cut in half at every read when the head of a WAV file has an*)
(* odd length, and at the end when the samples have.                       *)
CutByHead ==
    Case.from = "WAV" /\ Case.wav = "PCM" /\ (HEAD_1 + Field(Case.file, HEAD_1) + HEAD_3) % 2 = 1

CutAtEnd ==
    \/ Case.from = "PCM" /\ Len(Case.file) % 2 = 1
    \/ Case.from = "WAV" /\ Case.wav = "PCM" /\ Len(Case.data) % 2 = 1

(* However a file is cut by reading, what is written is all that it says,  *)
(* once and in order, and the head has its length; of several sources all  *)
(* is mixed.  A file that cannot be read ends with an error, and whatever  *)
(* the end, everything is closed.  (As G729 the end of what each read gives*)
(* is lost when it is no whole frame: Flush has nothing to do.  PCM that is*)
(* cut in half may end the program, and after a head of an odd length its  *)
(* halves are lost at every read.)                                         *)
Converted ==
    LET samples == Said(Case)
        written == Simple("PCM", audio.dst)
    IN  audio.pc = "done" =>
          IF audio.result = "crashed" THEN CutByHead \/ CutAtEnd
          ELSE
            /\ audio.open = {}
            /\ audio.result = Case.result
            /\ audio.result = "OK" /\ Case.to # "G729" /\ ~CutByHead =>
                 /\ IF Case.mixed THEN Total(written) = Total(samples)
                    ELSE audio.dst = Encode(Case.to, samples)
                 /\ audio.head = Longer(NewHead, audio.dst)

(* Speech is kept by codecs, packets and conversions.                      *)
AudioKept ==
    CASE Case.kind = "sample" -> LawsClose(Case.pcm)
      [] Case.kind = "packet" -> PacketsKept(Case.packet, Case.padding)
      [] Case.kind = "file" -> Converted
=============================================================================

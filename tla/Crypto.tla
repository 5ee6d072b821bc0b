------------------------------- MODULE Crypto -------------------------------
(***************************************************************************)
(* CarpCrypto (carp_crypto.hpp): XXTEA over memory, Base64, and the digests*)
(* SHA-1 and MD5.  Blocks and words are as small as the constants say.     *)
(* What the digests make of a block is not computed: a digest is the       *)
(* sequence of the blocks that it has been made of.                        *)
(***************************************************************************)
EXTENDS Integers, Sequences, SequencesExt, Bitwise

CONSTANTS
    CryptoCases,        \* what is encoded
    MessageLimit,       \* bytes of a message that is digested
    XXTEA_BLOCK_SIZE,   \* in words: 128
    SIZEOF_INT,         \* bytes of a word: 4
    BYTE,               \* values of a byte of a word: 256
    DELTA,              \* 0x9e3779b9
    BLOCK,              \* bytes of a block that is digested: 64
    LOWS, HIGHS         \* a message's length in bits has two digits of so many: 2^32

VARIABLE crypto

-----------------------------------------------------------------------------
(* XXTEA.  A word is next to the ones before and after it, in a circle.    *)

WORD == BYTE^SIZEOF_INT

Before(block, p) == IF p = 1 THEN block[Len(block)] ELSE block[p - 1]
After(block, p) == IF p = Len(block) THEN block[1] ELSE block[p + 1]

Mix(z, y, sum, k) ==
    (((z \div 32) ^^ ((y * 4) % WORD)) + ((y \div 8) ^^ ((z * 16) % WORD))) % WORD
      ^^ (((sum ^^ y) + (k ^^ z)) % WORD)

(* What is added to word p, which the key's word k hides. *)
Hiding(block, p, sum, key) ==
    LET k == key[(((p - 1) % 4) ^^ ((sum \div 4) % 4)) + 1]
    IN  Mix(Before(block, p), After(block, p), sum, k)

Rounds(len) == 6 + 52 \div len

XXTeaEncode(block, key) ==
    LET word(b, at) == [b EXCEPT ![at.p] = (@ + Hiding(b, at.p, at.sum, key)) % WORD]
        order == [i \in 1..(Rounds(Len(block)) * Len(block)) |->
                    [p |-> ((i - 1) % Len(block)) + 1,
                     sum |-> (((i - 1) \div Len(block) + 1) * DELTA) % WORD]]
    IN  IF Len(block) <= 1 THEN block ELSE FoldLeft(word, block, order)

(* From the last word to the first, until the sum is zero. *)
XXTeaDecode(block, key) ==
    LET word(b, at) == [b EXCEPT ![at.p] = (@ - Hiding(b, at.p, at.sum, key)) % WORD]
        order == [i \in 1..(Rounds(Len(block)) * Len(block)) |->
                    [p |-> Len(block) - ((i - 1) % Len(block)),
                     sum |-> ((Rounds(Len(block)) - (i - 1) \div Len(block)) * DELTA) % WORD]]
    IN  IF Len(block) <= 1 THEN block ELSE FoldLeft(word, block, order)

ToWords(bytes) ==
    [i \in 1..(Len(bytes) \div SIZEOF_INT) |->
        FoldRight(LAMBDA byte, word : byte + word * BYTE,
                  SubSeq(bytes, (i - 1) * SIZEOF_INT + 1, i * SIZEOF_INT), 0)]

ToBytes(words) ==
    [i \in 1..(Len(words) * SIZEOF_INT) |->
        (words[(i - 1) \div SIZEOF_INT + 1] \div BYTE^((i - 1) % SIZEOF_INT)) % BYTE]

(* Block by block, and the words that are left; bytes that are left, and a *)
(* word that is alone, stay as they are.                                   *)
InBlocks(Crypt(_), memory) ==
    LET whole == XXTEA_BLOCK_SIZE * SIZEOF_INT
        piece(k) == SubSeq(memory, (k - 1) * whole + 1,
                           IF k * whole < Len(memory) THEN k * whole ELSE Len(memory))
        crypted(bytes) ==
            ToBytes(Crypt(ToWords(bytes)))
              \o SubSeq(bytes, Len(bytes) - (Len(bytes) % SIZEOF_INT) + 1, Len(bytes))
    IN  FlattenSeq([k \in 1..(Len(memory) \div whole + 1) |-> crypted(piece(k))])

(* A key is filled up with zeros.  (One longer than four words is written  *)
(* over the end of adjust_key.)                                            *)
RealKey(key) ==
    ToWords([i \in 1..(4 * SIZEOF_INT) |-> IF i \in DOMAIN key THEN key[i] ELSE 0])

XXTeaEncodeMemory(memory, key) ==
    InBlocks(LAMBDA block : XXTeaEncode(block, RealKey(key)), memory)

XXTeaDecodeMemory(memory, key) ==
    InBlocks(LAMBDA block : XXTeaDecode(block, RealKey(key)), memory)

-----------------------------------------------------------------------------
(* Base64.  A character is its place in the alphabet; 255 is one that is   *)
(* not in it.                                                              *)

CARP_BASE64_PAD == 64

Base64Encode(in) ==
    LET c(i) == in[i]
        l(i) == in[i - 1]
        last == in[Len(in)]
    IN  FlattenSeq([i \in DOMAIN in |->
            CASE i % 3 = 1 -> <<c(i) \div 4>>
              [] i % 3 = 2 -> <<(l(i) % 4) * 16 + c(i) \div 16>>
              [] i % 3 = 0 -> <<(l(i) % 16) * 4 + c(i) \div 64, c(i) % 64>>])
          \o CASE Len(in) % 3 = 1 -> <<(last % 4) * 16, CARP_BASE64_PAD, CARP_BASE64_PAD>>
               [] Len(in) % 3 = 2 -> <<(last % 16) * 4, CARP_BASE64_PAD>>
               [] OTHER -> <<>>

(* Up to the first pad; nothing of what has a character out of the         *)
(* alphabet before it.                                                     *)
Base64DecodeImpl(in) ==
    LET pads == {i \in DOMAIN in : in[i] = CARP_BASE64_PAD}
        end == IF pads = {} THEN Len(in) ELSE (CHOOSE i \in pads : \A j \in pads : i <= j) - 1
        c(i) == in[i]
        l(i) == in[i - 1]
    IN  IF Len(in) % 4 # 0 \/ \E i \in 1..end : in[i] = 255 THEN <<>>
        ELSE FlattenSeq([i \in 1..end |->
               CASE i % 4 = 1 -> <<>>
                 [] i % 4 = 2 -> <<((l(i) * 4) % 256) + ((c(i) \div 16) % 4)>>
                 [] i % 4 = 3 -> <<((l(i) * 16) % 256) + ((c(i) \div 4) % 16)>>
                 [] i % 4 = 0 -> <<((l(i) * 64) % 256) + c(i)>>])

-----------------------------------------------------------------------------
(* SHA-1, of a message whose bytes are the numbers from 1 on.              *)

ONE == -128             \* the byte 0x80
Zeros(n) == [i \in 1..n |-> 0]

NewSha == [kind |-> "sha1", fed |-> 0, Message_Digest |-> <<>>, Message_Block |-> <<>>,
           Length_Low |-> 0, Length_High |-> 0, Computed |-> FALSE, Corrupted |-> FALSE,
           late |-> FALSE]

SHA1ProcessMessageBlock(context) ==
    [context EXCEPT !.Message_Digest = Append(@, context.Message_Block), !.Message_Block = <<>>]

(* A byte, which may be the one that makes the message too long.           *)
AddByte(context, byte) ==
    LET low == (context.Length_Low + 8) % LOWS
        high == IF low = 0 THEN (context.Length_High + 1) % HIGHS ELSE context.Length_High
        added == [context EXCEPT !.Message_Block = Append(@, byte), !.Length_Low = low,
                                 !.Length_High = high,
                                 !.Corrupted = low = 0 /\ high = 0]
    IN  IF context.Corrupted THEN context
        ELSE IF Len(added.Message_Block) = BLOCK THEN SHA1ProcessMessageBlock(added)
        ELSE added

SHA1Input(context, bytes) ==
    CASE bytes = <<>> -> context
      [] context.Computed \/ context.Corrupted -> [context EXCEPT !.Corrupted = TRUE]
      [] OTHER -> FoldLeft(AddByte, context, bytes)

(* Of a block's last bytes two are the message's length. *)
SHA1PadMessage(context) ==
    LET begun == [context EXCEPT !.Message_Block = Append(@, ONE)]
        filled(c, n) == [c EXCEPT !.Message_Block = @ \o Zeros(n - Len(@))]
        room == IF Len(context.Message_Block) > BLOCK - 3
                  THEN filled(SHA1ProcessMessageBlock(filled(begun, BLOCK)), BLOCK - 2)
                  ELSE filled(begun, BLOCK - 2)
    IN  SHA1ProcessMessageBlock(
          [room EXCEPT !.Message_Block = @ \o <<room.Length_High, room.Length_Low>>])

SHA1Result(context) ==
    IF context.Corrupted \/ context.Computed THEN context
    ELSE [SHA1PadMessage(context) EXCEPT !.Computed = TRUE]

-----------------------------------------------------------------------------
(* MD5.  `lo` counts bytes, until Md5Finalise.                             *)

Md5Initialise == [kind |-> "md5", fed |-> 0, lo |-> 0, hi |-> 0, buffer |-> Zeros(BLOCK),
                  digest |-> <<>>, done |-> FALSE]

(* One or more blocks. *)
Md5TransformFunction(context, bytes) ==
    [context EXCEPT !.digest = @ \o [i \in 1..(Len(bytes) \div BLOCK) |->
                                       SubSeq(bytes, (i - 1) * BLOCK + 1, i * BLOCK)]]

(* memcpy to the buffer *)
Copied(context, used, bytes) ==
    [context EXCEPT !.buffer = [i \in DOMAIN @ |->
       IF i - used \in DOMAIN bytes THEN bytes[i - used] ELSE @[i]]]

Counted(context, size) ==
    LET lo == (context.lo + size) % (LOWS \div 8)
        carry == IF lo < context.lo THEN 1 ELSE 0
    IN  [context EXCEPT !.lo = lo, !.hi = (@ + carry + size \div (LOWS \div 8)) % HIGHS]

Md5Update(context, bytes) ==
    LET used == context.lo % BLOCK
        counted == Counted(context, Len(bytes))
        free == IF used = 0 THEN 0 ELSE BLOCK - used
        full == LET c == Copied(counted, used, SubSeq(bytes, 1, free))
                IN  IF used = 0 THEN counted ELSE Md5TransformFunction(c, c.buffer)
        rest == SubSeq(bytes, free + 1, Len(bytes))
        whole == Len(rest) - (Len(rest) % BLOCK)
    IN  IF used # 0 /\ Len(bytes) < free THEN Copied(counted, used, bytes)
        ELSE Copied(Md5TransformFunction(full, SubSeq(rest, 1, whole)), 0,
                    SubSeq(rest, whole + 1, Len(rest)))

(* Mutant: the length is put where there is no room left for it.           *)
Md5FinaliseCramped(context) ==
    LET used == (context.lo % BLOCK) + 1
        zeros == Copied(Copied(context, used - 1, <<ONE>>), used, Zeros(BLOCK - used))
        last == Copied(zeros, BLOCK - 2, <<(context.lo * 8) % LOWS, context.hi>>)
    IN  [Md5TransformFunction(last, last.buffer) EXCEPT !.done = TRUE]

Md5Finalise(context) ==
    LET used == (context.lo % BLOCK) + 1
        zeros == Copied(Copied(context, used - 1, <<ONE>>), used, Zeros(BLOCK - used))
        room == IF BLOCK - used < 2
                  THEN Copied(Md5TransformFunction(zeros, zeros.buffer), 0, Zeros(BLOCK))
                  ELSE zeros
        last == Copied(room, BLOCK - 2, <<(context.lo * 8) % LOWS, context.hi>>)
    IN  [Md5TransformFunction(last, last.buffer) EXCEPT !.done = TRUE]

-----------------------------------------------------------------------------
Init == crypto \in CryptoCases \cup {NewSha, Md5Initialise}

MoreBytes(n) == [i \in 1..n |-> crypto.fed + i]

Pieces == {n \in 0..(2 * BLOCK + 1) : crypto.fed + n <= MessageLimit}

InputSha(n) ==
    /\ crypto.kind = "sha1" /\ ~crypto.late /\ n \in Pieces
    /\ crypto' = [SHA1Input(crypto, MoreBytes(n)) EXCEPT
                    !.fed = IF crypto.Computed THEN @ ELSE @ + n,
                    !.late = crypto.Computed /\ n > 0]

ResultSha ==
    /\ crypto.kind = "sha1"
    /\ crypto' = SHA1Result(crypto)

UpdateMd5(n) ==
    /\ crypto.kind = "md5" /\ ~crypto.done /\ n \in Pieces
    /\ crypto' = [Md5Update(crypto, MoreBytes(n)) EXCEPT !.fed = @ + n]

FinaliseMd5 ==
    /\ crypto.kind = "md5" /\ ~crypto.done
    /\ crypto' = Md5Finalise(crypto)

Next ==
    \/ \E n \in 0..(2 * BLOCK + 1) : InputSha(n) \/ UpdateMd5(n)
    \/ ResultSha \/ FinaliseMd5

-----------------------------------------------------------------------------
(* The message, a one and as few zeros as fill up the blocks before the    *)
(* length.                                                                 *)
Padded(fed, length) ==
    LET text == [i \in 1..fed |-> i] \o <<ONE>>
        all == text \o Zeros((-(Len(text) + 2)) % BLOCK) \o length
    IN  [i \in 1..(Len(all) \div BLOCK) |-> SubSeq(all, (i - 1) * BLOCK + 1, i * BLOCK)]

(* A digest is that of the whole message, in whatever pieces it came; SHA-1*)
(* refuses one that is too long, or that goes on after its result, whereas *)
(* MD5 takes the length as far as there is room.                           *)
DigestsWhole ==
    LET bits == crypto.fed * 8
        high == bits \div LOWS
        low == bits % LOWS
    IN  IF crypto.kind = "sha1"
          THEN /\ crypto.Corrupted <=> crypto.late \/ high >= HIGHS
               /\ crypto.Computed => crypto.Message_Digest = Padded(crypto.fed, <<high, low>>)
          ELSE crypto.done => crypto.digest = Padded(crypto.fed, <<low, high % HIGHS>>)

(* What is decoded is what was encoded, of every length; a text that is no *)
(* Base64 before its pads gives nothing.                                   *)
CryptoKept ==
    CASE crypto.kind = "xxtea" ->
           LET secret == XXTeaEncodeMemory(crypto.memory, crypto.key)
           IN  XXTeaDecodeMemory(secret, crypto.key) = crypto.memory
      [] crypto.kind = "base64" ->
           LET text == Base64Encode(crypto.bytes)
           IN  /\ Len(text) = 4 * ((Len(crypto.bytes) + 2) \div 3)
               /\ Base64DecodeImpl(text) = crypto.bytes
               /\ text # <<>> => Base64DecodeImpl([text EXCEPT ![1] = 255]) = <<>>
      [] OTHER -> DigestsWhole
=============================================================================

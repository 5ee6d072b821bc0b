------------------------------ MODULE Message ------------------------------
(***************************************************************************)
(* CarpMessage (carp_message.hpp): messages with their types known to the  *)
(* compiler (CARP_MESSAGE_MACRO and the templates), and written or read one*)
(* field at a time by scripts (CarpMessageWriteFactory, ReadFactory).      *)
(*                                                                         *)
(* Memory is a sequence of bytes: a byte of a character bears its value, 0 *)
(* ends a string, and the first byte of an integer bears its value, the    *)
(* others are "rest".  The types with a width other than int's differ in   *)
(* nothing else, set and list are written and read like vector, and no     *)
(* std::map can be used: its templates call functions there are not.       *)
(* Scripts that write or read lists and messages in messages do it with the*)
(* same calls, in an order of their own; here they have flat messages only.*)
(***************************************************************************)
EXTENDS Integers, Sequences, SequencesExt

CONSTANTS Cases,        \* sets of types of the sender and the reader, and what is sent
          SIZEOF_INT,   \* 4
          RewriteLimit  \* bound of the model: how often a message is written anew

VARIABLE message

CARP_MESSAGE_DR_NO_DATA == 0
CARP_MESSAGE_DR_DATA_NOT_ENOUGH == -1
CARP_MESSAGE_DR_FLAG_LEN_NOT_ENOUGH == -2

RECURSIVE Default(_), Serialize(_, _), Deserialize(_, _), Fields(_, _)

-----------------------------------------------------------------------------
(* What the default constructors make.                                     *)
Default(type) ==
    CASE type.kind \in {"char", "int"} -> 0
      [] type.kind \in {"string", "list"} -> <<>>
      [] type.kind = "message" -> [i \in DOMAIN type.fields |-> Default(type.fields[i])]

Bytes(n) == <<<<"int", n>>>> \o [i \in 1..(SIZEOF_INT - 1) |-> <<"rest", 0>>]
Chars(string) == [i \in DOMAIN string |-> <<"char", string[i]>>]

Serialize(type, v) ==
    CASE type.kind = "char" -> Chars(<<v>>)
      [] type.kind = "int" -> Bytes(v)
      [] type.kind = "string" -> Bytes(Len(v) + 1) \o Chars(Append(v, 0))
      [] type.kind = "list" ->
           Bytes(Len(v)) \o FlattenSeq([i \in DOMAIN v |-> Serialize(type.of, v[i])])
      [] type.kind = "message" ->
           LET body == FlattenSeq([i \in DOMAIN v |-> Serialize(type.fields[i], v[i])])
           IN  Bytes(Len(body)) \o body

(* CreateMemoryForSend: the size of the body, the id and the rpc id.       *)
Total(body) == Bytes(Len(body)) \o Bytes(0) \o Bytes(0) \o body

Body(type, v) == SubSeq(Serialize(type, v), SIZEOF_INT + 1, Len(Serialize(type, v)))

-----------------------------------------------------------------------------
(* Deserialize answers with the bytes it has used or an error, and a value.*)
Result(n, v) == [used |-> n, value |-> v]

From(data, place) == SubSeq(data, place + 1, Len(data))

(* Mutant: no data is too little data. *)
PrimaryOrError(size, data) ==
    IF Len(data) < size THEN Result(CARP_MESSAGE_DR_DATA_NOT_ENOUGH, 0)
    ELSE Result(size, data[1][2])

DeserializePrimary(size, data) ==
    IF data = <<>> THEN Result(CARP_MESSAGE_DR_NO_DATA, 0)
    ELSE IF Len(data) < size THEN Result(CARP_MESSAGE_DR_DATA_NOT_ENOUGH, 0)
    ELSE Result(size, data[1][2])

DeserializeString(data) ==
    LET rest == From(data, SIZEOF_INT)
        ends == {i \in DOMAIN rest : rest[i] = <<"char", 0>>}
        end == CHOOSE i \in ends : \A j \in ends : i <= j
    IN  IF Len(data) <= SIZEOF_INT THEN Result(CARP_MESSAGE_DR_DATA_NOT_ENOUGH, <<>>)
        ELSE IF data[1][2] <= 0 THEN Result(CARP_MESSAGE_DR_FLAG_LEN_NOT_ENOUGH, <<>>)
        ELSE IF data[1][2] > Len(rest) \/ ends = {}
          THEN Result(CARP_MESSAGE_DR_DATA_NOT_ENOUGH, <<>>)
        ELSE Result(data[1][2] + SIZEOF_INT, [i \in 1..(end - 1) |-> rest[i][2]])

(* One after another: the fields of a message, or the elements of a list.  *)
Fields(types, data) ==
    IF types = <<>> THEN Result(0, <<>>)
    ELSE LET first == Deserialize(Head(types), data)
             others == Fields(Tail(types), From(data, first.used))
         IN  IF first.used < 0 THEN first
             ELSE IF others.used < 0 THEN others
             ELSE Result(first.used + others.used, <<first.value>> \o others.value)

(* A message in another has its length: what the reader does not know of   *)
(* is passed over.                                                         *)
Nested(types, data) ==
    LET length == data[1][2]
        object == Fields(types, SubSeq(data, SIZEOF_INT + 1, SIZEOF_INT + length))
    IN  IF length < 0 THEN Result(CARP_MESSAGE_DR_FLAG_LEN_NOT_ENOUGH, <<>>)
        ELSE IF length > Len(data) - SIZEOF_INT
          THEN Result(CARP_MESSAGE_DR_DATA_NOT_ENOUGH, <<>>)
        ELSE IF object.used < 0 THEN object
        ELSE Result(length + SIZEOF_INT, object.value)

Deserialize(type, data) ==
    CASE type.kind = "char" -> DeserializePrimary(1, data)
      [] type.kind = "int" -> DeserializePrimary(SIZEOF_INT, data)
      [] type.kind \notin {"char", "int"} /\ data = <<>> ->
           Result(CARP_MESSAGE_DR_NO_DATA, Default(type))
      [] type.kind \notin {"char", "int"} /\ Len(data) \in 1..(SIZEOF_INT - 1) ->
           Result(CARP_MESSAGE_DR_DATA_NOT_ENOUGH, Default(type))
      [] type.kind = "string" /\ Len(data) >= SIZEOF_INT -> DeserializeString(data)
      [] type.kind = "list" /\ Len(data) >= SIZEOF_INT ->
           IF data[1][2] < 0 THEN Result(CARP_MESSAGE_DR_FLAG_LEN_NOT_ENOUGH, <<>>)
           ELSE LET all == Fields([i \in 1..data[1][2] |-> type.of], From(data, SIZEOF_INT))
                IN  IF all.used < 0 THEN all ELSE Result(all.used + SIZEOF_INT, all.value)
      [] type.kind = "message" /\ Len(data) >= SIZEOF_INT -> Nested(type.fields, data)

-----------------------------------------------------------------------------
(* Writing, sending and reading.                                           *)

Flat(type) == \A i \in DOMAIN type.fields : type.fields[i].kind \notin {"list", "message"}

Init ==
    \E i \in DOMAIN Cases : \E c \in Cases[i] :
        message = [case |-> c, value |-> c.value, stage |-> "writing",
                   m_memory |-> <<>>, m_size |-> 0, offsets |-> <<>>, rewrites |-> 0,
                   sent |-> <<>>, m_read_size |-> 0, m_last_read_size |-> 0,
                   used |-> 0, out |-> <<>>]

Sender == message.case.sender
Reader == message.case.reader

(* WritePrimaryType and WriteString of the next field: the memory grows as *)
(* far as it is needed, and keeps what was in it.                          *)
WriteField ==
    /\ message.stage = "writing" /\ Flat(Sender)
    /\ Len(message.offsets) < Len(Sender.fields)
    /\ LET i == Len(message.offsets) + 1
           bytes == Serialize(Sender.fields[i], message.value[i])
           size == message.m_size
       IN  message' = [message EXCEPT
                         !.m_memory = SubSeq(@, 1, size) \o bytes \o From(@, size + Len(bytes)),
                         !.m_size = size + Len(bytes), !.offsets = Append(@, size)]

(* An integer that is written is set to another value, the first's.        *)
SetInt ==
    /\ message.stage = "writing"
    /\ \E i \in DOMAIN message.offsets :
        LET place == message.offsets[i]
            bytes == Bytes(message.case.value[i] + 1)
        IN  /\ Sender.fields[i].kind = "int"
            /\ message' = [message EXCEPT
                             !.m_memory = SubSeq(@, 1, place) \o bytes
                                            \o From(@, place + SIZEOF_INT),
                             !.value[i] = message.case.value[i] + 1]

(* ResetOffset, after which another value is written.                      *)
ResetOffset ==
    /\ message.stage = "writing" /\ message.m_memory # <<>>
    /\ message.rewrites < RewriteLimit
    /\ \E i \in DOMAIN Cases : \E c \in Cases[i] :
        /\ c.sender = Sender /\ c.reader = Reader
        /\ message' = [message EXCEPT !.m_size = 0, !.offsets = <<>>, !.value = c.value,
                                      !.case = c, !.rewrites = @ + 1]

SendWritten ==
    /\ message.stage = "writing" /\ Flat(Sender)
    /\ Len(message.offsets) = Len(Sender.fields)
    /\ message' = [message EXCEPT !.stage = "sent",
                                  !.sent = Total(SubSeq(message.m_memory, 1, message.m_size))]

SendObject ==
    /\ message.stage = "writing" /\ message.m_memory = <<>>
    /\ message' = [message EXCEPT !.stage = "sent", !.sent = Total(Body(Sender, message.value))]

-----------------------------------------------------------------------------
(* The body, of the size that is in the head.                              *)
Received == SubSeq(message.sent, 3 * SIZEOF_INT + 1, 3 * SIZEOF_INT + message.sent[1][2])

DeserializeObject ==
    /\ message.stage = "sent"
    /\ LET object == Fields(Reader.fields, Received)
       IN  message' = [message EXCEPT !.stage = "read", !.used = object.used,
                                      !.out = object.value]

(* ReadPrimaryType and ReadString of the next field.                       *)
ReadField ==
    /\ message.stage \in {"sent", "reading"} /\ Flat(Reader)
    /\ Reader.fields # <<>>
    /\ LET type == Reader.fields[Len(message.out) + 1]
           read == message.m_read_size
           left == From(Received, read)
           size == IF type.kind = "string" THEN SIZEOF_INT + left[1][2]
                   ELSE IF type.kind = "int" THEN SIZEOF_INT ELSE 1
           value == IF type.kind = "string" THEN DeserializeString(left).value ELSE left[1][2]
           end == read >= Len(Received)
       IN  message' = [message EXCEPT
                         !.out = Append(@, IF end THEN Default(type) ELSE value),
                         !.m_read_size = IF end THEN @ ELSE @ + size,
                         !.m_last_read_size = IF end THEN -1 ELSE size,
                         !.stage = IF Len(message.out) + 1 = Len(Reader.fields)
                                     THEN "read" ELSE "reading"]

Next ==
    \/ WriteField \/ SetInt \/ ResetOffset \/ SendWritten \/ SendObject
    \/ DeserializeObject \/ ReadField

-----------------------------------------------------------------------------
(* What a reader of one version makes of a message of another: the fields  *)
(* they share, and defaults for those that the sender does not know.       *)
RECURSIVE Seen(_, _, _)
Seen(sender, reader, v) ==
    CASE reader.kind = "list" -> [i \in DOMAIN v |-> Seen(sender.of, reader.of, v[i])]
      [] reader.kind = "message" ->
           [i \in DOMAIN reader.fields |->
              IF i \in DOMAIN v THEN Seen(sender.fields[i], reader.fields[i], v[i])
              ELSE Default(reader.fields[i])]
      [] reader.kind \notin {"list", "message"} -> v

(* Messages are compatible between versions, which is what NO_DATA is for: *)
(* whoever knows more or fewer of the last fields of a message, or of one  *)
(* in it or in a list in it, reads the fields that both know, whether the  *)
(* message was written or read as an object or field by field, and whatever*)
(* was in the writer's memory before.                                      *)
VersionsUnderstood ==
    message.stage = "read" =>
      message.used >= 0 /\ message.out = Seen(Sender, Reader, message.value)
=============================================================================

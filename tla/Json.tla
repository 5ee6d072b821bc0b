-------------------------------- MODULE Json --------------------------------
(***************************************************************************)
(* CarpJson (carp_json.hpp): classes that the macros define field by field *)
(* (carp_json_1.hpp to carp_json_6.hpp), written as JSON, as a map of      *)
(* names to texts or as a string with separators, and read again, perhaps  *)
(* by a program with another version of the class.                         *)
(*                                                                         *)
(* rapidjson's text is the tree of values that it stands for.  A name and  *)
(* a string are sequences of characters, of which Decimal(n) stands for    *)
(* the digits of a number; numbers with fractions are counted in halves.   *)
(***************************************************************************)
EXTENDS Integers, Sequences, FiniteSetsExt, SequencesExt

CONSTANT JsonCases      \* what is written and read

VARIABLE json           \* the case, the reader's object and what is read

Text == INSTANCE Text WITH TextCases <- {}, text <- json

-----------------------------------------------------------------------------
(* Names and numbers as text.                                              *)

Decimal(n) == <<100000 + n>>
TRUE_TEXT == 90001
FALSE_TEXT == 90002
IsNumber(char) == char > 95000

(* std::atoi and std::atof *)
NumberOf(chars) == IF chars # <<>> /\ IsNumber(chars[1]) THEN chars[1] - 100000 ELSE 0

(* What a C string holds of a std::string. *)
CString(s) ==
    LET zeros == {i \in DOMAIN s : s[i] = 0}
    IN  IF zeros = {} THEN s ELSE SubSeq(s, 1, Min(zeros) - 1)

(* A cast to an integer of so many bits. *)
Cast(type, n) ==
    LET size == 2^type.bits
        rest == n % size
    IN  IF type.signed /\ rest >= size \div 2 THEN rest - size ELSE rest

(* A double in halves, to an integer: towards zero. *)
Truncated(halves) == IF halves >= 0 THEN halves \div 2 ELSE -((-halves) \div 2)

-----------------------------------------------------------------------------
(* Values of JSON.                                                         *)
Value(kind, of) == [json |-> kind, of |-> of]

Null == Value("null", 0)

Members(v, name) == SelectSeq(v.of, LAMBDA member : member.name = name)

(* What a field of the type is when it is made.  CarpSplitVectorJson has a *)
(* list `own` beside the `base` that it inherits.                          *)
RECURSIVE Default(_)
Default(type) ==
    CASE type.kind \in {"number", "double"} -> 0
      [] type.kind = "bool" -> FALSE
      [] type.kind = "set" -> {}
      [] type.kind \in {"class", "split"} ->
           [i \in DOMAIN type.fields |-> Default(type.fields[i].type)]
      [] type.kind = "splits" -> [own |-> <<>>, base |-> <<>>]
      [] OTHER -> <<>>

RECURSIVE Serialize(_, _)

(* Fields in the order of the macro. *)
SerializeClass(type, object) ==
    Value("object", [i \in DOMAIN type.fields |->
                       [name |-> type.fields[i].name,
                        value |-> Serialize(type.fields[i].type, object[i])]])

SerializeMap(type, object) ==
    LET name(key) == IF type.kind = "int map" THEN Decimal(key) ELSE key
    IN  Value("object",
              SetToSortSeq({[name |-> name(key), value |-> Serialize(type.of, object[key])] :
                              key \in DOMAIN object},
                           LAMBDA a, b : a.name[1] < b.name[1]))

SerializeList(type, list) ==
    Value("array", [i \in DOMAIN list |-> Serialize(type.of, list[i])])

(* Integers are written as they are, as are floats, but a long is cast to *)
(* an int and an unsigned long to an unsigned int, which `written` has the *)
(* bits of.                                                                *)
AsWritten(type, n) == Cast([type EXCEPT !.bits = type.written], n)

SerializeNumber(type, object) ==
    Value(type.kind, IF type.kind = "number" THEN AsWritten(type, object) ELSE object)

(* The base's Serialize knows nothing of a CarpSplitVectorJson's own list. *)
Serialize(type, object) ==
    CASE type.kind \in {"number", "double"} -> SerializeNumber(type, object)
      [] type.kind \in {"bool", "string"} -> Value(type.kind, object)
      [] type.kind \in {"list", "array"} -> SerializeList(type, object)
      [] type.kind = "set" -> SerializeList(type, SetToSortSeq(object, <))
      [] type.kind \in {"map", "int map"} -> SerializeMap(type, object)
      [] type.kind \in {"class", "split"} -> SerializeClass(type, object)
      [] type.kind = "splits" -> SerializeList(type, object.base)

-----------------------------------------------------------------------------
RECURSIVE Deserialize(_, _, _)

(* A member of an object.  Where it is missing, what is not a class is as  *)
(* new, but a class keeps what it held: its Deserialize is not called.     *)
DeserializeField(type, old, v, name) ==
    IF v.json = "object" /\ Members(v, name) # <<>>
      THEN Deserialize(type, old, Members(v, name)[1].value)
    ELSE IF type.kind \in {"class", "split", "array", "splits"} THEN old
    ELSE Default(type)

DeserializeClass(type, old, v) ==
    [i \in DOMAIN type.fields |->
        DeserializeField(type.fields[i].type, old[i], v, type.fields[i].name)]

DeserializeNumber(type, v) ==
    CASE v.json = "number" -> Cast(type, v.of)
      [] v.json = "double" -> Cast(type, Truncated(v.of))
      [] OTHER -> 0

DeserializeDouble(v) ==
    CASE v.json = "number" -> 2 * v.of [] v.json = "double" -> v.of [] OTHER -> 0

(* Mutant: a list is added to what there is.                               *)
DeserializeListAdded(type, old, v) ==
    IF v.json # "array" THEN old
    ELSE old \o [i \in DOMAIN v.of |-> Deserialize(type.of, Default(type.of), v.of[i])]

DeserializeList(type, old, v) ==
    IF v.json # "array" THEN <<>>
    ELSE [i \in DOMAIN v.of |-> Deserialize(type.of, Default(type.of), v.of[i])]

(* Of names that are one key the last is what stays. *)
DeserializeMap(type, v) ==
    LET key(i) == IF type.kind = "int map" THEN NumberOf(v.of[i].name) ELSE CString(v.of[i].name)
        last(k) == Max({i \in DOMAIN v.of : key(i) = k})
    IN  IF v.json # "object" THEN <<>>
        ELSE [k \in {key(i) : i \in DOMAIN v.of} |->
                DeserializeField(type.of, Default(type.of), v, v.of[last(k)].name)]

Deserialize(type, old, v) ==
    CASE type.kind = "number" -> DeserializeNumber(type, v)
      [] type.kind = "double" -> DeserializeDouble(v)
      [] type.kind = "bool" -> v.json = "bool" /\ v.of
      [] type.kind = "string" -> IF v.json = "string" THEN CString(v.of) ELSE <<>>
      [] type.kind \in {"list", "array"} -> DeserializeList(type, old, v)
      [] type.kind = "set" -> ToSet(DeserializeList(type, <<>>, v))
      [] type.kind \in {"map", "int map"} -> DeserializeMap(type, v)
      [] type.kind \in {"class", "split"} -> DeserializeClass(type, old, v)
      [] type.kind = "splits" -> [old EXCEPT !.base = DeserializeList(type, <<>>, v)]

-----------------------------------------------------------------------------
(* Fields as texts: characters, or a tree that is written as JSON.         *)
Chars(chars) == [chars |-> chars]
Tree(tree) == [tree |-> tree]

(* std::map: names in their order, which is not the order of the fields.   *)
Ordered(names) == SetToSortSeq(names, LAMBDA a, b : a[1] < b[1])

NameList(type) == [i \in DOMAIN type.fields |-> type.fields[i].name]

NameOrder(type) == Ordered(ToSet(NameList(type)))

RECURSIVE SerializeString(_, _)

SerializeValueMap(type, object) ==
    [name \in ToSet(NameList(type)) |->
        LET i == CHOOSE i \in DOMAIN type.fields : type.fields[i].name = name
        IN  SerializeString(type.fields[i].type, object[i])]

(* WriteToString of CarpSplitStringJson and of CarpSplitVectorJson. *)
WriteSplit(type, object) ==
    LET value_map == SerializeValueMap(type, object)
        names == NameOrder(type)
    IN  Text!Join([i \in DOMAIN names |-> value_map[names[i]].chars], type.split)

WriteSplits(type, object) ==
    Text!Join([i \in DOMAIN object.own |-> SerializeString(type.of, object.own[i]).chars], type.split)

SerializeString(type, object) ==
    CASE type.kind = "number" -> Chars(Decimal(object))
      [] type.kind = "bool" -> Chars(<<IF object THEN TRUE_TEXT ELSE FALSE_TEXT>>)
      [] type.kind = "string" -> Chars(object)
      [] type.kind = "split" -> Chars(WriteSplit(type, object))
      [] type.kind = "splits" -> Chars(WriteSplits(type, object))
      [] OTHER -> Tree(Serialize(type, object))

RECURSIVE DeserializeString(_, _, _)

(* A field whose text is missing is made anew. *)
DeserializeValueMap(type, old, value_map) ==
    [i \in DOMAIN type.fields |->
        LET field == type.fields[i]
        IN  IF field.name \in DOMAIN value_map
              THEN DeserializeString(field.type, old[i], value_map[field.name])
              ELSE Default(field.type)]

(* ReadFromString: the texts, by position, of the fields as the macro has  *)
(* them.                                                                   *)
ReadSplit(type, in) ==
    LET split_list == Text!Split(in, type.split, FALSE)
        names == NameList(type)
        count == Min({Len(split_list), Len(names)})
        value_map == [name \in {names[i] : i \in 1..count} |->
                        Chars(split_list[CHOOSE i \in 1..count : names[i] = name])]
    IN  DeserializeValueMap(type, Default(type), value_map)

(* Reset is the base's: what is read is added to the own list. *)
ReadSplits(type, old, in) ==
    LET split_list == Text!Split(in, type.split, FALSE)
        read == [i \in DOMAIN split_list |->
                   DeserializeString(type.of, Default(type.of), Chars(split_list[i]))]
    IN  [own |-> old.own \o read, base |-> <<>>]

DeserializeString(type, old, s) ==
    CASE type.kind = "string" -> s.chars
      [] type.kind = "bool" -> s.chars = <<TRUE_TEXT>>
      [] type.kind = "number" -> Cast(type, NumberOf(s.chars))
      [] type.kind = "split" -> ReadSplit(type, s.chars)
      [] type.kind = "splits" -> ReadSplits(type, old, s.chars)
      [] OTHER -> Deserialize(type, old, s.tree)

-----------------------------------------------------------------------------
(* Objects of perhaps several versions of a class are written in one of    *)
(* four ways, and read one after the other into one object.                *)

Reader == json.case.reader

Init ==
    \E i \in DOMAIN JsonCases : \E case \in JsonCases[i] :
        json = [case |-> case, object |-> Default(case.reader), reads |-> <<>>]

More == Len(json.reads) < 2

(* Any sender's value is read, the object being as Reading has it then. *)
Read(way, Reading(_, _)) ==
    /\ More /\ json.case.way = way
    /\ \E i \in DOMAIN json.case.senders :
          LET sender == json.case.senders[i]
          IN  \E value \in sender.values :
                 json' = [json EXCEPT !.object = Reading(sender.type, value),
                                      !.reads = Append(@, [sender |-> sender.type, value |-> value])]

(* WriteToString, and ReadFromString, which resets the object first. *)
ReadFromString ==
    Read("json", LAMBDA type, value :
                    Deserialize(Reader, Default(Reader), Serialize(type, value)))

(* A text that cannot be parsed leaves the object as new. *)
ReadFails ==
    /\ More /\ json.case.way = "json" /\ json.reads # <<>>
    /\ json' = [json EXCEPT !.object = Default(Reader), !.reads = <<>>]

(* Serialize and Deserialize, which does not. *)
ReadValue ==
    Read("value", LAMBDA type, value : Deserialize(Reader, json.object, Serialize(type, value)))

ReadValueMap ==
    Read("map", LAMBDA type, value :
                   DeserializeValueMap(Reader, json.object, SerializeValueMap(type, value)))

(* WriteToString and ReadFromString of what is split. *)
ReadSplitString ==
    Read("split", LAMBDA type, value :
                     DeserializeString(Reader, json.object, SerializeString(type, value)))

Next == ReadFromString \/ ReadFails \/ ReadValue \/ ReadValueMap \/ ReadSplitString

-----------------------------------------------------------------------------
(* What a reader of its own type should understand of a value: the fields  *)
(* that both have, as far as their types go, and else what is new.  Lists  *)
(* are understood as sets, and objects as maps; a long is an int.          *)
Elements(type, value) == IF type.kind = "set" THEN SetToSortSeq(value, <) ELSE value

(* A class or a map as names with values and their types. *)
Entries(type, value) ==
    CASE type.kind \in {"class", "split"} ->
           [name \in {type.fields[i].name : i \in DOMAIN type.fields} |->
              LET i == CHOOSE i \in DOMAIN type.fields : type.fields[i].name = name
              IN  <<type.fields[i].type, value[i]>>]
      [] type.kind = "map" -> [name \in DOMAIN value |-> <<type.of, value[name]>>]
      [] OTHER -> [name \in {Decimal(key) : key \in DOMAIN value} |->
                     <<type.of, value[NumberOf(name)]>>]

RECURSIVE Understood(_, _, _)
Understood(reader, sender, value) ==
    LET both(kinds) == reader.kind \in kinds /\ sender.kind \in kinds
        elements == [i \in DOMAIN Elements(sender, value) |->
                       Understood(reader.of, sender.of, Elements(sender, value)[i])]
        entries == Entries(sender, value)
        entry(type, name) == Understood(type, entries[name][1], entries[name][2])
        key(name) == IF reader.kind = "int map" THEN NumberOf(name) ELSE name
        last(k) == CHOOSE name \in DOMAIN entries :
                      /\ key(name) = k
                      /\ \A other \in DOMAIN entries : key(other) = k => other[1] <= name[1]
    IN  CASE both({"double"}) \/ both({"bool"}) -> value
          [] both({"number", "double"}) /\ reader.kind = "double" -> 2 * AsWritten(sender, value)
          [] both({"number", "double"}) ->
               Cast(reader, IF sender.kind = "double" THEN Truncated(value)
                            ELSE AsWritten(sender, value))
          [] both({"string"}) -> CString(value)
          [] both({"list", "array", "set"}) ->
               IF reader.kind = "set" THEN ToSet(elements) ELSE elements
          [] both({"map", "int map", "class", "split"}) ->
               IF reader.kind \in {"map", "int map"}
                 THEN [k \in {key(name) : name \in DOMAIN entries} |-> entry(reader.of, last(k))]
                 ELSE [i \in DOMAIN reader.fields |->
                         LET field == reader.fields[i]
                         IN  IF field.name \in DOMAIN entries THEN entry(field.type, field.name)
                             ELSE Default(field.type)]
          [] both({"splits"}) ->
               [own |-> [i \in DOMAIN value.own |-> Understood(reader.of, sender.of, value.own[i])],
                base |-> <<>>]
          [] OTHER -> Default(reader)

(* An object that is not reset: a class or an array that the last sender   *)
(* lacks is as the last one that had it said, if one did.                  *)
UnderstoodField(i) ==
    LET field == Reader.fields[i]
        has(k) == field.name \in ToSet(NameList(json.reads[k].sender))
        said == {k \in DOMAIN json.reads : has(k)}
        k == IF field.type.kind \in {"class", "array"} /\ said # {}
               THEN Max(said) ELSE Len(json.reads)
    IN  Understood(Reader, json.reads[k].sender, json.reads[k].value)[i]

(* The fields of a split string go by position: the writer has them in the *)
(* order of their names, the reader in that of the macro.                  *)
ByPosition(sender, value) ==
    [i \in DOMAIN Reader.fields |->
        LET type == Reader.fields[i].type
            names == NameOrder(sender)
        IN  IF i \notin DOMAIN names THEN Default(type)
            ELSE DeserializeString(type, Default(type),
                                   SerializeValueMap(sender, value)[names[i]])]

(* A vector of them is added to; one of a single empty text is none.       *)
Added(k) ==
    LET read == json.reads[k]
    IN  IF SerializeString(read.sender, read.value).chars = <<>> THEN <<>>
        ELSE Understood(Reader, read.sender, read.value).own

(* What was read last is what was sent last, whatever the object held and  *)
(* whichever version of its class the reader has.  Where the code does not *)
(* go so far, the property says what it keeps: a class in an object that   *)
(* is not reset, the places of split strings, vectors of these, and of a   *)
(* long the bits of an int.                                                *)
JsonKept ==
    LET last == Last(json.reads)
        text == SerializeString(last.sender, last.value).chars
        in_order == NameOrder(last.sender) = NameList(last.sender)
        expected == Understood(Reader, last.sender, last.value)
    IN  json.reads # <<>> =>
          CASE json.case.way \in {"json", "map"} -> json.object = expected
            [] json.case.way = "value" ->
                 json.object = [i \in DOMAIN Reader.fields |-> UnderstoodField(i)]
            [] json.case.way = "split" /\ Reader.kind = "split" ->
                 text # <<>> =>
                   /\ in_order => json.object = expected
                   /\ json.object = ByPosition(last.sender, last.value)
            [] json.case.way = "split" /\ Reader.kind = "splits" ->
                 json.object =
                   [own |-> FlattenSeq([k \in DOMAIN json.reads |-> Added(k)]), base |-> <<>>]
=============================================================================

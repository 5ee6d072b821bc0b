-------------------------------- MODULE Text --------------------------------
(***************************************************************************)
(* CarpString (carp_string.hpp): splitting, joining and escaping strings,  *)
(* and UTF-8; and CarpCsv (carp_csv.hpp), which reads a table of cells.    *)
(* A character is its code, a byte a number under 256.                     *)
(***************************************************************************)
EXTENDS Integers, Sequences, SequencesExt

CONSTANT TextCases      \* what is put to them

VARIABLE text

TAB == 9
LF == 10
CR == 13
QUOTE == 34
COMMA == 44
BACKSLASH == 92

(* The zero after the end of a C string. *)
At(str, i) == IF i \in DOMAIN str THEN str[i] ELSE 0

-----------------------------------------------------------------------------
(* Splitting and joining.                                                  *)

(* find: where `split` next is, or 0. *)
Find(content, split, start) ==
    LET places == {i \in start..(Len(content) - Len(split) + 1) :
                     SubSeq(content, i, i + Len(split) - 1) = split}
    IN  IF places = {} THEN 0 ELSE CHOOSE i \in places : \A j \in places : i <= j

Pieces(content, split) ==
    LET from[start \in 1..(Len(content) + Len(split) + 1)] ==
            LET pos == Find(content, split, start)
            IN  IF pos > 0
                  THEN <<SubSeq(content, start, pos - 1)>> \o from[pos + Len(split)]
                  ELSE <<SubSeq(content, start, Len(content))>>
    IN  from[1]

(* With an empty separator the program goes round for ever.                *)
Split(content, split, ignore_empty) ==
    IF content = <<>> THEN <<>>
    ELSE SelectSeq(Pieces(content, split), LAMBDA v : ~(ignore_empty /\ v = <<>>))

Join(container, split) ==
    FlattenSeq([i \in DOMAIN container |->
                  IF i < Len(container) THEN container[i] \o split ELSE container[i]])

DoubleQuoteEscape(value) ==
    FlattenSeq([i \in DOMAIN value |->
                  CASE value[i] \in {BACKSLASH, QUOTE} -> <<value[i], value[i]>>
                    [] value[i] = TAB -> <<BACKSLASH, 116>>
                    [] value[i] = CR -> <<BACKSLASH, 114>>
                    [] value[i] = LF -> <<BACKSLASH, 110>>
                    [] OTHER -> <<value[i]>>])

-----------------------------------------------------------------------------
(* UTF-8.  The program tests and masks the highest bits of a byte: `Lead`  *)
(* of n is a byte with n of them set, and `Bits` what follows.             *)

Continues(byte) == byte \div 64 = 2

Lead(byte) ==
    CASE byte < 128 -> 0
      [] Continues(byte) -> 1
      [] byte \div 32 = 6 -> 2
      [] byte \div 16 = 14 -> 3
      [] byte \div 8 = 30 -> 4
      [] byte \div 4 = 62 -> 5
      [] byte \div 2 = 126 -> 6
      [] OTHER -> 7

Bits(byte) == byte % (CASE Lead(byte) = 0 -> 128 [] Lead(byte) = 1 -> 64
                        [] Lead(byte) = 2 -> 32 [] Lead(byte) = 3 -> 16
                        [] Lead(byte) = 4 -> 8 [] Lead(byte) = 5 -> 4 [] OTHER -> 2)

(* The code of the word of n bytes at i. *)
Code(str, i, n) ==
    LET of[k \in 1..n] == IF k = 1 THEN Bits(str[i])
                                   ELSE of[k - 1] * 64 + Bits(str[i + k - 1])
    IN  of[n]

(* Mutant: a word may be longer than it needs to be.                       *)
WellFormedOverlong(str, i) ==
    LET n == Lead(str[i])
    IN  /\ n \in {0, 2, 3, 4}
        /\ \A k \in 1..(n - 1) : Continues(At(str, i + k))

(* Overlong words, surrogates and codes that are too large are refused.    *)
WellFormed(str, i) ==
    LET n == Lead(str[i])
        next == At(str, i + 1)
    IN  /\ n \in {0, 2, 3, 4}
        /\ \A k \in 1..(n - 1) : Continues(At(str, i + k))
        /\ str[i] \notin {192, 193} /\ str[i] <= 244
        /\ str[i] = 224 => next >= 160
        /\ str[i] = 237 => next <= 159
        /\ str[i] = 240 => next >= 144
        /\ str[i] = 244 => next <= 143

(* A code over 65535 takes two words of a std::wstring. *)
Units(code) ==
    IF code < 65536 THEN <<code>>
    ELSE LET c == code - 65536 IN <<55296 + ((c \div 1024) % 1024), 56320 + (c % 1024)>>

WordSize(str, i) == IF Lead(str[i]) = 0 THEN 1 ELSE Lead(str[i])

(* Up to the first word that is not well-formed. *)
UTF82Unicode(str) ==
    LET from[i \in 1..(Len(str) + 1)] ==
            IF At(str, i) = 0 \/ ~WellFormed(str, i) THEN <<>>
            ELSE Units(Code(str, i, WordSize(str, i))) \o from[i + WordSize(str, i)]
    IN  from[1]

(* The bytes of a code: n of them, of which the first bears `mark`. *)
Encoded(code, n, mark) ==
    [k \in 1..n |-> LET part == code \div (64^(n - k))
                    IN  IF k = 1 THEN mark + part ELSE 128 + (part % 64)]

Unicode2UTF8(unicode) ==
    LET from[i \in 1..(Len(unicode) + 2)] ==
            LET c == At(unicode, i)
            IN  CASE c = 0 -> <<>>
                  [] c \in 1..127 -> <<c>> \o from[i + 1]
                  [] c \in 128..2047 -> Encoded(c, 2, 192) \o from[i + 1]
                  [] c \in 55296..56319 ->
                       Encoded((c - 55296) * 1024 + At(unicode, i + 1) - 56320 + 65536, 4, 240)
                         \o from[i + 2]
                  [] c \in 56320..57343 -> <<>>
                  [] OTHER -> Encoded(c, 3, 224) \o from[i + 1]
    IN  from[1]

(* How many bits are set from the highest on. *)
UTF8GetByteCountOfOneWord(first_char) ==
    IF first_char < 128 THEN 1
    ELSE IF first_char = 255 THEN 8 ELSE Lead(first_char)

(* It runs over the end of a string that ends within a word.               *)
(* Of no word, or fewer, the first is still counted. *)
UTF8CalcByteCountByWordCount(str, offset, word_count) ==
    LET words == IF word_count < 1 THEN 1 ELSE word_count
        after[n \in 0..words] ==
            IF n = 0 THEN offset
            ELSE LET index == after[n - 1]
                 IN  IF At(str, index + 1) = 0 THEN index
                     ELSE index + UTF8GetByteCountOfOneWord(str[index + 1])
    IN  after[words] - offset

UTF8CalcWordCount(str) ==
    LET counted[index \in 0..(Len(str) + 8)] ==
            IF At(str, index + 1) = 0 THEN 0
            ELSE 1 + counted[index + UTF8GetByteCountOfOneWord(str[index + 1])]
    IN  counted[0]

UNKNOWN_UNICODE == 65533

(* The code of the first word of src, and how many bytes it takes.         *)
GetOneUnicodeFromUTF8(src) ==
    LET left == IF Lead(src[1]) \in 2..6 THEN Lead(src[1]) - 1 ELSE 0
        bad == {k \in 1..left : k + 1 <= Len(src) /\ ~Continues(src[k + 1])}
        read == IF bad # {} THEN (CHOOSE k \in bad : \A j \in bad : k <= j) - 1
                ELSE IF left < Len(src) THEN left ELSE Len(src) - 1
        code == Code(src, 1, left + 1)
        known == /\ Lead(src[1]) \notin {1, 7} /\ read = left
                 /\ code \notin 55296..57343 \cup {65534, 65535} /\ code <= 1114111
    IN  [code |-> IF known THEN code ELSE UNKNOWN_UNICODE, increase |-> read + 1]

-----------------------------------------------------------------------------
(* CarpCsv.  ReadFile takes a character at a time and knows the next.      *)

NewSheet == [m_data |-> <<>>, row |-> <<>>, cell |-> <<>>, in_quote |-> FALSE, fault |-> FALSE]

Throw(s) == [s EXCEPT !.m_data = <<>>, !.fault = TRUE]

(* All rows have as many columns as the first. *)
AddRow(s) ==
    IF s.m_data # <<>> /\ Len(s.row) # Len(s.m_data[1]) THEN Throw(s)
    ELSE [s EXCEPT !.m_data = Append(@, s.row), !.row = <<>>]

EndCell(s) == [s EXCEPT !.row = Append(@, s.cell), !.cell = <<>>]

AddChar(s, char) == [s EXCEPT !.cell = Append(@, char)]

InQuote(s, cur, next) ==
    CASE cur = QUOTE /\ next # QUOTE ->
           LET closed == [s EXCEPT !.in_quote = FALSE]
           IN  IF next = 0 THEN AddRow(EndCell(closed)) ELSE closed
      [] next = 0 -> Throw(s)
      [] OTHER -> AddChar(s, cur)

OutOfQuote(s, cur, next) ==
    CASE cur = COMMA ->
           IF next = 0 THEN AddRow(EndCell(EndCell(s))) ELSE EndCell(s)
      [] cur = LF -> AddRow(EndCell(s))
      [] cur = QUOTE ->
           IF next = 0 THEN Throw(s)
           ELSE IF s.cell = <<>> THEN [s EXCEPT !.in_quote = TRUE] ELSE AddChar(s, cur)
      [] OTHER ->
           LET added == IF cur = CR /\ next = LF THEN s ELSE AddChar(s, cur)
           IN  IF next = 0 THEN AddRow(EndCell(added)) ELSE added

(* A quote that is doubled takes both characters; it may not be the last.  *)
Doubled(s, file, i) == s.in_quote /\ file[i] = QUOTE /\ At(file, i + 1) = QUOTE

Taken(s, file, i) ==
    IF Doubled(s, file, i)
      THEN IF At(file, i + 2) = 0 THEN Throw(s) ELSE AddChar(s, QUOTE)
    ELSE IF s.in_quote THEN InQuote(s, file[i], At(file, i + 1))
    ELSE OutOfQuote(s, file[i], At(file, i + 1))

(* A file of one character is one cell, whatever the character.            *)
ReadFile(file) ==
    LET after[i \in 1..Len(file)] ==    \* and the place after the character
            LET before == IF i = 1 THEN <<NewSheet, 1>> ELSE after[i - 1]
                taken == Taken(before[1], file, i)
            IN  IF before[2] > i \/ before[1].fault THEN before
                ELSE <<taken, IF Doubled(before[1], file, i) THEN i + 2 ELSE i + 1>>
    IN  CASE file = <<>> \/ 0 \in {file[i] : i \in DOMAIN file} -> Throw(NewSheet)
          [] Len(file) = 1 -> [NewSheet EXCEPT !.m_data = <<<<file>>>>]
          [] OTHER -> after[Len(file)][1]

ReadCell(s, row, col) ==
    IF row \in DOMAIN s.m_data /\ col \in DOMAIN s.m_data[row]
      THEN s.m_data[row][col] ELSE <<>>

-----------------------------------------------------------------------------
(* How a table is written (RFC 4180): a cell with one of the special       *)
(* characters is quoted; rows end with LF or CR LF, the last one if `end`. *)
WrittenCell(cell) ==
    LET escaped == FlattenSeq([i \in DOMAIN cell |->
                     IF cell[i] = QUOTE THEN <<QUOTE, QUOTE>> ELSE <<cell[i]>>])
    IN  IF \E i \in DOMAIN cell : cell[i] \in {QUOTE, COMMA, CR, LF}
          THEN <<QUOTE>> \o escaped \o <<QUOTE>> ELSE cell

Written(table, eol, end) ==
    LET rows == [r \in DOMAIN table |->
                   Join([c \in DOMAIN table[r] |-> WrittenCell(table[r][c])], <<COMMA>>)]
    IN  Join(rows, eol) \o (IF end THEN eol ELSE <<>>)

-----------------------------------------------------------------------------
Init == text \in TextCases

(* What is joined is split again, unless an element has a character of the *)
(* separator (and unless there is but one, empty element, which is lost).  *)
SplitsWhatIsJoined(list, split) ==
    list # <<<<>>>> =>
      /\ Split(Join(list, split), split, FALSE) = list
      /\ Split(Join(list, split), split, TRUE) = SelectSeq(list, LAMBDA v : v # <<>>)

(* Of any bytes, the words up to the first that is not one are understood, *)
(* and written as they were; and the three ways to take a word agree.      *)
Utf8Understood(str) ==
    LET back == Unicode2UTF8(UTF82Unicode(str))
    IN  /\ IsPrefix(back, str)
        /\ str # back => ~WellFormed(str, Len(back) + 1)
        /\ LET words == UTF8CalcWordCount(back)
           IN  UTF8CalcByteCountByWordCount(back, 0, words) = Len(back)
        /\ back # <<>> =>
             LET word == GetOneUnicodeFromUTF8(str)
             IN  /\ word.increase = WordSize(str, 1)
                 /\ UTF82Unicode(SubSeq(str, 1, word.increase)) = Units(word.code)
                      \/ word.code = UNKNOWN_UNICODE

(* Different strings are different when they are escaped.                  *)
EscapesDiffer(a, b) == DoubleQuoteEscape(a) = DoubleQuoteEscape(b) => a = b

(* A table that has been written is read.  (A file that is one comma or one*)
(* line feed is read as that character: ReadFile's first lines.)           *)
TableRead(table, eol, end) ==
    LET file == Written(table, eol, end)
        sheet == ReadFile(file)
    IN  Len(file) > 1 /\ (table[Len(table)] = <<<<>>>> => end) =>
          /\ ~sheet.fault /\ Len(sheet.m_data) = Len(table)
          /\ \A r \in DOMAIN table : \A c \in 1..(Len(table[r]) + 1) :
                ReadCell(sheet, r, c) = IF c \in DOMAIN table[r] THEN table[r][c] ELSE <<>>

(* Strings, words and tables are taken apart as they were put together.    *)
TextKept ==
    CASE text.kind = "split" -> SplitsWhatIsJoined(text.list, text.split)
      [] text.kind = "utf8" -> Utf8Understood(text.bytes)
      [] text.kind = "escape" -> EscapesDiffer(text.a, text.b)
      [] text.kind = "csv" -> TableRead(text.table, text.eol, text.end)
=============================================================================

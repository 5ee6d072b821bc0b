----------------------------- MODULE StringSet -----------------------------
(***************************************************************************)
(* CarpStringSet (carp_string_set.hpp), a set of strings of digits: a tree *)
(* whose nodes stand for a range of characters, min to max, with the same  *)
(* strings below.  A list of brothers is a sequence, in the order of their *)
(* ranges, and the first of the top is m_root, which stands for character 0*)
(* Digits are numbers above 1, so that m_root touches none of them.        *)
(***************************************************************************)
EXTENDS Integers, Sequences, FiniteSets, SequencesExt

CONSTANT StringLimits   \* bounds of the model: which strings, and how many calls

VARIABLE set

Strings == UNION {[1..n -> set.limit.digits] : n \in 1..set.limit.length}

Node(c) == [min |-> c, max |-> c, flag |-> FALSE, child |-> <<>>]

(* `content` is what the calls should have made of the set, `calls` how    *)
(* many there were, and `alike` whether Combine merged only like brothers. *)
Init ==
    \E l \in StringLimits :
        set = [brothers |-> <<Node(0)>>, m_size |-> 0, content |-> {},
               calls |-> 0, alike |-> TRUE, limit |-> l]

RECURSIVE Find(_, _), Inserted(_, _), Erased(_, _), Combined(_), AllAlike(_)

-----------------------------------------------------------------------------
(* The node for c among the brothers, or 0.                                *)
Place(brothers, c) ==
    LET places == {i \in DOMAIN brothers : brothers[i].min <= c /\ c <= brothers[i].max}
    IN  IF places = {} THEN 0 ELSE CHOOSE i \in places : TRUE

Find(brothers, number) ==
    LET i == Place(brothers, Head(number))
    IN  /\ i # 0
        /\ IF Len(number) = 1 THEN brothers[i].flag
           ELSE brothers[i].child # <<>> /\ Find(brothers[i].child, Tail(number))

(* Mutant: the parts beside c get none of its children. *)
SplitBare(n, c) ==
    SelectSeq(<<[n EXCEPT !.max = c - 1, !.child = <<>>], [n EXCEPT !.min = c, !.max = c],
                [n EXCEPT !.min = c + 1]>>,
              LAMBDA part : part.min <= part.max)

(* The node n, of more than c, becomes up to three.                        *)
Split(n, c) ==
    SelectSeq(<<[n EXCEPT !.max = c - 1], [n EXCEPT !.min = c, !.max = c],
                [n EXCEPT !.min = c + 1]>>,
              LAMBDA part : part.min <= part.max)

(* The brothers, with a node for c alone.                                  *)
WithNode(brothers, c) ==
    LET i == Place(brothers, c)
        lower == SelectSeq(brothers, LAMBDA n : n.max < c)
        higher == SelectSeq(brothers, LAMBDA n : n.min > c)
    IN  lower \o (IF i = 0 THEN <<Node(c)>> ELSE Split(brothers[i], c)) \o higher

Inserted(brothers, number) ==
    LET list == WithNode(brothers, Head(number))
        i == Place(list, Head(number))
    IN  IF Len(number) = 1 THEN [list EXCEPT ![i].flag = TRUE]
        ELSE [list EXCEPT ![i].child = Inserted(@, Tail(number))]

(* After Insert: the flag is taken away, and from below upwards the nodes  *)
(* without a flag, of which no child has a flag or a child.  `goes_on` says*)
(* whether a node was taken away.                                          *)
Erased(brothers, number) ==
    LET i == Place(brothers, Head(number))
        below == Erased(brothers[i].child, Tail(number))
        node == IF Len(number) = 1 THEN [brothers[i] EXCEPT !.flag = FALSE]
                ELSE [brothers[i] EXCEPT !.child = below.list]
        empty == /\ Len(number) = 1 \/ below.goes_on
                 /\ ~node.flag
                 /\ \A j \in DOMAIN node.child : ~node.child[j].flag /\ node.child[j].child = <<>>
    IN  [goes_on |-> empty,
         list |-> IF empty THEN RemoveAt(brothers, i) ELSE [brothers EXCEPT ![i] = node]]

-----------------------------------------------------------------------------
(* CombineBrother: a node takes in its next brother when the ranges touch  *)
(* and their children are equal by Compare, which looks no deeper, and at  *)
(* neither brother's flag.                                                 *)
Touching(n, brother) == n.max + 1 >= brother.min

Compare(n, brother) == n.flag = brother.flag /\ n.min = brother.min /\ n.max = brother.max

SameChildren(n, brother) ==
    /\ Len(n.child) = Len(brother.child)
    /\ \A i \in DOMAIN n.child : Compare(n.child[i], brother.child[i])

Combined(brothers) ==
    IF brothers = <<>> THEN <<>>
    ELSE LET n == [brothers[1] EXCEPT !.child = Combined(@)]
             rest == Combined(Tail(brothers))
         IN  IF rest # <<>> /\ Touching(n, rest[1]) /\ SameChildren(n, rest[1])
               THEN <<[n EXCEPT !.max = rest[1].max]>> \o Tail(rest)
               ELSE <<n>> \o rest

(* Wherever Combine merges, the brothers stand for the same strings.       *)
AllAlike(brothers) ==
    \/ brothers = <<>>
    \/ LET n == [brothers[1] EXCEPT !.child = Combined(@)]
           rest == Combined(Tail(brothers))
       IN  /\ AllAlike(brothers[1].child) /\ AllAlike(Tail(brothers))
           /\ rest # <<>> /\ Touching(n, rest[1]) /\ SameChildren(n, rest[1])
                => n.flag = rest[1].flag /\ n.child = rest[1].child

-----------------------------------------------------------------------------
Calling == set.calls < set.limit.calls

Insert(number) ==
    /\ Calling
    /\ set' = [set EXCEPT !.brothers = Inserted(@, number),
                          !.m_size = IF Find(set.brothers, number) THEN @ ELSE @ + 1,
                          !.content = @ \cup {number}, !.calls = @ + 1]

Erase(number) ==
    /\ Calling
    /\ LET found == Find(set.brothers, number)
           split == Inserted(set.brothers, number)
       IN  set' = [set EXCEPT !.brothers = IF found THEN Erased(split, number).list ELSE @,
                              !.m_size = IF found THEN @ - 1 ELSE @,
                              !.content = @ \ {number}, !.calls = @ + 1]

Combine ==
    /\ Calling
    /\ set' = [set EXCEPT !.brothers = Combined(@), !.calls = @ + 1,
                          !.alike = @ /\ AllAlike(set.brothers)]

Next ==
    \/ \E number \in Strings : Insert(number) \/ Erase(number)
    \/ Combine

-----------------------------------------------------------------------------
(* The tree is a set: Find finds what was inserted and not erased, and     *)
(* m_size counts it, whatever was split, taken away and merged in between. *)
(* It is one as long as Combine merged only brothers with the same strings;*)
(* where grandchildren or the brothers' own flags differ, Combine merges   *)
(* them too, and then strings are lost and others are found.               *)
IsASet ==
    set.alike =>
      /\ {number \in Strings : Find(set.brothers, number)} = set.content
      /\ set.m_size = Cardinality(set.content)
=============================================================================

------------------------------ MODULE LZData ------------------------------
(***************************************************************************)
(* The tree of named values of the LZData library: findChild, read, write  *)
(* and the trimming of text.  A text is a sequence of characters, a tree   *)
(* is a node with its children; indices of children start at 0 as in the   *)
(* code, so that its comparisons can be written as they are.               *)
(***************************************************************************)
EXTENDS Integers, Sequences, SequencesExt

Blanks == {" ", "TAB", "LF", "CR"}

\* What follows the first character of the text that is in stops, with it.
From(text, stops) ==
    LET at == SelectInSeq(text, LAMBDA c : c \in stops)
    IN  IF at = 0 THEN <<>> ELSE SubSeq(text, at, Len(text))

\* What stands before that character.
UpTo(text, stops) == SubSeq(text, 1, Len(text) - Len(From(text, stops)))

LTrim(text) ==
    LET at == SelectInSeq(text, LAMBDA c : c \notin Blanks)
    IN  IF at = 0 THEN <<>> ELSE SubSeq(text, at, Len(text))

RTrim(text) == Reverse(LTrim(Reverse(text)))

Trim(text) == RTrim(LTrim(text))

\* printTable: the indentation of a line.
Table(depth) == [n \in 1 .. depth |-> "TAB"]

-----------------------------------------------------------------------------
Node(tag, value) == [tag |-> tag, value |-> value, children |-> <<>>]

NoNode == Node(<<"no node">>, <<>>)

Root == Node(<<"r", "o", "o", "t">>, <<>>)

AddChild(node, child) == [node EXCEPT !.children = Append(@, child)]

GetChild(node, i) == node.children[i + 1]

\* The first child of that name, -1 if there is none.
FindChild(node, tag) == SelectInSeq(node.children, LAMBDA c : c.tag = tag) - 1

\* Variant of IsPath: names are separated by dots.
IsDotted(tag) == \E n \in DOMAIN tag : tag[n] = "."

\* A tag is a path: its first name, and what follows the first '/'.
IsPath(tag)   == \E n \in DOMAIN tag : tag[n] = "/"
FirstName(tag) == UpTo(tag, {"/"})
OtherNames(tag) == Tail(From(tag, {"/"}))

RECURSIVE Read(_, _)
Read(node, tag) ==
    LET i == FindChild(node, FirstName(tag))
    IN  IF i < 0 THEN NoNode
        ELSE IF ~IsPath(tag) THEN GetChild(node, i)
        ELSE Read(GetChild(node, i), OtherNames(tag))

SetChild(node, i, child) == [node EXCEPT !.children[i + 1] = child]

\* Variant of SetValue: the second child is taken for a missing one, too.
SetValueBehindSecond(node, tag, value) ==
    LET i == FindChild(node, tag)
    IN  IF i > 1 THEN SetChild(node, i, [GetChild(node, i) EXCEPT !.value = value])
                 ELSE AddChild(node, Node(tag, value))

\* Variant of SetValue: a value is always added.
SetValueAdds(node, tag, value) == AddChild(node, Node(tag, value))

\* write with a plain name: the first child, at index 0, is taken for a
\* missing one, and another child of its name is added.
SetValue(node, tag, value) ==
    LET i == FindChild(node, tag)
    IN  IF i > 0 THEN SetChild(node, i, [GetChild(node, i) EXCEPT !.value = value])
                 ELSE AddChild(node, Node(tag, value))

\* Variant of Step: the nodes on the way lose their values.
StepClears(node, name) ==
    LET i == FindChild(node, name)
    IN  IF i < 0 THEN AddChild(node, Node(name, <<>>))
                 ELSE SetChild(node, i, [GetChild(node, i) EXCEPT !.value = <<>>])

\* write with a path: the node on the way is made if it is missing.
Step(node, name) ==
    IF FindChild(node, name) < 0 THEN AddChild(node, Node(name, <<>>)) ELSE node

RECURSIVE Write(_, _, _)
Write(node, tag, value) ==
    IF ~IsPath(tag) THEN SetValue(node, tag, value)
    ELSE LET name == FirstName(tag)
             with == Step(node, name)
             i    == FindChild(with, name)
         IN  SetChild(with, i, Write(GetChild(with, i), OtherNames(tag), value))
=============================================================================

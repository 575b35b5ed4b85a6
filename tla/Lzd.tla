-------------------------------- MODULE Lzd --------------------------------
(***************************************************************************)
(* The lzd format of the LZData library: what lzd::print writes and what   *)
(* cParser makes of a text.  A parser is a record of its members; a block  *)
(* in braces is parsed by a parser of its own, from the text that is left, *)
(* and the outer one goes on where it ended.                               *)
(***************************************************************************)
EXTENDS LZData

Special == {"#", "}", ";"}

\* Variant of Escape: a semicolon is written as it is.
EscapeWithoutSemicolon(c) == IF c \in {"#", "}"} THEN <<"\\", c>> ELSE <<c>>

\* The escape character itself is not escaped.
Escape(c) == IF c \in Special THEN <<"\\", c>> ELSE <<c>>

ConvertValue(value) == FlattenSeq([n \in DOMAIN value |-> Escape(value[n])])

\* A node with children is written as a block, without its own value.
RECURSIVE LzdPrint(_, _)
LzdPrint(node, depth) ==
    FlattenSeq([n \in DOMAIN node.children |->
      LET child == node.children[n]
          tab   == Table(depth)
      IN  IF child.children = <<>>
            THEN tab \o child.tag \o <<" ", "=", " ">> \o ConvertValue(child.value)
                     \o <<"LF">>
            ELSE tab \o child.tag \o <<"LF">> \o tab \o <<"{", "LF">>
                     \o LzdPrint(child, depth + 1) \o tab \o <<"}", "LF">>])

-----------------------------------------------------------------------------
(***************************************************************************)
(* cParser                                                                 *)
(***************************************************************************)
Parser(text, node) ==
    [text |-> text, node |-> node, end |-> FALSE, line |-> 0,
     variable |-> <<>>, varLine |-> 0, curVariable |-> <<>>]

\* getAStr: a value goes up to a special character or the end of the line; an
\* escape character in front of a special one, or of another, is dropped.
RECURSIVE AStr(_)
AStr(text) ==
    IF text = <<>> \/ text[1] \in Special \cup {"LF"} THEN [str |-> <<>>, rest |-> text]
    ELSE LET escaped == /\ text[1] = "\\"
                        /\ Len(text) > 1
                        /\ text[2] \in Special \cup {"\\"}
             n    == IF escaped THEN 2 ELSE 1
             more == AStr(SubSeq(text, n + 1, Len(text)))
         IN  [more EXCEPT !.str = <<text[n]>> \o @]

TwoNames(p) == p.variable # <<>> /\ p.curVariable # <<>> /\ p.varLine = p.line

\* parseVarName fails without a name, or with two on the line.
NoVarName(p) == (p.variable = <<>> /\ p.curVariable = <<>>) \/ TwoNames(p)
VarName(p)   == Trim(IF p.curVariable # <<>> THEN p.curVariable ELSE p.variable)

Forget(p)       == [p EXCEPT !.variable = <<>>, !.curVariable = <<>>]
SetVar(p, name) == [p EXCEPT !.variable = name, !.varLine = p.line]

\* onError: go on at the end of the line or of the block.
OnError(p) == [Forget(p) EXCEPT !.text = From(@, {"LF", "}"})]

OnEqual(p) ==
    IF NoVarName(p) THEN OnError(p)
    ELSE LET value == AStr(p.text)
         IN  [Forget(p) EXCEPT !.text = value.rest,
                               !.node = Write(@, VarName(p), Trim(value.str))]

OnReturn(p) ==
    LET named == IF NoVarName(p) THEN Forget(p) ELSE SetVar(Forget(p), VarName(p))
    IN  [named EXCEPT !.line = @ + 1]

SkipSpace(p) ==
    LET at == SelectInSeq(p.text, LAMBDA c : c \notin {" ", "TAB"})
    IN  [p EXCEPT !.text = IF at = 0 THEN <<>> ELSE SubSeq(@, at, Len(@))]

OnSpace(p) ==
    IF TwoNames(p) THEN OnError(p)
    ELSE IF p.curVariable = <<>> THEN SkipSpace(p)
    ELSE SkipSpace([SetVar(p, p.curVariable) EXCEPT !.curVariable = <<>>])

RECURSIVE Parse(_)

\* A block is always a new child, even of a name that is there already.
OnLBraket(p) ==
    IF NoVarName(p) THEN OnError(p)
    ELSE LET block == Parse(Parser(p.text, Node(VarName(p), <<>>)))
         IN  [Forget(p) EXCEPT !.text = block.text, !.line = @ + block.line,
                               !.node = AddChild(@, block.node)]

\* The character c was taken off the text.
On(c, p) ==
    CASE c = "{" -> OnLBraket(p)
      [] c = "}" -> [p EXCEPT !.end = TRUE]
      [] c = "=" -> OnEqual(p)
      [] c = "LF" -> OnReturn(p)
      [] c \in {" ", "TAB"} -> OnSpace(p)
      [] c = "#" -> [p EXCEPT !.text = From(@, {"LF"})]
      [] c = ";" -> p
      [] OTHER -> [p EXCEPT !.curVariable = Append(@, c)]

Parse(p) ==
    IF p.text = <<>> \/ p.end THEN p
    ELSE Parse(On(Head(p.text), [p EXCEPT !.text = Tail(@)]))

LzdRead(text) == Parse(Parser(text, Root)).node
=============================================================================

-------------------------------- MODULE Xml --------------------------------
(***************************************************************************)
(* The xml format of the LZData library: what xml::print writes and what   *)
(* xmlParser makes of a text.  The text is what is left of the stream.     *)
(***************************************************************************)
EXTENDS LZData

Open(tag)  == <<"<">> \o tag \o <<">">>
Close(tag) == <<"<", "/">> \o tag \o <<">">>

\* A node with children is written without its own value; nothing is escaped.
RECURSIVE XmlPrint(_, _)
XmlPrint(node, depth) ==
    FlattenSeq([n \in DOMAIN node.children |->
      LET child == node.children[n]
          tab   == Table(depth)
      IN  IF child.children = <<>>
            THEN tab \o Open(child.tag) \o Table(1) \o child.value \o Table(1) \o Close(child.tag)
                     \o <<"LF">>
            ELSE tab \o Open(child.tag) \o <<"LF">> \o XmlPrint(child, depth + 1)
                     \o tab \o Close(child.tag) \o <<"LF">>])

-----------------------------------------------------------------------------
(***************************************************************************)
(* xmlParser::parseReal.  Its outcome is "closed" where it returns true,   *)
(* "failed" where it returns false, "unclosed" where it does so after it   *)
(* gave a std::string to printf's %s, and "thrown" where the text between  *)
(* a '>' and a later '<' has a negative length.                            *)
(***************************************************************************)
Outcome(what, node, text) == [what |-> what, node |-> node, text |-> text]

After(text, c) == Tail(From(text, {c}))

\* The tag of the next mark, without blanks around it.
Mark(text) == Trim(UpTo(Tail(From(text, {"<"})), {">"}))

\* <tag .../>: an attribute, which has neither value nor children.
IsAttribute(mark) == Len(mark) > 1 /\ mark[Len(mark)] = "/"
AttributeName(mark) ==
    IF \E n \in DOMAIN mark : mark[n] = " " THEN UpTo(mark, {" "}) ELSE Front(mark)

\* Variant of Value: at the end of the text the rest is the value.
ValueToTheEnd(text) == Trim(UpTo(text, {"<"}))

\* The text up to the next mark is the value; without one there is none.
Value(text) == IF From(text, {"<"}) = <<>> THEN <<>> ELSE Trim(UpTo(text, {"<"}))

RECURSIVE ParseReal(_, _, _)
ParseReal(parent, text, isRoot) ==
    LET begin == SelectInSeq(text, LAMBDA c : c = "<")
        end   == SelectInSeq(text, LAMBDA c : c = ">")
        mark  == Mark(text)
        rest  == After(text, ">")
        child == ParseReal(Node(mark, Value(rest)), From(rest, {"<"}), FALSE)
    IN  IF begin = 0 THEN Outcome(IF isRoot THEN "closed" ELSE "unclosed", parent, text)
        ELSE IF end = 0 THEN Outcome("failed", parent, text)
        ELSE IF end < begin THEN Outcome("thrown", parent, text)
        ELSE IF mark # <<>> /\ mark[1] = "/"
          THEN Outcome(IF RTrim(Tail(mark)) = parent.tag THEN "closed" ELSE "failed",
                       parent, rest)
        ELSE IF IsAttribute(mark)
          THEN ParseReal(AddChild(parent, Node(AttributeName(mark), <<>>)), rest, isRoot)
        ELSE IF From(rest, {"<"}) = <<>>
          THEN Outcome("failed", AddChild(parent, Node(mark, Value(rest))), rest)
        ELSE IF child.what = "closed"
          THEN ParseReal(AddChild(parent, child.node), child.text, isRoot)
        ELSE Outcome(child.what, AddChild(parent, child.node), child.text)

\* createFromBuffer does not look at the outcome: what was parsed is the tree,
\* unless the program ended, as it does by the exception and may by the printf.
XmlReads(text) ==
    LET parsed == ParseReal(Root, text, TRUE)
    IN  CASE parsed.what = "thrown"   -> {NoNode}
          [] parsed.what = "unclosed" -> {NoNode, parsed.node}
          [] OTHER                    -> {parsed.node}
=============================================================================

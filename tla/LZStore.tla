------------------------------ MODULE LZStore ------------------------------
(***************************************************************************)
(* A program that keeps a tree of the LZData library, writes values into   *)
(* it, saves it in a file of either format and loads it again.  save       *)
(* writes straight into the file, so a death of the program meanwhile      *)
(* leaves a part of the text behind.                                       *)
(***************************************************************************)
EXTENDS Lzd, Xml

CONSTANTS Tags,      \* the tags given to write
          Values,    \* the values given to write
          Behind,    \* what may stand in memory behind a file that was read
          MaxWrites, \* bound on the calls of write
          MaxSaves   \* bound on the calls of save

ASSUME TagsAssumption ==
    \A tag \in Tags : tag # <<>> /\ \A n \in DOMAIN tag : tag[n] \notin Blanks
\* Whatever assigns there is out of hand: it can set any value of the tree.
ASSUME BehindAssumption ==
    \A junk \in Behind : \A n \in DOMAIN junk : junk[n] \notin {"=", "{"}
ASSUME BoundsAssumption == MaxWrites \in Nat /\ MaxSaves \in Nat

VARIABLES format,   \* of the file
          root,     \* the tree in memory, NoNode without one
          file,     \* the text of the file
          complete, \* whether the last save came to its end
          saved,    \* history: the tree that was last saved
          last,     \* history: what was last written or loaded for each tag
          writes,   \* history: calls of write
          saves     \* history: calls of save

vars == <<format, root, file, complete, saved, last, writes, saves>>

Unset == <<"unset">>

\* The file is written in text mode and read in binary mode.
Stored(text) ==
    FlattenSeq([n \in DOMAIN text |->
                  IF text[n] = "LF" THEN <<"CR", "LF">> ELSE <<text[n]>>])

Printed(tree) ==
    Stored(IF format = "lzd" THEN LzdPrint(tree, 0) ELSE XmlPrint(tree, 0))

\* createLzdFromFile: the trees it may give.  An empty file counts as one that
\* cannot be read, and the lzd parser, which is given no length, reads on
\* behind the buffer up to a NUL.
Loads(text) == IF text = <<>> THEN {NoNode}
               ELSE IF format = "lzd" THEN {LzdRead(text \o junk) : junk \in Behind}
               ELSE XmlReads(text)

Init == /\ format \in {"lzd", "xml"}
        /\ root = Root
        /\ file = <<>>
        /\ complete = TRUE
        /\ saved = Root
        /\ last = [tag \in Tags |-> Unset]
        /\ writes = 0
        /\ saves = 0

WriteValue(tag, value) ==
    /\ root # NoNode
    /\ writes < MaxWrites
    /\ root' = Write(root, tag, value)
    /\ last' = [last EXCEPT ![tag] = value]
    /\ writes' = writes + 1
    /\ UNCHANGED <<format, file, complete, saved, saves>>

Saving ==
    /\ root # NoNode
    /\ saves < MaxSaves
    /\ saves' = saves + 1
    /\ saved' = root
    /\ UNCHANGED <<format, last, writes>>

Save ==
    /\ Saving
    /\ file' = Printed(root)
    /\ complete' = TRUE
    /\ UNCHANGED root

DieSaving ==
    /\ Saving
    /\ LET text == Printed(root)
       IN  \E n \in 0 .. Len(text) - 1 : file' = SubSeq(text, 1, n)
    /\ complete' = FALSE
    /\ root' = NoNode

Load ==
    /\ root' \in Loads(file)
    /\ last' = [tag \in Tags |-> IF Read(root', tag) = NoNode THEN Unset
                                 ELSE Read(root', tag).value]
    /\ UNCHANGED <<format, file, complete, saved, writes, saves>>

Next == \/ \E tag \in Tags, value \in Values : WriteValue(tag, value)
        \/ Save
        \/ DieSaving
        \/ Load

Spec == Init /\ [][Next]_vars

-----------------------------------------------------------------------------
RECURSIVE Nodes(_)
Nodes(tree) == {tree} \cup UNION {Nodes(tree.children[n]) : n \in DOMAIN tree.children}

Below(tree) == UNION {Nodes(tree.children[n]) : n \in DOMAIN tree.children}

TypeOK ==
    /\ format \in {"lzd", "xml"}
    /\ root = NoNode \/ root.tag = Root.tag
    /\ format = "lzd" => \A node \in Below(root) : node.tag # <<>> /\ "/" \notin Range(node.tag)
    /\ complete \in BOOLEAN
    /\ saved.tag = Root.tag
    /\ last \in [Tags -> Seq(STRING)]
    /\ writes \in 0 .. MaxWrites
    /\ saves \in 0 .. MaxSaves

\* The values that come back: in lzd no escape character before one that
\* takes an escape, in xml no mark, and no blanks around the value.
PlainValue(value) ==
    /\ Trim(value) = value
    /\ format = "lzd" =>
         /\ "LF" \notin Range(value)
         /\ \A n \in 1 .. Len(value) - 1 :
              ~(value[n] = "\\" /\ value[n + 1] \in Special \cup {"\\"})
    /\ format = "xml" => "<" \notin Range(value)

PlainTree(tree) ==
    \A node \in Below(tree) : /\ PlainValue(node.value)
                              /\ node.children # <<>> => node.value = <<>>

\* A tree that was saved and is loaded again is the same tree, duplicates and
\* order included, exactly when it is plain: a value beside children is not
\* written, and other values are cut, lose characters or end their block
\* (print, convertValue and the two parsers).
ReloadIsSame == complete /\ file # <<>> => (Loads(file) = {saved} <=> PlainTree(saved))

\* What is read of a value that was cut, or of what stood behind the file.
CutValues(value) ==
    LET text == ConvertValue(value) \o <<"CR">>
    IN  {Trim(AStr(SubSeq(text, 1, n) \o junk).str) : n \in 0 .. Len(text), junk \in Behind}

\* A file that a death during save left incomplete gives no tag the value of
\* another one: a tag is missing or empty or has its value, which in lzd may be
\* cut short (the parsers take what is there, and loadConfig asks for no more).
CutFileKeepsValues ==
    ~complete /\ PlainTree(saved) =>
      \A tree \in Loads(file), tag \in Tags :
        LET was == Read(saved, tag)
            is  == Read(tree, tag)
        IN  is # NoNode =>
              /\ was # NoNode
              /\ \/ is.value \in {<<>>, was.value}
                 \/ format = "lzd" /\ is.value \in CutValues(was.value)

RECURSIVE IsFirst(_, _)
IsFirst(node, tag) ==
    IF IsPath(tag) THEN IsFirst(Read(node, FirstName(tag)), OtherNames(tag))
                   ELSE FindChild(node, tag) = 0

\* What was last written to a tag, or loaded for it, is what read returns,
\* unless the tag names the first child of its parent: write does not find
\* that one (i > 0 in LZData::write).
LastValueIsRead ==
    root # NoNode =>
      \A tag \in Tags : last[tag] = Unset \/ IsFirst(root, tag)
                          \/ Read(root, tag).value = last[tag]

\* No name is given to two children of a node but the name of its first one,
\* so every other child is found by its name.
OnlyFirstNameRepeats ==
    \A node \in Nodes(root) :
      \A m, n \in DOMAIN node.children :
        m < n /\ node.children[m].tag = node.children[n].tag
          => node.children[m].tag = node.children[1].tag

\* write changes what read returns for its own tag only; the nodes it passes
\* keep their values and their other children (LZData::write).
WriteTouchesOnlyItsTag ==
    [][\A tag \in Tags, value \in Values : WriteValue(tag, value) =>
         \A other \in Tags \ {tag} :
           Read(root, other) # NoNode =>
             Read(root', other).value = Read(root, other).value]_vars
=============================================================================

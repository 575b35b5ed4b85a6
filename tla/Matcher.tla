------------------------------ MODULE Matcher ------------------------------
(***************************************************************************)
(* Matcher of the judge core: the comparison of a program's output with    *)
(* the output of the test data, and what it should decide, in terms of the *)
(* two texts alone.                                                        *)
(***************************************************************************)
EXTENDS Naturals, Sequences, FiniteSets

LOCAL INSTANCE SequencesExt

CONSTANTS Chars,  \* the characters of the texts that are compared; 0x1A, which
                  \* ends a file that is read in text mode, is not among them
          MaxText \* bound on their length

ASSUME CharsAssumption   == Chars \subseteq STRING
ASSUME MaxTextAssumption == MaxText \in Nat

Texts == UNION {[1 .. n -> Chars] : n \in 0 .. MaxText}

\* A file that cannot be opened.
NoFile == <<"no file">>

Files == Texts \cup {NoFile}

White == {" ", "TAB", "CR", "LF", "NUL"}

\* The characters of the text whose places are in the set.
At(text, places) ==
    LET order == SetToSortSeq(places, <)
    IN  [n \in DOMAIN order |-> text[order[n]]]

\* readFileBuffer in text mode: a line end CR LF is read as LF.
ReadFile(file) ==
    At(file, {n \in DOMAIN file :
                ~(file[n] = "CR" /\ n < Len(file) /\ file[n + 1] = "LF")})

\* Variant of Rest: what the program writes after the expected output is ignored.
RestOfExpected(src, p, dst, q) == {src[n] : n \in p .. Len(src)}

\* What is left of both texts when one of them has come to its end.
Rest(src, p, dst, q) == {src[n] : n \in p .. Len(src)} \cup {dst[n] : n \in q .. Len(dst)}

\* White space that does not match is a presentation error, unless more is wrong.
Blemish(verdict) == IF verdict = "WRONG" THEN verdict ELSE "PRESENT"

\* Matcher::compare on two buffers: p and q are the places in the expected
\* output and in the program's, i and k in the code.
Compare(src, dst) ==
    LET compare[p \in 1 .. Len(src) + 1, q \in 1 .. Len(dst) + 1] ==
          IF p > Len(src) \/ q > Len(dst)
            THEN IF Rest(src, p, dst, q) = {} THEN "ACCEPT"
                 ELSE IF Rest(src, p, dst, q) \subseteq White THEN "PRESENT" ELSE "WRONG"
          ELSE IF src[p] = dst[q]                    THEN compare[p + 1, q + 1]
          ELSE IF src[p] = "CR" /\ dst[q] = "LF"     THEN compare[p + 1, q]
          ELSE IF src[p] = "LF" /\ dst[q] = "CR"     THEN compare[p, q + 1]
          ELSE IF src[p] \in White                   THEN Blemish(compare[p + 1, q])
          ELSE IF dst[q] \in White                   THEN Blemish(compare[p, q + 1])
          ELSE "WRONG"
    IN  compare[1, 1]

\* Matcher::compare on two files, and the result that exc sets.
MatchFiles(expected, output) ==
    IF expected = NoFile \/ output = NoFile THEN "SYSTEM"
    ELSE Compare(ReadFile(expected), ReadFile(output))

Matches == {MatchFiles(expected, output) : expected, output \in Files}

-----------------------------------------------------------------------------
Bares(text) == {n \in DOMAIN text : text[n] \notin White}

\* The places that are no CR of a line end CR ... CR LF.
Kept(text) ==
    {n \in DOMAIN text :
        ~(\E m \in n + 1 .. Len(text) :
            text[m] = "LF" /\ \A l \in n .. m - 1 : text[l] = "CR")}

Reference(expected, output) ==
    IF At(expected, Bares(expected)) # At(output, Bares(output)) THEN "WRONG"
    ELSE IF At(expected, Kept(expected)) = At(output, Kept(output)) THEN "ACCEPT"
    ELSE "PRESENT"

\* How many of the places are before place n.
Rank(places, n) == Cardinality({m \in places : m < n})

\* The texts s and t hold the same characters at the places S and T.
Alike(s, S, t, T) ==
    /\ Cardinality(S) = Cardinality(T)
    /\ \A m \in S, n \in T : Rank(S, m) = Rank(T, n) => s[m] = t[n]

\* Reference, with the characters counted instead of listed.
VerdictByRank(expected, output) ==
    IF ~Alike(expected, Bares(expected), output, Bares(output)) THEN "WRONG"
    ELSE IF Alike(expected, Kept(expected), output, Kept(output)) THEN "ACCEPT"
    ELSE "PRESENT"

\* The pairs of outputs on which the three do not agree.
Misjudged ==
    {pair \in Texts \X Texts :
        \/ MatchFiles(pair[1], pair[2]) # Reference(pair[1], pair[2])
        \/ MatchFiles(pair[1], pair[2]) # VerdictByRank(pair[1], pair[2])}
=============================================================================

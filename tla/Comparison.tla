----------------------------- MODULE Comparison -----------------------------
(***************************************************************************)
(* Matcher::compare as the loops the code has: two places move through the *)
(* two texts, and every branch of a loop is an action. Matcher has the     *)
(* same as a function of the texts, and what the result should be. Every   *)
(* text is one that readFileBuffer can return: of CR CR LF it leaves CR LF.*)
(***************************************************************************)
EXTENDS Naturals, Sequences, FiniteSets, Matcher

VARIABLES src, dst, \* the buffers: the expected output, the program's output
          p, q,     \* the places reached in them, i + 1 and k + 1 in the code
          result,   \* the local variable, and at the end what is returned
          at        \* the loop: "both", "source", "target", then "returned"

texts == <<src, dst>>
vars  == <<texts, p, q, result, at>>

Init == /\ src \in Texts
        /\ dst \in Texts
        /\ p = 1
        /\ q = 1
        /\ result = "ACCEPT"
        /\ at = "both"

Return(verdict) ==
    /\ at' = "returned"
    /\ result' = verdict
    /\ UNCHANGED <<p, q>>

-----------------------------------------------------------------------------
(***************************************************************************)
(* while (i < srcLen && k < dstLen)                                        *)
(***************************************************************************)
InBoth == /\ at = "both"
          /\ p \in DOMAIN src
          /\ q \in DOMAIN dst

Same ==
    /\ InBoth
    /\ src[p] = dst[q]
    /\ p' = p + 1
    /\ q' = q + 1
    /\ UNCHANGED <<result, at>>

SkipSourceCR ==
    /\ InBoth
    /\ src[p] = "CR" /\ dst[q] = "LF"
    /\ p' = p + 1
    /\ UNCHANGED <<q, result, at>>

SkipTargetCR ==
    /\ InBoth
    /\ src[p] = "LF" /\ dst[q] = "CR"
    /\ q' = q + 1
    /\ UNCHANGED <<p, result, at>>

Unlike == /\ InBoth
          /\ src[p] # dst[q]
          /\ {src[p], dst[q]} # {"CR", "LF"}

SkipSourceWhite ==
    /\ Unlike
    /\ src[p] \in White
    /\ p' = p + 1
    /\ result' = "PRESENT"
    /\ UNCHANGED <<q, at>>

SkipTargetWhite ==
    /\ Unlike
    /\ src[p] \notin White /\ dst[q] \in White
    /\ q' = q + 1
    /\ result' = "PRESENT"
    /\ UNCHANGED <<p, at>>

Differ ==
    /\ Unlike
    /\ src[p] \notin White /\ dst[q] \notin White
    /\ Return("WRONG")

OneEnds ==
    /\ at = "both"
    /\ p \notin DOMAIN src \/ q \notin DOMAIN dst
    /\ at' = "source"
    /\ UNCHANGED <<p, q, result>>

-----------------------------------------------------------------------------
(***************************************************************************)
(* while (i < srcLen), while (k < dstLen), return result                   *)
(***************************************************************************)
RestOfSource ==
    /\ at = "source"
    /\ p \in DOMAIN src /\ src[p] \in White
    /\ p' = p + 1
    /\ result' = "PRESENT"
    /\ UNCHANGED <<q, at>>

SourceGoesOn ==
    /\ at = "source"
    /\ p \in DOMAIN src /\ src[p] \notin White
    /\ Return("WRONG")

SourceEnds ==
    /\ at = "source"
    /\ p \notin DOMAIN src
    /\ at' = "target"
    /\ UNCHANGED <<p, q, result>>

RestOfTarget ==
    /\ at = "target"
    /\ q \in DOMAIN dst /\ dst[q] \in White
    /\ q' = q + 1
    /\ result' = "PRESENT"
    /\ UNCHANGED <<p, at>>

TargetGoesOn ==
    /\ at = "target"
    /\ q \in DOMAIN dst /\ dst[q] \notin White
    /\ Return("WRONG")

TargetEnds ==
    /\ at = "target"
    /\ q \notin DOMAIN dst
    /\ Return(result)

Next == /\ \/ Same \/ SkipSourceCR \/ SkipTargetCR
           \/ SkipSourceWhite \/ SkipTargetWhite \/ Differ \/ OneEnds
           \/ RestOfSource \/ SourceGoesOn \/ SourceEnds
           \/ RestOfTarget \/ TargetGoesOn \/ TargetEnds
        /\ UNCHANGED texts

Spec == Init /\ [][Next]_vars

\* The function runs on the thread of its judge core, which nothing suspends.
FairSpec == Spec /\ WF_vars(Next)

-----------------------------------------------------------------------------
(***************************************************************************)
(* What the texts are compared for                                         *)
(***************************************************************************)
\* Alike in what is before places m and n.
AlikeBefore(s, S, m, t, T, n) ==
    /\ Rank(S, m) = Rank(T, n)
    /\ \A k \in S, l \in T :
           k < m /\ l < n /\ Rank(S, k) = Rank(T, l) => s[k] = t[l]

SameBare    == Alike(src, Bares(src), dst, Bares(dst))
SameUnified == Alike(src, Kept(src), dst, Kept(dst))

TypeOK == /\ src \in Texts /\ dst \in Texts
          /\ p \in 1 .. Len(src) + 1 /\ q \in 1 .. Len(dst) + 1
          /\ result \in {"ACCEPT", "PRESENT", "WRONG"}
          /\ at \in {"both", "source", "target", "returned"}

\* The n-th characters that are no white space are the same in what the loops
\* of Matcher::compare have read of the two texts, and as many: white space,
\* skipped on one side only, never puts them out of step.
BareTextsReadAlike ==
    at # "returned" =>
        AlikeBefore(src, Bares(src), p, dst, Bares(dst), q)

\* Before places m and n only CRs have been read since the texts were alike, as
\* many in both, or more of them where the other text has come to its LF.
InStep(s, m, t, n) ==
    \E u \in 1 .. m, v \in 1 .. n :
        /\ \A k \in u .. m - 1 : s[k] = "CR"
        /\ \A l \in v .. n - 1 : t[l] = "CR"
        /\ AlikeBefore(s, Kept(s), u, t, Kept(t), v)
        /\ \/ m - u = n - v
           \/ m - u > n - v /\ n \in DOMAIN t /\ t[n] = "LF"
           \/ m - u < n - v /\ m \in DOMAIN s /\ s[m] = "LF"

\* A CR that Matcher::compare skips before a LF may turn out to be no line end;
\* the result stands at MATCHER_ACCEPT only while the CRs read last can still
\* belong to the same line ends, and it falls only if the texts do differ.
LineEndsReadInStep ==
    /\ result = "ACCEPT" /\ at # "returned" => InStep(src, p, dst, q)
    /\ result # "ACCEPT" => ~SameUnified

\* Matcher::compare returns MATCHER_WRONG_ANWSER exactly if the texts differ
\* in more than white space, whatever it skipped on the way.
WrongIfBareTextsDiffer ==
    at = "returned" => (result = "WRONG" <=> ~SameBare)

\* Matcher::compare returns MATCHER_ACCEPT exactly if the texts are the same
\* once every line end CR ... CR LF counts as LF, although a CR is skipped
\* before it is known whether a line ends there.
AcceptIfUnifiedTextsAgree ==
    at = "returned" => (result = "ACCEPT" <=> SameUnified)

\* The loops of Matcher::compare return the verdict that the places with the
\* same rank give, and so does the function Compare, the one that the outcomes
\* of the judge core come from.
ReturnsVerdict == at = "returned" => result = VerdictByRank(src, dst)
ReturnsCompare == at = "returned" => result = Compare(src, dst)

\* Matcher::compare comes to its end: every turn of its loops moves a place.
CompareEnds == <>(at = "returned")
=============================================================================

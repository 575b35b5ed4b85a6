-------------------------- MODULE ComparisonProofs --------------------------
(***************************************************************************)
(* What Matcher::compare returns, for texts of any length over any         *)
(* characters: the loops are read as they are, and the places of the texts *)
(* are counted.                                                            *)
(***************************************************************************)
EXTENDS Comparison, FiniteSetTheorems, TLAPS

-----------------------------------------------------------------------------
(***************************************************************************)
(* Ranks                                                                   *)
(***************************************************************************)

\* What the places of a text that are counted are here.
Places(S) == IsFiniteSet(S) /\ \A n \in S : n \in Nat

\* A rank is a number, and no rank is more than the number of places.
LEMMA RankType ==
    ASSUME NEW S, Places(S), NEW n \in Nat
    PROVE  /\ IsFiniteSet(S) /\ Cardinality(S) \in Nat
           /\ IsFiniteSet({m \in S : m < n}) /\ Rank(S, n) \in Nat
           /\ Rank(S, n) <= Cardinality(S)
<1>2. IsFiniteSet(S)
  BY DEF Places
<1>3. {m \in S : m < n} \in SUBSET S
  OBVIOUS
<1>4. /\ IsFiniteSet({m \in S : m < n})
      /\ Cardinality({m \in S : m < n}) <= Cardinality(S)
  BY ONLY <1>2, <1>3, FS_Subset
<1> QED
  BY ONLY <1>2, <1>4, FS_CardinalityType DEF Rank

\* The rank grows by one at a place that is counted and at no other.
LEMMA RankOfNext ==
    ASSUME NEW S, Places(S), NEW n \in Nat
    PROVE  Rank(S, n + 1) = IF n \in S THEN Rank(S, n) + 1 ELSE Rank(S, n)
<1> DEFINE Before == {m \in S : m < n}
<1>0. \A m \in S : m \in Nat
  BY DEF Places
<1>1. IsFiniteSet(Before)
  BY RankType
<1>2. CASE n \in S
  <2>1. {m \in S : m < n + 1} = Before \cup {n}
    <3>1. \A m \in S : m < n + 1 <=> m < n \/ m = n
      BY ONLY <1>0, n \in Nat
    <3> QED
      BY ONLY <1>2, <3>1
  <2>2. n \notin Before
    OBVIOUS
  <2> HIDE DEF Before
  <2>3. Cardinality(Before \cup {n}) = Cardinality(Before) + 1
    BY ONLY <1>1, <2>2, FS_AddElement
  <2> QED
    BY ONLY <1>2, <2>1, <2>3 DEF Rank, Before
<1>3. CASE n \notin S
  <2>1. {m \in S : m < n + 1} = Before
    <3>1. \A m \in S : m < n + 1 <=> m < n
      BY ONLY <1>0, <1>3, n \in Nat
    <3> QED
      BY ONLY <3>1
  <2> QED
    BY ONLY <1>3, <2>1 DEF Rank, Before
<1> QED
  BY ONLY <1>2, <1>3

\* A rank never falls.
LEMMA RankMonotone ==
    ASSUME NEW S, Places(S),
           NEW m \in Nat, NEW n \in Nat, m <= n
    PROVE  Rank(S, m) <= Rank(S, n)
<1>1. IsFiniteSet({k \in S : k < n})
  BY RankType
<1>2. {k \in S : k < m} \in SUBSET {k \in S : k < n}
  <2>1. ASSUME NEW k \in S, k < m PROVE k < n
    <3>1. k \in Nat
      BY DEF Places
    <3> QED
      BY <2>1, <3>1
  <2> QED
    BY ONLY <2>1
<1> QED
  BY ONLY <1>1, <1>2, FS_Subset DEF Rank

\* Two places that are counted have different ranks.
LEMMA RankGrows ==
    ASSUME NEW S, Places(S),
           NEW m \in S, NEW n \in Nat, m < n
    PROVE  Rank(S, m) + 1 <= Rank(S, n)
<1>1. m \in Nat /\ m + 1 \in Nat /\ m + 1 <= n
  BY DEF Places
<1>2. Rank(S, m + 1) = Rank(S, m) + 1
  BY <1>1, RankOfNext
<1>3. Rank(S, m + 1) <= Rank(S, n)
  BY <1>1, RankMonotone
<1> QED
  BY ONLY <1>2, <1>3

\* The rank of a place that every counted place is before is their number, and
\* that of a counted place is less.
LEMMA RankAtEnd ==
    ASSUME NEW S, Places(S)
    PROVE  /\ \A n \in Nat : (\A m \in S : m < n) => Rank(S, n) = Cardinality(S)
           /\ \A m \in S : Rank(S, m) + 1 <= Cardinality(S)
<1>1. ASSUME NEW n \in Nat, \A m \in S : m < n
      PROVE  Rank(S, n) = Cardinality(S)
  <2>1. {m \in S : m < n} = S
    BY <1>1
  <2> QED
    BY ONLY <2>1 DEF Rank
<1>2. ASSUME NEW m \in S PROVE Rank(S, m) + 1 <= Cardinality(S)
  <2>1. m \in Nat /\ m + 1 \in Nat
    BY DEF Places
  <2>2. Rank(S, m + 1) = Rank(S, m) + 1
    BY <2>1, RankOfNext
  <2>3. Rank(S, m + 1) <= Cardinality(S)
    BY <2>1, RankType
  <2> QED
    BY ONLY <2>2, <2>3
<1> QED
  BY ONLY <1>1, <1>2

\* Over a stretch of counted places the rank grows by its length.
LEMMA RankOverStretch ==
    ASSUME NEW S, Places(S), NEW u \in Nat, NEW w \in Nat, u <= w,
           \A k \in u .. w - 1 : k \in S
    PROVE  Rank(S, w) = Rank(S, u) + (w - u)
<1> DEFINE Before  == {m \in S : m < u}
           Stretch == u .. w - 1
<1>0. \A m \in S : m \in Nat
  BY DEF Places
<1>1. IsFiniteSet(Before)
  BY RankType
<1>2. IsFiniteSet(Stretch) /\ Cardinality(Stretch) = w - u
  <2>1. u \in Int /\ w - 1 \in Int /\ (u > w - 1 => w - u = 0)
        /\ (w - 1) - u + 1 = w - u
    OBVIOUS
  <2> QED
    BY ONLY <2>1, FS_Interval
<1>3. Before \cap Stretch = {}
  OBVIOUS
<1>4. {m \in S : m < w} = Before \cup Stretch
  <2>1. \A m \in S : m < w <=> m < u \/ m \in Stretch
    BY ONLY <1>0, u \in Nat, w \in Nat, u <= w
  <2>2. \A m \in Stretch : m \in S
    OBVIOUS
  <2> HIDE DEF Stretch
  <2> QED
    BY ONLY <2>1, <2>2
<1>5. Cardinality({}) = 0 /\ Cardinality(Before) \in Nat
  BY ONLY <1>1, FS_EmptySet, FS_CardinalityType
<1>6. w - u \in Nat
  OBVIOUS
<1> HIDE DEF Before, Stretch
<1>7. Cardinality(Before \cup Stretch)
         = Cardinality(Before) + Cardinality(Stretch) - Cardinality({})
  BY ONLY <1>1, <1>2, <1>3, FS_Union
<1>8. Cardinality(Before \cup Stretch) = Cardinality(Before) + (w - u)
  BY ONLY <1>2, <1>5, <1>6, <1>7
<1> QED
  BY ONLY <1>4, <1>8 DEF Rank, Before

\* Over places that are not counted the rank stays.
LEMMA RankOverOthers ==
    ASSUME NEW S, Places(S), NEW u \in Nat, NEW w \in Nat, u <= w,
           \A k \in u .. w - 1 : k \notin S
    PROVE  Rank(S, w) = Rank(S, u)
<1>1. \A m \in S : m \in Nat
  BY DEF Places
<1>2. \A m \in S : m \notin u .. w - 1
  OBVIOUS
<1>3. \A m \in S : m < w <=> m < u
  BY ONLY <1>1, <1>2, u \in Nat, w \in Nat, u <= w
<1>4. {m \in S : m < w} = {m \in S : m < u}
  BY ONLY <1>3
<1> QED
  BY ONLY <1>4 DEF Rank

-----------------------------------------------------------------------------
(***************************************************************************)
(* Texts that are alike, as far as they have been read                     *)
(***************************************************************************)

\* Neither of the texts comes first.
LEMMA AlikeSymmetric ==
    ASSUME NEW s, NEW S, NEW m, NEW t, NEW T, NEW n
    PROVE  /\ AlikeBefore(s, S, m, t, T, n) => AlikeBefore(t, T, n, s, S, m)
           /\ Alike(s, S, t, T) => Alike(t, T, s, S)
<1>1. ASSUME AlikeBefore(s, S, m, t, T, n) PROVE AlikeBefore(t, T, n, s, S, m)
  BY ONLY <1>1, Zenon DEF AlikeBefore
<1>2. ASSUME Alike(s, S, t, T) PROVE Alike(t, T, s, S)
  BY ONLY <1>2, Zenon DEF Alike
<1> QED
  BY ONLY <1>1, <1>2

\* Two stretches of counted places that hold the same characters are read.
LEMMA AlikeOverStretch ==
    ASSUME NEW S, Places(S), NEW s, NEW u \in Nat,
           NEW T, Places(T), NEW t, NEW v \in Nat,
           NEW a \in Nat,
           AlikeBefore(s, S, u, t, T, v),
           \A k \in u .. u + a - 1 : k \in S, \A l \in v .. v + a - 1 : l \in T,
           \A j \in 0 .. a - 1 : s[u + j] = t[v + j]
    PROVE  AlikeBefore(s, S, u + a, t, T, v + a)
<1>1. Rank(S, u) = Rank(T, v) /\ Rank(S, u) \in Nat
  BY RankType DEF AlikeBefore
<1>2. ASSUME NEW w \in Nat, u <= w, w <= u + a
      PROVE  Rank(S, w) = Rank(S, u) + (w - u)
  <2>1. \A k \in u .. w - 1 : k \in S
    BY <1>2
  <2> QED
    BY <1>2, <2>1, RankOverStretch
<1>3. ASSUME NEW w \in Nat, v <= w, w <= v + a
      PROVE  Rank(T, w) = Rank(T, v) + (w - v)
  <2>1. \A k \in v .. w - 1 : k \in T
    BY <1>3
  <2> QED
    BY <1>3, <2>1, RankOverStretch
<1>4. Rank(S, u + a) = Rank(T, v + a)
  <2>1. Rank(S, u + a) = Rank(S, u) + (u + a - u)
    <3>1. u + a \in Nat /\ u <= u + a /\ u + a <= u + a
      OBVIOUS
    <3> QED
      BY ONLY <1>2, <3>1
  <2>2. Rank(T, v + a) = Rank(T, v) + (v + a - v)
    <3>1. v + a \in Nat /\ v <= v + a /\ v + a <= v + a
      OBVIOUS
    <3> QED
      BY ONLY <1>3, <3>1
  <2>3. u + a - u = a /\ v + a - v = a
    OBVIOUS
  <2> QED
    BY ONLY <1>1, <2>1, <2>2, <2>3
<1>5. ASSUME NEW k \in S, NEW l \in T, k < u + a, l < v + a,
             Rank(S, k) = Rank(T, l)
      PROVE  s[k] = t[l]
  <2>1. k \in Nat /\ l \in Nat
    BY DEF Places
  <2>2. CASE k < u /\ l < v
    BY <1>5, <2>2 DEF AlikeBefore
  <2>3. CASE u <= k /\ l < v
    <3>1. Rank(S, u) <= Rank(S, k) /\ Rank(T, l) + 1 <= Rank(T, v)
      BY <2>1, <2>3, RankMonotone, RankGrows
    <3>2. Rank(S, k) \in Nat
      BY <2>1, RankType
    <3> QED
      BY ONLY <1>1, <1>5, <3>1, <3>2
  <2>4. CASE k < u /\ v <= l
    <3>1. Rank(T, v) <= Rank(T, l) /\ Rank(S, k) + 1 <= Rank(S, u)
      BY <2>1, <2>4, RankMonotone, RankGrows
    <3>2. Rank(T, l) \in Nat
      BY <2>1, RankType
    <3> QED
      BY ONLY <1>1, <1>5, <3>1, <3>2
  <2>5. CASE u <= k /\ v <= l
    <3>1. k <= u + a /\ l <= v + a
      BY <1>5, <2>1, <2>5
    <3>2. k - u = l - v
      <4>1. Rank(S, u) + (k - u) = Rank(S, u) + (l - v)
        BY ONLY <1>2, <1>3, <1>1, <1>5, <2>1, <2>5, <3>1
      <4>2. k - u \in Int /\ l - v \in Int
        BY <2>1
      <4> QED
        BY ONLY <1>1, <4>1, <4>2
    <3>3. k - u \in 0 .. a - 1 /\ u + (k - u) = k /\ v + (k - u) = l
      BY <1>5, <2>1, <2>5, <3>2
    <3> QED
      BY <3>3
  <2> QED
    BY <2>1, <2>2, <2>3, <2>4, <2>5
<1> QED
  BY ONLY <1>4, <1>5 DEF AlikeBefore

\* A stretch of places that are not counted is passed over.
LEMMA AlikeOverOthers ==
    ASSUME NEW S, Places(S), NEW s, NEW u \in Nat,
           NEW T, NEW t, NEW v, NEW w \in Nat, u <= w,
           AlikeBefore(s, S, u, t, T, v), \A k \in u .. w - 1 : k \notin S
    PROVE  AlikeBefore(s, S, w, t, T, v)
<1>1. Rank(S, w) = Rank(S, u)
  BY RankOverOthers
<1>2. ASSUME NEW k \in S, k < w PROVE k < u
  <2>1. k \in Nat /\ k \notin u .. w - 1
    BY DEF Places
  <2> QED
    BY <1>2, <2>1
<1> QED
  BY ONLY <1>1, <1>2, AlikeBefore(s, S, u, t, T, v), Zenon DEF AlikeBefore

\* Texts that are alike to their ends are alike.
LEMMA AlikeAtEnd ==
    ASSUME NEW S, Places(S), NEW s, NEW m \in Nat, \A k \in S : k < m,
           NEW T, Places(T), NEW t, NEW n \in Nat, \A l \in T : l < n,
           AlikeBefore(s, S, m, t, T, n)
    PROVE  Alike(s, S, t, T)
<1>1. Rank(S, m) = Cardinality(S) /\ Rank(T, n) = Cardinality(T)
  BY RankAtEnd
<1> QED
  BY ONLY <1>1, \A k \in S : k < m, \A l \in T : l < n,
          AlikeBefore(s, S, m, t, T, n), Zenon
     DEF AlikeBefore, Alike

\* Texts are not alike if their characters of one rank differ.
LEMMA DifferAtRank ==
    ASSUME NEW s, NEW S, NEW t, NEW T, NEW m \in S, NEW n \in T,
           Rank(S, m) = Rank(T, n), s[m] # t[n]
    PROVE  ~Alike(s, S, t, T)
BY DEF Alike

\* Texts are not alike if one has a counted character more.
LEMMA OneIsLonger ==
    ASSUME NEW S, Places(S), NEW s, NEW m \in S,
           NEW T, NEW t, Cardinality(T) <= Rank(S, m)
    PROVE  ~Alike(s, S, t, T)
<1>1. Rank(S, m) + 1 <= Cardinality(S)
  BY RankAtEnd
<1>2. Rank(S, m) \in Nat /\ Cardinality(S) \in Nat
  <2>1. m \in Nat
    BY DEF Places
  <2> QED
    BY <2>1, RankType
<1>3. Cardinality(S) # Cardinality(T)
  BY <1>1, <1>2
<1> QED
  BY ONLY <1>3 DEF Alike
-----------------------------------------------------------------------------
(***************************************************************************)
(* The places of a text that are counted                                   *)
(***************************************************************************)

\* A text is a sequence, and both kinds of places are places of it.
LEMMA TextType ==
    ASSUME NEW s \in Texts
    PROVE  /\ Len(s) \in Nat /\ DOMAIN s = 1 .. Len(s)
           /\ Places(Bares(s)) /\ Places(Kept(s))
           /\ Bares(s) \subseteq 1 .. Len(s) /\ Kept(s) \subseteq 1 .. Len(s)
<1>1. Len(s) \in Nat /\ DOMAIN s = 1 .. Len(s)
  <2>1. PICK n \in 0 .. MaxText : s \in [1 .. n -> Chars]
    BY DEF Texts
  <2>2. n \in Nat /\ s \in Seq(Chars)
    BY <2>1, MaxTextAssumption
  <2> QED
    BY <2>2
<1>2. ASSUME NEW S \in SUBSET (1 .. Len(s)) PROVE Places(S)
  <2>1. IsFiniteSet(1 .. Len(s))
    BY <1>1, FS_Interval
  <2>2. IsFiniteSet(S)
    BY ONLY <2>1, <1>2, FS_Subset
  <2> QED
    BY <1>1, <2>2 DEF Places
<1>3. Bares(s) \subseteq 1 .. Len(s) /\ Kept(s) \subseteq 1 .. Len(s)
  BY <1>1 DEF Bares, Kept
<1> QED
  BY ONLY <1>1, <1>2, <1>3

\* The places from u to before w hold CRs.
Run(s, u, w) == \A k \in u .. w - 1 : s[k] = "CR"

\* The CRs from place u on, if any, end in a LF.
LineEndsAt(s, u) == \E m \in u .. Len(s) : s[m] = "LF" /\ Run(s, u, m)

\* None of the CRs of a line end is kept, its LF is.
LEMMA LineEndIsKept ==
    ASSUME NEW s \in Texts, NEW u \in Nat \ {0}, NEW m \in u .. Len(s),
           s[m] = "LF", Run(s, u, m)
    PROVE  /\ m \in Kept(s)
           /\ \A k \in u .. m - 1 : k \notin Kept(s)
           /\ Rank(Kept(s), m) = Rank(Kept(s), u)
<1>1. Len(s) \in Nat /\ DOMAIN s = 1 .. Len(s) /\ Places(Kept(s))
  BY TextType
<1>2. m \in Kept(s)
  <2>1. m \in 1 .. Len(s)
    BY <1>1
  <2>2. ASSUME NEW n \in m + 1 .. Len(s), \A l \in m .. n - 1 : s[l] = "CR"
        PROVE  FALSE
    <3>1. m \in m .. n - 1
      BY <1>1, <2>1
    <3> QED
      BY <2>2, <3>1
  <2> QED
    BY ONLY <1>1, <2>1, <2>2 DEF Kept
<1>3. ASSUME NEW k \in u .. m - 1 PROVE k \notin Kept(s)
  <2>1. m \in k + 1 .. Len(s)
    BY <1>1
  <2>2. \A l \in k .. m - 1 : s[l] = "CR"
    BY DEF Run
  <2> QED
    BY <2>1, <2>2 DEF Kept
<1>4. u \in Nat /\ m \in Nat /\ u <= m
  BY <1>1
<1>5. Rank(Kept(s), m) = Rank(Kept(s), u)
  BY <1>1, <1>3, <1>4, RankOverOthers
<1> QED
  BY ONLY <1>2, <1>3, <1>5

\* CRs that end in no LF are kept, and so is what follows them.
LEMMA RunIsKept ==
    ASSUME NEW s \in Texts, NEW u \in Nat \ {0}, NEW w \in u .. Len(s) + 1,
           Run(s, u, w), ~LineEndsAt(s, u)
    PROVE  /\ \A k \in u .. w - 1 : k \in Kept(s)
           /\ w \in DOMAIN s => w \in Kept(s) /\ s[w] # "LF"
           /\ u \in DOMAIN s => s[u] # "LF"
           /\ Rank(Kept(s), w) = Rank(Kept(s), u) + (w - u)
<1>1. Len(s) \in Nat /\ DOMAIN s = 1 .. Len(s) /\ Places(Kept(s))
  BY TextType
<1>2. ASSUME NEW k \in u .. w, k \in DOMAIN s PROVE k \in Kept(s)
  <2>1. ASSUME NEW m \in k + 1 .. Len(s), s[m] = "LF",
               \A l \in k .. m - 1 : s[l] = "CR"
        PROVE  FALSE
    <3>1. m \in u .. Len(s)
      BY <1>1, <1>2
    <3>2. \A l \in u .. m - 1 : l \in u .. w - 1 \/ l \in k .. m - 1
      BY <1>1, <1>2
    <3>3. Run(s, u, m)
      BY ONLY <2>1, <3>2, Run(s, u, w) DEF Run
    <3> QED
      BY <2>1, <3>1, <3>3 DEF LineEndsAt
  <2> QED
    BY ONLY <1>2, <2>1 DEF Kept
<1>3. ASSUME NEW k \in u .. w - 1 PROVE k \in Kept(s)
  <2>1. k \in u .. w /\ k \in DOMAIN s
    BY <1>1
  <2> QED
    BY <1>2, <2>1
<1>4. ASSUME w \in DOMAIN s PROVE w \in Kept(s) /\ s[w] # "LF"
  <2>1. w \in u .. w /\ w \in u .. Len(s)
    BY <1>1, <1>4
  <2> QED
    BY <1>2, <1>4, <2>1 DEF LineEndsAt
<1>5. ASSUME u \in DOMAIN s PROVE s[u] # "LF"
  <2>1. u \in u .. Len(s) /\ u .. u - 1 = {}
    BY <1>1, <1>5
  <2>2. Run(s, u, u)
    BY <2>1 DEF Run
  <2> QED
    BY <2>1, <2>2 DEF LineEndsAt
<1>6. u \in Nat /\ w \in Nat /\ u <= w
  BY <1>1
<1>7. Rank(Kept(s), w) = Rank(Kept(s), u) + (w - u)
  BY <1>1, <1>3, <1>6, RankOverStretch
<1> QED
  BY ONLY <1>3, <1>4, <1>5, <1>7

\* CRs end in a LF only if what is read after them is one or another CR.
LEMMA RunEnds ==
    ASSUME NEW s \in Texts, NEW u \in Nat \ {0}, NEW w \in u .. Len(s) + 1,
           Run(s, u, w), LineEndsAt(s, u)
    PROVE  w \in DOMAIN s /\ s[w] \in {"CR", "LF"}
<1>1. Len(s) \in Nat /\ DOMAIN s = 1 .. Len(s)
  BY TextType
<1>2. PICK m \in u .. Len(s) : s[m] = "LF" /\ Run(s, u, m)
  BY DEF LineEndsAt
<1>3. w <= m
  <2>1. CASE m < w
    <3>1. m \in u .. w - 1
      BY <1>1, <2>1
    <3> QED
      BY <1>2, <3>1 DEF Run
  <2> QED
    BY <1>1, <2>1
<1>4. w \in DOMAIN s
  BY <1>1, <1>3
<1>5. CASE w = m
  BY <1>2, <1>4, <1>5
<1>6. CASE w < m
  <2>1. w \in u .. m - 1
    BY <1>1, <1>6
  <2> QED
    BY <1>2, <1>4, <2>1 DEF Run
<1> QED
  BY <1>1, <1>3, <1>5, <1>6
-----------------------------------------------------------------------------
(***************************************************************************)
(* Line ends, while the result stands at MATCHER_ACCEPT                    *)
(***************************************************************************)

\* What InStep says with the places of the last CRs named.
Since(s, u, m, t, v, n) ==
    /\ Run(s, u, m) /\ Run(t, v, n)
    /\ AlikeBefore(s, Kept(s), u, t, Kept(t), v)
    /\ \/ m - u = n - v
       \/ m - u > n - v /\ n \in DOMAIN t /\ t[n] = "LF"
       \/ m - u < n - v /\ m \in DOMAIN s /\ s[m] = "LF"

LEMMA InStepSince ==
    ASSUME NEW s, NEW m, NEW t, NEW n
    PROVE  InStep(s, m, t, n)
             <=> \E u \in 1 .. m, v \in 1 .. n : Since(s, u, m, t, v, n)
BY Zenon DEF InStep, Since, Run

\* Neither of the texts comes first.
LEMMA InStepSymmetric ==
    ASSUME NEW s, NEW m \in Nat, NEW t, NEW n \in Nat, InStep(s, m, t, n)
    PROVE  InStep(t, n, s, m)
<1>1. PICK u \in 1 .. m, v \in 1 .. n : Since(s, u, m, t, v, n)
  BY InStepSince
<1>2. AlikeBefore(t, Kept(t), v, s, Kept(s), u)
  BY ONLY <1>1, AlikeSymmetric DEF Since
<1>3. \/ n - v = m - u
      \/ n - v > m - u /\ m \in DOMAIN s /\ s[m] = "LF"
      \/ n - v < m - u /\ n \in DOMAIN t /\ t[n] = "LF"
  BY <1>1 DEF Since
<1>4. Since(t, v, n, s, u, m)
  BY ONLY <1>1, <1>2, <1>3 DEF Since
<1> QED
  BY <1>4, InStepSince

\* A line ends in one of the texts and does not in the other.
LEMMA LineEndsInOne ==
    ASSUME NEW s \in Texts, NEW u \in Nat \ {0}, LineEndsAt(s, u),
           NEW t \in Texts, NEW v \in Nat \ {0}, NEW n \in v .. Len(t) + 1,
           Run(t, v, n), ~LineEndsAt(t, v),
           AlikeBefore(s, Kept(s), u, t, Kept(t), v)
    PROVE  ~Alike(s, Kept(s), t, Kept(t))
<1>0. /\ Len(t) \in Nat /\ DOMAIN t = 1 .. Len(t)
      /\ Places(Kept(t)) /\ Kept(t) \subseteq 1 .. Len(t) /\ Places(Kept(s))
  BY TextType
<1>1. PICK m \in u .. Len(s) : s[m] = "LF" /\ Run(s, u, m)
  BY DEF LineEndsAt
<1>2. m \in Kept(s) /\ Rank(Kept(s), m) = Rank(Kept(t), v)
  BY <1>1, LineEndIsKept DEF AlikeBefore
<1>3. CASE v \in DOMAIN t
  <2>1. v \in Kept(t)
    <3>1. CASE v = n
      BY <1>3, <3>1, RunIsKept
    <3>2. CASE v # n
      <4>1. v \in v .. n - 1
        BY <1>0, <3>2
      <4> QED
        BY <4>1, RunIsKept
    <3> QED
      BY <3>1, <3>2
  <2>2. t[v] # "LF"
    BY <1>3, RunIsKept
  <2> QED
    BY ONLY <1>1, <1>2, <2>1, <2>2, DifferAtRank
<1>4. CASE v \notin DOMAIN t
  <2>1. v \in Nat /\ \A l \in Kept(t) : l < v
    BY <1>0, <1>4
  <2>2. Rank(Kept(t), v) = Cardinality(Kept(t)) /\ Cardinality(Kept(t)) \in Nat
    BY <1>0, <2>1, RankAtEnd, RankType
  <2>3. Cardinality(Kept(t)) <= Rank(Kept(s), m)
    BY ONLY <1>2, <2>2
  <2> QED
    BY ONLY <1>0, <1>2, <2>3, OneIsLonger
<1> QED
  BY ONLY <1>3, <1>4

\* A character that is not matched and is no part of a line end: the texts
\* differ, for they are not in step with it or one of them has come to its end.
LEMMA Mismatch ==
    ASSUME NEW s \in Texts, NEW m \in DOMAIN s,
           NEW t \in Texts, NEW n \in 1 .. Len(t) + 1,
           InStep(s, m, t, n),
           n \in DOMAIN t => s[m] # t[n] /\ {s[m], t[n]} # {"CR", "LF"}
    PROVE  ~Alike(s, Kept(s), t, Kept(t))
<1>0. /\ Len(s) \in Nat /\ DOMAIN s = 1 .. Len(s) /\ Places(Kept(s))
      /\ Len(t) \in Nat /\ DOMAIN t = 1 .. Len(t) /\ Places(Kept(t))
      /\ Kept(t) \subseteq 1 .. Len(t)
  BY TextType
<1>1. PICK u \in 1 .. m, v \in 1 .. n : Since(s, u, m, t, v, n)
  BY InStepSince
<1>2. /\ u \in Nat \ {0} /\ m \in u .. Len(s) + 1 /\ Run(s, u, m)
      /\ v \in Nat \ {0} /\ n \in v .. Len(t) + 1 /\ Run(t, v, n)
  BY <1>0, <1>1 DEF Since
<1>3. /\ AlikeBefore(s, Kept(s), u, t, Kept(t), v)
      /\ AlikeBefore(t, Kept(t), v, s, Kept(s), u)
  BY ONLY <1>1, AlikeSymmetric DEF Since
<1>4. CASE LineEndsAt(s, u) /\ LineEndsAt(t, v)
  <2>1. s[m] \in {"CR", "LF"} /\ n \in DOMAIN t /\ t[n] \in {"CR", "LF"}
    BY <1>2, <1>4, RunEnds
  <2> QED
    BY <2>1
<1>5. CASE LineEndsAt(s, u) /\ ~LineEndsAt(t, v)
  BY <1>2, <1>3, <1>5, LineEndsInOne
<1>6. CASE ~LineEndsAt(s, u) /\ LineEndsAt(t, v)
  <2>1. ~Alike(t, Kept(t), s, Kept(s))
    BY <1>2, <1>3, <1>6, LineEndsInOne
  <2> QED
    BY ONLY <2>1, AlikeSymmetric
<1>7. CASE ~LineEndsAt(s, u) /\ ~LineEndsAt(t, v)
  <2>1. /\ m \in Kept(s) /\ s[m] # "LF"
        /\ Rank(Kept(s), m) = Rank(Kept(s), u) + (m - u)
    BY <1>2, <1>7, RunIsKept
  <2>2. /\ n \in DOMAIN t => n \in Kept(t) /\ t[n] # "LF"
        /\ Rank(Kept(t), n) = Rank(Kept(t), v) + (n - v)
    BY <1>2, <1>7, RunIsKept
  <2>3. m - u = n - v
    BY ONLY <1>1, <2>1, <2>2 DEF Since
  <2>4. Rank(Kept(s), m) = Rank(Kept(t), n)
    BY ONLY <1>3, <2>1, <2>2, <2>3 DEF AlikeBefore
  <2>5. CASE n \in DOMAIN t
    BY <2>1, <2>2, <2>4, <2>5, DifferAtRank
  <2>6. CASE n \notin DOMAIN t
    <3>1. n \in Nat /\ \A l \in Kept(t) : l < n
      BY <1>0, <2>6
    <3>2. Rank(Kept(t), n) = Cardinality(Kept(t)) /\ Cardinality(Kept(t)) \in Nat
      BY <1>0, <3>1, RankAtEnd, RankType
    <3>3. Cardinality(Kept(t)) <= Rank(Kept(s), m)
      BY ONLY <2>4, <3>2
    <3> QED
      BY ONLY <1>0, <2>1, <3>3, OneIsLonger
  <2> QED
    BY ONLY <2>5, <2>6
<1> QED
  BY ONLY <1>4, <1>5, <1>6, <1>7
\* Texts that are in step at their ends are alike.
LEMMA InStepAtEnd ==
    ASSUME NEW s \in Texts, NEW t \in Texts,
           InStep(s, Len(s) + 1, t, Len(t) + 1)
    PROVE  Alike(s, Kept(s), t, Kept(t))
<1> DEFINE m == Len(s) + 1
           n == Len(t) + 1
<1>0. /\ Len(s) \in Nat /\ DOMAIN s = 1 .. Len(s) /\ Places(Kept(s))
      /\ Len(t) \in Nat /\ DOMAIN t = 1 .. Len(t) /\ Places(Kept(t))
      /\ Kept(s) \subseteq 1 .. Len(s) /\ Kept(t) \subseteq 1 .. Len(t)
  BY TextType
<1>1. PICK u \in 1 .. m, v \in 1 .. n : Since(s, u, m, t, v, n)
  BY InStepSince
<1>2. m \notin DOMAIN s /\ n \notin DOMAIN t
  BY <1>0
<1>3. /\ u \in Nat \ {0} /\ m \in u .. Len(s) + 1 /\ Run(s, u, m)
      /\ v \in Nat \ {0} /\ n \in v .. Len(t) + 1 /\ Run(t, v, n)
  BY <1>0, <1>1 DEF Since
<1> HIDE DEF m, n
<1>4. ~LineEndsAt(s, u) /\ ~LineEndsAt(t, v)
  BY ONLY <1>2, <1>3, RunEnds, s \in Texts, t \in Texts
<1>5. /\ \A k \in u .. m - 1 : k \in Kept(s)
      /\ \A l \in v .. n - 1 : l \in Kept(t)
  BY ONLY <1>3, <1>4, RunIsKept, s \in Texts, t \in Texts
<1> DEFINE a == m - u
<1>6. a = n - v /\ AlikeBefore(s, Kept(s), u, t, Kept(t), v)
  BY ONLY <1>1, <1>2 DEF Since
<1>7. a \in Nat /\ u + a = m /\ v + a = n
  <2>1. m \in Nat /\ n \in Nat /\ u \in Nat /\ v \in Nat /\ u <= m /\ v <= n
    BY ONLY <1>0, <1>3
  <2> QED
    BY ONLY <1>6, <2>1
<1> HIDE DEF a
<1>8. \A j \in 0 .. a - 1 : s[u + j] = t[v + j]
  <2> TAKE j \in 0 .. a - 1
  <2>1. u + j \in u .. m - 1 /\ v + j \in v .. n - 1
    BY ONLY <1>3, <1>7
  <2> QED
    BY ONLY <1>3, <2>1 DEF Run
<1>9. AlikeBefore(s, Kept(s), u + a, t, Kept(t), v + a)
  <2>1. /\ \A k \in u .. u + a - 1 : k \in Kept(s)
        /\ \A l \in v .. v + a - 1 : l \in Kept(t)
    BY ONLY <1>5, <1>7
  <2> QED
    BY ONLY <1>0, <1>3, <1>6, <1>7, <1>8, <2>1, AlikeOverStretch
<1>10. /\ m \in Nat /\ \A k \in Kept(s) : k < m
       /\ n \in Nat /\ \A l \in Kept(t) : l < n
  BY ONLY <1>0 DEF m, n
<1> QED
  BY ONLY <1>0, <1>7, <1>9, <1>10, AlikeAtEnd

\* Equal characters keep the texts in step: a CR is one CR more on both sides,
\* a LF closes the line ends, and behind anything else the CRs were kept.
LEMMA InStepOverSame ==
    ASSUME NEW s \in Texts, NEW m \in DOMAIN s,
           NEW t \in Texts, NEW n \in DOMAIN t,
           InStep(s, m, t, n), s[m] = t[n]
    PROVE  InStep(s, m + 1, t, n + 1)
<1>0. /\ Len(s) \in Nat /\ DOMAIN s = 1 .. Len(s) /\ Places(Kept(s))
      /\ Len(t) \in Nat /\ DOMAIN t = 1 .. Len(t) /\ Places(Kept(t))
  BY TextType
<1>1. PICK u \in 1 .. m, v \in 1 .. n : Since(s, u, m, t, v, n)
  BY InStepSince
<1>2. /\ u \in Nat \ {0} /\ m \in u .. Len(s) /\ m \in u .. Len(s) + 1
      /\ v \in Nat \ {0} /\ n \in v .. Len(t) /\ n \in v .. Len(t) + 1
      /\ m \in Nat /\ n \in Nat /\ u <= m /\ v <= n
  BY <1>0
<1>a. /\ m \in Nat /\ n \in Nat /\ u \in Nat /\ v \in Nat
      /\ 1 <= u /\ u <= m /\ 1 <= v /\ v <= n
  BY ONLY <1>2
<1>3. /\ Run(s, u, m) /\ Run(t, v, n)
      /\ AlikeBefore(s, Kept(s), u, t, Kept(t), v)
  BY <1>1 DEF Since
<1>4. CASE s[m] = "CR"
  <2>1. m - u = n - v
    BY <1>1, <1>4 DEF Since
  <2>2. Run(s, u, m + 1)
    <3>1. \A k \in u .. (m + 1) - 1 : k \in u .. m - 1 \/ k = m
      BY ONLY <1>a
    <3> QED
      BY ONLY <1>3, <1>4, <3>1 DEF Run
  <2>3. Run(t, v, n + 1)
    <3>1. \A l \in v .. (n + 1) - 1 : l \in v .. n - 1 \/ l = n
      BY ONLY <1>a
    <3> QED
      BY ONLY <1>3, <1>4, <3>1, s[m] = t[n] DEF Run
  <2>4. (m + 1) - u = (n + 1) - v /\ u \in 1 .. m + 1 /\ v \in 1 .. n + 1
    BY ONLY <1>a, <2>1
  <2>5. Since(s, u, m + 1, t, v, n + 1)
    BY ONLY <1>3, <2>2, <2>3, <2>4 DEF Since
  <2> QED
    BY ONLY <2>4, <2>5, InStepSince
<1>5. ASSUME AlikeBefore(s, Kept(s), m + 1, t, Kept(t), n + 1)
      PROVE  InStep(s, m + 1, t, n + 1)
  <2>1. Run(s, m + 1, m + 1) /\ Run(t, n + 1, n + 1)
    BY <1>2 DEF Run
  <2>2. /\ m + 1 \in 1 .. m + 1 /\ n + 1 \in 1 .. n + 1
        /\ (m + 1) - (m + 1) = (n + 1) - (n + 1)
    BY ONLY <1>a
  <2>3. Since(s, m + 1, m + 1, t, n + 1, n + 1)
    BY ONLY <1>5, <2>1, <2>2 DEF Since
  <2> QED
    BY ONLY <2>2, <2>3, InStepSince
<1>6. CASE s[m] = "LF"
  <2>1. m \in Kept(s) /\ \A k \in u .. m - 1 : k \notin Kept(s)
    BY ONLY <1>2, <1>3, <1>6, LineEndIsKept, s \in Texts
  <2>2. n \in Kept(t) /\ \A l \in v .. n - 1 : l \notin Kept(t)
    BY ONLY <1>2, <1>3, <1>6, LineEndIsKept, t \in Texts, s[m] = t[n]
  <2>3. AlikeBefore(s, Kept(s), m, t, Kept(t), v)
    BY ONLY <1>0, <1>2, <1>3, <2>1, AlikeOverOthers
  <2>4. AlikeBefore(t, Kept(t), v, s, Kept(s), m)
    BY ONLY <2>3, AlikeSymmetric
  <2>5. AlikeBefore(t, Kept(t), n, s, Kept(s), m)
    BY ONLY <1>0, <1>2, <2>2, <2>4, AlikeOverOthers
  <2>6. AlikeBefore(s, Kept(s), m, t, Kept(t), n)
    BY ONLY <2>5, AlikeSymmetric
  <2>7. AlikeBefore(s, Kept(s), m + 1, t, Kept(t), n + 1)
    <3>1. /\ \A k \in m .. m + 1 - 1 : k \in Kept(s)
          /\ \A l \in n .. n + 1 - 1 : l \in Kept(t)
      BY ONLY <1>2, <2>1, <2>2
    <3>2. \A j \in 0 .. 1 - 1 : s[m + j] = t[n + j]
      BY ONLY <1>2, s[m] = t[n]
    <3> QED
      BY ONLY <1>0, <1>2, <2>6, <3>1, <3>2, AlikeOverStretch
  <2> QED
    BY ONLY <1>5, <2>7
<1>7. CASE s[m] \notin {"CR", "LF"}
  <2>1. m - u = n - v
    BY <1>1, <1>7 DEF Since
  <2>2. ~LineEndsAt(s, u) /\ ~LineEndsAt(t, v)
    BY ONLY <1>2, <1>3, <1>7, s[m] = t[n], RunEnds, s \in Texts, t \in Texts
  <2>3. m \in Kept(s) /\ \A k \in u .. m - 1 : k \in Kept(s)
    BY ONLY <1>2, <1>3, <2>2, RunIsKept, s \in Texts, m \in DOMAIN s
  <2>4. n \in Kept(t) /\ \A l \in v .. n - 1 : l \in Kept(t)
    BY ONLY <1>2, <1>3, <2>2, RunIsKept, t \in Texts, n \in DOMAIN t
  <2> DEFINE a == (m + 1) - u
  <2>5. a \in Nat /\ u + a = m + 1 /\ v + a = n + 1
    BY ONLY <1>a, <2>1
  <2> HIDE DEF a
  <2>6. /\ u \in Nat /\ u <= m /\ m \in Nat /\ (u + a) - 1 = m
        /\ v \in Nat /\ v <= n /\ n \in Nat /\ (v + a) - 1 = n
    <3>1. (m + 1) - 1 = m /\ (n + 1) - 1 = n
      BY ONLY <1>a
    <3> QED
      BY ONLY <1>a, <2>5, <3>1
  <2>7. /\ \A k \in u .. u + a - 1 : k \in Kept(s)
        /\ \A l \in v .. v + a - 1 : l \in Kept(t)
    <3>1. \A k \in u .. m : k \in u .. m - 1 \/ k = m
      BY ONLY <2>6
    <3>2. \A l \in v .. n : l \in v .. n - 1 \/ l = n
      BY ONLY <2>6
    <3>3. /\ \A k \in u .. m : k \in Kept(s)
          /\ \A l \in v .. n : l \in Kept(t)
      BY ONLY <2>3, <2>4, <3>1, <3>2, Zenon
    <3>4. u .. u + a - 1 = u .. m /\ v .. v + a - 1 = v .. n
      BY ONLY <2>5, <2>6
    <3> QED
      BY ONLY <3>3, <3>4, Zenon
  <2>8. \A j \in 0 .. a - 1 : s[u + j] = t[v + j]
    <3> TAKE j \in 0 .. a - 1
    <3>1. CASE j = a - 1
      <4>1. u + j = m /\ v + j = n
        BY ONLY <2>5, <2>6, <3>1
      <4> QED
        BY ONLY <4>1, s[m] = t[n]
    <3>2. CASE j # a - 1
      <4>1. u + j \in u .. m - 1 /\ v + j \in v .. n - 1
        BY ONLY <2>5, <2>6, <3>2
      <4> QED
        BY ONLY <1>3, <4>1 DEF Run
    <3> QED
      BY ONLY <3>1, <3>2
  <2>9. AlikeBefore(s, Kept(s), u + a, t, Kept(t), v + a)
    BY ONLY <1>0, <1>2, <1>3, <2>5, <2>7, <2>8, AlikeOverStretch
  <2> QED
    BY ONLY <1>5, <2>5, <2>9
<1> QED
  BY ONLY <1>4, <1>6, <1>7

\* A CR that is skipped where the other text has come to its LF keeps the texts
\* in step.
LEMMA InStepOverCR ==
    ASSUME NEW s \in Texts, NEW m \in DOMAIN s,
           NEW t \in Texts, NEW n \in DOMAIN t,
           InStep(s, m, t, n), s[m] = "CR", t[n] = "LF"
    PROVE  InStep(s, m + 1, t, n)
<1>0. /\ Len(s) \in Nat /\ DOMAIN s = 1 .. Len(s)
      /\ Len(t) \in Nat /\ DOMAIN t = 1 .. Len(t)
  BY TextType
<1>1. PICK u \in 1 .. m, v \in 1 .. n : Since(s, u, m, t, v, n)
  BY InStepSince
<1>2. /\ u \in Nat /\ v \in Nat /\ m \in Nat /\ n \in Nat
      /\ 1 <= u /\ u <= m /\ v <= n
  BY <1>0
<1>3. Run(s, u, m + 1)
  <2>1. \A k \in u .. (m + 1) - 1 : k \in u .. m - 1 \/ k = m
    BY ONLY <1>2
  <2> QED
    BY ONLY <1>1, <2>1, s[m] = "CR" DEF Run, Since
<1>4. m - u = n - v \/ m - u > n - v
  BY ONLY <1>1, s[m] = "CR" DEF Since
<1>5. (m + 1) - u > n - v /\ u \in 1 .. m + 1
  BY ONLY <1>2, <1>4
<1>6. Since(s, u, m + 1, t, v, n)
  BY ONLY <1>1, <1>3, <1>5, n \in DOMAIN t, t[n] = "LF" DEF Since
<1> QED
  BY ONLY <1>5, <1>6, InStepSince
-----------------------------------------------------------------------------
(***************************************************************************)
(* The loops                                                               *)
(***************************************************************************)

\* A loop is left at the end of its text, and only the return statements in the
\* loops give MATCHER_WRONG_ANWSER.
Loops ==
    /\ at # "returned" => result # "WRONG"
    /\ at = "source" => p \notin DOMAIN src \/ q \notin DOMAIN dst
    /\ at = "target" => p \notin DOMAIN src
    /\ at = "returned" /\ result # "WRONG" =>
           p \notin DOMAIN src /\ q \notin DOMAIN dst

Inv == TypeOK /\ Loops

LEMMA InitInv == Init => Inv
<1> SUFFICES ASSUME Init PROVE Inv
  OBVIOUS
<1>1. Len(src) \in Nat /\ Len(dst) \in Nat
  BY TextType DEF Init
<1>2. p \in 1 .. Len(src) + 1 /\ q \in 1 .. Len(dst) + 1
  BY <1>1 DEF Init
<1> QED
  BY <1>2 DEF Init, Inv, TypeOK, Loops

LEMMA StepInv == Inv /\ [Next]_vars => Inv'
<1> SUFFICES ASSUME Inv, [Next]_vars PROVE Inv'
  OBVIOUS
<1>0. /\ src \in Texts /\ Len(src) \in Nat /\ DOMAIN src = 1 .. Len(src)
      /\ dst \in Texts /\ Len(dst) \in Nat /\ DOMAIN dst = 1 .. Len(dst)
  BY TextType DEF Inv, TypeOK
<1>1. src' = src /\ dst' = dst
  BY DEF Next, vars, texts
<1>2. p \in 1 .. Len(src) + 1 /\ q \in 1 .. Len(dst) + 1
  BY DEF Inv, TypeOK
<1>3. p \in DOMAIN src => p + 1 \in 1 .. Len(src) + 1
  BY ONLY <1>0, <1>2
<1>4. q \in DOMAIN dst => q + 1 \in 1 .. Len(dst) + 1
  BY ONLY <1>0, <1>2
<1> USE DEF Inv, TypeOK, Loops
<1>5. CASE Same
  BY <1>1, <1>3, <1>4, <1>5 DEF Same, InBoth
<1>6. CASE SkipSourceCR
  BY <1>1, <1>3, <1>6 DEF SkipSourceCR, InBoth
<1>7. CASE SkipTargetCR
  BY <1>1, <1>4, <1>7 DEF SkipTargetCR, InBoth
<1>8. CASE SkipSourceWhite
  BY <1>1, <1>3, <1>8 DEF SkipSourceWhite, Unlike, InBoth
<1>9. CASE SkipTargetWhite
  BY <1>1, <1>4, <1>9 DEF SkipTargetWhite, Unlike, InBoth
<1>10. CASE Differ
  BY <1>1, <1>10 DEF Differ, Return
<1>11. CASE OneEnds
  BY <1>1, <1>11 DEF OneEnds
<1>12. CASE RestOfSource
  BY <1>1, <1>3, <1>12 DEF RestOfSource
<1>13. CASE SourceGoesOn
  BY <1>1, <1>13 DEF SourceGoesOn, Return
<1>14. CASE SourceEnds
  BY <1>1, <1>14 DEF SourceEnds
<1>15. CASE RestOfTarget
  BY <1>1, <1>4, <1>15 DEF RestOfTarget
<1>16. CASE TargetGoesOn
  BY <1>1, <1>16 DEF TargetGoesOn, Return
<1>17. CASE TargetEnds
  BY <1>1, <1>17 DEF TargetEnds, Return
<1>18. CASE UNCHANGED vars
  BY <1>18 DEF vars, texts
<1> QED
  BY <1>5, <1>6, <1>7, <1>8, <1>9, <1>10, <1>11, <1>12, <1>13, <1>14, <1>15,
     <1>16, <1>17, <1>18 DEF Next

\* The types of the comparison's variables, and where its loops end.
THEOREM ComparisonTypes == Spec => []TypeOK
<1>1. Inv => TypeOK
  BY DEF Inv
<1> QED
  BY InitInv, StepInv, <1>1, PTL DEF Spec

\* Nothing of two texts has been read at first.
LEMMA AlikeAtStart ==
    ASSUME NEW s, NEW S, Places(S), \A k \in S : 1 <= k,
           NEW t, NEW T, Places(T), \A l \in T : 1 <= l
    PROVE  AlikeBefore(s, S, 1, t, T, 1)
<1>1. (\A k \in S : ~(k < 1)) /\ \A l \in T : ~(l < 1)
  BY DEF Places
<1>2. {k \in S : k < 1} = {} /\ {l \in T : l < 1} = {}
  BY ONLY <1>1
<1> QED
  BY ONLY <1>1, <1>2 DEF AlikeBefore, Rank

-----------------------------------------------------------------------------
(***************************************************************************)
(* MATCHER_WRONG_ANWSER                                                    *)
(***************************************************************************)

\* A place that is read grows the rank if it holds no white space.
LEMMA BareOverOne ==
    ASSUME NEW s \in Texts, NEW m \in DOMAIN s, s[m] \in White,
           NEW T, NEW t, NEW n, AlikeBefore(s, Bares(s), m, t, T, n)
    PROVE  AlikeBefore(s, Bares(s), m + 1, t, T, n)
<1>1. /\ Len(s) \in Nat /\ DOMAIN s = 1 .. Len(s) /\ Places(Bares(s))
  BY TextType
<1>2. m \in Nat /\ m + 1 \in Nat /\ m <= m + 1
  BY <1>1
<1>3. \A k \in m .. m + 1 - 1 : k \notin Bares(s)
  BY <1>2 DEF Bares
<1> QED
  BY ONLY <1>1, <1>2, <1>3, AlikeBefore(s, Bares(s), m, t, T, n), AlikeOverOthers

LEMMA BareOverSame ==
    ASSUME NEW s \in Texts, NEW m \in DOMAIN s,
           NEW t \in Texts, NEW n \in DOMAIN t, s[m] = t[n],
           AlikeBefore(s, Bares(s), m, t, Bares(t), n)
    PROVE  AlikeBefore(s, Bares(s), m + 1, t, Bares(t), n + 1)
<1>1. /\ Len(s) \in Nat /\ DOMAIN s = 1 .. Len(s) /\ Places(Bares(s))
      /\ Len(t) \in Nat /\ DOMAIN t = 1 .. Len(t) /\ Places(Bares(t))
  BY TextType
<1>2. m \in Nat /\ n \in Nat
  BY <1>1
<1>3. CASE s[m] \in White
  <2>1. AlikeBefore(s, Bares(s), m + 1, t, Bares(t), n)
    BY <1>3, BareOverOne
  <2>2. AlikeBefore(t, Bares(t), n, s, Bares(s), m + 1)
    BY ONLY <2>1, AlikeSymmetric
  <2>3. AlikeBefore(t, Bares(t), n + 1, s, Bares(s), m + 1)
    BY <1>3, <2>2, BareOverOne
  <2> QED
    BY ONLY <2>3, AlikeSymmetric
<1>4. CASE s[m] \notin White
  <2>1. m \in Bares(s) /\ n \in Bares(t)
    BY <1>4 DEF Bares
  <2>2. /\ \A k \in m .. m + 1 - 1 : k \in Bares(s)
        /\ \A l \in n .. n + 1 - 1 : l \in Bares(t)
    BY ONLY <1>2, <2>1
  <2>3. \A j \in 0 .. 1 - 1 : s[m + j] = t[n + j]
    BY ONLY <1>2, s[m] = t[n]
  <2> QED
    BY ONLY <1>1, <1>2, <2>2, <2>3, AlikeOverStretch,
            AlikeBefore(s, Bares(s), m, t, Bares(t), n)
<1> QED
  BY ONLY <1>3, <1>4

\* A character that is no white space and has no counterpart: the texts differ.
LEMMA BareGoesOn ==
    ASSUME NEW s \in Texts, NEW m \in DOMAIN s, s[m] \notin White,
           NEW t \in Texts, NEW n \in 1 .. Len(t) + 1, n \notin DOMAIN t,
           AlikeBefore(s, Bares(s), m, t, Bares(t), n)
    PROVE  ~Alike(s, Bares(s), t, Bares(t))
<1>1. /\ Places(Bares(s)) /\ Places(Bares(t)) /\ Bares(t) \subseteq 1 .. Len(t)
      /\ Len(t) \in Nat /\ DOMAIN t = 1 .. Len(t)
  BY TextType
<1>2. n \in Nat /\ \A l \in Bares(t) : l < n
  BY <1>1
<1>3. Rank(Bares(t), n) = Cardinality(Bares(t)) /\ Cardinality(Bares(t)) \in Nat
  BY <1>1, <1>2, RankAtEnd, RankType
<1>4. Cardinality(Bares(t)) <= Rank(Bares(s), m)
  BY ONLY <1>3, AlikeBefore(s, Bares(s), m, t, Bares(t), n) DEF AlikeBefore
<1>5. m \in Bares(s)
  BY DEF Bares
<1> QED
  BY ONLY <1>1, <1>4, <1>5, OneIsLonger
BareInv == BareTextsReadAlike /\ WrongIfBareTextsDiffer

LEMMA InitBareInv == Init => BareInv
<1> SUFFICES ASSUME Init PROVE BareInv
  OBVIOUS
<1>1. /\ Places(Bares(src)) /\ \A k \in Bares(src) : 1 <= k
      /\ Places(Bares(dst)) /\ \A l \in Bares(dst) : 1 <= l
  BY TextType DEF Init
<1>2. AlikeBefore(src, Bares(src), 1, dst, Bares(dst), 1)
  BY ONLY <1>1, AlikeAtStart
<1>3. p = 1 /\ q = 1 /\ at = "both"
  BY DEF Init
<1> QED
  BY ONLY <1>2, <1>3 DEF BareInv, BareTextsReadAlike, WrongIfBareTextsDiffer

LEMMA StepBareInv == Inv /\ BareInv /\ [Next]_vars => BareInv'
<1> SUFFICES ASSUME Inv, BareInv, [Next]_vars PROVE BareInv'
  OBVIOUS
<1>0. /\ src \in Texts /\ Len(src) \in Nat /\ DOMAIN src = 1 .. Len(src)
      /\ dst \in Texts /\ Len(dst) \in Nat /\ DOMAIN dst = 1 .. Len(dst)
      /\ p \in 1 .. Len(src) + 1 /\ q \in 1 .. Len(dst) + 1
  BY TextType DEF Inv, TypeOK
<1>1. src' = src /\ dst' = dst
  BY DEF Next, vars, texts
<1> DEFINE S == Bares(src)
           T == Bares(dst)
<1>2. Loops
  BY DEF Inv
<1>3. at # "returned" => AlikeBefore(src, S, p, dst, T, q)
  BY DEF BareInv, BareTextsReadAlike
<1> HIDE DEF S, T
<1>4. ASSUME at' # "returned", AlikeBefore(src, S, p', dst, T, q')
      PROVE  BareInv'
  BY ONLY <1>1, <1>4
     DEF BareInv, BareTextsReadAlike, WrongIfBareTextsDiffer, S, T
<1>5. ASSUME at' = "returned", result' = "WRONG", ~Alike(src, S, dst, T)
      PROVE  BareInv'
  BY ONLY <1>1, <1>5
     DEF BareInv, BareTextsReadAlike, WrongIfBareTextsDiffer, SameBare, S, T
<1>6. CASE Same
  <2>1. AlikeBefore(src, S, p + 1, dst, T, q + 1)
    BY ONLY <1>0, <1>3, <1>6, BareOverSame DEF Same, InBoth, S, T
  <2> QED
    BY ONLY <1>4, <1>6, <2>1 DEF Same, InBoth
<1>7. CASE SkipSourceCR \/ SkipSourceWhite \/ RestOfSource
  <2>1. /\ p \in DOMAIN src /\ src[p] \in White /\ at # "returned"
        /\ p' = p + 1 /\ q' = q /\ at' = at
    BY ONLY <1>7
       DEF SkipSourceCR, SkipSourceWhite, RestOfSource, Unlike, InBoth, White
  <2>2. AlikeBefore(src, S, p + 1, dst, T, q)
    BY ONLY <1>0, <1>3, <2>1, BareOverOne DEF S
  <2> QED
    BY ONLY <1>4, <2>1, <2>2
<1>8. CASE SkipTargetCR \/ SkipTargetWhite \/ RestOfTarget
  <2>1. /\ q \in DOMAIN dst /\ dst[q] \in White /\ at # "returned"
        /\ p' = p /\ q' = q + 1 /\ at' = at
    BY ONLY <1>8
       DEF SkipTargetCR, SkipTargetWhite, RestOfTarget, Unlike, InBoth, White
  <2>2. AlikeBefore(dst, T, q, src, S, p)
    BY ONLY <1>3, <2>1, AlikeSymmetric
  <2>3. AlikeBefore(dst, T, q + 1, src, S, p)
    BY ONLY <1>0, <2>1, <2>2, BareOverOne DEF T
  <2>4. AlikeBefore(src, S, p, dst, T, q + 1)
    BY ONLY <2>3, AlikeSymmetric
  <2> QED
    BY ONLY <1>4, <2>1, <2>4
<1>9. CASE Differ
  <2>1. /\ p \in S /\ q \in T /\ src[p] # dst[q] /\ at = "both"
        /\ at' = "returned" /\ result' = "WRONG"
    BY ONLY <1>9 DEF Differ, Unlike, InBoth, Return, Bares, S, T
  <2>2. Rank(S, p) = Rank(T, q)
    BY ONLY <1>3, <2>1 DEF AlikeBefore
  <2> QED
    BY ONLY <1>5, <2>1, <2>2, DifferAtRank
<1>10. CASE OneEnds \/ SourceEnds
  <2>1. at # "returned" /\ at' # "returned" /\ p' = p /\ q' = q
    BY ONLY <1>10 DEF OneEnds, SourceEnds
  <2> QED
    BY ONLY <1>3, <1>4, <2>1
<1>11. CASE SourceGoesOn
  <2>1. /\ p \in DOMAIN src /\ src[p] \notin White /\ at = "source"
        /\ at' = "returned" /\ result' = "WRONG"
    BY ONLY <1>11 DEF SourceGoesOn, Return
  <2>2. q \notin DOMAIN dst
    BY ONLY <1>2, <2>1 DEF Loops
  <2>3. ~Alike(src, S, dst, T)
    BY ONLY <1>0, <1>3, <2>1, <2>2, BareGoesOn DEF S, T
  <2> QED
    BY ONLY <1>5, <2>1, <2>3
<1>12. CASE TargetGoesOn
  <2>1. /\ q \in DOMAIN dst /\ dst[q] \notin White /\ at = "target"
        /\ at' = "returned" /\ result' = "WRONG"
    BY ONLY <1>12 DEF TargetGoesOn, Return
  <2>2. p \notin DOMAIN src
    BY ONLY <1>2, <2>1 DEF Loops
  <2>3. AlikeBefore(dst, T, q, src, S, p)
    BY ONLY <1>3, <2>1, AlikeSymmetric
  <2>4. ~Alike(dst, T, src, S)
    BY ONLY <1>0, <2>1, <2>2, <2>3, BareGoesOn DEF S, T
  <2>5. ~Alike(src, S, dst, T)
    BY ONLY <2>4, AlikeSymmetric
  <2> QED
    BY ONLY <1>5, <2>1, <2>5
<1>13. CASE TargetEnds
  <2>1. /\ q \notin DOMAIN dst /\ at = "target"
        /\ at' = "returned" /\ result' = result
    BY ONLY <1>13 DEF TargetEnds, Return
  <2>2. p \notin DOMAIN src /\ result # "WRONG"
    BY ONLY <1>2, <2>1 DEF Loops
  <2>3. /\ Places(S) /\ \A k \in S : k < p
        /\ Places(T) /\ \A l \in T : l < q
    <3>1. p = Len(src) + 1 /\ q = Len(dst) + 1
      BY ONLY <1>0, <2>1, <2>2
    <3>2. /\ Places(S) /\ S \subseteq 1 .. Len(src)
          /\ Places(T) /\ T \subseteq 1 .. Len(dst)
      BY ONLY <1>0, TextType DEF S, T
    <3> QED
      BY ONLY <1>0, <3>1, <3>2
  <2>4. p \in Nat /\ q \in Nat
    BY ONLY <1>0
  <2>5. Alike(src, S, dst, T)
    BY ONLY <1>3, <2>1, <2>3, <2>4, AlikeAtEnd
  <2> QED
    BY ONLY <1>1, <2>1, <2>2, <2>5
       DEF BareInv, BareTextsReadAlike, WrongIfBareTextsDiffer, SameBare, S, T
<1>14. CASE UNCHANGED vars
  BY <1>14 DEF vars, texts, BareInv, BareTextsReadAlike,
     WrongIfBareTextsDiffer, SameBare
<1> QED
  BY ONLY <1>6, <1>7, <1>8, <1>9, <1>10, <1>11, <1>12, <1>13, <1>14, [Next]_vars
     DEF Next

\* The n-th characters that are no white space agree in what the loops of
\* Matcher::compare have read, in texts of any length.
THEOREM BareTextsStayAlike == Spec => []BareTextsReadAlike
<1>1. BareInv => BareTextsReadAlike
  BY DEF BareInv
<1> QED
  BY InitInv, StepInv, InitBareInv, StepBareInv, <1>1, PTL DEF Spec

\* Matcher::compare returns MATCHER_WRONG_ANWSER exactly for texts that differ
\* in more than white space, whatever their length.
THEOREM WrongIsRight == Spec => []WrongIfBareTextsDiffer
<1>1. BareInv => WrongIfBareTextsDiffer
  BY DEF BareInv
<1> QED
  BY InitInv, StepInv, InitBareInv, StepBareInv, <1>1, PTL DEF Spec

-----------------------------------------------------------------------------
(***************************************************************************)
(* MATCHER_ACCEPT                                                          *)
(***************************************************************************)
LineInv == LineEndsReadInStep /\ AcceptIfUnifiedTextsAgree

LEMMA InitLineInv == Init => LineInv
<1> SUFFICES ASSUME Init PROVE LineInv
  OBVIOUS
<1>1. /\ Places(Kept(src)) /\ \A k \in Kept(src) : 1 <= k
      /\ Places(Kept(dst)) /\ \A l \in Kept(dst) : 1 <= l
  BY TextType DEF Init
<1>2. AlikeBefore(src, Kept(src), 1, dst, Kept(dst), 1)
  BY ONLY <1>1, AlikeAtStart
<1>3. p = 1 /\ q = 1 /\ at = "both" /\ result = "ACCEPT"
  BY DEF Init
<1>4. Since(src, 1, 1, dst, 1, 1)
  <2>1. Run(src, 1, 1) /\ Run(dst, 1, 1)
    BY DEF Run
  <2> QED
    BY ONLY <1>2, <2>1 DEF Since
<1>5. InStep(src, 1, dst, 1)
  <2>1. 1 \in 1 .. 1
    OBVIOUS
  <2> QED
    BY ONLY <1>4, <2>1, InStepSince
<1> QED
  BY ONLY <1>3, <1>5 DEF LineInv, LineEndsReadInStep, AcceptIfUnifiedTextsAgree

LEMMA StepLineInv == Inv /\ LineInv /\ [Next]_vars => LineInv'
<1> SUFFICES ASSUME Inv, LineInv, [Next]_vars PROVE LineInv'
  OBVIOUS
<1>0. /\ src \in Texts /\ Len(src) \in Nat /\ DOMAIN src = 1 .. Len(src)
      /\ dst \in Texts /\ Len(dst) \in Nat /\ DOMAIN dst = 1 .. Len(dst)
      /\ p \in 1 .. Len(src) + 1 /\ q \in 1 .. Len(dst) + 1
      /\ p \in Nat /\ q \in Nat
  BY TextType DEF Inv, TypeOK
<1>1. src' = src /\ dst' = dst
  BY DEF Next, vars, texts
<1>2. Loops
  BY DEF Inv
<1>3. /\ result = "ACCEPT" /\ at # "returned" => InStep(src, p, dst, q)
      /\ result # "ACCEPT" => ~SameUnified
  BY DEF LineInv, LineEndsReadInStep
<1>4. SameUnified' <=> SameUnified
  BY ONLY <1>1 DEF SameUnified
<1>5. ASSUME at' # "returned", result' = result,
             InStep(src, p, dst, q) => InStep(src, p', dst, q'),
             at # "returned"
      PROVE  LineInv'
  BY ONLY <1>1, <1>3, <1>4, <1>5
     DEF LineInv, LineEndsReadInStep, AcceptIfUnifiedTextsAgree
<1>6. ASSUME result' # "ACCEPT", at # "returned",
             InStep(src, p, dst, q) => ~SameUnified
      PROVE  LineInv'
  BY ONLY <1>3, <1>4, <1>6
     DEF LineInv, LineEndsReadInStep, AcceptIfUnifiedTextsAgree
<1>7. CASE Same
  <2>1. InStep(src, p, dst, q) => InStep(src, p + 1, dst, q + 1)
    BY ONLY <1>0, <1>7, InStepOverSame DEF Same, InBoth
  <2> QED
    BY ONLY <1>5, <1>7, <2>1 DEF Same, InBoth
<1>8. CASE SkipSourceCR
  <2>1. InStep(src, p, dst, q) => InStep(src, p + 1, dst, q)
    BY ONLY <1>0, <1>8, InStepOverCR DEF SkipSourceCR, InBoth
  <2> QED
    BY ONLY <1>5, <1>8, <2>1 DEF SkipSourceCR, InBoth
<1>9. CASE SkipTargetCR
  <2>1. ASSUME InStep(src, p, dst, q) PROVE InStep(src, p, dst, q + 1)
    <3>1. InStep(dst, q, src, p)
      BY ONLY <1>0, <2>1, InStepSymmetric
    <3>2. InStep(dst, q + 1, src, p)
      BY ONLY <1>0, <1>9, <3>1, InStepOverCR DEF SkipTargetCR, InBoth
    <3>3. q + 1 \in Nat
      BY ONLY <1>0
    <3> QED
      BY ONLY <1>0, <3>2, <3>3, InStepSymmetric
  <2> QED
    BY ONLY <1>5, <1>9, <2>1 DEF SkipTargetCR, InBoth
<1>10. CASE SkipSourceWhite \/ SkipTargetWhite \/ Differ
  <2>1. /\ p \in DOMAIN src /\ q \in DOMAIN dst /\ at = "both"
        /\ src[p] # dst[q] /\ {src[p], dst[q]} # {"CR", "LF"}
        /\ result' # "ACCEPT"
    BY ONLY <1>10
       DEF SkipSourceWhite, SkipTargetWhite, Differ, Unlike, InBoth, Return
  <2>2. InStep(src, p, dst, q) => ~SameUnified
    BY ONLY <1>0, <2>1, Mismatch DEF SameUnified
  <2> QED
    BY ONLY <1>6, <2>1, <2>2
<1>11. CASE OneEnds \/ SourceEnds
  <2>1. /\ at # "returned" /\ at' # "returned" /\ p' = p /\ q' = q
        /\ result' = result
    BY ONLY <1>11 DEF OneEnds, SourceEnds
  <2> QED
    BY ONLY <1>5, <2>1
<1>12. CASE RestOfSource \/ SourceGoesOn
  <2>1. p \in DOMAIN src /\ at = "source" /\ result' # "ACCEPT"
    BY ONLY <1>12 DEF RestOfSource, SourceGoesOn, Return
  <2>2. q \notin DOMAIN dst
    BY ONLY <1>2, <2>1 DEF Loops
  <2>3. InStep(src, p, dst, q) => ~SameUnified
    BY ONLY <1>0, <2>1, <2>2, Mismatch DEF SameUnified
  <2> QED
    BY ONLY <1>6, <2>1, <2>3
<1>13. CASE RestOfTarget \/ TargetGoesOn
  <2>1. q \in DOMAIN dst /\ at = "target" /\ result' # "ACCEPT"
    BY ONLY <1>13 DEF RestOfTarget, TargetGoesOn, Return
  <2>2. p \notin DOMAIN src
    BY ONLY <1>2, <2>1 DEF Loops
  <2>3. ASSUME InStep(src, p, dst, q) PROVE ~SameUnified
    <3>1. InStep(dst, q, src, p)
      BY ONLY <1>0, <2>3, InStepSymmetric
    <3>2. ~Alike(dst, Kept(dst), src, Kept(src))
      BY ONLY <1>0, <2>1, <2>2, <3>1, Mismatch
    <3> QED
      BY ONLY <3>2, AlikeSymmetric DEF SameUnified
  <2> QED
    BY ONLY <1>6, <2>1, <2>3
<1>14. CASE TargetEnds
  <2>1. /\ q \notin DOMAIN dst /\ at = "target"
        /\ at' = "returned" /\ result' = result
    BY ONLY <1>14 DEF TargetEnds, Return
  <2>2. p = Len(src) + 1 /\ q = Len(dst) + 1
    BY ONLY <1>0, <1>2, <2>1 DEF Loops
  <2>3. result = "ACCEPT" => SameUnified
    BY ONLY <1>0, <1>3, <2>1, <2>2, InStepAtEnd DEF SameUnified
  <2> QED
    BY ONLY <1>3, <1>4, <2>1, <2>3
       DEF LineInv, LineEndsReadInStep, AcceptIfUnifiedTextsAgree
<1>15. CASE UNCHANGED vars
  BY <1>15 DEF vars, texts, LineInv, LineEndsReadInStep,
     AcceptIfUnifiedTextsAgree, SameUnified
<1> QED
  BY ONLY <1>7, <1>8, <1>9, <1>10, <1>11, <1>12, <1>13, <1>14, <1>15, [Next]_vars
     DEF Next

\* While the result stands at MATCHER_ACCEPT the CRs read last can still belong
\* to the same line ends, in texts of any length.
THEOREM LineEndsStayInStep == Spec => []LineEndsReadInStep
<1>1. LineInv => LineEndsReadInStep
  BY DEF LineInv
<1> QED
  BY InitInv, StepInv, InitLineInv, StepLineInv, <1>1, PTL DEF Spec

\* Matcher::compare returns MATCHER_ACCEPT exactly for texts that are the same
\* once every line end CR ... CR LF counts as LF, whatever their length.
THEOREM AcceptIsRight == Spec => []AcceptIfUnifiedTextsAgree
<1>1. LineInv => AcceptIfUnifiedTextsAgree
  BY DEF LineInv
<1> QED
  BY InitInv, StepInv, InitLineInv, StepLineInv, <1>1, PTL DEF Spec

\* Matcher::compare returns the verdict that a look at the whole texts gives,
\* with the characters counted instead of read.
THEOREM VerdictIsRight == Spec => []ReturnsVerdict
<1>1. TypeOK /\ BareInv /\ LineInv => ReturnsVerdict
  <2> SUFFICES ASSUME TypeOK, BareInv, LineInv, at = "returned"
               PROVE  result = VerdictByRank(src, dst)
    BY DEF ReturnsVerdict
  <2>1. /\ result \in {"ACCEPT", "PRESENT", "WRONG"}
        /\ result = "WRONG" <=> ~SameBare
        /\ result = "ACCEPT" <=> SameUnified
    BY DEF TypeOK, BareInv, LineInv, WrongIfBareTextsDiffer,
           AcceptIfUnifiedTextsAgree
  <2> QED
    BY ONLY <2>1 DEF VerdictByRank, SameBare, SameUnified
<1> QED
  BY InitInv, StepInv, ComparisonTypes, InitBareInv, StepBareInv, InitLineInv,
     StepLineInv, <1>1, PTL DEF Spec
=============================================================================

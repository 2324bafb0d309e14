------------------------- MODULE PathRewriteProofs -------------------------
(***************************************************************************)
(* Lemmas about the operators of PathRewrite, for every path: what         *)
(* collapsing, decoding, trimming and prefixing return, and how the first  *)
(* and the last token of a path fare under them, which is what locations   *)
(* and routes are chosen by.                                               *)
(***************************************************************************)
EXTENDS PathRewrite, FiniteSetTheorems, SequenceTheorems, TLAPS

(***************************************************************************)
(* Sequences over any set.                                                 *)
(***************************************************************************)
LEMMA FunctionIsSeq ==
    ASSUME NEW S, NEW n \in Nat, NEW f \in [1 .. n -> S]
    PROVE  f \in Seq(S) /\ Len(f) = n
OBVIOUS

LEMMA OneElement ==
    ASSUME NEW x
    PROVE  /\ SubSeq(<<x>>, 1, Len(<<x>>)) = <<x>> /\ Head(<<x>>) = x /\ Tail(<<x>>) = << >>
           /\ <<x>> # << >> /\ Len(<<x>>) = 1
<1>1. <<x>> \in Seq({x}) /\ <<x>> # << >> /\ Len(<<x>>) = 1
  OBVIOUS
<1>2. SubSeq(<<x>>, 1, Len(<<x>>)) = <<x>>
  BY <1>1, SubSeqFull
<1>3. Head(<<x>>) = x
  BY <1>1
<1>4. Tail(<<x>>) = << >>
  <2>1. Tail(<<x>>) \in Seq({x}) /\ Len(Tail(<<x>>)) = Len(<<x>>) - 1
    BY <1>1, HeadTailProperties
  <2>2. Len(Tail(<<x>>)) = 0
    BY <1>1, <2>1
  <2> QED
    BY <2>1, <2>2, EmptySeq
<1> QED
  BY <1>1, <1>2, <1>3, <1>4

LEMMA OneFirst ==
    ASSUME NEW S, NEW x \in S, NEW t \in Seq(S)
    PROVE  /\ <<x>> \o t \in Seq(S) /\ Len(<<x>> \o t) = 1 + Len(t)
           /\ <<x>> \o t # << >> /\ Head(<<x>> \o t) = x /\ Tail(<<x>> \o t) = t
OBVIOUS

(***************************************************************************)
(* The k-th element of a finite set of numbers: Nth enumerates the set in  *)
(* its order.                                                              *)
(***************************************************************************)
LEMMA RankGrows ==
    ASSUME NEW S \in SUBSET Int, IsFiniteSet(S), NEW i \in S, NEW j \in S, i < j
    PROVE  Rank(S, i) < Rank(S, j)
<1> DEFINE low == {x \in S : x <= i}
           all == {x \in S : x <= j}
<1>1. IsFiniteSet(all) /\ low \subseteq all /\ j \in all /\ j \notin low
  <2>1. i \in Int /\ j \in Int /\ S \subseteq Int
    OBVIOUS
  <2>2. ASSUME NEW x \in low PROVE x \in all
    BY <2>1
  <2>3. j \in all /\ j \notin low
    BY <2>1
  <2>4. all \subseteq S
    OBVIOUS
  <2> QED
    BY <2>2, <2>3, <2>4, FS_Subset
<1>2. Cardinality(low) <= Cardinality(all) /\ Cardinality(all) # Cardinality(low) /\ IsFiniteSet(low)
  BY <1>1, FS_Subset
<1>3. Cardinality(low) \in Nat /\ Cardinality(all) \in Nat
  BY <1>1, <1>2, FS_CardinalityType
<1> QED
  BY <1>2, <1>3 DEF Rank

LEMMA RankRange ==
    ASSUME NEW S \in SUBSET Int, IsFiniteSet(S), NEW i \in S
    PROVE  Rank(S, i) \in 1 .. Cardinality(S)
<1> DEFINE low == {x \in S : x <= i}
<1>1. low \subseteq S /\ i \in low
  OBVIOUS
<1>2. IsFiniteSet(low) /\ Cardinality(low) <= Cardinality(S)
  BY <1>1, FS_Subset
<1>3. Cardinality(low) \in Nat /\ Cardinality(S) \in Nat /\ Cardinality(low) # 0
  BY <1>1, <1>2, FS_CardinalityType, FS_EmptySet
<1> QED
  BY <1>2, <1>3 DEF Rank

LEMMA RankInjective ==
    ASSUME NEW S \in SUBSET Int, IsFiniteSet(S), NEW i \in S, NEW j \in S,
           Rank(S, i) = Rank(S, j)
    PROVE  i = j
<1>1. Rank(S, i) \in Int /\ Rank(S, j) \in Int
  BY RankRange, FS_CardinalityType
<1> QED
  BY <1>1, RankGrows

LEMMA RankOnto ==
    ASSUME NEW S \in SUBSET Int, IsFiniteSet(S), NEW k \in 1 .. Cardinality(S)
    PROVE  \E i \in S : Rank(S, i) = k
<1> DEFINE f == [i \in S |-> Rank(S, i)]
           T == 1 .. Cardinality(S)
<1>1. Cardinality(S) \in Nat
  BY FS_CardinalityType
<1>2. IsFiniteSet(T) /\ Cardinality(T) = Cardinality(S)
  BY <1>1, FS_Interval
<1>3. f \in [S -> T]
  BY RankRange
<1>4. f \in Injection(S, T)
  BY <1>3, RankInjective DEF Injection, IsInjective
<1>5. f \in Surjection(S, T)
  BY <1>2, <1>4, FS_Injection
<1> QED
  BY <1>5 DEF Surjection

LEMMA NthFacts ==
    ASSUME NEW S \in SUBSET Int, IsFiniteSet(S)
    PROVE  /\ Cardinality(S) \in Nat
           /\ \A k \in 1 .. Cardinality(S) : Nth(S, k) \in S /\ Rank(S, Nth(S, k)) = k
           /\ \A i \in S : Rank(S, i) \in 1 .. Cardinality(S) /\ Nth(S, Rank(S, i)) = i
           /\ \A k, l \in 1 .. Cardinality(S) : k < l => Nth(S, k) < Nth(S, l)
<1>1. Cardinality(S) \in Nat
  BY FS_CardinalityType
<1>2. \A k \in 1 .. Cardinality(S) : Nth(S, k) \in S /\ Rank(S, Nth(S, k)) = k
  BY RankOnto DEF Nth
<1>3. \A i \in S : Rank(S, i) \in 1 .. Cardinality(S) /\ Nth(S, Rank(S, i)) = i
  BY <1>2, RankRange, RankInjective
<1>4. ASSUME NEW k \in 1 .. Cardinality(S), NEW l \in 1 .. Cardinality(S), k < l
      PROVE  Nth(S, k) < Nth(S, l)
  <2> DEFINE x == Nth(S, k)
             y == Nth(S, l)
  <2>1. x \in S /\ y \in S /\ Rank(S, x) = k /\ Rank(S, y) = l
    BY <1>2
  <2> HIDE DEF x, y
  <2>2. x \in Int /\ y \in Int /\ k \in Int /\ l \in Int
    BY <1>1, <2>1
  <2>3. ~(y < x)
    BY <1>4, <2>1, <2>2, RankGrows
  <2>4. x # y
    BY <1>4, <2>1, <2>2
  <2>5. x < y
    BY <2>2, <2>3, <2>4
  <2> QED
    BY <2>5 DEF x, y
<1> QED
  BY <1>1, <1>2, <1>3, <1>4

\* Nothing lies between one element and the next, nor above the last.
LEMMA NthGaps ==
    ASSUME NEW S \in SUBSET Int, IsFiniteSet(S), NEW k \in 1 .. Cardinality(S), NEW i \in S
    PROVE  /\ i <= Nth(S, k) \/ (k < Cardinality(S) /\ Nth(S, k + 1) <= i)
           /\ k = Cardinality(S) => i <= Nth(S, k)
<1> DEFINE n == Cardinality(S)
           h == Rank(S, i)
<1>1. n \in Nat /\ h \in 1 .. n /\ Nth(S, h) = i /\ Nth(S, k) \in S
  BY NthFacts
<1> HIDE DEF h, n
<1>2. CASE h <= k
  <2>1. h = k \/ (h < k /\ k \in 1 .. n)
    BY <1>1, <1>2 DEF n
  <2>2. h < k => i < Nth(S, k)
    BY <1>1, <2>1, NthFacts DEF n
  <2>3. i \in Int /\ Nth(S, k) \in Int
    BY <1>1
  <2> QED
    BY <1>1, <2>1, <2>2, <2>3
<1>3. CASE h > k
  <2>1. k + 1 \in 1 .. n /\ k < n /\ (h = k + 1 \/ k + 1 < h)
    BY <1>1, <1>3 DEF n
  <2>2. k + 1 < h => Nth(S, k + 1) < i
    BY <1>1, <2>1, NthFacts DEF n
  <2>3. i \in Int /\ Nth(S, k + 1) \in Int
    BY <2>1, NthFacts DEF n
  <2>4. Nth(S, k + 1) <= i
    BY <1>1, <2>1, <2>2, <2>3
  <2>5. k # n
    BY <1>1, <2>1
  <2> QED
    BY <2>1, <2>4, <2>5 DEF n
<1>4. k \in Int
  BY <1>1 DEF n
<1> QED
  BY <1>1, <1>2, <1>3, <1>4

(***************************************************************************)
(* The greatest and the least element of a set of places in a path.        *)
(***************************************************************************)
LEMMA MaxFacts ==
    ASSUME NEW S \in SUBSET Int, IsFiniteSet(S), S # {}
    PROVE  Max(S) \in S /\ \A i \in S : i <= Max(S)
<1> DEFINE n == Cardinality(S)
           m == Nth(S, n)
<1>1. n \in Nat \ {0}
  BY FS_CardinalityType, FS_EmptySet
<1>2. m \in S
  BY <1>1, NthFacts
<1>3. ASSUME NEW i \in S PROVE i <= m
  <2>1. Rank(S, i) \in 1 .. n /\ Nth(S, Rank(S, i)) = i
    BY NthFacts
  <2>2. Rank(S, i) = n \/ Rank(S, i) < n
    BY <1>1, <2>1
  <2>3. Rank(S, i) < n => i < m
    BY <1>1, <2>1, NthFacts
  <2>4. i \in Int /\ m \in Int
    BY <1>2
  <2> HIDE DEF n, m
  <2>5. Rank(S, i) = n => i = m
    BY <2>1 DEF m
  <2> QED
    BY <2>2, <2>3, <2>4, <2>5
<1> HIDE DEF m
<1>4. \A i \in S : m >= i
  BY <1>2, <1>3
<1> QED
  BY <1>2, <1>4 DEF Max

----------------------------------------------------------------------------
(***************************************************************************)
(* Collapsing the duplicate slashes of a path.                             *)
(***************************************************************************)
LEMMA KeptFacts ==
    ASSUME NEW p \in Path
    PROVE  /\ Kept(p) \in SUBSET Int /\ IsFiniteSet(Kept(p)) /\ Cardinality(Kept(p)) \in Nat
           /\ Kept(p) \subseteq 1 .. Len(p)
           /\ p # << >> => 1 \in Kept(p)
<1>1. Len(p) \in Nat /\ DOMAIN p = 1 .. Len(p)
  BY DEF Path
<1>2. Kept(p) \subseteq 1 .. Len(p)
  BY <1>1 DEF Kept
<1>3. IsFiniteSet(Kept(p))
  <2>1. IsFiniteSet(1 .. Len(p))
    BY <1>1, FS_Interval
  <2> QED
    BY <1>2, <2>1, FS_Subset
<1>4. p # << >> => 1 \in Kept(p)
  BY <1>1 DEF Kept, Path
<1> QED
  BY <1>1, <1>2, <1>3, <1>4, FS_CardinalityType

LEMMA CollapseType ==
    ASSUME NEW p \in Path
    PROVE  /\ CollapseDuplicateSlashes(p) \in Path
           /\ Len(CollapseDuplicateSlashes(p)) = Cardinality(Kept(p))
           /\ \A k \in 1 .. Cardinality(Kept(p)) :
                 /\ Nth(Kept(p), k) \in Kept(p)
                 /\ CollapseDuplicateSlashes(p)[k] = p[Nth(Kept(p), k)]
<1>1. \A k \in 1 .. Cardinality(Kept(p)) : Nth(Kept(p), k) \in Kept(p)
  BY KeptFacts, NthFacts
<1>2. \A i \in Kept(p) : p[i] \in Token
  BY KeptFacts DEF Path
<1>3. Cardinality(Kept(p)) \in Nat
  BY KeptFacts
<1> QED
  BY <1>1, <1>2, <1>3 DEF CollapseDuplicateSlashes, Path

LEMMA CollapseFirst ==
    ASSUME NEW p \in Path
    PROVE  /\ p = << >> <=> CollapseDuplicateSlashes(p) = << >>
           /\ p # << >> => Head(CollapseDuplicateSlashes(p)) = Head(p)
<1> DEFINE K == Kept(p)
           c == CollapseDuplicateSlashes(p)
<1>1. c \in Path /\ Len(c) = Cardinality(K) /\ Cardinality(K) \in Nat
  BY CollapseType, KeptFacts
<1>2. CASE p = << >>
  <2>1. K = {}
    BY <1>2 DEF Kept
  <2>2. Len(c) = 0
    BY <1>1, <2>1, FS_EmptySet
  <2> HIDE DEF c
  <2>3. c = << >>
    BY <1>1, <2>2 DEF Path
  <2> QED
    BY <1>2, <2>3 DEF c
<1>3. CASE p # << >>
  <2>1. 1 \in K /\ K \in SUBSET Int /\ IsFiniteSet(K) /\ \A i \in K : i >= 1
    BY <1>3, KeptFacts
  <2>2. Cardinality(K) # 0
    BY <2>1, FS_EmptySet
  <2>3. Nth(K, 1) = 1
    <3>1. Rank(K, 1) \in 1 .. Cardinality(K) /\ Nth(K, Rank(K, 1)) = 1
      BY <2>1, NthFacts
    <3>2. ASSUME Rank(K, 1) # 1 PROVE FALSE
      <4>1. 1 < Rank(K, 1) /\ 1 \in 1 .. Cardinality(K)
        BY <1>1, <3>1, <3>2
      <4>2. Nth(K, 1) < 1 /\ Nth(K, 1) \in K
        BY <2>1, <3>1, <4>1, NthFacts
      <4> QED
        BY <2>1, <4>2
    <3> QED
      BY <3>1, <3>2
  <2>4. c[1] = p[1]
    BY <1>1, <2>2, <2>3, CollapseType
  <2> HIDE DEF c
  <2>5. c # << >> /\ Head(c) = c[1] /\ Head(p) = p[1]
    BY <1>1, <1>3, <2>2 DEF Path
  <2> QED
    BY <1>3, <2>4, <2>5 DEF c
<1> QED
  BY <1>2, <1>3

(***************************************************************************)
(* Collapsing keeps the last token, and the slash before it: whether a     *)
(* path is a directory, or an index page, survives it.                     *)
(***************************************************************************)
LEMMA CollapseLast ==
    ASSUME NEW p \in Path, p # << >>
    PROVE  /\ CollapseDuplicateSlashes(p) # << >>
           /\ Last(CollapseDuplicateSlashes(p)) = Last(p)
<1> DEFINE K == Kept(p)
           n == Cardinality(K)
           m == Nth(K, n)
<1>1. K \in SUBSET Int /\ IsFiniteSet(K) /\ K \subseteq 1 .. Len(p) /\ Len(p) \in Nat \ {0}
  BY KeptFacts DEF Path
<1>2. n \in Nat \ {0}
  BY KeptFacts, FS_EmptySet
<1>3. m \in K /\ \A i \in K : i <= m
  BY <1>1, <1>2, NthFacts, NthGaps
<1>4. CollapseDuplicateSlashes(p) # << >> /\ Last(CollapseDuplicateSlashes(p)) = p[m]
  <2>1. CollapseDuplicateSlashes(p) \in Path /\ Len(CollapseDuplicateSlashes(p)) = n
    BY CollapseType
  <2>2. CollapseDuplicateSlashes(p)[n] = p[m]
    BY <1>2, CollapseType
  <2>3. CollapseDuplicateSlashes(p) # << >>
    BY CollapseFirst
  <2> QED
    BY <2>1, <2>2, <2>3 DEF Last
<1> HIDE DEF m, n
<1>5. CASE m = Len(p)
  BY <1>4, <1>5 DEF Last
<1>6. CASE m # Len(p)
  <2>1. m \in 1 .. Len(p) /\ m + 1 \in 1 .. Len(p)
    BY <1>1, <1>3, <1>6
  <2>2. \A i \in 1 .. Len(p) : i > m => p[i] = "/" /\ p[i - 1] = "/"
    <3>1. ASSUME NEW i \in 1 .. Len(p), i > m PROVE p[i] = "/" /\ p[i - 1] = "/"
      <4>1. i \notin K
        BY <1>1, <1>3, <3>1
      <4>2. i # 1 /\ i \in DOMAIN p
        BY <2>1, <3>1 DEF Path
      <4> QED
        BY <4>1, <4>2 DEF Kept
    <3> QED
      BY <3>1
  <2>3. p[m] = "/"
    BY <2>1, <2>2
  <2>4. p[Len(p)] = "/"
    BY <1>1, <2>1, <2>2, <1>6
  <2> QED
    BY <1>4, <2>3, <2>4 DEF Last
<1> QED
  BY <1>5, <1>6

LEMMA CollapseDirectory ==
    ASSUME NEW p \in Path
    PROVE  IsDirectory(CollapseDuplicateSlashes(p)) <=> IsDirectory(p)
BY CollapseFirst, CollapseLast DEF IsDirectory

LEMMA CollapseLastTwo ==
    ASSUME NEW p \in Path, Len(p) > 1, p[Len(p) - 1] = "/", Last(p) # "/"
    PROVE  LET c == CollapseDuplicateSlashes(p)
           IN  Len(c) > 1 /\ c[Len(c) - 1] = "/" /\ Last(c) = Last(p)
<1> DEFINE K == Kept(p)
           n == Cardinality(K)
           m == Nth(K, n - 1)
<1>1. K \in SUBSET Int /\ IsFiniteSet(K) /\ K \subseteq 1 .. Len(p) /\ Len(p) \in Nat /\ 1 \in K
  BY KeptFacts DEF Path
<1>2. Len(p) \in K
  BY <1>1 DEF Kept, Path, Last
<1>3. n \in Nat /\ n > 1
  <2>1. Rank(K, 1) \in 1 .. n /\ Rank(K, Len(p)) \in 1 .. n /\ n \in Nat
    BY <1>1, <1>2, RankRange, KeptFacts
  <2>2. Rank(K, 1) < Rank(K, Len(p))
    BY <1>1, <1>2, RankGrows
  <2> QED
    BY <2>1, <2>2
<1>4. n - 1 \in 1 .. n /\ n \in 1 .. n /\ (n - 1) + 1 = n
  BY <1>3
<1>5. m \in K /\ m < Nth(K, n) /\ Nth(K, n) \in K /\ \A i \in K : i <= m \/ Nth(K, n) <= i
  <2>1. m \in K /\ m < Nth(K, n) /\ Nth(K, n) \in K
    BY <1>1, <1>3, <1>4, NthFacts
  <2>2. \A i \in K : i <= m \/ Nth(K, n) <= i
    BY <1>1, <1>4, NthGaps
  <2> QED
    BY <2>1, <2>2
<1>6. Nth(K, n) = Len(p)
  <2>1. Len(p) <= Nth(K, n)
    BY <1>1, <1>2, <1>4, NthGaps
  <2> QED
    BY <1>1, <1>5, <2>1
<1>7. p[m] = "/"
  <2> HIDE DEF m
  <2>1. CASE m = Len(p) - 1
    BY <2>1
  <2>2. CASE m # Len(p) - 1
    <3>1. m + 1 \in 1 .. Len(p) /\ m + 1 # 1 /\ m \in Int
      BY <1>1, <1>5, <1>6, <2>2
    <3>2. m + 1 \notin K
      BY <1>1, <1>5, <1>6, <2>2, <3>1
    <3>3. m + 1 \in DOMAIN p /\ (m + 1) - 1 = m
      BY <3>1 DEF Path
    <3> QED
      BY <3>1, <3>2, <3>3 DEF Kept
  <2> QED
    BY <2>1, <2>2
<1>8. Len(CollapseDuplicateSlashes(p)) = n /\ CollapseDuplicateSlashes(p)[n - 1] = p[m]
  BY <1>4, CollapseType
<1>9. Last(CollapseDuplicateSlashes(p)) = Last(p)
  BY CollapseLast
<1> QED
  BY <1>3, <1>7, <1>8, <1>9

\* No two slashes are left next to each other.
LEMMA CollapseSingle ==
    ASSUME NEW p \in Path, NEW k \in 1 .. Cardinality(Kept(p)), k + 1 \in 1 .. Cardinality(Kept(p)),
           CollapseDuplicateSlashes(p)[k] = "/"
    PROVE  CollapseDuplicateSlashes(p)[k + 1] # "/"
<1> DEFINE K == Kept(p)
           a == Nth(K, k)
           b == Nth(K, k + 1)
<1>1. K \in SUBSET Int /\ IsFiniteSet(K) /\ K \subseteq 1 .. Len(p) /\ Len(p) \in Nat
      /\ Cardinality(K) \in Nat
  BY KeptFacts DEF Path
<1>2. k \in Int /\ k < k + 1 /\ k # Cardinality(K)
  BY <1>1
<1>3. a \in K /\ b \in K /\ a < b
  BY <1>1, <1>2, NthFacts
<1>4. \A i \in K : i <= a \/ b <= i
  BY <1>1, <1>2, NthGaps
<1>5. p[a] = "/" /\ CollapseDuplicateSlashes(p)[k + 1] = p[b]
  BY CollapseType
<1>6. SUFFICES ASSUME p[b] = "/" PROVE FALSE
  BY <1>5
<1> HIDE DEF a, b
<1>7. a \in Int /\ b \in Int /\ b # 1 /\ b - 1 \in 1 .. Len(p)
  BY <1>1, <1>3
<1>8. p[b - 1] # "/"
  BY <1>3, <1>6, <1>7 DEF Kept
<1>9. b - 1 \in K
  <2>1. b - 1 \in DOMAIN p
    BY <1>7 DEF Path
  <2> QED
    BY <1>8, <2>1 DEF Kept
<1>10. b - 1 # a
  BY <1>5, <1>8
<1> QED
  BY <1>3, <1>4, <1>7, <1>9, <1>10

----------------------------------------------------------------------------
(***************************************************************************)
(* Decoding: place by place, a slash stays a slash.                        *)
(***************************************************************************)
LEMMA DecodedFacts ==
    ASSUME NEW p \in Path
    PROVE  /\ Decoded(p) \in Path /\ Len(Decoded(p)) = Len(p)
           /\ \A i \in 1 .. Len(p) : Decoded(p)[i] = IF p[i] = "%2F" THEN "/" ELSE p[i]
<1>1. Len(p) \in Nat /\ DOMAIN p = 1 .. Len(p) /\ \A i \in 1 .. Len(p) : p[i] \in Token
  BY DEF Path
<1> DEFINE f == [i \in 1 .. Len(p) |-> IF p[i] = "%2F" THEN "/" ELSE p[i]]
<1>2. Decoded(p) = f
  BY <1>1 DEF Decoded
<1>3. f \in Seq(Token) /\ Len(f) = Len(p)
  <2>1. \A i \in 1 .. Len(p) : (IF p[i] = "%2F" THEN "/" ELSE p[i]) \in Token
    BY <1>1 DEF Token
  <2>2. f \in [1 .. Len(p) -> Token]
    BY <2>1
  <2> QED
    BY <1>1, <2>2, FunctionIsSeq
<1>4. \A i \in 1 .. Len(p) : f[i] = IF p[i] = "%2F" THEN "/" ELSE p[i]
  OBVIOUS
<1> QED
  BY <1>2, <1>3, <1>4 DEF Path

LEMMA DecodedEnds ==
    ASSUME NEW p \in Path, p # << >>
    PROVE  /\ Decoded(p) # << >>
           /\ Head(Decoded(p)) = IF Head(p) = "%2F" THEN "/" ELSE Head(p)
           /\ Last(Decoded(p)) = IF Last(p) = "%2F" THEN "/" ELSE Last(p)
<1>1. Len(p) \in Nat \ {0} /\ Decoded(p) \in Path /\ Len(Decoded(p)) = Len(p)
  BY DecodedFacts DEF Path
<1>2. Decoded(p) # << >> /\ Head(Decoded(p)) = Decoded(p)[1] /\ Head(p) = p[1]
  <2> HIDE DEF Path
  <2>1. \A t \in Path : Len(t) \in Nat \ {0} => t # << >> /\ Head(t) = t[1]
    BY DEF Path
  <2> QED
    BY <1>1, <2>1
<1>3. 1 \in 1 .. Len(p) /\ Len(p) \in 1 .. Len(p)
  BY <1>1
<1> QED
  BY <1>1, <1>2, <1>3, DecodedFacts DEF Last

LEMMA ConcatLast ==
    ASSUME NEW s \in Path, NEW t \in Path, t # << >>
    PROVE  Last(s \o t) = Last(t)
<1>1. s \in Seq(Token) /\ t \in Seq(Token) /\ Len(s) \in Nat /\ Len(t) \in Nat \ {0}
  BY DEF Path
<1>2. Len(s \o t) = Len(s) + Len(t)
  BY <1>1
<1>3. \A i \in 1 .. Len(s) + Len(t) : (s \o t)[i] = IF i <= Len(s) THEN s[i] ELSE t[i - Len(s)]
  BY <1>1, ConcatProperties
<1>4. Len(s) + Len(t) \in 1 .. Len(s) + Len(t) /\ ~(Len(s) + Len(t) <= Len(s))
      /\ (Len(s) + Len(t)) - Len(s) = Len(t)
  BY <1>1
<1> QED
  BY <1>2, <1>3, <1>4 DEF Last

LEMMA OneTokenFirst ==
    ASSUME NEW t \in Path
    PROVE  /\ <<"/">> \o t \in Path
           /\ t # << >> => Last(<<"/">> \o t) = Last(t)
<1>1. "/" \in Token /\ t \in Seq(Token) /\ << >> \in Seq(Token)
  BY DEF Path, Token
<1>2. <<"/">> \in Path /\ <<"/">> \o t \in Path
  <2>1. <<"/">> \o << >> \in Seq(Token)
    BY <1>1, OneFirst
  <2>2. <<"/">> \o << >> = <<"/">>
    OBVIOUS
  <2>3. <<"/">> \o t \in Seq(Token)
    BY <1>1, OneFirst
  <2> QED
    BY <2>1, <2>2, <2>3 DEF Path
<1> QED
  BY <1>2, ConcatLast

(***************************************************************************)
(* The settings of the rewriting and the path it makes: a directory is     *)
(* made of directories only, whatever is stripped and prepended.           *)
(***************************************************************************)
LEMMA TrimFacts ==
    ASSUME NEW s \in Path
    PROVE  /\ TrimTrailingSlashes(s) \in Path
           /\ TrimTrailingSlashes(s) # << >> => Last(TrimTrailingSlashes(s)) # "/"
<1> DEFINE S == {0} \union {i \in DOMAIN s : s[i] # "/"}
           m == Max(S)
<1>1. Len(s) \in Nat /\ DOMAIN s = 1 .. Len(s) /\ \A i \in 1 .. Len(s) : s[i] \in Token
  BY DEF Path
<1>2. S \in SUBSET Int /\ IsFiniteSet(S) /\ S # {}
  <2>1. IsFiniteSet(0 .. Len(s))
    BY <1>1, FS_Interval
  <2>2. S \subseteq 0 .. Len(s)
    BY <1>1
  <2> QED
    BY <2>1, <2>2, FS_Subset
<1>3. m \in S
  BY <1>2, MaxFacts
<1> HIDE DEF m
<1>4. m \in 0 .. Len(s) /\ (m # 0 => s[m] # "/")
  BY <1>1, <1>3
<1>5. TrimTrailingSlashes(s) = SubSeq(s, 1, m)
  BY DEF TrimTrailingSlashes, m
<1>6. SubSeq(s, 1, m) \in Path /\ Len(SubSeq(s, 1, m)) = m
  BY <1>1, <1>4 DEF Path
<1>7. SubSeq(s, 1, m) # << >> => m # 0 /\ SubSeq(s, 1, m)[m] = s[m]
  BY <1>1, <1>4 DEF Path
<1> QED
  BY <1>4, <1>5, <1>6, <1>7 DEF Last

LEMMA PrefixFacts ==
    ASSUME NEW c, c.prefix \in Path
    PROVE  /\ PrefixLeadingDirectoryPath(c) \in Path
           /\ PrefixLeadingDirectoryPath(c) # << >> => Last(PrefixLeadingDirectoryPath(c)) # "/"
<1> DEFINE t == TrimTrailingSlashes(c.prefix)
<1>1. t \in Path /\ (t # << >> => Last(t) # "/")
  BY TrimFacts
<1> HIDE DEF t
<1>2. <<"/">> \o t \in Path /\ (t # << >> => Last(<<"/">> \o t) = Last(t))
  BY <1>1, OneTokenFirst DEF Path
<1>3. PrefixLeadingDirectoryPath(c) = IF t = << >> \/ Head(t) = "/" THEN t ELSE <<"/">> \o t
  BY DEF PrefixLeadingDirectoryPath, t
<1> QED
  BY <1>1, <1>2, <1>3

LEMMA UriPathFacts ==
    ASSUME NEW c, c.prefix \in Path, c.strip \in Path, NEW p \in Path
    PROVE  /\ UriPath(c, p) \in Path
           /\ IsDirectory(UriPath(c, p)) => IsDirectory(p)
<1> DEFINE full  == CollapseDuplicateSlashes(p)
           strip == StripLeadingDirectoryPath(c)
           pre   == PrefixLeadingDirectoryPath(c)
           rest  == IF IsPrefix(strip, full) THEN SubSeq(full, Len(strip) + 1, Len(full)) ELSE full
<1>1. full \in Path /\ strip \in Path /\ pre \in Path /\ (pre # << >> => Last(pre) # "/")
  BY CollapseType, TrimFacts, PrefixFacts DEF StripLeadingDirectoryPath
<1>2. UriPath(c, p) = pre \o rest
  BY DEF UriPath, UriFullPath
<1>3. IsDirectory(full) => IsDirectory(p)
  BY CollapseDirectory
<1> HIDE DEF full, strip, pre
<1>4. Len(full) \in Nat /\ Len(strip) \in Nat
  BY <1>1 DEF Path
<1>5. \A n \in Nat : /\ SubSeq(full, n + 1, Len(full)) \in Path
                     /\ SubSeq(full, n + 1, Len(full)) # << >>
                            => full # << >> /\ Last(SubSeq(full, n + 1, Len(full))) = Last(full)
  <2> TAKE n \in Nat
  <2> DEFINE t == SubSeq(full, n + 1, Len(full))
  <2>1. t \in Path /\ Len(t) = IF n + 1 <= Len(full) THEN Len(full) - n ELSE 0
    BY <1>1, <1>4 DEF Path
  <2>2. \A i \in 1 .. Len(t) : t[i] = full[n + i]
    BY <1>1, <1>4 DEF Path
  <2> HIDE DEF t
  <2>3. ASSUME t # << >> PROVE full # << >> /\ Last(t) = Last(full)
    <3>1. Len(t) \in Nat \ {0}
      BY <2>1, <2>3 DEF Path
    <3>2. Len(t) = Len(full) - n /\ n + 1 <= Len(full)
      BY <1>4, <2>1, <3>1
    <3>3. t[Len(t)] = full[n + Len(t)] /\ n + Len(t) = Len(full)
      BY <1>4, <2>2, <3>1, <3>2
    <3>4. full # << >>
      BY <1>4, <3>2
    <3> QED
      BY <3>3, <3>4 DEF Last
  <2>4. t \in Path
    BY <2>1
  <2> QED
    BY <2>3, <2>4 DEF t
<1>6. rest \in Path /\ (rest # << >> => full # << >> /\ Last(rest) = Last(full))
  BY <1>1, <1>4, <1>5
<1> HIDE DEF rest
<1>7. pre \o rest \in Path
  BY <1>1, <1>6 DEF Path
<1>8. rest # << >> => Last(pre \o rest) = Last(rest)
  BY <1>1, <1>6, ConcatLast
<1>9. rest = << >> => pre \o rest = pre
  BY <1>1 DEF Path
<1> QED
  BY <1>1, <1>2, <1>3, <1>6, <1>7, <1>8, <1>9 DEF IsDirectory

----------------------------------------------------------------------------
(***************************************************************************)
(* The index page of a path, and the key that a path names.                *)
(***************************************************************************)
LEMMA AppendFacts ==
    ASSUME NEW p \in Path, NEW x \in Token
    PROVE  /\ Append(p, x) \in Path /\ Append(p, x) # << >> /\ Len(Append(p, x)) = Len(p) + 1
           /\ Last(Append(p, x)) = x
           /\ \A i \in 1 .. Len(p) : Append(p, x)[i] = p[i]
           /\ p # << >> => Head(Append(p, x)) = Head(p) /\ Tail(Append(p, x)) = Append(Tail(p), x)
<1>1. Append(p, x) \in Seq(Token) /\ Append(p, x) # << >> /\ Len(Append(p, x)) = Len(p) + 1
      /\ Append(p, x)[Len(p) + 1] = x /\ \A i \in 1 .. Len(p) : Append(p, x)[i] = p[i]
  BY AppendProperties DEF Path
<1>2. p # << >> => Head(Append(p, x)) = Head(p) /\ Tail(Append(p, x)) = Append(Tail(p), x)
  BY HeadTailAppend DEF Path
<1> QED
  BY <1>1, <1>2 DEF Path, Last

LEMMA IndexPageIsAFile ==
    ASSUME NEW p \in Path
    PROVE  Append(p, IndexPage) \in Path /\ ~IsDirectory(Append(p, IndexPage))
<1>1. IndexPage \in Token /\ IndexPage # "/"
  BY DEF Token, IndexPage
<1> QED
  BY <1>1, AppendFacts DEF IsDirectory

LEMMA WithIndexFacts ==
    ASSUME NEW c, NEW p \in Path
    PROVE  WithIndex(c, p) \in Path
BY IndexPageIsAFile DEF WithIndex

LEMMA DecodedAppend ==
    ASSUME NEW p \in Path
    PROVE  Decoded(Append(p, IndexPage)) = Append(Decoded(p), IndexPage)
<1> DEFINE a == Append(p, IndexPage)
           d == Decoded(p)
           b == Append(d, IndexPage)
           e == Decoded(a)
<1>1. IndexPage \in Token /\ IndexPage # "%2F"
  BY DEF Token, IndexPage
<1>2. d \in Path /\ Len(d) = Len(p) /\ Len(p) \in Nat
  BY DecodedFacts DEF Path
<1>3. a \in Path /\ Len(a) = Len(p) + 1 /\ a[Len(p) + 1] = IndexPage
      /\ \A i \in 1 .. Len(p) : a[i] = p[i]
  BY <1>1, AppendFacts DEF Last
<1> HIDE DEF d
<1>4. b \in Path /\ Len(b) = Len(p) + 1 /\ b[Len(p) + 1] = IndexPage
      /\ \A i \in 1 .. Len(p) : b[i] = d[i]
  BY <1>1, <1>2, AppendFacts DEF Last
<1> HIDE DEF a, b
<1>5. e \in Path /\ Len(e) = Len(a)
      /\ \A i \in 1 .. Len(a) : e[i] = IF a[i] = "%2F" THEN "/" ELSE a[i]
  BY <1>3, DecodedFacts
<1>6. \A i \in 1 .. Len(p) : d[i] = IF p[i] = "%2F" THEN "/" ELSE p[i]
  BY DecodedFacts DEF d
<1> HIDE DEF e
<1>7. \A i \in 1 .. Len(p) + 1 : e[i] = b[i]
  <2> TAKE i \in 1 .. Len(p) + 1
  <2>1. CASE i = Len(p) + 1
    BY <1>1, <1>3, <1>4, <1>5, <2>1
  <2>2. CASE i # Len(p) + 1
    <3>1. i \in 1 .. Len(p) /\ i \in 1 .. Len(a)
      BY <1>2, <1>3, <2>2
    <3> QED
      BY <1>3, <1>4, <1>5, <1>6, <3>1
  <2> QED
    BY <2>1, <2>2
<1>8. e = b
  BY <1>3, <1>4, <1>5, <1>7, SeqEqual DEF Path
<1> QED
  BY <1>8 DEF a, b, d, e

LEMMA WithoutLeadingSlashFacts ==
    ASSUME NEW p \in Path
    PROVE  /\ WithoutLeadingSlash(p) \in Path
           /\ Len(p) > 1 => WithoutLeadingSlash(p) # << >>
           /\ p # << >> => WithoutLeadingSlash(Append(p, IndexPage))
                               = Append(WithoutLeadingSlash(p), IndexPage)
<1>1. p \in Seq(Token) /\ Len(p) \in Nat /\ IndexPage \in Token
  BY DEF Path, Token
<1>2. p # << >> => Tail(p) \in Seq(Token) /\ Len(Tail(p)) = Len(p) - 1
  BY <1>1, HeadTailProperties
<1>3. Len(p) > 1 => p # << >> /\ Tail(p) # << >>
  <2>1. Len(p) > 1 => p # << >>
    BY <1>1
  <2>2. Len(p) > 1 => Len(Tail(p)) # 0
    BY <1>1, <1>2, <2>1
  <2> QED
    BY <2>1, <2>2
<1>4. p # << >> => WithoutLeadingSlash(Append(p, IndexPage)) = Append(WithoutLeadingSlash(p), IndexPage)
  BY <1>1, AppendFacts DEF WithoutLeadingSlash
<1> QED
  BY <1>1, <1>2, <1>3, <1>4 DEF WithoutLeadingSlash, Path

LEMMA BucketPath == <<"/", Bucket>> \in Path /\ << >> \in Path
<1>1. "/" \in Token /\ Bucket \in Token
  BY DEF Token
<1>2. <<"/", Bucket>> \in [1 .. 2 -> Token]
  BY <1>1
<1> HIDE DEF Bucket
<1>3. <<"/", Bucket>> \in Seq(Token)
  BY <1>2, FunctionIsSeq
<1> QED
  BY <1>3 DEF Path

LEMMA OneSlash == <<"/">> \in Path
<1>1. "/" \in Token
  BY DEF Token
<1>2. <<"/">> \in [1 .. 1 -> Token]
  BY <1>1
<1>3. <<"/">> \in Seq(Token)
  BY <1>2, FunctionIsSeq
<1> QED
  BY <1>3 DEF Path

\* A request without a query names the key that its path without the bucket spells.
LEMMA KeyOfPath ==
    ASSUME NEW c, NEW u \in Path
    PROVE  KeyOf(c, [path |-> EscapeURIPath(S3BaseUri(c) \o u), query |-> << >>])
               = WithoutLeadingSlash(Decoded(u))
<1> DEFINE base == S3BaseUri(c)
           full == base \o u
           d == Decoded(u)
           sent == [path |-> Decoded(full), query |-> << >>]
<1>1. u \in Path /\ d \in Path /\ Len(d) = Len(u) /\ Len(u) \in Nat
  BY DecodedFacts DEF Path
<1>2. CASE base = << >>
  <2>1. full = u /\ Len(base) = 0
    BY <1>1, <1>2 DEF Path
  <2>2. KeyOf(c, sent) = WithoutLeadingSlash(SubSeq(SeenByS3(sent).path, 1, Len(SeenByS3(sent).path)))
    BY <2>1 DEF KeyOf
  <2>3. SeenByS3(sent).path = IF d = << >> THEN <<"/">> ELSE d
    BY <2>1 DEF SeenByS3
  <2>4. CASE d = << >>
    <3>1. SubSeq(<<"/">>, 1, Len(<<"/">>)) = <<"/">> /\ Head(<<"/">>) = "/" /\ Tail(<<"/">>) = << >>
          /\ <<"/">> # << >>
      BY OneElement
    <3> QED
      BY <2>2, <2>3, <2>4, <3>1 DEF WithoutLeadingSlash, EscapeURIPath
  <2>5. CASE d # << >>
    <3>1. SubSeq(d, 1, Len(d)) = d
      BY <1>1, SubSeqFull DEF Path
    <3> QED
      BY <2>2, <2>3, <2>5, <3>1 DEF EscapeURIPath
  <2> QED
    BY <2>4, <2>5
<1>3. CASE base = <<"/", Bucket>>
  <2>1. <<"/", Bucket>> \in Seq(Token) /\ Len(<<"/", Bucket>>) = 2
    BY BucketPath DEF Path
  <2>2. full \in Path /\ Len(full) = 2 + Len(u)
        /\ \A i \in 1 .. 2 + Len(u) : full[i] = IF i <= 2 THEN base[i] ELSE u[i - 2]
    BY <1>1, <1>3, <2>1, ConcatProperties DEF Path
  <2> DEFINE e == Decoded(full)
  <2> HIDE DEF full
  <2>3. e \in Path /\ Len(e) = 2 + Len(u)
        /\ \A i \in 1 .. 2 + Len(u) : e[i] = IF full[i] = "%2F" THEN "/" ELSE full[i]
    BY <2>2, DecodedFacts
  <2>4. \A i \in 1 .. Len(u) : d[i] = IF u[i] = "%2F" THEN "/" ELSE u[i]
    BY DecodedFacts
  <2> HIDE DEF d, e
  <2>5. \A i \in 1 .. Len(u) : e[i + 2] = d[i]
    <3> TAKE i \in 1 .. Len(u)
    <3>1. i + 2 \in 1 .. 2 + Len(u) /\ ~(i + 2 <= 2) /\ (i + 2) - 2 = i
      BY <1>1
    <3> QED
      BY <2>2, <2>3, <2>4, <3>1
  <2> DEFINE rest == SubSeq(e, 3, Len(e))
  <2>6. rest = d
    <3>1. Len(e) \in Nat /\ \A i \in 3 .. Len(e) : e[i] \in Token
      BY <2>3 DEF Path
    <3>2. rest \in Seq(Token) /\ Len(rest) = Len(u) /\ \A i \in 1 .. Len(u) : rest[i] = e[i + 2]
      <4>1. /\ rest \in Seq(Token)
            /\ Len(rest) = IF 3 <= Len(e) THEN Len(e) - 3 + 1 ELSE 0
            /\ \A i \in 1 .. Len(e) - 3 + 1 : rest[i] = e[3 + i - 1]
        BY <3>1, SubSeqProperties
      <4>2. \A i \in 1 .. Len(u) : i \in 1 .. Len(e) - 3 + 1 /\ 3 + i - 1 = i + 2
        BY <1>1, <2>3
      <4>3. (IF 3 <= Len(e) THEN Len(e) - 3 + 1 ELSE 0) = Len(u)
        BY <1>1, <2>3
      <4> HIDE DEF rest
      <4> QED
        BY <4>1, <4>2, <4>3
    <3> HIDE DEF rest
    <3> QED
      BY <1>1, <2>5, <3>2, SeqEqual DEF Path
  <2>7. SeenByS3(sent).path = e
    <3>1. e # << >>
      BY <1>1, <2>3 DEF Path
    <3> QED
      BY <3>1 DEF SeenByS3, e
  <2>8. KeyOf(c, sent) = WithoutLeadingSlash(rest)
    BY <1>3, <2>1, <2>7 DEF KeyOf
  <2> QED
    BY <2>6, <2>8 DEF d, full, EscapeURIPath
<1> QED
  BY <1>2, <1>3 DEF S3BaseUri

----------------------------------------------------------------------------
(***************************************************************************)
(* Two sets with an increasing map of one onto the other are enumerated    *)
(* alike.                                                                  *)
(***************************************************************************)
LEMMA Renumbered ==
    ASSUME NEW S \in SUBSET Int, IsFiniteSet(S), NEW T \in SUBSET Int, NEW f \in [S -> T],
           \A j \in T : \E i \in S : f[i] = j,
           \A i, j \in S : i < j => f[i] < f[j]
    PROVE  /\ IsFiniteSet(T) /\ Cardinality(T) = Cardinality(S)
           /\ \A k \in 1 .. Cardinality(S) : Nth(T, k) = f[Nth(S, k)]
<1>1. \A i, j \in S : i # j => f[i] # f[j]
  <2>1. S \subseteq Int /\ T \subseteq Int
    OBVIOUS
  <2>2. \A i, j \in Int : i # j => i < j \/ j < i
    OBVIOUS
  <2>3. \A i, j \in Int : i < j => i # j
    OBVIOUS
  <2> QED
    BY <2>1, <2>2, <2>3
<1>2. \A i, j \in S : i <= j <=> f[i] <= f[j]
  <2>1. S \subseteq Int /\ T \subseteq Int
    OBVIOUS
  <2>2. \A i, j \in Int : i <= j <=> i < j \/ i = j
    OBVIOUS
  <2>3. \A i, j \in Int : ~(i <= j) <=> j < i
    OBVIOUS
  <2> TAKE i, j \in S
  <2>4. i \in Int /\ j \in Int /\ f[i] \in Int /\ f[j] \in Int
    BY <2>1
  <2>5. i <= j => f[i] <= f[j]
    BY <2>2, <2>4
  <2>6. j < i => f[j] < f[i]
    OBVIOUS
  <2>7. ~(i <= j) => ~(f[i] <= f[j])
    BY <2>3, <2>4, <2>6
  <2> QED
    BY <2>5, <2>7
<1>3. f \in Surjection(S, T) /\ f \in Injection(S, T)
  BY <1>1 DEF Surjection, Injection, IsInjective
<1>4. IsFiniteSet(T) /\ Cardinality(T) = Cardinality(S)
  BY <1>3, FS_Surjection
<1>5. ASSUME NEW i \in S PROVE Rank(T, f[i]) = Rank(S, i)
  <2> DEFINE low  == {x \in S : x <= i}
             low2 == {y \in T : y <= f[i]}
             g == [x \in low |-> f[x]]
  <2>1. IsFiniteSet(low)
    BY FS_Subset
  <2>2. g \in [low -> low2]
    BY <1>2
  <2>3. \A y \in low2 : \E x \in low : g[x] = y
    <3> TAKE y \in low2
    <3>1. PICK x \in S : f[x] = y
      OBVIOUS
    <3>2. x \in low
      BY <1>2, <3>1
    <3> QED
      BY <3>1, <3>2
  <2>4. g \in Surjection(low, low2)
    BY <2>2, <2>3 DEF Surjection
  <2>5. g \in Injection(low, low2)
    BY <1>1, <2>2 DEF Injection, IsInjective
  <2> HIDE DEF low, low2, g
  <2>6. Cardinality(low2) = Cardinality(low)
    BY <2>1, <2>4, <2>5, FS_Surjection
  <2> QED
    BY <2>6 DEF low, low2, Rank
<1>6. ASSUME NEW k \in 1 .. Cardinality(S) PROVE Nth(T, k) = f[Nth(S, k)]
  <2>1. Nth(S, k) \in S /\ Rank(S, Nth(S, k)) = k
    BY NthFacts
  <2>2. f[Nth(S, k)] \in T /\ Rank(T, f[Nth(S, k)]) = k
    BY <1>5, <2>1
  <2> QED
    BY <1>4, <2>2, NthFacts
<1> QED
  BY <1>4, <1>6

LEMMA CollapseRenumbered ==
    ASSUME NEW p \in Path, NEW q \in Path, NEW f \in [Kept(p) -> Kept(q)],
           \A j \in Kept(q) : \E i \in Kept(p) : f[i] = j,
           \A i, j \in Kept(p) : i < j => f[i] < f[j],
           \A i \in Kept(p) : q[f[i]] = p[i]
    PROVE  CollapseDuplicateSlashes(q) = CollapseDuplicateSlashes(p)
<1>1. Kept(p) \in SUBSET Int /\ IsFiniteSet(Kept(p)) /\ Kept(q) \in SUBSET Int
  BY KeptFacts
<1>2. /\ Cardinality(Kept(q)) = Cardinality(Kept(p))
      /\ \A k \in 1 .. Cardinality(Kept(p)) : Nth(Kept(q), k) = f[Nth(Kept(p), k)]
  BY <1>1, Renumbered
<1>3. \A k \in 1 .. Cardinality(Kept(p)) : q[Nth(Kept(q), k)] = p[Nth(Kept(p), k)]
  BY <1>1, <1>2, NthFacts
<1> QED
  BY <1>2, <1>3 DEF CollapseDuplicateSlashes

\* A slash next to a slash changes nothing.
LEMMA InsertFacts ==
    ASSUME NEW p \in Path, NEW i \in 1 .. Len(p), NEW x \in Token
    PROVE  /\ InsertAt(p, i, x) \in Path /\ Len(InsertAt(p, i, x)) = Len(p) + 1
           /\ \A j \in 1 .. Len(p) + 1 :
                 InsertAt(p, i, x)[j] = IF j < i THEN p[j] ELSE IF j = i THEN x ELSE p[j - 1]
<1> DEFINE a == SubSeq(p, 1, i - 1)
           b == SubSeq(p, i, Len(p))
           ax == a \o <<x>>
           n == Len(p)
<1>1. p \in Seq(Token) /\ n \in Nat /\ i \in Nat /\ i >= 1 /\ i <= n
  BY DEF Path
<1>2. a \in Seq(Token) /\ Len(a) = i - 1 /\ \A j \in 1 .. i - 1 : a[j] = p[j]
  BY <1>1
<1>3. b \in Seq(Token) /\ Len(b) = n - i + 1 /\ \A j \in 1 .. n - i + 1 : b[j] = p[i + j - 1]
  BY <1>1
<1>4. <<x>> \in Seq(Token) /\ Len(<<x>>) = 1 /\ <<x>>[1] = x
  OBVIOUS
<1> HIDE DEF a, b
<1>5. ax \in Seq(Token) /\ Len(ax) = i
      /\ \A j \in 1 .. i : ax[j] = IF j <= i - 1 THEN a[j] ELSE <<x>>[j - (i - 1)]
  <2>1. ax \in Seq(Token) /\ Len(ax) = Len(a) + Len(<<x>>)
        /\ \A j \in 1 .. Len(a) + Len(<<x>>) : ax[j] = IF j <= Len(a) THEN a[j] ELSE <<x>>[j - Len(a)]
    BY <1>2, <1>4, ConcatProperties
  <2>2. Len(a) + Len(<<x>>) = i
    BY <1>1, <1>2, <1>4
  <2> QED
    BY <1>2, <2>1, <2>2
<1>6. \A j \in 1 .. i : ax[j] = IF j < i THEN p[j] ELSE x
  <2> TAKE j \in 1 .. i
  <2>1. CASE j < i
    <3>1. j <= i - 1 /\ j \in 1 .. i - 1
      BY <1>1, <2>1
    <3> QED
      BY <1>2, <1>5, <2>1, <3>1
  <2>2. CASE ~(j < i)
    <3>1. j = i /\ ~(j <= i - 1) /\ j - (i - 1) = 1
      BY <1>1, <2>2
    <3> QED
      BY <1>4, <1>5, <2>2, <3>1
  <2> QED
    BY <2>1, <2>2
<1> HIDE DEF ax
<1>7. /\ ax \o b \in Seq(Token) /\ Len(ax \o b) = n + 1
      /\ \A j \in 1 .. n + 1 : (ax \o b)[j] = IF j <= i THEN ax[j] ELSE b[j - i]
  <2>1. /\ ax \o b \in Seq(Token) /\ Len(ax \o b) = Len(ax) + Len(b)
        /\ \A j \in 1 .. Len(ax) + Len(b) : (ax \o b)[j] = IF j <= Len(ax) THEN ax[j] ELSE b[j - Len(ax)]
    BY <1>3, <1>5, ConcatProperties
  <2>2. Len(ax) + Len(b) = n + 1
    BY <1>1, <1>3, <1>5
  <2> QED
    BY <1>5, <2>1, <2>2
<1>8. \A j \in 1 .. n + 1 : (ax \o b)[j] = IF j < i THEN p[j] ELSE IF j = i THEN x ELSE p[j - 1]
  <2> TAKE j \in 1 .. n + 1
  <2>1. CASE j <= i
    <3>1. j \in 1 .. i /\ (j < i \/ j = i)
      BY <1>1, <2>1
    <3> QED
      BY <1>6, <1>7, <2>1, <3>1
  <2>2. CASE ~(j <= i)
    <3>1. ~(j < i) /\ j # i /\ j - i \in 1 .. n - i + 1 /\ i + (j - i) - 1 = j - 1
      BY <1>1, <2>2
    <3> QED
      BY <1>3, <1>7, <2>2, <3>1
  <2> QED
    BY <2>1, <2>2
<1> QED
  BY <1>7, <1>8 DEF InsertAt, Path, ax, a, b

LEMMA CollapseInsert ==
    ASSUME NEW p \in Path, NEW i \in 1 .. Len(p), p[i] = "/"
    PROVE  /\ InsertAt(p, i, "/") \in Path
           /\ CollapseDuplicateSlashes(InsertAt(p, i, "/")) = CollapseDuplicateSlashes(p)
<1> DEFINE q == InsertAt(p, i, "/")
           n == Len(p)
           f == [j \in Kept(p) |-> IF j <= i THEN j ELSE j + 1]
<1>1. n \in Nat /\ i \in Nat /\ i >= 1 /\ i <= n /\ DOMAIN p = 1 .. n /\ "/" \in Token
  BY DEF Path, Token
<1>2. /\ q \in Path /\ Len(q) = n + 1
      /\ \A j \in 1 .. n + 1 : q[j] = IF j < i THEN p[j] ELSE IF j = i THEN "/" ELSE p[j - 1]
  BY <1>1, InsertFacts
<1> HIDE DEF q
<1>3. DOMAIN q = 1 .. n + 1
  BY <1>1, <1>2 DEF Path
<1>4. Kept(p) \subseteq 1 .. n
  BY KeptFacts
<1>5. \A j \in 1 .. n : j <= i => (j \in Kept(q) <=> j \in Kept(p)) /\ q[j] = p[j]
  <2> TAKE j \in 1 .. n
  <2> HAVE j <= i
  <2>1. j \in 1 .. n + 1 /\ (j < i \/ j = i)
    BY <1>1
  <2>2. q[j] = p[j]
    BY <1>2, <2>1
  <2>3. j # 1 => j - 1 \in 1 .. n + 1 /\ j - 1 < i
    BY <1>1, <2>1
  <2>4. j # 1 => q[j - 1] = p[j - 1]
    BY <1>2, <2>3
  <2> QED
    BY <1>1, <1>3, <2>1, <2>2, <2>4 DEF Kept
<1>6. i + 1 \notin Kept(q)
  <2>1. i + 1 \in 1 .. n + 1 /\ ~(i + 1 < i) /\ i + 1 # i /\ (i + 1) - 1 = i /\ i \in 1 .. n + 1
        /\ i + 1 # 1 /\ ~(i < i)
    BY <1>1
  <2>2. q[i + 1] = "/" /\ q[i] = "/"
    BY <1>2, <2>1
  <2> QED
    BY <2>1, <2>2 DEF Kept
<1>7. \A j \in 1 .. n : i < j => (j + 1 \in Kept(q) <=> j \in Kept(p)) /\ q[j + 1] = p[j]
  <2> TAKE j \in 1 .. n
  <2> HAVE i < j
  <2>1. j + 1 \in 1 .. n + 1 /\ ~(j + 1 < i) /\ j + 1 # i /\ (j + 1) - 1 = j /\ j # 1 /\ j + 1 # 1
    BY <1>1
  <2>2. q[j + 1] = p[j]
    BY <1>2, <2>1
  <2>3. j \in 1 .. n + 1 /\ ~(j < i) /\ j # i
    BY <1>1
  <2>4. q[j] = p[j - 1]
    BY <1>2, <2>3
  <2> QED
    BY <1>1, <1>3, <2>1, <2>2, <2>4 DEF Kept
<1>8. f \in [Kept(p) -> Kept(q)]
  <2>1. ASSUME NEW j \in Kept(p) PROVE (IF j <= i THEN j ELSE j + 1) \in Kept(q)
    <3>1. j \in 1 .. n /\ (j <= i \/ i < j)
      BY <1>1, <1>4
    <3> QED
      BY <1>1, <1>5, <1>7, <3>1
  <2> QED
    BY <2>1
<1>9. \A j \in Kept(q) : \E h \in Kept(p) : f[h] = j
  <2> TAKE j \in Kept(q)
  <2>1. j \in 1 .. n + 1 /\ (j <= i \/ j = i + 1 \/ i + 1 < j)
    BY <1>1, <1>3 DEF Kept
  <2>2. CASE j <= i
    <3>1. j \in 1 .. n
      BY <1>1, <2>1, <2>2
    <3>2. j \in Kept(p)
      BY <1>5, <2>2, <3>1
    <3> QED
      BY <2>2, <3>2
  <2>3. CASE i + 1 < j
    <3>1. j - 1 \in 1 .. n /\ i < j - 1 /\ (j - 1) + 1 = j /\ ~(j - 1 <= i)
      BY <1>1, <2>1, <2>3
    <3>2. j - 1 \in Kept(p)
      BY <1>7, <3>1
    <3>3. f[j - 1] = (j - 1) + 1
      BY <3>1, <3>2
    <3> QED
      BY <3>1, <3>2, <3>3
  <2> QED
    BY <1>6, <2>1, <2>2, <2>3
<1>10. \A h, j \in Kept(p) : h < j => f[h] < f[j]
  <2> TAKE h, j \in Kept(p)
  <2>1. h \in Int /\ j \in Int /\ i \in Int
    BY <1>1, <1>4
  <2>2. f[h] = (IF h <= i THEN h ELSE h + 1) /\ f[j] = (IF j <= i THEN j ELSE j + 1)
    OBVIOUS
  <2> HIDE DEF f
  <2> QED
    BY <2>1, <2>2
<1>11. \A j \in Kept(p) : q[f[j]] = p[j]
  <2> TAKE j \in Kept(p)
  <2>1. j \in 1 .. n /\ (j <= i \/ (i < j /\ ~(j <= i)))
    BY <1>1, <1>4
  <2> QED
    BY <1>5, <1>7, <2>1
<1> HIDE DEF f
<1>12. CollapseDuplicateSlashes(q) = CollapseDuplicateSlashes(p)
  BY <1>2, <1>8, <1>9, <1>10, <1>11, CollapseRenumbered
<1> QED
  BY <1>2, <1>12 DEF q

(***************************************************************************)
(* Concatenation, place by place, and what follows from it.                *)
(***************************************************************************)
LEMMA ConcatFacts ==
    ASSUME NEW a \in Path, NEW b \in Path
    PROVE  /\ a \o b \in Path /\ Len(a) \in Nat /\ Len(b) \in Nat /\ Len(a \o b) = Len(a) + Len(b)
           /\ \A i \in 1 .. Len(a) : (a \o b)[i] = a[i]
           /\ \A j \in 1 .. Len(b) : (a \o b)[Len(a) + j] = b[j]
<1>1. a \in Seq(Token) /\ b \in Seq(Token) /\ Len(a) \in Nat /\ Len(b) \in Nat
  BY DEF Path
<1>2. /\ a \o b \in Seq(Token) /\ Len(a \o b) = Len(a) + Len(b)
      /\ \A i \in 1 .. Len(a) + Len(b) : (a \o b)[i] = IF i <= Len(a) THEN a[i] ELSE b[i - Len(a)]
  BY <1>1, ConcatProperties
<1>3. \A i \in 1 .. Len(a) : i \in 1 .. Len(a) + Len(b) /\ i <= Len(a)
  BY <1>1
<1>4. \A j \in 1 .. Len(b) : /\ Len(a) + j \in 1 .. Len(a) + Len(b) /\ ~(Len(a) + j <= Len(a))
                             /\ (Len(a) + j) - Len(a) = j
  BY <1>1
<1> QED
  BY <1>1, <1>2, <1>3, <1>4 DEF Path

LEMMA SlashFirst ==
    ASSUME NEW u \in Path
    PROVE  /\ <<"/">> \o u \in Path /\ Len(<<"/">> \o u) = 1 + Len(u) /\ (<<"/">> \o u)[1] = "/"
           /\ \A j \in 1 .. Len(u) : (<<"/">> \o u)[1 + j] = u[j]
<1> DEFINE s == <<"/">>
<1>1. s \in Path /\ Len(s) = 1 /\ s[1] = "/" /\ 1 \in 1 .. 1
  BY OneSlash
<1> HIDE DEF s
<1>2. /\ s \o u \in Path /\ Len(s \o u) = Len(s) + Len(u)
      /\ \A i \in 1 .. Len(s) : (s \o u)[i] = s[i]
      /\ \A j \in 1 .. Len(u) : (s \o u)[Len(s) + j] = u[j]
  BY <1>1, ConcatFacts
<1> QED
  BY <1>1, <1>2 DEF s

LEMMA SamePath ==
    ASSUME NEW a \in Path, NEW b \in Path, Len(a) = Len(b), \A i \in 1 .. Len(a) : a[i] = b[i]
    PROVE  a = b
BY SeqEqual DEF Path

(***************************************************************************)
(* A path without duplicate slashes is what collapsing makes, and leaves.  *)
(***************************************************************************)
Single(p) == \A i \in 1 .. Len(p) : p[i] = "/" /\ i > 1 => p[i - 1] # "/"

LEMMA SingleFacts ==
    ASSUME NEW p \in Path
    PROVE  /\ Single(p) <=> CollapseDuplicateSlashes(p) = p
           /\ Single(CollapseDuplicateSlashes(p))
<1> DEFINE c == CollapseDuplicateSlashes(p)
           n == Len(p)
<1>1. n \in Nat /\ DOMAIN p = 1 .. n
  BY DEF Path
<1>2. c \in Path /\ Len(c) = Cardinality(Kept(p)) /\ Cardinality(Kept(p)) \in Nat
  BY CollapseType, KeptFacts
<1>3. Single(c)
  <2> SUFFICES ASSUME NEW i \in 1 .. Len(c), c[i] = "/", i > 1, c[i - 1] = "/" PROVE FALSE
    BY DEF Single
  <2>1. i - 1 \in 1 .. Cardinality(Kept(p)) /\ (i - 1) + 1 = i /\ i \in 1 .. Cardinality(Kept(p))
    BY <1>2
  <2> QED
    BY <2>1, CollapseSingle
<1>4. ASSUME Single(p) PROVE c = p
  <2> DEFINE K == Kept(p)
  <2>1. K = 1 .. n
    <3>1. ASSUME NEW i \in 1 .. n PROVE i \in K
      <4>1. i = 1 \/ i > 1
        BY <1>1
      <4> QED
        BY <1>1, <1>4, <4>1 DEF Kept, Single
    <3> QED
      BY <3>1, KeptFacts
  <2>2. K \in SUBSET Int /\ IsFiniteSet(K) /\ Cardinality(K) = n
    <3>1. Cardinality(1 .. n) = n
      <4>1. 1 \in Int /\ n \in Int /\ (IF 1 > n THEN 0 ELSE n - 1 + 1) = n
        BY <1>1
      <4> HIDE DEF n
      <4> QED
        BY <4>1, FS_Interval
    <3> QED
      BY <2>1, <3>1, KeptFacts
  <2>3. \A i \in 1 .. n : Nth(K, i) = i
    <3> TAKE i \in 1 .. n
    <3>1. {j \in K : j <= i} = 1 .. i
      BY <1>1, <2>1
    <3>2. Cardinality(1 .. i) = i
      BY <1>1, FS_Interval
    <3>3. Rank(K, i) = i
      BY <3>1, <3>2 DEF Rank
    <3> HIDE DEF K
    <3>4. i \in K
      BY <2>1
    <3> QED
      BY <2>2, <3>3, <3>4, NthFacts
  <2>4. Len(c) = n
    BY <1>2, <2>2
  <2>5. \A i \in 1 .. n : c[i] = p[i]
    BY <2>2, <2>3, CollapseType
  <2> HIDE DEF c
  <2> QED
    BY <1>1, <1>2, <2>4, <2>5, SamePath
<1>5. c = p => Single(p)
  BY <1>3
<1> QED
  BY <1>3, <1>4, <1>5

LEMMA CollapseTwice ==
    ASSUME NEW p \in Path
    PROVE  CollapseDuplicateSlashes(CollapseDuplicateSlashes(p)) = CollapseDuplicateSlashes(p)
BY SingleFacts, CollapseType

LEMMA CollapseConcat ==
    ASSUME NEW a \in Path, NEW b \in Path,
           a = << >> \/ b = << >> \/ Last(a) # "/" \/ Head(b) # "/"
    PROVE  CollapseDuplicateSlashes(a \o b) = CollapseDuplicateSlashes(a) \o CollapseDuplicateSlashes(b)
<1> DEFINE n  == Len(a)
           l  == Len(b)
           p  == a \o b
           A  == Kept(a)
           B  == Kept(b)
           K  == Kept(p)
           na == Cardinality(A)
           nb == Cardinality(B)
           ca == CollapseDuplicateSlashes(a)
           cb == CollapseDuplicateSlashes(b)
           c  == CollapseDuplicateSlashes(p)
<1>1. /\ p \in Path /\ n \in Nat /\ l \in Nat /\ Len(p) = n + l
      /\ \A i \in 1 .. n : p[i] = a[i]
      /\ \A j \in 1 .. l : p[n + j] = b[j]
  BY ConcatFacts
<1>2. /\ DOMAIN a = 1 .. n /\ DOMAIN b = 1 .. l /\ DOMAIN p = 1 .. n + l
      /\ (a # << >> => n > 0) /\ (b # << >> => l > 0 /\ Head(b) = b[1]) /\ Last(a) = a[n]
      /\ (n = 0 <=> a = << >>) /\ (l = 0 <=> b = << >>)
  <2>1. DOMAIN p = 1 .. n + l
    <3> HIDE DEF p
    <3> QED
      BY <1>1 DEF Path
  <2>2. DOMAIN a = 1 .. n /\ DOMAIN b = 1 .. l /\ (n = 0 <=> a = << >>) /\ (l = 0 <=> b = << >>)
    BY DEF Path
  <2>3. b # << >> => Head(b) = b[1]
    BY DEF Path
  <2> QED
    BY <1>1, <2>1, <2>2, <2>3 DEF Last
<1> HIDE DEF p
<1>3. \A i \in 1 .. n : i \in K <=> i \in A
  <2> TAKE i \in 1 .. n
  <2>1. i \in 1 .. n + l /\ p[i] = a[i] /\ (i # 1 => i - 1 \in 1 .. n)
    BY <1>1
  <2> QED
    BY <1>1, <1>2, <2>1 DEF Kept
<1>4. \A j \in 1 .. l : n + j \in K <=> j \in B
  <2> TAKE j \in 1 .. l
  <2>1. n + j \in 1 .. n + l /\ p[n + j] = b[j] /\ j \in Nat
    BY <1>1
  <2>2. CASE j # 1
    <3>1. j - 1 \in 1 .. l /\ n + (j - 1) = n + j - 1 /\ n + j # 1
      BY <1>1, <2>2
    <3>2. p[n + j - 1] = b[j - 1]
      BY <1>1, <3>1
    <3> QED
      BY <1>2, <2>1, <2>2, <3>1, <3>2 DEF Kept
  <2>3. CASE j = 1
    <3>1. j \in B
      BY <1>2, <2>3 DEF Kept
    <3>2. CASE n = 0
      BY <1>2, <2>1, <2>3, <3>1, <3>2 DEF Kept
    <3>3. CASE n # 0
      <4>1. n \in 1 .. n /\ n + j - 1 = n
        BY <1>1, <2>3, <3>3
      <4>2. p[n + j - 1] = Last(a) /\ p[n + j] = Head(b)
        BY <1>1, <1>2, <2>1, <2>3, <4>1
      <4>3. a # << >> /\ b # << >>
        BY <1>1, <1>2, <3>3
      <4> QED
        BY <1>2, <2>1, <3>1, <4>2, <4>3 DEF Kept
    <3> QED
      BY <3>2, <3>3
  <2> QED
    BY <2>2, <2>3
<1>5. /\ A \in SUBSET Int /\ IsFiniteSet(A) /\ na \in Nat /\ A \subseteq 1 .. n
      /\ B \in SUBSET Int /\ IsFiniteSet(B) /\ nb \in Nat /\ B \subseteq 1 .. l
      /\ K \in SUBSET Int /\ IsFiniteSet(K) /\ Cardinality(K) \in Nat /\ K \subseteq 1 .. n + l
  BY <1>1, KeptFacts
<1> HIDE DEF A, B, K
<1>6. ASSUME NEW i \in A PROVE i \in K /\ Rank(K, i) = Rank(A, i)
  <2>1. i \in 1 .. n
    BY <1>5
  <2>2. ASSUME NEW x \in K, x <= i PROVE x \in A
    <3>1. x \in 1 .. n + l /\ x <= n
      BY <1>1, <1>5, <2>1, <2>2
    <3>2. x \in 1 .. n
      BY <1>1, <3>1
    <3> QED
      BY <1>3, <3>2
  <2>3. A \subseteq K
    BY <1>3, <1>5
  <2>4. {x \in K : x <= i} = {x \in A : x <= i}
    BY <2>2, <2>3
  <2> QED
    BY <2>3, <2>4 DEF Rank
<1>7. ASSUME NEW j \in B PROVE n + j \in K /\ Rank(K, n + j) = na + Rank(B, j)
  <2> DEFINE low  == {x \in B : x <= j}
             high == {n + x : x \in low}
             g == [x \in low |-> n + x]
  <2>1. j \in 1 .. l /\ n + j \in K
    BY <1>4, <1>5
  <2>2. IsFiniteSet(low) /\ low \subseteq Int
    BY <1>5, FS_Subset
  <2>3. g \in [low -> high] /\ g \in Surjection(low, high)
    BY DEF Surjection
  <2>4. g \in Injection(low, high)
    <3>1. ASSUME NEW x \in low, NEW y \in low, g[x] = g[y] PROVE x = y
      <4>1. n + x = n + y /\ x \in Int /\ y \in Int
        BY <2>2, <3>1
      <4> QED
        BY <1>1, <4>1
    <3> QED
      BY <2>3, <3>1 DEF Injection, IsInjective
  <2>5. IsFiniteSet(high) /\ Cardinality(high) = Cardinality(low)
    BY <2>2, <2>3, <2>4, FS_Surjection
  <2>6. {x \in K : x <= n + j} = A \cup high
    <3>1. ASSUME NEW x \in K, x <= n + j PROVE x \in A \cup high
      <4>1. x \in 1 .. n + l /\ (x <= n \/ x > n)
        BY <1>1, <1>5
      <4>2. CASE x <= n
        <5>1. x \in 1 .. n
          BY <1>1, <4>1, <4>2
        <5> QED
          BY <1>3, <5>1
      <4>3. CASE x > n
        <5>1. x - n \in 1 .. l /\ n + (x - n) = x /\ x - n <= j
          BY <1>1, <2>1, <3>1, <4>1, <4>3
        <5>2. x - n \in B
          BY <1>4, <5>1
        <5> QED
          BY <5>1, <5>2
      <4> QED
        BY <4>1, <4>2, <4>3
    <3>2. ASSUME NEW x \in A PROVE x \in K /\ x <= n + j
      BY <1>1, <1>3, <1>5, <2>1, <3>2
    <3>3. ASSUME NEW x \in low PROVE n + x \in K /\ n + x <= n + j
      <4>1. x \in 1 .. l /\ x <= j
        BY <1>5
      <4> QED
        BY <1>1, <1>4, <2>1, <4>1
    <3> QED
      BY <3>1, <3>2, <3>3
  <2>7. A \cap high = {}
    <3>1. ASSUME NEW x \in low, n + x \in A PROVE FALSE
      <4>1. x \in 1 .. l /\ n + x \in 1 .. n
        BY <1>5, <3>1
      <4> QED
        BY <1>1, <4>1
    <3> QED
      BY <3>1
  <2> HIDE DEF low, high
  <2>8. Cardinality(A \cup high) = na + Cardinality(high)
    <3>1. Cardinality(A \cup high) = Cardinality(A) + Cardinality(high) - Cardinality(A \cap high)
      BY <1>5, <2>5, FS_Union
    <3>2. Cardinality(A \cap high) = 0 /\ Cardinality(high) \in Nat
      BY <2>5, <2>7, FS_EmptySet, FS_CardinalityType
    <3> QED
      BY <1>5, <3>1, <3>2
  <2> QED
    BY <2>1, <2>5, <2>6, <2>8 DEF Rank, low
<1>8. Cardinality(K) = na + nb
  <2> DEFINE high == {n + x : x \in B}
             g == [x \in B |-> n + x]
  <2>1. g \in [B -> high] /\ g \in Surjection(B, high)
    BY DEF Surjection
  <2>2. g \in Injection(B, high)
    <3>1. ASSUME NEW x \in B, NEW y \in B, g[x] = g[y] PROVE x = y
      BY <1>1, <1>5, <3>1
    <3> QED
      BY <2>1, <3>1 DEF Injection, IsInjective
  <2>3. IsFiniteSet(high) /\ Cardinality(high) = nb
    BY <1>5, <2>1, <2>2, FS_Surjection
  <2>4. K = A \cup high
    <3>1. ASSUME NEW x \in K PROVE x \in A \cup high
      <4>1. x \in 1 .. n + l /\ (x <= n \/ x > n)
        BY <1>1, <1>5
      <4>2. CASE x <= n
        <5>1. x \in 1 .. n
          BY <1>1, <4>1, <4>2
        <5> QED
          BY <1>3, <5>1
      <4>3. CASE x > n
        <5>1. x - n \in 1 .. l /\ n + (x - n) = x
          BY <1>1, <4>1, <4>3
        <5>2. x - n \in B
          BY <1>4, <5>1
        <5> QED
          BY <5>1, <5>2
      <4> QED
        BY <4>1, <4>2, <4>3
    <3> QED
      BY <1>6, <1>7, <3>1
  <2>5. A \cap high = {}
    <3>1. ASSUME NEW x \in B, n + x \in A PROVE FALSE
      <4>1. x \in 1 .. l /\ n + x \in 1 .. n
        BY <1>5, <3>1
      <4> QED
        BY <1>1, <4>1
    <3> QED
      BY <3>1
  <2> HIDE DEF high
  <2>6. Cardinality(K) = na + nb - Cardinality(A \cap high)
    BY <1>5, <2>3, <2>4, FS_Union
  <2>7. Cardinality(A \cap high) = 0
    BY <2>5, FS_EmptySet
  <2> QED
    BY <1>5, <2>6, <2>7
<1>9. /\ ca \in Path /\ Len(ca) = na /\ \A k \in 1 .. na : Nth(A, k) \in A /\ ca[k] = a[Nth(A, k)]
      /\ cb \in Path /\ Len(cb) = nb /\ \A k \in 1 .. nb : Nth(B, k) \in B /\ cb[k] = b[Nth(B, k)]
      /\ c \in Path /\ Len(c) = na + nb /\ \A k \in 1 .. na + nb : c[k] = p[Nth(K, k)]
  <2>1. ca \in Path /\ Len(ca) = na /\ \A k \in 1 .. na : Nth(A, k) \in A /\ ca[k] = a[Nth(A, k)]
    BY CollapseType DEF A
  <2>2. cb \in Path /\ Len(cb) = nb /\ \A k \in 1 .. nb : Nth(B, k) \in B /\ cb[k] = b[Nth(B, k)]
    BY CollapseType DEF B
  <2>3. c \in Path /\ Len(c) = na + nb /\ \A k \in 1 .. na + nb : c[k] = p[Nth(K, k)]
    BY <1>1, <1>8, CollapseType DEF K
  <2> QED
    BY <2>1, <2>2, <2>3
<1> HIDE DEF ca, cb, c
<1>d. na \in Nat /\ nb \in Nat /\ A \subseteq 1 .. n /\ B \subseteq 1 .. l
  BY <1>5
<1>a. \A k \in 1 .. na : Nth(A, k) \in A /\ Rank(A, Nth(A, k)) = k
  BY <1>5, NthFacts
<1>b. \A k \in 1 .. nb : Nth(B, k) \in B /\ Rank(B, Nth(B, k)) = k
  BY <1>5, NthFacts
<1>c. \A i \in K : Nth(K, Rank(K, i)) = i
  BY <1>5, NthFacts
<1> HIDE DEF na, nb, n, l
<1>10. \A k \in 1 .. na : c[k] = ca[k]
  <2> TAKE k \in 1 .. na
  <2>1. Nth(A, k) \in A /\ Rank(A, Nth(A, k)) = k
    BY <1>a
  <2>2. Nth(K, k) = Nth(A, k)
    BY <1>6, <1>c, <2>1
  <2>3. Nth(A, k) \in 1 .. n
    BY <1>d, <2>1
  <2>4. k \in 1 .. na + nb
    BY <1>d
  <2> QED
    BY <1>1, <1>9, <2>2, <2>3, <2>4
<1>11. \A k \in 1 .. nb : c[na + k] = cb[k]
  <2> TAKE k \in 1 .. nb
  <2>1. Nth(B, k) \in B /\ Rank(B, Nth(B, k)) = k
    BY <1>b
  <2>2. n + Nth(B, k) \in K /\ Rank(K, n + Nth(B, k)) = na + k
    BY <1>7, <2>1
  <2>3. Nth(K, na + k) = n + Nth(B, k)
    BY <1>c, <2>2
  <2>4. Nth(B, k) \in 1 .. l
    BY <1>d, <2>1
  <2>5. na + k \in 1 .. na + nb
    BY <1>d
  <2> QED
    BY <1>1, <1>9, <2>3, <2>4, <2>5
<1>12. c = ca \o cb
  <2>1. /\ ca \o cb \in Path /\ Len(ca \o cb) = na + nb
        /\ \A i \in 1 .. na : (ca \o cb)[i] = ca[i]
        /\ \A j \in 1 .. nb : (ca \o cb)[na + j] = cb[j]
    <3>1. ca \in Path /\ cb \in Path /\ Len(ca) = na /\ Len(cb) = nb
      BY <1>9
    <3>2. /\ ca \o cb \in Path /\ Len(ca \o cb) = Len(ca) + Len(cb)
          /\ \A i \in 1 .. Len(ca) : (ca \o cb)[i] = ca[i]
          /\ \A j \in 1 .. Len(cb) : (ca \o cb)[Len(ca) + j] = cb[j]
      BY <3>1, ConcatFacts
    <3> QED
      BY <3>1, <3>2
  <2>2. \A i \in 1 .. na + nb : i \in 1 .. na \/ (i - na \in 1 .. nb /\ na + (i - na) = i)
    BY <1>5
  <2> DEFINE e == ca \o cb
  <2> HIDE DEF e
  <2>3. \A i \in 1 .. na + nb : c[i] = e[i]
    <3> TAKE i \in 1 .. na + nb
    <3>1. CASE i \in 1 .. na
      BY <1>10, <2>1, <3>1 DEF e
    <3>2. CASE i - na \in 1 .. nb /\ na + (i - na) = i
      <4>1. c[na + (i - na)] = e[na + (i - na)]
        BY <1>11, <2>1, <3>2 DEF e
      <4> QED
        BY <3>2, <4>1
    <3> QED
      BY <2>2, <3>1, <3>2
  <2> QED
    BY <1>9, <2>1, <2>3, SamePath DEF e
<1> QED
  BY <1>12 DEF c, ca, cb, p

LEMMA DecodedConcat ==
    ASSUME NEW a \in Path, NEW b \in Path
    PROVE  Decoded(a \o b) = Decoded(a) \o Decoded(b)
<1> DEFINE n == Len(a)
           l == Len(b)
           p == a \o b
           d == Decoded(p)
           da == Decoded(a)
           db == Decoded(b)
           e == da \o db
<1>1. /\ p \in Path /\ n \in Nat /\ l \in Nat /\ Len(p) = n + l
      /\ \A i \in 1 .. n : p[i] = a[i]
      /\ \A j \in 1 .. l : p[n + j] = b[j]
  BY ConcatFacts
<1> HIDE DEF p
<1>2. /\ da \in Path /\ Len(da) = n /\ \A i \in 1 .. n : da[i] = IF a[i] = "%2F" THEN "/" ELSE a[i]
      /\ db \in Path /\ Len(db) = l /\ \A i \in 1 .. l : db[i] = IF b[i] = "%2F" THEN "/" ELSE b[i]
  BY DecodedFacts
<1>3. d \in Path /\ Len(d) = n + l /\ \A i \in 1 .. n + l : d[i] = IF p[i] = "%2F" THEN "/" ELSE p[i]
  BY <1>1, DecodedFacts
<1> HIDE DEF da, db, d
<1>4. /\ e \in Path /\ Len(e) = n + l
      /\ \A i \in 1 .. n : e[i] = da[i]
      /\ \A j \in 1 .. l : e[n + j] = db[j]
  <2>1. da \in Path /\ db \in Path /\ Len(da) = n /\ Len(db) = l
    BY <1>2
  <2> HIDE DEF n, l
  <2>2. /\ e \in Path /\ Len(e) = Len(da) + Len(db)
        /\ \A i \in 1 .. Len(da) : e[i] = da[i]
        /\ \A j \in 1 .. Len(db) : e[Len(da) + j] = db[j]
    BY <2>1, ConcatFacts
  <2> QED
    BY <2>1, <2>2
<1> HIDE DEF e
<1>5. \A i \in 1 .. n : d[i] = e[i]
  <2> TAKE i \in 1 .. n
  <2>1. i \in 1 .. n + l
    BY <1>1
  <2> QED
    BY <1>1, <1>2, <1>3, <1>4, <2>1
<1>6. \A j \in 1 .. l : d[n + j] = e[n + j]
  <2> TAKE j \in 1 .. l
  <2>1. n + j \in 1 .. n + l
    BY <1>1
  <2> QED
    BY <1>1, <1>2, <1>3, <1>4, <2>1
<1>7. \A i \in 1 .. n + l : d[i] = e[i]
  <2> TAKE i \in 1 .. n + l
  <2>1. i \in 1 .. n \/ (i - n \in 1 .. l /\ n + (i - n) = i)
    BY <1>1
  <2>2. CASE i \in 1 .. n
    BY <1>5, <2>2
  <2>3. CASE i - n \in 1 .. l /\ n + (i - n) = i
    <3>1. d[n + (i - n)] = e[n + (i - n)]
      BY <1>6, <2>3
    <3> QED
      BY <2>3, <3>1
  <2> QED
    BY <2>1, <2>2, <2>3
<1>8. d = e
  BY <1>3, <1>4, <1>7, SamePath
<1> QED
  BY <1>8 DEF d, e, p, da, db

LEMMA DecodedPlain ==
    ASSUME NEW p \in Path, \A i \in 1 .. Len(p) : p[i] # "%2F"
    PROVE  Decoded(p) = p
<1>1. Decoded(p) \in Path /\ Len(Decoded(p)) = Len(p) /\ \A i \in 1 .. Len(p) : Decoded(p)[i] = p[i]
  BY DecodedFacts
<1> QED
  BY <1>1, SamePath

LEMMA DecodedHasNoEscape ==
    ASSUME NEW p \in Path
    PROVE  \A i \in 1 .. Len(p) : Decoded(p)[i] # "%2F"
BY DecodedFacts

(***************************************************************************)
(* A prefix and the rest.                                                  *)
(***************************************************************************)
LEMMA RestFacts ==
    ASSUME NEW p \in Path, NEW n \in 0 .. Len(p)
    PROVE  /\ SubSeq(p, n + 1, Len(p)) \in Path /\ Len(SubSeq(p, n + 1, Len(p))) = Len(p) - n
           /\ \A i \in 1 .. Len(p) - n : SubSeq(p, n + 1, Len(p))[i] = p[n + i]
<1>1. p \in Seq(Token) /\ Len(p) \in Nat /\ n \in Nat /\ n <= Len(p)
  BY DEF Path
<1>2. \A i \in n + 1 .. Len(p) : p[i] \in Token
  BY <1>1
<1>3. /\ SubSeq(p, n + 1, Len(p)) \in Seq(Token)
      /\ Len(SubSeq(p, n + 1, Len(p))) = IF n + 1 <= Len(p) THEN Len(p) - (n + 1) + 1 ELSE 0
      /\ \A i \in 1 .. Len(p) - (n + 1) + 1 : SubSeq(p, n + 1, Len(p))[i] = p[(n + 1) + i - 1]
  BY <1>1, <1>2, SubSeqProperties
<1>4. (IF n + 1 <= Len(p) THEN Len(p) - (n + 1) + 1 ELSE 0) = Len(p) - n
      /\ Len(p) - (n + 1) + 1 = Len(p) - n
  BY <1>1
<1>5. \A i \in 1 .. Len(p) - n : (n + 1) + i - 1 = n + i
  BY <1>1
<1> QED
  BY <1>3, <1>4, <1>5 DEF Path

LEMMA FirstsFacts ==
    ASSUME NEW p \in Path, NEW n \in 0 .. Len(p)
    PROVE  /\ SubSeq(p, 1, n) \in Path /\ Len(SubSeq(p, 1, n)) = n
           /\ \A i \in 1 .. n : SubSeq(p, 1, n)[i] = p[i]
<1>1. p \in Seq(Token) /\ Len(p) \in Nat /\ n \in Nat /\ n <= Len(p)
  BY DEF Path
<1>2. \A i \in 1 .. n : p[i] \in Token
  BY <1>1
<1>3. /\ SubSeq(p, 1, n) \in Seq(Token)
      /\ Len(SubSeq(p, 1, n)) = IF 1 <= n THEN n - 1 + 1 ELSE 0
      /\ \A i \in 1 .. n - 1 + 1 : SubSeq(p, 1, n)[i] = p[1 + i - 1]
  BY <1>1, <1>2, SubSeqProperties
<1>4. (IF 1 <= n THEN n - 1 + 1 ELSE 0) = n /\ n - 1 + 1 = n
  BY <1>1
<1>5. \A i \in 1 .. n : 1 + i - 1 = i
  BY <1>1
<1> QED
  BY <1>3, <1>4, <1>5 DEF Path

LEMMA PrefixMeans ==
    ASSUME NEW s \in Path, NEW t \in Path
    PROVE  IsPrefix(s, t) <=> Len(s) <= Len(t) /\ \A i \in 1 .. Len(s) : s[i] = t[i]
<1>1. Len(s) \in Nat /\ Len(t) \in Nat
  BY DEF Path
<1>2. SubSeq(s, 1, Len(s)) = s
  BY SubSeqFull DEF Path
<1>3. ASSUME Len(s) <= Len(t)
      PROVE  s = SubSeq(t, 1, Len(s)) <=> \A i \in 1 .. Len(s) : s[i] = t[i]
  <2> DEFINE u == SubSeq(t, 1, Len(s))
  <2>1. u \in Path /\ Len(u) = Len(s) /\ \A i \in 1 .. Len(s) : u[i] = t[i]
    BY <1>1, <1>3, FirstsFacts
  <2> HIDE DEF u
  <2>2. (\A i \in 1 .. Len(s) : s[i] = t[i]) => s = u
    BY <2>1, SamePath
  <2>3. s = u => \A i \in 1 .. Len(s) : s[i] = t[i]
    BY <2>1
  <2> QED
    BY <2>2, <2>3 DEF u
<1> QED
  BY <1>2, <1>3 DEF IsPrefix

LEMMA PrefixOfConcat ==
    ASSUME NEW s \in Path, NEW t \in Path
    PROVE  IsPrefix(s, s \o t) /\ SubSeq(s \o t, Len(s) + 1, Len(s \o t)) = t
<1> DEFINE p == s \o t
           u == SubSeq(p, Len(s) + 1, Len(p))
<1>1. /\ p \in Path /\ Len(s) \in Nat /\ Len(t) \in Nat /\ Len(p) = Len(s) + Len(t)
      /\ \A i \in 1 .. Len(s) : p[i] = s[i]
      /\ \A j \in 1 .. Len(t) : p[Len(s) + j] = t[j]
  BY ConcatFacts
<1> HIDE DEF p
<1>2. IsPrefix(s, p)
  <2>1. Len(s) <= Len(p)
    BY <1>1
  <2> QED
    BY <1>1, <2>1, PrefixMeans
<1>3. u \in Path /\ Len(u) = Len(t) /\ \A i \in 1 .. Len(t) : u[i] = p[Len(s) + i]
  <2>1. Len(s) \in 0 .. Len(p) /\ Len(p) - Len(s) = Len(t)
    BY <1>1
  <2>2. /\ u \in Path /\ Len(u) = Len(p) - Len(s)
        /\ \A i \in 1 .. Len(p) - Len(s) : u[i] = p[Len(s) + i]
    BY <1>1, <2>1, RestFacts
  <2> QED
    BY <2>1, <2>2
<1> HIDE DEF u
<1>4. u = t
  BY <1>1, <1>3, SamePath
<1> QED
  BY <1>2, <1>4 DEF p, u

LEMMA PrefixSplits ==
    ASSUME NEW s \in Path, NEW p \in Path, IsPrefix(s, p)
    PROVE  /\ Len(s) \in 0 .. Len(p)
           /\ SubSeq(p, Len(s) + 1, Len(p)) \in Path
           /\ p = s \o SubSeq(p, Len(s) + 1, Len(p))
<1> DEFINE u == SubSeq(p, Len(s) + 1, Len(p))
           q == s \o u
<1>1. Len(s) \in Nat /\ Len(p) \in Nat
  BY DEF Path
<1>2. Len(s) <= Len(p) /\ \A i \in 1 .. Len(s) : s[i] = p[i]
  BY PrefixMeans
<1>3. Len(s) \in 0 .. Len(p)
  BY <1>1, <1>2
<1>4. u \in Path /\ Len(u) = Len(p) - Len(s) /\ \A i \in 1 .. Len(p) - Len(s) : u[i] = p[Len(s) + i]
  BY <1>3, RestFacts
<1> HIDE DEF u
<1>5. /\ q \in Path /\ Len(q) = Len(s) + Len(u)
      /\ \A i \in 1 .. Len(s) : q[i] = s[i]
      /\ \A j \in 1 .. Len(u) : q[Len(s) + j] = u[j]
  BY <1>4, ConcatFacts
<1> HIDE DEF q
<1>6. Len(q) = Len(p)
  BY <1>1, <1>4, <1>5
<1>7. \A i \in 1 .. Len(p) : q[i] = p[i]
  <2> TAKE i \in 1 .. Len(p)
  <2>1. i \in 1 .. Len(s) \/ (i - Len(s) \in 1 .. Len(u) /\ Len(s) + (i - Len(s)) = i)
    BY <1>1, <1>4
  <2>2. CASE i \in 1 .. Len(s)
    BY <1>2, <1>5, <2>2
  <2>3. CASE i - Len(s) \in 1 .. Len(u) /\ Len(s) + (i - Len(s)) = i
    <3>1. q[Len(s) + (i - Len(s))] = u[i - Len(s)]
      BY <1>5, <2>3
    <3>2. u[i - Len(s)] = p[Len(s) + (i - Len(s))]
      BY <1>4, <2>3
    <3> QED
      BY <2>3, <3>1, <3>2
  <2> QED
    BY <2>1, <2>2, <2>3
<1>8. q = p
  BY <1>5, <1>6, <1>7, SamePath
<1> QED
  BY <1>3, <1>4, <1>8 DEF q, u

(***************************************************************************)
(* Trimming: what is cut off are slashes, and what is left ends in none.   *)
(***************************************************************************)
LEMMA TrimAt ==
    ASSUME NEW s \in Path, NEW m \in 0 .. Len(s), m # 0 => s[m] # "/",
           \A i \in 1 .. Len(s) : i > m => s[i] = "/"
    PROVE  TrimTrailingSlashes(s) = SubSeq(s, 1, m)
<1> DEFINE S == {0} \union {i \in DOMAIN s : s[i] # "/"}
           x == Max(S)
<1>1. Len(s) \in Nat /\ DOMAIN s = 1 .. Len(s)
  BY DEF Path
<1>2. S \in SUBSET Int /\ IsFiniteSet(S) /\ S # {}
  <2>1. IsFiniteSet(0 .. Len(s))
    BY <1>1, FS_Interval
  <2>2. S \subseteq 0 .. Len(s)
    BY <1>1
  <2> QED
    BY <2>1, <2>2, FS_Subset
<1>3. x \in S /\ \A i \in S : i <= x
  BY <1>2, MaxFacts
<1>4. m \in S
  BY <1>1
<1> HIDE DEF x
<1>5. m <= x
  BY <1>3, <1>4
<1>6. ~(m < x)
  <2>1. m < x => x \in 1 .. Len(s) /\ s[x] # "/"
    BY <1>1, <1>3
  <2> QED
    BY <2>1
<1>7. x = m
  BY <1>2, <1>3, <1>5, <1>6
<1> QED
  BY <1>7 DEF x, TrimTrailingSlashes

LEMMA TrimWhere ==
    ASSUME NEW s \in Path
    PROVE  \E m \in 0 .. Len(s) : /\ m # 0 => s[m] # "/"
                                  /\ \A i \in 1 .. Len(s) : i > m => s[i] = "/"
                                  /\ TrimTrailingSlashes(s) = SubSeq(s, 1, m)
<1> DEFINE S == {0} \union {i \in DOMAIN s : s[i] # "/"}
           x == Max(S)
<1>1. Len(s) \in Nat /\ DOMAIN s = 1 .. Len(s)
  BY DEF Path
<1>2. S \in SUBSET Int /\ IsFiniteSet(S) /\ S # {}
  <2>1. IsFiniteSet(0 .. Len(s))
    BY <1>1, FS_Interval
  <2>2. S \subseteq 0 .. Len(s)
    BY <1>1
  <2> QED
    BY <2>1, <2>2, FS_Subset
<1>3. x \in S /\ \A i \in S : i <= x
  BY <1>2, MaxFacts
<1> HIDE DEF x
<1>4. x \in 0 .. Len(s) /\ (x # 0 => s[x] # "/")
  BY <1>1, <1>3
<1>5. \A i \in 1 .. Len(s) : i > x => s[i] = "/"
  <2> TAKE i \in 1 .. Len(s)
  <2>1. s[i] # "/" => i <= x
    BY <1>1, <1>3
  <2> QED
    BY <1>4, <2>1
<1> QED
  BY <1>4, <1>5 DEF x, TrimTrailingSlashes

LEMMA TrimAppendSlash ==
    ASSUME NEW s \in Path
    PROVE  Append(s, "/") \in Path /\ TrimTrailingSlashes(Append(s, "/")) = TrimTrailingSlashes(s)
<1> DEFINE t == Append(s, "/")
<1>1. /\ t \in Path /\ Len(t) = Len(s) + 1 /\ t[Len(s) + 1] = "/" /\ Len(s) \in Nat
      /\ \A i \in 1 .. Len(s) : t[i] = s[i]
  <2>1. "/" \in Token /\ Len(s) \in Nat
    BY DEF Token, Path
  <2> QED
    BY <2>1, AppendFacts DEF Last
<1>2. PICK m \in 0 .. Len(s) : /\ m # 0 => s[m] # "/"
                               /\ \A i \in 1 .. Len(s) : i > m => s[i] = "/"
                               /\ TrimTrailingSlashes(s) = SubSeq(s, 1, m)
  BY TrimWhere
<1> HIDE DEF t
<1>3. m \in 0 .. Len(t) /\ (m # 0 => t[m] # "/")
  <2>1. m # 0 => m \in 1 .. Len(s)
    BY <1>1
  <2> QED
    BY <1>1, <1>2, <2>1
<1>4. \A i \in 1 .. Len(t) : i > m => t[i] = "/"
  <2> TAKE i \in 1 .. Len(t)
  <2>1. i \in 1 .. Len(s) \/ i = Len(s) + 1
    BY <1>1
  <2> QED
    BY <1>1, <1>2, <2>1
<1>5. TrimTrailingSlashes(t) = SubSeq(t, 1, m)
  BY <1>1, <1>3, <1>4, TrimAt
<1>6. SubSeq(t, 1, m) = SubSeq(s, 1, m)
  <2>1. /\ SubSeq(s, 1, m) \in Path /\ Len(SubSeq(s, 1, m)) = m
        /\ \A i \in 1 .. m : SubSeq(s, 1, m)[i] = s[i]
    BY FirstsFacts
  <2>2. /\ SubSeq(t, 1, m) \in Path /\ Len(SubSeq(t, 1, m)) = m
        /\ \A i \in 1 .. m : SubSeq(t, 1, m)[i] = t[i]
    BY <1>1, <1>3, FirstsFacts
  <2>3. \A i \in 1 .. m : i \in 1 .. Len(s)
    BY <1>1
  <2> QED
    BY <1>1, <2>1, <2>2, <2>3, SamePath
<1> QED
  BY <1>1, <1>2, <1>5, <1>6 DEF t

\* A slash in front of a setting is kept, unless there is nothing else.
LEMMA TrimTail ==
    ASSUME NEW s \in Path, s # << >>, Head(s) = "/"
    PROVE  /\ Tail(s) \in Path
           /\ TrimTrailingSlashes(s) = IF TrimTrailingSlashes(Tail(s)) = << >> THEN << >>
                                       ELSE <<"/">> \o TrimTrailingSlashes(Tail(s))
<1> DEFINE t == Tail(s)
           n == Len(s)
<1>1. t \in Path /\ n \in Nat \ {0} /\ Len(t) = n - 1 /\ \A i \in 1 .. n - 1 : t[i] = s[i + 1]
  <2>1. s \in Seq(Token) /\ Len(s) \in Nat \ {0}
    BY DEF Path
  <2>2. t \in Seq(Token) /\ Len(t) = n - 1 /\ \A i \in 1 .. Len(t) : t[i] = s[i + 1]
    BY <2>1, HeadTailProperties
  <2> QED
    BY <2>1, <2>2 DEF Path
<1>2. s[1] = "/"
  BY DEF Path
<1> HIDE DEF t
<1>3. PICK m \in 0 .. Len(t) : /\ m # 0 => t[m] # "/"
                               /\ \A i \in 1 .. Len(t) : i > m => t[i] = "/"
                               /\ TrimTrailingSlashes(t) = SubSeq(t, 1, m)
  BY <1>1, TrimWhere
<1>4. SubSeq(t, 1, m) \in Path /\ Len(SubSeq(t, 1, m)) = m /\ \A i \in 1 .. m : SubSeq(t, 1, m)[i] = t[i]
  BY <1>1, FirstsFacts
<1>5. m \in Nat /\ m <= n - 1
  BY <1>1
<1>6. CASE m = 0
  <2>1. \A i \in 1 .. n : s[i] = "/"
    <3> TAKE i \in 1 .. n
    <3>1. CASE i = 1
      BY <1>2, <3>1
    <3>2. CASE i # 1
      <4>1. i - 1 \in 1 .. n - 1 /\ (i - 1) + 1 = i /\ i - 1 > m
        BY <1>1, <1>6, <3>2
      <4>2. t[i - 1] = "/" /\ t[i - 1] = s[(i - 1) + 1]
        BY <1>1, <1>3, <4>1
      <4> QED
        BY <4>1, <4>2
    <3> QED
      BY <3>1, <3>2
  <2>2. 0 \in 0 .. n
    BY <1>1
  <2>3. TrimTrailingSlashes(s) = SubSeq(s, 1, 0)
    BY <2>1, <2>2, TrimAt
  <2>4. SubSeq(s, 1, 0) = << >> /\ SubSeq(t, 1, m) = << >>
    BY <1>6, SubSeqEmpty
  <2> QED
    BY <1>3, <2>3, <2>4, <1>1 DEF t
<1>7. CASE m # 0
  <2>1. m + 1 \in 0 .. n /\ m + 1 # 0 /\ m \in 1 .. n - 1
    BY <1>5, <1>1, <1>7
  <2>2. s[m + 1] # "/"
    BY <1>1, <1>3, <1>7, <2>1
  <2>3. \A i \in 1 .. n : i > m + 1 => s[i] = "/"
    <3> TAKE i \in 1 .. n
    <3> HAVE i > m + 1
    <3>1. i - 1 \in 1 .. n - 1 /\ (i - 1) + 1 = i /\ i - 1 > m
      BY <1>1, <1>5
    <3>2. t[i - 1] = "/" /\ t[i - 1] = s[(i - 1) + 1]
      BY <1>1, <1>3, <3>1
    <3> QED
      BY <3>1, <3>2
  <2>4. TrimTrailingSlashes(s) = SubSeq(s, 1, m + 1)
    BY <2>1, <2>2, <2>3, TrimAt
  <2> DEFINE u == SubSeq(t, 1, m)
             v == SubSeq(s, 1, m + 1)
             w == <<"/">> \o u
  <2>5. v \in Path /\ Len(v) = m + 1 /\ \A i \in 1 .. m + 1 : v[i] = s[i]
    BY <2>1, FirstsFacts
  <2>6. u \in Path /\ Len(u) = m /\ \A i \in 1 .. m : u[i] = t[i]
    BY <1>4
  <2> HIDE DEF u, v
  <2>7. w \in Path /\ Len(w) = 1 + m /\ w[1] = "/" /\ \A j \in 1 .. m : w[1 + j] = u[j]
    <3>1. /\ w \in Path /\ Len(w) = 1 + Len(u) /\ w[1] = "/"
          /\ \A j \in 1 .. Len(u) : w[1 + j] = u[j]
      BY <2>6, SlashFirst
    <3> QED
      BY <2>6, <3>1
  <2> HIDE DEF w
  <2>8. \A i \in 1 .. m + 1 : v[i] = w[i]
    <3> TAKE i \in 1 .. m + 1
    <3>1. CASE i = 1
      BY <1>2, <2>5, <2>7, <3>1
    <3>2. CASE i # 1
      <4>1. i - 1 \in 1 .. m /\ 1 + (i - 1) = i /\ (i - 1) + 1 = i /\ i - 1 \in 1 .. n - 1
        BY <1>1, <1>5, <3>2
      <4>2. w[1 + (i - 1)] = u[i - 1] /\ u[i - 1] = t[i - 1] /\ t[i - 1] = s[(i - 1) + 1]
        BY <1>1, <2>6, <2>7, <4>1
      <4> QED
        BY <2>5, <4>1, <4>2
    <3> QED
      BY <3>1, <3>2
  <2>9. v = w
    <3>1. Len(v) = Len(w)
      BY <1>5, <2>5, <2>7
    <3> QED
      BY <2>5, <2>7, <2>8, <3>1, SamePath
  <2>10. u # << >>
    BY <1>7, <2>6 DEF Path
  <2> QED
    BY <1>1, <1>3, <2>4, <2>9, <2>10 DEF t, u, v, w
<1> QED
  BY <1>6, <1>7

\* A path that starts with a slash, taken apart.
LEMMA FirstApart ==
    ASSUME NEW p \in Path, p # << >>, Head(p) = "/"
    PROVE  Tail(p) \in Path /\ p = <<"/">> \o Tail(p)
<1> DEFINE t == Tail(p)
           w == <<"/">> \o t
<1>1. p \in Seq(Token) /\ Len(p) \in Nat \ {0} /\ p[1] = "/"
  BY DEF Path
<1>2. t \in Path /\ Len(t) = Len(p) - 1 /\ \A i \in 1 .. Len(t) : t[i] = p[i + 1]
  BY <1>1, HeadTailProperties DEF Path
<1> HIDE DEF t
<1>3. w \in Path /\ Len(w) = 1 + Len(t) /\ w[1] = "/" /\ \A j \in 1 .. Len(t) : w[1 + j] = t[j]
  BY <1>2, SlashFirst
<1> HIDE DEF w
<1>4. \A i \in 1 .. Len(p) : p[i] = w[i]
  <2> TAKE i \in 1 .. Len(p)
  <2>1. CASE i = 1
    BY <1>1, <1>3, <2>1
  <2>2. CASE i # 1
    <3>1. i - 1 \in 1 .. Len(t) /\ 1 + (i - 1) = i /\ (i - 1) + 1 = i
      BY <1>1, <1>2, <2>2
    <3>2. w[1 + (i - 1)] = t[i - 1] /\ t[i - 1] = p[(i - 1) + 1]
      BY <1>2, <1>3, <3>1
    <3> QED
      BY <3>1, <3>2
  <2> QED
    BY <2>1, <2>2
<1>5. Len(p) = Len(w)
  BY <1>1, <1>2, <1>3
<1>6. p = w
  BY <1>3, <1>4, <1>5, SamePath
<1> QED
  BY <1>2, <1>6 DEF t, w

\* A slash in front of a path that starts with one is collapsed.
LEMMA CollapseLeading ==
    ASSUME NEW u \in Path, u # << >>, Head(u) = "/"
    PROVE  /\ <<"/">> \o u \in Path
           /\ CollapseDuplicateSlashes(<<"/">> \o u) = CollapseDuplicateSlashes(u)
<1>1. u \in Seq(Token) /\ Len(u) \in Nat \ {0} /\ u[1] = "/" /\ 1 \in 1 .. Len(u)
  BY DEF Path
<1>2. SubSeq(u, 1, 0) = << >> /\ SubSeq(u, 1, Len(u)) = u
  BY <1>1, SubSeqFull, SubSeqEmpty
<1>3. << >> \o <<"/">> = <<"/">>
  BY OneSlash DEF Path
<1>4. InsertAt(u, 1, "/") = <<"/">> \o u
  BY <1>2, <1>3 DEF InsertAt
<1> QED
  BY <1>1, <1>4, CollapseInsert

\* The line depends on the path and the two settings through the rewritten path alone.
LEMMA LineOf ==
    ASSUME NEW c, NEW d, c.listing = d.listing, c.index = d.index, c.style = d.style,
           c.pageSize = d.pageSize, NEW q, NEW r, q.method = r.method, q.marker = r.marker,
           q.forIndexPage = r.forIndexPage,
           CollapseDuplicateSlashes(UriPath(c, q.path)) = CollapseDuplicateSlashes(UriPath(d, r.path))
    PROVE  S3uri(c, q) = S3uri(d, r)
BY DEF S3uri, S3BaseUri, S3DirQueryParams, ListMaxKeys, WithIndex

(***************************************************************************)
(* The line that is sent has a path, and the signature of either version   *)
(* covers it, provided that whoever does not ask for an index page asks    *)
(* where listings are on.                                                  *)
(***************************************************************************)
LEMMA LineForm ==
    ASSUME NEW c, c.strip \in Path, c.prefix \in Path, NEW q, q.path \in Path
    PROVE  \E p \in Path : \E w : S3uri(c, q) = [path |-> p, query |-> w]
<1> DEFINE base == S3BaseUri(c)
           u == CollapseDuplicateSlashes(UriPath(c, q.path))
           query == S3DirQueryParams(c, u, q.method, q.marker)
<1>1. u \in Path /\ WithIndex(c, u) \in Path /\ base \in Path
  BY UriPathFacts, CollapseType, WithIndexFacts, BucketPath DEF S3BaseUri
<1>2. \/ S3uri(c, q) = [path |-> base, query |-> query]
      \/ S3uri(c, q) = [path |-> EscapeURIPath(base \o u), query |-> << >>]
      \/ S3uri(c, q) = [path |-> EscapeURIPath(base \o WithIndex(c, u)), query |-> << >>]
  BY DEF S3uri
<1> HIDE DEF u, base, query
<1>3. \A s, t \in Path : s \o t \in Path
  BY DEF Path
<1>4. EscapeURIPath(base \o u) \in Path /\ EscapeURIPath(base \o WithIndex(c, u)) \in Path
  BY <1>1, <1>3, DecodedFacts DEF EscapeURIPath
<1> QED
  BY <1>1, <1>2, <1>4

LEMMA SignatureCovers ==
    ASSUME NEW c, c.strip \in Path, c.prefix \in Path, NEW q, q.path \in Path,
           q.forIndexPage \in BOOLEAN, ~q.forIndexPage => c.listing
    PROVE  SignatureMatches(c, q, S3uri(c, q))
<1> DEFINE base == S3BaseUri(c)
           u == CollapseDuplicateSlashes(UriPath(c, q.path))
           query == S3DirQueryParams(c, u, q.method, q.marker)
           sent == S3uri(c, q)
<1>1. (\E p \in Path : \E w : sent = [path |-> p, query |-> w]) /\ u \in Path
  BY LineForm, UriPathFacts, CollapseType
<1>2. CASE c.sigver = 2
  <2> HIDE DEF sent
  <2>1. SeenByS3(sent).path = IF sent.path = << >> THEN <<"/">> ELSE sent.path
    BY <1>1 DEF SeenByS3
  <2>2. (S3BaseUri(c) = << >>) <=> c.style # "path"
    BY DEF S3BaseUri
  <2>3. \A s : s \in Path => << >> \o s = s
    BY DEF Path
  <2>4. SeenByS3(sent).path \in Path
    BY <1>1, <2>1, OneSlash
  <2>5. S3ReqParamsForSigV2(c, q) = IF S3BaseUri(c) = << >> THEN <<"/", Bucket>> \o SeenByS3(sent).path
                                                            ELSE SeenByS3(sent).path
    BY <2>1 DEF S3ReqParamsForSigV2, sent
  <2>6. SignatureMatches(c, q, sent)
    BY <1>2, <2>2, <2>3, <2>4, <2>5 DEF SignatureMatches
  <2> QED
    BY <2>6 DEF sent
<1>3. CASE c.sigver # 2
  <2> DEFINE computed == IF q.forIndexPage THEN Append(u, IndexPage) ELSE u
             asked == S3DirQueryParams(c, computed, q.method, q.marker)
  <2>1. CASE asked = << >>
    BY <1>3, <2>1 DEF SignatureMatches, S3ReqParamsForSigV4
  <2>2. CASE asked # << >>
    <3>1. ~q.forIndexPage
      BY <1>1, <2>2, IndexPageIsAFile DEF S3DirQueryParams
    <3>2. asked = query /\ c.listing
      BY <3>1
    <3>3. sent = [path |-> base, query |-> query]
      BY <2>2, <3>1, <3>2 DEF S3uri
    <3>4. S3ReqParamsForSigV4(c, q) = [path |-> IF base = << >> THEN <<"/">> ELSE base, query |-> query]
      BY <2>2, <3>1, <3>2 DEF S3ReqParamsForSigV4
    <3>5. <<"/">> # << >>
      OBVIOUS
    <3>6. SeenByS3(S3ReqParamsForSigV4(c, q)) = SeenByS3(sent)
      BY <3>3, <3>4, <3>5 DEF SeenByS3
    <3> QED
      BY <1>3, <3>6 DEF SignatureMatches
  <2> QED
    BY <2>1, <2>2
<1> QED
  BY <1>2, <1>3
=============================================================================

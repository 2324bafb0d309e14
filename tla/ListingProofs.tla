--------------------------- MODULE ListingProofs ---------------------------
(***************************************************************************)
(* Proofs about the two modules of a listing.  DirectoryListing, for any   *)
(* keys, page sizes and number of changes of the bucket: byte order is a   *)
(* strict linear order, so that a finite set of entries has a first, a     *)
(* last and a page; a marker that is an entry splits the listing in two,   *)
(* although S3 compares it with keys; a link leads back to its marker.     *)
(* Then ListResponseFilter, for any response and way to cut it.            *)
(***************************************************************************)
EXTENDS DirectoryListing, ListResponseFilter, FiniteSetTheorems, SequenceTheorems,
        WellFoundedInduction, TLAPS

\* A set of numbers that is not empty has a least element.
LEMMA LeastNumber ==
    ASSUME NEW T \in SUBSET Nat, T # {}
    PROVE  \E m \in T : \A k \in T : m <= k
<1> DEFINE R == {ss \in Nat \X Nat : ss[1] < ss[2]}
<1>1. OpToRel(<, Nat) = R
  BY DEF OpToRel
<1>2. IsWellFoundedOn(R, Nat)
  BY <1>1, NatLessThanWellFounded
<1> HIDE DEF R
<1>a. T \subseteq Nat
  OBVIOUS
<1>b. \E m \in T : \A k \in T : ~(<<k, m>> \in R)
  BY ONLY <1>2, <1>a, T # {}, WFMin
<1>3. PICK m \in T : \A k \in T : <<k, m>> \notin R
  BY <1>b
<1>4. ASSUME NEW k \in T PROVE m <= k
  <2>1. k \in Nat /\ m \in Nat /\ <<k, m>> \notin R
    BY <1>3
  <2>2. ~(k < m)
    BY <2>1 DEF R
  <2> QED
    BY <2>1, <2>2
<1> QED
  BY <1>4

\* IsPrefix, place by place.
LEMMA PrefixMeans ==
    ASSUME NEW s \in Seq(Nat), NEW t \in Seq(Nat)
    PROVE  IsPrefix(s, t) <=> Len(s) <= Len(t) /\ \A i \in 1 .. Len(s) : s[i] = t[i]
<1>1. Len(s) \in Nat /\ Len(t) \in Nat
  OBVIOUS
<1>2. ASSUME Len(s) <= Len(t)
      PROVE  /\ Len(SubSeq(s, 1, Len(s))) = Len(s) /\ Len(SubSeq(t, 1, Len(s))) = Len(s)
             /\ \A i \in 1 .. Len(s) : SubSeq(s, 1, Len(s))[i] = s[i] /\ SubSeq(t, 1, Len(s))[i] = t[i]
             /\ SubSeq(s, 1, Len(s)) \in Seq(Nat) /\ SubSeq(t, 1, Len(s)) \in Seq(Nat)
  <2>1. SubSeq(s, 1, Len(s)) = s
    BY SubSeqFull
  <2>2. /\ SubSeq(t, 1, Len(s)) \in Seq(Nat) /\ Len(SubSeq(t, 1, Len(s))) = Len(s)
        /\ \A i \in 1 .. Len(s) : SubSeq(t, 1, Len(s))[i] = t[i]
    BY <1>1, <1>2
  <2> QED
    BY <2>1, <2>2
<1>3. ASSUME Len(s) <= Len(t)
      PROVE  SubSeq(s, 1, Len(s)) = SubSeq(t, 1, Len(s)) <=> \A i \in 1 .. Len(s) : s[i] = t[i]
  <2> DEFINE a == SubSeq(s, 1, Len(s))
             b == SubSeq(t, 1, Len(s))
  <2>1. a \in Seq(Nat) /\ b \in Seq(Nat) /\ Len(a) = Len(s) /\ Len(b) = Len(s)
        /\ \A i \in 1 .. Len(s) : a[i] = s[i] /\ b[i] = t[i]
    BY <1>2, <1>3
  <2> HIDE DEF a, b
  <2>2. a = b <=> \A i \in 1 .. Len(a) : a[i] = b[i]
    <3>1. a \in Seq(Nat) /\ b \in Seq(Nat) /\ Len(a) = Len(b)
      BY <2>1
    <3>2. ASSUME \A i \in 1 .. Len(a) : a[i] = b[i] PROVE a = b
      BY <3>1, <3>2, SeqEqual
    <3> QED
      BY <3>2
  <2> QED
    BY <2>1, <2>2 DEF a, b
<1>4. IsPrefix(s, t) <=> Len(s) <= Len(t) /\ SubSeq(s, 1, Len(s)) = SubSeq(t, 1, Len(s))
  BY DEF IsPrefix
<1> HIDE DEF IsPrefix
<1> QED
  BY ONLY <1>3, <1>4

(***************************************************************************)
(* Before is a strict linear order.                                        *)
(***************************************************************************)
LEMMA BeforeIrreflexive ==
    ASSUME NEW a \in Seq(Nat) PROVE ~Before(a, a)
<1>1. Len(a) \in Nat /\ \A i \in 1 .. Len(a) : a[i] \in Nat
  OBVIOUS
<1> QED
  BY <1>1 DEF Before

\* Of two places where the sequences part, the earlier one decides.
LEMMA BeforeTransitive ==
    ASSUME NEW a \in Seq(Nat), NEW b \in Seq(Nat), NEW c \in Seq(Nat),
           Before(a, b), Before(b, c)
    PROVE  Before(a, c)
<1>1. /\ Len(a) \in Nat /\ \A i \in 1 .. Len(a) : a[i] \in Nat
      /\ Len(b) \in Nat /\ \A i \in 1 .. Len(b) : b[i] \in Nat
      /\ Len(c) \in Nat /\ \A i \in 1 .. Len(c) : c[i] \in Nat
  OBVIOUS
<1>2. PICK i \in 1 .. Len(b) : /\ \A j \in 1 .. i - 1 : j <= Len(a) /\ a[j] = b[j]
                               /\ i > Len(a) \/ a[i] < b[i]
  BY DEF Before
<1>3. PICK k \in 1 .. Len(c) : /\ \A j \in 1 .. k - 1 : j <= Len(b) /\ b[j] = c[j]
                               /\ k > Len(b) \/ b[k] < c[k]
  BY DEF Before
<1>4. CASE i < k
  <2>1. i \in 1 .. k - 1 /\ b[i] = c[i] /\ i \in 1 .. Len(c)
    BY <1>1, <1>3, <1>4
  <2>2. \A j \in 1 .. i - 1 : j \in 1 .. k - 1 /\ j <= Len(a) /\ a[j] = c[j]
    BY <1>1, <1>2, <1>3, <1>4
  <2> QED
    BY <2>1, <2>2, <1>2 DEF Before
<1>5. CASE k <= i
  <2>1. k \in 1 .. Len(b) /\ b[k] < c[k]
    BY <1>1, <1>3, <1>2, <1>5
  <2>2. \A j \in 1 .. k - 1 : j <= Len(a) /\ a[j] = c[j]
    BY SMTT(30), <1>1, <1>2, <1>3, <1>5
  <2>3. k > Len(a) \/ (k \in 1 .. Len(a) /\ a[k] <= b[k])
    <3>1. CASE k = i
      BY SMTT(30), <3>1, <1>1, <1>2, <2>1
    <3>2. CASE k < i
      <4>1. k \in 1 .. i - 1
        BY <3>2, <1>1
      <4>2. k <= Len(a) /\ a[k] = b[k]
        BY <4>1, <1>2
      <4>3. b[k] \in Nat /\ k \in 1 .. Len(a)
        BY <4>2, <1>1, <2>1
      <4> QED
        BY <4>2, <4>3
    <3> QED
      BY <3>1, <3>2, <1>5, <1>1
  <2>4. ASSUME k \in 1 .. Len(a), a[k] <= b[k] PROVE a[k] < c[k]
    <3>1. a[k] \in Nat /\ b[k] \in Nat /\ c[k] \in Nat
      BY <1>1, <2>1, <2>4
    <3>2. \A x, y, z \in Nat : x <= y /\ y < z => x < z
      OBVIOUS
    <3>3. a[k] <= b[k] /\ b[k] < c[k]
      BY <2>1, <2>4
    <3> QED
      BY ONLY <3>1, <3>2, <3>3
  <2> QED
    BY <2>2, <2>3, <2>4 DEF Before
<1> QED
  BY <1>1, <1>4, <1>5

\* The first place where two sequences part decides; there is one.
LEMMA BeforeTotal ==
    ASSUME NEW a \in Seq(Nat), NEW b \in Seq(Nat), a # b
    PROVE  Before(a, b) \/ Before(b, a)
<1>1. /\ Len(a) \in Nat /\ \A i \in 1 .. Len(a) : a[i] \in Nat
      /\ Len(b) \in Nat /\ \A i \in 1 .. Len(b) : b[i] \in Nat
  OBVIOUS
<1> DEFINE Apart(i) == i > Len(a) \/ i > Len(b) \/ a[i] # b[i]
           D == {i \in Nat \ {0} : Apart(i)}
<1>2. D \in SUBSET Nat /\ D # {}
  <2>1. Len(a) + 1 \in D
    BY <1>1
  <2> QED
    BY <2>1
<1>3. PICK m \in D : \A i \in D : m <= i
  <2> HIDE DEF D
  <2> QED
    BY <1>2, LeastNumber
<1>4. m \in Nat \ {0} /\ Apart(m)
  BY <1>3
<1>5. \A j \in 1 .. m - 1 : j <= Len(a) /\ j <= Len(b) /\ a[j] = b[j]
  <2> TAKE j \in 1 .. m - 1
  <2>1. j \in Nat \ {0} /\ j \notin D
    BY <1>3, <1>4
  <2> QED
    BY <2>1, <1>1
<1>6. ~(m > Len(a) /\ m > Len(b))
  <2> SUFFICES ASSUME m > Len(a), m > Len(b) PROVE FALSE
    OBVIOUS
  <2>1. Len(a) = Len(b)
    <3>1. ~(Len(a) < Len(b))
      <4> SUFFICES ASSUME Len(a) < Len(b) PROVE FALSE
        OBVIOUS
      <4>1. Len(a) + 1 \in 1 .. m - 1
        BY <1>1, <1>4
      <4>2. Len(a) + 1 <= Len(a)
        BY <4>1, <1>5
      <4> QED
        BY <4>2, <1>1
    <3>2. ~(Len(b) < Len(a))
      <4> SUFFICES ASSUME Len(b) < Len(a) PROVE FALSE
        OBVIOUS
      <4>1. Len(b) + 1 \in 1 .. m - 1
        BY <1>1, <1>4
      <4>2. Len(b) + 1 <= Len(b)
        BY <4>1, <1>5
      <4> QED
        BY <4>2, <1>1
    <3> QED
      BY <3>1, <3>2, <1>1
  <2>2. \A j \in 1 .. Len(a) : a[j] = b[j]
    BY <1>1, <1>4, <1>5
  <2> QED
    BY <2>1, <2>2
<1>7. CASE m > Len(a)
  <2>1. m \in 1 .. Len(b)
    BY <1>1, <1>4, <1>6, <1>7
  <2> QED
    BY <2>1, <1>5, <1>7 DEF Before
<1>8. CASE m > Len(b)
  <2>1. m \in 1 .. Len(a)
    BY <1>1, <1>4, <1>6, <1>8
  <2>2. \A j \in 1 .. m - 1 : j <= Len(b) /\ b[j] = a[j]
    BY <1>5
  <2> QED
    BY <2>1, <2>2, <1>8 DEF Before
<1>9. CASE m <= Len(a) /\ m <= Len(b)
  <2>1. m \in 1 .. Len(a) /\ m \in 1 .. Len(b) /\ a[m] # b[m]
    BY <1>1, <1>4, <1>9
  <2>2. a[m] < b[m] \/ b[m] < a[m]
    BY <2>1, <1>1
  <2>3. \A j \in 1 .. m - 1 : j <= Len(b) /\ b[j] = a[j]
    BY <1>5
  <2> QED
    BY <2>1, <2>2, <2>3, <1>5 DEF Before
<1> QED
  BY <1>1, <1>4, <1>7, <1>8, <1>9

\* What comes before the beginning of a sequence comes before the sequence.
LEMMA BeforeExtends ==
    ASSUME NEW a \in Seq(Nat), NEW b \in Seq(Nat), NEW c \in Seq(Nat),
           Before(a, b), IsPrefix(b, c)
    PROVE  Before(a, c)
<1>1. Len(a) \in Nat /\ Len(b) \in Nat /\ Len(c) \in Nat /\ Len(b) <= Len(c)
      /\ \A i \in 1 .. Len(b) : b[i] = c[i]
  BY PrefixMeans
<1>2. PICK i \in 1 .. Len(b) : /\ \A j \in 1 .. i - 1 : j <= Len(a) /\ a[j] = b[j]
                               /\ i > Len(a) \/ a[i] < b[i]
  BY DEF Before
<1>3. i \in 1 .. Len(c) /\ b[i] = c[i] /\ \A j \in 1 .. i - 1 : b[j] = c[j]
  BY <1>1
<1> QED
  BY <1>2, <1>3 DEF Before

\* A sequence comes before what extends it.
LEMMA PrefixBefore ==
    ASSUME NEW a \in Seq(Nat), NEW b \in Seq(Nat), IsPrefix(a, b), a # b
    PROVE  Before(a, b)
<1>1. Len(a) \in Nat /\ Len(b) \in Nat /\ Len(a) <= Len(b)
      /\ \A i \in 1 .. Len(a) : a[i] = b[i]
  BY PrefixMeans
<1>2. Len(a) # Len(b)
  <2> SUFFICES ASSUME Len(a) = Len(b) PROVE FALSE
    OBVIOUS
  <2> QED
    BY <1>1
<1>3. PICK n \in 1 .. Len(b) : n = Len(a) + 1
  BY <1>1, <1>2
<1>4. n > Len(a) /\ \A j \in 1 .. n - 1 : j <= Len(a) /\ a[j] = b[j]
  BY <1>1, <1>3
<1> QED
  BY <1>4 DEF Before

----------------------------------------------------------------------------
(***************************************************************************)
(* The first and the last of a finite set of entries, by counting how many *)
(* come before each.                                                       *)
(***************************************************************************)
Ahead(E, e) == {f \in E : Before(f, e)}

\* As many entries come before one as there are, at most; never itself.
LEMMA AheadFacts ==
    ASSUME NEW E \in SUBSET Seq(Nat), IsFiniteSet(E), NEW e \in E
    PROVE  /\ IsFiniteSet(Ahead(E, e)) /\ Cardinality(Ahead(E, e)) \in Nat
           /\ Cardinality(Ahead(E, e)) <= Cardinality(E) /\ Cardinality(E) \in Nat
           /\ e \notin Ahead(E, e)
<1>1. Ahead(E, e) \subseteq E
  BY DEF Ahead
<1>2. e \notin Ahead(E, e)
  BY BeforeIrreflexive DEF Ahead
<1> QED
  BY <1>1, <1>2, FS_Subset, FS_CardinalityType

\* The later of two entries has more before it.
LEMMA AheadGrows ==
    ASSUME NEW E \in SUBSET Seq(Nat), IsFiniteSet(E), NEW d \in E, NEW e \in E, Before(d, e)
    PROVE  Cardinality(Ahead(E, d)) < Cardinality(Ahead(E, e))
<1>1. Ahead(E, d) \subseteq Ahead(E, e)
  BY BeforeTransitive DEF Ahead
<1>2. d \in Ahead(E, e) /\ d \notin Ahead(E, d)
  BY AheadFacts DEF Ahead
<1>3. IsFiniteSet(Ahead(E, e)) /\ Cardinality(Ahead(E, e)) \in Nat /\ Cardinality(Ahead(E, d)) \in Nat
  BY AheadFacts
<1>4. /\ Cardinality(Ahead(E, d)) <= Cardinality(Ahead(E, e))
      /\ Cardinality(Ahead(E, e)) # Cardinality(Ahead(E, d))
  BY <1>1, <1>2, <1>3, FS_Subset
<1> QED
  BY <1>3, <1>4

\* A finite set of entries has a first ...
LEMMA FirstExists ==
    ASSUME NEW E \in SUBSET Seq(Nat), IsFiniteSet(E), E # {}
    PROVE  \E e \in E : Ahead(E, e) = {}
<1> DEFINE T == {Cardinality(Ahead(E, e)) : e \in E}
<1>1. T \in SUBSET Nat /\ T # {}
  BY AheadFacts
<1>2. PICK m \in T : \A k \in T : m <= k
  <2> HIDE DEF T
  <2> QED
    BY <1>1, LeastNumber
<1>3. PICK e \in E : m = Cardinality(Ahead(E, e))
  BY <1>2
<1>4. ASSUME NEW f \in E, Before(f, e) PROVE FALSE
  <2>1. Cardinality(Ahead(E, f)) < m
    BY <1>3, <1>4, AheadGrows
  <2>2. m <= Cardinality(Ahead(E, f))
    BY <1>2
  <2>3. m \in Nat /\ Cardinality(Ahead(E, f)) \in Nat
    BY <1>3, AheadFacts
  <2> QED
    BY <2>1, <2>2, <2>3
<1> QED
  BY <1>4 DEF Ahead

\* ... and LastOf is its last.
LEMMA LastFacts ==
    ASSUME NEW E \in SUBSET Seq(Nat), IsFiniteSet(E), E # {}
    PROVE  LastOf(E) \in E /\ \A f \in E : f = LastOf(E) \/ Before(f, LastOf(E))
<1> DEFINE T == {Cardinality(E) - Cardinality(Ahead(E, e)) : e \in E}
<1>1. T \in SUBSET Nat /\ T # {}
  <2>1. \A e \in E : Cardinality(E) - Cardinality(Ahead(E, e)) \in Nat
    <3> TAKE e \in E
    <3>1. /\ Cardinality(E) \in Nat /\ Cardinality(Ahead(E, e)) \in Nat
          /\ Cardinality(Ahead(E, e)) <= Cardinality(E)
      BY AheadFacts
    <3> QED
      BY <3>1
  <2> QED
    BY <2>1
<1>2. PICK m \in T : \A k \in T : m <= k
  <2> HIDE DEF T
  <2> QED
    BY <1>1, LeastNumber
<1>3. PICK e \in E : m = Cardinality(E) - Cardinality(Ahead(E, e))
  BY <1>2
<1>4. ASSUME NEW f \in E PROVE f = e \/ Before(f, e)
  <2>1. SUFFICES ASSUME Before(e, f) PROVE FALSE
    BY BeforeTotal
  <2>2. Cardinality(Ahead(E, e)) < Cardinality(Ahead(E, f))
    BY <2>1, AheadGrows
  <2>3. m <= Cardinality(E) - Cardinality(Ahead(E, f))
    BY <1>2
  <2>4. /\ Cardinality(E) \in Nat /\ Cardinality(Ahead(E, e)) \in Nat
        /\ Cardinality(Ahead(E, f)) \in Nat
    BY AheadFacts
  <2> QED
    BY <2>2, <2>3, <2>4, <1>3
<1> QED
  BY <1>4 DEF LastOf

(***************************************************************************)
(* The first n of a set of entries: a page.                                *)
(***************************************************************************)
LEMMA FirstOfFacts ==
    ASSUME NEW E \in SUBSET Seq(Nat), IsFiniteSet(E), NEW n \in Nat \ {0}
    PROVE  /\ FirstOf(E, n) \subseteq E /\ IsFiniteSet(FirstOf(E, n))
           /\ \A f \in FirstOf(E, n), e \in E \ FirstOf(E, n) : Before(f, e)
           /\ E # {} => FirstOf(E, n) # {}
           /\ n > 1 /\ FirstOf(E, n) # E => \A x : FirstOf(E, n) # {x}
<1> DEFINE F == FirstOf(E, n)
<1>1. F = {e \in E : Cardinality(Ahead(E, e)) < n}
  BY DEF FirstOf, Ahead
<1> HIDE DEF F
<1>2. F \subseteq E /\ IsFiniteSet(F)
  BY <1>1, FS_Subset
<1>3. ASSUME NEW f \in F, NEW e \in E \ F PROVE Before(f, e)
  <2>1. f \in E /\ e \in E /\ f # e /\ Cardinality(Ahead(E, f)) < n
    BY <1>1
  <2>2. SUFFICES ASSUME Before(e, f) PROVE FALSE
    BY <2>1, BeforeTotal
  <2>3. Cardinality(Ahead(E, e)) < Cardinality(Ahead(E, f))
    BY <2>1, <2>2, AheadGrows
  <2>4. Cardinality(Ahead(E, e)) \in Nat /\ Cardinality(Ahead(E, f)) \in Nat
    BY <2>1, AheadFacts
  <2>5. Cardinality(Ahead(E, e)) < n
    BY <2>1, <2>3, <2>4
  <2> QED
    BY <1>1, <2>5
<1>4. ASSUME E # {} PROVE F # {}
  <2>1. PICK e \in E : Ahead(E, e) = {}
    BY <1>4, FirstExists
  <2>2. Cardinality(Ahead(E, e)) < n
    BY <2>1, FS_EmptySet
  <2> QED
    BY <1>1, <2>2
<1>5. ASSUME n > 1, F # E, NEW x, F = {x} PROVE FALSE
  <2>1. E \ F \in SUBSET Seq(Nat) /\ IsFiniteSet(E \ F) /\ E \ F # {}
    BY <1>2, <1>5, FS_Subset
  <2>2. PICK e \in E \ F : Ahead(E \ F, e) = {}
    BY <2>1, FirstExists
  <2>3. Ahead(E, e) \subseteq {x}
    BY <1>5, <2>2 DEF Ahead
  <2>4. Cardinality(Ahead(E, e)) <= 1 /\ Cardinality(Ahead(E, e)) \in Nat
    <3>1. IsFiniteSet({x}) /\ Cardinality({x}) = 1
      BY FS_Singleton
    <3>2. Cardinality(Ahead(E, e)) <= Cardinality({x})
      BY <2>3, <3>1, FS_Subset
    <3> QED
      BY <3>1, <3>2, AheadFacts
  <2>5. Cardinality(Ahead(E, e)) < n
    BY <2>4, <1>5
  <2> QED
    BY <1>1, <2>2, <2>5
<1> QED
  BY <1>2, <1>3, <1>4, <1>5 DEF F

----------------------------------------------------------------------------
(***************************************************************************)
(* The entries of a listing: Entry rolls a key up at the first slash that  *)
(* follows the prefix.                                                     *)
(***************************************************************************)
Listed == {Entry(k) : k \in Keys}

\* Every key begins with the prefix of the directory.
LEMMA KeyFacts ==
    ASSUME NEW k \in Keys
    PROVE  /\ k \in Seq(Nat) /\ Len(k) \in Nat /\ Len(Prefix) \in Nat \ {0} /\ Len(Prefix) <= Len(k)
           /\ \A i \in 1 .. Len(Prefix) : k[i] = Prefix[i]
BY KeysAssumption, PrefixMeans

\* A key without a slash after the prefix is an entry itself.
LEMMA EntryOfFile ==
    ASSUME NEW k \in Keys, \A i \in Len(Prefix) + 1 .. Len(k) : k[i] # Slash
    PROVE  Entry(k) = k
BY DEF Entry

\* Any other is cut after the first such slash.
LEMMA EntryOfFolder ==
    ASSUME NEW k \in Keys, NEW m \in Len(Prefix) + 1 .. Len(k), k[m] = Slash,
           \A i \in Len(Prefix) + 1 .. m - 1 : k[i] # Slash
    PROVE  Entry(k) = SubSeq(k, 1, m)
<1> DEFINE slashes == {i \in Len(Prefix) + 1 .. Len(k) : k[i] = Slash}
           first == CHOOSE i \in slashes : \A j \in slashes : i <= j
<1>1. m \in slashes /\ \A j \in slashes : m <= j
  <2>1. m \in slashes
    OBVIOUS
  <2>2. ASSUME NEW j \in slashes PROVE m <= j
    <3>1. j \in Int /\ m \in Int /\ Len(Prefix) \in Nat
      BY KeyFacts
    <3>2. j \notin Len(Prefix) + 1 .. m - 1
      OBVIOUS
    <3> QED
      BY <3>1, <3>2
  <2> QED
    BY <2>1, <2>2
<1>2. slashes \subseteq Int
  BY KeyFacts
<1>3. Entry(k) = IF slashes = {} THEN k ELSE SubSeq(k, 1, first)
  BY DEF Entry
<1> HIDE DEF slashes
<1>4. \A i \in slashes : (\A j \in slashes : i <= j) => i = m
  <2> TAKE i \in slashes
  <2> HAVE \A j \in slashes : i <= j
  <2>1. i <= m /\ m <= i /\ i \in Int /\ m \in Int
    BY <1>1, <1>2
  <2> QED
    BY <2>1
<1>5. first = m
  BY <1>1, <1>4
<1> QED
  BY <1>1, <1>3, <1>5

\* An entry begins its key, and has a slash after the prefix at its end only.
LEMMA EntryShape ==
    ASSUME NEW k \in Keys
    PROVE  /\ Entry(k) \in Seq(Nat) /\ Len(Entry(k)) \in Nat
           /\ Len(Prefix) <= Len(Entry(k)) /\ Len(Entry(k)) <= Len(k)
           /\ \A i \in 1 .. Len(Entry(k)) : Entry(k)[i] = k[i]
           /\ \A i \in Len(Prefix) + 1 .. Len(Entry(k)) - 1 : Entry(k)[i] # Slash
           /\ Entry(k) # k => /\ Len(Prefix) < Len(Entry(k))
                              /\ Entry(k)[Len(Entry(k))] = Slash
<1>1. CASE \A i \in Len(Prefix) + 1 .. Len(k) : k[i] # Slash
  <2>1. Entry(k) = k
    BY <1>1, EntryOfFile
  <2>2. \A i \in Len(Prefix) + 1 .. Len(k) - 1 : k[i] # Slash
    BY <1>1, KeyFacts
  <2> QED
    BY <2>1, <2>2, KeyFacts
<1>2. CASE \E i \in Len(Prefix) + 1 .. Len(k) : k[i] = Slash
  <2> DEFINE S == {i \in Len(Prefix) + 1 .. Len(k) : k[i] = Slash}
  <2>1. S \in SUBSET Nat /\ S # {}
    BY <1>2, KeyFacts
  <2>2. PICK m \in S : \A j \in S : m <= j
    <3> HIDE DEF S
    <3> QED
      BY <2>1, LeastNumber
  <2>3. m \in Len(Prefix) + 1 .. Len(k) /\ k[m] = Slash
    BY <2>2
  <2>4. \A i \in Len(Prefix) + 1 .. m - 1 : k[i] # Slash
    <3> TAKE i \in Len(Prefix) + 1 .. m - 1
    <3>1. i \in Len(Prefix) + 1 .. Len(k) /\ ~(m <= i)
      BY <2>3, KeyFacts
    <3> QED
      BY <2>2, <3>1
  <2>5. Entry(k) = SubSeq(k, 1, m)
    BY <2>3, <2>4, EntryOfFolder
  <2>6. /\ k \in Seq(Nat) /\ m \in 1 .. Len(k) /\ m \in Nat /\ Len(Prefix) < m /\ m <= Len(k)
    BY <2>3, KeyFacts
  <2>7. /\ SubSeq(k, 1, m) \in Seq(Nat) /\ Len(SubSeq(k, 1, m)) = m
        /\ \A i \in 1 .. m : SubSeq(k, 1, m)[i] = k[i]
    BY <2>6
  <2>8. \A i \in Len(Prefix) + 1 .. m - 1 : i \in 1 .. m
    BY <2>6, KeyFacts
  <2> QED
    BY <2>3, <2>4, <2>5, <2>6, <2>7, <2>8, KeyFacts
<1> QED
  BY <1>1, <1>2

\* The same, without the key.
LEMMA EntryFacts ==
    ASSUME NEW e \in Listed
    PROVE  /\ e \in Seq(Nat) /\ IsPrefix(Prefix, e)
           /\ e # Prefix => Len(Prefix) < Len(e) /\ (Last(e) = Slash <=> e[Len(e)] = Slash)
           /\ \A i \in Len(Prefix) + 1 .. Len(e) - 1 : e[i] # Slash
<1>1. PICK k \in Keys : e = Entry(k)
  BY DEF Listed
<1>2. /\ e \in Seq(Nat) /\ Len(e) \in Nat /\ Len(Prefix) <= Len(e) /\ Len(e) <= Len(k)
      /\ \A i \in 1 .. Len(e) : e[i] = k[i]
      /\ \A i \in Len(Prefix) + 1 .. Len(e) - 1 : e[i] # Slash
  BY <1>1, EntryShape
<1>3. \A i \in 1 .. Len(Prefix) : Prefix[i] = e[i]
  <2> TAKE i \in 1 .. Len(Prefix)
  <2>1. i \in 1 .. Len(e) /\ k[i] = Prefix[i]
    BY <1>2, KeyFacts
  <2> QED
    BY <2>1, <1>2
<1>4. IsPrefix(Prefix, e)
  BY <1>2, <1>3, PrefixMeans, KeysAssumption
<1>5. ASSUME Len(e) = Len(Prefix) PROVE e = Prefix
  BY <1>2, <1>3, <1>5, SeqEqual, KeysAssumption
<1>6. Last(e) = e[Len(e)]
  BY DEF Last
<1>7. Len(Prefix) \in Nat
  BY KeysAssumption
<1> QED
  BY <1>2, <1>4, <1>5, <1>6, <1>7

\* What lies below a subdirectory is rolled up into it.
LEMMA RolledUp ==
    ASSUME NEW e \in Listed, e # Prefix, Last(e) = Slash, NEW k \in Keys, IsPrefix(e, k)
    PROVE  Entry(k) = e
<1> DEFINE m == Len(e)
<1>1. /\ e \in Seq(Nat) /\ m \in Nat /\ Len(Prefix) < m /\ e[m] = Slash
      /\ \A i \in Len(Prefix) + 1 .. m - 1 : e[i] # Slash
  BY EntryFacts
<1>2. m <= Len(k) /\ \A i \in 1 .. m : e[i] = k[i]
  BY <1>1, PrefixMeans, KeyFacts
<1> HIDE DEF m
<1>3. m \in Len(Prefix) + 1 .. Len(k) /\ m \in 1 .. m
  BY <1>1, <1>2, KeyFacts
<1>4. k[m] = Slash
  BY <1>1, <1>2, <1>3
<1>5. \A i \in Len(Prefix) + 1 .. m - 1 : k[i] # Slash
  <2> TAKE i \in Len(Prefix) + 1 .. m - 1
  <2>1. i \in 1 .. m
    BY <1>1, KeyFacts
  <2> QED
    BY <2>1, <1>1, <1>2
<1>6. Entry(k) = SubSeq(k, 1, m)
  BY <1>3, <1>4, <1>5, EntryOfFolder
<1>7. /\ SubSeq(k, 1, m) \in Seq(Nat) /\ Len(SubSeq(k, 1, m)) = m
      /\ \A i \in 1 .. m : SubSeq(k, 1, m)[i] = k[i]
  <2>1. k \in Seq(Nat) /\ Len(k) \in Nat
    BY KeyFacts
  <2> QED
    BY <1>1, <1>2, <2>1, SubSeqProperties
<1>8. SubSeq(k, 1, m) = e
  <2> DEFINE s == SubSeq(k, 1, m)
  <2>1. s \in Seq(Nat) /\ Len(s) = Len(e) /\ \A i \in 1 .. Len(s) : s[i] = e[i]
    BY <1>2, <1>7 DEF m
  <2> HIDE DEF s
  <2>2. s = e
    BY <1>1, <2>1, SeqEqual
  <2> QED
    BY <2>2 DEF s
<1> QED
  BY <1>6, <1>8

(***************************************************************************)
(* A marker that is an entry: S3 continues with exactly the entries that   *)
(* come after it, although it compares the marker with keys.               *)
(***************************************************************************)
LEMMA ContinuesAfter ==
    ASSUME NEW at \in Listed, at # Prefix, NEW k \in Keys
    PROVE  Before(at, Entry(k)) <=> Before(at, k) /\ (Last(at) = Slash => ~IsPrefix(at, k))
<1> DEFINE e == Entry(k)
<1>1. e \in Listed /\ e \in Seq(Nat) /\ at \in Seq(Nat) /\ k \in Seq(Nat)
  BY EntryFacts, KeyFacts DEF Listed
<1>2. /\ Len(Prefix) <= Len(e) /\ Len(e) <= Len(k) /\ \A i \in 1 .. Len(e) : e[i] = k[i]
      /\ e # k => Len(Prefix) < Len(e) /\ e[Len(e)] = Slash
  BY EntryShape
<1> HIDE DEF e
<1>3. Len(e) \in Nat /\ Len(at) \in Nat /\ Len(k) \in Nat /\ Len(Prefix) \in Nat
  BY <1>1, KeyFacts
<1>4. IsPrefix(e, k)
  BY <1>1, <1>2, PrefixMeans
<1>5. ASSUME Before(at, e) PROVE Before(at, k) /\ (Last(at) = Slash => ~IsPrefix(at, k))
  <2>1. Before(at, k)
    BY <1>1, <1>4, <1>5, BeforeExtends
  <2>2. ASSUME Last(at) = Slash, IsPrefix(at, k) PROVE FALSE
    <3>1. e = at
      BY <2>2, RolledUp DEF e
    <3> QED
      BY <1>1, <1>5, <3>1, BeforeIrreflexive
  <2> QED
    BY <2>1, <2>2
<1>6. ASSUME Before(at, k), Last(at) = Slash => ~IsPrefix(at, k) PROVE Before(at, e)
  <2>1. PICK i \in 1 .. Len(k) : /\ \A j \in 1 .. i - 1 : j <= Len(at) /\ at[j] = k[j]
                                 /\ i > Len(at) \/ at[i] < k[i]
    BY <1>6 DEF Before
  <2>2. CASE i <= Len(e)
    <3>1. i \in 1 .. Len(e) /\ \A j \in 1 .. i - 1 : j \in 1 .. Len(e)
      BY <1>3, <2>2
    <3>2. e[i] = k[i] /\ \A j \in 1 .. i - 1 : j <= Len(at) /\ at[j] = e[j]
      BY <1>2, <2>1, <3>1
    <3> QED
      BY <2>1, <3>1, <3>2 DEF Before
  <2>3. CASE i > Len(e)
    <3> SUFFICES FALSE
      OBVIOUS
    <3> DEFINE m == Len(e)
    <3>1. e # k /\ Len(Prefix) < m /\ e[m] = Slash /\ m \in Nat
      BY <1>2, <1>3, <2>3
    <3> HIDE DEF m
    <3>2. \A j \in 1 .. m : j \in 1 .. i - 1
      BY <1>3, <2>3 DEF m
    <3>3. m \in 1 .. m
      BY <3>1, <1>3
    <3>4. m <= Len(at) /\ \A j \in 1 .. m : at[j] = k[j] /\ k[j] = e[j]
      BY <1>2, <2>1, <3>2, <3>3 DEF m
    <3>5. at[m] = Slash
      BY <3>1, <3>3, <3>4
    <3>6. Len(at) = m
      <4>1. m \notin Len(Prefix) + 1 .. Len(at) - 1
        BY <3>5, EntryFacts
      <4> QED
        BY <4>1, <1>3, <3>1, <3>4
    <3>7. Last(at) = Slash
      BY <3>5, <3>6 DEF Last
    <3>8. IsPrefix(at, k)
      BY <1>1, <1>2, <3>4, <3>6, PrefixMeans DEF m
    <3> QED
      BY <1>6, <3>7, <3>8
  <2> QED
    BY <1>3, <2>2, <2>3
<1> QED
  BY <1>5, <1>6 DEF e

(***************************************************************************)
(* The marker of a link, and what the gateway makes of it.                 *)
(***************************************************************************)
LEMMA AfterPrefixFacts ==
    ASSUME NEW s \in Seq(Nat), IsPrefix(Prefix, s)
    PROVE  /\ AfterPrefix(s) \in Seq(Nat) /\ Prefix \o AfterPrefix(s) = s
           /\ AfterPrefix(s) = << >> <=> s = Prefix
<1> DEFINE found == {i \in 0 .. Len(s) - Len(Prefix) : SubSeq(s, i + 1, i + Len(Prefix)) = Prefix}
           n == Len(Prefix)
           rest == SubSeq(s, n + 1, Len(s))
           first == CHOOSE i \in found : \A j \in found : i <= j
<1>1. Prefix \in Seq(Nat) /\ n \in Nat \ {0} /\ Len(s) \in Nat /\ n <= Len(s)
      /\ \A i \in 1 .. n : Prefix[i] = s[i]
  BY KeysAssumption, PrefixMeans
<1>2. SubSeq(s, 0 + 1, 0 + n) = Prefix
  <2>1. SubSeq(Prefix, 1, n) = SubSeq(s, 1, n) /\ SubSeq(Prefix, 1, n) = Prefix
    BY <1>1, SubSeqFull DEF IsPrefix
  <2>2. 0 + 1 = 1 /\ 0 + n = n
    BY <1>1
  <2> QED
    BY <2>1, <2>2
<1>3. 0 \in found /\ found \subseteq Nat
  BY <1>1, <1>2
<1>4. first = 0
  <2> HIDE DEF found
  <2>1. \A i \in found : (\A j \in found : i <= j) => i = 0
    BY <1>3
  <2>2. \A j \in found : 0 <= j
    BY <1>3
  <2> QED
    BY <1>3, <2>1, <2>2
<1>5. AfterPrefix(s) = rest
  <2>1. AfterPrefix(s) = IF found = {} THEN << >> ELSE SubSeq(s, first + Len(Prefix) + 1, Len(s))
    BY DEF AfterPrefix
  <2> HIDE DEF first, found
  <2>2. first + Len(Prefix) + 1 = n + 1 /\ found # {}
    BY <1>1, <1>3, <1>4
  <2> QED
    BY <2>1, <2>2
<1>6. /\ rest \in Seq(Nat) /\ Len(rest) = Len(s) - n
      /\ \A i \in 1 .. Len(s) - n : rest[i] = s[n + i]
  BY <1>1
<1> HIDE DEF n, rest
<1>7. Prefix \o rest = s
  <2> DEFINE p == Prefix \o rest
  <2>1. /\ p \in Seq(Nat) /\ Len(p) = n + Len(rest)
        /\ \A i \in 1 .. n + Len(rest) : p[i] = IF i <= n THEN Prefix[i] ELSE rest[i - n]
    BY SMTT(30), <1>1, <1>6, ConcatProperties DEF n
  <2> HIDE DEF p
  <2>2. Len(p) = Len(s)
    BY <1>1, <1>6, <2>1
  <2>3. ASSUME NEW i \in 1 .. Len(p) PROVE p[i] = s[i]
    <3>1. i \in 1 .. n + Len(rest) /\ i \in Nat
      BY <2>1, <1>1
    <3>2. CASE i <= n
      <4>1. i \in 1 .. n
        BY <1>1, <3>1, <3>2
      <4>2. p[i] = Prefix[i]
        BY <2>1, <3>1, <3>2
      <4> QED
        BY <1>1, <4>1, <4>2
    <3>3. CASE i > n
      <4>1. i - n \in 1 .. Len(s) - n /\ n + (i - n) = i
        BY <1>1, <1>6, <3>1, <3>3
      <4>2. p[i] = rest[i - n]
        BY <2>1, <3>1, <3>3, <1>1
      <4> QED
        BY <1>6, <4>1, <4>2
    <3> QED
      BY <1>1, <3>1, <3>2, <3>3
  <2>4. p = s
    BY <2>1, <2>2, <2>3, SeqEqual
  <2> QED
    BY <2>4 DEF p
<1>8. rest = << >> <=> s = Prefix
  <2>1. ASSUME rest = << >> PROVE s = Prefix
    BY <1>7, <2>1, <1>1
  <2>2. ASSUME s = Prefix PROVE rest = << >>
    <3>1. Len(rest) = 0
      BY <1>1, <1>6, <2>2 DEF n
    <3> QED
      BY <1>6, <3>1
  <2> QED
    BY <2>1, <2>2
<1> QED
  BY <1>5, <1>6, <1>7, <1>8

----------------------------------------------------------------------------
(***************************************************************************)
(* The inductive invariant.  A walk goes through the entries in order: its *)
(* marker is an entry S3 has issued, what was shown does not come after    *)
(* it, and what has lasted is shown or still to come.                      *)
(***************************************************************************)
Walking == walk \in {"asking", "reading"}

From == Prefix \o marker

MarkerIsAnEntry ==
    marker # << >> => /\ marker \in Seq(Nat)
                      /\ From \in Listed /\ From # Prefix /\ From \in issued

ShownUpToMarker ==
    Walking => \A e \in shown : marker # << >> /\ (e = From \/ Before(e, From))

LastingIsThere ==
    Walking => lasting \subseteq {Entry(k) : k \in bucket} \ {Prefix}

RestIsToCome ==
    Walking => \A e \in lasting : e \in shown \/ marker = << >> \/ Before(From, e)

IInv ==
    /\ TypeOK /\ MarkerIsAnEntry /\ ShownUpToMarker /\ LastingIsThere /\ RestIsToCome
    /\ ShownOnce /\ MarkersAreIssued /\ NothingSkipped

\* There are finitely many entries.
LEMMA ListedFinite == IsFiniteSet(Listed) /\ Listed \in SUBSET Seq(Nat)
<1> DEFINE f == [k \in Keys |-> Entry(k)]
<1>1. f \in Surjection(Keys, Listed)
  BY DEF Surjection, Listed
<1>2. IsFiniteSet(Listed)
  BY <1>1, FS_Surjection, KeysAssumption
<1>3. Listed \subseteq Seq(Nat)
  BY EntryFacts
<1> QED
  BY <1>2, <1>3

\* What the gateway sends for a marker.
LEMMA FromFacts ==
    ASSUME MarkerIsAnEntry
    PROVE  /\ marker # << >> => RequestMarker = From /\ RequestMarker # << >>
           /\ marker = << >> => RequestMarker = << >>
<1>1. ASSUME marker # << >> PROVE From # << >>
  BY <1>1, KeysAssumption DEF MarkerIsAnEntry, From
<1> QED
  BY <1>1 DEF RequestMarker, From

\* What S3 answers from: the entries that come after the marker.
LEMMA AnswerFacts ==
    ASSUME TypeOK, MarkerIsAnEntry
    PROVE  /\ EntriesAfter(bucket, RequestMarker)
                  = {e \in {Entry(k) : k \in bucket} : marker # << >> => Before(From, e)}
           /\ EntriesAfter(bucket, RequestMarker) \in SUBSET Listed
           /\ EntriesAfter(bucket, RequestMarker) \in SUBSET Seq(Nat)
           /\ IsFiniteSet(EntriesAfter(bucket, RequestMarker))
<1> DEFINE all == EntriesAfter(bucket, RequestMarker)
<1>1. bucket \subseteq Keys
  BY DEF TypeOK
<1>2. all = {e \in {Entry(k) : k \in bucket} : marker # << >> => Before(From, e)}
  <2>1. CASE marker = << >>
    BY <2>1, FromFacts DEF EntriesAfter
  <2>2. CASE marker # << >>
    <3>1. \A k \in bucket : Before(From, Entry(k))
              <=> Before(From, k) /\ (Last(From) = Slash => ~IsPrefix(From, k))
      BY <1>1, <2>2, ContinuesAfter DEF MarkerIsAnEntry
    <3>2. RequestMarker = From /\ From # << >>
      BY <2>2, FromFacts
    <3>3. all = {Entry(k) : k \in {k \in bucket : /\ Before(From, k)
                                                  /\ Last(From) = Slash => ~IsPrefix(From, k)}}
      BY <3>2 DEF EntriesAfter
    <3>4. all = {Entry(k) : k \in {k \in bucket : Before(From, Entry(k))}}
      BY <3>1, <3>3
    <3> QED
      BY <2>2, <3>4
  <2> QED
    BY <2>1, <2>2
<1>3. all \subseteq Listed
  BY <1>1, <1>2 DEF Listed
<1> QED
  BY <1>2, <1>3, ListedFinite, FS_Subset

\* The number of entries asked for is one only if one is set.
LEMMA AskedFor ==
    ASSUME TypeOK
    PROVE  LET maxKeys == IF ListMaxKeys = << >> THEN PageCap ELSE ListMaxKeys[1]
               n       == IF maxKeys < PageCap THEN maxKeys ELSE PageCap
           IN  /\ maxKeys \in Nat /\ ~(maxKeys > MaxListPageSize)
               /\ n \in Nat \ {0} /\ (n > 1 \/ pageSize = 1)
<1>1. pageSize \in Nat /\ PageCap \in Nat \ {0, 1} /\ MaxListPageSize \in Nat /\ PageCap <= MaxListPageSize
  BY SizeAssumption DEF TypeOK
<1>2. CASE pageSize \in 1 .. MaxListPageSize
  <2>1. ListMaxKeys # << >> /\ ListMaxKeys[1] = pageSize
    BY <1>2 DEF ListMaxKeys
  <2> QED
    BY <1>1, <1>2, <2>1
<1>3. CASE pageSize \notin 1 .. MaxListPageSize
  <2>1. ListMaxKeys = << >>
    BY <1>3 DEF ListMaxKeys
  <2> QED
    BY <1>1, <2>1
<1> QED
  BY <1>2, <1>3

(***************************************************************************)
(* One page.                                                               *)
(***************************************************************************)
Answer == EntriesAfter(bucket, RequestMarker)

PageOf(page) ==
    /\ page \subseteq Answer /\ IsFiniteSet(page) /\ (Answer # {} => page # {})
    /\ \A f \in page, e \in Answer \ page : Before(f, e)
    /\ pageSize # 1 /\ page # Answer => \A x : page # {x}

NextMarker(page) ==
    IF page = Answer THEN << >> ELSE IF backend = "aws" THEN LastOf(page) ELSE Token

LinkOf(page) == NextLink(page # Answer, NextMarker(page))

\* ListPage, with the page of the answer named.
LEMMA ListPageMeans ==
    ASSUME IInv, ListPage
    PROVE  \E page : 
              /\ PageOf(page) /\ walk = "asking" /\ sent' = RequestMarker
              /\ shown' = shown \union (page \ {Prefix})
              /\ repeated' = repeated \union (shown \intersect (page \ {Prefix}))
              /\ issued' = IF page # Answer THEN issued \union {NextMarker(page)} ELSE issued
              /\ walk' = IF LinkOf(page) = << >> THEN "ended" ELSE "reading"
              /\ marker' = IF LinkOf(page) = << >> THEN marker ELSE LinkOf(page)[1]
              /\ UNCHANGED <<pageSize, backend, bucket, changes, lasting>>
<1> DEFINE maxKeys == IF ListMaxKeys = << >> THEN PageCap ELSE ListMaxKeys[1]
           n       == IF maxKeys < PageCap THEN maxKeys ELSE PageCap
           page    == FirstOf(Answer, n)
<1>1. ~(maxKeys > MaxListPageSize) /\ n \in Nat \ {0} /\ (n > 1 \/ pageSize = 1)
  BY AskedFor DEF IInv
<1>2. Answer \in SUBSET Seq(Nat) /\ IsFiniteSet(Answer)
  BY AnswerFacts DEF IInv, Answer
<1>3. PageOf(page)
  <2> HIDE DEF n
  <2>1. /\ page \subseteq Answer /\ IsFiniteSet(page)
        /\ \A f \in page, e \in Answer \ page : Before(f, e)
        /\ Answer # {} => page # {}
        /\ n > 1 /\ page # Answer => \A x : page # {x}
    BY <1>1, <1>2, FirstOfFacts
  <2> QED
    BY <1>1, <2>1 DEF PageOf
<1>4. /\ walk = "asking" /\ sent' = RequestMarker
      /\ UNCHANGED <<pageSize, backend, bucket, changes, lasting>>
  BY DEF ListPage
<1>5. /\ shown' = shown \union (page \ {Prefix})
      /\ repeated' = repeated \union (shown \intersect (page \ {Prefix}))
      /\ issued' = IF page # Answer THEN issued \union {NextMarker(page)} ELSE issued
      /\ walk' = IF LinkOf(page) = << >> THEN "ended" ELSE "reading"
      /\ marker' = IF LinkOf(page) = << >>
                   THEN marker ELSE LinkOf(page)[1]
  BY <1>1 DEF ListPage, Answer, Shown, NextMarker, LinkOf
<1> HIDE DEF page
<1> QED
  BY <1>3, <1>4, <1>5

\* Nothing in a listing comes before the folder object of the directory.
LEMMA FolderObjectFirst ==
    ASSUME NEW e \in Listed
    PROVE  ~Before(e, Prefix)
<1>1. e \in Seq(Nat) /\ IsPrefix(Prefix, e) /\ Prefix \in Seq(Nat)
  BY EntryFacts, KeysAssumption
<1>2. CASE e = Prefix
  BY <1>1, <1>2, BeforeIrreflexive
<1>3. CASE e # Prefix
  <2>1. Before(Prefix, e)
    BY <1>1, <1>3, PrefixBefore
  <2> QED
    BY <1>1, <2>1, BeforeTransitive, BeforeIrreflexive
<1> QED
  BY <1>2, <1>3

\* A link holds the last entry of its page, without the prefix.
LEMMA LinkMeans ==
    ASSUME IInv, NEW page, PageOf(page), LinkOf(page) # << >>
    PROVE  LET link == LinkOf(page)[1]
               next == NextMarker(page)
           IN  /\ page # Answer /\ link \in Seq(Nat) /\ link # << >> /\ Prefix \o link = next
               /\ next \in page /\ next # Prefix
               /\ \A f \in page : f = next \/ Before(f, next)
<1> DEFINE next == NextMarker(page)
<1>1. page # Answer /\ IsPrefix(Prefix, next) /\ AfterPrefix(next) # << >>
  BY DEF NextLink, LinkOf
<1>2. LinkOf(page)[1] = AfterPrefix(next)
  BY <1>1 DEF NextLink, LinkOf
<1>3. backend = "aws" /\ next = LastOf(page)
  BY <1>1, KeysAssumption DEF NextMarker
<1>4. Answer \in SUBSET Seq(Nat) /\ page \in SUBSET Seq(Nat) /\ IsFiniteSet(page) /\ page # {}
  BY <1>1, AnswerFacts DEF PageOf, IInv, Answer
<1>5. next \in page /\ \A f \in page : f = next \/ Before(f, next)
  BY <1>3, <1>4, LastFacts
<1> HIDE DEF next
<1>6. next \in Seq(Nat)
  BY <1>4, <1>5
<1>7. AfterPrefix(next) \in Seq(Nat) /\ Prefix \o AfterPrefix(next) = next /\ next # Prefix
  BY <1>1, <1>6, AfterPrefixFacts
<1> QED
  BY <1>1, <1>2, <1>5, <1>7 DEF next

\* Without a link the walk has come to the end, or its single-entry page
\* was the folder object.
LEMMA NoLinkMeans ==
    ASSUME IInv, walk = "asking", NEW page, PageOf(page), backend = "aws",
           page # Answer, LinkOf(page) = << >>
    PROVE  pageSize = 1 /\ shown = {} /\ page = {Prefix}
<1> DEFINE next == LastOf(page)
<1>1. next = NextMarker(page)
  BY DEF NextMarker
<1>2. /\ Answer \in SUBSET Seq(Nat) /\ Answer \in SUBSET Listed
      /\ page \in SUBSET Seq(Nat) /\ page \in SUBSET Listed /\ IsFiniteSet(page) /\ page # {}
  BY AnswerFacts DEF PageOf, IInv, Answer
<1>3. next \in page /\ \A f \in page : f = next \/ Before(f, next)
  BY <1>2, LastFacts
<1> HIDE DEF next
<1>4. next \in Seq(Nat) /\ next \in Listed /\ IsPrefix(Prefix, next)
  BY <1>2, <1>3, EntryFacts
<1>5. AfterPrefix(next) = << >>
  <2>1. ASSUME AfterPrefix(next) # << >> PROVE FALSE
    <3>1. LinkOf(page) = <<AfterPrefix(next)>>
      BY <1>1, <1>4, <2>1 DEF NextLink, LinkOf
    <3> QED
      BY <1>1, <3>1
  <2> QED
    BY <2>1
<1>6. next = Prefix
  BY <1>4, <1>5, AfterPrefixFacts
<1>7. page = {Prefix}
  BY <1>2, <1>3, <1>6, FolderObjectFirst
<1>8. pageSize = 1
  BY <1>7 DEF PageOf
<1>9. ASSUME NEW s \in shown PROVE FALSE
  <2>1. marker # << >> /\ From \in Listed
    BY <1>9 DEF IInv, ShownUpToMarker, Walking, MarkerIsAnEntry
  <2>2. Prefix \in Answer
    BY <1>7 DEF PageOf
  <2>3. Before(From, Prefix)
    BY <2>1, <2>2, AnswerFacts DEF IInv, Answer
  <2> QED
    BY <2>1, <2>3, FolderObjectFirst
<1> QED
  BY <1>7, <1>8, <1>9

\* A page of the listing.  It shows what comes after the marker; so nothing
\* again, and what it leaves out comes after the new marker.
LEMMA ListPageStep ==
    ASSUME IInv, ListPage
    PROVE  IInv'
<1>1. PICK page :
         /\ PageOf(page) /\ walk = "asking" /\ sent' = RequestMarker
         /\ shown' = shown \union (page \ {Prefix})
         /\ repeated' = repeated \union (shown \intersect (page \ {Prefix}))
         /\ issued' = IF page # Answer THEN issued \union {NextMarker(page)} ELSE issued
         /\ walk' = IF LinkOf(page) = << >> THEN "ended" ELSE "reading"
         /\ marker' = IF LinkOf(page) = << >> THEN marker ELSE LinkOf(page)[1]
         /\ UNCHANGED <<pageSize, backend, bucket, changes, lasting>>
  BY ListPageMeans
<1> DEFINE there == {Entry(k) : k \in bucket}
           next  == NextMarker(page)
           link  == LinkOf(page)
<1>2. Answer = {e \in there : marker # << >> => Before(From, e)}
      /\ Answer \in SUBSET Listed /\ Answer \in SUBSET Seq(Nat)
  BY AnswerFacts DEF IInv, Answer
<1>3. page \subseteq Answer /\ \A f \in page, e \in Answer \ page : Before(f, e)
  BY <1>1 DEF PageOf
<1>4. /\ walk' = IF link = << >> THEN "ended" ELSE "reading"
      /\ marker' = IF link = << >> THEN marker ELSE link[1]
  BY <1>1
<1> HIDE DEF link, next, there
<1>5. CASE link = << >>
  <2>1. walk' = "ended" /\ marker' = marker /\ From' = From /\ ~Walking'
    BY <1>4, <1>5 DEF From, Walking
  <2> QED
    <3>a. issued \subseteq issued'
      BY <1>1
    <3>1. MarkerIsAnEntry'
      BY <2>1, <3>a DEF MarkerIsAnEntry, IInv, Listed
    <3>2. ShownUpToMarker' /\ LastingIsThere' /\ RestIsToCome'
      BY <2>1 DEF ShownUpToMarker, LastingIsThere, RestIsToCome
    <3>3. NothingSkipped'
      <4> SUFFICES ASSUME backend = "aws", pageSize = 1 => shown' # {}, NEW e \in lasting
                   PROVE  e \in shown'
        BY <1>1 DEF NothingSkipped
      <4>1. page = Answer
        BY <1>1, <1>5, NoLinkMeans DEF link
      <4>2. e \in shown \/ marker = << >> \/ Before(From, e)
        BY <1>1 DEF IInv, RestIsToCome, Walking
      <4>3. e \in there /\ e # Prefix
        BY <1>1 DEF IInv, LastingIsThere, Walking, there
      <4> QED
        BY <1>1, <1>2, <4>1, <4>2, <4>3
    <3>4. ShownOnce' /\ TypeOK' /\ MarkersAreIssued'
      <4>1. shown \intersect page = {}
        <5> SUFFICES ASSUME NEW s \in shown, s \in page PROVE FALSE
          OBVIOUS
        <5>1. marker # << >> /\ (s = From \/ Before(s, From)) /\ From \in Seq(Nat) /\ s \in Seq(Nat)
          BY <1>1, <1>2, <1>3, EntryFacts DEF IInv, ShownUpToMarker, Walking, MarkerIsAnEntry
        <5>2. Before(From, s)
          BY <1>2, <1>3, <5>1
        <5> QED
          BY <5>1, <5>2, BeforeTransitive, BeforeIrreflexive
      <4>2. ShownOnce'
        BY <1>1, <4>1 DEF ShownOnce, IInv
      <4>3. TypeOK'
        BY <1>1, <1>2, <1>3, <2>1, <4>2 DEF TypeOK, IInv, Listed, ShownOnce
      <4>4. MarkersAreIssued'
        BY <1>1, <3>a, FromFacts DEF MarkersAreIssued, MarkerIsAnEntry, IInv
      <4> QED
        BY <4>2, <4>3, <4>4
    <3> QED
      BY <3>1, <3>2, <3>3, <3>4 DEF IInv
<1>6. CASE link # << >>
  <2>1. /\ page # Answer /\ link[1] \in Seq(Nat) /\ link[1] # << >> /\ Prefix \o link[1] = next
        /\ next \in page /\ next # Prefix
        /\ \A f \in page : f = next \/ Before(f, next)
    BY <1>1, <1>6, LinkMeans DEF link, next
  <2>2. walk' = "reading" /\ marker' = link[1]
    BY <1>4, <1>6
  <2>2a. From' = next
    <3>1. From' = Prefix \o link[1]
      BY <2>2 DEF From
    <3> QED
      BY <2>1, <3>1
  <2>3. issued' = issued \union {next}
    BY <1>1, <2>1 DEF next
  <2>4. MarkerIsAnEntry'
    BY <1>2, <1>3, <2>1, <2>2, <2>2a, <2>3 DEF MarkerIsAnEntry, Listed
  <2>5. ShownUpToMarker'
    <3> SUFFICES ASSUME NEW s \in shown' PROVE s = next \/ Before(s, next)
      BY <2>1, <2>2, <2>2a DEF ShownUpToMarker
    <3>1. CASE s \in page
      BY <2>1, <3>1
    <3>2. CASE s \in shown
      <4>1. marker # << >> /\ (s = From \/ Before(s, From)) /\ From \in Seq(Nat)
        BY <1>1, <3>2, EntryFacts DEF IInv, ShownUpToMarker, Walking, MarkerIsAnEntry
      <4>2. s \in Seq(Nat)
        BY <3>2, ListedFinite DEF IInv, TypeOK, Listed
      <4>3. Before(From, next) /\ next \in Seq(Nat)
        BY <1>2, <1>3, <2>1, <4>1
      <4> QED
        BY <4>1, <4>2, <4>3, BeforeTransitive
    <3> QED
      BY <1>1, <3>1, <3>2
  <2>6. LastingIsThere'
    <3>1. lasting \subseteq there \ {Prefix}
      BY <1>1 DEF IInv, LastingIsThere, Walking, there
    <3> QED
      BY <1>1, <3>1 DEF LastingIsThere, there
  <2>7. RestIsToCome'
    <3> SUFFICES ASSUME NEW e \in lasting PROVE e \in shown' \/ Before(next, e)
      BY <1>1, <2>2a DEF RestIsToCome
    <3>1. e \in shown \/ marker = << >> \/ Before(From, e)
      BY <1>1 DEF IInv, RestIsToCome, Walking
    <3>2. e \in there /\ e # Prefix
      BY <1>1 DEF IInv, LastingIsThere, Walking, there
    <3>3. e \in shown \/ e \in Answer
      BY <1>2, <3>1, <3>2
    <3> QED
      BY <1>1, <1>3, <2>1, <3>2, <3>3
  <2>8. ShownOnce'
    <3>1. shown \intersect page = {}
      <4> SUFFICES ASSUME NEW s \in shown, s \in page PROVE FALSE
        OBVIOUS
      <4>1. marker # << >> /\ (s = From \/ Before(s, From)) /\ From \in Seq(Nat) /\ s \in Seq(Nat)
        BY <1>1, <1>2, <1>3, EntryFacts DEF IInv, ShownUpToMarker, Walking, MarkerIsAnEntry
      <4>2. Before(From, s)
        BY <1>2, <1>3, <4>1
      <4> QED
        BY <4>1, <4>2, BeforeTransitive, BeforeIrreflexive
    <3> QED
      BY <1>1, <3>1 DEF ShownOnce, IInv
  <2>9. TypeOK'
    BY <1>1, <1>2, <1>3, <2>2, <2>8 DEF TypeOK, IInv, Listed, ShownOnce
  <2>10. MarkersAreIssued'
    BY <1>1, <2>3, FromFacts DEF MarkersAreIssued, MarkerIsAnEntry, IInv
  <2>11. NothingSkipped'
    BY <2>2 DEF NothingSkipped
  <2> QED
    BY <2>4, <2>5, <2>6, <2>7, <2>8, <2>9, <2>10, <2>11 DEF IInv
<1> QED
  BY <1>5, <1>6

----------------------------------------------------------------------------
\* Every entry is of the directory, whatever the bucket holds.
LEMMA OpenStep ==
    ASSUME IInv, Open PROVE IInv'
<1>1. /\ walk' = "asking" /\ marker' = << >> /\ sent' = << >> /\ issued' = {} /\ shown' = {}
      /\ repeated' = {} /\ lasting' = {Entry(k) : k \in bucket} \ {Prefix} /\ changes' = 0
      /\ UNCHANGED <<pageSize, backend, bucket>>
  BY DEF Open
<1>2. TypeOK'
  BY <1>1, SizeAssumption DEF TypeOK, IInv
<1>3. MarkerIsAnEntry' /\ ShownUpToMarker' /\ RestIsToCome' /\ MarkersAreIssued' /\ ShownOnce'
  BY <1>1 DEF MarkerIsAnEntry, ShownUpToMarker, RestIsToCome, MarkersAreIssued, ShownOnce
<1>4. LastingIsThere' /\ NothingSkipped'
  BY <1>1 DEF LastingIsThere, NothingSkipped
<1> QED
  BY <1>2, <1>3, <1>4 DEF IInv

\* The client follows the link.
LEMMA FollowLinkStep ==
    ASSUME IInv, FollowLink PROVE IInv'
<1>1. /\ walk = "reading" /\ walk' = "asking" /\ Walking /\ Walking' /\ From' = From
      /\ UNCHANGED <<pageSize, backend, bucket, changes, marker, sent, issued, shown, repeated, lasting>>
  BY DEF FollowLink, Walking, From
<1>2. TypeOK' /\ MarkersAreIssued' /\ ShownOnce' /\ NothingSkipped'
  BY <1>1 DEF TypeOK, MarkersAreIssued, ShownOnce, NothingSkipped, IInv
<1>3. MarkerIsAnEntry' /\ ShownUpToMarker' /\ RestIsToCome' /\ LastingIsThere'
  BY <1>1 DEF MarkerIsAnEntry, ShownUpToMarker, RestIsToCome, LastingIsThere, IInv, Listed
<1> QED
  BY <1>2, <1>3 DEF IInv

\* The bucket changes: what has lasted until now may go, never come.
LEMMA ChangeStep ==
    ASSUME IInv, Change PROVE IInv'
<1>1. /\ walk \in {"asking", "reading"} /\ changes < MaxChanges /\ changes' = changes + 1
      /\ lasting' = lasting \intersect {Entry(k) : k \in bucket'} /\ From' = From
      /\ UNCHANGED <<pageSize, backend, walk, marker, sent, issued, shown, repeated>>
  BY DEF Change, From
<1>2. bucket' \subseteq Keys
  BY DEF Change, IInv, TypeOK
<1>3. TypeOK'
  BY <1>1, <1>2, SizeAssumption DEF TypeOK, IInv
<1>4. MarkersAreIssued' /\ ShownOnce' /\ NothingSkipped'
  BY <1>1 DEF MarkersAreIssued, ShownOnce, NothingSkipped, IInv
<1>5. MarkerIsAnEntry' /\ ShownUpToMarker'
  BY <1>1 DEF MarkerIsAnEntry, ShownUpToMarker, IInv, Listed, Walking
<1>6. RestIsToCome' /\ LastingIsThere'
  BY <1>1 DEF RestIsToCome, LastingIsThere, IInv, Walking
<1> QED
  BY <1>3, <1>4, <1>5, <1>6 DEF IInv

\* The walk goes through the entries in order: IInv holds for every bucket
\* and every change of it between two pages (s3gateway.js, listing.xsl).
THEOREM Invariance == Spec => []IInv
<1>1. Init => IInv
  BY SizeAssumption
     DEF Init, IInv, TypeOK, MarkerIsAnEntry, ShownUpToMarker, LastingIsThere, RestIsToCome,
         ShownOnce, MarkersAreIssued, NothingSkipped, Walking
<1>2. IInv /\ [Next]_vars => IInv'
  <2> SUFFICES ASSUME IInv, [Next]_vars PROVE IInv'
    OBVIOUS
  <2>1. CASE UNCHANGED vars
    BY <2>1 DEF vars, IInv, TypeOK, MarkerIsAnEntry, ShownUpToMarker, LastingIsThere, RestIsToCome,
                ShownOnce, MarkersAreIssued, NothingSkipped, Walking, From, Listed
  <2> QED
    BY <2>1, OpenStep, ListPageStep, FollowLinkStep, ChangeStep DEF Next
<1> QED
  BY <1>1, <1>2, PTL DEF Spec

\* Every variable keeps its type.
THEOREM TypeCorrect == Spec => []TypeOK
<1>1. IInv => TypeOK
  BY DEF IInv
<1> QED
  BY <1>1, Invariance, PTL

\* No entry is shown on two pages of one walk (the marker of _s3DirQueryParams).
THEOREM EntriesShownOnce == Spec => []ShownOnce
<1>1. IInv => ShownOnce
  BY DEF IInv
<1> QED
  BY <1>1, Invariance, PTL

\* A walk that has come to its end has shown every entry that was there all
\* the time, unless pages of one entry begin with the folder object.
THEOREM LastingEntriesShown == Spec => []NothingSkipped
<1>1. IInv => NothingSkipped
  BY DEF IInv
<1> QED
  BY <1>1, Invariance, PTL

\* Every marker sent to S3 was issued by S3 (NextMarker in listing.xsl).
THEOREM NoMarkerInvented == Spec => []MarkersAreIssued
<1>1. IInv => MarkersAreIssued
  BY DEF IInv
<1> QED
  BY <1>1, Invariance, PTL

----------------------------------------------------------------------------
(***************************************************************************)
(* ListResponseFilter.  The inductive invariant counts: as long as the     *)
(* filter has seen no entry there are fewer entries in what it was handed  *)
(* than there were chunks, for each can only hide in a cut of its own.     *)
(***************************************************************************)
Tokens == {"<C", "ontents", "ommonPrefixes", "text"}

(* The entries that lie within the first h tokens of the response.         *)
TagsWithin(h) == {i \in 1 .. Len(response) : i < h /\ TagAt(response, i)}

Spoiled == last /\ Enabled /\ indexIsEmpty

FilterTypeInv ==
    /\ response \in Responses /\ handed \in 0 .. Len(response)
    /\ indexIsEmpty \in BOOLEAN /\ last \in BOOLEAN
    /\ passed \in Seq(Tokens \cup {"junk"}) /\ chunks \in Nat
    /\ chunks <= handed + IF last THEN 1 ELSE 0
    /\ last => handed = Len(response) /\ chunks > 0

PassedOn ==
    IF Spoiled THEN Len(passed) <= handed + 1 /\ \E i \in DOMAIN passed : passed[i] = "junk"
               ELSE passed = SubSeq(response, 1, handed)

EmptyStaysEmpty == ~Holds(response) => indexIsEmpty

HiddenInCuts ==
    Enabled /\ indexIsEmpty =>
        IF chunks = 0 THEN handed = 0 ELSE Cardinality(TagsWithin(handed)) < chunks

FilterInv == FilterTypeInv /\ PassedOn /\ EmptyStaysEmpty /\ HiddenInCuts

LEMMA ResponseType == ASSUME NEW p \in Responses PROVE p \in Seq(Tokens) /\ Len(p) \in Nat
BY ResponsesAssumption DEF Tokens

LEMMA NothingHanded ==
    ASSUME NEW p \in Responses
    PROVE  SubSeq(p, 1, 0) = << >> /\ << >> \in Seq(Tokens \cup {"junk"})
BY SubSeqEmpty, EmptySeq

(* At the start of a response nothing is spoiled, hidden or handed over.   *)
Fresh == /\ response \in Responses
         /\ handed = 0 /\ indexIsEmpty = TRUE /\ passed = << >> /\ last = FALSE
         /\ chunks = 0

LEMMA FreshInv == Fresh => FilterInv
<1> SUFFICES ASSUME Fresh PROVE FilterInv
  OBVIOUS
<1>1. FilterTypeInv
  <2>1. Len(response) \in Nat
    BY ResponseType DEF Fresh
  <2>2. passed \in Seq(Tokens \cup {"junk"})
    BY NothingHanded DEF Fresh
  <2>3. handed \in 0 .. Len(response) /\ chunks \in Nat
    BY <2>1 DEF Fresh
  <2>4. ~last /\ last \in BOOLEAN /\ indexIsEmpty \in BOOLEAN
    BY DEF Fresh
  <2>5. chunks <= handed + IF last THEN 1 ELSE 0
    BY <2>4 DEF Fresh
  <2>6. response \in Responses
    BY DEF Fresh
  <2> QED
    BY <2>2, <2>3, <2>4, <2>5, <2>6 DEF FilterTypeInv
<1>2. PassedOn
  BY NothingHanded DEF Fresh, PassedOn, Spoiled
<1>3. EmptyStaysEmpty /\ HiddenInCuts
  BY DEF Fresh, EmptyStaysEmpty, HiddenInCuts
<1> QED
  BY <1>1, <1>2, <1>3 DEF FilterInv

----------------------------------------------------------------------------
(***************************************************************************)
(* A chunk is a piece of the response: it holds the entries that lie in    *)
(* it whole.                                                               *)
(***************************************************************************)
LEMMA ChunkFacts ==
    ASSUME FilterTypeInv, NEW n \in Nat, handed + n <= Len(response)
    PROVE  /\ Chunk(n) \in Seq(Tokens) /\ Len(Chunk(n)) = n
           /\ \A i \in 1 .. n : Chunk(n)[i] = response[handed + i]
           /\ \A i \in 1 .. n : TagAt(Chunk(n), i) <=> i < n /\ TagAt(response, handed + i)
           /\ SubSeq(response, 1, handed + n) = SubSeq(response, 1, handed) \o Chunk(n)
<1>1. response \in Seq(Tokens) /\ Len(response) \in Nat /\ handed \in 0 .. Len(response)
  BY ResponseType DEF FilterTypeInv
<1>2. \A i \in handed + 1 .. handed + n : response[i] \in Tokens
  BY <1>1
<1>3. /\ Chunk(n) \in Seq(Tokens) /\ Len(Chunk(n)) = n
      /\ \A i \in 1 .. n : Chunk(n)[i] = response[handed + i]
  BY SMTT(30), <1>1, <1>2, SubSeqProperties DEF Chunk
<1>4. \A i \in 1 .. n : TagAt(Chunk(n), i) <=> i < n /\ TagAt(response, handed + i)
  BY <1>1, <1>3 DEF TagAt
<1>5. SubSeq(response, 1, handed + n) = SubSeq(response, 1, handed) \o Chunk(n)
  BY <1>1 DEF Chunk
<1> QED
  BY <1>3, <1>4, <1>5

LEMMA HeldByResponse ==
    ASSUME FilterTypeInv, NEW n \in Nat, handed + n <= Len(response), Holds(Chunk(n))
    PROVE  Holds(response)
<1>1. Len(response) \in Nat /\ handed \in 0 .. Len(response) /\ DOMAIN response = 1 .. Len(response)
  BY ResponseType DEF FilterTypeInv
<1>2. PICK i \in 1 .. n : TagAt(Chunk(n), i)
  BY ChunkFacts DEF Holds
<1>3. TagAt(response, handed + i)
  BY <1>2, ChunkFacts
<1> QED
  BY <1>1, <1>3 DEF Holds

LEMMA TagsFinite == ASSUME FilterTypeInv, NEW h \in Nat PROVE
    IsFiniteSet(TagsWithin(h)) /\ Cardinality(TagsWithin(h)) \in Nat
<1>1. IsFiniteSet(1 .. Len(response))
  BY ResponseType, FS_Interval DEF FilterTypeInv
<1> QED
  BY <1>1, FS_Subset, FS_CardinalityType DEF TagsWithin

(***************************************************************************)
(* A chunk without an entry adds at most the one its first token ends.     *)
(***************************************************************************)
LEMMA OneMoreCut ==
    ASSUME FilterTypeInv, NEW n \in Nat, handed + n <= Len(response), ~Holds(Chunk(n))
    PROVE  /\ Cardinality(TagsWithin(handed + n)) <= Cardinality(TagsWithin(handed)) + 1
           /\ handed = 0 => Cardinality(TagsWithin(handed + n)) = 0
<1>1. Len(response) \in Nat /\ handed \in 0 .. Len(response)
  BY ResponseType DEF FilterTypeInv
<1>2. \A i \in 1 .. n : ~TagAt(Chunk(n), i)
  BY ChunkFacts DEF Holds
<1>3. ASSUME NEW i \in TagsWithin(handed + n), i > handed PROVE FALSE
  <2>1. i - handed \in 1 .. n /\ i - handed < n /\ TagAt(response, handed + (i - handed))
    BY <1>1, <1>3 DEF TagsWithin
  <2> QED
    BY <1>2, <2>1, ChunkFacts
<1>4. TagsWithin(handed + n) \subseteq TagsWithin(handed) \cup {handed}
  BY <1>1, <1>3 DEF TagsWithin
<1> DEFINE before == TagsWithin(handed)
           after  == TagsWithin(handed + n)
<1>5. /\ IsFiniteSet(before) /\ Cardinality(before) \in Nat
      /\ IsFiniteSet(after) /\ Cardinality(after) \in Nat
  <2>1. handed \in Nat /\ handed + n \in Nat
    BY <1>1
  <2> QED
    BY <2>1, TagsFinite
<1>6. handed = 0 => after = {}
  BY <1>1, <1>3 DEF TagsWithin
<1>7. after \subseteq before \cup {handed}
  BY <1>4
<1> HIDE DEF before, after
<1>8. /\ IsFiniteSet(before \cup {handed})
      /\ Cardinality(before \cup {handed}) \in {Cardinality(before), Cardinality(before) + 1}
  BY <1>5, FS_AddElement
<1>9. Cardinality(after) <= Cardinality(before \cup {handed})
  BY <1>7, <1>8, FS_Subset
<1>10. Cardinality(after) <= Cardinality(before) + 1
  BY <1>5, <1>8, <1>9
<1>11. handed = 0 => Cardinality(after) = 0
  BY <1>6, FS_EmptySet
<1> QED
  BY <1>10, <1>11 DEF before, after

LEMMA ReceiveInv ==
    ASSUME FilterInv, NEW n \in 0 .. Len(response), NEW flag \in BOOLEAN, Receive(n, flag)
    PROVE  FilterInv'
<1>1. /\ response \in Seq(Tokens) /\ Len(response) \in Nat /\ handed \in 0 .. Len(response)
      /\ FilterTypeInv /\ n \in Nat /\ handed + n <= Len(response) /\ ~last
  BY ResponseType DEF FilterInv, FilterTypeInv, Receive
<1>2. /\ response' = response /\ handed' = handed + n /\ last' = flag /\ chunks' = chunks + 1
      /\ indexIsEmpty' = (indexIsEmpty /\ ~(Enabled /\ Holds(Chunk(n))))
      /\ passed' = passed \o IF Enabled /\ flag /\ indexIsEmpty' THEN <<"junk">> ELSE Chunk(n)
      /\ n > 0 \/ flag
      /\ flag => handed + n = Len(response)
  BY DEF Receive, Filter
<1>3. Spoiled' <=> Enabled /\ flag /\ indexIsEmpty'
  BY <1>2 DEF Spoiled
<1>4. passed = SubSeq(response, 1, handed) /\ passed \in Seq(Tokens) /\ Len(passed) = handed
  <2>1. passed = SubSeq(response, 1, handed)
    BY <1>1 DEF FilterInv, PassedOn, Spoiled
  <2> QED
    BY <1>1, <2>1
<1>5. FilterTypeInv'
  <2>1. passed' \in Seq(Tokens \cup {"junk"})
    <3>1. Chunk(n) \in Seq(Tokens \cup {"junk"}) /\ passed \in Seq(Tokens \cup {"junk"})
      BY <1>1, <1>4, ChunkFacts, SeqMonotonic
    <3>2. <<"junk">> \in Seq(Tokens \cup {"junk"})
      OBVIOUS
    <3> QED
      BY <1>2, <3>1, <3>2, ConcatProperties
  <2>2. indexIsEmpty' \in BOOLEAN
    BY <1>1, <1>2 DEF FilterTypeInv
  <2>3. chunks' <= handed' + IF last' THEN 1 ELSE 0
    BY <1>1, <1>2 DEF FilterTypeInv
  <2> QED
    BY <1>1, <1>2, <2>1, <2>2, <2>3 DEF FilterTypeInv
<1>6. PassedOn'
  <2>1. CASE Spoiled'
    <3>1. passed' = passed \o <<"junk">>
      BY <1>2, <1>3, <2>1
    <3>2. Len(passed') = handed + 1 /\ passed'[handed + 1] = "junk" /\ handed + 1 \in DOMAIN passed'
      BY <1>1, <1>4, <3>1
    <3>3. Len(passed') <= handed' + 1
      BY <1>1, <1>2, <3>2
    <3> QED
      BY <2>1, <3>2, <3>3 DEF PassedOn
  <2>2. CASE ~Spoiled'
    BY <1>1, <1>2, <1>3, <1>4, <2>2, ChunkFacts DEF PassedOn
  <2> QED
    BY <2>1, <2>2
<1>7. EmptyStaysEmpty'
  BY <1>1, <1>2, HeldByResponse DEF FilterInv, EmptyStaysEmpty, Holds
<1>8. HiddenInCuts'
  <2> DEFINE count == Cardinality(TagsWithin(handed))
             later == Cardinality(TagsWithin(handed + n))
  <2>1. Cardinality(TagsWithin(handed))' = later
    <3>1. Len(response') = Len(response)
      BY <1>2
    <3>2. TagsWithin(handed)' = TagsWithin(handed + n)
      BY <1>1, <1>2, <3>1 DEF TagsWithin, TagAt
    <3> QED
      BY <3>2
  <2>2. count \in Nat /\ later \in Nat
    <3>1. handed \in Nat /\ handed + n \in Nat
      BY <1>1
    <3> QED
      BY <1>1, <3>1, TagsFinite
  <2>3. ASSUME Enabled, indexIsEmpty' PROVE later < chunks + 1
    <3>1. indexIsEmpty /\ ~Holds(Chunk(n))
      BY <1>2, <2>3
    <3>2. later <= count + 1 /\ (handed = 0 => later = 0)
      BY <1>1, <3>1, OneMoreCut
    <3>3. IF chunks = 0 THEN handed = 0 ELSE count < chunks
      BY <2>3, <3>1 DEF FilterInv, HiddenInCuts
    <3>4. chunks \in Nat
      BY <1>1 DEF FilterTypeInv
    <3> HIDE DEF count, later
    <3> QED
      BY <2>2, <3>2, <3>3, <3>4
  <2>4. chunks \in Nat /\ chunks' = chunks + 1 /\ chunks' # 0
    BY <1>1, <1>2 DEF FilterTypeInv
  <2> HIDE DEF count, later
  <2> QED
    BY <2>1, <2>3, <2>4 DEF HiddenInCuts
<1> QED
  BY <1>5, <1>6, <1>7, <1>8 DEF FilterInv

LEMMA FilterInvariance == FilterSpec => []FilterInv
<1>1. FilterInit => FilterInv
  BY FreshInv DEF FilterInit, Fresh
<1>2. FilterInv /\ [FilterNext]_filterVars => FilterInv'
  <2> SUFFICES ASSUME FilterInv, [FilterNext]_filterVars PROVE FilterInv'
    OBVIOUS
  <2>1. CASE UNCHANGED filterVars
    BY <2>1 DEF filterVars, FilterInv, FilterTypeInv, PassedOn, Spoiled, EmptyStaysEmpty, Holds, TagAt,
       HiddenInCuts, TagsWithin
  <2>2. ASSUME NextResponse PROVE FilterInv'
    <3>1. Fresh'
      BY <2>2 DEF NextResponse, Fresh
    <3>2. Fresh' => FilterInv'
      BY FreshInv, PTL
    <3> QED
      BY <3>1, <3>2
  <2> QED
    BY <2>1, <2>2, ReceiveInv DEF FilterNext
<1> QED
  BY <1>1, <1>2, PTL DEF FilterSpec

----------------------------------------------------------------------------
(***************************************************************************)
(* Every variable keeps its type; there are no more chunks than tokens,    *)
(* save the empty one at the end.                                          *)
(***************************************************************************)
THEOREM FilterTypeCorrect == FilterSpec => []FilterTypeOK
<1>1. FilterInv => FilterTypeOK
  <2> SUFFICES ASSUME FilterInv PROVE FilterTypeOK
    OBVIOUS
  <2>1. response \in Seq(Tokens) /\ Len(response) \in Nat /\ handed \in 0 .. Len(response)
    BY ResponseType DEF FilterInv, FilterTypeInv
  <2>2. Len(passed) <= handed + 1
    <3>1. CASE Spoiled
      BY <3>1 DEF FilterInv, PassedOn
    <3>2. CASE ~Spoiled
      BY <2>1, <3>2 DEF FilterInv, PassedOn
    <3> QED
      BY <3>1, <3>2
  <2> QED
    BY <2>1, <2>2 DEF FilterInv, FilterTypeInv, FilterTypeOK
<1> QED
  BY <1>1, FilterInvariance, PTL

(***************************************************************************)
(* A listing without entries is a 404, however it is cut into chunks.      *)
(***************************************************************************)
THEOREM EmptyListingsAreSpoiled == FilterSpec => []EmptyIsSpoiled
<1>1. FilterInv => EmptyIsSpoiled
  BY DEF FilterInv, EmptyIsSpoiled, EmptyStaysEmpty, PassedOn, Spoiled
<1> QED
  BY <1>1, FilterInvariance, PTL

(***************************************************************************)
(* A listing with at least as many entries as it has chunks is passed on   *)
(* as it came.                                                             *)
(***************************************************************************)
THEOREM ListingsPassThrough == FilterSpec => []ManyEntriesPassThrough
<1>1. FilterInv => ManyEntriesPassThrough
  <2> DEFINE tags == {i \in DOMAIN response : TagAt(response, i)}
  <2> SUFFICES ASSUME FilterInv, last, Cardinality(tags) >= chunks PROVE passed = response
    BY DEF ManyEntriesPassThrough
  <2>1. /\ response \in Seq(Tokens) /\ Len(response) \in Nat /\ FilterTypeInv
        /\ handed = Len(response) /\ chunks > 0 /\ chunks \in Nat
    BY ResponseType DEF FilterInv, FilterTypeInv
  <2>2. tags = TagsWithin(handed)
    BY <2>1 DEF TagsWithin, TagAt
  <2>3. Cardinality(tags) \in Nat
    BY <2>1, <2>2, TagsFinite
  <2>4. ~Spoiled
    <3> SUFFICES ASSUME Spoiled PROVE FALSE
      OBVIOUS
    <3>1. Cardinality(TagsWithin(handed)) < chunks
      BY <2>1 DEF FilterInv, HiddenInCuts, Spoiled
    <3>2. Cardinality(tags) < chunks
      BY <2>2, <3>1
    <3> HIDE DEF tags
    <3> QED
      BY <2>1, <2>3, <3>2
  <2> QED
    BY <2>1, <2>4, SubSeqFull DEF FilterInv, PassedOn
<1> QED
  BY <1>1, FilterInvariance, PTL
=============================================================================

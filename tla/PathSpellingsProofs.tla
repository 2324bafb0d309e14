------------------------ MODULE PathSpellingsProofs ------------------------
(***************************************************************************)
(* The properties of PathSpellings, for every configuration and every path *)
(* of any length: nothing in the proofs depends on the bound.  Each state  *)
(* is one request path, so the invariant only says that it is one; the     *)
(* work is in how collapsing, decoding, stripping and prefixing act on a   *)
(* path that is put together from parts.                                   *)
(***************************************************************************)
EXTENDS PathSpellings, PathRewriteProofs

(***************************************************************************)
(* Every state is a request path, which starts with a slash, and one of    *)
(* the configurations.                                                     *)
(***************************************************************************)
TypeInv ==
    /\ cfg \in Configs
    /\ path \in Path /\ path # << >> /\ Head(path) = "/"

LEMMA ConfigFacts ==
    ASSUME NEW c \in Configs
    PROVE  /\ c.listing \in BOOLEAN /\ c.index \in BOOLEAN /\ c.style \in {"path", "virtual"}
           /\ c.strip \in Path /\ c.prefix \in Path /\ c.root \in Path
BY ConfigsAssumption

LEMMA SlashPath ==
    <<"/">> \in Path /\ <<"/">> # << >> /\ Head(<<"/">>) = "/"
BY OneSlash

LEMMA InitInv == Init => TypeInv
BY SlashPath DEF Init, TypeInv

LEMMA StepInv == TypeInv /\ [Next]_vars => TypeInv'
<1> SUFFICES ASSUME TypeInv, [Next]_vars PROVE TypeInv'
  OBVIOUS
<1>1. ASSUME NEW t \in Tokens, Type(t) PROVE TypeInv'
  <2>1. t \in Token
    BY TokensAssumption
  <2>2. Append(path, t) \in Path /\ Append(path, t) # << >> /\ Head(Append(path, t)) = Head(path)
    BY <2>1, AppendFacts DEF TypeInv
  <2> QED
    BY <1>1, <2>2 DEF Type, TypeInv
<1>2. CASE Clear
  BY <1>2, SlashPath DEF Clear, TypeInv
<1>3. CASE UNCHANGED vars
  BY <1>3 DEF vars, TypeInv
<1> QED
  BY <1>1, <1>2, <1>3 DEF Next

(***************************************************************************)
(* Whatever is typed is a path: the state keeps its type.                  *)
(***************************************************************************)
THEOREM TypeCorrect == Spec => []TypeInv
BY InitInv, StepInv, PTL DEF Spec

\* The requests for the path at hand.
LEMMA RequestFacts ==
    ASSUME TypeInv, NEW q \in Requests(path)
    PROVE  /\ q.path = path /\ q.forIndexPage \in BOOLEAN /\ (~q.forIndexPage => cfg.listing)
           /\ \A p : [q EXCEPT !.path = p] = [path |-> p, method |-> q.method,
                                              forIndexPage |-> q.forIndexPage, marker |-> q.marker]
BY DEF Requests

(***************************************************************************)
(* The signature, computed apart from the line that is sent, covers it,    *)
(* for every path, method, addressing style and signature version.         *)
(***************************************************************************)
THEOREM EveryPathSigned == Spec => []SignedIsProxied
<1>1. TypeInv => SignedIsProxied
  <2> SUFFICES ASSUME TypeInv, NEW q \in Requests(path)
               PROVE  SignatureMatches(cfg, q, S3uri(cfg, q))
    BY DEF SignedIsProxied
  <2> QED
    BY RequestFacts, ConfigFacts, SignatureCovers DEF TypeInv
<1> QED
  BY <1>1, TypeCorrect, PTL

\* A prefix spelled without its leading slash rewrites a path to the same line.
LEMMA PrefixWithoutSlash ==
    ASSUME NEW c, c.prefix \in Path, c.strip \in Path, c.prefix # << >>, Head(c.prefix) = "/",
           NEW d, d.prefix = Tail(c.prefix), d.strip = c.strip, NEW p \in Path
    PROVE  CollapseDuplicateSlashes(UriPath(d, p)) = CollapseDuplicateSlashes(UriPath(c, p))
<1> DEFINE t == TrimTrailingSlashes(d.prefix)
           full == UriFullPath(p)
           strip == StripLeadingDirectoryPath(c)
           rest == IF IsPrefix(strip, full) THEN SubSeq(full, Len(strip) + 1, Len(full)) ELSE full
           P == PrefixLeadingDirectoryPath(c)
           D == PrefixLeadingDirectoryPath(d)
<1>1. d.prefix \in Path /\ TrimTrailingSlashes(c.prefix) = IF t = << >> THEN << >> ELSE <<"/">> \o t
  BY TrimTail
<1>2. t \in Path
  BY <1>1, TrimFacts
<1>3. UriPath(c, p) = P \o rest /\ UriPath(d, p) = D \o rest
  BY DEF UriPath, StripLeadingDirectoryPath
<1>4. rest \in Path
  <2>1. strip \in Path /\ full \in Path
    BY TrimFacts, CollapseType DEF StripLeadingDirectoryPath, UriFullPath
  <2> HIDE DEF strip, full
  <2> QED
    BY <2>1, PrefixSplits
<1> HIDE DEF t, rest
<1>5. CASE t = << >>
  <2>1. P = << >> /\ D = << >>
    BY <1>1, <1>5 DEF PrefixLeadingDirectoryPath, t
  <2> QED
    BY <1>3, <2>1
<1>6. CASE t # << >> /\ Head(t) # "/"
  <2>1. D = <<"/">> \o t
    BY <1>1, <1>6 DEF PrefixLeadingDirectoryPath, t
  <2>2. Head(<<"/">> \o t) = "/"
    BY <1>2, OneFirst DEF Path, Token
  <2>3. P = <<"/">> \o t
    BY <1>1, <1>6, <2>2 DEF PrefixLeadingDirectoryPath
  <2> QED
    BY <1>3, <2>1, <2>3
<1>7. CASE t # << >> /\ Head(t) = "/"
  <2>1. D = t
    BY <1>1, <1>7 DEF PrefixLeadingDirectoryPath, t
  <2>2. Head(<<"/">> \o t) = "/"
    BY <1>2, OneFirst DEF Path, Token
  <2>3. P = <<"/">> \o t
    BY <1>1, <1>7, <2>2 DEF PrefixLeadingDirectoryPath
  <2>4. (<<"/">> \o t) \o rest = <<"/">> \o (t \o rest)
    BY <1>2, <1>4, OneSlash DEF Path
  <2>5. t \o rest \in Path /\ t \o rest # << >> /\ Head(t \o rest) = "/"
    <3>1. Len(t) \in Nat \ {0} /\ t[1] = "/" /\ 1 \in 1 .. Len(t) /\ Len(rest) \in Nat
      BY <1>2, <1>4, <1>7 DEF Path
    <3>2. t \o rest \in Path /\ Len(t \o rest) = Len(t) + Len(rest) /\ (t \o rest)[1] = t[1]
      BY <1>2, <1>4, <3>1, ConcatFacts
    <3>3. Len(t \o rest) # 0
      BY <3>1, <3>2
    <3> QED
      BY <3>1, <3>2, <3>3 DEF Path
  <2>6. CollapseDuplicateSlashes(<<"/">> \o (t \o rest)) = CollapseDuplicateSlashes(t \o rest)
    BY <2>5, CollapseLeading
  <2> QED
    BY <1>3, <2>1, <2>3, <2>4, <2>6
<1> QED
  BY <1>5, <1>6, <1>7

(***************************************************************************)
(* Spellings of a path that differ in duplicate slashes, and of the        *)
(* settings that differ in a slash at either end, are one request to S3.   *)
(***************************************************************************)
THEOREM SpellingsAreOneRequest == Spec => []SpellingsAgree
<1>1. TypeInv => SpellingsAgree
  <2> SUFFICES ASSUME TypeInv, NEW q \in Requests(path)
               PROVE  /\ \A i \in DOMAIN path : path[i] = "/" =>
                             S3uri(cfg, [q EXCEPT !.path = InsertAt(path, i, "/")]) = S3uri(cfg, q)
                      /\ \A c \in SettingSpellings : S3uri(c, q) = S3uri(cfg, q)
    BY DEF SpellingsAgree
  <2>1. cfg \in Configs /\ cfg.strip \in Path /\ cfg.prefix \in Path /\ path \in Path
        /\ DOMAIN path = 1 .. Len(path) /\ q.path = path
    BY ConfigFacts, RequestFacts DEF TypeInv, Path
  <2>2. ASSUME NEW i \in DOMAIN path, path[i] = "/"
        PROVE  S3uri(cfg, [q EXCEPT !.path = InsertAt(path, i, "/")]) = S3uri(cfg, q)
    <3> DEFINE p == InsertAt(path, i, "/")
               r == [q EXCEPT !.path = p]
    <3>1. CollapseDuplicateSlashes(p) = CollapseDuplicateSlashes(path)
      BY <2>1, <2>2, CollapseInsert
    <3> HIDE DEF p
    <3>2. r.path = p /\ r.method = q.method /\ r.marker = q.marker /\ r.forIndexPage = q.forIndexPage
      BY RequestFacts
    <3> HIDE DEF r
    <3>3. UriPath(cfg, r.path) = UriPath(cfg, q.path)
      BY <2>1, <3>1, <3>2 DEF UriPath, UriFullPath
    <3>4. S3uri(cfg, r) = S3uri(cfg, q)
      BY <3>2, <3>3, LineOf
    <3> QED
      BY <3>4 DEF r, p
  <2>3. ASSUME NEW c \in SettingSpellings PROVE S3uri(c, q) = S3uri(cfg, q)
    <3>1. /\ c.listing = cfg.listing /\ c.index = cfg.index
          /\ c.style = cfg.style /\ c.pageSize = cfg.pageSize
      BY <2>1, <2>3, ConfigsAssumption DEF SettingSpellings
    <3>2. CollapseDuplicateSlashes(UriPath(c, path)) = CollapseDuplicateSlashes(UriPath(cfg, path))
      <4>1. CASE c = [cfg EXCEPT !.prefix = Append(@, "/")]
        <5>1. c.prefix = Append(cfg.prefix, "/") /\ c.strip = cfg.strip
          BY <2>1, <4>1, ConfigsAssumption
        <5>2. TrimTrailingSlashes(c.prefix) = TrimTrailingSlashes(cfg.prefix)
          BY <2>1, <5>1, TrimAppendSlash
        <5> QED
          BY <5>1, <5>2 DEF UriPath, PrefixLeadingDirectoryPath, StripLeadingDirectoryPath
      <4>2. CASE c = [cfg EXCEPT !.strip = Append(@, "/")]
        <5>1. c.strip = Append(cfg.strip, "/") /\ c.prefix = cfg.prefix
          BY <2>1, <4>2, ConfigsAssumption
        <5>2. TrimTrailingSlashes(c.strip) = TrimTrailingSlashes(cfg.strip)
          BY <2>1, <5>1, TrimAppendSlash
        <5> QED
          BY <5>1, <5>2 DEF UriPath, PrefixLeadingDirectoryPath, StripLeadingDirectoryPath
      <4>3. CASE c = [cfg EXCEPT !.prefix = IF @ # << >> /\ Head(@) = "/" THEN Tail(@) ELSE @]
        <5>1. /\ c.prefix = IF cfg.prefix # << >> /\ Head(cfg.prefix) = "/" THEN Tail(cfg.prefix)
                            ELSE cfg.prefix
              /\ c.strip = cfg.strip
          BY <2>1, <4>3, ConfigsAssumption
        <5>2. CASE cfg.prefix # << >> /\ Head(cfg.prefix) = "/"
          BY <2>1, <5>1, <5>2, PrefixWithoutSlash
        <5>3. CASE ~(cfg.prefix # << >> /\ Head(cfg.prefix) = "/")
          BY <5>1, <5>3 DEF UriPath, PrefixLeadingDirectoryPath, StripLeadingDirectoryPath
        <5> QED
          BY <5>2, <5>3
      <4> QED
        BY <2>3, <4>1, <4>2, <4>3 DEF SettingSpellings
    <3> QED
      BY <2>1, <3>1, <3>2, LineOf
  <2> QED
    BY <2>2, <2>3
<1> QED
  BY <1>1, TypeCorrect, PTL

----------------------------------------------------------------------------
\* The prefix starts with a slash; where nothing is stripped, it comes before the path.
LEMMA PrefixHead ==
    ASSUME NEW c, c.prefix \in Path
    PROVE  PrefixLeadingDirectoryPath(c) # << >> => Head(PrefixLeadingDirectoryPath(c)) = "/"
<1> DEFINE t == TrimTrailingSlashes(c.prefix)
<1>1. t \in Path
  BY TrimFacts
<1>2. Head(<<"/">> \o t) = "/"
  BY <1>1, OneFirst DEF Path, Token
<1> QED
  BY <1>2 DEF PrefixLeadingDirectoryPath

LEMMA NothingStripped ==
    ASSUME NEW c, c.prefix \in Path, StripLeadingDirectoryPath(c) = << >>, NEW p \in Path
    PROVE  UriPath(c, p) = PrefixLeadingDirectoryPath(c) \o CollapseDuplicateSlashes(p)
<1>1. /\ CollapseDuplicateSlashes(p) \in Path
      /\ SubSeq(CollapseDuplicateSlashes(p), 1, Len(CollapseDuplicateSlashes(p)))
             = CollapseDuplicateSlashes(p)
  BY CollapseType, SubSeqFull DEF Path
<1> QED
  BY <1>1 DEF UriPath, UriFullPath

(***************************************************************************)
(* The spelling of a key: a path without duplicate slashes that is no      *)
(* directory, and that decodes to the key.                                 *)
(***************************************************************************)
LEMMA SpellingFacts ==
    ASSUME NEW key \in Path, key # << >>, \A i \in 1 .. Len(key) : key[i] # "%2F"
    PROVE  /\ Spelling(key) \in Path /\ Spelling(key) # << >> /\ Head(Spelling(key)) = "/"
           /\ Last(Spelling(key)) # "/"
           /\ CollapseDuplicateSlashes(Spelling(key)) = Spelling(key)
           /\ Decoded(Spelling(key)) = <<"/">> \o key
<1> DEFINE n == Len(key)
           E == [i \in DOMAIN key |-> IF key[i] = "/" /\ (i \in {1, Len(key)} \/ key[i - 1] = "/")
                                      THEN "%2F" ELSE key[i]]
           S == <<"/">> \o E
           T == <<"/">> \o key
           D == Decoded(S)
<1>1. key \in Seq(Token) /\ n \in Nat \ {0} /\ DOMAIN key = 1 .. n /\ \A i \in 1 .. n : key[i] \in Token
  BY DEF Path
<1>2. "%2F" \in Token
  BY DEF Token
<1>3. E \in [1 .. n -> Token]
  BY <1>1, <1>2
<1>4. E \in Path /\ Len(E) = n
  BY <1>1, <1>3, FunctionIsSeq DEF Path
<1>5. \A i \in 1 .. n : E[i] = IF key[i] = "/" /\ (i \in {1, n} \/ key[i - 1] = "/") THEN "%2F" ELSE key[i]
  BY <1>1
<1> HIDE DEF E
<1>6. <<"/">> \in Path /\ Len(<<"/">>) = 1 /\ <<"/">>[1] = "/" /\ 1 \in 1 .. 1
  BY OneSlash
<1>7. S \in Path /\ Len(S) = 1 + n /\ S[1] = "/" /\ \A j \in 1 .. n : S[1 + j] = E[j]
  BY <1>4, <1>6, ConcatFacts
<1>8. T \in Path /\ Len(T) = 1 + n /\ T[1] = "/" /\ \A j \in 1 .. n : T[1 + j] = key[j]
  BY <1>6, ConcatFacts
<1> HIDE DEF S, T, n
<1>9. \A i \in 1 .. 1 + n : i = 1 \/ (i - 1 \in 1 .. n /\ 1 + (i - 1) = i)
  BY <1>1
<1>10. Single(S)
  <2> SUFFICES ASSUME NEW i \in 1 .. 1 + n, S[i] = "/", i > 1 PROVE S[i - 1] # "/"
    BY <1>7 DEF Single
  <2> DEFINE j == i - 1
  <2>1. j \in 1 .. n /\ 1 + j = i
    BY <1>9
  <2> HIDE DEF j
  <2>2. E[j] = "/"
    BY <1>7, <2>1
  <2>3. j # 1 /\ key[j - 1] # "/"
    BY <1>5, <2>1, <2>2
  <2>4. j - 1 \in 1 .. n /\ 1 + (j - 1) = j
    BY <1>1, <2>1, <2>3
  <2>5. E[j - 1] = key[j - 1] /\ S[1 + (j - 1)] = E[j - 1]
    BY <1>5, <1>7, <2>3, <2>4
  <2> QED
    BY <2>3, <2>4, <2>5 DEF j
<1>11. CollapseDuplicateSlashes(S) = S
  BY <1>7, <1>10, SingleFacts
<1>12. S # << >> /\ Head(S) = "/" /\ Last(S) # "/"
  <2>1. S # << >> /\ n \in 1 .. n
    BY <1>1, <1>7
  <2>2. S[1 + n] = E[n] /\ E[n] # "/"
    BY <1>5, <1>7, <2>1
  <2> QED
    BY <1>7, <2>1, <2>2 DEF Path, Last
<1>13. D \in Path /\ Len(D) = 1 + n /\ \A i \in 1 .. 1 + n : D[i] = IF S[i] = "%2F" THEN "/" ELSE S[i]
  BY <1>7, DecodedFacts
<1> HIDE DEF D
<1>14. \A i \in 1 .. 1 + n : D[i] = T[i]
  <2> TAKE i \in 1 .. 1 + n
  <2>1. CASE i = 1
    BY <1>7, <1>8, <1>13, <2>1
  <2>2. CASE i # 1
    <3> DEFINE j == i - 1
    <3>1. j \in 1 .. n /\ 1 + j = i
      BY <1>9, <2>2
    <3> HIDE DEF j
    <3>2. S[i] = E[j] /\ T[i] = key[j]
      BY <1>7, <1>8, <3>1
    <3>3. key[j] # "%2F" /\ (E[j] = "%2F" => key[j] = "/") /\ (E[j] # "%2F" => E[j] = key[j])
      BY <1>5, <3>1 DEF n
    <3> QED
      BY <1>13, <3>2, <3>3
  <2> QED
    BY <2>1, <2>2
<1>15. D = T
  BY <1>8, <1>13, <1>14, SamePath
<1>16. Spelling(key) = S
  BY DEF Spelling, S, E
<1> QED
  BY <1>7, <1>11, <1>12, <1>15, <1>16 DEF D, T

\* The line for an object, and the key it names.
LEMMA ObjectLine ==
    ASSUME NEW c, NEW q, q.forIndexPage = TRUE,
           NEW u \in Path, u = CollapseDuplicateSlashes(UriPath(c, q.path))
    PROVE  /\ S3uri(c, q) = [path |-> EscapeURIPath(S3BaseUri(c) \o WithIndex(c, u)), query |-> << >>]
           /\ ~IsDirectory(u) => KeyOf(c, S3uri(c, q)) = WithoutLeadingSlash(Decoded(u))
<1>1. S3uri(c, q) = [path |-> EscapeURIPath(S3BaseUri(c) \o WithIndex(c, u)), query |-> << >>]
  BY DEF S3uri
<1>2. ~IsDirectory(u) => WithIndex(c, u) = u
  BY DEF WithIndex
<1> QED
  BY <1>1, <1>2, KeyOfPath

(***************************************************************************)
(* Every key of the bucket below the prefix can be asked for, slashes in   *)
(* any place of it included.                                               *)
(***************************************************************************)
THEOREM EveryKeyCanBeAsked == Spec => []EveryKeyAddressable
<1>1. TypeInv => EveryKeyAddressable
  <2> DEFINE key == Tail(Decoded(path))
             S == Spelling(key)
             q == [path |-> S, method |-> "GET", forIndexPage |-> TRUE, marker |-> << >>]
             P == PrefixLeadingDirectoryPath(cfg)
             C == CollapseDuplicateSlashes(P)
             u == C \o S
  <2> SUFFICES ASSUME TypeInv, key # << >>, StripLeadingDirectoryPath(cfg) = << >>
               PROVE  KeyOf(cfg, S3uri(cfg, q)) = Tail(Decoded(C) \o <<"/">> \o key)
    BY DEF EveryKeyAddressable
  <2>1. cfg.prefix \in Path /\ cfg.strip \in Path /\ path \in Path /\ path # << >>
    BY ConfigFacts DEF TypeInv
  <2>2. /\ P \in Path /\ (P # << >> => Last(P) # "/" /\ Head(P) = "/") /\ C \in Path
        /\ C = << >> <=> P = << >>
        /\ P # << >> => Head(C) = Head(P)
    BY <2>1, PrefixFacts, PrefixHead, CollapseType, CollapseFirst
  <2>3. key \in Path /\ \A i \in 1 .. Len(key) : key[i] # "%2F"
    <3> DEFINE d == Decoded(path)
    <3>1. d \in Path /\ d # << >> /\ \A i \in 1 .. Len(d) : d[i] # "%2F"
      BY <2>1, DecodedFacts, DecodedEnds, DecodedHasNoEscape
    <3> HIDE DEF d
    <3>2. d \in Seq(Token) /\ Len(d) \in Nat \ {0}
      BY <3>1 DEF Path
    <3>3. /\ Tail(d) \in Seq(Token) /\ Len(Tail(d)) = Len(d) - 1
          /\ \A i \in 1 .. Len(Tail(d)) : Tail(d)[i] = d[i + 1]
      BY <3>1, <3>2, HeadTailProperties
    <3>4. \A i \in 1 .. Len(d) - 1 : i + 1 \in 1 .. Len(d)
      BY <3>2
    <3>5. Tail(d) \in Path /\ \A i \in 1 .. Len(Tail(d)) : Tail(d)[i] # "%2F"
      BY <3>1, <3>3, <3>4 DEF Path
    <3> QED
      BY <3>5 DEF d
  <2> HIDE DEF key
  <2>4. /\ S \in Path /\ S # << >> /\ Head(S) = "/" /\ Last(S) # "/"
        /\ CollapseDuplicateSlashes(S) = S /\ Decoded(S) = <<"/">> \o key
    BY <2>3, SpellingFacts
  <2> HIDE DEF S, P
  <2>5. UriPath(cfg, S) = P \o S
    BY <2>1, <2>4, NothingStripped DEF P
  <2>6. CollapseDuplicateSlashes(P \o S) = u
    BY <2>2, <2>4, CollapseConcat
  <2> HIDE DEF C
  <2>7. u \in Path /\ ~IsDirectory(u)
    BY <2>2, <2>4, ConcatFacts, ConcatLast DEF IsDirectory
  <2>8. q.forIndexPage = TRUE /\ q.path = S
    OBVIOUS
  <2> HIDE DEF q, u
  <2>9. KeyOf(cfg, S3uri(cfg, q)) = WithoutLeadingSlash(Decoded(u))
    BY <2>5, <2>6, <2>7, <2>8, ObjectLine
  <2>10. Decoded(u) = Decoded(C) \o (<<"/">> \o key)
    BY <2>2, <2>4, DecodedConcat DEF u
  <2> DEFINE D == Decoded(C)
             K == <<"/">> \o key
  <2>11. D \in Path /\ K \in Path /\ Len(K) \in Nat \ {0} /\ K[1] = "/" /\ Len(D) \in Nat
         /\ D \o <<"/">> \o key = D \o K
    <3>1. D \in Path /\ <<"/">> \in Path
      BY <2>2, DecodedFacts, OneSlash
    <3>2. K \in Path /\ K # << >> /\ Head(K) = "/"
      BY <2>3, OneFirst DEF Path, Token
    <3> HIDE DEF D
    <3>3. D \o <<"/">> \o key = D \o K
      BY <2>3, <3>1 DEF Path
    <3> QED
      BY <3>1, <3>2, <3>3 DEF Path
  <2>12. C # << >> => D # << >> /\ Head(D) = "/"
    BY <2>2, DecodedEnds
  <2>13. D \o K # << >> /\ Head(D \o K) = "/"
    <3> HIDE DEF D, K
    <3>1. D \o K \in Path /\ Len(D \o K) = Len(D) + Len(K)
          /\ (\A i \in 1 .. Len(D) : (D \o K)[i] = D[i]) /\ \A i \in 1 .. Len(K) : (D \o K)[Len(D) + i] = K[i]
      BY <2>11, ConcatFacts
    <3>2. 1 \in 1 .. Len(K) /\ (Len(D) = 0 \/ 1 \in 1 .. Len(D))
      BY <2>11
    <3>3. (D \o K)[1] = "/"
      <4>1. CASE Len(D) = 0
        <5>1. (D \o K)[Len(D) + 1] = K[1]
          BY <3>1, <3>2
        <5>2. Len(D) + 1 = 1
          BY <4>1
        <5> QED
          BY <2>11, <5>1, <5>2
      <4>2. CASE 1 \in 1 .. Len(D)
        <5>1. D # << >>
          BY <2>11, <4>2
        <5>2. C # << >>
          <6>1. ASSUME C = << >> PROVE FALSE
            <7>1. Len(D) = Len(C) /\ Len(C) = 0
              BY <2>2, <6>1, DecodedFacts DEF D
            <7> QED
              BY <4>2, <7>1
          <6> QED
            BY <6>1
        <5> QED
          BY <2>11, <2>12, <3>1, <4>2, <5>2 DEF Path
      <4> QED
        BY <3>2, <4>1, <4>2
    <3>4. D \o K # << >>
      BY <2>11, <3>1
    <3> QED
      BY <3>1, <3>3, <3>4 DEF Path
  <2> HIDE DEF D, K
  <2>14. Decoded(u) = D \o K /\ Tail(Decoded(C) \o <<"/">> \o key) = Tail(D \o K)
    BY <2>10, <2>11 DEF D, K
  <2> QED
    BY <2>9, <2>13, <2>14 DEF WithoutLeadingSlash
<1> QED
  BY <1>1, TypeCorrect, PTL

----------------------------------------------------------------------------
(***************************************************************************)
(* The index page of a directory is rewritten like the directory.          *)
(***************************************************************************)
LEMMA CollapseAppend ==
    ASSUME NEW p \in Path, NEW x \in Token, x # "/"
    PROVE  CollapseDuplicateSlashes(Append(p, x)) = Append(CollapseDuplicateSlashes(p), x)
<1>1. <<x>> \in Path /\ Head(<<x>>) = x /\ Len(<<x>>) = 1 /\ <<x>>[1] = x
  BY DEF Path
<1>2. \A a \in Path : Append(a, x) = a \o <<x>>
  BY DEF Path
<1>3. Single(<<x>>)
  BY <1>1 DEF Single
<1>4. CollapseDuplicateSlashes(<<x>>) = <<x>>
  BY <1>1, <1>3, SingleFacts
<1>5. CollapseDuplicateSlashes(p \o <<x>>) = CollapseDuplicateSlashes(p) \o <<x>>
  BY <1>1, <1>4, CollapseConcat
<1> QED
  BY <1>2, <1>5, CollapseType

LEMMA CollapsePlain ==
    ASSUME NEW p \in Path, \A i \in 1 .. Len(p) : p[i] # "%2F"
    PROVE  \A i \in 1 .. Len(CollapseDuplicateSlashes(p)) : CollapseDuplicateSlashes(p)[i] # "%2F"
<1> DEFINE C == CollapseDuplicateSlashes(p)
<1>1. /\ Len(C) = Cardinality(Kept(p))
      /\ \A k \in 1 .. Cardinality(Kept(p)) :
            Nth(Kept(p), k) \in Kept(p) /\ C[k] = p[Nth(Kept(p), k)]
  BY CollapseType
<1>2. Kept(p) \subseteq 1 .. Len(p)
  BY KeptFacts
<1> HIDE DEF C
<1>3. \A i \in 1 .. Len(C) : C[i] # "%2F"
  BY <1>1, <1>2
<1> QED
  BY <1>3 DEF C

\* Below what is stripped, the page of a directory is rewritten with it.
LEMMA RewrittenPage ==
    ASSUME NEW c, c.prefix \in Path, c.strip \in Path, NEW p \in Path, NEW x \in Token, x # "/",
           StripLeadingDirectoryPath(c) # Append(CollapseDuplicateSlashes(p), x)
    PROVE  UriPath(c, Append(p, x)) = Append(UriPath(c, p), x)
<1> DEFINE C == CollapseDuplicateSlashes(p)
           s == StripLeadingDirectoryPath(c)
           P == PrefixLeadingDirectoryPath(c)
           A == Append(C, x)
           rest == IF IsPrefix(s, C) THEN SubSeq(C, Len(s) + 1, Len(C)) ELSE C
<1>1. C \in Path /\ s \in Path /\ P \in Path
  BY CollapseType, TrimFacts, PrefixFacts DEF StripLeadingDirectoryPath
<1>2. UriFullPath(Append(p, x)) = A /\ UriFullPath(p) = C
  BY CollapseAppend DEF UriFullPath
<1> HIDE DEF C, s, P
<1>3. <<x>> \in Path /\ (\A a \in Path : Append(a, x) = a \o <<x>> /\ Append(a, x) \in Path)
  BY DEF Path
<1>4. rest \in Path
  <2>1. CASE IsPrefix(s, C)
    BY <1>1, <2>1, PrefixSplits
  <2>2. CASE ~IsPrefix(s, C)
    BY <1>1, <2>2
  <2> QED
    BY <2>1, <2>2
<1>5. CASE IsPrefix(s, C)
  <2>1. C = s \o rest
    BY <1>1, <1>5, PrefixSplits
  <2> HIDE DEF rest
  <2>2. A = s \o Append(rest, x)
    <3>1. (s \o rest) \o <<x>> = s \o (rest \o <<x>>)
      BY SMTT(30), <1>1, <1>3, <1>4 DEF Path
    <3>2. A = (s \o rest) \o <<x>>
      BY <1>1, <1>3, <2>1
    <3>3. Append(rest, x) = rest \o <<x>>
      BY <1>3, <1>4
    <3> QED
      BY <3>1, <3>2, <3>3
  <2>3. IsPrefix(s, A) /\ SubSeq(A, Len(s) + 1, Len(A)) = Append(rest, x)
    <3> DEFINE y == Append(rest, x)
    <3>1. y \in Path /\ A = s \o y
      BY <1>3, <1>4, <2>2
    <3> HIDE DEF A, y
    <3>2. IsPrefix(s, s \o y) /\ SubSeq(s \o y, Len(s) + 1, Len(s \o y)) = y
      BY <1>1, <3>1, PrefixOfConcat
    <3> QED
      BY <3>1, <3>2 DEF y
  <2>4. UriPath(c, Append(p, x)) = P \o Append(rest, x)
    BY <1>2, <2>3 DEF UriPath, s, P
  <2>5. UriPath(c, p) = P \o rest
    BY <1>2, <1>5 DEF UriPath, s, P, rest
  <2>6. P \o (rest \o <<x>>) = (P \o rest) \o <<x>> /\ P \o rest \in Path
    BY <1>1, <1>3, <1>4 DEF Path
  <2> QED
    BY <1>3, <1>4, <2>4, <2>5, <2>6
<1>6. CASE ~IsPrefix(s, C)
  <2>1. ~IsPrefix(s, A)
    <3>1. ASSUME IsPrefix(s, A) PROVE FALSE
      <4>1. A \in Path /\ Len(A) = Len(C) + 1 /\ A[Len(C) + 1] = x /\ (\A i \in 1 .. Len(C) : A[i] = C[i])
            /\ Len(C) \in Nat /\ Len(s) \in Nat
        BY <1>1, AppendFacts DEF Path, Last
      <4> HIDE DEF A
      <4>2. Len(s) <= Len(A) /\ \A i \in 1 .. Len(s) : s[i] = A[i]
        BY <1>1, <3>1, <4>1, PrefixMeans
      <4>3. CASE Len(s) = Len(A)
        <5>1. s = A
          BY <1>1, <4>1, <4>2, <4>3, SamePath
        <5> QED
          BY <5>1 DEF A, s, C
      <4>4. CASE Len(s) # Len(A)
        <5>1. Len(s) <= Len(C)
          BY <4>1, <4>2, <4>4
        <5>2. \A i \in 1 .. Len(s) : i \in 1 .. Len(C)
          BY <4>1, <5>1
        <5>3. \A i \in 1 .. Len(s) : s[i] = C[i]
          BY <4>1, <4>2, <5>2
        <5> QED
          BY <1>1, <1>6, <5>1, <5>3, PrefixMeans
      <4> QED
        BY <4>3, <4>4
    <3> QED
      BY <3>1
  <2>2. UriPath(c, Append(p, x)) = P \o A
    BY <1>2, <2>1 DEF UriPath, s, P
  <2>3. UriPath(c, p) = P \o C
    BY <1>2, <1>6 DEF UriPath, s, P
  <2>4. P \o (C \o <<x>>) = (P \o C) \o <<x>> /\ P \o C \in Path
    BY <1>1, <1>3 DEF Path
  <2> QED
    BY <1>1, <1>3, <2>2, <2>3, <2>4
<1> QED
  BY <1>5, <1>6

(***************************************************************************)
(* The probe for an index page, rewritten when it comes in again, names    *)
(* the object that the directory request names.                            *)
(***************************************************************************)
THEOREM ProbeIsForTheIndexPage == Spec => []PlainProbeNamesTheIndexPage
<1>1. TypeInv => PlainProbeNamesTheIndexPage
  <2> DEFINE q     == [path |-> path, method |-> "GET", forIndexPage |-> TRUE, marker |-> << >>]
             g     == GatewayUri(cfg, q).path
             probe == [q EXCEPT !.path = g]
             C     == CollapseDuplicateSlashes(path)
             A     == Append(C, IndexPage)
             U     == UriPath(cfg, path)
             V     == CollapseDuplicateSlashes(U)
  <2> SUFFICES ASSUME TypeInv, ~Contains(path, "%2F"), StripLeadingDirectoryPath(cfg) # A,
                      cfg.listing, cfg.index, IsDirectory(U)
               PROVE  S3uri(cfg, probe) = S3uri(cfg, q)
    BY DEF PlainProbeNamesTheIndexPage, ProbeNamesTheIndexPage
  <2>1. cfg.prefix \in Path /\ cfg.strip \in Path /\ path \in Path
    BY ConfigFacts DEF TypeInv
  <2>2. IndexPage \in Token /\ IndexPage # "/" /\ IndexPage # "%2F"
    BY DEF Token, IndexPage
  <2>3. C \in Path /\ IsDirectory(C) /\ CollapseDuplicateSlashes(C) = C
        /\ U \in Path /\ V \in Path /\ IsDirectory(V) /\ A \in Path
    BY <2>1, CollapseType, CollapseDirectory, CollapseTwice, UriPathFacts, IndexPageIsAFile
  <2>4. \A i \in 1 .. Len(path) : path[i] # "%2F"
    BY DEF Contains
  <2>5. g = A
    <3>1. g = Decoded(WithIndex(cfg, CollapseDuplicateSlashes(C)))
      BY DEF GatewayUri, EscapeURIPath, UriFullPath
    <3>2. WithIndex(cfg, C) = A
      BY <2>3 DEF WithIndex
    <3>3. Decoded(C) = C
      BY <2>1, <2>3, <2>4, CollapsePlain, DecodedPlain
    <3>4. Decoded(A) = A
      BY <2>3, <3>3, DecodedAppend
    <3> QED
      BY <2>3, <3>1, <3>2, <3>4
  <2>6. probe.path = A /\ probe.forIndexPage = TRUE /\ q.path = path /\ q.forIndexPage = TRUE
    BY <2>5
  <2> HIDE DEF probe, q, IndexPage
  <2>7. UriPath(cfg, A) = Append(U, IndexPage)
    <3>1. UriPath(cfg, Append(path, IndexPage)) = Append(U, IndexPage)
      BY <2>1, <2>2, RewrittenPage
    <3>2. CollapseDuplicateSlashes(Append(path, IndexPage)) = A
      BY <2>1, <2>2, CollapseAppend
    <3>3. CollapseDuplicateSlashes(A) = A
      BY <2>2, <2>3, CollapseAppend
    <3> QED
      BY <3>1, <3>2, <3>3 DEF UriPath, UriFullPath
  <2>8. CollapseDuplicateSlashes(UriPath(cfg, A)) = Append(V, IndexPage)
    BY <2>2, <2>3, <2>7, CollapseAppend
  <2>9. Append(V, IndexPage) \in Path /\ ~IsDirectory(Append(V, IndexPage))
    BY <2>3, IndexPageIsAFile
  <2>10. WithIndex(cfg, V) = Append(V, IndexPage)
         /\ WithIndex(cfg, Append(V, IndexPage)) = Append(V, IndexPage)
    BY <2>3, <2>9 DEF WithIndex
  <2>11. S3uri(cfg, q) = [path |-> EscapeURIPath(S3BaseUri(cfg) \o WithIndex(cfg, V)), query |-> << >>]
    BY <2>3, <2>6, ObjectLine
  <2>12. S3uri(cfg, probe) = [path |-> EscapeURIPath(S3BaseUri(cfg) \o WithIndex(cfg, Append(V, IndexPage))),
                              query |-> << >>]
    BY <2>6, <2>8, <2>9, ObjectLine
  <2> QED
    BY <2>10, <2>11, <2>12
<1> QED
  BY <1>1, TypeCorrect, PTL

----------------------------------------------------------------------------
(***************************************************************************)
(* The parent of a path is found in the part that has a slash to spare.    *)
(***************************************************************************)
LEMMA ParentIs ==
    ASSUME NEW p \in Path, NEW m \in 1 .. Len(p) - 1, p[m] = "/", p # <<"/">>,
           \A i \in 1 .. Len(p) - 1 : p[i] = "/" => i <= m
    PROVE  ParentOf(p) = SubSeq(p, 1, m)
<1> DEFINE S == {i \in 1 .. Len(p) - 1 : p[i] = "/"}
           x == Max(S)
<1>1. Len(p) \in Nat
  BY DEF Path
<1>2. S \in SUBSET Int /\ IsFiniteSet(S) /\ S # {}
  <2>1. IsFiniteSet(1 .. Len(p) - 1)
    BY <1>1, FS_Interval
  <2>2. S \subseteq 1 .. Len(p) - 1 /\ m \in S
    OBVIOUS
  <2> QED
    BY <2>1, <2>2, FS_Subset
<1>3. x \in S /\ \A i \in S : i <= x
  BY <1>2, MaxFacts
<1> HIDE DEF x
<1>4. m <= x /\ x <= m
  BY <1>3
<1>5. x = m
  BY <1>2, <1>3, <1>4
<1> QED
  BY <1>5 DEF x, ParentOf

LEMMA ParentWhere ==
    ASSUME NEW p \in Path, Len(p) >= 2, p[1] = "/"
    PROVE  \E m \in 1 .. Len(p) - 1 : /\ p[m] = "/" /\ ParentOf(p) = SubSeq(p, 1, m)
                                      /\ \A i \in 1 .. Len(p) - 1 : p[i] = "/" => i <= m
<1> DEFINE S == {i \in 1 .. Len(p) - 1 : p[i] = "/"}
           x == Max(S)
<1>1. Len(p) \in Nat /\ 1 \in 1 .. Len(p) - 1
  BY DEF Path
<1>2. S \in SUBSET Int /\ IsFiniteSet(S) /\ S # {}
  <2>1. IsFiniteSet(1 .. Len(p) - 1)
    BY <1>1, FS_Interval
  <2>2. S \subseteq 1 .. Len(p) - 1 /\ 1 \in S
    BY <1>1
  <2> QED
    BY <2>1, <2>2, FS_Subset
<1>3. x \in S /\ \A i \in S : i <= x
  BY <1>2, MaxFacts
<1> HIDE DEF x
<1>4. x \in 1 .. Len(p) - 1 /\ p[x] = "/" /\ \A i \in 1 .. Len(p) - 1 : p[i] = "/" => i <= x
  BY <1>3
<1>5. Len(<<"/">>) = 1
  OBVIOUS
<1>6. p # <<"/">>
  <2>1. ASSUME p = <<"/">> PROVE FALSE
    <3>1. Len(p) = 1
      BY <1>5, <2>1
    <3> QED
      BY <3>1
  <2> QED
    BY <2>1
<1> QED
  BY <1>4, <1>6, ParentIs

LEMMA ParentConcat ==
    ASSUME NEW s \in Path, NEW r \in Path, Len(r) >= 2, r[1] = "/"
    PROVE  ParentOf(s \o r) = s \o ParentOf(r)
<1> DEFINE n == Len(s)
           l == Len(r)
           p == s \o r
<1>1. n \in Nat /\ l \in Nat /\ l >= 2
  BY DEF Path
<1>2. /\ p \in Path /\ Len(p) = n + l
      /\ \A i \in 1 .. n : p[i] = s[i]
      /\ \A j \in 1 .. l : p[n + j] = r[j]
  BY ConcatFacts
<1> HIDE DEF p
<1>3. PICK m \in 1 .. l - 1 : /\ r[m] = "/" /\ ParentOf(r) = SubSeq(r, 1, m)
                              /\ \A i \in 1 .. l - 1 : r[i] = "/" => i <= m
  BY ParentWhere
<1> HIDE DEF n, l
<1>4. /\ m \in Nat /\ m \in 1 .. l /\ n + m \in 1 .. (n + l) - 1
      /\ m \in 0 .. l /\ n + m \in 0 .. n + l
  BY <1>1
<1>5. p[n + m] = "/"
  BY <1>2, <1>3, <1>4
<1>6. \A i \in 1 .. (n + l) - 1 : p[i] = "/" => i <= n + m
  <2> SUFFICES ASSUME NEW i \in 1 .. (n + l) - 1, p[i] = "/", ~(i <= n + m) PROVE FALSE
    OBVIOUS
  <2> DEFINE j == i - n
  <2>1. j \in 1 .. l - 1 /\ j \in 1 .. l /\ n + j = i /\ ~(j <= m)
    BY <1>1, <1>4
  <2> HIDE DEF j
  <2>2. r[j] = "/"
    BY <1>2, <2>1
  <2> QED
    BY <1>3, <2>1, <2>2
<1>7. p # <<"/">>
  <2>1. Len(<<"/">>) = 1 /\ Len(p) # 1
    BY <1>1, <1>2
  <2> QED
    BY <2>1
<1>8. ParentOf(p) = SubSeq(p, 1, n + m)
  BY <1>2, <1>4, <1>5, <1>6, <1>7, ParentIs
<1> DEFINE a == SubSeq(p, 1, n + m)
           b == SubSeq(r, 1, m)
           c == s \o b
<1>9. a \in Path /\ Len(a) = n + m /\ \A i \in 1 .. n + m : a[i] = p[i]
  BY <1>2, <1>4, FirstsFacts
<1>10. b \in Path /\ Len(b) = m /\ \A i \in 1 .. m : b[i] = r[i]
  BY <1>4, FirstsFacts DEF l
<1> HIDE DEF a, b
<1>11. c \in Path /\ Len(c) = n + m
       /\ (\A i \in 1 .. n : c[i] = s[i]) /\ \A j \in 1 .. m : c[n + j] = b[j]
  BY <1>10, ConcatFacts DEF n
<1> HIDE DEF c
<1>12. \A i \in 1 .. n + m : a[i] = c[i]
  <2> TAKE i \in 1 .. n + m
  <2>1. CASE i \in 1 .. n
    BY <1>2, <1>9, <1>11, <2>1
  <2>2. CASE i \notin 1 .. n
    <3> DEFINE j == i - n
    <3>1. j \in 1 .. m /\ j \in 1 .. l /\ n + j = i
      BY <1>1, <1>4, <2>2
    <3> HIDE DEF j
    <3>2. a[i] = p[i] /\ p[i] = r[j] /\ c[i] = b[j] /\ b[j] = r[j]
      BY <1>2, <1>9, <1>10, <1>11, <3>1
    <3> QED
      BY <3>2
  <2> QED
    BY <2>1, <2>2
<1>13. a = c
  BY <1>9, <1>11, <1>12, SamePath
<1> QED
  BY <1>3, <1>8, <1>13 DEF a, b, c, p

\* Parts of a path without duplicate slashes, and without encoded ones.
NoEscape(p) == \A i \in 1 .. Len(p) : p[i] # "%2F"

LEMMA RestCanonical ==
    ASSUME NEW s \in Path, NEW r \in Path, Single(s \o r), NoEscape(s \o r)
    PROVE  Single(r) /\ NoEscape(r)
<1> DEFINE n == Len(s)
           p == s \o r
<1>1. /\ p \in Path /\ n \in Nat /\ Len(r) \in Nat /\ Len(p) = n + Len(r)
      /\ \A j \in 1 .. Len(r) : p[n + j] = r[j]
  BY ConcatFacts
<1>2. (\A i \in 1 .. Len(p) : p[i] = "/" /\ i > 1 => p[i - 1] # "/") /\ \A i \in 1 .. Len(p) : p[i] # "%2F"
  BY DEF Single, NoEscape
<1> HIDE DEF p
<1>3. \A j \in 1 .. Len(r) : n + j \in 1 .. Len(p)
  BY <1>1
<1>4. NoEscape(r)
  BY <1>1, <1>2, <1>3 DEF NoEscape
<1>5. ASSUME NEW j \in 1 .. Len(r), r[j] = "/", j > 1 PROVE r[j - 1] # "/"
  <2>1. p[n + j] = "/" /\ n + j > 1 /\ n + j \in 1 .. Len(p)
    BY <1>1, <1>3, <1>5
  <2>2. p[(n + j) - 1] # "/"
    BY <1>2, <2>1
  <2>3. j - 1 \in 1 .. Len(r) /\ n + (j - 1) = (n + j) - 1
    BY <1>1, <1>5
  <2> QED
    BY <1>1, <2>2, <2>3
<1> QED
  BY <1>4, <1>5 DEF Single

LEMMA FirstsCanonical ==
    ASSUME NEW r \in Path, NEW m \in 0 .. Len(r), Single(r), NoEscape(r)
    PROVE  Single(SubSeq(r, 1, m)) /\ NoEscape(SubSeq(r, 1, m))
<1> DEFINE b == SubSeq(r, 1, m)
<1>1. Len(r) \in Nat /\ m \in Nat /\ m <= Len(r)
  BY DEF Path
<1>2. b \in Path /\ Len(b) = m /\ \A i \in 1 .. m : b[i] = r[i]
  BY FirstsFacts
<1> HIDE DEF b
<1>3. \A i \in 1 .. m : i \in 1 .. Len(r) /\ (i > 1 => i - 1 \in 1 .. m)
  BY <1>1
<1>4. NoEscape(b)
  BY <1>2, <1>3 DEF NoEscape
<1>5. Single(b)
  BY <1>2, <1>3 DEF Single
<1> QED
  BY <1>4, <1>5 DEF b

----------------------------------------------------------------------------
\* The prefix as it is normalised.
Prefixed == PrefixLeadingDirectoryPath(cfg)

(***************************************************************************)
(* What the stylesheet takes the prefix to be, N: with the prefix D as S3  *)
(* knows it, whatever follows "/" \o N follows D \o "/".                   *)
(***************************************************************************)
LEMMA PrefixOfLinks ==
    ASSUME cfg.prefix \in Path, SettingsUndone
    PROVE  /\ NormalizedPrefixPath \in Path
           /\ \A x \in Path :
                 /\ <<"/">> \o (NormalizedPrefixPath \o x) = Decoded(Prefixed) \o (<<"/">> \o x)
                 /\ StripPrefix(NormalizedPrefixPath \o x) = x
<1> DEFINE P == Prefixed
           D == Decoded(P)
           N == NormalizedPrefixPath
           T == Tail(D)
<1>1. /\ P \in Path /\ (P # << >> => Last(P) # "/" /\ Head(P) = "/" /\ Last(P) # "%2F")
  BY PrefixFacts, PrefixHead DEF SettingsUndone, Prefixed
<1>2. D \in Path /\ Len(D) = Len(P)
      /\ (P # << >> => D # << >> /\ Head(D) = "/" /\ Last(D) # "/")
  <2> HIDE DEF P
  <2> QED
    BY <1>1, DecodedFacts, DecodedEnds
<1>3. <<"/">> \in Path /\ "/" \in Token
  BY OneSlash DEF Token
<1>4. N \in Path /\ \A x \in Path : <<"/">> \o (N \o x) = D \o (<<"/">> \o x)
  <2>1. CASE P = << >>
    <3>1. D = << >>
      BY <1>1, <1>2, <2>1 DEF Path
    <3>2. N = << >>
      BY <3>1 DEF NormalizedPrefixPath, WithoutLeadingSlash, P, Prefixed
    <3>3. \A x \in Path : << >> \o x = x /\ << >> \o (<<"/">> \o x) = <<"/">> \o x
      BY <1>3 DEF Path
    <3> QED
      BY <3>1, <3>2, <3>3, BucketPath
  <2>2. CASE P # << >>
    <3>1. D # << >> /\ Head(D) = "/" /\ Last(D) # "/" /\ D \in Seq(Token)
      BY <1>2, <2>2 DEF Path
    <3> HIDE DEF D
    <3>2. T \in Path /\ Len(T) = Len(D) - 1 /\ Len(D) \in Nat \ {0} /\ \A i \in 1 .. Len(T) : T[i] = D[i + 1]
      BY <3>1, HeadTailProperties DEF Path
    <3>3. D = <<"/">> \o T
      BY <1>2, <3>1, FirstApart
    <3>4. T # << >> /\ Last(T) # "/"
      <4> HIDE DEF T
      <4>1. Len(T) # 0
        <5>1. Len(D) # 1
          BY <3>1 DEF Last
        <5> QED
          BY <3>2, <5>1
      <4>2. Len(T) \in 1 .. Len(T) /\ Len(T) + 1 = Len(D)
        BY <3>2, <4>1
      <4>3. T[Len(T)] = D[Len(D)]
        <5>1. T[Len(T)] = D[Len(T) + 1]
          BY <3>2, <4>2
        <5> QED
          BY <4>2, <5>1
      <4>4. T # << >>
        BY <4>1
      <4> QED
        BY <3>1, <4>3, <4>4 DEF Last
    <3>5. WithoutLeadingSlash(D) = T
      BY <3>1 DEF WithoutLeadingSlash
    <3>6. N = Append(T, "/")
      <4> HIDE DEF T
      <4> QED
        BY <3>4, <3>5 DEF NormalizedPrefixPath, D, P, Prefixed
    <3> HIDE DEF T
    <3>7. N = T \o <<"/">>
      BY <3>2, <3>6 DEF Path
    <3>8. N \in Path
      BY <1>3, <3>2, <3>7 DEF Path
    <3>9. ASSUME NEW x \in Path PROVE <<"/">> \o (N \o x) = D \o (<<"/">> \o x)
      <4>1. (T \o <<"/">>) \o x = T \o (<<"/">> \o x) /\ <<"/">> \o x \in Path
        BY <1>3, <3>2 DEF Path
      <4>2. \A y \in Path : <<"/">> \o (T \o y) = (<<"/">> \o T) \o y
        BY <1>3, <3>2 DEF Path
      <4> QED
        BY <3>3, <3>7, <4>1, <4>2
    <3> QED
      BY <3>8, <3>9 DEF D
  <2> QED
    BY <2>1, <2>2
<1> HIDE DEF N
<1>5. \A x \in Path : StripPrefix(N \o x) = x
  BY <1>4, PrefixOfConcat DEF StripPrefix, N
<1> QED
  BY <1>4, <1>5 DEF N, D, P

\* The leading slash apart from the rest, and back.
LEMMA AfterSlash ==
    ASSUME NEW x \in Path
    PROVE  WithoutLeadingSlash(<<"/">> \o x) = x /\ <<"/">> \o x \in Path
BY OneFirst DEF WithoutLeadingSlash, Path, Token

(***************************************************************************)
(* A directory that is listed: what is stripped, if anything, and the      *)
(* rest, a path of its own.                                                *)
(***************************************************************************)
Rest(r) ==
    /\ r \in Path /\ Len(r) >= 1 /\ r[1] = "/" /\ Last(r) = "/" /\ Single(r) /\ NoEscape(r)

LEMMA StripCanonical ==
    ASSUME cfg.strip \in Path, cfg.root \in Path, SettingsUndone
    PROVE  LET s == StripLeadingDirectoryPath(cfg)
           IN  /\ s \in Path /\ Single(s) /\ (s # << >> => Last(s) # "/" /\ Head(s) = "/")
               /\ <<"/">> \o cfg.root = s \o <<"/">>
<1> DEFINE s == StripLeadingDirectoryPath(cfg)
<1>1. s \in Path /\ (s # << >> => Last(s) # "/")
  BY TrimFacts DEF StripLeadingDirectoryPath
<1>2. CollapseDuplicateSlashes(s) = s /\ <<"/">> \o cfg.root = Append(s, "/")
  BY DEF SettingsUndone, Canonical
<1> HIDE DEF s
<1>3. Single(s)
  BY <1>1, <1>2, SingleFacts
<1>4. "/" \in Token /\ Append(s, "/") = s \o <<"/">>
  BY <1>1 DEF Path, Token
<1>5. Head(<<"/">> \o cfg.root) = "/"
  BY OneFirst, <1>4 DEF Path
<1>6. s # << >> => Head(s) = "/"
  BY <1>1, <1>2, <1>4, <1>5, AppendFacts
<1> QED
  BY <1>1, <1>2, <1>3, <1>4, <1>6 DEF s

\* How a path below what is stripped is rewritten.
LEMMA RewrittenBelow ==
    ASSUME cfg.strip \in Path, cfg.prefix \in Path, cfg.root \in Path, SettingsUndone,
           NEW r \in Path, Len(r) >= 1, r[1] = "/", Single(r)
    PROVE  LET s == StripLeadingDirectoryPath(cfg)
           IN  /\ UriPath(cfg, s \o r) = Prefixed \o r
               /\ ~IsPrefix(s, r) => UriPath(cfg, r) = Prefixed \o r
               /\ CollapseDuplicateSlashes(Prefixed \o r) = Prefixed \o r
               /\ Prefixed \o r \in Path
               /\ Last(Prefixed \o r) = Last(r)
               /\ Decoded(Prefixed \o r) = Decoded(Prefixed) \o Decoded(r)
<1> DEFINE s == StripLeadingDirectoryPath(cfg)
           P == Prefixed
<1>1. s \in Path /\ Single(s) /\ (s # << >> => Last(s) # "/")
  BY StripCanonical
<1>2. P \in Path /\ (P # << >> => Last(P) # "/") /\ CollapseDuplicateSlashes(P) = P
  BY PrefixFacts DEF Prefixed, SettingsUndone
<1> HIDE DEF s, P
<1>3. CollapseDuplicateSlashes(s) = s /\ CollapseDuplicateSlashes(r) = r
  BY <1>1, SingleFacts
<1>4. CollapseDuplicateSlashes(s \o r) = s \o r
  <2>1. CollapseDuplicateSlashes(s \o r) = CollapseDuplicateSlashes(s) \o CollapseDuplicateSlashes(r)
    BY <1>1, CollapseConcat
  <2> QED
    BY <1>3, <2>1
<1>5. CollapseDuplicateSlashes(P \o r) = P \o r
  <2>1. CollapseDuplicateSlashes(P \o r) = CollapseDuplicateSlashes(P) \o CollapseDuplicateSlashes(r)
    BY <1>2, CollapseConcat
  <2> QED
    BY <1>2, <1>3, <2>1
<1>6. IsPrefix(s, s \o r) /\ SubSeq(s \o r, Len(s) + 1, Len(s \o r)) = r
  BY <1>1, PrefixOfConcat
<1>7. UriPath(cfg, s \o r) = P \o r
  BY <1>4, <1>6 DEF UriPath, UriFullPath, s, P, Prefixed
<1>8. ~IsPrefix(s, r) => UriPath(cfg, r) = P \o r
  BY <1>3 DEF UriPath, UriFullPath, s, P, Prefixed
<1>9. r # << >>
  OBVIOUS
<1>10. P \o r \in Path /\ Last(P \o r) = Last(r) /\ Decoded(P \o r) = Decoded(P) \o Decoded(r)
  BY <1>2, <1>9, ConcatFacts, ConcatLast, DecodedConcat
<1> QED
  BY <1>5, <1>7, <1>8, <1>10 DEF s, P

(***************************************************************************)
(* A directory that is listed.                                             *)
(***************************************************************************)
LEMMA ListedDirectory ==
    ASSUME TypeInv, SettingsUndone, IsDirectory(UriPath(cfg, path)), Canonical(path),
           ~CutInsideSegment(path)
    PROVE  LET s == StripLeadingDirectoryPath(cfg)
           IN  \E r : Rest(r) /\ (path = s \o r \/ (path = r /\ ~IsPrefix(s, r)))
<1> DEFINE s == StripLeadingDirectoryPath(cfg)
           P == Prefixed
<1>1. /\ cfg.strip \in Path /\ cfg.root \in Path /\ cfg.prefix \in Path /\ path \in Path
      /\ path # << >> /\ Head(path) = "/"
  BY ConfigFacts DEF TypeInv
<1>2. CollapseDuplicateSlashes(path) = path /\ Single(path) /\ NoEscape(path)
  BY <1>1, SingleFacts DEF Canonical, Contains, NoEscape
<1>3. IsDirectory(path)
  BY <1>1, UriPathFacts
<1>4. Len(path) \in Nat \ {0} /\ path[1] = "/" /\ Last(path) = "/"
  BY <1>1, <1>3 DEF Path, IsDirectory
<1>5. s \in Path
  BY <1>1, StripCanonical
<1>6. P \in Path /\ (P # << >> => Last(P) # "/")
  BY <1>1, PrefixFacts DEF Prefixed
<1>7. CASE ~IsPrefix(s, path)
  BY <1>1, <1>2, <1>4, <1>7 DEF Rest
<1>8. CASE IsPrefix(s, path)
  <2> DEFINE r == SubSeq(path, Len(s) + 1, Len(path))
  <2>1. r \in Path /\ path = s \o r /\ Len(s) \in Nat
    BY <1>1, <1>5, <1>8, PrefixSplits DEF Path
  <2>2. UriPath(cfg, path) = P \o r
    BY <1>2, <1>8 DEF UriPath, UriFullPath, P, Prefixed
  <2> HIDE DEF s, P, r
  <2>3. r # << >>
    <3>1. ASSUME r = << >> PROVE FALSE
      <4>1. P \o r = P
        BY <1>6, <3>1 DEF Path
      <4> QED
        BY <1>6, <2>2, <4>1 DEF IsDirectory
    <3> QED
      BY <3>1
  <2>4. Len(r) \in Nat \ {0} /\ Len(path) = Len(s) + Len(r) /\ path[Len(s) + 1] = r[1]
    <3>1. Len(r) \in Nat \ {0}
      BY <2>1, <2>3 DEF Path
    <3>2. Len(s \o r) = Len(s) + Len(r) /\ \A j \in 1 .. Len(r) : (s \o r)[Len(s) + j] = r[j]
      BY <1>5, <2>1, ConcatFacts
    <3>3. (s \o r)[Len(s) + 1] = r[1]
      <4>1. 1 \in 1 .. Len(r)
        BY <3>1
      <4> QED
        BY <3>2, <4>1
    <3> QED
      BY <2>1, <3>1, <3>2, <3>3
  <2>5. r[1] = "/"
    <3>1. CASE s = << >>
      <4>1. s \o r = r
        BY <2>1, <3>1 DEF Path
      <4> QED
        BY <1>4, <2>1, <4>1
    <3>2. CASE s # << >>
      <4>1. Len(path) > Len(s)
        BY <2>1, <2>4
      <4>2. path[Len(s) + 1] = "/"
        BY <1>8, <3>2, <4>1 DEF CutInsideSegment, s
      <4> QED
        BY <2>4, <4>2
    <3> QED
      BY <3>1, <3>2
  <2>6. Last(r) = "/"
    BY <1>4, <1>5, <2>1, <2>3, ConcatLast
  <2>7. Single(r) /\ NoEscape(r)
    BY <1>2, <1>5, <2>1, RestCanonical
  <2>8. Rest(r)
    BY <2>1, <2>4, <2>5, <2>6, <2>7 DEF Rest
  <2> QED
    BY <2>1, <2>8 DEF s
<1> QED
  BY <1>7, <1>8 DEF s

\* The prefix S3 is asked to list for a path.
Shown(p) == ListPrefix(CollapseDuplicateSlashes(UriPath(cfg, p)))

\* The directory S3 is asked for, and the part of it that the links show.
LEMMA DirectoryShown ==
    ASSUME cfg.strip \in Path, cfg.prefix \in Path, cfg.root \in Path, SettingsUndone,
           NEW p, NEW r \in Path, Len(r) >= 1, r[1] = "/", Single(r), NoEscape(r),
           LET s == StripLeadingDirectoryPath(cfg) IN p = s \o r \/ (p = r /\ ~IsPrefix(s, r))
    PROVE  /\ CollapseDuplicateSlashes(UriPath(cfg, p)) = Prefixed \o r
           /\ Tail(r) \in Path /\ r = <<"/">> \o Tail(r)
           /\ Shown(p) = NormalizedPrefixPath \o Tail(r)
           /\ <<"/">> \o Shown(p) = Decoded(Prefixed) \o r
<1> DEFINE P == Prefixed
           D == Decoded(P)
           N == NormalizedPrefixPath
           t == Tail(r)
<1>1. /\ UriPath(cfg, p) = P \o r /\ CollapseDuplicateSlashes(P \o r) = P \o r
      /\ P \o r \in Path /\ Decoded(P \o r) = D \o Decoded(r)
  BY RewrittenBelow
<1>2. Decoded(r) = r
  BY DecodedPlain DEF NoEscape
<1>3. t \in Path /\ r = <<"/">> \o t
  <2>1. r # << >> /\ Head(r) = "/"
    BY DEF Path
  <2> QED
    BY <2>1, FirstApart
<1> HIDE DEF P, D, N, t
<1>4. N \in Path /\ <<"/">> \o (N \o t) = D \o (<<"/">> \o t)
  BY <1>3, PrefixOfLinks DEF N, D, P
<1>5. N \o t \in Path
  BY <1>3, <1>4 DEF Path
<1>6. Shown(p) = WithoutLeadingSlash(<<"/">> \o (N \o t))
  BY <1>1, <1>2, <1>3, <1>4 DEF Shown, ListPrefix
<1>7. Shown(p) = N \o t
  BY <1>5, <1>6, AfterSlash
<1> QED
  BY <1>1, <1>3, <1>4, <1>7 DEF P, D, N, t

\* A name is appended to a path without disturbing it.
LEMMA CanonicalConcat ==
    ASSUME NEW r \in Path, NEW z \in Path, Single(r), NoEscape(r), Single(z), NoEscape(z),
           Len(r) >= 1, r[1] = "/", z # << >>, Head(z) # "/"
    PROVE  /\ r \o z \in Path /\ Len(r \o z) >= 1 /\ (r \o z)[1] = "/"
           /\ Single(r \o z) /\ NoEscape(r \o z)
<1>1. /\ r \o z \in Path /\ Len(r \o z) = Len(r) + Len(z) /\ Len(r) \in Nat /\ Len(z) \in Nat
      /\ \A i \in 1 .. Len(r) : (r \o z)[i] = r[i]
      /\ \A j \in 1 .. Len(z) : (r \o z)[Len(r) + j] = z[j]
  BY ConcatFacts
<1>2. CollapseDuplicateSlashes(r \o z) = CollapseDuplicateSlashes(r) \o CollapseDuplicateSlashes(z)
  BY CollapseConcat
<1>3. Single(r \o z)
  <2>1. CollapseDuplicateSlashes(r) = r /\ CollapseDuplicateSlashes(z) = z
    BY SingleFacts
  <2>2. CollapseDuplicateSlashes(r \o z) = r \o z
    BY <1>2, <2>1
  <2> QED
    BY <1>1, <2>2, SingleFacts
<1> DEFINE p == r \o z
<1> HIDE DEF p
<1>4. NoEscape(p)
  <2> SUFFICES ASSUME NEW i \in 1 .. Len(p) PROVE p[i] # "%2F"
    BY DEF NoEscape
  <2>1. CASE i \in 1 .. Len(r)
    BY <1>1, <2>1 DEF p, NoEscape
  <2>2. CASE i \notin 1 .. Len(r)
    <3>1. i - Len(r) \in 1 .. Len(z) /\ Len(r) + (i - Len(r)) = i
      BY <1>1, <2>2 DEF p
    <3>2. p[Len(r) + (i - Len(r))] = z[i - Len(r)]
      BY <1>1, <3>1 DEF p
    <3> QED
      BY <3>1, <3>2 DEF NoEscape
  <2> QED
    BY <2>1, <2>2
<1>5. Len(p) >= 1 /\ p[1] = "/"
  <2>1. 1 \in 1 .. Len(r)
    BY <1>1
  <2> QED
    BY <1>1, <2>1 DEF p
<1> QED
  BY <1>1, <1>3, <1>4, <1>5 DEF p

----------------------------------------------------------------------------
\* A name, and a name with a slash after it, are canonical paths.
LEMMA NameFacts ==
    ASSUME NEW name \in Token \ {"/", "%2F"}
    PROVE  /\ <<name>> \in Path /\ <<name>> # << >> /\ Head(<<name>>) # "/" /\ Last(<<name>>) # "/"
           /\ Single(<<name>>) /\ NoEscape(<<name>>)
           /\ <<name, "/">> \in Path /\ <<name, "/">> # << >> /\ Head(<<name, "/">>) # "/"
           /\ Single(<<name, "/">>) /\ NoEscape(<<name, "/">>)
<1> DEFINE a == <<name>>
           b == <<name, "/">>
<1>1. a \in Path /\ a # << >> /\ Len(a) = 1 /\ a[1] = name
  BY DEF Path
<1>2. b \in Path /\ b # << >> /\ Len(b) = 2 /\ b[1] = name /\ b[2] = "/"
  <2>1. b \in [1 .. 2 -> Token]
    BY DEF Token
  <2>2. b \in Seq(Token)
    BY <2>1, FunctionIsSeq
  <2> QED
    BY <2>2 DEF Path
<1>3. Head(a) = a[1] /\ Head(b) = b[1] /\ Last(a) = a[1]
  BY <1>1, <1>2 DEF Path, Last
<1> HIDE DEF a, b
<1>4. Single(a) /\ NoEscape(a)
  BY <1>1 DEF Single, NoEscape
<1>5. NoEscape(b)
  <2>1. \A i \in 1 .. 2 : i = 1 \/ i = 2
    OBVIOUS
  <2> QED
    BY <1>2, <2>1 DEF NoEscape
<1>6. Single(b)
  <2>1. \A i \in 1 .. 2 : i > 1 => i - 1 = 1
    OBVIOUS
  <2> QED
    BY <1>2, <2>1 DEF Single
<1> QED
  BY <1>1, <1>2, <1>3, <1>4, <1>5, <1>6 DEF a, b

\* The link of an entry z of the directory r.
LEMMA LinkMeans ==
    ASSUME cfg.strip \in Path, cfg.prefix \in Path, cfg.root \in Path, SettingsUndone,
           NEW r, Rest(r), NEW z \in Path, z # << >>, Head(z) # "/", Single(z), NoEscape(z)
    PROVE  LET dir == NormalizedPrefixPath \o Tail(r)
               p   == EntryLink(dir \o z)
           IN  /\ CollapseDuplicateSlashes(UriPath(cfg, p)) \in Path
               /\ Last(CollapseDuplicateSlashes(UriPath(cfg, p))) = Last(z)
               /\ Shown(p) = dir \o z
<1> DEFINE s == StripLeadingDirectoryPath(cfg)
           N == NormalizedPrefixPath
           t == Tail(r)
           dir == N \o t
           p == EntryLink(dir \o z)
           y == r \o z
<1>1. r \in Path /\ Len(r) >= 1 /\ r[1] = "/" /\ Single(r) /\ NoEscape(r)
  BY DEF Rest
<1>2. y \in Path /\ Len(y) >= 1 /\ y[1] = "/" /\ Single(y) /\ NoEscape(y)
  BY <1>1, CanonicalConcat
<1>3. t \in Path /\ r = <<"/">> \o t
  <2>1. \/ s \o r = s \o r \/ (s \o r = r /\ ~IsPrefix(s, r))
    OBVIOUS
  <2> QED
    BY <1>1, <2>1, DirectoryShown
<1>4. N \in Path /\ \A x \in Path : StripPrefix(N \o x) = x
  BY PrefixOfLinks
<1>5. s \in Path /\ <<"/">> \o cfg.root = s \o <<"/">> /\ <<"/">> \in Path
  BY StripCanonical, OneSlash
<1> HIDE DEF s, N, t
<1>6. t \o z \in Path /\ dir \o z = N \o (t \o z)
  BY SMTT(30), <1>3, <1>4 DEF Path
<1>7. y = <<"/">> \o (t \o z)
  <2>1. (<<"/">> \o t) \o z = <<"/">> \o (t \o z)
    BY <1>3, <1>5 DEF Path
  <2> QED
    BY <1>3, <2>1
<1>8. p = s \o y
  <2>1. StripPrefix(dir \o z) = t \o z
    BY <1>4, <1>6
  <2>2. EntryLink(dir \o z) = <<"/">> \o cfg.root \o (t \o z)
    BY <2>1 DEF EntryLink
  <2>3. EntryLink(dir \o z) = (s \o <<"/">>) \o (t \o z)
    BY <1>5, <2>2
  <2>4. (s \o <<"/">>) \o (t \o z) = s \o (<<"/">> \o (t \o z))
    BY SMTT(30), <1>5, <1>6 DEF Path
  <2> QED
    BY <1>7, <2>3, <2>4
<1>9. Last(y) = Last(z)
  BY <1>1, ConcatLast
<1> HIDE DEF y, p
<1>10. /\ CollapseDuplicateSlashes(UriPath(cfg, p)) = Prefixed \o y
       /\ Shown(p) = N \o Tail(y)
  BY <1>2, <1>8, DirectoryShown DEF s, N
<1>11. Tail(y) = t \o z
  BY <1>6, <1>7, OneFirst DEF Path, Token
<1>12. Prefixed \o y \in Path /\ Last(Prefixed \o y) = Last(y)
  BY <1>2, RewrittenBelow
<1> QED
  BY <1>6, <1>9, <1>10, <1>11, <1>12 DEF p, N, t

\* The parent of the directory r is a directory of the same kind.
LEMMA ParentRest ==
    ASSUME NEW r, Rest(r), Tail(r) # << >>
    PROVE  Len(r) >= 2 /\ Rest(ParentOf(r)) /\ IsPrefix(ParentOf(r), r)
<1>1. r \in Path /\ Len(r) >= 1 /\ r[1] = "/" /\ Single(r) /\ NoEscape(r) /\ Len(r) \in Nat
  BY DEF Rest, Path
<1>2. Len(r) >= 2
  <2>1. r # << >> /\ Len(Tail(r)) = Len(r) - 1 /\ Tail(r) \in Seq(Token)
    BY <1>1, HeadTailProperties DEF Path
  <2>2. Len(Tail(r)) # 0
    BY <2>1
  <2> QED
    BY <1>1, <2>1, <2>2
<1>3. PICK m \in 1 .. Len(r) - 1 : r[m] = "/" /\ ParentOf(r) = SubSeq(r, 1, m)
  BY <1>1, <1>2, ParentWhere
<1> DEFINE b == SubSeq(r, 1, m)
<1>4. m \in 0 .. Len(r) /\ m \in 1 .. m /\ m \in Nat \ {0} /\ 1 \in 1 .. m /\ m <= Len(r)
  BY <1>1
<1>5. b \in Path /\ Len(b) = m /\ (\A i \in 1 .. m : b[i] = r[i]) /\ Single(b) /\ NoEscape(b)
  BY <1>1, <1>4, FirstsFacts, FirstsCanonical
<1> HIDE DEF b
<1>6. Rest(b)
  BY <1>1, <1>3, <1>4, <1>5 DEF Rest, Last
<1>7. IsPrefix(b, r)
  BY <1>1, <1>4, <1>5, PrefixMeans
<1> QED
  BY <1>2, <1>3, <1>6, <1>7 DEF b

LEMMA PrefixTransitive ==
    ASSUME NEW a \in Path, NEW b \in Path, NEW c \in Path, IsPrefix(a, b), IsPrefix(b, c)
    PROVE  IsPrefix(a, c)
<1>1. Len(a) \in Nat /\ Len(b) \in Nat /\ Len(c) \in Nat
  BY DEF Path
<1>2. Len(a) <= Len(b) /\ Len(b) <= Len(c) /\ (\A i \in 1 .. Len(a) : a[i] = b[i])
      /\ \A i \in 1 .. Len(b) : b[i] = c[i]
  BY PrefixMeans
<1>3. Len(a) <= Len(c) /\ \A i \in 1 .. Len(a) : i \in 1 .. Len(b)
  BY <1>1, <1>2
<1>4. \A i \in 1 .. Len(a) : a[i] = c[i]
  BY <1>2, <1>3
<1> QED
  BY <1>3, <1>4, PrefixMeans

(***************************************************************************)
(* Following a link of a listing page, up or down, comes to what the link  *)
(* stands for, whatever the prefix, the strip expression and the root,     *)
(* given that the settings undo each other.                                *)
(***************************************************************************)
THEOREM LinksLead == Spec => []LinksLeadToWhatTheyName
<1>1. TypeInv => LinksLeadToWhatTheyName
  <2> DEFINE s == StripLeadingDirectoryPath(cfg)
             N == NormalizedPrefixPath
             D == Decoded(Prefixed)
             dir == Shown(path)
             Get(p) == [path |-> p, method |-> "GET", forIndexPage |-> TRUE, marker |-> << >>]
  <2> SUFFICES ASSUME TypeInv, SettingsUndone, cfg.listing, IsDirectory(UriPath(cfg, path)),
                      Canonical(path), ~CutInsideSegment(path)
               PROVE  /\ \A name \in Tokens \ {"/", "%2F"} :
                            /\ KeyOf(cfg, S3uri(cfg, Get(EntryLink(Append(dir, name))))) = Append(dir, name)
                            /\ Shown(EntryLink(dir \o <<name, "/">>)) = dir \o <<name, "/">>
                      /\ HasParentLink(dir)
                            => <<"/">> \o Shown(ParentOf(path)) = ParentOf(<<"/">> \o dir)
    BY DEF LinksLeadToWhatTheyName, Shown
  <2>1. cfg.strip \in Path /\ cfg.prefix \in Path /\ cfg.root \in Path
    BY ConfigFacts DEF TypeInv
  <2>2. s \in Path
    BY <2>1, StripCanonical
  <2>3. PICK r : Rest(r) /\ (path = s \o r \/ (path = r /\ ~IsPrefix(s, r)))
    BY ListedDirectory
  <2>4. r \in Path /\ Len(r) >= 1 /\ r[1] = "/" /\ Single(r) /\ NoEscape(r)
    BY <2>3 DEF Rest
  <2>5. Tail(r) \in Path /\ dir = N \o Tail(r) /\ <<"/">> \o dir = D \o r
    BY <2>1, <2>3, <2>4, DirectoryShown
  <2>6. N \in Path /\ StripPrefix(dir) = Tail(r) /\ dir \in Path
    <3>1. N \in Path /\ StripPrefix(N \o Tail(r)) = Tail(r)
      BY <2>1, <2>5, PrefixOfLinks
    <3> QED
      BY <2>5, <3>1 DEF Path
  <2> HIDE DEF dir, N
  <2>7. ASSUME NEW name \in Tokens \ {"/", "%2F"}
        PROVE  /\ KeyOf(cfg, S3uri(cfg, Get(EntryLink(Append(dir, name))))) = Append(dir, name)
               /\ Shown(EntryLink(dir \o <<name, "/">>)) = dir \o <<name, "/">>
    <3>1. name \in Token \ {"/", "%2F"}
      BY TokensAssumption
    <3> DEFINE p == EntryLink(dir \o <<name>>)
               u == CollapseDuplicateSlashes(UriPath(cfg, p))
    <3>2. u \in Path /\ Last(u) = Last(<<name>>) /\ Shown(p) = dir \o <<name>>
      BY <2>1, <2>3, <2>5, <3>1, NameFacts, LinkMeans DEF N
    <3>3. Shown(EntryLink(dir \o <<name, "/">>)) = dir \o <<name, "/">>
      BY <2>1, <2>3, <2>5, <3>1, NameFacts, LinkMeans DEF N
    <3>4. Append(dir, name) = dir \o <<name>>
      BY <2>6, <3>1 DEF Path
    <3>5. ~IsDirectory(u)
      BY <3>1, <3>2, NameFacts DEF IsDirectory
    <3>6. Shown(p) = WithoutLeadingSlash(Decoded(u))
      BY DEF Shown, ListPrefix
    <3> HIDE DEF p
    <3>7. Get(p).forIndexPage = TRUE /\ Get(p).path = p
      OBVIOUS
    <3> DEFINE g == Get(p)
    <3> HIDE DEF g
    <3>8. g.forIndexPage = TRUE /\ g.path = p
      BY <3>7 DEF g
    <3>9. KeyOf(cfg, S3uri(cfg, g)) = WithoutLeadingSlash(Decoded(u))
      BY <3>2, <3>5, <3>8, ObjectLine
    <3>10. KeyOf(cfg, S3uri(cfg, g)) = Append(dir, name)
      BY <3>2, <3>4, <3>6, <3>9
    <3> QED
      BY <3>3, <3>4, <3>10 DEF g, p
  <2>8. ASSUME HasParentLink(dir)
        PROVE  <<"/">> \o Shown(ParentOf(path)) = ParentOf(<<"/">> \o dir)
    <3> DEFINE b == ParentOf(r)
    <3>1. Tail(r) # << >>
      BY <2>6, <2>8 DEF HasParentLink
    <3>2. Len(r) >= 2 /\ Rest(b) /\ IsPrefix(b, r)
      BY <2>3, <3>1, ParentRest
    <3>3. b \in Path /\ Len(b) >= 1 /\ b[1] = "/" /\ Single(b) /\ NoEscape(b)
      BY <3>2 DEF Rest
    <3>4. ParentOf(path) = s \o b \/ (ParentOf(path) = b /\ ~IsPrefix(s, b))
      <4>1. CASE path = s \o r
        BY <2>2, <2>4, <3>2, <4>1, ParentConcat
      <4>2. CASE path = r /\ ~IsPrefix(s, r)
        BY <2>2, <2>4, <3>2, <3>3, <4>2, PrefixTransitive
      <4> QED
        BY <2>3, <4>1, <4>2
    <3> HIDE DEF b, s
    <3>5. <<"/">> \o Shown(ParentOf(path)) = D \o b
      BY <2>1, <3>3, <3>4, DirectoryShown DEF s
    <3>6. D \in Path
      BY <2>1, PrefixFacts, DecodedFacts DEF Prefixed
    <3>7. ParentOf(D \o r) = D \o b
      BY <2>4, <3>2, <3>6, ParentConcat DEF b
    <3> QED
      BY <2>5, <3>5, <3>7
  <2> QED
    BY <2>7, <2>8
<1> QED
  BY <1>1, TypeCorrect, PTL
=============================================================================

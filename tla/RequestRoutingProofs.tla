------------------------ MODULE RequestRoutingProofs ------------------------
(***************************************************************************)
(* Proofs about RequestRouting, for all configurations, paths and header   *)
(* names the assumptions allow: the invariants, from one inductive         *)
(* invariant that says what a request must have been through to be at its  *)
(* location, and the refinement of Gateway, action by action.              *)
(***************************************************************************)
EXTENDS RequestRouting, PathRewriteProofs

----------------------------------------------------------------------------
(***************************************************************************)
(* What the assumptions say of one configuration, and of the paths and     *)
(* request lines it makes.                                                 *)
(***************************************************************************)
LEMMA ConfigFacts ==
    ASSUME NEW c \in Configs
    PROVE  /\ c.listing \in BOOLEAN /\ c.index \in BOOLEAN /\ c.slash \in BOOLEAN
           /\ c.cors \in BOOLEAN /\ c.emptyIs404 \in BOOLEAN
           /\ c.strip \in Path /\ c.prefix \in Path /\ c.pageSize \in Nat
           /\ c.stripHeaders \in Seq(STRING) /\ c.allowHeaders \in Seq(STRING)
           /\ WellSeparated(c.stripHeaders) /\ WellSeparated(c.allowHeaders)
<1>1. c \in Configurations /\ WellSeparated(c.stripHeaders) /\ WellSeparated(c.allowHeaders)
  BY ConfigsAssumption
<1> QED
  BY <1>1 DEF Configurations

LEMMA RewrittenFacts ==
    ASSUME NEW c \in Configs, NEW p \in Path
    PROVE  LET u == CollapseDuplicateSlashes(UriPath(c, p))
           IN  /\ UriPath(c, p) \in Path /\ u \in Path
               /\ IsDirectory(u) <=> IsDirectory(UriPath(c, p))
               /\ IsDirectory(u) => IsDirectory(p)
<1>1. UriPath(c, p) \in Path /\ (IsDirectory(UriPath(c, p)) => IsDirectory(p))
  BY ConfigFacts, UriPathFacts
<1> QED
  BY <1>1, CollapseType, CollapseDirectory

Query == [prefix : Path, marker : Path, maxKeys : Seq(Nat)]

LEMMA QueryType ==
    ASSUME NEW c \in Configs, NEW u \in Path, NEW m, NEW marker \in Path
    PROVE  S3DirQueryParams(c, u, m, marker) \in Seq(Query)
<1>1. ListPrefix(u) \in Path
  BY DecodedFacts, WithoutLeadingSlashFacts DEF ListPrefix
<1>2. ListRequestMarker(marker) \in Path
  BY BucketPath DEF ListRequestMarker
<1>3. S3Marker(ListPrefix(u), ListRequestMarker(marker)) \in Path
  <2>1. \A s, t \in Path : s \o t \in Path
    BY DEF Path
  <2> QED
    BY <1>1, <1>2, <2>1, BucketPath DEF S3Marker
<1>4. ListMaxKeys(c) \in Seq(Nat)
  BY ConfigFacts DEF ListMaxKeys
<1> DEFINE line == [prefix  |-> ListPrefix(u),
                    marker  |-> S3Marker(ListPrefix(u), ListRequestMarker(marker)),
                    maxKeys |-> ListMaxKeys(c)]
<1>5. line \in Query
  BY <1>1, <1>3, <1>4 DEF Query
<1>6. S3DirQueryParams(c, u, m, marker) = << >> \/ S3DirQueryParams(c, u, m, marker) = <<line>>
  BY DEF S3DirQueryParams
<1> HIDE DEF line
<1>7. <<line>> \in Seq(Query) /\ << >> \in Seq(Query)
  BY <1>5
<1> QED
  BY <1>6, <1>7

LEMMA LineType ==
    ASSUME NEW c \in Configs, NEW q, q.path \in Path, q.marker \in Path
    PROVE  S3uri(c, q) \in RequestLines
<1> DEFINE base == S3BaseUri(c)
           u == CollapseDuplicateSlashes(UriPath(c, q.path))
           query == S3DirQueryParams(c, u, q.method, q.marker)
<1>1. u \in Path /\ WithIndex(c, u) \in Path /\ base \in Path
  BY RewrittenFacts, WithIndexFacts, BucketPath DEF S3BaseUri
<1>2. query \in Seq(Query) /\ << >> \in Seq(Query)
  BY <1>1, QueryType
<1> HIDE DEF u, base, query
<1>3. \A s, t \in Path : s \o t \in Path
  BY DEF Path
<1>4. EscapeURIPath(base \o u) \in Path /\ EscapeURIPath(base \o WithIndex(c, u)) \in Path
  BY <1>1, <1>3, DecodedFacts DEF EscapeURIPath
<1>5. \/ S3uri(c, q) = [path |-> base, query |-> query]
      \/ S3uri(c, q) = [path |-> EscapeURIPath(base \o u), query |-> << >>]
      \/ S3uri(c, q) = [path |-> EscapeURIPath(base \o WithIndex(c, u)), query |-> << >>]
  BY DEF S3uri, base, u, query
<1>6. RequestLines = [path : Path, query : Seq(Query)]
  BY DEF RequestLines, Query
<1>7. \A s \in Path : \A t \in Seq(Query) : [path |-> s, query |-> t] \in RequestLines
  BY <1>6
<1> QED
  BY <1>1, <1>2, <1>4, <1>5, <1>7

----------------------------------------------------------------------------
(***************************************************************************)
(* $uri and the locations: the probe of a directory goes to the index      *)
(* location, and a path that goes there is no directory.                   *)
(***************************************************************************)
LEMMA NormalUriFacts ==
    ASSUME NEW p \in Path
    PROVE  NormalUri(p) \in Path
BY DecodedFacts, CollapseType DEF NormalUri

LEMMA AppendedIndex ==
    ASSUME NEW p \in Path, IsDirectory(p)
    PROVE  LET a == Append(p, IndexPage)
           IN  a \in Path /\ Len(a) > 1 /\ a[Len(a) - 1] = "/" /\ Last(a) = IndexPage /\ Last(a) # "/"
<1>1. IndexPage \in Token /\ IndexPage # "/" /\ Len(p) \in Nat
  BY DEF Token, IndexPage, Path
<1>2. Len(p) > 0 /\ p[Len(p)] = "/"
  BY <1>1 DEF IsDirectory, Last, Path
<1> DEFINE a == Append(p, IndexPage)
<1>3. a \in Path /\ Len(a) = Len(p) + 1 /\ Last(a) = IndexPage
      /\ \A i \in 1 .. Len(p) : a[i] = p[i]
  BY <1>1, AppendFacts
<1> HIDE DEF a
<1>4. Len(a) - 1 = Len(p) /\ Len(p) \in 1 .. Len(p)
  BY <1>1, <1>2, <1>3
<1>5. Len(a) > 1 /\ a[Len(a) - 1] = "/"
  BY <1>1, <1>2, <1>3, <1>4
<1> QED
  BY <1>1, <1>3, <1>5 DEF a

LEMMA DecodedIndex ==
    ASSUME NEW a \in Path, Len(a) > 1, a[Len(a) - 1] = "/", Last(a) = IndexPage
    PROVE  LET d == Decoded(a)
           IN  d \in Path /\ Len(d) > 1 /\ d[Len(d) - 1] = "/" /\ Last(d) = IndexPage
<1>1. Len(a) \in Nat /\ Len(a) - 1 \in 1 .. Len(a) /\ Len(a) \in 1 .. Len(a)
  BY DEF Path
<1>2. IndexPage # "%2F"
  BY DEF IndexPage
<1> QED
  BY <1>1, <1>2, DecodedFacts DEF Last

LEMMA ProbeIsIndex ==
    ASSUME NEW c \in Configs, c.index, NEW q, q.path \in Path, IsDirectory(UriPath(c, q.path))
    PROVE  LET g == GatewayUri(c, q).path
           IN  /\ g \in Path /\ IsIndexUri(g)
               /\ IsIndexUri(NormalUri(g))
<1> DEFINE f == CollapseDuplicateSlashes(UriFullPath(q.path))
           a == Append(f, IndexPage)
           g == Decoded(a)
           h == Decoded(g)
<1>1. f \in Path /\ IsDirectory(f)
  <2>1. IsDirectory(q.path)
    BY RewrittenFacts
  <2>2. UriFullPath(q.path) \in Path /\ IsDirectory(UriFullPath(q.path))
    BY <2>1, CollapseType, CollapseDirectory DEF UriFullPath
  <2> QED
    BY <2>2, CollapseType, CollapseDirectory
<1>2. GatewayUri(c, q).path = g
  BY <1>1 DEF GatewayUri, WithIndex, EscapeURIPath
<1> HIDE DEF f
<1>3. a \in Path /\ Len(a) > 1 /\ a[Len(a) - 1] = "/" /\ Last(a) = IndexPage
  BY <1>1, AppendedIndex
<1> HIDE DEF a
<1>4. g \in Path /\ Len(g) > 1 /\ g[Len(g) - 1] = "/" /\ Last(g) = IndexPage
  BY <1>3, DecodedIndex
<1> HIDE DEF g
<1>5. h \in Path /\ Len(h) > 1 /\ h[Len(h) - 1] = "/" /\ Last(h) = IndexPage
  BY <1>4, DecodedIndex
<1>6. NormalUri(g) = CollapseDuplicateSlashes(h)
  BY DEF NormalUri
<1> HIDE DEF h
<1>7. IndexPage # "/"
  BY DEF IndexPage
<1>8. IsIndexUri(CollapseDuplicateSlashes(h))
  BY <1>5, <1>7, CollapseLastTwo DEF IsIndexUri
<1> QED
  BY <1>2, <1>4, <1>6, <1>8 DEF IsIndexUri

LEMMA IndexUriIsAFile ==
    ASSUME NEW c \in Configs, NEW p \in Path, IsIndexUri(NormalUri(p))
    PROVE  ~IsDirectory(UriPath(c, p))
<1>1. SUFFICES ASSUME IsDirectory(p) PROVE FALSE
  BY RewrittenFacts
<1>2. p # << >> /\ Last(p) = "/"
  BY <1>1 DEF IsDirectory
<1>3. Decoded(p) \in Path /\ Decoded(p) # << >> /\ Last(Decoded(p)) = "/"
  BY <1>2, DecodedFacts, DecodedEnds
<1>4. Last(NormalUri(p)) = "/"
  BY <1>3, CollapseLast DEF NormalUri
<1> QED
  BY <1>4 DEF IsIndexUri, IndexPage

(***************************************************************************)
(* The redirect to a directory: one leading slash, and for the $uri of a   *)
(* request that $uri itself.                                               *)
(***************************************************************************)
LEMMA MinFacts ==
    ASSUME NEW S \in SUBSET Int, NEW m \in S, \A i \in S : m <= i
    PROVE  Min(S) = m
<1>1. \E x \in S : \A y \in S : x <= y
  OBVIOUS
<1>2. Min(S) \in S /\ \A y \in S : Min(S) <= y
  BY <1>1 DEF Min
<1> HIDE DEF Min
<1>3. Min(S) \in Int /\ m \in Int /\ Min(S) <= m /\ m <= Min(S)
  BY <1>2
<1> QED
  BY <1>3

LEMMA LeastExists ==
    ASSUME NEW S \in SUBSET Int, IsFiniteSet(S), S # {}
    PROVE  \E x \in S : \A y \in S : x <= y
<1> DEFINE n == Cardinality(S)
           m == Nth(S, 1)
<1>1. n \in Nat \ {0}
  BY FS_CardinalityType, FS_EmptySet
<1>2. m \in S /\ 1 \in 1 .. n
  BY <1>1, NthFacts
<1>3. ASSUME NEW i \in S PROVE m <= i
  <2>1. Rank(S, i) \in 1 .. n /\ Nth(S, Rank(S, i)) = i
    BY NthFacts
  <2>2. Rank(S, i) = 1 \/ 1 < Rank(S, i)
    BY <1>1, <2>1
  <2>3. 1 < Rank(S, i) => m < i
    BY <1>2, <2>1, NthFacts
  <2>4. Rank(S, i) = 1 => m = i
    BY <2>1
  <2>5. i \in Int /\ m \in Int
    BY <1>2
  <2> HIDE DEF m
  <2> QED
    BY <2>2, <2>3, <2>4, <2>5
<1> HIDE DEF m
<1> QED
  BY <1>2, <1>3

LEMMA RedirectPath ==
    ASSUME NEW u \in Path
    PROVE  LET t == Append(TrailslashRedirectUri(u), "/")
           IN  t \in Path /\ t # << >> /\ Head(t) = "/"
<1> DEFINE named == {i \in DOMAIN u : u[i] # "/"}
           rest == IF named = {} THEN << >> ELSE SubSeq(u, Min(named), Len(u))
<1>1. Len(u) \in Nat /\ DOMAIN u = 1 .. Len(u) /\ named \subseteq 1 .. Len(u) /\ u \in Seq(Token)
  BY DEF Path
<1>2. rest \in Seq(Token)
  <2>1. CASE named = {}
    BY <2>1, BucketPath DEF Path
  <2>2. CASE named # {}
    <3>1. IsFiniteSet(named) /\ named \in SUBSET Int
      <4>1. IsFiniteSet(1 .. Len(u))
        BY <1>1, FS_Interval
      <4>2. IsFiniteSet(named)
        BY <1>1, <4>1, FS_Subset
      <4> QED
        BY <1>1, <4>2
    <3>2. Min(named) \in named
      BY <2>2, <3>1, LeastExists DEF Min
    <3> DEFINE m == Min(named)
    <3> HIDE DEF m, named
    <3>3. m \in 1 .. Len(u)
      BY <1>1, <3>2 DEF m
    <3>4. SubSeq(u, m, Len(u)) \in Seq(Token)
      BY <1>1, <3>3
    <3> QED
      BY <2>2, <3>4 DEF m
  <2> QED
    BY <2>1, <2>2
<1> DEFINE t == <<"/">> \o rest
<1>3. t \in Path /\ t # << >> /\ Head(t) = "/"
  BY <1>2, OneFirst DEF Path, Token
<1>4. t = TrailslashRedirectUri(u)
  BY DEF TrailslashRedirectUri
<1> HIDE DEF t
<1>5. "/" \in Token
  BY DEF Token
<1> QED
  BY <1>3, <1>4, <1>5, AppendFacts

LEMMA RedirectIsUri ==
    ASSUME NEW p \in Path, p # << >>, Head(p) = "/"
    PROVE  TrailslashRedirectUri(NormalUri(p)) = NormalUri(p)
<1> DEFINE d == Decoded(p)
           u == CollapseDuplicateSlashes(d)
           named == {i \in DOMAIN u : u[i] # "/"}
<1>1. d \in Path /\ d # << >> /\ Head(d) = "/"
  BY DecodedFacts, DecodedEnds
<1>2. NormalUri(p) = u
  BY DEF NormalUri
<1> HIDE DEF d
<1>3. u \in Path /\ u # << >> /\ Head(u) = "/" /\ Len(u) = Cardinality(Kept(d))
  BY <1>1, CollapseType, CollapseFirst
<1>4. \A k \in 1 .. Len(u) : k + 1 \in 1 .. Len(u) /\ u[k] = "/" => u[k + 1] # "/"
  BY <1>1, <1>3, CollapseSingle
<1> HIDE DEF u
<1>5. Len(u) \in Nat \ {0} /\ DOMAIN u = 1 .. Len(u) /\ u[1] = "/" /\ u \in Seq(Token)
  BY <1>3 DEF Path
<1>6. TrailslashRedirectUri(u) = <<"/">> \o IF named = {} THEN << >> ELSE SubSeq(u, Min(named), Len(u))
  BY DEF TrailslashRedirectUri
<1>7. u = <<"/">> \o Tail(u) /\ Tail(u) = SubSeq(u, 2, Len(u))
  <2>1. Tail(u) = SubSeq(u, 2, Len(u))
    BY <1>3, <1>5, TailIsSubSeq
  <2>2. SubSeq(u, 1, Len(u)) = <<u[1]>> \o SubSeq(u, 1 + 1, Len(u))
    BY <1>5, SubSeqRecursiveFirst
  <2>3. SubSeq(u, 1, Len(u)) = u /\ 1 + 1 = 2
    BY <1>5, SubSeqFull
  <2> QED
    BY <1>5, <2>1, <2>2, <2>3
<1>8. CASE Len(u) = 1
  <2>1. named = {}
    BY <1>5, <1>8
  <2>2. SubSeq(u, 2, Len(u)) = << >>
    BY <1>8, SubSeqEmpty
  <2> QED
    BY <1>2, <1>6, <1>7, <2>1, <2>2
<1>9. CASE Len(u) # 1
  <2>1. 1 \in 1 .. Len(u) /\ 1 + 1 \in 1 .. Len(u) /\ 1 + 1 = 2
    BY <1>5, <1>9
  <2>2. u[2] # "/"
    BY <1>4, <1>5, <2>1
  <2>3. 2 \in named /\ named \in SUBSET Int /\ \A i \in named : 2 <= i
    BY <1>5, <2>1, <2>2
  <2>4. Min(named) = 2
    BY <2>3, MinFacts
  <2> QED
    BY <1>2, <1>6, <1>7, <2>3, <2>4
<1> QED
  BY <1>8, <1>9

----------------------------------------------------------------------------
(***************************************************************************)
(* The inductive invariant.  One request: where it is and what it did on   *)
(* the way there; `c` is the configuration.                                *)
(***************************************************************************)
Routes  == {"@s3", "@s3_sliced", "@s3PreListing"}   \* where redirectToS3 sends a request
Entered == Routes \cup {"@s3Directory", "@trailslashControl", "@trailslash"}
Unsent  == Routes \cup {"find", "/", "index", "@s3Directory"}

\* An internal redirect to the index page, after a probe has found it.
ByProbe(c, q) == c.index /\ c.listing /\ IsIndexUri(q.uri)

Placed(c, q) ==
    /\ q.loc \in Entered => /\ q.checked /\ q.method \in {"GET", "HEAD"}
                            /\ q.uri = NormalUri(q.path)
    /\ q.loc \in Routes => q.loc = Route(c, q)
    /\ q.loc = "@s3Directory" => Route(c, q) = "@s3PreListing"
    /\ q.loc = "@trailslash" => LET p == Decoded(UriPath(c, q.path))
                               IN  c.slash /\ ~IsDirectory(p) /\ ~HasExtension(p)
    /\ q.loc = "@error405" => q.method \notin {"GET", "HEAD"}
    /\ q.loc = "/" => q.uri = NormalUri(q.path)
    /\ q.loc = "find" => q.uri = NormalUri(q.path) \/ ByProbe(c, q)
    /\ q.loc = "index" => IsIndexUri(q.uri) /\ (q.uri = NormalUri(q.path) \/ ByProbe(c, q))

\* $s3uri is computed by the proxy_pass that uses it, $forIndexPage is reset for listings.
Computed(c, q) ==
    /\ q.loc \in Unsent /\ q.answer = << >> /\ ~q.upstream => q.s3uri = << >>
    /\ ~q.forIndexPage => c.listing

Fetched(c, q) ==
    q.upstream => /\ q.loc \in ProxyLocations /\ q.checked /\ q.answer = << >>
                  /\ q.method \in {"GET", "HEAD"}
                  /\ q.sent = <<S3uri(c, q)>>
                  /\ q.loc = "@s3Directory" => ~q.forIndexPage

Sized(q) == Len(q.s3uri) <= 1 /\ Len(q.sent) <= 1 /\ Len(q.answer) <= 1

Redirected(q) ==
    q.answer # << >> /\ q.answer[1].status = 302 => q.answer[1].what # << >> /\ Head(q.answer[1].what) = "/"

RequestOK(c, q) ==
    /\ q \in Requests
    /\ Placed(c, q) /\ Computed(c, q) /\ Fetched(c, q) /\ Sized(q) /\ Redirected(q)

(***************************************************************************)
(* The requests together: the client's one, and the probe it may wait for. *)
(***************************************************************************)
Client(q) == q.path # << >> /\ Head(q.path) = "/"

AsksForIndex(c, q) == c.index /\ q.loc = "@s3PreListing" /\ q.answer = << >> /\ ~q.upstream

IsProbe(q) == q.loc \in {"find", "index", "@error404"} /\ q.method = "GET" /\ IsIndexUri(q.uri)

Nested ==
    /\ Len(reqs) <= 2 /\ Len(reqs) <= MaxDepth
    /\ Len(reqs) >= 1 => Client(reqs[1])
    /\ Len(reqs) = 2 => AsksForIndex(cfg, reqs[1]) /\ IsProbe(reqs[2])

StoredOK ==
    stored # << >> =>
        \E q \in Requests : /\ q.sent # << >>
                            /\ stored = <<[key |-> CacheKey(q), response |-> Sends(q)]>>

IInv ==
    /\ cfg \in Configs
    /\ reqs \in Seq(Requests)
    /\ \A i \in 1 .. Len(reqs) : RequestOK(cfg, reqs[i])
    /\ Nested
    /\ Len(stored) <= 1 /\ StoredOK

(***************************************************************************)
(* What a step may make of a request.                                      *)
(***************************************************************************)
Keeps(q, new) ==
    /\ new.method = q.method /\ new.path = q.path /\ new.marker = q.marker /\ new.range = q.range
    /\ new.forIndexPage = q.forIndexPage /\ new.s3uri = q.s3uri /\ new.sent = q.sent

LEMMA SameLine ==
    ASSUME NEW c, NEW q, NEW new, new.method = q.method, new.path = q.path, new.marker = q.marker
    PROVE  /\ new.range = q.range => Route(c, new) = Route(c, q)
           /\ new.forIndexPage = q.forIndexPage => S3uri(c, new) = S3uri(c, q)
BY DEF Route, S3uri, GatewayUri

LEMMA ReceivedOK ==
    ASSUME NEW c \in Configs,
           NEW ask \in [method : Methods, path : Path, marker : Path, range : BOOLEAN]
    PROVE  /\ RequestOK(c, Receive(ask)) /\ Question(Receive(ask)) = ask
           /\ Receive(ask).loc = "find" /\ Receive(ask).uri = NormalUri(ask.path)
           /\ Receive(ask).answer = << >>
<1> DEFINE q == [method |-> ask.method, path |-> ask.path, marker |-> ask.marker, range |-> ask.range,
                 uri |-> NormalUri(ask.path), loc |-> "find",
                 forIndexPage |-> TRUE, checked |-> FALSE, s3uri |-> << >>, sent |-> << >>,
                 upstream |-> FALSE, answer |-> << >>]
<1>1. Receive(ask) = q
  BY DEF Receive, Received
<1>2. << >> \in Seq(RequestLines) /\ << >> \in Seq(Answers) /\ Len(<< >>) = 0
  BY EmptySeq
<1>3. "find" \in Locations /\ "find" \notin Routes \cup Entered \cup {"@s3Directory"}
  BY DEF Locations, Routes, Entered, ProxyLocations
<1>4. q \in Requests
  BY <1>2, <1>3, NormalUriFacts DEF Requests
<1>5. Placed(c, q)
  BY <1>3 DEF Placed
<1>6. Computed(c, q) /\ Fetched(c, q) /\ Sized(q) /\ Redirected(q)
  BY <1>2 DEF Computed, Fetched, Sized, Redirected
<1>7. Question(q) = ask
  BY DEF Question
<1> QED
  BY <1>1, <1>4, <1>5, <1>6, <1>7 DEF RequestOK

LEMMA MovedOK ==
    ASSUME NEW c \in Configs, NEW q, RequestOK(c, q), q.answer = << >>,
           NEW new \in Requests, Keeps(q, new), ~new.upstream, new.answer = << >>,
           Placed(c, new), new.loc \in Unsent => q.s3uri = << >>
    PROVE  RequestOK(c, new)
BY DEF RequestOK, Computed, Fetched, Sized, Redirected, Keeps

LEMMA AnsweredOK ==
    ASSUME NEW c \in Configs, NEW q, RequestOK(c, q),
           NEW new \in Requests, Keeps(q, new), ~new.upstream,
           new.loc = q.loc, new.uri = q.uri, new.checked = q.checked,
           NEW a, new.answer = <<a>>, a.status = 302 => a.what # << >> /\ Head(a.what) = "/"
    PROVE  RequestOK(c, new)
<1>1. Placed(c, new)
  <2>1. Route(c, new) = Route(c, q)
    BY SameLine DEF Keeps
  <2> QED
    BY <2>1 DEF RequestOK, Placed, Keeps, ByProbe
<1>2. new.answer # << >> /\ new.answer[1] = a /\ Len(new.answer) = 1
  OBVIOUS
<1> QED
  BY <1>1, <1>2 DEF RequestOK, Computed, Fetched, Sized, Redirected, Keeps

LEMMA OneOrTwo ==
    ASSUME IInv, reqs # << >>
    PROVE  Len(reqs) \in {1, 2} /\ reqs \in Seq(Requests)
<1>1. reqs \in Seq(Requests) /\ Len(reqs) <= 2
  BY DEF IInv, Nested
<1>2. Len(reqs) \in Nat \ {0}
  BY <1>1, EmptySeq
<1>3. \A n \in Nat \ {0} : n <= 2 => n = 1 \/ n = 2
  OBVIOUS
<1>4. Len(reqs) = 1 \/ Len(reqs) = 2
  BY <1>1, <1>2, <1>3
<1> QED
  BY <1>1, <1>4

LEMMA Revision ==
    ASSUME IInv, reqs # << >>, NEW new, RequestOK(cfg, new), new.path = r.path,
           Len(reqs) = 2 => IsProbe(new),
           Revise(new), cfg' = cfg, Len(stored') <= 1, StoredOK'
    PROVE  IInv'
<1>1. Len(reqs) \in {1, 2} /\ reqs \in Seq(Requests) /\ cfg \in Configs /\ new \in Requests
  BY OneOrTwo DEF IInv, RequestOK
<1>2. /\ reqs' \in Seq(Requests) /\ Len(reqs') = Len(reqs)
      /\ \A i \in 1 .. Len(reqs) : reqs'[i] = IF i = Len(reqs) THEN new ELSE reqs[i]
  <2>1. Len(reqs) \in 1 .. Len(reqs)
    BY <1>1
  <2> QED
    BY <1>1, <2>1, ExceptSeq DEF Revise
<1>3. \A i \in 1 .. Len(reqs') : RequestOK(cfg, reqs'[i])
  BY <1>2 DEF IInv
<1>4. Nested'
  <2>1. 1 \in 1 .. Len(reqs) /\ r = reqs[Len(reqs)]
    BY <1>1 DEF r, Last
  <2>2. Client(reqs'[1])
    BY <1>1, <1>2, <2>1 DEF IInv, Nested, Client
  <2>3. Len(reqs) = 2 => reqs'[1] = reqs[1] /\ reqs'[2] = new
    BY <1>2
  <2> QED
    BY <1>1, <1>2, <2>2, <2>3 DEF IInv, Nested
<1> QED
  BY <1>1, <1>2, <1>3, <1>4 DEF IInv

LEMMA StoredStays ==
    ASSUME IInv, cfg' = cfg, stored' = stored
    PROVE  Len(stored') <= 1 /\ StoredOK'
BY DEF IInv, StoredOK, Sends

LEMMA UpdateOK ==
    ASSUME IInv, reqs # << >>, NEW new, RequestOK(cfg, new), new.path = r.path,
           Len(reqs) = 2 => IsProbe(new), Update(new)
    PROVE  IInv'
BY Revision, StoredStays DEF Update

\* The last of the requests.
LEMMA LastFacts ==
    ASSUME IInv, reqs # << >>
    PROVE  /\ RequestOK(cfg, r) /\ r \in Requests /\ cfg \in Configs
           /\ Len(reqs) \in {1, 2} /\ r = reqs[Len(reqs)]
           /\ Len(reqs) = 2 => IsProbe(r)
           /\ Len(reqs) = 1 => Client(r)
<1>1. Len(reqs) \in {1, 2} /\ reqs \in Seq(Requests)
  BY OneOrTwo
<1>2. Len(reqs) \in 1 .. Len(reqs) /\ r = reqs[Len(reqs)]
  BY <1>1 DEF r, Last
<1> QED
  BY <1>1, <1>2 DEF IInv, Nested, RequestOK

----------------------------------------------------------------------------
(***************************************************************************)
(* The steps, one lemma per action; those that only send a request on to   *)
(* an error page together.                                                 *)
(***************************************************************************)
LEMMA AtFacts ==
    ASSUME NEW loc, At(loc)
    PROVE  reqs # << >> /\ r.loc = loc /\ r.answer = << >> /\ ~r.upstream
BY DEF At, r

\* On to the error page of 404 or of 500, from anywhere.
LEMMA ToErrorPage ==
    ASSUME NEW c \in Configs, NEW q, RequestOK(c, q), q.answer = << >>,
           NEW new \in Requests, Keeps(q, new), ~new.upstream, new.answer = << >>,
           new.loc \in {"@error404", "@error500"}
    PROVE  RequestOK(c, new)
<1>1. new.loc \notin Entered \cup Routes \cup Unsent
  BY DEF Entered, Routes, Unsent
<1>2. Placed(c, new)
  BY <1>1 DEF Placed
<1> QED
  BY <1>1, <1>2, MovedOK

LEMMA ReplyOK ==
    ASSUME IInv, reqs # << >>, ~r.upstream, NEW status, NEW kind, NEW what,
           Answer(status, kind, what, {}) \in Answers,
           status = 302 => what # << >> /\ Head(what) = "/",
           Reply(status, kind, what)
    PROVE  IInv'
<1> DEFINE a == Answer(status, kind, what, {})
           new == [r EXCEPT !.answer = <<a>>]
<1>1. RequestOK(cfg, r) /\ r \in Requests /\ cfg \in Configs /\ (Len(reqs) = 2 => IsProbe(r))
  BY LastFacts
<1>2. a.status = status /\ a.what = what /\ a \in Answers
  BY DEF Answer
<1>3. Update(new)
  BY DEF Reply
<1> HIDE DEF a
<1>4. new \in Requests /\ Keeps(r, new) /\ ~new.upstream /\ new.answer = <<a>>
      /\ new.loc = r.loc /\ new.uri = r.uri /\ new.checked = r.checked
  <2>1. <<a>> \in Seq(Answers)
    BY <1>2
  <2> QED
    BY <1>1, <2>1 DEF Requests, Keeps
<1> HIDE DEF new
<1>5. RequestOK(cfg, new)
  BY <1>1, <1>2, <1>4, AnsweredOK
<1>6. new.path = r.path /\ (Len(reqs) = 2 => IsProbe(new))
  BY <1>1, <1>4 DEF IsProbe, Keeps
<1> QED
  BY <1>3, <1>5, <1>6, UpdateOK

\* A request goes to another location and nothing else changes.
LEMMA GotoOK ==
    ASSUME IInv, reqs # << >>, ~r.upstream, r.answer = << >>, NEW loc \in Locations,
           Goto(loc), Placed(cfg, [r EXCEPT !.loc = loc]),
           loc \in Unsent => r.s3uri = << >>,
           Len(reqs) = 2 => loc \in {"find", "index", "@error404"}
    PROVE  IInv'
<1> DEFINE new == [r EXCEPT !.loc = loc]
<1>1. RequestOK(cfg, r) /\ r \in Requests /\ cfg \in Configs /\ (Len(reqs) = 2 => IsProbe(r))
  BY LastFacts
<1>2. new \in Requests /\ Keeps(r, new) /\ ~new.upstream /\ new.answer = << >>
      /\ new.loc = loc /\ new.uri = r.uri
  BY <1>1 DEF Requests, Keeps
<1>3. Update(new) /\ Placed(cfg, new)
  BY DEF Goto
<1> HIDE DEF new
<1>4. RequestOK(cfg, new)
  BY <1>1, <1>2, <1>3, MovedOK
<1>5. new.path = r.path /\ (Len(reqs) = 2 => IsProbe(new))
  BY <1>1, <1>2 DEF IsProbe, Keeps
<1> QED
  BY <1>3, <1>4, <1>5, UpdateOK

LEMMA FindLocationOK ==
    ASSUME IInv, FindLocation
    PROVE  IInv'
<1>1. reqs # << >> /\ r.loc = "find" /\ r.answer = << >> /\ ~r.upstream
  BY AtFacts DEF FindLocation
<1>2. RequestOK(cfg, r) /\ r \in Requests /\ cfg \in Configs /\ (Len(reqs) = 2 => IsProbe(r))
  BY <1>1, LastFacts
<1>3. r.s3uri = << >> /\ (r.uri = NormalUri(r.path) \/ ByProbe(cfg, r))
  <2>1. "find" \in Unsent
    BY DEF Unsent
  <2> QED
    BY <1>1, <1>2, <2>1 DEF RequestOK, Computed, Placed
<1>4. CASE IsIndexUri(r.uri)
  <2> DEFINE new == [r EXCEPT !.loc = "index", !.checked = FALSE]
  <2>1. Update(new)
    BY <1>4 DEF FindLocation
  <2>2. "index" \in Locations /\ "index" \notin Entered \cup Routes
    BY DEF Locations, ProxyLocations, Entered, Routes
  <2>3. new \in Requests /\ Keeps(r, new) /\ ~new.upstream /\ new.answer = << >>
        /\ new.loc = "index" /\ new.uri = r.uri
    BY <1>1, <1>2, <2>2 DEF Requests, Keeps
  <2> HIDE DEF new
  <2>4. Placed(cfg, new)
    BY <1>3, <1>4, <2>2, <2>3 DEF Placed, ByProbe, Keeps
  <2>5. RequestOK(cfg, new)
    BY <1>1, <1>2, <1>3, <2>3, <2>4, MovedOK
  <2>6. new.path = r.path /\ (Len(reqs) = 2 => IsProbe(new))
    BY <1>2, <2>3 DEF IsProbe, Keeps
  <2> QED
    BY <1>1, <2>1, <2>5, <2>6, UpdateOK
<1>5. CASE ~IsIndexUri(r.uri)
  <2>1. CASE Prefixed(r.uri, "health")
    <3>1. ~Prefixed(r.uri, "soap")
      BY <2>1 DEF Prefixed
    <3>2. Reply(200, "health", << >>)
      BY <1>5, <2>1, <3>1 DEF FindLocation
    <3>3. Answer(200, "health", << >>, {}) \in Answers
      BY BucketPath DEF Answer, Answers
    <3> QED
      BY <1>1, <3>2, <3>3, ReplyOK
  <2>2. CASE ~Prefixed(r.uri, "health") /\ Prefixed(r.uri, "soap")
    <3>1. Reply(404, "none", << >>)
      BY <1>5, <2>2 DEF FindLocation
    <3>2. Answer(404, "none", << >>, {}) \in Answers
      BY BucketPath DEF Answer, Answers
    <3> QED
      BY <1>1, <3>1, <3>2, ReplyOK
  <2>3. CASE ~Prefixed(r.uri, "health") /\ ~Prefixed(r.uri, "soap")
    <3> DEFINE new == [r EXCEPT !.loc = "/", !.checked = FALSE]
    <3>1. Update(new)
      BY <1>5, <2>3 DEF FindLocation
    <3>2. "/" \in Locations /\ "/" \notin Entered \cup Routes
      BY DEF Locations, ProxyLocations, Entered, Routes
    <3>3. new \in Requests /\ Keeps(r, new) /\ ~new.upstream /\ new.answer = << >>
          /\ new.loc = "/" /\ new.uri = r.uri
      BY <1>1, <1>2, <3>2 DEF Requests, Keeps
    <3> HIDE DEF new
    <3>4. Placed(cfg, new)
      BY <1>3, <1>5, <3>2, <3>3 DEF Placed, ByProbe, Keeps
    <3>5. RequestOK(cfg, new)
      BY <1>1, <1>2, <1>3, <3>3, <3>4, MovedOK
    <3>6. new.path = r.path /\ Len(reqs) # 2
      BY <1>2, <1>5, <3>3 DEF IsProbe, Keeps
    <3> QED
      BY <1>1, <3>1, <3>5, <3>6, UpdateOK
  <2> QED
    BY <2>1, <2>2, <2>3
<1> QED
  BY <1>4, <1>5

LEMMA AnswerPreflightOK ==
    ASSUME IInv, AnswerPreflight
    PROVE  IInv'
<1>1. reqs # << >> /\ ~r.upstream
  BY AtFacts DEF AnswerPreflight
<1>2. Answer(204, "none", << >>, {}) \in Answers
  BY BucketPath DEF Answer, Answers
<1>3. Reply(204, "none", << >>)
  BY DEF AnswerPreflight
<1> QED
  BY <1>1, <1>2, <1>3, ReplyOK

LEMMA RejectMethodOK ==
    ASSUME IInv, RejectMethod
    PROVE  IInv'
<1>1. reqs # << >> /\ ~r.upstream /\ r.answer = << >> /\ r.loc = "/"
  BY AtFacts DEF RejectMethod
<1>2. Len(reqs) # 2 /\ r \in Requests
  BY <1>1, LastFacts DEF IsProbe
<1>3. "@error405" \in Locations /\ "@error405" \notin Entered \cup Routes \cup Unsent
  BY DEF Locations, Entered, Routes, Unsent
<1>4. r.method \notin {"GET", "HEAD"} /\ Goto("@error405")
  BY DEF RejectMethod, MethodNotAllowed
<1> DEFINE new == [r EXCEPT !.loc = "@error405"]
<1>5. new.loc = "@error405" /\ new.method = r.method
  BY <1>2 DEF Requests
<1>6. Placed(cfg, new)
  BY <1>3, <1>4, <1>5 DEF Placed
<1> QED
  BY <1>1, <1>2, <1>3, <1>4, <1>6, GotoOK

\* On to @error404 or @error500 with nothing else changed.
LEMMA GotoErrorOK ==
    ASSUME IInv, reqs # << >>, ~r.upstream, r.answer = << >>, Goto("@error404")
    PROVE  IInv'
<1>1. r \in Requests
  BY LastFacts
<1>2. "@error404" \in Locations /\ "@error404" \notin Entered \cup Routes \cup Unsent
  BY DEF Locations, Entered, Routes, Unsent
<1> DEFINE new == [r EXCEPT !.loc = "@error404"]
<1>3. new.loc = "@error404"
  BY <1>1 DEF Requests
<1>4. Placed(cfg, new)
  BY <1>2, <1>3 DEF Placed
<1> QED
  BY <1>2, <1>4, GotoOK

LEMMA DenyMethodOK ==
    ASSUME IInv, DenyMethod
    PROVE  IInv'
BY AtFacts, GotoErrorOK DEF DenyMethod

LEMMA CredentialsFoundOK ==
    ASSUME IInv, CredentialsFound
    PROVE  IInv'
<1> DEFINE new == [r EXCEPT !.checked = TRUE]
<1>1. reqs # << >> /\ ~r.upstream /\ r.answer = << >> /\ r.loc \in {"/", "index"} /\ Update(new)
  BY AtFacts DEF CredentialsFound
<1>2. RequestOK(cfg, r) /\ r \in Requests /\ cfg \in Configs /\ (Len(reqs) = 2 => IsProbe(r))
  BY <1>1, LastFacts
<1>3. new \in Requests /\ Keeps(r, new) /\ ~new.upstream /\ new.answer = << >>
      /\ new.loc = r.loc /\ new.uri = r.uri
  BY <1>1, <1>2 DEF Requests, Keeps
<1> HIDE DEF new
<1>4. r.loc \notin Entered \cup Routes /\ r.loc \in Unsent
  BY <1>1 DEF Entered, Routes, Unsent
<1>5. Placed(cfg, new)
  BY <1>1, <1>2, <1>3, <1>4 DEF RequestOK, Placed, ByProbe, Keeps
<1>6. r.s3uri = << >>
  BY <1>1, <1>2, <1>4 DEF RequestOK, Computed
<1>7. RequestOK(cfg, new)
  BY <1>1, <1>2, <1>3, <1>5, <1>6, MovedOK
<1>8. new.path = r.path /\ (Len(reqs) = 2 => IsProbe(new))
  BY <1>2, <1>3 DEF IsProbe, Keeps
<1> QED
  BY <1>1, <1>7, <1>8, UpdateOK

LEMMA CredentialsMissingOK ==
    ASSUME IInv, CredentialsMissing
    PROVE  IInv'
<1>1. reqs # << >> /\ ~r.upstream /\ r.answer = << >>
  BY AtFacts DEF CredentialsMissing
<1>2. CASE r.loc = "/"
  <2>1. Reply(500, "none", << >>)
    BY <1>2 DEF CredentialsMissing
  <2>2. Answer(500, "none", << >>, {}) \in Answers
    BY BucketPath DEF Answer, Answers
  <2> QED
    BY <1>1, <2>1, <2>2, ReplyOK
<1>3. CASE r.loc # "/"
  BY <1>1, <1>3, GotoErrorOK DEF CredentialsMissing
<1> QED
  BY <1>2, <1>3

LEMMA RedirectToS3OK ==
    ASSUME IInv, RedirectToS3
    PROVE  IInv'
<1> DEFINE loc == Route(cfg, r)
           new == [r EXCEPT !.loc = loc]
<1>1. reqs # << >> /\ ~r.upstream /\ r.answer = << >> /\ r.loc = "/" /\ r.checked /\ Goto(loc)
  BY AtFacts DEF RedirectToS3
<1>2. RequestOK(cfg, r) /\ r \in Requests /\ Len(reqs) # 2
  BY <1>1, LastFacts DEF IsProbe
<1>3. /\ loc \in Routes \cup {"@error404", "@error405"}
      /\ loc \in Routes => r.method \in {"GET", "HEAD"}
      /\ loc = "@error405" => r.method \notin {"GET", "HEAD"}
  BY DEF Route, Routes
<1> HIDE DEF loc
<1>4. loc \in Locations
  BY <1>3 DEF Locations, ProxyLocations, Routes
<1>5. r.s3uri = << >> /\ r.uri = NormalUri(r.path)
  <2>1. "/" \in Unsent
    BY DEF Unsent
  <2> QED
    BY <1>1, <1>2, <2>1 DEF RequestOK, Computed, Placed
<1>6. new.loc = loc /\ new.uri = r.uri /\ new.checked /\ Keeps(r, new)
  BY <1>1, <1>2 DEF Requests, Keeps
<1>7. Route(cfg, new) = loc
  BY <1>6, SameLine DEF Keeps, loc
<1> HIDE DEF new
<1>8. Placed(cfg, new)
  <2>1. /\ loc \in Entered <=> loc \in Routes
        /\ loc \notin {"@s3Directory", "@trailslash", "/", "find", "index"}
    BY <1>3 DEF Routes, Entered
  <2>2. new.method = r.method /\ new.path = r.path
    BY <1>6 DEF Keeps
  <2> QED
    BY <1>3, <1>5, <1>6, <1>7, <2>1, <2>2 DEF Placed
<1> QED
  BY <1>1, <1>2, <1>4, <1>5, <1>8, GotoOK DEF new, loc

(***************************************************************************)
(* The probe.                                                              *)
(***************************************************************************)
LEMMA PreListingFacts ==
    ASSUME NEW c \in Configs, NEW q, RequestOK(c, q), q.loc = "@s3PreListing"
    PROVE  /\ c.listing /\ IsDirectory(UriPath(c, q.path)) /\ Route(c, q) = "@s3PreListing"
           /\ q.checked /\ q.method \in {"GET", "HEAD"} /\ q.uri = NormalUri(q.path)
           /\ q.path \in Path
<1>1. Route(c, q) = "@s3PreListing" /\ q.checked /\ q.method \in {"GET", "HEAD"}
      /\ q.uri = NormalUri(q.path) /\ q.path \in Path
  BY DEF RequestOK, Placed, Entered, Routes, Requests
<1>2. c.listing /\ IsDirectory(CollapseDuplicateSlashes(UriPath(c, q.path)))
  BY <1>1 DEF Route
<1> QED
  BY <1>1, <1>2, RewrittenFacts

LEMMA SecondAppended ==
    ASSUME NEW S, NEW s \in Seq(S), Len(s) = 1, NEW x \in S
    PROVE  /\ Append(s, x) \in Seq(S) /\ Len(Append(s, x)) = 2
           /\ Append(s, x)[1] = s[1] /\ Append(s, x)[2] = x
<1>1. Append(s, x) \in Seq(S) /\ Len(Append(s, x)) = Len(s) + 1
  BY AppendProperties
<1>2. Append(s, x)[Len(s) + 1] = x
  BY AppendProperties
<1>3. \A i \in 1 .. Len(s) : Append(s, x)[i] = s[i]
  BY AppendProperties
<1> QED
  BY <1>1, <1>2, <1>3

LEMMA LoadContentOK ==
    ASSUME IInv, LoadContent
    PROVE  IInv'
<1>1. reqs # << >> /\ ~r.upstream /\ r.answer = << >> /\ r.loc = "@s3PreListing"
  BY AtFacts DEF LoadContent
<1>2. RequestOK(cfg, r) /\ r \in Requests /\ cfg \in Configs /\ Len(reqs) = 1 /\ r = reqs[Len(reqs)]
  BY <1>1, LastFacts DEF IsProbe
<1>3. cfg.listing /\ IsDirectory(UriPath(cfg, r.path)) /\ Route(cfg, r) = "@s3PreListing"
      /\ r.checked /\ r.method \in {"GET", "HEAD"} /\ r.uri = NormalUri(r.path) /\ r.path \in Path
  BY <1>1, <1>2, PreListingFacts
<1>4. CASE cfg.index
  <2> DEFINE g == GatewayUri(cfg, r).path
             new == Receive(Probe)
  <2>1. g \in Path /\ IsIndexUri(NormalUri(g))
    BY <1>2, <1>3, <1>4, ProbeIsIndex
  <2>2. reqs' = Append(reqs, new) /\ cfg' = cfg /\ stored' = stored /\ Len(reqs) < MaxDepth
    BY <1>1, <1>4 DEF LoadContent
  <2>3. Probe = [method |-> "GET", path |-> g, marker |-> << >>, range |-> FALSE]
    BY DEF Probe
  <2> HIDE DEF g
  <2>4. RequestOK(cfg, new) /\ new.method = "GET" /\ new.loc = "find" /\ new.uri = NormalUri(g)
    <3>1. Probe \in [method : Methods, path : Path, marker : Path, range : BOOLEAN]
      BY <2>1, <2>3, QuestionsAssumption, BucketPath
    <3>2. RequestOK(cfg, new) /\ new.loc = "find" /\ new.uri = NormalUri(Probe.path)
          /\ Question(new) = Probe
      BY <1>2, <3>1, ReceivedOK
    <3>3. new.method = Question(new).method
      BY DEF Question
    <3> QED
      BY <2>3, <3>2, <3>3
  <2> HIDE DEF new
  <2>5. new \in Requests /\ IsProbe(new)
    BY <2>1, <2>4 DEF RequestOK, IsProbe
  <2>6. reqs \in Seq(Requests) /\ Client(reqs[1]) /\ MaxDepth \in Nat
    BY <1>2, RoutingAssumption DEF IInv, Nested
  <2>7. reqs' \in Seq(Requests) /\ Len(reqs') = 2 /\ reqs'[1] = reqs[1] /\ reqs'[2] = new
    BY <1>2, <2>2, <2>5, <2>6, SecondAppended
  <2>8. AsksForIndex(cfg, reqs[1]) /\ RequestOK(cfg, reqs[1])
    BY <1>1, <1>2, <1>4 DEF AsksForIndex
  <2>9. \A i \in 1 .. Len(reqs') : RequestOK(cfg, reqs'[i])
    BY <2>4, <2>7, <2>8
  <2>10. Nested'
    BY <1>2, <2>2, <2>5, <2>6, <2>7, <2>8 DEF Nested
  <2> QED
    BY <1>2, <2>2, <2>7, <2>9, <2>10, StoredStays DEF IInv
<1>5. CASE ~cfg.index
  <2> DEFINE new == [r EXCEPT !.loc = "@s3Directory"]
  <2>1. Goto("@s3Directory")
    BY <1>1, <1>5 DEF LoadContent
  <2>2. "@s3Directory" \in Locations /\ "@s3Directory" \notin Routes
    BY DEF Locations, ProxyLocations, Routes
  <2>3. new.loc = "@s3Directory" /\ new.uri = r.uri /\ new.checked /\ Keeps(r, new)
    BY <1>2, <1>3 DEF Requests, Keeps
  <2> HIDE DEF new
  <2>4. Route(cfg, new) = "@s3PreListing"
    <3>1. /\ new.method = r.method /\ new.path = r.path /\ new.marker = r.marker
          /\ new.range = r.range
      BY <2>3 DEF Keeps
    <3>2. Route(cfg, new) = Route(cfg, r)
      BY <3>1, SameLine
    <3> QED
      BY <1>3, <3>2
  <2>5. Placed(cfg, new)
    BY <1>3, <2>2, <2>3, <2>4 DEF Placed, Keeps
  <2>6. r.s3uri = << >>
    BY <1>1, <1>2 DEF RequestOK, Computed, Unsent, Routes
  <2> QED
    BY <1>1, <1>2, <2>1, <2>2, <2>5, <2>6, GotoOK DEF new
<1> QED
  BY <1>4, <1>5

LEMMA WaitingFacts ==
    ASSUME IInv, Len(reqs) > 1
    PROVE  /\ Len(reqs) = 2 /\ Waiting = reqs[1] /\ cfg \in Configs /\ cfg.index
           /\ RequestOK(cfg, Waiting) /\ Waiting \in Requests /\ Client(Waiting)
           /\ Waiting.loc = "@s3PreListing" /\ Waiting.answer = << >> /\ ~Waiting.upstream
           /\ Waiting.s3uri = << >>
<1>1. reqs \in Seq(Requests) /\ Len(reqs) <= 2
  BY DEF IInv, Nested
<1>2. Len(reqs) = 2
  <2>1. Len(reqs) \in Nat
    BY <1>1
  <2>2. \A n \in Nat : n <= 2 /\ n > 1 => n = 2
    OBVIOUS
  <2> QED
    BY <1>1, <2>1, <2>2
<1>3. Waiting = reqs[1] /\ AsksForIndex(cfg, reqs[1]) /\ Client(reqs[1]) /\ RequestOK(cfg, reqs[1])
      /\ cfg \in Configs
  <2>1. 2 - 1 = 1 /\ 1 \in 1 .. 2
    OBVIOUS
  <2> QED
    BY <1>2, <2>1 DEF Waiting, IInv, Nested
<1>4. "@s3PreListing" \in Unsent
  BY DEF Unsent, Routes
<1> QED
  BY <1>2, <1>3, <1>4 DEF AsksForIndex, RequestOK, Computed

LEMMA ResumeOK ==
    ASSUME IInv, Len(reqs) > 1, NEW new, RequestOK(cfg, new), new.path = Waiting.path, Resume(new)
    PROVE  IInv'
<1>1. Len(reqs) = 2 /\ Client(Waiting) /\ cfg \in Configs /\ new \in Requests
  BY WaitingFacts DEF RequestOK
<1>2. reqs' = <<new>> /\ cfg' = cfg /\ stored' = stored
  <2>1. SubSeq(reqs, 1, 0) = << >> /\ Len(reqs) - 2 = 0
    BY <1>1, SubSeqEmpty
  <2>2. Append(<< >>, new) = <<new>>
    OBVIOUS
  <2> QED
    BY <2>1, <2>2 DEF Resume
<1>3. reqs' \in Seq(Requests) /\ Len(reqs') = 1 /\ reqs'[1] = new
  BY <1>1, <1>2
<1>4. Client(new)
  BY <1>1 DEF Client
<1>5. Nested'
  BY <1>3, <1>4, RoutingAssumption DEF Nested
<1>6. \A i \in 1 .. Len(reqs') : RequestOK(cfg, reqs'[i])
  BY <1>3
<1> QED
  BY <1>1, <1>2, <1>3, <1>5, <1>6, StoredStays DEF IInv

LEMMA ProbeAnsweredOK ==
    ASSUME IInv, ProbeAnswered
    PROVE  IInv'
<1>1. Len(reqs) > 1
  BY DEF ProbeAnswered
<1> DEFINE w == Waiting
           g == GatewayUri(cfg, w).path
<1>2. /\ cfg \in Configs /\ cfg.index /\ RequestOK(cfg, w) /\ w \in Requests
      /\ w.loc = "@s3PreListing" /\ w.answer = << >> /\ ~w.upstream /\ w.s3uri = << >>
  BY <1>1, WaitingFacts
<1>3. cfg.listing /\ IsDirectory(UriPath(cfg, w.path)) /\ Route(cfg, w) = "@s3PreListing"
      /\ w.checked /\ w.method \in {"GET", "HEAD"} /\ w.uri = NormalUri(w.path) /\ w.path \in Path
  BY <1>2, PreListingFacts
<1>4. g \in Path /\ IsIndexUri(g)
  BY <1>2, <1>3, ProbeIsIndex
<1> HIDE DEF w, g
<1>5. ASSUME Resume([w EXCEPT !.loc = "find", !.uri = g]) PROVE IInv'
  <2> DEFINE new == [w EXCEPT !.loc = "find", !.uri = g]
  <2>1. "find" \in Locations /\ "find" \notin Entered \cup Routes
    BY DEF Locations, Entered, Routes
  <2>2. new \in Requests /\ Keeps(w, new) /\ ~new.upstream /\ new.answer = << >>
        /\ new.loc = "find" /\ new.uri = g
    BY <1>2, <1>4, <2>1 DEF Requests, Keeps
  <2> HIDE DEF new
  <2>3. Placed(cfg, new)
    BY <1>2, <1>3, <1>4, <2>1, <2>2 DEF Placed, ByProbe
  <2>4. RequestOK(cfg, new) /\ new.path = w.path
    BY <1>2, <2>2, <2>3, MovedOK DEF Keeps
  <2> QED
    BY <1>1, <1>5, <2>4, ResumeOK DEF new, w
<1>6. ASSUME Resume([w EXCEPT !.loc = "@s3Directory"]) PROVE IInv'
  <2> DEFINE new == [w EXCEPT !.loc = "@s3Directory"]
  <2>1. "@s3Directory" \in Locations /\ "@s3Directory" \notin Routes
    BY DEF Locations, ProxyLocations, Routes
  <2>2. new \in Requests /\ Keeps(w, new) /\ ~new.upstream /\ new.answer = << >>
        /\ new.loc = "@s3Directory" /\ new.uri = w.uri /\ new.checked
    BY <1>2, <1>3, <2>1 DEF Requests, Keeps
  <2>3. Route(cfg, new) = "@s3PreListing"
    BY <1>3, <2>2, SameLine DEF Keeps
  <2> HIDE DEF new
  <2>4. Placed(cfg, new)
    BY <1>3, <2>1, <2>2, <2>3 DEF Placed, Keeps
  <2>5. RequestOK(cfg, new) /\ new.path = w.path
    BY <1>2, <2>2, <2>4, MovedOK DEF Keeps
  <2> QED
    BY <1>1, <1>6, <2>5, ResumeOK DEF new, w
<1>7. ASSUME Resume([w EXCEPT !.loc = "@error500"]) PROVE IInv'
  <2> DEFINE new == [w EXCEPT !.loc = "@error500"]
  <2>1. "@error500" \in Locations
    BY DEF Locations
  <2>2. new \in Requests /\ Keeps(w, new) /\ ~new.upstream /\ new.answer = << >>
        /\ new.loc = "@error500"
    BY <1>2, <2>1 DEF Requests, Keeps
  <2> HIDE DEF new
  <2>3. RequestOK(cfg, new) /\ new.path = w.path
    BY <1>2, <2>2, ToErrorPage DEF Keeps
  <2> QED
    BY <1>1, <1>7, <2>3, ResumeOK DEF new, w
<1> QED
  BY <1>5, <1>6, <1>7 DEF ProbeAnswered, w, g

LEMMA ProbeBrokenOK ==
    ASSUME IInv, ProbeBroken
    PROVE  IInv'
<1> DEFINE w == Waiting
           new == [w EXCEPT !.loc = "@error404"]
<1>1. Len(reqs) > 1 /\ Resume(new)
  BY DEF ProbeBroken
<1>2. cfg \in Configs /\ RequestOK(cfg, w) /\ w \in Requests /\ w.answer = << >> /\ ~w.upstream
  BY <1>1, WaitingFacts
<1>3. "@error404" \in Locations
  BY DEF Locations
<1> HIDE DEF w
<1>4. new \in Requests /\ Keeps(w, new) /\ ~new.upstream /\ new.answer = << >>
      /\ new.loc = "@error404"
  BY <1>2, <1>3 DEF Requests, Keeps
<1> HIDE DEF new
<1>5. RequestOK(cfg, new) /\ new.path = w.path
  BY <1>2, <1>4, ToErrorPage DEF Keeps
<1> QED
  BY <1>1, <1>5, ResumeOK DEF w

(***************************************************************************)
(* Sending a request to S3, and what S3 or the cache answers.              *)
(***************************************************************************)
LEMMA ProxyToS3OK ==
    ASSUME IInv, ProxyToS3
    PROVE  IInv'
<1> DEFINE set == [r EXCEPT !.forIndexPage = ForIndexPage(r)]
           uri == S3uri(cfg, set)
           new == [set EXCEPT !.s3uri = <<uri>>, !.sent = <<uri>>, !.upstream = TRUE]
<1>1. reqs # << >> /\ ~r.upstream /\ r.answer = << >> /\ r.loc \in ProxyLocations
  BY AtFacts DEF ProxyToS3
<1>2. RequestOK(cfg, r) /\ r \in Requests /\ cfg \in Configs /\ (Len(reqs) = 2 => IsProbe(r))
  BY <1>1, LastFacts
<1>3. r.loc \in Unsent /\ (r.loc # "index" => r.loc \in Entered)
  BY <1>1 DEF ProxyLocations, Unsent, Entered, Routes
<1>4. r.s3uri = << >>
  BY <1>1, <1>2, <1>3 DEF RequestOK, Computed
<1>5. Update(new)
  BY <1>4 DEF ProxyToS3
<1>6. r.checked /\ r.method \in {"GET", "HEAD"}
  <2>1. CASE r.loc = "index"
    BY <2>1 DEF ProxyToS3, MethodNotAllowed
  <2>2. CASE r.loc # "index"
    BY <1>2, <1>3, <2>2 DEF RequestOK, Placed
  <2> QED
    BY <2>1, <2>2
<1>7. ForIndexPage(r) \in BOOLEAN /\ (r.loc = "@s3Directory" => ~ForIndexPage(r))
      /\ (~ForIndexPage(r) => cfg.listing)
  <2>1. CASE r.loc = "@s3Directory"
    <3>1. Route(cfg, r) = "@s3PreListing"
      BY <1>2, <2>1 DEF RequestOK, Placed
    <3>2. cfg.listing
      BY <3>1 DEF Route
    <3> QED
      BY <2>1, <3>2 DEF ForIndexPage
  <2>2. CASE r.loc = "index"
    BY <2>2 DEF ForIndexPage
  <2>3. CASE r.loc # "@s3Directory" /\ r.loc # "index"
    <3>1. ForIndexPage(r) = r.forIndexPage
      BY <2>3 DEF ForIndexPage
    <3> QED
      BY <1>2, <2>3, <3>1 DEF RequestOK, Computed, Requests
  <2> QED
    BY <2>1, <2>2, <2>3
<1>8. set \in Requests /\ set.path = r.path /\ set.marker = r.marker /\ set.method = r.method
      /\ set.range = r.range /\ set.loc = r.loc /\ set.uri = r.uri /\ set.checked = r.checked
      /\ set.answer = << >> /\ set.forIndexPage = ForIndexPage(r)
  BY <1>1, <1>2, <1>7 DEF Requests
<1> HIDE DEF set
<1>9. uri \in RequestLines
  <2>1. set.path \in Path /\ set.marker \in Path
    BY <1>8 DEF Requests
  <2> QED
    BY <1>2, <2>1, LineType
<1>10. /\ new \in Requests /\ new.path = r.path /\ new.marker = r.marker /\ new.method = r.method
       /\ new.range = r.range /\ new.loc = r.loc /\ new.uri = r.uri /\ new.checked = r.checked
       /\ new.answer = << >> /\ new.forIndexPage = ForIndexPage(r) /\ new.upstream
       /\ new.s3uri = <<uri>> /\ new.sent = <<uri>>
  <2> HIDE DEF uri
  <2>1. <<uri>> \in Seq(RequestLines)
    BY <1>9
  <2> QED
    BY <1>8, <2>1 DEF Requests
<1> HIDE DEF new
<1>11. S3uri(cfg, new) = uri /\ Route(cfg, new) = Route(cfg, r)
  <2>1. S3uri(cfg, new) = S3uri(cfg, set)
    BY <1>8, <1>10, SameLine
  <2> QED
    BY <1>10, <2>1, SameLine
<1> HIDE DEF uri
<1>12. Placed(cfg, new)
  BY <1>2, <1>10, <1>11 DEF RequestOK, Placed, ByProbe
<1>13. Fetched(cfg, new)
  BY <1>1, <1>6, <1>7, <1>10, <1>11 DEF Fetched
<1>14. Sized(new)
  <2>1. Len(<<uri>>) <= 1 /\ Len(<< >>) <= 1
    OBVIOUS
  <2> QED
    BY <1>10, <2>1 DEF Sized
<1>15. Computed(cfg, new) /\ Redirected(new)
  BY <1>7, <1>10 DEF Computed, Redirected
<1>16. RequestOK(cfg, new)
  BY <1>10, <1>12, <1>13, <1>14, <1>15 DEF RequestOK
<1>17. Len(reqs) = 2 => IsProbe(new)
  BY <1>2, <1>10 DEF IsProbe
<1> QED
  BY <1>1, <1>5, <1>10, <1>16, <1>17, UpdateOK

LEMMA ArrivedFacts ==
    ASSUME IInv, Arrived
    PROVE  /\ reqs # << >> /\ RequestOK(cfg, r) /\ r \in Requests /\ cfg \in Configs
           /\ r.upstream /\ r.loc \in ProxyLocations /\ r.checked /\ r.answer = << >>
           /\ r.method \in {"GET", "HEAD"} /\ r.sent = <<S3uri(cfg, r)>>
           /\ r.sent # << >> /\ r.sent[1] = S3uri(cfg, r)
           /\ r.loc = "@s3Directory" => ~r.forIndexPage
           /\ Len(reqs) = 2 => IsProbe(r)
<1>0. \A x : <<x>> # << >> /\ <<x>>[1] = x
  OBVIOUS
<1>1. reqs # << >> /\ r.upstream
  BY DEF Arrived
<1>2. RequestOK(cfg, r) /\ r \in Requests /\ cfg \in Configs /\ (Len(reqs) = 2 => IsProbe(r))
  BY <1>1, LastFacts
<1> QED
  BY <1>0, <1>1, <1>2 DEF RequestOK, Fetched

LEMMA KeyOfType ==
    ASSUME NEW c, NEW line \in RequestLines
    PROVE  KeyOf(c, line) \in Path
<1> DEFINE path == SeenByS3(line).path
           n == Len(S3BaseUri(c))
<1>1. path \in Path
  BY OneSlash DEF SeenByS3, RequestLines
<1>2. n \in Nat
  <2>1. S3BaseUri(c) \in Seq(Token)
    BY BucketPath DEF S3BaseUri, Path
  <2> QED
    BY <2>1
<1> HIDE DEF path, n
<1>3. SubSeq(path, n + 1, Len(path)) \in Path
  <2>1. Len(path) \in Nat
    BY <1>1 DEF Path
  <2> QED
    BY <1>1, <1>2, <2>1 DEF Path
<1>4. WithoutLeadingSlash(SubSeq(path, n + 1, Len(path))) \in Path
  BY <1>3, WithoutLeadingSlashFacts
<1> QED
  BY <1>4 DEF KeyOf, path, n

LEMMA FirstOfSeq ==
    ASSUME NEW S, NEW s \in Seq(S), s # << >>
    PROVE  s[1] \in S
OBVIOUS

LEMMA SendsType ==
    ASSUME NEW q \in Requests, q.sent # << >>
    PROVE  Sends(q).kind \in {"listing", "headers", "slices", "object"} /\ Sends(q).what \in Path
<1>1. q.sent \in Seq(RequestLines)
  BY DEF Requests
<1>2. q.sent[1] \in RequestLines
  BY <1>1
<1> DEFINE line == q.sent[1]
<1> HIDE DEF line
<1>3. line.query # << >> => line.query[1].prefix \in Path
  <2>1. line.query \in Seq([prefix : Path, marker : Path, maxKeys : Seq(Nat)])
    BY <1>2 DEF RequestLines, line
  <2>2. line.query # << >> => line.query[1] \in [prefix : Path, marker : Path, maxKeys : Seq(Nat)]
    BY <2>1, FirstOfSeq
  <2> QED
    BY <2>2
<1>4. KeyOf(cfg, line) \in Path
  BY <1>2, KeyOfType DEF line
<1>5. CASE line.query # << >>
  BY <1>3, <1>5 DEF Sends, line
<1>6. CASE line.query = << >>
  BY <1>4, <1>6 DEF Sends, line
<1> QED
  BY <1>5, <1>6

LEMMA HeadersType ==
    ASSUME NEW c, NEW q
    PROVE  EditHeaders(c, q) \in SUBSET (Headers \cup {HtmlType})
BY DEF EditHeaders

LEMMA AnsweredType ==
    ASSUME NEW q \in Requests, NEW s \in Seq(Answers)
    PROVE  [q EXCEPT !.upstream = FALSE, !.answer = s] \in Requests
<1> DEFINE A == Seq(Answers)
<1> HIDE DEF A
<1>1. s \in A
  BY DEF A
<1> QED
  BY <1>1 DEF Requests, A

LEMMA DeliveredOK ==
    ASSUME IInv, Arrived, NEW a \in Answers, a.status # 302,
           Revise([r EXCEPT !.upstream = FALSE, !.answer = <<a>>]), cfg' = cfg,
           Len(stored') <= 1, StoredOK'
    PROVE  IInv'
<1> DEFINE new == [r EXCEPT !.upstream = FALSE, !.answer = <<a>>]
<1>1. RequestOK(cfg, r) /\ r \in Requests /\ cfg \in Configs /\ (Len(reqs) = 2 => IsProbe(r))
      /\ reqs # << >>
  BY ArrivedFacts
<1>2. new \in Requests /\ Keeps(r, new) /\ ~new.upstream /\ new.answer = <<a>>
      /\ new.loc = r.loc /\ new.uri = r.uri /\ new.checked = r.checked
  <2>1. <<a>> \in Seq(Answers)
    OBVIOUS
  <2>2. new \in Requests
    BY <1>1, <2>1, AnsweredType
  <2>3. ~new.upstream /\ new.answer = <<a>>
    BY <1>1 DEF Requests
  <2> QED
    BY <1>1, <2>2, <2>3 DEF Requests, Keeps
<1>3. Revise(new)
  OBVIOUS
<1> HIDE DEF new
<1>4. RequestOK(cfg, new)
  BY <1>1, <1>2, AnsweredOK
<1>5. new.path = r.path /\ (Len(reqs) = 2 => IsProbe(new))
  BY <1>1, <1>2 DEF IsProbe, Keeps
<1> QED
  BY <1>1, <1>3, <1>4, <1>5, Revision

LEMMA SentAnswer ==
    ASSUME IInv, Arrived
    PROVE  /\ Answer(200, Sends(r).kind, Sends(r).what, EditHeaders(cfg, r)) \in Answers
           /\ Answer(301, "passed", << >>, EditHeaders(cfg, r)) \in Answers
<1>1. r \in Requests /\ r.sent # << >>
  BY ArrivedFacts
<1>2. Sends(r).kind \in {"listing", "headers", "slices", "object"} /\ Sends(r).what \in Path
      /\ EditHeaders(cfg, r) \in SUBSET (Headers \cup {HtmlType})
  BY <1>1, SendsType, HeadersType
<1> QED
  BY <1>2, BucketPath DEF Answer, Answers

\* The answers of S3 and of the cache that carry what was asked for.
LEMMA FoundOK ==
    ASSUME IInv, Arrived, Deliver(Sends(r).kind, Sends(r).what), cfg' = cfg,
           Len(stored') <= 1, StoredOK'
    PROVE  IInv'
<1> DEFINE a == Answer(200, Sends(r).kind, Sends(r).what, EditHeaders(cfg, r))
<1>1. a \in Answers /\ a.status # 302
  BY SentAnswer DEF Answer
<1>2. Revise([r EXCEPT !.upstream = FALSE, !.answer = <<a>>])
  BY DEF Deliver
<1> HIDE DEF a
<1> QED
  BY <1>1, <1>2, DeliveredOK

LEMMA CachedIsSent ==
    ASSUME IInv, FromCache
    PROVE  Deliver(Sends(r).kind, Sends(r).what)
<1>1. Arrived /\ stored # << >> /\ stored[1].key = CacheKey(r)
      /\ Deliver(stored[1].response.kind, stored[1].response.what)
  BY DEF FromCache
<1>2. PICK q \in Requests : stored = <<[key |-> CacheKey(q), response |-> Sends(q)]>>
  BY <1>1 DEF IInv, StoredOK
<1>3. stored[1].key = CacheKey(q) /\ stored[1].response = Sends(q)
  BY <1>2
<1>4. q.method = r.method /\ q.sent = r.sent /\ (q.loc = "@s3_sliced" <=> r.loc = "@s3_sliced")
  BY <1>1, <1>3 DEF CacheKey
<1>5. Sends(q) = Sends(r)
  BY <1>4 DEF Sends
<1> QED
  BY <1>1, <1>3, <1>5

LEMMA S3FindsAndStoredOK ==
    ASSUME IInv, S3FindsAndStored
    PROVE  IInv'
<1> DEFINE entry == [key |-> CacheKey(r), response |-> Sends(r)]
<1>1. Arrived /\ stored' = <<entry>> /\ cfg' = cfg /\ Deliver(Sends(r).kind, Sends(r).what)
  BY DEF S3FindsAndStored
<1>2. r \in Requests /\ r.sent # << >>
  BY <1>1, ArrivedFacts
<1>3. StoredOK'
  <2>1. \E q \in Requests : /\ q.sent # << >>
                            /\ stored' = <<[key |-> CacheKey(q), response |-> Sends(q)]>>
    BY <1>1, <1>2
  <2> QED
    BY <1>1, <2>1 DEF StoredOK, Sends
<1>4. Len(stored') <= 1
  <2> HIDE DEF entry
  <2> QED
    BY <1>1
<1> QED
  BY <1>1, <1>3, <1>4, FoundOK

\* S3 or the connection to it fails, a listing is spoiled, an object is missing.
LEMMA AfterS3OK ==
    ASSUME IInv, Arrived, NEW loc \in {"@trailslashControl", "@error404"},
           loc = "@trailslashControl" => r.loc \in {"@s3", "@s3_sliced"},
           Update([r EXCEPT !.upstream = FALSE, !.loc = loc])
    PROVE  IInv'
<1> DEFINE new == [r EXCEPT !.upstream = FALSE, !.loc = loc]
<1>1. reqs # << >> /\ RequestOK(cfg, r) /\ r \in Requests /\ cfg \in Configs /\ r.answer = << >>
      /\ (Len(reqs) = 2 => IsProbe(r))
  BY ArrivedFacts
<1>2. loc \in Locations /\ loc \notin Routes \cup Unsent
  BY DEF Locations, Routes, Unsent
<1>3. /\ new \in Requests /\ Keeps(r, new) /\ ~new.upstream /\ new.answer = << >> /\ new.loc = loc
      /\ new.uri = r.uri /\ new.checked = r.checked
  BY <1>1, <1>2 DEF Requests, Keeps
<1> HIDE DEF new
<1>4. loc = "@trailslashControl" =>
          new.checked /\ new.method \in {"GET", "HEAD"} /\ new.uri = NormalUri(new.path)
  <2>1. "@s3" \in Entered /\ "@s3_sliced" \in Entered
    BY DEF Entered, Routes
  <2> QED
    BY <1>1, <1>3, <2>1 DEF RequestOK, Placed, Keeps
<1>5. loc \in Entered => loc = "@trailslashControl"
  BY DEF Entered, Routes
<1>6. Placed(cfg, new)
  BY <1>2, <1>3, <1>4, <1>5 DEF Placed
<1>7. RequestOK(cfg, new)
  BY <1>1, <1>2, <1>3, <1>6, MovedOK
<1>8. new.path = r.path /\ (Len(reqs) = 2 => IsProbe(new))
  BY <1>1, <1>3 DEF IsProbe, Keeps
<1> QED
  BY <1>1, <1>7, <1>8, UpdateOK DEF new

LEMMA S3MissesOK ==
    ASSUME IInv, S3Misses
    PROVE  IInv'
<1>1. Arrived /\ r \in Requests
  BY ArrivedFacts DEF S3Misses
<1>2. CASE r.loc \in {"@s3", "@s3_sliced"}
  <2>1. Update([r EXCEPT !.upstream = FALSE, !.loc = "@trailslashControl"])
    BY <1>1, <1>2 DEF S3Misses, Requests
  <2> QED
    BY <1>1, <1>2, <2>1, AfterS3OK
<1>3. CASE r.loc \notin {"@s3", "@s3_sliced"}
  <2>1. Update([r EXCEPT !.upstream = FALSE, !.loc = "@error404"])
    BY <1>1, <1>3 DEF S3Misses, Requests
  <2> QED
    BY <1>1, <2>1, AfterS3OK
<1> QED
  BY <1>2, <1>3

LEMMA S3RedirectsOK ==
    ASSUME IInv, S3Redirects
    PROVE  IInv'
<1> DEFINE a == Answer(301, "passed", << >>, EditHeaders(cfg, r))
<1>1. Arrived /\ Update([r EXCEPT !.upstream = FALSE, !.answer = <<a>>])
  BY DEF S3Redirects
<1>2. a \in Answers /\ a.status # 302
  BY <1>1, SentAnswer DEF Answer
<1> HIDE DEF a
<1> QED
  BY <1>1, <1>2, StoredStays, DeliveredOK DEF Update

(***************************************************************************)
(* The redirect to a directory, the error pages and the client.            *)
(***************************************************************************)
LEMMA TrailslashControlOK ==
    ASSUME IInv, TrailslashControl
    PROVE  IInv'
<1>1. reqs # << >> /\ ~r.upstream /\ r.answer = << >> /\ r.loc = "@trailslashControl"
  BY AtFacts DEF TrailslashControl
<1>2. RequestOK(cfg, r) /\ r \in Requests /\ Len(reqs) # 2
  BY <1>1, LastFacts DEF IsProbe
<1> DEFINE p == Decoded(UriPath(cfg, r.path))
           fits == cfg.slash /\ ~IsDirectory(p) /\ ~HasExtension(p)
           new == [r EXCEPT !.loc = "@trailslash"]
<1>3. CASE fits
  <2>1. Goto("@trailslash")
    BY <1>3 DEF TrailslashControl
  <2>2. "@trailslash" \in Locations /\ "@trailslash" \notin Routes \cup Unsent
        /\ "@trailslashControl" \in Entered
    BY DEF Locations, Routes, Unsent, Entered
  <2>3. new.loc = "@trailslash" /\ new.uri = r.uri /\ new.checked = r.checked /\ Keeps(r, new)
    BY <1>2 DEF Requests, Keeps
  <2> HIDE DEF new
  <2>4. Placed(cfg, new)
    BY <1>1, <1>2, <1>3, <2>2, <2>3 DEF RequestOK, Placed, Keeps
  <2> QED
    BY <1>1, <1>2, <2>1, <2>2, <2>4, GotoOK DEF new
<1>4. CASE ~fits
  <2>1. Goto("@error404")
    BY <1>4 DEF TrailslashControl
  <2> QED
    BY <1>1, <2>1, GotoErrorOK
<1> QED
  BY <1>3, <1>4

LEMMA TrailslashOK ==
    ASSUME IInv, Trailslash
    PROVE  IInv'
<1> DEFINE t == Append(TrailslashRedirectUri(r.uri), "/")
<1>1. reqs # << >> /\ ~r.upstream /\ r.answer = << >> /\ Reply(302, "redirect", t)
  BY AtFacts DEF Trailslash
<1>2. r.uri \in Path
  BY <1>1, LastFacts DEF Requests
<1>3. t \in Path /\ t # << >> /\ Head(t) = "/"
  BY <1>2, RedirectPath
<1> HIDE DEF t
<1>4. Answer(302, "redirect", t, {}) \in Answers
  BY <1>3 DEF Answer, Answers
<1> QED
  BY <1>1, <1>3, <1>4, ReplyOK

LEMMA ErrorPagesOK ==
    ASSUME IInv, Error404 \/ Error405 \/ Error500
    PROVE  IInv'
<1>1. reqs # << >> /\ ~r.upstream
  BY AtFacts DEF Error404, Error405, Error500
<1>2. \A status \in {404, 405, 500} : Answer(status, "none", << >>, {}) \in Answers
  BY BucketPath DEF Answer, Answers
<1>3. PICK status \in {404, 405, 500} : Reply(status, "none", << >>)
  BY DEF Error404, Error405, Error500
<1> QED
  BY <1>1, <1>2, <1>3, ReplyOK

\* A client asks, for the first time or anew.
LEMMA AskedOK ==
    ASSUME IInv, NEW ask \in [method : Methods, path : Path, marker : Path, range : BOOLEAN],
           ask.path # << >>, Head(ask.path) = "/",
           reqs' = <<Receive(ask)>>, cfg' = cfg, stored' = stored
    PROVE  IInv'
<1> DEFINE new == Receive(ask)
<1>1. cfg \in Configs
  BY DEF IInv
<1>2. RequestOK(cfg, new) /\ Question(new) = ask
  BY <1>1, ReceivedOK
<1>3. new.path = ask.path
  BY <1>2 DEF Question
<1> HIDE DEF new
<1>4. reqs' = <<new>> /\ new \in Requests /\ Client(new)
  BY <1>2, <1>3 DEF new, RequestOK, Client
<1>5. reqs' \in Seq(Requests) /\ Len(reqs') = 1 /\ reqs'[1] = new
  BY <1>4
<1>6. Nested'
  BY <1>4, <1>5, RoutingAssumption DEF Nested
<1>7. \A i \in 1 .. Len(reqs') : RequestOK(cfg, reqs'[i])
  BY <1>2, <1>5
<1> QED
  BY <1>1, <1>5, <1>6, <1>7, StoredStays DEF IInv

LEMMA AskOK ==
    ASSUME IInv, Ask
    PROVE  IInv'
<1>1. PICK ask \in Questions : reqs' = <<Receive(ask)>>
  BY DEF Ask
<1>2. ask \in [method : Methods, path : Path, marker : Path, range : BOOLEAN]
      /\ ask.path # << >> /\ Head(ask.path) = "/"
  BY QuestionsAssumption DEF Questions
<1> QED
  BY <1>1, <1>2, AskedOK DEF Ask

LEMMA FollowOK ==
    ASSUME IInv, Follow
    PROVE  IInv'
<1> DEFINE ask == [method |-> r.method, path |-> r.answer[1].what,
                   marker |-> r.marker, range |-> r.range]
<1>1. reqs # << >> /\ r.answer # << >> /\ r.answer[1].status = 302 /\ reqs' = <<Receive(ask)>>
      /\ cfg' = cfg /\ stored' = stored
  <2>1. Len(<< >>) # 1
    OBVIOUS
  <2> QED
    BY <2>1 DEF Follow, Answered
<1>2. RequestOK(cfg, r) /\ r \in Requests
  BY <1>1, LastFacts
<1>3. r.answer[1] \in Answers
  BY <1>1, <1>2, FirstOfSeq DEF Requests
<1>4. ask \in [method : Methods, path : Path, marker : Path, range : BOOLEAN]
  BY <1>2, <1>3 DEF Requests, Answers
<1>5. ask.path # << >> /\ Head(ask.path) = "/"
  BY <1>1, <1>2 DEF RequestOK, Redirected
<1> HIDE DEF ask
<1> QED
  BY <1>1, <1>4, <1>5, AskedOK

LEMMA LeaveOK ==
    ASSUME IInv, Leave
    PROVE  IInv'
<1>1. reqs' = << >> /\ cfg' = cfg /\ stored' = stored
  BY DEF Leave
<1>2. reqs' \in Seq(Requests) /\ Len(reqs') = 0
  BY <1>1
<1>3. Nested'
  BY <1>2, RoutingAssumption DEF Nested
<1>4. \A i \in 1 .. Len(reqs') : RequestOK(cfg, reqs'[i])
  BY <1>2
<1> QED
  BY <1>1, <1>2, <1>3, <1>4, StoredStays DEF IInv

----------------------------------------------------------------------------
LEMMA InitOK ==
    ASSUME Init
    PROVE  IInv
<1>1. cfg \in Configs /\ reqs = << >> /\ stored = << >>
  BY DEF Init
<1>2. Len(<< >>) = 0 /\ << >> \in Seq(Requests) /\ 0 <= MaxDepth
  BY RoutingAssumption
<1>3. Nested
  BY <1>1, <1>2 DEF Nested
<1> QED
  BY <1>1, <1>2, <1>3 DEF IInv, StoredOK

LEMMA StutterOK ==
    ASSUME IInv, UNCHANGED vars
    PROVE  IInv'
BY DEF IInv, Nested, StoredOK, Sends, vars

LEMMA ServeOK ==
    ASSUME IInv, Serve
    PROVE  IInv'
<1>1. CASE S3Finds
  BY <1>1, StoredStays, FoundOK DEF S3Finds
<1>2. CASE FromCache
  BY <1>2, CachedIsSent, StoredStays, FoundOK DEF FromCache
<1>3. CASE S3FindsNothingToList
  BY <1>3, AfterS3OK DEF S3FindsNothingToList
<1>4. CASE S3Fails
  BY <1>4, AfterS3OK DEF S3Fails
<1>5. CASE FindLocation \/ AnswerPreflight \/ RejectMethod \/ DenyMethod
  BY <1>5, FindLocationOK, AnswerPreflightOK, RejectMethodOK, DenyMethodOK
<1>6. CASE CredentialsFound \/ CredentialsMissing \/ RedirectToS3 \/ LoadContent
  BY <1>6, CredentialsFoundOK, CredentialsMissingOK, RedirectToS3OK, LoadContentOK
<1>7. CASE ProbeAnswered \/ ProbeBroken \/ ProxyToS3 \/ TrailslashControl \/ Trailslash
  BY <1>7, ProbeAnsweredOK, ProbeBrokenOK, ProxyToS3OK, TrailslashControlOK, TrailslashOK
<1>8. CASE Error404 \/ Error405 \/ Error500 \/ S3FindsAndStored \/ S3Misses \/ S3Redirects
  BY <1>8, ErrorPagesOK, S3FindsAndStoredOK, S3MissesOK, S3RedirectsOK
<1> QED
  BY <1>1, <1>2, <1>3, <1>4, <1>5, <1>6, <1>7, <1>8 DEF Serve

LEMMA NextOK ==
    ASSUME IInv, [Next]_vars
    PROVE  IInv'
BY AskOK, ServeOK, LeaveOK, FollowOK, StutterOK DEF Next

\* The inductive invariant of routing: every request is where its method, path
\* and configuration lead, what it has computed so far agrees with what it will
\* compute, a probe has one parent, and what is stored was an answer to its key.
THEOREM Inductive == Spec => []IInv
<1>1. Init => IInv
  BY InitOK
<1>2. IInv /\ [Next]_vars => IInv'
  BY NextOK
<1> QED
  BY <1>1, <1>2, PTL DEF Spec

(***************************************************************************)
(* The types of the requests, of the request lines and of the answers.     *)
(***************************************************************************)
THEOREM TypeCorrect == Spec => []TypeOK
<1>1. IInv => TypeOK
  <2> SUFFICES ASSUME IInv PROVE TypeOK
    OBVIOUS
  <2>1. cfg \in Configs /\ reqs \in Seq(Requests) /\ Len(reqs) <= MaxDepth /\ Len(stored) <= 1
    BY DEF IInv, Nested
  <2>2. ASSUME NEW i \in DOMAIN reqs
        PROVE  /\ Len(reqs[i].s3uri) <= 1 /\ Len(reqs[i].sent) <= 1 /\ Len(reqs[i].answer) <= 1
               /\ reqs[i].upstream => reqs[i].sent # << >>
    <3>1. RequestOK(cfg, reqs[i])
      BY <2>1, <2>2 DEF IInv
    <3>2. \A x : <<x>> # << >>
      OBVIOUS
    <3> QED
      BY <3>1, <3>2 DEF RequestOK, Sized, Fetched
  <2> QED
    BY <2>1, <2>2 DEF TypeOK
<1> QED
  BY <1>1, Inductive, PTL

(***************************************************************************)
(* What is sent to S3 is what was signed, for either signature version,    *)
(* any rewriting of paths and whatever location set $forIndexPage.         *)
(***************************************************************************)
THEOREM SentIsSigned == Spec => []SignedIsProxied
<1>1. IInv => SignedIsProxied
  <2> SUFFICES ASSUME IInv, Arrived PROVE Signed
    BY DEF SignedIsProxied
  <2>1. RequestOK(cfg, r) /\ r \in Requests /\ cfg \in Configs /\ r.sent[1] = S3uri(cfg, r)
    BY ArrivedFacts
  <2>2. r.path \in Path /\ r.marker \in Path /\ r.forIndexPage \in BOOLEAN
        /\ (~r.forIndexPage => cfg.listing)
    BY <2>1 DEF RequestOK, Requests, Computed
  <2> QED
    BY <2>1, <2>2, ConfigFacts, SignatureCovers DEF Signed
<1> QED
  BY <1>1, Inductive, PTL

(***************************************************************************)
(* Whatever reaches S3 has passed the check of the credentials.            *)
(***************************************************************************)
THEOREM SentIsChecked == Spec => []CheckedBeforeSigned
<1>1. IInv => CheckedBeforeSigned
  BY ArrivedFacts DEF CheckedBeforeSigned
<1> QED
  BY <1>1, Inductive, PTL

(***************************************************************************)
(* The probe for an index page makes no probe of its own.                  *)
(***************************************************************************)
THEOREM ProbesEnd == Spec => []ProbeNeverProbes
<1>1. IInv => ProbeNeverProbes
  BY DEF IInv, Nested, ProbeNeverProbes
<1> QED
  BY <1>1, Inductive, PTL

(***************************************************************************)
(* Where no index page is appended, a directory reaches S3 as an object    *)
(* only without listings, and only below the root of the bucket.           *)
(***************************************************************************)
LEMMA ArrivedDirectory ==
    ASSUME IInv, Arrived, IsDirectory(UriPath(cfg, r.path)), ~cfg.index,
           r.forIndexPage \/ ~cfg.listing
    PROVE  ~cfg.listing /\ CollapseDuplicateSlashes(UriPath(cfg, r.path)) # <<"/">>
<1> DEFINE u == CollapseDuplicateSlashes(UriPath(cfg, r.path))
<1>1. /\ RequestOK(cfg, r) /\ r \in Requests /\ cfg \in Configs /\ r.loc \in ProxyLocations
      /\ r.method \in {"GET", "HEAD"} /\ (r.loc = "@s3Directory" => ~r.forIndexPage)
  BY ArrivedFacts
<1>2. r.path \in Path
  BY <1>1 DEF Requests
<1>3. IsDirectory(u)
  BY <1>1, <1>2, RewrittenFacts
<1>4. r.loc # "index"
  <2>1. ASSUME r.loc = "index" PROVE FALSE
    <3>1. IsIndexUri(NormalUri(r.path))
      BY <1>1, <2>1 DEF RequestOK, Placed, ByProbe
    <3> QED
      BY <1>1, <1>2, <3>1, IndexUriIsAFile
  <2> QED
    BY <2>1
<1>5. r.loc = "@s3Directory" => FALSE
  <2>1. ASSUME r.loc = "@s3Directory" PROVE FALSE
    <3>1. Route(cfg, r) = "@s3PreListing"
      BY <1>1, <2>1 DEF RequestOK, Placed
    <3>2. cfg.listing
      BY <3>1 DEF Route
    <3> QED
      BY <1>1, <2>1, <3>2
  <2> QED
    BY <2>1
<1>6. r.loc \in {"@s3", "@s3_sliced"} /\ r.loc = Route(cfg, r)
  BY <1>1, <1>4, <1>5 DEF RequestOK, Placed, ProxyLocations, Routes
<1>7. Route(cfg, r) # "@s3PreListing" /\ Route(cfg, r) # "@error404"
  BY <1>6
<1> QED
  BY <1>1, <1>3, <1>7 DEF Route

(***************************************************************************)
(* Without listings, no request for an object is a request for the bucket. *)
(***************************************************************************)
THEOREM BucketStaysClosed == Spec => []BucketNotRead
<1>1. IInv => BucketNotRead
  <2> SUFFICES ASSUME IInv, Arrived, ~cfg.listing, IsPrefix(<<"/">>, UriPath(cfg, r.path))
               PROVE  KeyOf(cfg, r.sent[1]) # << >>
    BY DEF BucketNotRead
  <2> DEFINE v == UriPath(cfg, r.path)
             u == CollapseDuplicateSlashes(v)
             w == WithIndex(cfg, u)
  <2>1. r \in Requests /\ cfg \in Configs /\ r.sent[1] = S3uri(cfg, r)
    BY ArrivedFacts
  <2>2. v \in Path /\ u \in Path /\ (IsDirectory(u) <=> IsDirectory(v))
    BY <2>1, RewrittenFacts DEF Requests
  <2>3. S3uri(cfg, r) = [path |-> EscapeURIPath(S3BaseUri(cfg) \o w), query |-> << >>]
    BY DEF S3uri
  <2>4. u # << >> /\ Head(u) = "/"
    <3> HIDE DEF v
    <3>1. Len(<<"/">>) = 1 /\ <<"/">>[1] = "/" /\ v \in Seq(Token) /\ Len(v) \in Nat
      BY <2>2 DEF Path
    <3>2. Len(v) >= 1 /\ SubSeq(<<"/">>, 1, 1) = SubSeq(v, 1, 1)
      BY <3>1 DEF IsPrefix, v
    <3>3. SubSeq(<<"/">>, 1, 1) = <<"/">>
      BY <3>1, OneElement
    <3>4. SubSeq(v, 1, 1)[1] = v[1] /\ v # << >> /\ Head(v) = v[1]
      BY <3>1, <3>2
    <3>5. Head(v) = "/"
      BY <3>1, <3>2, <3>3, <3>4
    <3> QED
      BY <2>2, <3>4, <3>5, CollapseFirst
  <2>5. Len(w) > 1 /\ w \in Path
    <3>1. Len(u) \in Nat \ {0} /\ w \in Path
      BY <2>2, <2>4, WithIndexFacts DEF Path
    <3>2. CASE cfg.index /\ IsDirectory(u)
      <4>1. w = Append(u, IndexPage) /\ IndexPage \in Token
        BY <3>2 DEF WithIndex, Token
      <4>2. Len(w) = Len(u) + 1
        BY <2>2, <4>1, AppendFacts
      <4>3. \A n \in Nat \ {0} : n + 1 > 1
        OBVIOUS
      <4> HIDE DEF w
      <4> QED
        BY <3>1, <4>2, <4>3
    <3>3. CASE ~(cfg.index /\ IsDirectory(u))
      <4>1. w = u
        BY <3>3 DEF WithIndex
      <4>2. u # <<"/">>
        <5>1. CASE IsDirectory(u)
          BY <2>2, <3>3, <5>1, ArrivedDirectory
        <5>2. CASE ~IsDirectory(u)
          <6>1. IsDirectory(<<"/">>)
            <7>1. <<"/">> # << >> /\ Len(<<"/">>) = 1 /\ <<"/">>[1] = "/"
              OBVIOUS
            <7> QED
              BY <7>1 DEF IsDirectory, Last
          <6> QED
            BY <5>2, <6>1
        <5> QED
          BY <5>1, <5>2
      <4>3. Len(u) # 1
        <5>1. Len(u) = 1 => u = <<Head(u)>>
          BY <2>2, <2>4 DEF Path
        <5> QED
          BY <2>4, <4>2, <5>1
      <4>4. \A n \in Nat \ {0} : n # 1 => n > 1
        OBVIOUS
      <4> HIDE DEF w
      <4> QED
        BY <3>1, <4>1, <4>3, <4>4
    <3> QED
      BY <3>2, <3>3
  <2> HIDE DEF w
  <2>6. KeyOf(cfg, S3uri(cfg, r)) = WithoutLeadingSlash(Decoded(w))
    BY <2>3, <2>5, KeyOfPath
  <2>7. Decoded(w) \in Path /\ Len(Decoded(w)) > 1
    BY <2>5, DecodedFacts
  <2> QED
    BY <2>1, <2>6, <2>7, WithoutLeadingSlashFacts
<1> QED
  BY <1>1, Inductive, PTL

(***************************************************************************)
(* The operators on paths mean the same in both modules.                   *)
(***************************************************************************)
LEMMA SameCollapse ==
    ASSUME NEW p
    PROVE  Contract!CollapseDuplicateSlashes(p) = CollapseDuplicateSlashes(p)
<1>1. \A S : Contract!Cardinality(S) = Cardinality(S)
  BY DEF Contract!Cardinality, Cardinality
<1>2. \A S, k : Contract!Rank(S, k) = Rank(S, k)
  BY <1>1 DEF Contract!Rank, Rank
<1>3. \A S, k : Contract!Nth(S, k) = Nth(S, k)
  BY <1>2 DEF Contract!Nth, Nth
<1>4. Contract!Kept(p) = Kept(p)
  BY DEF Contract!Kept, Kept
<1> QED
  BY <1>1, <1>3, <1>4 DEF Contract!CollapseDuplicateSlashes, CollapseDuplicateSlashes

LEMMA SamePaths ==
    ASSUME NEW c, NEW p
    PROVE  /\ Contract!UriPath(c, p) = UriPath(c, p)
           /\ Contract!Decoded(p) = Decoded(p)
           /\ Contract!WithoutLeadingSlash(p) = WithoutLeadingSlash(p)
           /\ Contract!IsDirectory(p) <=> IsDirectory(p)
           /\ Contract!HasExtension(p) <=> HasExtension(p)
           /\ Contract!IndexPage = IndexPage
<1>1. \A s : Contract!TrimTrailingSlashes(s) = TrimTrailingSlashes(s)
  BY DEF Contract!TrimTrailingSlashes, TrimTrailingSlashes, Contract!Max, Max
<1>2. \A s, t : Contract!IsPrefix(s, t) <=> IsPrefix(s, t)
  BY DEF Contract!IsPrefix, IsPrefix
<1>3. Contract!UriPath(c, p) = UriPath(c, p)
  BY <1>1, <1>2, SameCollapse
     DEF Contract!UriPath, UriPath, Contract!UriFullPath, UriFullPath,
         Contract!StripLeadingDirectoryPath, StripLeadingDirectoryPath,
         Contract!PrefixLeadingDirectoryPath, PrefixLeadingDirectoryPath
<1>4. Contract!Decoded(p) = Decoded(p) /\ Contract!WithoutLeadingSlash(p) = WithoutLeadingSlash(p)
  BY DEF Contract!Decoded, Decoded, Contract!WithoutLeadingSlash, WithoutLeadingSlash
<1>5. Contract!IsDirectory(p) <=> IsDirectory(p)
  BY DEF Contract!IsDirectory, IsDirectory, Contract!Last, Last
<1>6. (Contract!HasExtension(p) <=> HasExtension(p)) /\ Contract!IndexPage = IndexPage
  BY DEF Contract!HasExtension, HasExtension, Contract!Dotted, Dotted, Contract!IndexPage, IndexPage
<1> QED
  BY <1>3, <1>4, <1>5, <1>6

(***************************************************************************)
(* The headers: the pieces of a setting are what its separators delimit.   *)
(***************************************************************************)
LEMMA Slice ==
    ASSUME NEW S, NEW s \in Seq(S), NEW a \in 1 .. Len(s), NEW b \in 1 .. Len(s), a <= b
    PROVE  /\ SubSeq(s, a, b) \in Seq(S) /\ Len(SubSeq(s, a, b)) = b - a + 1
           /\ SubSeq(s, a, b) # << >>
           /\ \A m \in 1 .. b - a + 1 : SubSeq(SubSeq(s, a, b), 1, m) = SubSeq(s, a, a + m - 1)
<1>1. Len(s) \in Nat /\ a \in Int /\ b \in Int /\ \A i \in a .. b : s[i] \in S
  OBVIOUS
<1>2. SubSeq(s, a, b) \in Seq(S) /\ Len(SubSeq(s, a, b)) = b - a + 1
  BY <1>1, SubSeqProperties
<1>3. Len(SubSeq(s, a, b)) # 0
  BY <1>1, <1>2
<1>4. ASSUME NEW m \in 1 .. b - a + 1
      PROVE  SubSeq(SubSeq(s, a, b), 1, m) = SubSeq(s, a, a + m - 1)
  <2>1. 1 \in 1 .. b - a + 1 /\ a + 1 - 1 = a
    BY <1>1
  <2> QED
    BY <2>1, SubSeqOfSubSeq
<1> QED
  BY <1>2, <1>3, <1>4

LEMMA HoldsPiece ==
    ASSUME NEW S, NEW name \in Seq(S), NEW T, NEW piece \in Seq(T), piece # << >>
    PROVE  Holds(name, piece) <=> \E a, b \in DOMAIN name : SubSeq(name, a, b) = piece
<1> DEFINE n == Len(name)
           m == Len(piece)
<1>1. n \in Nat /\ m \in Nat \ {0} /\ DOMAIN name = 1 .. n /\ SubSeq(piece, 1, m) = piece
  BY SubSeqFull
<1>2. ASSUME Holds(name, piece) PROVE \E a, b \in DOMAIN name : SubSeq(name, a, b) = piece
  <2>1. PICK i \in 0 .. n : IsPrefix(piece, SubSeq(name, i + 1, n))
    BY <1>2 DEF Holds
  <2> DEFINE t == SubSeq(name, i + 1, n)
  <2>2. m <= Len(t) /\ SubSeq(piece, 1, m) = SubSeq(t, 1, m)
    BY <2>1 DEF IsPrefix
  <2>3. i # n
    <3> SUFFICES ASSUME i = n PROVE FALSE
      OBVIOUS
    <3>1. t = << >>
      BY <1>1, SubSeqEmpty
    <3>2. Len(<< >>) = 0 /\ ~(m <= 0)
      BY <1>1
    <3> HIDE DEF t
    <3> QED
      BY <2>2, <3>1, <3>2
  <2>4. i + 1 \in 1 .. n /\ n \in 1 .. n /\ i + 1 <= n
    <3>1. \A k \in Nat : \A x \in 0 .. k : x # k => x + 1 \in 1 .. k /\ k \in 1 .. k /\ x + 1 <= k
      OBVIOUS
    <3> QED
      BY <1>1, <2>3, <3>1
  <2>5. Len(t) = n - (i + 1) + 1
    BY <2>4, Slice
  <2> HIDE DEF t
  <2>6. m \in 1 .. n - (i + 1) + 1 /\ (i + 1) + m - 1 \in 1 .. n
    BY <1>1, <2>2, <2>4, <2>5
  <2>7. SubSeq(t, 1, m) = SubSeq(name, i + 1, (i + 1) + m - 1)
    BY <2>4, <2>6, Slice DEF t
  <2> QED
    BY <1>1, <2>2, <2>4, <2>6, <2>7
<1>3. ASSUME NEW a \in DOMAIN name, NEW b \in DOMAIN name, SubSeq(name, a, b) = piece
      PROVE  Holds(name, piece)
  <2>1. a \in 1 .. n /\ b \in 1 .. n /\ n \in 1 .. n /\ a <= n
    BY <1>1
  <2>2. a <= b
    <3>1. ~(a <= b) => SubSeq(name, a, b) = << >>
      BY <1>1, <2>1, SubSeqEmpty
    <3> QED
      BY <1>3, <3>1
  <2>3. m = b - a + 1
    BY <1>3, <2>1, <2>2, Slice
  <2>4. m \in 1 .. n - a + 1 /\ a + m - 1 = b /\ m <= n - a + 1
    BY <1>1, <2>1, <2>3
  <2>5. Len(SubSeq(name, a, n)) = n - a + 1 /\ SubSeq(SubSeq(name, a, n), 1, m) = SubSeq(name, a, a + m - 1)
    <3> HIDE DEF m
    <3>1. Len(SubSeq(name, a, n)) = n - a + 1
      BY <2>1, Slice
    <3>2. \A k \in 1 .. n - a + 1 : SubSeq(SubSeq(name, a, n), 1, k) = SubSeq(name, a, a + k - 1)
      BY <2>1, Slice
    <3> QED
      BY <2>4, <3>1, <3>2
  <2>6. IsPrefix(piece, SubSeq(name, a, n))
    BY <1>1, <1>3, <2>4, <2>5 DEF IsPrefix
  <2>7. a - 1 \in 0 .. n /\ (a - 1) + 1 = a
    BY <1>1, <2>1
  <2> QED
    BY <2>6, <2>7 DEF Holds
<1> QED
  BY <1>2, <1>3

LEMMA SuffixSeparator ==
    ASSUME NEW s \in Seq(STRING)
    PROVE  IsSuffix(<<";">>, s) <=> s # << >> /\ s[Len(s)] = ";"
<1> DEFINE n == Len(s)
<1>1. n \in Nat /\ Len(<<";">>) = 1
  OBVIOUS
<1>2. Reverse(<<";">>) = <<";">>
  BY <1>1 DEF Reverse
<1>3. Reverse(s) \in [1 .. n -> STRING]
  BY <1>1 DEF Reverse
<1>4. Reverse(s) \in Seq(STRING) /\ Len(Reverse(s)) = n
  BY <1>1, <1>3, FunctionIsSeq
<1>5. n > 0 => Reverse(s)[1] = s[n]
  BY <1>1 DEF Reverse
<1>6. IsSuffix(<<";">>, s) <=> 1 <= n /\ SubSeq(<<";">>, 1, 1) = SubSeq(Reverse(s), 1, 1)
  BY <1>1, <1>2, <1>4 DEF IsSuffix, IsPrefix
<1>7. SubSeq(<<";">>, 1, 1) = <<";">>
  BY <1>1, OneElement
<1>8. n > 0 => SubSeq(Reverse(s), 1, 1) = <<s[n]>>
  <2> SUFFICES ASSUME n > 0 PROVE SubSeq(Reverse(s), 1, 1) = <<s[n]>>
    OBVIOUS
  <2>1. 1 \in 1 .. Len(Reverse(s)) /\ Reverse(s)[1] = s[n]
    BY <1>1, <1>4, <1>5
  <2>2. SubSeq(Reverse(s), 1, 1) = <<s[n]>> \o SubSeq(Reverse(s), 1 + 1, 1)
    BY <1>4, <2>1, SubSeqRecursiveFirst
  <2>3. SubSeq(Reverse(s), 1 + 1, 1) = << >>
    BY SubSeqEmpty
  <2>4. <<s[n]>> \in Seq({s[n]})
    OBVIOUS
  <2> QED
    BY <2>2, <2>3, <2>4, ConcatEmptySeq
<1>9. <<s[n]>> = <<";">> <=> s[n] = ";"
  OBVIOUS
<1>10. (n > 0 <=> s # << >>) /\ (n > 0 <=> 1 <= n)
  BY <1>1
<1> HIDE DEF n
<1>11. IsSuffix(<<";">>, s) <=> n > 0 /\ <<";">> = <<s[n]>>
  BY <1>6, <1>7, <1>8, <1>10
<1> QED
  BY <1>9, <1>10, <1>11 DEF n

(***************************************************************************)
(* The separators of a setting of length n are at the positions C; without *)
(* the one it may end with, the length is m.                               *)
(***************************************************************************)
Separators(n, C, m) ==
    /\ n \in Nat /\ m \in 0 .. n
    /\ \A i \in C : i \in 1 .. n /\ i > 1 /\ i - 1 \notin C
    /\ m # n => n = m + 1 /\ n \in C
    /\ m > 0 => m \notin C

Cuts(C, m) == {0, m + 1} \cup {i \in 1 .. m : i \in C}

After(C, m, i) == {j \in Cuts(C, m) : j > i}

Bounds(n, C, i, j) == /\ \A k \in i .. j : k \notin C
                      /\ i > 1 => i - 1 \in C
                      /\ j < n => j + 1 \in C

LEMMA CutFacts ==
    ASSUME NEW n, NEW C, NEW m, Separators(n, C, m)
    PROVE  /\ m \in Nat /\ Cuts(C, m) \in SUBSET (0 .. m + 1) /\ Cuts(C, m) \in SUBSET Int
           /\ \A i : i \in Cuts(C, m) <=> i = 0 \/ i = m + 1 \/ (i \in 1 .. m /\ i \in C)
BY DEF Separators, Cuts

LEMMA BoundsAreCuts ==
    ASSUME NEW n, NEW C, NEW m, Separators(n, C, m),
           NEW i \in 1 .. n, NEW j \in i .. n, Bounds(n, C, i, j)
    PROVE  /\ i - 1 \in Cuts(C, m) \ {m + 1} /\ Min(After(C, m, i - 1)) = j + 1
           /\ m > 0 /\ i \in 1 .. m /\ j \in i .. m
<1>1. n \in Nat /\ m \in Nat /\ m <= n /\ i \in Int /\ j \in Int /\ 1 <= i /\ i <= j /\ j <= n
  BY DEF Separators
<1>2. j <= m
  <2>1. j \notin C
    BY <1>1 DEF Bounds
  <2>2. m # n => n = m + 1 /\ n \in C
    BY DEF Separators
  <2> QED
    BY <1>1, <2>1, <2>2
<1>3. i \in 1 .. m /\ j \in i .. m /\ m > 0 /\ i - 1 # m + 1
  BY <1>1, <1>2
<1>4. i - 1 \in Cuts(C, m)
  <2>1. i = 1 \/ (i > 1 /\ i - 1 \in 1 .. m)
    BY <1>1, <1>2
  <2>2. i > 1 => i - 1 \in C
    BY DEF Bounds
  <2>3. i = 1 => i - 1 = 0
    OBVIOUS
  <2> DEFINE h == i - 1
  <2>4. h = 0 \/ (h \in 1 .. m /\ h \in C)
    BY <2>1, <2>2, <2>3
  <2> HIDE DEF h
  <2>5. h \in Cuts(C, m)
    BY <2>4, CutFacts
  <2> QED
    BY <2>5 DEF h
<1>5. j + 1 \in After(C, m, i - 1)
  <2>1. j + 1 > i - 1 /\ (j = m \/ (j < n /\ j + 1 \in 1 .. m))
    BY <1>1, <1>2
  <2>2. j < n => j + 1 \in C
    BY DEF Bounds
  <2>3. j + 1 \in Cuts(C, m)
    BY <2>1, <2>2, CutFacts
  <2> QED
    BY <2>1, <2>3 DEF After
<1>6. ASSUME NEW k \in After(C, m, i - 1) PROVE j + 1 <= k
  <2>1. k \in Cuts(C, m) /\ k > i - 1
    BY DEF After
  <2>2. k \in Int /\ (k = 0 \/ k = m + 1 \/ k \in C)
    BY <2>1, CutFacts
  <2>3. k \in i .. j => k \notin C
    BY DEF Bounds
  <2> QED
    BY <1>1, <1>2, <2>1, <2>2, <2>3
<1>7. After(C, m, i - 1) \in SUBSET Int
  BY CutFacts DEF After
<1> QED
  BY <1>3, <1>4, <1>5, <1>6, <1>7, MinFacts

LEMMA CutsAreBounds ==
    ASSUME NEW n, NEW C, NEW m, Separators(n, C, m), m > 0,
           NEW i \in Cuts(C, m) \ {m + 1}
    PROVE  \E j \in i + 1 .. m : /\ i + 1 \in 1 .. m /\ Bounds(n, C, i + 1, j)
                                /\ Min(After(C, m, i)) = j + 1
<1>1. /\ n \in Nat /\ m \in Nat /\ m <= n /\ m \notin C
      /\ \A k \in C : k \in 1 .. n /\ k > 1 /\ k - 1 \notin C
      /\ m # n => n = m + 1 /\ n \in C
  BY DEF Separators
<1>2. i = 0 \/ (i \in 1 .. m /\ i \in C)
  BY CutFacts
<1>3. i \in 0 .. m - 1 /\ i + 1 \in 1 .. m /\ (i > 0 => i \in C)
  BY <1>1, <1>2
<1>4. i + 1 \notin C
  <2>1. ASSUME i + 1 \in C PROVE FALSE
    <3>1. i + 1 > 1 /\ (i + 1) - 1 \notin C /\ (i + 1) - 1 = i
      BY <1>1, <1>3, <2>1
    <3> QED
      BY <1>3, <3>1
  <2> QED
    BY <2>1
<1>5. After(C, m, i) \in SUBSET (0 .. m + 1) /\ After(C, m, i) \in SUBSET Int /\ m + 1 \in After(C, m, i)
  <2>1. m + 1 > i
    BY <1>1, <1>3
  <2> QED
    BY <2>1, CutFacts DEF After
<1>6. IsFiniteSet(After(C, m, i)) /\ After(C, m, i) # {}
  <2>1. IsFiniteSet(0 .. m + 1)
    BY <1>1, FS_Interval
  <2> QED
    BY <1>5, <2>1, FS_Subset
<1>7. PICK x \in After(C, m, i) : \A y \in After(C, m, i) : x <= y
  BY <1>5, <1>6, LeastExists
<1>8. Min(After(C, m, i)) = x
  BY <1>5, <1>7, MinFacts
<1>9. x \in Cuts(C, m) /\ x > i /\ x \in Int /\ x <= m + 1 /\ (x = m + 1 \/ x \in C)
  <2>1. x \in Cuts(C, m) /\ x > i
    BY DEF After
  <2> QED
    BY <1>3, <2>1, CutFacts
<1>10. x # i + 1
  BY <1>1, <1>3, <1>4, <1>9
<1> DEFINE j == x - 1
<1>11. j \in i + 1 .. m /\ x = j + 1
  BY <1>1, <1>3, <1>9, <1>10
<1>12. Bounds(n, C, i + 1, j)
  <2>1. ASSUME NEW k \in i + 1 .. j, k \in C PROVE FALSE
    <3>1. k \in 1 .. m /\ k > i /\ ~(x <= k)
      BY <1>1, <1>3, <1>9, <1>11
    <3>2. k \in Cuts(C, m)
      BY <2>1, <3>1, CutFacts
    <3>3. k \in After(C, m, i)
      BY <3>1, <3>2 DEF After
    <3> QED
      BY <1>7, <3>1, <3>3
  <2>2. i + 1 > 1 => (i + 1) - 1 \in C
    BY <1>3
  <2>3. j < n => j + 1 \in C
    BY <1>1, <1>9, <1>11
  <2> QED
    BY <2>1, <2>2, <2>3 DEF Bounds
<1> QED
  BY <1>3, <1>8, <1>11, <1>12

\* The positions of the separators, and a setting without the one it may end with.
SeparatorsOf(s) == {i \in DOMAIN s : s[i] = ";"}

Trimmed(s) == IF IsSuffix(<<";">>, s) THEN Front(s) ELSE s

LEMMA Entries ==
    ASSUME NEW S, NEW s \in Seq(S)
    PROVE  Len(s) \in Nat /\ DOMAIN s = 1 .. Len(s) /\ (s # << >> <=> Len(s) > 0)
OBVIOUS

LEMMA TrimmedFacts ==
    ASSUME NEW s \in Seq(STRING), WellSeparated(s)
    PROVE  /\ Trimmed(s) \in Seq(STRING)
           /\ Separators(Len(s), SeparatorsOf(s), Len(Trimmed(s)))
           /\ \A i \in 1 .. Len(Trimmed(s)) : Trimmed(s)[i] = s[i]
<1> DEFINE n == Len(s)
           C == SeparatorsOf(s)
<1>1. n \in Nat /\ DOMAIN s = 1 .. n /\ (s # << >> <=> n > 0)
  BY Entries
<1>2. \A i : i \in C <=> i \in 1 .. n /\ s[i] = ";"
  BY <1>1 DEF SeparatorsOf
<1> HIDE DEF C, n
<1>3. \A i \in C : i \in 1 .. n /\ i > 1 /\ i - 1 \notin C
  <2>1. \A i \in DOMAIN s : s[i] = ";" => i > 1 /\ s[i - 1] # ";"
    BY DEF WellSeparated
  <2>2. ASSUME NEW i \in C PROVE i \in 1 .. n /\ i > 1 /\ i - 1 \notin C
    <3>1. i \in DOMAIN s /\ s[i] = ";" /\ i \in 1 .. n
      BY <1>1, <1>2
    <3>2. i > 1 /\ s[i - 1] # ";"
      BY <2>1, <3>1
    <3> QED
      BY <1>2, <3>1, <3>2
  <2> QED
    BY <2>2
<1>4. CASE IsSuffix(<<";">>, s)
  <2>1. s # << >> /\ s[n] = ";" /\ Trimmed(s) = SubSeq(s, 1, n - 1)
    BY <1>4, SuffixSeparator DEF Front, Trimmed, n
  <2>2. n \in C /\ n > 1 /\ n - 1 \notin C
    <3>1. n > 0
      BY <1>1, <2>1
    <3>2. n \in 1 .. n
      BY <1>1, <3>1
    <3> QED
      BY <1>2, <1>3, <2>1, <3>2
  <2>3. 1 \in 1 .. n /\ n - 1 \in 1 .. n /\ 1 <= n - 1 /\ n - 1 - 1 + 1 = n - 1 /\ n - 1 \in 0 .. n
        /\ n = (n - 1) + 1
    <3>1. n \in Nat /\ n > 1
      BY <1>1, <2>2
    <3> QED
      BY <3>1
  <2>4. Trimmed(s) \in Seq(STRING) /\ Len(Trimmed(s)) = n - 1
    <3>1. SubSeq(s, 1, n - 1) \in Seq(STRING) /\ Len(SubSeq(s, 1, n - 1)) = n - 1 - 1 + 1
      BY <2>3, Slice DEF n
    <3> QED
      BY <2>1, <2>3, <3>1
  <2>5. \A i \in 1 .. n - 1 : Trimmed(s)[i] = s[i]
    <3>1. n \in Nat
      BY <1>1
    <3>2. \A i \in 1 .. n - 1 : i \in 1 .. n /\ i \in 1 .. n - 1 - 1 + 1 /\ 1 + i - 1 = i
      BY <3>1
    <3>3. \A i \in 1 .. n : s[i] \in STRING
      BY <1>1
    <3>4. \A i \in 1 .. n - 1 : s[i] \in STRING
      BY <3>2, <3>3
    <3>5. \A i \in 1 .. n - 1 - 1 + 1 : SubSeq(s, 1, n - 1)[i] = s[1 + i - 1]
      BY <3>1, <3>4, SubSeqProperties
    <3> QED
      BY <2>1, <3>2, <3>5
  <2>6. Separators(n, C, n - 1)
    BY <1>1, <1>3, <2>2, <2>3 DEF Separators
  <2> QED
    BY <2>4, <2>5, <2>6 DEF n, C
<1>5. CASE ~IsSuffix(<<";">>, s)
  <2>1. Trimmed(s) = s
    BY <1>5 DEF Trimmed
  <2>2. n > 0 => n \notin C
    BY <1>1, <1>2, <1>5, SuffixSeparator DEF n
  <2>3. Separators(n, C, n)
    BY <1>1, <1>3, <2>2 DEF Separators
  <2> QED
    BY <2>1, <2>3 DEF n, C
<1> QED
  BY <1>4, <1>5

LEMMA SameSlice ==
    ASSUME NEW S, NEW s \in Seq(S), NEW t \in Seq(S), Len(t) <= Len(s),
           \A i \in 1 .. Len(t) : t[i] = s[i], NEW a \in 1 .. Len(t), NEW b \in a .. Len(t)
    PROVE  SubSeq(t, a, b) = SubSeq(s, a, b)
<1> DEFINE x == SubSeq(t, a, b)
           y == SubSeq(s, a, b)
<1>1. a \in 1 .. Len(s) /\ b \in 1 .. Len(s) /\ a \in 1 .. Len(t) /\ b \in 1 .. Len(t) /\ a <= b
      /\ a \in Int /\ b \in Int
  OBVIOUS
<1>2. x \in Seq(S) /\ Len(x) = b - a + 1 /\ y \in Seq(S) /\ Len(y) = b - a + 1
  BY <1>1, Slice
<1>3. \A k \in 1 .. b - a + 1 : x[k] = t[a + k - 1] /\ y[k] = s[a + k - 1]
  <2>1. (\A i \in a .. b : s[i] \in S) /\ (\A i \in a .. b : t[i] \in S)
    OBVIOUS
  <2> QED
    BY <1>1, <2>1, SubSeqProperties
<1>4. \A k \in 1 .. b - a + 1 : a + k - 1 \in 1 .. Len(t)
  BY <1>1
<1> HIDE DEF x, y
<1>5. x = y
  BY <1>2, <1>3, <1>4, SeqEqual
<1> QED
  BY <1>5 DEF x, y

LEMMA PiecesOfSetting ==
    ASSUME NEW s \in Seq(STRING), WellSeparated(s), NEW piece
    PROVE  piece \in ParseArray(s)
               <=> \E i \in DOMAIN s : \E j \in i .. Len(s) :
                       Bounds(Len(s), SeparatorsOf(s), i, j) /\ piece = SubSeq(s, i, j)
<1> DEFINE n == Len(s)
           t == Trimmed(s)
           m == Len(t)
           C == SeparatorsOf(s)
<1>1. t \in Seq(STRING) /\ Separators(n, C, m) /\ \A i \in 1 .. m : t[i] = s[i]
  BY TrimmedFacts
<1>2. DOMAIN s = 1 .. n /\ DOMAIN t = 1 .. m /\ (t # << >> <=> m > 0) /\ n \in Nat /\ m \in Nat
  BY <1>1, Entries
<1>3. m <= n
  <2>1. Separators(n, C, m)
    BY <1>1
  <2> HIDE DEF n, m, C
  <2> QED
    BY <2>1 DEF Separators
<1>4. {0, m + 1} \cup {i \in DOMAIN t : t[i] = ";"} = Cuts(C, m)
  <2>1. \A i \in 1 .. n : i \in C <=> s[i] = ";"
    BY <1>2 DEF SeparatorsOf
  <2> HIDE DEF C, m, t, n
  <2>2. \A i \in 1 .. m : i \in 1 .. n
    BY <1>2, <1>3
  <2>3. \A i \in 1 .. m : i \in C <=> t[i] = ";"
    BY <1>1, <2>1, <2>2
  <2> QED
    BY <1>2, <2>3 DEF Cuts
<1>5. piece \in ParseArray(s) <=>
          m > 0 /\ \E i \in Cuts(C, m) \ {m + 1} : piece = SubSeq(t, i + 1, Min(After(C, m, i)) - 1)
  <2> DEFINE cuts == {0, m + 1} \cup {i \in DOMAIN t : t[i] = ";"}
  <2>1. ParseArray(s) = IF t = << >> THEN {}
                        ELSE {SubSeq(t, i + 1, Min({j \in cuts : j > i}) - 1) : i \in cuts \ {m + 1}}
    BY DEF ParseArray, Trimmed
  <2>2. ParseArray(s) = IF t = << >> THEN {}
                        ELSE {SubSeq(t, i + 1, Min(After(C, m, i)) - 1) : i \in Cuts(C, m) \ {m + 1}}
    BY <1>4, <2>1 DEF After
  <2> HIDE DEF t, m, C
  <2> QED
    BY <1>2, <2>2
<1>6. \A a \in 1 .. m : \A b \in a .. m : SubSeq(t, a, b) = SubSeq(s, a, b)
  BY <1>1, <1>3, SameSlice
<1> HIDE DEF n, t, m, C
<1>7. ASSUME m > 0, NEW i \in Cuts(C, m) \ {m + 1}, piece = SubSeq(t, i + 1, Min(After(C, m, i)) - 1)
      PROVE  \E a \in 1 .. n : \E b \in a .. n : Bounds(n, C, a, b) /\ piece = SubSeq(s, a, b)
  <2>1. PICK j \in i + 1 .. m : i + 1 \in 1 .. m /\ Bounds(n, C, i + 1, j) /\ Min(After(C, m, i)) = j + 1
    BY <1>1, <1>7, CutsAreBounds
  <2>2. (j + 1) - 1 = j /\ i + 1 \in 1 .. n /\ j \in i + 1 .. n
    BY <1>2, <1>3, <2>1
  <2>3. piece = SubSeq(s, i + 1, j)
    BY <1>6, <1>7, <2>1, <2>2
  <2> QED
    BY <2>1, <2>2, <2>3
<1>8. ASSUME NEW i \in 1 .. n, NEW j \in i .. n, Bounds(n, C, i, j), piece = SubSeq(s, i, j)
      PROVE  m > 0 /\ \E a \in Cuts(C, m) \ {m + 1} : piece = SubSeq(t, a + 1, Min(After(C, m, a)) - 1)
  <2>1. /\ i - 1 \in Cuts(C, m) \ {m + 1} /\ Min(After(C, m, i - 1)) = j + 1
        /\ m > 0 /\ i \in 1 .. m /\ j \in i .. m
    BY <1>1, <1>8, BoundsAreCuts
  <2>2. (j + 1) - 1 = j /\ (i - 1) + 1 = i
    BY <1>2
  <2>3. piece = SubSeq(t, (i - 1) + 1, Min(After(C, m, i - 1)) - 1)
    BY <1>6, <1>8, <2>1, <2>2
  <2> QED
    BY <2>1, <2>3
<1>9. piece \in ParseArray(s) <=>
          \E i \in 1 .. n : \E j \in i .. n : Bounds(n, C, i, j) /\ piece = SubSeq(s, i, j)
  BY <1>5, <1>7, <1>8
<1> QED
  BY <1>2, <1>9 DEF n, C

Occurs(name, piece) == \E a, b \in DOMAIN name : SubSeq(name, a, b) = piece

Delimited(s, i, j) == /\ \A k \in i .. j : s[k] # ";"
                      /\ i > 1 => s[i - 1] = ";"
                      /\ j < Len(s) => s[j + 1] = ";"

LEMMA ListedPieces ==
    ASSUME NEW s, NEW name
    PROVE  Contract!Listed(s, name) <=>
               \E i \in DOMAIN s : \E j \in i .. Len(s) : Delimited(s, i, j) /\ Occurs(name, SubSeq(s, i, j))
BY DEF Contract!Listed, Delimited, Occurs

LEMMA BoundsDelimit ==
    ASSUME NEW s \in Seq(STRING), NEW i \in DOMAIN s, NEW j \in i .. Len(s)
    PROVE  /\ Bounds(Len(s), SeparatorsOf(s), i, j) <=> Delimited(s, i, j)
           /\ SubSeq(s, i, j) \in Seq(STRING) /\ SubSeq(s, i, j) # << >>
<1> DEFINE n == Len(s)
           C == SeparatorsOf(s)
<1>1. n \in Nat /\ DOMAIN s = 1 .. n
  BY Entries
<1>2. \A k \in 1 .. n : k \in C <=> s[k] = ";"
  BY <1>1 DEF SeparatorsOf
<1>3. SubSeq(s, i, j) \in Seq(STRING) /\ SubSeq(s, i, j) # << >>
  <2>1. i \in 1 .. n /\ j \in 1 .. n /\ i <= j
    BY <1>1
  <2> QED
    BY <2>1, Slice
<1> HIDE DEF C
<1>4. (\A k \in i .. j : k \in 1 .. n) /\ (i > 1 => i - 1 \in 1 .. n) /\ (j < n => j + 1 \in 1 .. n)
  BY <1>1
<1>5. Bounds(n, C, i, j) <=> Delimited(s, i, j)
  BY <1>2, <1>4 DEF Bounds, Delimited
<1> QED
  BY <1>3, <1>5 DEF C

LEMMA ListedIsHeld ==
    ASSUME NEW s \in Seq(STRING), WellSeparated(s), NEW name \in Seq(STRING)
    PROVE  Contract!Listed(s, name) <=> \E piece \in ParseArray(s) : Holds(name, piece)
<1>1. ASSUME NEW i \in DOMAIN s, NEW j \in i .. Len(s)
      PROVE  Holds(name, SubSeq(s, i, j)) <=> Occurs(name, SubSeq(s, i, j))
  BY BoundsDelimit, HoldsPiece DEF Occurs
<1>2. \A piece : piece \in ParseArray(s) <=>
          \E i \in DOMAIN s : \E j \in i .. Len(s) : Delimited(s, i, j) /\ piece = SubSeq(s, i, j)
  BY PiecesOfSetting, BoundsDelimit
<1>3. ASSUME Contract!Listed(s, name) PROVE \E piece \in ParseArray(s) : Holds(name, piece)
  <2>1. PICK i \in DOMAIN s : \E j \in i .. Len(s) : Delimited(s, i, j) /\ Occurs(name, SubSeq(s, i, j))
    BY <1>3, ListedPieces
  <2>2. PICK j \in i .. Len(s) : Delimited(s, i, j) /\ Occurs(name, SubSeq(s, i, j))
    BY <2>1
  <2>3. SubSeq(s, i, j) \in ParseArray(s) /\ Holds(name, SubSeq(s, i, j))
    BY <1>1, <1>2, <2>2
  <2> QED
    BY <2>3
<1>4. ASSUME NEW piece \in ParseArray(s), Holds(name, piece) PROVE Contract!Listed(s, name)
  <2>1. PICK i \in DOMAIN s : \E j \in i .. Len(s) : Delimited(s, i, j) /\ piece = SubSeq(s, i, j)
    BY <1>2
  <2>2. PICK j \in i .. Len(s) : Delimited(s, i, j) /\ piece = SubSeq(s, i, j)
    BY <2>1
  <2>3. Occurs(name, SubSeq(s, i, j))
    BY <1>1, <1>4, <2>2
  <2> QED
    BY <2>2, <2>3, ListedPieces
<1> QED
  BY <1>3, <1>4

LEMMA AmazonIsHeld ==
    ASSUME NEW name \in Seq(STRING)
    PROVE  Contract!Listed(<<"x-amz-">>, name) <=> Holds(name, <<"x-amz-">>)
<1> DEFINE s == <<"x-amz-">>
<1>0. Len(s) = 1
  OBVIOUS
<1>1. Len(s) = 1 /\ DOMAIN s = {1} /\ s[1] # ";" /\ s # << >> /\ s \in Seq({"x-amz-"})
  OBVIOUS
<1>2. SubSeq(s, 1, 1) = s
  BY <1>1, OneElement
<1>3. Holds(name, s) <=> Occurs(name, s)
  BY <1>1, HoldsPiece DEF Occurs
<1> HIDE DEF s
<1>4. \A j : j \in 1 .. 1 <=> j = 1
  OBVIOUS
<1>5. Delimited(s, 1, 1)
  <2>1. ~(1 > 1) /\ ~(1 < Len(s))
    BY <1>0
  <2>2. \A k \in 1 .. 1 : s[k] # ";"
    <3> TAKE k \in 1 .. 1
    <3>1. k = 1
      BY <1>4
    <3> QED
      BY <1>1, <3>1
  <2> QED
    BY <2>1, <2>2 DEF Delimited
<1>6. Contract!Listed(s, name) <=> Occurs(name, s)
  BY <1>1, <1>2, <1>4, <1>5, ListedPieces
<1> QED
  BY <1>3, <1>6 DEF s

Shown(c, h) == \/ Contract!Listed(c.allowHeaders, h)
               \/ ~Contract!Listed(<<"x-amz-">>, h) /\ ~Contract!Listed(c.stripHeaders, h)

LEMMA SameHeaders ==
    ASSUME NEW c \in Configs, NEW q
    PROVE  EditHeaders(c, q) = Contract!Visible(c, Question(q))
<1>1. Question(q).path = q.path /\ Question(q).method = q.method
  BY DEF Question
<1>2. Contract!Visible(c, Question(q)) =
          IF c.listing /\ q.method = "HEAD" /\ IsDirectory(UriPath(c, q.path))
          THEN {HtmlType} ELSE {h \in Headers : Shown(c, h)}
  <2>1. Contract!Directory(c, q.path) <=> IsDirectory(UriPath(c, q.path))
    BY SamePaths DEF Contract!Directory
  <2> QED
    BY <1>1, <2>1 DEF Contract!Visible, HtmlType, Shown
<1>3. ASSUME NEW h \in Headers
      PROVE  IsHeaderToBeAllowed(c, h) \/ ~IsHeaderToBeStripped(c, h) <=> Shown(c, h)
  <2>1. h \in Seq(STRING)
    BY QuestionsAssumption
  <2>2. Contract!Listed(c.allowHeaders, h) <=> \E piece \in ParseArray(c.allowHeaders) : Holds(h, piece)
    BY <2>1, ConfigFacts, ListedIsHeld
  <2>3. Contract!Listed(c.stripHeaders, h) <=> \E piece \in ParseArray(c.stripHeaders) : Holds(h, piece)
    BY <2>1, ConfigFacts, ListedIsHeld
  <2>4. Contract!Listed(<<"x-amz-">>, h) <=> Holds(h, <<"x-amz-">>)
    BY <2>1, AmazonIsHeld
  <2> QED
    BY <2>2, <2>3, <2>4 DEF IsHeaderToBeAllowed, IsHeaderToBeStripped, Shown
<1> QED
  BY <1>2, <1>3 DEF EditHeaders


(***************************************************************************)
(* What S3 is asked for is what the contract lets the question read.       *)
(***************************************************************************)
LEMMA SameKey ==
    ASSUME NEW c, NEW p
    PROVE  /\ Contract!KeyDenoted(c, p)
                  = WithoutLeadingSlash(Decoded(CollapseDuplicateSlashes(UriPath(c, p))))
           /\ Contract!Directory(c, p) <=> IsDirectory(UriPath(c, p))
BY SameCollapse, SamePaths DEF Contract!KeyDenoted, Contract!Directory

LEMMA ServedKeys ==
    ASSUME NEW c, NEW q
    PROVE  LET key == Contract!KeyDenoted(c, q.path)
           IN  /\ ~IsDirectory(UriPath(c, q.path)) => key \in Contract!KeysServed(c, q)
               /\ IsDirectory(UriPath(c, q.path)) /\ c.index
                      => Append(key, IndexPage) \in Contract!KeysServed(c, q)
               /\ IsDirectory(UriPath(c, q.path)) /\ c.listing /\ q.method = "HEAD"
                      => key \in Contract!KeysServed(c, q)
               /\ IsDirectory(UriPath(c, q.path)) /\ ~c.listing /\ ~c.index /\ key # << >>
                      => key \in Contract!KeysServed(c, q)
<1> DEFINE key == Contract!KeyDenoted(c, q.path)
<1>1. Contract!Directory(c, q.path) <=> IsDirectory(UriPath(c, q.path))
  BY SameKey
<1>2. Contract!IndexPage = IndexPage
  BY SamePaths
<1>3. Contract!KeysServed(c, q) =
          IF ~IsDirectory(UriPath(c, q.path)) THEN {key}
          ELSE (IF c.index THEN {Append(key, IndexPage)} ELSE {})
               \cup (IF \/ c.listing /\ q.method = "HEAD"
                        \/ ~c.listing /\ ~c.index /\ key # << >>
                     THEN {key} ELSE {})
  BY <1>1, <1>2 DEF Contract!KeysServed
<1> HIDE DEF key
<1> QED
  BY <1>3 DEF key

LEMMA SentIsServed ==
    ASSUME IInv, Arrived
    PROVE  \/ /\ Sends(r).kind = "listing" /\ Sends(r).what = Contract!KeyDenoted(cfg, r.path)
              /\ Contract!MayList(cfg, Question(r))
           \/ /\ Sends(r).kind \in Contract!Kinds(cfg, Question(r))
              /\ Sends(r).what \in Contract!KeysServed(cfg, Question(r))
<1> DEFINE q == Question(r)
           v == UriPath(cfg, r.path)
           u == CollapseDuplicateSlashes(v)
           base == S3BaseUri(cfg)
           key == Contract!KeyDenoted(cfg, r.path)
           query == S3DirQueryParams(cfg, u, r.method, r.marker)
           line(x) == [path |-> EscapeURIPath(base \o x), query |-> << >>]
<1>1. /\ RequestOK(cfg, r) /\ r \in Requests /\ cfg \in Configs /\ r.loc \in ProxyLocations
      /\ r.method \in {"GET", "HEAD"} /\ r.sent[1] = S3uri(cfg, r)
  BY ArrivedFacts
<1>2. q.path = r.path /\ q.method = r.method /\ q.range = r.range
  BY DEF Question
<1>3. r.path \in Path /\ v \in Path /\ u \in Path /\ (IsDirectory(u) <=> IsDirectory(v))
  BY <1>1, RewrittenFacts DEF Requests
<1>4. key = WithoutLeadingSlash(Decoded(u)) /\ (Contract!Directory(cfg, r.path) <=> IsDirectory(u))
  BY <1>3, SameKey
<1>5. \A x \in Path : KeyOf(cfg, line(x)) = WithoutLeadingSlash(Decoded(x)) /\ line(x).query = << >>
  BY KeyOfPath
<1>6. query = << >> \/ (query # << >> /\ query[1].prefix = key /\ IsDirectory(u) /\ r.method = "GET")
  <2>1. CASE ~IsDirectory(u) \/ r.method # "GET"
    BY <2>1 DEF S3DirQueryParams
  <2>2. CASE IsDirectory(u) /\ r.method = "GET"
    <3> DEFINE one == [prefix  |-> ListPrefix(u),
                       marker  |-> S3Marker(ListPrefix(u), ListRequestMarker(r.marker)),
                       maxKeys |-> ListMaxKeys(cfg)]
    <3>1. query = <<one>>
      BY <2>2 DEF S3DirQueryParams
    <3>2. one.prefix = key
      BY <1>4 DEF ListPrefix
    <3> HIDE DEF one, query
    <3> QED
      BY <2>2, <3>1, <3>2
  <2> QED
    BY <2>1, <2>2
<1>7. query = << >> => ~IsDirectory(u) \/ r.method = "HEAD"
  <2>1. \A x : <<x>> # << >>
    OBVIOUS
  <2> QED
    BY <1>1, <2>1 DEF S3DirQueryParams
<1> HIDE DEF q, v, line
<1>8. CASE cfg.listing /\ ~r.forIndexPage /\ query # << >>
  <2>1. S3uri(cfg, r) = [path |-> base, query |-> query]
    BY <1>8 DEF S3uri, v
  <2>2. Sends(r) = [kind |-> "listing", what |-> key]
    BY <1>1, <1>6, <1>8, <2>1 DEF Sends
  <2>3. Contract!MayList(cfg, q)
    BY <1>2, <1>4, <1>6, <1>8 DEF Contract!MayList
  <2> QED
    BY <2>2, <2>3 DEF q
<1>9. ASSUME NEW x \in Path, S3uri(cfg, r) = line(x)
      PROVE  /\ Sends(r).kind \in Contract!Kinds(cfg, q)
             /\ Sends(r).what = WithoutLeadingSlash(Decoded(x))
  <2>1. r.sent[1].query = << >> /\ KeyOf(cfg, r.sent[1]) = WithoutLeadingSlash(Decoded(x))
    BY <1>1, <1>5, <1>9
  <2>2. r.loc = "@s3_sliced" => r.range
    <3>1. ASSUME r.loc = "@s3_sliced" PROVE r.range
      <4>1. Route(cfg, r) = "@s3_sliced"
        BY <1>1, <3>1 DEF RequestOK, Placed, Routes
      <4> QED
        BY <4>1 DEF Route
    <3> QED
      BY <3>1
  <2>3. Sends(r).what = WithoutLeadingSlash(Decoded(x))
    BY <2>1 DEF Sends
  <2>4. r.method = "HEAD" => Sends(r).kind = "headers"
    BY <2>1 DEF Sends
  <2>5. r.method # "HEAD" /\ r.loc = "@s3_sliced" => Sends(r).kind = "slices"
    BY <2>1 DEF Sends
  <2>6. r.method # "HEAD" /\ r.loc # "@s3_sliced" => Sends(r).kind = "object"
    BY <2>1 DEF Sends
  <2>7. Sends(r).kind \in Contract!Kinds(cfg, q)
    BY <1>2, <2>2, <2>4, <2>5, <2>6 DEF Contract!Kinds
  <2> QED
    BY <2>3, <2>7
<1>10. CASE cfg.listing /\ ~r.forIndexPage /\ query = << >>
  <2>1. S3uri(cfg, r) = line(u)
    BY <1>10 DEF S3uri, v, line
  <2>2. Sends(r).kind \in Contract!Kinds(cfg, q) /\ Sends(r).what = key
    BY <1>3, <1>4, <1>9, <2>1
  <2>3. ~IsDirectory(u) \/ r.method = "HEAD"
    BY <1>7, <1>10
  <2>4. key \in Contract!KeysServed(cfg, q)
    BY <1>2, <1>3, <1>10, <2>3, ServedKeys DEF v
  <2> QED
    BY <2>2, <2>4 DEF q
<1>11. CASE ~cfg.listing \/ r.forIndexPage
  <2> DEFINE w == WithIndex(cfg, u)
  <2>1. S3uri(cfg, r) = line(w)
    BY <1>11 DEF S3uri, v, line
  <2>2. w \in Path
    BY <1>3, WithIndexFacts
  <2>3. Sends(r).kind \in Contract!Kinds(cfg, q) /\ Sends(r).what = WithoutLeadingSlash(Decoded(w))
    BY <1>9, <2>1, <2>2
  <2>4. CASE ~IsDirectory(u)
    <3>1. w = u
      BY <2>4 DEF WithIndex
    <3>2. key \in Contract!KeysServed(cfg, q)
      BY <1>2, <1>3, <2>4, ServedKeys DEF v
    <3> QED
      BY <1>4, <2>3, <3>1, <3>2 DEF q
  <2>5. CASE IsDirectory(u) /\ cfg.index
    <3>1. w = Append(u, IndexPage)
      BY <2>5 DEF WithIndex
    <3>2. Decoded(w) = Append(Decoded(u), IndexPage) /\ Decoded(u) \in Path /\ Decoded(u) # << >>
      BY <1>3, <2>5, <3>1, DecodedAppend, DecodedFacts, DecodedEnds DEF IsDirectory
    <3>3. WithoutLeadingSlash(Decoded(w)) = Append(key, IndexPage)
      BY <1>4, <3>2, WithoutLeadingSlashFacts
    <3>4. Append(key, IndexPage) \in Contract!KeysServed(cfg, q)
      BY <1>2, <1>3, <2>5, ServedKeys DEF v
    <3> QED
      BY <2>3, <3>3, <3>4 DEF q
  <2>6. CASE IsDirectory(u) /\ ~cfg.index
    <3>1. ~cfg.listing /\ u # <<"/">>
      BY <1>3, <1>11, <2>6, ArrivedDirectory DEF v
    <3>2. w = u
      BY <2>6 DEF WithIndex
    <3>3. Len(u) > 1
      <4>1. Len(u) \in Nat /\ u # << >> /\ u[Len(u)] = "/"
        BY <1>3, <2>6 DEF IsDirectory, Last, Path
      <4>2. Len(u) = 1 => u = <<u[1]>>
        BY <1>3 DEF Path
      <4>3. Len(u) # 1
        BY <3>1, <4>1, <4>2
      <4>4. Len(u) # 0
        BY <1>3, <4>1 DEF Path
      <4>5. \A k \in Nat : k # 0 /\ k # 1 => k > 1
        OBVIOUS
      <4> HIDE DEF u
      <4> QED
        BY <4>1, <4>3, <4>4, <4>5
    <3>4. key # << >>
      <4>1. Decoded(u) \in Path /\ Len(Decoded(u)) > 1
        BY <1>3, <3>3, DecodedFacts
      <4> QED
        BY <1>4, <4>1, WithoutLeadingSlashFacts
    <3>5. key \in Contract!KeysServed(cfg, q)
      BY <1>2, <1>3, <2>6, <3>1, <3>4, ServedKeys DEF v
    <3> QED
      BY <1>4, <2>3, <3>2, <3>5 DEF q
  <2> QED
    BY <2>4, <2>5, <2>6
<1>12. (cfg.listing /\ ~r.forIndexPage) \/ ~cfg.listing \/ r.forIndexPage
  OBVIOUS
<1> QED
  BY <1>8, <1>10, <1>11, <1>12

(***************************************************************************)
(* The answers the contract promises.                                      *)
(***************************************************************************)
LEMMA FailurePromised ==
    ASSUME NEW c, NEW q, NEW status \in {404, 500}
    PROVE  Answer(status, "none", << >>, {}) \in Contract!Promised(c, q)
<1>1. Answer(404, "none", << >>, {}) \in Contract!Promised(c, q)
  BY DEF Contract!Promised, Contract!Answer, Answer
<1>2. Answer(500, "none", << >>, {}) \in Contract!Promised(c, q)
  BY DEF Contract!Promised, Contract!Answer, Answer
<1> QED
  BY <1>1, <1>2

LEMMA HealthPromised ==
    ASSUME NEW c, NEW q, Contract!Denotes(q.path, "health")
    PROVE  Answer(200, "health", << >>, {}) \in Contract!Promised(c, q)
BY DEF Contract!Promised, Contract!Answer, Answer

LEMMA PreflightPromised ==
    ASSUME NEW c, NEW q, q.method = "OPTIONS", c.cors
    PROVE  Answer(204, "none", << >>, {}) \in Contract!Promised(c, q)
BY DEF Contract!Promised, Contract!Answer, Answer

LEMMA RejectionPromised ==
    ASSUME NEW c, NEW q, q.method \notin {"GET", "HEAD"}
    PROVE  Answer(405, "none", << >>, {}) \in Contract!Promised(c, q)
BY DEF Contract!Promised, Contract!Answer, Answer, Contract!Reads

LEMMA ObjectPromised ==
    ASSUME NEW c, NEW q, q.method \in {"GET", "HEAD"},
           NEW kind \in Contract!Kinds(c, q), NEW key \in Contract!KeysServed(c, q)
    PROVE  Answer(200, kind, key, Contract!Visible(c, q)) \in Contract!Promised(c, q)
BY DEF Contract!Promised, Contract!Answer, Answer, Contract!Reads

LEMMA ListingPromised ==
    ASSUME NEW c, NEW q, Contract!MayList(c, q)
    PROVE  Answer(200, "listing", Contract!KeyDenoted(c, q.path), Contract!Visible(c, q))
               \in Contract!Promised(c, q)
BY DEF Contract!Promised, Contract!Answer, Answer

LEMMA PassedPromised ==
    ASSUME NEW c, NEW q, q.method \in {"GET", "HEAD"}
    PROVE  Answer(301, "passed", << >>, Contract!Visible(c, q)) \in Contract!Promised(c, q)
BY DEF Contract!Promised, Contract!Answer, Answer, Contract!Reads

LEMMA RedirectPromised ==
    ASSUME NEW c, NEW q, q.method \in {"GET", "HEAD"}, Contract!MayRedirect(c, q)
    PROVE  Answer(302, "redirect", Append(NormalUri(q.path), "/"), {}) \in Contract!Promised(c, q)
<1>1. Contract!CollapseDuplicateSlashes(Contract!Decoded(q.path)) = NormalUri(q.path)
  BY SameCollapse, SamePaths DEF NormalUri
<1> QED
  BY <1>1 DEF Contract!Promised, Contract!Answer, Answer, Contract!Reads

(***************************************************************************)
(* The steps: the client's request is the first of them, and only a step   *)
(* on it alone is seen.                                                    *)
(***************************************************************************)
Asked(q, new) == new.method = q.method /\ new.path = q.path /\ new.marker = q.marker /\ new.range = q.range

Permitted(q, new) == \/ new.answer = << >>
                     \/ \E a \in Contract!Promised(cfg, Question(q)) : new.answer = <<a>>

LEMMA FirstStep ==
    ASSUME reqs # << >>, reqs' # << >>, cfg' = cfg, reqs[1].answer = << >>,
           Asked(reqs[1], reqs'[1]), Permitted(reqs[1], reqs'[1])
    PROVE  [Contract!Next]_Contract!vars
<1>1. Question(reqs'[1]) = Question(reqs[1])
  BY DEF Question, Asked
<1>2. CASE reqs'[1].answer = << >>
  BY <1>1, <1>2 DEF Contract!vars
<1>3. ASSUME NEW a \in Contract!Promised(cfg, Question(reqs[1])), reqs'[1].answer = <<a>>
      PROVE  Contract!Reply
  <2>1. <<Question(reqs[1])>>[1] = Question(reqs[1]) /\ <<Question(reqs[1])>> # << >>
    OBVIOUS
  <2> QED
    BY <1>1, <1>3, <2>1 DEF Contract!Reply
<1> QED
  BY <1>2, <1>3 DEF Permitted, Contract!Next

LEMMA RevisedStep ==
    ASSUME IInv, reqs # << >>, r.answer = << >>, NEW new, Asked(r, new),
           Len(reqs) = 1 => Permitted(r, new), Revise(new), cfg' = cfg
    PROVE  [Contract!Next]_Contract!vars
<1>1. Len(reqs) \in {1, 2} /\ reqs \in Seq(Requests) /\ r = reqs[Len(reqs)]
  BY OneOrTwo, LastFacts
<1>2. reqs' = [reqs EXCEPT ![Len(reqs)] = new] /\ reqs' # << >> /\ 1 \in DOMAIN reqs
  BY <1>1 DEF Revise
<1>3. CASE Len(reqs) = 1
  <2>1. reqs'[1] = new /\ r = reqs[1]
    BY <1>1, <1>2, <1>3
  <2> QED
    BY <1>2, <1>3, <2>1, FirstStep
<1>4. CASE Len(reqs) = 2
  <2>1. reqs'[1] = reqs[1] /\ reqs[1].answer = << >>
    BY <1>1, <1>2, <1>4 DEF IInv, Nested, AsksForIndex
  <2> QED
    BY <1>2, <2>1, FirstStep DEF Asked, Permitted
<1> QED
  BY <1>1, <1>3, <1>4

\* A step that answers nothing, of the last request.
LEMMA SilentStep ==
    ASSUME IInv, reqs # << >>, r.answer = << >>, NEW new, Asked(r, new), new.answer = << >>,
           Revise(new), cfg' = cfg
    PROVE  [Contract!Next]_Contract!vars
BY RevisedStep DEF Permitted

LEMMA GotoStep ==
    ASSUME IInv, reqs # << >>, r.answer = << >>, NEW loc, Goto(loc)
    PROVE  [Contract!Next]_Contract!vars
<1> DEFINE new == [r EXCEPT !.loc = loc]
<1>1. r \in Requests
  BY LastFacts
<1>2. Asked(r, new) /\ new.answer = << >>
  BY <1>1 DEF Asked, Requests
<1>3. Revise(new) /\ cfg' = cfg
  BY DEF Goto, Update
<1> HIDE DEF new
<1> QED
  BY <1>2, <1>3, SilentStep

LEMMA AnswerStep ==
    ASSUME IInv, reqs # << >>, r.answer = << >>, NEW new, Asked(r, new),
           NEW a, new.answer = <<a>>,
           Len(reqs) = 1 => a \in Contract!Promised(cfg, Question(r)),
           Revise(new), cfg' = cfg
    PROVE  [Contract!Next]_Contract!vars
<1>1. Len(reqs) = 1 => Permitted(r, new)
  BY DEF Permitted
<1> QED
  BY <1>1, RevisedStep

LEMMA ReplyStep ==
    ASSUME IInv, reqs # << >>, r.answer = << >>, NEW status, NEW kind, NEW what,
           Reply(status, kind, what),
           Len(reqs) = 1 => Answer(status, kind, what, {}) \in Contract!Promised(cfg, Question(r))
    PROVE  [Contract!Next]_Contract!vars
<1> DEFINE a == Answer(status, kind, what, {})
           new == [r EXCEPT !.answer = <<a>>]
<1>1. r \in Requests
  BY LastFacts
<1>2. Revise(new) /\ cfg' = cfg
  BY DEF Reply, Update
<1> HIDE DEF a
<1>3. Asked(r, new) /\ new.answer = <<a>>
  BY <1>1 DEF Asked, Requests
<1> HIDE DEF new
<1>4. Len(reqs) = 1 => a \in Contract!Promised(cfg, Question(r))
  BY DEF a
<1> QED
  BY <1>2, <1>3, <1>4, AnswerStep

LEMMA FailureStep ==
    ASSUME IInv, reqs # << >>, r.answer = << >>, NEW status \in {404, 500}, Reply(status, "none", << >>)
    PROVE  [Contract!Next]_Contract!vars
BY FailurePromised, ReplyStep

LEMMA FindLocationStep ==
    ASSUME IInv, FindLocation
    PROVE  [Contract!Next]_Contract!vars
<1>1. reqs # << >> /\ r.loc = "find" /\ r.answer = << >> /\ ~r.upstream
  BY AtFacts DEF FindLocation
<1>2. RequestOK(cfg, r) /\ r \in Requests
  BY <1>1, LastFacts
<1>3. ASSUME NEW loc, Update([r EXCEPT !.loc = loc, !.checked = FALSE])
      PROVE  [Contract!Next]_Contract!vars
  <2> DEFINE new == [r EXCEPT !.loc = loc, !.checked = FALSE]
  <2>1. Asked(r, new) /\ new.answer = << >>
    BY <1>1, <1>2 DEF Asked, Requests
  <2>2. Revise(new) /\ cfg' = cfg
    BY <1>3 DEF Update
  <2> HIDE DEF new
  <2> QED
    BY <1>1, <2>1, <2>2, SilentStep
<1>4. CASE ~IsIndexUri(r.uri) /\ Prefixed(r.uri, "health") /\ Reply(200, "health", << >>)
  <2>1. r.uri = NormalUri(r.path)
    BY <1>1, <1>2, <1>4 DEF RequestOK, Placed, ByProbe
  <2>2. Contract!CollapseDuplicateSlashes(Contract!Decoded(r.path)) = NormalUri(r.path)
    BY SameCollapse, SamePaths DEF NormalUri
  <2>3. Contract!Denotes(Question(r).path, "health")
    BY <1>4, <2>1, <2>2 DEF Contract!Denotes, Prefixed, Question
  <2> QED
    BY <1>1, <1>4, <2>3, HealthPromised, ReplyStep
<1>5. CASE Reply(404, "none", << >>)
  BY <1>1, <1>5, FailureStep
<1>6. \/ Update([r EXCEPT !.loc = "index", !.checked = FALSE])
      \/ ~IsIndexUri(r.uri) /\ Prefixed(r.uri, "health") /\ Reply(200, "health", << >>)
      \/ Reply(404, "none", << >>)
      \/ Update([r EXCEPT !.loc = "/", !.checked = FALSE])
  BY DEF FindLocation
<1> QED
  BY <1>3, <1>4, <1>5, <1>6

LEMMA AnswerPreflightStep ==
    ASSUME IInv, AnswerPreflight
    PROVE  [Contract!Next]_Contract!vars
<1>1. reqs # << >> /\ r.answer = << >> /\ r.method = "OPTIONS" /\ cfg.cors /\ Reply(204, "none", << >>)
  BY AtFacts DEF AnswerPreflight, CorsPreflight
<1>2. Question(r).method = "OPTIONS"
  BY <1>1 DEF Question
<1> QED
  BY <1>1, <1>2, PreflightPromised, ReplyStep

LEMMA CredentialsFoundStep ==
    ASSUME IInv, CredentialsFound
    PROVE  [Contract!Next]_Contract!vars
<1> DEFINE new == [r EXCEPT !.checked = TRUE]
<1>1. reqs # << >> /\ r.answer = << >> /\ Revise(new) /\ cfg' = cfg
  BY AtFacts DEF CredentialsFound, Update
<1>2. r \in Requests
  BY <1>1, LastFacts
<1>3. Asked(r, new) /\ new.answer = << >>
  BY <1>1, <1>2 DEF Asked, Requests
<1> HIDE DEF new
<1> QED
  BY <1>1, <1>3, SilentStep

LEMMA CredentialsMissingStep ==
    ASSUME IInv, CredentialsMissing
    PROVE  [Contract!Next]_Contract!vars
<1>1. reqs # << >> /\ r.answer = << >> /\ (Reply(500, "none", << >>) \/ Goto("@error404"))
  BY AtFacts DEF CredentialsMissing
<1> QED
  BY <1>1, FailureStep, GotoStep

LEMMA LoadContentStep ==
    ASSUME IInv, LoadContent
    PROVE  [Contract!Next]_Contract!vars
<1>1. reqs # << >> /\ r.answer = << >>
  BY AtFacts DEF LoadContent
<1>2. CASE Goto("@s3Directory")
  BY <1>1, <1>2, GotoStep
<1>3. CASE reqs' = Append(reqs, Receive(Probe)) /\ UNCHANGED <<cfg, stored>>
  <2> DEFINE new == Receive(Probe)
  <2>1. reqs \in Seq(Requests) /\ Len(reqs) \in Nat \ {0}
    BY <1>1, OneOrTwo
  <2> HIDE DEF new
  <2>2. reqs' = Append(reqs, new)
    BY <1>3 DEF new
  <2>3. reqs'[1] = reqs[1] /\ reqs' # << >>
    BY <2>1, <2>2
  <2> QED
    BY <1>1, <1>3, <2>3 DEF Contract!vars
<1> QED
  BY <1>2, <1>3 DEF LoadContent

LEMMA ResumeStep ==
    ASSUME IInv, Len(reqs) > 1, NEW new, Asked(Waiting, new), new.answer = << >>, Resume(new)
    PROVE  [Contract!Next]_Contract!vars
<1>1. Len(reqs) = 2 /\ Waiting = reqs[1] /\ Waiting.answer = << >>
  BY WaitingFacts
<1>2. reqs' = <<new>> /\ cfg' = cfg
  <2>1. SubSeq(reqs, 1, 0) = << >> /\ Len(reqs) - 2 = 0
    BY <1>1, SubSeqEmpty
  <2>2. Append(<< >>, new) = <<new>>
    OBVIOUS
  <2> QED
    BY <2>1, <2>2 DEF Resume
<1>3. reqs # << >> /\ reqs' # << >> /\ reqs'[1] = new
  BY <1>1, <1>2
<1> QED
  BY <1>1, <1>2, <1>3, FirstStep DEF Permitted

LEMMA ProbeEndsStep ==
    ASSUME IInv, ProbeAnswered \/ ProbeBroken
    PROVE  [Contract!Next]_Contract!vars
<1> DEFINE w == Waiting
           g == GatewayUri(cfg, w).path
<1>1. Len(reqs) > 1
  BY DEF ProbeAnswered, ProbeBroken
<1>2. w \in Requests /\ w.answer = << >>
  BY <1>1, WaitingFacts
<1> HIDE DEF w, g
<1>3. ASSUME Resume([w EXCEPT !.loc = "find", !.uri = g])
      PROVE  [Contract!Next]_Contract!vars
  <2> DEFINE new == [w EXCEPT !.loc = "find", !.uri = g]
  <2>1. Asked(w, new) /\ new.answer = << >>
    BY <1>2 DEF Asked, Requests
  <2> HIDE DEF new
  <2> QED
    BY <1>1, <1>3, <2>1, ResumeStep DEF w, new
<1>4. ASSUME NEW loc, Resume([w EXCEPT !.loc = loc])
      PROVE  [Contract!Next]_Contract!vars
  <2> DEFINE new == [w EXCEPT !.loc = loc]
  <2>1. Asked(w, new) /\ new.answer = << >>
    BY <1>2 DEF Asked, Requests
  <2> HIDE DEF new
  <2> QED
    BY <1>1, <1>4, <2>1, ResumeStep DEF w, new
<1> QED
  BY <1>3, <1>4 DEF ProbeAnswered, ProbeBroken, w, g

LEMMA ProxyToS3Step ==
    ASSUME IInv, ProxyToS3
    PROVE  [Contract!Next]_Contract!vars
<1> DEFINE set == [r EXCEPT !.forIndexPage = ForIndexPage(r)]
           uri == IF r.s3uri = << >> THEN S3uri(cfg, set) ELSE r.s3uri[1]
           new == [set EXCEPT !.s3uri = <<uri>>, !.sent = <<uri>>, !.upstream = TRUE]
<1>1. reqs # << >> /\ r.answer = << >> /\ Revise(new) /\ cfg' = cfg
  BY AtFacts DEF ProxyToS3, Update
<1>2. r \in Requests
  BY <1>1, LastFacts
<1> HIDE DEF uri
<1>3. Asked(r, new) /\ new.answer = << >>
  BY <1>1, <1>2 DEF Asked, Requests
<1> HIDE DEF new
<1> QED
  BY <1>1, <1>3, SilentStep

(***************************************************************************)
(* What S3 or the cache answers.                                           *)
(***************************************************************************)
LEMMA ArrivedStep ==
    ASSUME IInv, Arrived, NEW a, a \in Contract!Promised(cfg, Question(r)),
           Revise([r EXCEPT !.upstream = FALSE, !.answer = <<a>>]), cfg' = cfg
    PROVE  [Contract!Next]_Contract!vars
<1> DEFINE new == [r EXCEPT !.upstream = FALSE, !.answer = <<a>>]
<1>1. reqs # << >> /\ r.answer = << >> /\ r \in Requests
  BY ArrivedFacts
<1>2. Asked(r, new) /\ new.answer = <<a>>
  BY <1>1 DEF Asked, Requests
<1>3. Revise(new)
  OBVIOUS
<1> HIDE DEF new
<1> QED
  BY <1>1, <1>2, <1>3, AnswerStep

LEMMA DeliverStep ==
    ASSUME IInv, Arrived, Deliver(Sends(r).kind, Sends(r).what), cfg' = cfg
    PROVE  [Contract!Next]_Contract!vars
<1> DEFINE a == Answer(200, Sends(r).kind, Sends(r).what, EditHeaders(cfg, r))
<1>1. cfg \in Configs /\ r.method \in {"GET", "HEAD"}
  BY ArrivedFacts
<1>2. EditHeaders(cfg, r) = Contract!Visible(cfg, Question(r))
  BY <1>1, SameHeaders
<1>3. Question(r).path = r.path /\ Question(r).method \in {"GET", "HEAD"}
  BY <1>1 DEF Question
<1>4. a \in Contract!Promised(cfg, Question(r))
  BY <1>2, <1>3, SentIsServed, ListingPromised, ObjectPromised
<1>5. Revise([r EXCEPT !.upstream = FALSE, !.answer = <<a>>])
  BY DEF Deliver
<1> HIDE DEF a
<1> QED
  BY <1>4, <1>5, ArrivedStep

LEMMA S3RedirectsStep ==
    ASSUME IInv, S3Redirects
    PROVE  [Contract!Next]_Contract!vars
<1> DEFINE a == Answer(301, "passed", << >>, EditHeaders(cfg, r))
<1>1. Arrived /\ Revise([r EXCEPT !.upstream = FALSE, !.answer = <<a>>]) /\ cfg' = cfg
  BY DEF S3Redirects, Update
<1>2. cfg \in Configs /\ r.method \in {"GET", "HEAD"}
  BY <1>1, ArrivedFacts
<1>3. EditHeaders(cfg, r) = Contract!Visible(cfg, Question(r)) /\ Question(r).method \in {"GET", "HEAD"}
  BY <1>2, SameHeaders DEF Question
<1>4. a \in Contract!Promised(cfg, Question(r))
  BY <1>3, PassedPromised
<1> HIDE DEF a
<1> QED
  BY <1>1, <1>4, ArrivedStep

LEMMA AfterS3Step ==
    ASSUME IInv, S3FindsNothingToList \/ S3Misses \/ S3Fails
    PROVE  [Contract!Next]_Contract!vars
<1>1. Arrived
  BY DEF S3FindsNothingToList, S3Misses, S3Fails
<1>2. reqs # << >> /\ r.answer = << >> /\ r \in Requests
  BY <1>1, ArrivedFacts
<1>3. ASSUME NEW loc, Update([r EXCEPT !.upstream = FALSE, !.loc = loc])
      PROVE  [Contract!Next]_Contract!vars
  <2> DEFINE new == [r EXCEPT !.upstream = FALSE, !.loc = loc]
  <2>1. Asked(r, new) /\ new.answer = << >> /\ Revise(new) /\ cfg' = cfg
    BY <1>2, <1>3 DEF Asked, Requests, Update
  <2> HIDE DEF new
  <2> QED
    BY <1>2, <2>1, SilentStep
<1>4. CASE S3Misses
  <2>1. [r EXCEPT !.upstream = FALSE, !.loc = IF @ \in {"@s3", "@s3_sliced"} THEN "@trailslashControl"
                                                                          ELSE "@error404"]
          = [r EXCEPT !.upstream = FALSE, !.loc = IF r.loc \in {"@s3", "@s3_sliced"} THEN "@trailslashControl"
                                                                          ELSE "@error404"]
    BY <1>2 DEF Requests
  <2> QED
    BY <1>3, <1>4, <2>1 DEF S3Misses
<1> QED
  BY <1>3, <1>4 DEF S3FindsNothingToList, S3Fails

(***************************************************************************)
(* The redirect to a directory, the error pages and the client.            *)
(***************************************************************************)
LEMMA TrailslashStep ==
    ASSUME IInv, Trailslash
    PROVE  [Contract!Next]_Contract!vars
<1>1. reqs # << >> /\ r.loc = "@trailslash" /\ r.answer = << >>
      /\ Reply(302, "redirect", Append(TrailslashRedirectUri(r.uri), "/"))
  BY AtFacts DEF Trailslash
<1>2. RequestOK(cfg, r) /\ r \in Requests /\ (Len(reqs) = 1 => Client(r))
  BY <1>1, LastFacts
<1> DEFINE p == Decoded(UriPath(cfg, r.path))
<1>3. r.method \in {"GET", "HEAD"} /\ r.uri = NormalUri(r.path) /\ r.path \in Path
      /\ cfg.slash /\ ~IsDirectory(p) /\ ~HasExtension(p)
  <2>1. "@trailslash" \in Entered
    BY DEF Entered
  <2> QED
    BY <1>1, <1>2, <2>1 DEF RequestOK, Placed, Requests
<1>4. Question(r).method = r.method /\ Question(r).path = r.path
  BY DEF Question
<1>5. Contract!MayRedirect(cfg, Question(r))
  BY <1>3, <1>4, SamePaths DEF Contract!MayRedirect
<1>6. Len(reqs) = 1 => TrailslashRedirectUri(r.uri) = NormalUri(r.path)
  BY <1>2, <1>3, RedirectIsUri DEF Client
<1>7. Len(reqs) = 1 => Answer(302, "redirect", Append(TrailslashRedirectUri(r.uri), "/"), {})
                           \in Contract!Promised(cfg, Question(r))
  BY <1>3, <1>4, <1>5, <1>6, RedirectPromised
<1> QED
  BY <1>1, <1>7, ReplyStep

LEMMA ErrorPagesStep ==
    ASSUME IInv, Error404 \/ Error405 \/ Error500
    PROVE  [Contract!Next]_Contract!vars
<1>1. CASE Error404 \/ Error500
  <2>1. reqs # << >> /\ r.answer = << >> /\ (Reply(404, "none", << >>) \/ Reply(500, "none", << >>))
    BY <1>1, AtFacts DEF Error404, Error500
  <2> QED
    BY <2>1, FailureStep
<1>2. CASE Error405
  <2>1. reqs # << >> /\ r.loc = "@error405" /\ r.answer = << >> /\ Reply(405, "none", << >>)
    BY <1>2, AtFacts DEF Error405
  <2>2. Question(r).method \notin {"GET", "HEAD"}
    BY <2>1, LastFacts DEF RequestOK, Placed, Question
  <2> QED
    BY <2>1, <2>2, RejectionPromised, ReplyStep
<1> QED
  BY <1>1, <1>2

LEMMA ServeStep ==
    ASSUME IInv, Serve
    PROVE  [Contract!Next]_Contract!vars
<1>1. CASE S3Finds \/ S3FindsAndStored
  BY <1>1, DeliverStep DEF S3Finds, S3FindsAndStored
<1>2. CASE FromCache
  BY <1>2, CachedIsSent, DeliverStep DEF FromCache
<1>3. CASE RejectMethod \/ DenyMethod \/ RedirectToS3 \/ TrailslashControl
  <2>1. reqs # << >> /\ r.answer = << >> /\ \E loc : Goto(loc)
    BY <1>3, AtFacts DEF RejectMethod, DenyMethod, RedirectToS3, TrailslashControl
  <2> QED
    BY <2>1, GotoStep
<1>4. CASE FindLocation \/ AnswerPreflight \/ CredentialsFound \/ CredentialsMissing \/ LoadContent
  BY <1>4, FindLocationStep, AnswerPreflightStep, CredentialsFoundStep, CredentialsMissingStep,
     LoadContentStep
<1>5. CASE ProbeAnswered \/ ProbeBroken \/ ProxyToS3 \/ Trailslash \/ Error404 \/ Error405 \/ Error500
  BY <1>5, ProbeEndsStep, ProxyToS3Step, TrailslashStep, ErrorPagesStep
<1>6. CASE S3FindsNothingToList \/ S3Misses \/ S3Fails \/ S3Redirects
  BY <1>6, AfterS3Step, S3RedirectsStep
<1> QED
  BY <1>1, <1>2, <1>3, <1>4, <1>5, <1>6 DEF Serve

LEMMA AskStep ==
    ASSUME Ask
    PROVE  Contract!Ask
<1>1. PICK q \in Questions : reqs' = <<Receive(q)>>
  BY DEF Ask
<1>2. Question(Receive(q)) = q /\ Receive(q).answer = << >>
  BY DEF Questions, Question, Receive, Received
<1> DEFINE new == Receive(q)
<1> HIDE DEF new
<1>3. reqs' # << >> /\ reqs'[1] = new /\ reqs = << >> /\ cfg' = cfg
  BY <1>1 DEF Ask, new
<1>4. Question(new) = q /\ new.answer = << >>
  BY <1>2 DEF new
<1> QED
  BY <1>3, <1>4 DEF Contract!Ask

LEMMA FollowStep ==
    ASSUME IInv, Follow
    PROVE  Contract!Follow
<1>1. Len(reqs) = 1 /\ r.answer # << >> /\ r.answer[1].status = 302
  BY DEF Follow, Answered
<1>2. r = reqs[1] /\ reqs # << >>
  BY <1>1 DEF r, Last
<1> DEFINE ask == [method |-> r.method, path |-> r.answer[1].what, marker |-> r.marker, range |-> r.range]
           new == Receive(ask)
<1>3. Question(new) = ask /\ new.answer = << >>
  BY DEF Question, Receive, Received
<1>4. ask = [Question(r) EXCEPT !.path = r.answer[1].what]
  BY DEF Question
<1> HIDE DEF ask, new
<1>5. reqs' = <<new>> /\ cfg' = cfg
  BY DEF Follow, new, ask
<1>6. reqs' # << >> /\ reqs'[1] = new
  BY <1>5
<1>7. <<Question(reqs[1])>>[1] = Question(reqs[1])
  OBVIOUS
<1> QED
  BY <1>1, <1>2, <1>3, <1>4, <1>5, <1>6, <1>7 DEF Contract!Follow

LEMMA LeaveStep ==
    ASSUME IInv, Leave
    PROVE  Contract!Leave
<1>1. Len(reqs) = 1 /\ r.answer # << >> /\ reqs' = << >> /\ cfg' = cfg
  BY DEF Leave, Answered
<1>2. r = reqs[1] /\ reqs # << >>
  BY <1>1 DEF r, Last
<1> QED
  BY <1>1, <1>2 DEF Contract!Leave

(***************************************************************************)
(* The locations, probes, signatures and the proxy cache implement the     *)
(* contract of the gateway with its clients: whatever a client asks, it is *)
(* answered at most once, with an answer its question may have.            *)
(***************************************************************************)
THEOREM Implements == Spec => ContractSpec
<1>1. Init => Contract!Init
  BY DEF Init, Contract!Init
<1>2. IInv /\ [Next]_vars => [Contract!Next]_Contract!vars
  <2> SUFFICES ASSUME IInv, [Next]_vars PROVE [Contract!Next]_Contract!vars
    OBVIOUS
  <2>1. CASE Ask
    BY <2>1, AskStep DEF Contract!Next
  <2>2. CASE Serve
    BY <2>2, ServeStep
  <2>3. CASE Leave
    BY <2>3, LeaveStep DEF Contract!Next
  <2>4. CASE Follow
    BY <2>4, FollowStep DEF Contract!Next
  <2>5. CASE UNCHANGED vars
    BY <2>5 DEF vars, Contract!vars
  <2> QED
    BY <2>1, <2>2, <2>3, <2>4, <2>5 DEF Next
<1> QED
  BY <1>1, <1>2, Inductive, PTL DEF Spec, ContractSpec, Contract!Spec
=============================================================================

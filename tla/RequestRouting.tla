--------------------------- MODULE RequestRouting ---------------------------
(***************************************************************************)
(* A request on its way through the locations of the gateway's server:     *)
(* default.conf.template, s3_location_common.conf.template and the njs     *)
(* handlers redirectToS3, loadContent and trailslashControl.  The answers  *)
(* of the credential check (CredentialCache models it), of S3 and of the   *)
(* loopback request that looks for an index page come from outside; the    *)
(* loopback request is a request of its own, served by the same locations. *)
(*                                                                         *)
(* NGINX evaluates a js_set variable when it is first used and keeps the   *)
(* value for the rest of the request: `s3uri` is empty until then.         *)
(***************************************************************************)
EXTENDS ResponseHeaders

CONSTANTS Configs,      \* see PathRewrite and Gateway; also c.emptyIs404
                        \* (FOUR_O_FOUR_ON_EMPTY_BUCKET)
          Methods, Paths, Markers,
          Storing,      \* bound: the configurations in which the cache stores
          MaxDepth      \* bound: requests the gateway makes to itself, plus one

ASSUME RoutingAssumption == MaxDepth \in Nat \ {0} /\ Storing \subseteq Configs

Configurations ==
    [listing : BOOLEAN, index : BOOLEAN, slash : BOOLEAN, cors : BOOLEAN, emptyIs404 : BOOLEAN,
     style : {"path", "virtual"}, sigver : {2, 4}, pageSize : Nat,
     strip : Path, prefix : Path,
     stripHeaders : Seq(STRING), allowHeaders : Seq(STRING)]

\* A list of header prefixes has no entry that is empty.
WellSeparated(setting) ==
    \A i \in DOMAIN setting : setting[i] = ";" => i > 1 /\ setting[i - 1] # ";"

ASSUME ConfigsAssumption ==
    /\ Configs \subseteq Configurations
    /\ \A c \in Configs : WellSeparated(c.stripHeaders) /\ WellSeparated(c.allowHeaders)

\* NGINX takes no request whose path does not start with a slash.
ASSUME QuestionsAssumption ==
    /\ \A p \in Paths : p \in Path /\ p # << >> /\ Head(p) = "/"
    /\ Markers \subseteq Path
    /\ Headers \subseteq Seq(STRING) /\ "GET" \in Methods

VARIABLES cfg,          \* the configuration of the container, never changed
          reqs,         \* the client's request, then the loopback request it
                        \* waits for, and so on; << >> between requests
          stored        \* bound: one response in the proxy cache, or << >>

vars == <<cfg, reqs, stored>>

ProxyLocations == {"@s3", "@s3_sliced", "index", "@s3Directory"}
Locations == ProxyLocations \cup
    {"find", "/", "@s3PreListing", "@trailslashControl", "@trailslash",
     "@error404", "@error405", "@error500"}

Questions == [method : Methods, path : Paths, marker : Markers, range : BOOLEAN]

Answer(status, kind, what, headers) ==
    [status |-> status, kind |-> kind, what |-> what, headers |-> headers]

----------------------------------------------------------------------------
(***************************************************************************)
(* Requests.  `uri` is $uri, which picks the location and which an         *)
(* internal redirect changes; `path` is the path of $request_uri, which    *)
(* stays and from which everything sent to S3 is computed.                 *)
(***************************************************************************)
NormalUri(p) == CollapseDuplicateSlashes(Decoded(p))

Received(q) ==
    [method |-> q.method, path |-> q.path, marker |-> q.marker, range |-> q.range,
     uri |-> NormalUri(q.path), loc |-> "find",
     forIndexPage |-> TRUE, checked |-> FALSE, s3uri |-> << >>, sent |-> << >>,
     upstream |-> FALSE, answer |-> << >>]

ReceivedEagerly(q) ==       \* mutant: $s3uri is computed at server scope
    [method |-> q.method, path |-> q.path, marker |-> q.marker, range |-> q.range,
     uri |-> NormalUri(q.path), loc |-> "find",
     forIndexPage |-> TRUE, checked |-> FALSE,
     s3uri |-> <<S3uri(cfg, [path |-> q.path, method |-> q.method, marker |-> q.marker,
                             forIndexPage |-> TRUE])>>,
     sent |-> << >>, upstream |-> FALSE, answer |-> << >>]

Receive(q) == Received(q)

At(loc) == /\ reqs # << >> /\ Last(reqs).loc = loc
           /\ Last(reqs).answer = << >> /\ ~Last(reqs).upstream
r == Last(reqs)

Revise(new) == reqs' = [reqs EXCEPT ![Len(reqs)] = new]
Update(new) == Revise(new) /\ UNCHANGED <<cfg, stored>>
Goto(loc)   == Update([r EXCEPT !.loc = loc])
Reply(status, kind, what) == Update([r EXCEPT !.answer = <<Answer(status, kind, what, {})>>])

Ask == /\ reqs = << >>
       /\ \E q \in Questions : reqs' = <<Receive(q)>>
       /\ UNCHANGED <<cfg, stored>>

----------------------------------------------------------------------------
(***************************************************************************)
(* The location search: the regular expression /index\.html$ wins over the *)
(* prefixes, /health and /soap over /.                                     *)
(***************************************************************************)
IsIndexUri(u) == Len(u) > 1 /\ Last(u) = IndexPage /\ u[Len(u) - 1] = "/"

Prefixed(u, name) == Len(u) > 1 /\ u[2] = name

FindLocation ==
    /\ At("find")
    /\ LET u == r.uri
       IN  CASE IsIndexUri(u)         -> Update([r EXCEPT !.loc = "index", !.checked = FALSE])
             [] ~IsIndexUri(u) /\ Prefixed(u, "health") -> Reply(200, "health", << >>)
             [] ~IsIndexUri(u) /\ Prefixed(u, "soap")   -> Reply(404, "none", << >>)
             [] OTHER -> Update([r EXCEPT !.loc = "/", !.checked = FALSE])

CorsPreflight(m) == cfg.cors /\ m = "OPTIONS"

MethodNotAllowed(m) == m \notin {"GET", "HEAD"} /\ ~CorsPreflight(m)

AnswerPreflight ==
    /\ At("/") \/ At("index")
    /\ CorsPreflight(r.method)
    /\ Reply(204, "none", << >>)

RejectMethod ==
    /\ At("/") /\ MethodNotAllowed(r.method)
    /\ Goto("@error405")

DenyMethod ==
    /\ At("index") /\ MethodNotAllowed(r.method)
    /\ Goto("@error404")

MayFetch == r.method \in {"GET", "HEAD"} /\ ~r.checked

(***************************************************************************)
(* auth_request.  A failed check is a 500: final in location /, sanitized  *)
(* by the error_page of the index location.                                *)
(***************************************************************************)
CredentialsFound ==
    /\ At("/") \/ At("index")
    /\ MayFetch
    /\ Update([r EXCEPT !.checked = TRUE])

CredentialsMissing ==
    /\ At("/") \/ At("index")
    /\ MayFetch
    /\ IF r.loc = "/" THEN Reply(500, "none", << >>) ELSE Goto("@error404")

(***************************************************************************)
(* redirectToS3.                                                           *)
(***************************************************************************)
RootUnguarded(c, q) ==                \* mutant: compares the path before it is collapsed
    IF c.listing /\ IsDirectory(UriPath(c, q.path)) THEN "@s3PreListing"
    ELSE IF c.index THEN "@s3"
    ELSE IF ~c.listing /\ q.path = <<"/">> THEN "@error404"
    ELSE IF q.range THEN "@s3_sliced" ELSE "@s3"

Route(c, q) ==
    LET uriPath == CollapseDuplicateSlashes(UriPath(c, q.path))
    IN  IF q.method \notin {"GET", "HEAD"} THEN "@error405"
        ELSE IF c.listing /\ IsDirectory(uriPath) THEN "@s3PreListing"
        ELSE IF c.index THEN "@s3"
        ELSE IF ~c.listing /\ uriPath = <<"/">> THEN "@error404"
        ELSE IF q.range THEN "@s3_sliced" ELSE "@s3"

RedirectToS3 ==
    /\ At("/") /\ r.checked
    /\ Goto(Route(cfg, r))

----------------------------------------------------------------------------
(***************************************************************************)
(* loadContent: the probe for an index page, and what follows from its     *)
(* answer.  A probe that fails outright (no answer, a timeout) throws: the *)
(* 500 is sanitized by the error_page of @s3PreListing.                    *)
(***************************************************************************)
Probe == [method |-> "GET", path |-> GatewayUri(cfg, r).path, marker |-> << >>, range |-> FALSE]

LoadContent ==
    /\ At("@s3PreListing")
    /\ IF cfg.index
       THEN /\ Len(reqs) < MaxDepth
            /\ reqs' = Append(reqs, Receive(Probe)) /\ UNCHANGED <<cfg, stored>>
       ELSE Goto("@s3Directory")

Resume(new) == reqs' = Append(SubSeq(reqs, 1, Len(reqs) - 2), new) /\ UNCHANGED <<cfg, stored>>

Waiting == reqs[Len(reqs) - 1]

ProbeRetried ==                       \* mutant: probes again after an error
    /\ Len(reqs) > 1 /\ r.answer # << >>
    /\ LET status == r.answer[1].status
       IN  CASE status = 200 -> Resume([Waiting EXCEPT !.loc = "find",
                                          !.uri = GatewayUri(cfg, Waiting).path])
             [] status = 404 -> Resume([Waiting EXCEPT !.loc = "@s3Directory"])
             [] OTHER        -> Resume(Waiting)

ProbeAnswered ==
    /\ Len(reqs) > 1 /\ r.answer # << >>
    /\ LET status == r.answer[1].status
       IN  CASE status = 200 -> Resume([Waiting EXCEPT !.loc = "find",
                                          !.uri = GatewayUri(cfg, Waiting).path])
             [] status = 404 -> Resume([Waiting EXCEPT !.loc = "@s3Directory"])
             [] OTHER        -> Resume([Waiting EXCEPT !.loc = "@error500"])

ProbeBroken ==
    /\ Len(reqs) > 1 /\ r.answer = << >>
    /\ Resume([Waiting EXCEPT !.loc = "@error404"])

----------------------------------------------------------------------------
(***************************************************************************)
(* proxy_pass: the location sets $forIndexPage or not, $s3uri is used (and *)
(* computed now, if no location did before), $s3auth is computed.          *)
(***************************************************************************)
ForIndexPage(q) == CASE q.loc = "@s3Directory" -> FALSE
                     [] q.loc = "index"        -> TRUE
                     [] OTHER                  -> q.forIndexPage

ProxyUnchecked ==                     \* mutant: no auth_request in the index location
    /\ \E loc \in ProxyLocations : At(loc)
    /\ r.method \in {"GET", "HEAD"}
    /\ LET set == [r EXCEPT !.forIndexPage = ForIndexPage(r)]
           uri == IF r.s3uri = << >> THEN S3uri(cfg, set) ELSE r.s3uri[1]
       IN  Update([set EXCEPT !.s3uri = <<uri>>, !.sent = <<uri>>, !.upstream = TRUE])

ProxyToS3 ==
    /\ \E loc \in ProxyLocations : At(loc)
    /\ r.loc = "index" => r.checked /\ ~MethodNotAllowed(r.method) /\ ~CorsPreflight(r.method)
    /\ LET set == [r EXCEPT !.forIndexPage = ForIndexPage(r)]
           uri == IF r.s3uri = << >> THEN S3uri(cfg, set) ELSE r.s3uri[1]
       IN  Update([set EXCEPT !.s3uri = <<uri>>, !.sent = <<uri>>, !.upstream = TRUE])

Signed == SignatureMatches(cfg, r, r.sent[1])

Arrived == reqs # << >> /\ r.upstream

Deliver(kind, what) ==
    Revise([r EXCEPT !.upstream = FALSE, !.answer = <<Answer(200, kind, what, EditHeaders(cfg, r))>>])

\* What S3 sends: a page of a listing, headers, a slice of an object or all of it.
Sends(q) ==
    IF q.sent[1].query # << >>
    THEN [kind |-> "listing", what |-> q.sent[1].query[1].prefix]
    ELSE [kind |-> IF q.method = "HEAD" THEN "headers"
                   ELSE IF q.loc = "@s3_sliced" THEN "slices" ELSE "object",
          what |-> KeyOf(cfg, q.sent[1])]

S3Finds ==
    /\ Arrived /\ Signed
    /\ Deliver(Sends(r).kind, Sends(r).what)
    /\ UNCHANGED <<cfg, stored>>

(***************************************************************************)
(* The proxy cache: s3_cache, and s3_cache_slices with a key of its own.   *)
(* It stores what S3 sends, before the filters of headers and bodies, and  *)
(* gives it to any later request with that key; it need not, as entries    *)
(* expire and requests bypass it.  A stored error leads where S3's would.  *)
(***************************************************************************)
CacheKeyOfViewer(q) ==                \* mutant: the key is the client's path
    [method |-> q.method, s3uri |-> q.uri, slice |-> q.loc = "@s3_sliced"]

CacheKey(q) == [method |-> q.method, s3uri |-> q.sent, slice |-> q.loc = "@s3_sliced"]

S3FindsAndStored ==
    /\ Arrived /\ Signed /\ cfg \in Storing
    /\ Deliver(Sends(r).kind, Sends(r).what)
    /\ stored' = <<[key |-> CacheKey(r), response |-> Sends(r)]>>
    /\ UNCHANGED cfg

FromCache ==
    /\ Arrived /\ stored # << >> /\ stored[1].key = CacheKey(r)
    /\ Deliver(stored[1].response.kind, stored[1].response.what)
    /\ UNCHANGED <<cfg, stored>>

\* A listing without entries, which filterListResponse spoils if it is told to.
S3FindsNothingToList ==
    /\ Arrived /\ Signed /\ r.sent[1].query # << >> /\ cfg.emptyIs404
    /\ Update([r EXCEPT !.upstream = FALSE, !.loc = "@error404"])

\* 404: the object locations look for a directory of that name.
S3Misses ==
    /\ Arrived /\ Signed
    /\ Update([r EXCEPT !.upstream = FALSE,
                        !.loc = IF @ \in {"@s3", "@s3_sliced"} THEN "@trailslashControl"
                                                               ELSE "@error404"])

\* Any other error of S3 or of the connection to it; also a wrong signature.
S3Fails ==
    /\ Arrived
    /\ Update([r EXCEPT !.upstream = FALSE, !.loc = "@error404"])

\* A redirect of S3: no error_page lists it.
S3Redirects ==
    /\ Arrived /\ Signed
    /\ Update([r EXCEPT !.upstream = FALSE,
                        !.answer = <<Answer(301, "passed", << >>, EditHeaders(cfg, r))>>])

----------------------------------------------------------------------------
TrailslashControl ==
    /\ At("@trailslashControl")
    /\ LET p == Decoded(UriPath(cfg, r.path))
       IN  Goto(IF cfg.slash /\ ~IsDirectory(p) /\ ~HasExtension(p)
                THEN "@trailslash" ELSE "@error404")

\* trailslashRedirectUri: $uri encoded anew, with one leading slash.
TrailslashRedirectUri(u) ==
    LET named == {i \in DOMAIN u : u[i] # "/"}
    IN  <<"/">> \o IF named = {} THEN << >> ELSE SubSeq(u, Min(named), Len(u))

Trailslash ==
    /\ At("@trailslash")
    /\ Reply(302, "redirect", Append(TrailslashRedirectUri(r.uri), "/"))

Error404 == At("@error404") /\ Reply(404, "none", << >>)
Error405 == At("@error405") /\ Reply(405, "none", << >>)
Error500 == At("@error500") /\ Reply(500, "none", << >>)

Answered == Len(reqs) = 1 /\ r.answer # << >>

Leave == Answered /\ reqs' = << >> /\ UNCHANGED <<cfg, stored>>

Follow ==
    /\ Answered /\ r.answer[1].status = 302
    /\ reqs' = <<Receive([method |-> r.method, path |-> r.answer[1].what,
                          marker |-> r.marker, range |-> r.range])>>
    /\ UNCHANGED <<cfg, stored>>

----------------------------------------------------------------------------
Init == cfg \in Configs /\ reqs = << >> /\ stored = << >>

\* What the gateway does on its own, and what the others answer.
Serve == \/ FindLocation \/ AnswerPreflight \/ RejectMethod \/ DenyMethod
         \/ CredentialsFound \/ CredentialsMissing \/ RedirectToS3 \/ LoadContent
         \/ ProbeAnswered \/ ProbeBroken \/ ProxyToS3
         \/ TrailslashControl \/ Trailslash \/ Error404 \/ Error405 \/ Error500
         \/ S3Finds \/ S3FindsAndStored \/ FromCache \/ S3FindsNothingToList \/ S3Misses \/ S3Fails \/ S3Redirects

Next == Ask \/ Serve \/ Leave \/ Follow

Spec == Init /\ [][Next]_vars

Pending == reqs # << >> /\ ~Answered

(***************************************************************************)
(* A request is worked on until it is answered: a step of NGINX is always  *)
(* taken, and a connection that S3 or the credential providers leave       *)
(* without an answer runs into a timeout, which is one of the failures.    *)
(* This is WF_vars(Serve): while a request is pending some step of Serve   *)
(* is enabled (there is no deadlock), and no other step is.                *)
(***************************************************************************)
FairSpec == Spec /\ ([]<>~Pending \/ []<><<Pending>>_reqs)

----------------------------------------------------------------------------
RequestLines ==
    [path : Path, query : Seq([prefix : Path, marker : Path, maxKeys : Seq(Nat)])]

Answers ==
    [status : {200, 204, 301, 302, 404, 405, 500},
     kind : {"none", "health", "redirect", "passed", "listing", "headers", "slices", "object"},
     what : Path, headers : SUBSET (Headers \cup {HtmlType})]

Requests ==
    [method : Methods, path : Path, marker : Path, range : BOOLEAN,
     uri : Path, loc : Locations, forIndexPage : BOOLEAN, checked : BOOLEAN,
     s3uri : Seq(RequestLines), sent : Seq(RequestLines), upstream : BOOLEAN,
     answer : Seq(Answers)]

TypeOK ==
    /\ cfg \in Configs
    /\ reqs \in Seq(Requests) /\ Len(reqs) <= MaxDepth
    /\ \A i \in DOMAIN reqs :
          /\ Len(reqs[i].s3uri) <= 1 /\ Len(reqs[i].sent) <= 1 /\ Len(reqs[i].answer) <= 1
          /\ reqs[i].upstream => reqs[i].sent # << >>
    /\ Len(stored) <= 1

(***************************************************************************)
(* The Authorization header covers the request line it is sent with,       *)
(* although $s3uri keeps the value of its first use and $s3auth, computed  *)
(* later, may meet another value of $forIndexPage.                         *)
(***************************************************************************)
SignedIsProxied == Arrived => Signed

(***************************************************************************)
(* Nothing is sent to S3 before the credentials were checked for this very *)
(* request (or pass through an internal redirect) of the client or of the  *)
(* gateway: the signing code finds them in the cache.                      *)
(***************************************************************************)
CheckedBeforeSigned == Arrived => r.checked

(***************************************************************************)
(* The gateway's request to itself is answered without a request to itself *)
(* in turn: the probe goes to the index location, whatever the rewriting.  *)
(***************************************************************************)
ProbeNeverProbes == Len(reqs) <= 2

(***************************************************************************)
(* With listings disabled S3 is never asked for the contents of the bucket *)
(* (redirectToS3 guards the root of the bucket against it), however the    *)
(* path spells its slashes.  The guard compares the rewritten path with    *)
(* "/": a path of which stripping leaves nothing, or that it cuts inside a *)
(* segment, so that what is left starts with no slash, is left out here.   *)
(***************************************************************************)
BucketNotRead ==
    Arrived /\ ~cfg.listing /\ IsPrefix(<<"/">>, UriPath(cfg, r.path))
        => r.method = "HEAD" \/ KeyOf(cfg, r.sent[1]) # << >>

(***************************************************************************)
(* Every request is answered: the internal redirects, error pages and      *)
(* loopback requests come to an end.                                       *)
(***************************************************************************)
EveryRequestAnswered == Pending ~> Answered

(***************************************************************************)
(* The gateway implements the module Gateway: each answer is one that was  *)
(* promised for the question, whatever locations it went through.          *)
(***************************************************************************)
Question(q) == [method |-> q.method, path |-> q.path, marker |-> q.marker, range |-> q.range]

Contract == INSTANCE Gateway WITH
    question <- IF reqs = << >> THEN << >> ELSE <<Question(reqs[1])>>,
    answer   <- IF reqs = << >> THEN << >> ELSE reqs[1].answer

ContractSpec == Contract!Spec
=============================================================================

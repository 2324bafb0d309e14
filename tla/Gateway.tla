------------------------------ MODULE Gateway ------------------------------
(***************************************************************************)
(* What the gateway promises its clients: one question, one answer, and an *)
(* answer that is about what the question's path denotes.  No locations,   *)
(* internal redirects, probes or signatures: RequestRouting has those, and *)
(* implements this module.                                                 *)
(***************************************************************************)
EXTENDS PathRewrite

CONSTANTS Configs,      \* configurations, see PathRewrite; also c.slash
                        \* (APPEND_SLASH_FOR_POSSIBLE_DIRECTORY), c.cors (CORS_ENABLED)
          Headers,      \* names of the headers in the answers of S3
          Questions     \* records with method, path, marker, range

VARIABLES cfg, question, answer     \* the last two hold at most one element

vars == <<cfg, question, answer>>

Answer(status, kind, what, headers) ==
    [status |-> status, kind |-> kind, what |-> what, headers |-> headers]

Reads == {"GET", "HEAD"}

(***************************************************************************)
(* The key a path denotes: the rewritten path with its duplicate slashes   *)
(* collapsed, decoded, without the leading slash.                          *)
(***************************************************************************)
KeyDenoted(c, path) ==
    WithoutLeadingSlash(Decoded(CollapseDuplicateSlashes(UriPath(c, path))))

Directory(c, path) == IsDirectory(UriPath(c, path))

(***************************************************************************)
(* The keys whose object may be served: the key itself for a file; for a   *)
(* directory its index page, the bare key for a HEAD where listings are    *)
(* enabled (the check that the directory exists), and the folder's own     *)
(* object where directories mean nothing, save at the root of the bucket.  *)
(***************************************************************************)
KeysServed(c, q) ==
    LET key == KeyDenoted(c, q.path)
    IN  IF ~Directory(c, q.path) THEN {key}
        ELSE (IF c.index THEN {Append(key, IndexPage)} ELSE {})
             \cup (IF \/ c.listing /\ q.method = "HEAD"
                      \/ ~c.listing /\ ~c.index /\ key # << >>
                   THEN {key} ELSE {})

\* A HEAD gets headers only; a range may be put together from slices.
Kinds(c, q) == IF q.method = "HEAD" THEN {"headers"}
               ELSE {"object"} \cup (IF q.range THEN {"slices"} ELSE {})

Denotes(path, name) ==
    LET p == CollapseDuplicateSlashes(Decoded(path)) IN Len(p) > 1 /\ p[2] = name

MayList(c, q) == c.listing /\ q.method = "GET" /\ Directory(c, q.path)

MayRedirect(c, q) ==
    LET p == Decoded(UriPath(c, q.path)) IN c.slash /\ ~IsDirectory(p) /\ ~HasExtension(p)

(***************************************************************************)
(* The headers of S3 a client gets to see: those a setting allows, and     *)
(* those that neither are Amazon's nor to be stripped by a setting.  The   *)
(* check that a directory exists tells nothing of the object behind it.    *)
(***************************************************************************)
Listed(setting, name) ==
    \E i \in DOMAIN setting : \E j \in i .. Len(setting) :
        /\ \A k \in i .. j : setting[k] # ";"
        /\ i > 1 => setting[i - 1] = ";"
        /\ j < Len(setting) => setting[j + 1] = ";"
        /\ \E a, b \in DOMAIN name : SubSeq(name, a, b) = SubSeq(setting, i, j)

Visible(c, q) ==
    IF q.method = "HEAD" /\ c.listing /\ Directory(c, q.path)
    THEN {<<"content-type: text/html">>}
    ELSE {h \in Headers : \/ Listed(c.allowHeaders, h)
                          \/ ~Listed(<<"x-amz-">>, h) /\ ~Listed(c.stripHeaders, h)}

(***************************************************************************)
(* Any request may end in a 404 (sanitized errors) or a 500 (no            *)
(* credentials); "passed" is a redirect of S3 itself, handed through.      *)
(***************************************************************************)
Promised(c, q) ==
    LET failures == {Answer(404, "none", << >>, {}), Answer(500, "none", << >>, {})}
        health   == {Answer(200, "health", << >>, {})}
        objects  == {Answer(200, kind, k, Visible(c, q)) :
                        kind \in Kinds(c, q), k \in KeysServed(c, q)}
        listing  == {Answer(200, "listing", KeyDenoted(c, q.path), Visible(c, q))}
        redirect == {Answer(302, "redirect",
                            Append(CollapseDuplicateSlashes(Decoded(q.path)), "/"), {})}
        passed   == {Answer(301, "passed", << >>, Visible(c, q))}
    IN  failures
        \cup (IF Denotes(q.path, "health") THEN health ELSE {})
        \cup (IF q.method \in Reads THEN objects \cup passed ELSE {})
        \cup (IF MayList(c, q) THEN listing ELSE {})
        \cup (IF q.method \in Reads /\ MayRedirect(c, q) THEN redirect ELSE {})
        \cup (IF q.method = "OPTIONS" /\ c.cors THEN {Answer(204, "none", << >>, {})} ELSE {})
        \cup (IF q.method \notin Reads THEN {Answer(405, "none", << >>, {})} ELSE {})

Init == cfg \in Configs /\ question = << >> /\ answer = << >>

Ask == /\ question = << >>
       /\ \E q \in Questions : question' = <<q>>
       /\ UNCHANGED <<cfg, answer>>

Reply == /\ question # << >> /\ answer = << >>
         /\ \E a \in Promised(cfg, question[1]) : answer' = <<a>>
         /\ UNCHANGED <<cfg, question>>

Leave == /\ answer # << >>
         /\ question' = << >> /\ answer' = << >> /\ UNCHANGED cfg

\* A client follows the redirect to the directory: a GET, asked anew.
Follow == /\ answer # << >> /\ answer[1].status = 302
          /\ question' = <<[question[1] EXCEPT !.path = answer[1].what]>>
          /\ answer' = << >> /\ UNCHANGED cfg

Next == Ask \/ Reply \/ Leave \/ Follow

Spec == Init /\ [][Next]_vars
=============================================================================

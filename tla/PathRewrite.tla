---------------------------- MODULE PathRewrite ----------------------------
(***************************************************************************)
(* How the gateway turns the path of a client request into the path and    *)
(* the query it sends to S3, and into the ones it signs: uriFullPath(),    *)
(* the $uri_path map, s3uri(), _s3DirQueryParams(), the parameters of the  *)
(* two signature versions (src/common/etc/nginx/include/s3gateway.js and   *)
(* templates/default.conf.template).                                       *)
(*                                                                         *)
(* A path is a sequence of tokens: "/" is a literal slash, "%2F" an        *)
(* encoded one, any other token a piece of a name (two in a row make one   *)
(* longer name).  A query is << >> (none) or a one-element sequence with   *)
(* the listing parameters.  `c` is the configuration the container was     *)
(* started with: c.listing (ALLOW_DIRECTORY_LIST), c.index                 *)
(* (PROVIDE_INDEX_PAGE), c.style (S3_STYLE), c.sigver (AWS_SIGS_VERSION),  *)
(* c.strip and c.prefix (STRIP_ and PREFIX_LEADING_DIRECTORY_PATH as the   *)
(* operator spelled them, the strip expression being a literal),           *)
(* c.pageSize.                                                             *)
(***************************************************************************)
EXTENDS Integers, FiniteSets, SequencesExt

IndexPage == "index.html"
Dotted == {IndexPage, ".x"}           \* the tokens that hold a dot
Bucket == "bucket"
Malformed == <<"%">>                  \* a marker that decodeURIComponent rejects
MaxListPageSize == 2147483647

\* The literal tokens are strings too, which is more than the provers know.
Token == STRING \cup {"/", "%2F", IndexPage, Bucket}
Path  == Seq(Token)

(***************************************************************************)
(* _collapseDuplicateSlashes: one slash for every run of literal slashes.  *)
(***************************************************************************)
Rank(set, i) == Cardinality({j \in set : j <= i})
Nth(set, k)  == CHOOSE i \in set : Rank(set, i) = k

Kept(p) == {i \in DOMAIN p : i = 1 \/ p[i] # "/" \/ p[i - 1] # "/"}

CollapseDuplicateSlashes(p) == [k \in 1 .. Cardinality(Kept(p)) |-> p[Nth(Kept(p), k)]]

(***************************************************************************)
(* Percent-decoding, which also is what _escapeURIPath does to a path:     *)
(* it decodes, then encodes every component anew, so that an encoded       *)
(* slash leaves as a literal one.                                          *)
(***************************************************************************)
Decoded(p) == [i \in DOMAIN p |-> IF p[i] = "%2F" THEN "/" ELSE p[i]]

EscapeNothing(p) == p                 \* mutant: forwards the escapes as they came

EscapeURIPath(p) == Decoded(p)

IsDirectory(p) == p # << >> /\ Last(p) = "/"

WithoutLeadingSlash(p) == IF p # << >> /\ Head(p) = "/" THEN Tail(p) ELSE p

\* /\/[^\/]*\.[^.\/]*$/ : a dot in the last segment, after some slash.
HasExtension(p) ==
    \E i, j \in DOMAIN p : /\ i < j /\ p[i] = "/" /\ p[j] \in Dotted
                           /\ \A k \in j .. Len(p) : p[k] # "/"

(***************************************************************************)
(* The two settings as 01-set-defaults.envsh normalises them: without      *)
(* trailing slashes, the prefix with a leading one.                        *)
(***************************************************************************)
TrimTrailingSlashes(s) == SubSeq(s, 1, Max({0} \union {i \in DOMAIN s : s[i] # "/"}))

StripLeadingDirectoryPath(c) == TrimTrailingSlashes(c.strip)

PrefixLeadingDirectoryPath(c) ==
    LET trimmed == TrimTrailingSlashes(c.prefix)
    IN  IF trimmed = << >> \/ Head(trimmed) = "/" THEN trimmed ELSE <<"/">> \o trimmed

(***************************************************************************)
(* $uri_full_path and $uri_path.  The strip expression is anchored at the  *)
(* start of the path and not at a segment boundary.                        *)
(***************************************************************************)
RawFullPath(path) == path             \* mutant: strips before it collapses

UriFullPath(path) == CollapseDuplicateSlashes(path)

UriPath(c, path) ==
    LET full  == UriFullPath(path)
        strip == StripLeadingDirectoryPath(c)
    IN  PrefixLeadingDirectoryPath(c) \o
            IF IsPrefix(strip, full) THEN SubSeq(full, Len(strip) + 1, Len(full)) ELSE full

S3BaseUri(c) == IF c.style = "path" THEN <<"/", Bucket>> ELSE << >>

(***************************************************************************)
(* The listing query of _s3DirQueryParams; << >> when the request is not   *)
(* a GET of a directory.  The test for a path that ends with the index     *)
(* page can never fire after the test for a trailing slash.                *)
(***************************************************************************)
ListRequestMarker(marker) == IF marker = Malformed THEN << >> ELSE marker

ListMaxKeys(c) == IF c.pageSize \in 1 .. MaxListPageSize THEN <<c.pageSize>> ELSE << >>

ListPrefix(uriPath) == WithoutLeadingSlash(Decoded(uriPath))

S3Marker(prefix, marker) == IF marker = << >> THEN << >> ELSE prefix \o marker

S3DirQueryParams(c, uriPath, method, marker) ==
    IF ~IsDirectory(uriPath) \/ method # "GET"
    THEN << >>
    ELSE << [prefix  |-> ListPrefix(uriPath),
             marker  |-> S3Marker(ListPrefix(uriPath), ListRequestMarker(marker)),
             maxKeys |-> ListMaxKeys(c)] >>

(***************************************************************************)
(* What is sent.  `q` is the request: q.path its raw path, q.method,       *)
(* q.marker and q.forIndexPage ($forIndexPage).  GatewayUri is s3uri with  *)
(* preserveBasePath: the address of the index page on the gateway itself.  *)
(***************************************************************************)
WithIndex(c, p) == IF c.index /\ IsDirectory(p) THEN Append(p, IndexPage) ELSE p

RewrittenGatewayUri(c, q) ==          \* mutant: rewrites a path that is rewritten again
    [path |-> EscapeURIPath(WithIndex(c, CollapseDuplicateSlashes(UriPath(c, q.path)))),
     query |-> << >>]

ProbeOfTheDirectory(c, q) ==          \* mutant: the address of the directory itself
    [path |-> EscapeURIPath(CollapseDuplicateSlashes(UriFullPath(q.path))), query |-> << >>]

GatewayUri(c, q) ==
    [path  |-> EscapeURIPath(WithIndex(c, CollapseDuplicateSlashes(UriFullPath(q.path)))),
     query |-> << >>]

S3uri(c, q) ==
    LET base    == S3BaseUri(c)
        uriPath == CollapseDuplicateSlashes(UriPath(c, q.path))
        query   == S3DirQueryParams(c, uriPath, q.method, q.marker)
        listing == c.listing /\ ~q.forIndexPage
    IN  CASE listing /\ query # << >> -> [path |-> base, query |-> query]
          [] listing /\ query = << >> -> [path |-> EscapeURIPath(base \o uriPath), query |-> << >>]
          [] OTHER -> [path  |-> EscapeURIPath(base \o WithIndex(c, uriPath)), query |-> << >>]

(***************************************************************************)
(* What is signed: the resource of version 2, the path and the canonical   *)
(* query of version 4.                                                     *)
(***************************************************************************)
S3ReqParamsForSigV2(c, q) ==
    LET sent     == S3uri(c, q).path
        resource == IF sent = << >> THEN <<"/">> ELSE sent
    IN  IF S3BaseUri(c) = << >> THEN <<"/", Bucket>> \o resource ELSE resource

ReqParamsIgnoringIndex(c, q) ==       \* mutant: forgets that an index page is wanted
    LET query == S3DirQueryParams(c, CollapseDuplicateSlashes(UriPath(c, q.path)),
                                  q.method, q.marker)
    IN  IF query = << >> THEN S3uri(c, q)
        ELSE [path  |-> IF S3BaseUri(c) = << >> THEN <<"/">> ELSE S3BaseUri(c),
              query |-> query]

S3ReqParamsForSigV4(c, q) ==
    LET uriPath  == CollapseDuplicateSlashes(UriPath(c, q.path))
        computed == IF q.forIndexPage THEN Append(uriPath, IndexPage) ELSE uriPath
        query    == S3DirQueryParams(c, computed, q.method, q.marker)
    IN  IF query = << >> THEN S3uri(c, q)
        ELSE [path  |-> IF S3BaseUri(c) = << >> THEN <<"/">> ELSE S3BaseUri(c),
              query |-> query]

(***************************************************************************)
(* What S3 makes of a request line: the path, at least "/", and the query; *)
(* and the signature it expects for them.                                  *)
(***************************************************************************)
SeenByS3(sent) == [sent EXCEPT !.path = IF @ = << >> THEN <<"/">> ELSE @]

SignatureMatches(c, q, sent) ==
    LET seen == SeenByS3(sent)
    IN  IF c.sigver = 2
        THEN S3ReqParamsForSigV2(c, q)
                 = (IF c.style = "path" THEN << >> ELSE <<"/", Bucket>>) \o seen.path
        ELSE SeenByS3(S3ReqParamsForSigV4(c, q)) = seen

\* The object key, or the path below the bucket, that a request for `sent` names.
KeyOf(c, sent) ==
    LET path == SeenByS3(sent).path
    IN  WithoutLeadingSlash(SubSeq(path, Len(S3BaseUri(c)) + 1, Len(path)))
=============================================================================

--------------------------- MODULE PathSpellings ---------------------------
(***************************************************************************)
(* The path rewriting of the gateway, over every path up to a length: a    *)
(* client types a path token by token, and each state is one request       *)
(* path.  The properties compare the rewriting with what the documentation *)
(* promises of it (src/docs/getting_started.md, "Path Normalization").     *)
(***************************************************************************)
EXTENDS PathRewrite

CONSTANTS Configs,      \* configurations, see PathRewrite
          Tokens,       \* the tokens a path is made of, "/" and "%2F" among them
          MaxLen        \* bound: tokens of a path

\* c.root is DIRECTORY_LISTING_PATH_PREFIX.
ASSUME ConfigsAssumption ==
    Configs \subseteq [listing : BOOLEAN, index : BOOLEAN, style : {"path", "virtual"},
                      sigver : {2, 4}, pageSize : Nat, strip : Path, prefix : Path, root : Path]

ASSUME TokensAssumption == Tokens \subseteq Token

VARIABLES cfg, path

vars == <<cfg, path>>

Init == cfg \in Configs /\ path = <<"/">>

Type(t) == Len(path) < MaxLen /\ path' = Append(path, t) /\ UNCHANGED cfg

Clear == Len(path) > 1 /\ path' = <<"/">> /\ UNCHANGED cfg

Next == (\E t \in Tokens : Type(t)) \/ Clear

Spec == Init /\ [][Next]_vars

(***************************************************************************)
(* The requests for a path that reach S3: an object or an index page in    *)
(* every configuration, a listing (or a HEAD of a directory) only where    *)
(* listings are enabled; the only place that clears $forIndexPage is       *)
(* @s3Directory, which a request reaches through @s3PreListing.  A path of *)
(* which stripping leaves nothing is sent as the bucket in path style; in  *)
(* virtual style $s3uri is empty and NGINX decides: that case is left out. *)
(***************************************************************************)
Requests(p) ==
    {q \in [path : {p}, method : {"GET", "HEAD"}, forIndexPage : BOOLEAN, marker : {<< >>, <<"m">>}] :
        /\ ~q.forIndexPage => cfg.listing /\ IsDirectory(UriPath(cfg, p))
        /\ UriPath(cfg, p) = << >> => cfg.style = "path"}

----------------------------------------------------------------------------
(***************************************************************************)
(* The links of a listing page (listing.xsl).  `uri` is a key or a common  *)
(* prefix as S3 returns it; str:split and the encoding of every segment    *)
(* leave its tokens as they are, given that it has no empty segment.       *)
(***************************************************************************)
NormalizedPrefixPath ==
    LET bare == WithoutLeadingSlash(Decoded(PrefixLeadingDirectoryPath(cfg)))
    IN  IF bare = << >> \/ Last(bare) = "/" THEN bare ELSE Append(bare, "/")

StripNothing(uri) == uri              \* mutant: links that keep the prefix

StripPrefix(uri) ==
    IF IsPrefix(NormalizedPrefixPath, uri)
    THEN SubSeq(uri, Len(NormalizedPrefixPath) + 1, Len(uri)) ELSE uri

EntryLink(uri) == <<"/">> \o cfg.root \o StripPrefix(uri)

HasParentLink(dir) == StripPrefix(dir) # << >>

\* Where a browser goes from the directory p by "../".
ParentOf(p) ==
    IF p = <<"/">> THEN p ELSE SubSeq(p, 1, Max({i \in 1 .. Len(p) - 1 : p[i] = "/"}))

----------------------------------------------------------------------------
(***************************************************************************)
(* All spellings of a path that differ in duplicate slashes are one        *)
(* request to S3: doubling any slash of the path changes neither the line  *)
(* that is sent nor, therefore, the cache entry.  In particular a doubled  *)
(* slash does not get past STRIP_LEADING_DIRECTORY_PATH.  Nor does a       *)
(* slash at the end of either setting, or a missing one before the prefix, *)
(* change what is sent (GH-576).                                           *)
(***************************************************************************)
SettingSpellings ==
    {[cfg EXCEPT !.prefix = Append(@, "/")], [cfg EXCEPT !.strip = Append(@, "/")],
     [cfg EXCEPT !.prefix = IF @ # << >> /\ Head(@) = "/" THEN Tail(@) ELSE @]}

SpellingsAgree ==
    \A q \in Requests(path) :
        /\ \A i \in DOMAIN path : path[i] = "/" =>
               S3uri(cfg, [q EXCEPT !.path = InsertAt(path, i, "/")]) = S3uri(cfg, q)
        /\ \A c \in SettingSpellings : S3uri(c, q) = S3uri(cfg, q)

(***************************************************************************)
(* The signature covers what is sent.  $s3uri and $s3auth are evaluated    *)
(* apart, by code that computes the path and the query twice; for every    *)
(* path, method, addressing style and signature version S3 finds the       *)
(* signature it expects.                                                   *)
(***************************************************************************)
SignedIsProxied ==
    \A q \in Requests(path) : SignatureMatches(cfg, q, S3uri(cfg, q))

(***************************************************************************)
(* Every object key can be asked for: encode each slash of the key that    *)
(* follows another one, or comes first or last, and the request names that *)
(* key below the configured prefix, which is rewritten with the rest: its  *)
(* duplicate slashes are collapsed, its escapes decoded.  Read here with   *)
(* the key of the path at hand, whose spelling is made anew.               *)
(***************************************************************************)
Spelling(key) ==
    <<"/">> \o [i \in DOMAIN key |->
                   IF key[i] = "/" /\ (i \in {1, Len(key)} \/ key[i - 1] = "/") THEN "%2F" ELSE key[i]]

EveryKeyAddressable ==
    LET key == Tail(Decoded(path))
        q   == [path |-> Spelling(key), method |-> "GET", forIndexPage |-> TRUE, marker |-> << >>]
        prefix == Decoded(CollapseDuplicateSlashes(PrefixLeadingDirectoryPath(cfg)))
    IN  key # << >> /\ StripLeadingDirectoryPath(cfg) = << >>
            => KeyOf(cfg, S3uri(cfg, q)) = Tail(prefix \o <<"/">> \o key)

(***************************************************************************)
(* The loopback request that looks for an index page asks S3 for the page  *)
(* that will be served if it is there: the address of the probe, rewritten *)
(* when it comes in again, names the same object as the directory request. *)
(***************************************************************************)
ProbeNamesTheIndexPage ==
    LET q     == [path |-> path, method |-> "GET", forIndexPage |-> TRUE, marker |-> << >>]
        probe == [q EXCEPT !.path = GatewayUri(cfg, q).path]
    IN  cfg.listing /\ cfg.index /\ IsDirectory(UriPath(cfg, path))
            => S3uri(cfg, probe) = S3uri(cfg, q)

\* The same for the paths without an encoded slash, save where the strip expression
\* takes away the page and not its directory.
PlainProbeNamesTheIndexPage ==
    /\ ~Contains(path, "%2F")
    /\ StripLeadingDirectoryPath(cfg) # Append(CollapseDuplicateSlashes(path), IndexPage)
    => ProbeNamesTheIndexPage

(***************************************************************************)
(* Following a link of a listing page comes to what the link stands for:   *)
(* the entry of the bucket, file or subdirectory, although the prefix is   *)
(* taken out of the link, the root put in front, and both undone when the  *)
(* request comes in.  ".." leads to the parent, and is missing where it    *)
(* would leave the exposed subtree.  A path is read here in its canonical  *)
(* spelling; one that the strip expression cuts inside a segment (which    *)
(* the documentation warns of) is left out.  The root has to be what is    *)
(* stripped, and the stylesheet only knows the prefix as it was spelled,   *)
(* so it must not have slashes that the gateway collapses.                 *)
(***************************************************************************)
Canonical(p) == CollapseDuplicateSlashes(p) = p /\ ~Contains(p, "%2F")

CutInsideSegment(p) ==
    LET strip == StripLeadingDirectoryPath(cfg)
    IN  strip # << >> /\ IsPrefix(strip, p) /\ Len(p) > Len(strip) /\ p[Len(strip) + 1] # "/"

SettingsUndone ==
    LET strip  == StripLeadingDirectoryPath(cfg)
        prefix == PrefixLeadingDirectoryPath(cfg)
    IN  /\ Canonical(strip) /\ <<"/">> \o cfg.root = Append(strip, "/")
        /\ CollapseDuplicateSlashes(prefix) = prefix
        /\ prefix # << >> => Last(prefix) # "%2F"

LinksLeadToWhatTheyName ==
    LET Listed(p) == ListPrefix(CollapseDuplicateSlashes(UriPath(cfg, p)))
        dir       == Listed(path)
        Get(p)    == [path |-> p, method |-> "GET", forIndexPage |-> TRUE, marker |-> << >>]
    IN  /\ SettingsUndone /\ cfg.listing /\ IsDirectory(UriPath(cfg, path))
        /\ Canonical(path) /\ ~CutInsideSegment(path)
        => /\ \A name \in Tokens \ {"/", "%2F"} :
                  /\ KeyOf(cfg, S3uri(cfg, Get(EntryLink(Append(dir, name))))) = Append(dir, name)
                  /\ Listed(EntryLink(dir \o <<name, "/">>)) = dir \o <<name, "/">>
           /\ HasParentLink(dir)
                  => <<"/">> \o Listed(ParentOf(path)) = ParentOf(<<"/">> \o dir)

=============================================================================

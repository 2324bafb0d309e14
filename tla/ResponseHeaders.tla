-------------------------- MODULE ResponseHeaders --------------------------
(***************************************************************************)
(* editHeaders: which headers of an answer of S3 reach the client.  A name *)
(* is a sequence of pieces; so are HEADER_PREFIXES_TO_STRIP and            *)
(* HEADER_PREFIXES_ALLOWED (c.stripHeaders and c.allowHeaders), with ";"   *)
(* as a piece of its own.                                                  *)
(***************************************************************************)
EXTENDS PathRewrite

CONSTANT Headers      \* names of the headers in the answers of S3

HtmlType == <<"content-type: text/html">>

ParseArray(setting) ==
    LET s    == IF IsSuffix(<<";">>, setting) THEN Front(setting) ELSE setting
        cuts == {0, Len(s) + 1} \cup {i \in DOMAIN s : s[i] = ";"}
    IN  IF s = << >> THEN {}
        ELSE {SubSeq(s, i + 1, Min({j \in cuts : j > i}) - 1) : i \in cuts \ {Len(s) + 1}}

\* indexOf(piece) >= 0: anywhere in the name, not only at its start.
Holds(name, piece) == \E i \in 0 .. Len(name) : IsPrefix(piece, SubSeq(name, i + 1, Len(name)))

IsHeaderToBeStripped(c, name) ==
    \E piece \in {<<"x-amz-">>} \cup ParseArray(c.stripHeaders) : Holds(name, piece)

IsHeaderToBeAllowed(c, name) == \E piece \in ParseArray(c.allowHeaders) : Holds(name, piece)

\* An encoded slash at the end makes no directory: the path is not decoded.
EditHeaders(c, q) ==
    IF c.listing /\ q.method = "HEAD" /\ IsDirectory(UriPath(c, q.path)) THEN {HtmlType}
    ELSE {h \in Headers : IsHeaderToBeAllowed(c, h) \/ ~IsHeaderToBeStripped(c, h)}
=============================================================================

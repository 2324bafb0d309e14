-------------------------- MODULE MCRequestRouting --------------------------
EXTENDS RequestRouting

Rewritings == {[strip |-> << >>, prefix |-> << >>],
               [strip |-> << >>, prefix |-> <<"/", "p">>],
               [strip |-> <<"/", "s">>, prefix |-> <<"/", "p", "/", "/", "q", "/">>]}

Container(l, i, sl, st, v, rw, rest) ==
    [listing |-> l, index |-> i, slash |-> sl, style |-> st, sigver |-> v, pageSize |-> 2,
     strip |-> rw.strip, prefix |-> rw.prefix, cors |-> rest, emptyIs404 |-> rest,
     stripHeaders |-> IF rest THEN <<"etag", ";", "meta-", "a", ";">> ELSE << >>,
     allowHeaders |-> IF rest THEN <<"x-amz-", "meta-">> ELSE << >>]

MCHeaders == {<<"etag">>, <<"x-amz-", "id">>, <<"x-amz-", "meta-", "a">>, <<"age">>}

StripOnly == [strip |-> <<"/", "s">>, prefix |-> << >>]

\* Stripping alone in path style only: in virtual style what is sent could be empty.
MCConfigs ==
    {Container(l, i, sl, "path", 4, StripOnly, FALSE) :
        l \in BOOLEAN, i \in BOOLEAN, sl \in BOOLEAN}
    \cup
    {Container(l, i, sl, a[1], a[2], rw, rest) :
        l \in BOOLEAN, i \in BOOLEAN, sl \in BOOLEAN,
        a \in {<<"virtual", 4>>, <<"path", 4>>, <<"path", 2>>}, rw \in Rewritings, rest \in BOOLEAN}

\* Rewritten or not, listed or not, with and without index pages.
MCStoring == {c \in MCConfigs : /\ c.style = "virtual" /\ c.sigver = 4 /\ c.cors /\ c.slash
                                /\ c.strip # << >> <=> c.prefix # << >>}

MCPaths == {<<"/">>, <<"/", "/">>, <<"/", "s">>, <<"/", "s", "a">>, <<"/", "s", "/">>, <<"/", "/", "s", "/", "a">>,
            <<"/", "a">>, <<"/", "a", "/", "/">>, <<"/", "a", ".x">>, <<"/", "a", "%2F">>,
            <<"/", "a", "/", "%2F", "s", "/">>, <<"/", "a", "/", "index.html">>, <<"/", "health">>,
            <<"/", "soap">>}

NoMarker == {<< >>}
=============================================================================

-------------------------- MODULE MCPathSpellings --------------------------
EXTENDS PathSpellings

Rewritings == {[strip |-> << >>, prefix |-> << >>],
               [strip |-> << >>, prefix |-> <<"/", "p">>],
               [strip |-> <<"/", "s">>, prefix |-> <<"p", "/", "/">>],
               [strip |-> <<"/", "s">>, prefix |-> << >>],
               [strip |-> << >>, prefix |-> <<"/", "p", "/", "/", "q">>],
               [strip |-> << >>, prefix |-> <<"p", "%2F", "q">>],
               [strip |-> <<"/", "s", "/", "index.html">>, prefix |-> << >>]}

\* The links of a gateway that strips a path start with that path.
MCConfigs ==
    {[listing |-> l, index |-> i, style |-> st, sigver |-> v, pageSize |-> 2,
      strip |-> rw.strip, prefix |-> rw.prefix,
      root |-> IF rw.strip = << >> THEN << >> ELSE Append(Tail(rw.strip), "/")] :
        l \in BOOLEAN, i \in BOOLEAN, st \in {"virtual", "path"}, v \in {2, 4}, rw \in Rewritings}

MCTokens == {"/", "%2F", "s", "index.html"}
=============================================================================

-------------------------- MODULE CredentialRecovery -------------------------
(* What CredentialCache comes to in the long run, under the fairness of    *)
(* the event loop alone, and in surroundings that become steady.           *)
EXTENDS CredentialCache

Undisturbed == Tick \/ \E q \in Requests : FetchCredentials(q) \/ Finish(q)

UsableAnswer(q) == ProviderIssues(q) /\ resp'[q].kind = "complete"

UsableFetch(q) == resp[q] # None /\ resp[q].kind = "complete" /\ FetchSucceeds(q)

(* From some moment on nothing crashes and nothing is evicted, requests    *)
(* keep arriving, and the provider, called often enough, gives an answer   *)
(* that arrives.  A tick passes only between synchronous stretches; on two *)
(* workers these could overlap for ever and stop the model's clock, which  *)
(* is no behaviour of the system.                                          *)
Steady ==
    /\ <>[][Undisturbed]_vars
    /\ []<>(\A q \in Requests : phase[q] # "read")
    /\ \A q \in Requests : /\ SF_vars(ReadCredentials(q))
                           /\ SF_vars(UsableAnswer(q))
                           /\ SF_vars(UsableFetch(q))

(* In steady surroundings the cache is fresh again and again: no sentinel  *)
(* a dead refresher left, no failed refresh and no overwriting by a slow   *)
(* one stops refreshing for good.                                          *)
CacheRecovers == Steady => []<>Fresh(cache)
=============================================================================

--------------------------- MODULE CredentialCache ---------------------------
(***************************************************************************)
(* The temporary-credential cache of the gateway and the handler that      *)
(* keeps it fresh: fetchCredentials of awscredentials.js, which runs as    *)
(* the auth_request of every proxied request, on any of several NGINX      *)
(* workers that share one cache entry and one refresh sentinel.            *)
(*                                                                         *)
(* Time is kept as time LEFT.  The code compares a live clock with         *)
(* absolute deadlines; here every deadline is the number of ticks until    *)
(* it, so "nowMs < expireAtMs" reads "left > 0" and "nowMs < refreshAtMs"  *)
(* reads "left > Margin".  Tick moves all of them together.                *)
(***************************************************************************)
EXTENDS Integers, FiniteSets

CONSTANTS
    Requests,   \* client requests that can be in flight together
    Workers,    \* NGINX worker processes
    WorkerOf,   \* the worker each request runs on
    Keys,       \* access key ids the provider hands out
    None,       \* no credentials, no request
    Margin,     \* maxValidityOffsetMs (4.5 minutes)
    LockTTL,    \* timeout of the credential_refresh_lock zone (30 s)
    MaxCall,    \* timeout of one ngx.fetch (60 s by default)
    MaxFetch,   \* longest time a walk to the provider takes: up to three calls
    Lifetimes,  \* validity left in credentials when the provider issues them
    Kinds,      \* kinds of answer the provider gives
    MinLife,    \* the least of them the provider promises (5 minutes)
    LockZone,   \* is the credential_refresh_lock zone declared?
    Evicts      \* Plus keyval zone (drops entries by timeout), or OSS dict

ASSUME TimingAssumption ==
    /\ Margin \in Nat \ {0}
    /\ LockTTL \in Nat \ {0}
    /\ MaxCall \in Nat \ {0}
    /\ MaxFetch \in Nat
    /\ MaxCall <= MaxFetch
    /\ MinLife \in Nat
    /\ MinLife >= Margin + LockTTL      \* the comment at CREDENTIAL_REFRESH_LOCK_ZONE
    /\ MinLife > MaxFetch + MaxCall
    /\ Lifetimes \subseteq {n \in Nat : n >= MinLife}

ASSUME SettingAssumption ==
    /\ WorkerOf \in [Requests -> Workers]
    /\ Kinds \subseteq {"complete", "undated", "keyless"}
    /\ LockZone \in BOOLEAN
    /\ Evicts \in BOOLEAN

(* What the code can tell about a credential set: it is complete, or its   *)
(* expiration does not parse (new Date gives NaN), or its accessKeyId or   *)
(* secretAccessKey is missing.                                             *)
Credentials == [key : Keys, left : Nat, kind : Kinds]

ASSUME NoneAssumption == None \notin Credentials /\ None \notin Requests

VARIABLES
    phase,      \* where each request is in fetchCredentials
    seen,       \* what each request read from the cache
    resp,       \* the provider's answer, on its way to the request
    fetchLeft,  \* time left to each outstanding walk to the provider
    deadline,   \* cachedValidUntilMs of each request; 0 when nothing valid was cached
    cache,      \* the instance_credentials entry
    lockLeft,   \* time left to the sentinel entry; 0 when absent
    owner,      \* history: the request that added the present sentinel
    outcome     \* history: what became of the owner's refresh

vars == <<phase, seen, resp, fetchLeft, deadline, cache, lockLeft, owner, outcome>>

Phases == {"idle", "read", "fetching", "authorized", "failed"}

TypeOK ==
    /\ phase \in [Requests -> Phases]
    /\ seen \in [Requests -> Credentials \union {None}]
    /\ resp \in [Requests -> Credentials \union {None}]
    /\ fetchLeft \in [Requests -> 0..MaxFetch]
    /\ deadline \in [Requests -> Nat]
    /\ cache \in Credentials \union {None}
    /\ lockLeft \in 0..LockTTL
    /\ owner \in Requests \union {None}
    /\ outcome \in {"pending", "refreshed", "overwritten"}

Dated(c)     == c # None /\ c.kind # "undated"
Unexpired(c) == Dated(c) /\ c.left > 0
(* Mutant: a margin raised without revisiting the sentinel's timeout.      *)
FreshLate(c) == Dated(c) /\ c.left > Margin + LockTTL
Fresh(c)     == Dated(c) /\ c.left > Margin
InMargin(c)  == Unexpired(c) /\ ~Fresh(c)

Elapse(n) == IF n = 0 THEN 0 ELSE n - 1
Aged(c)   == IF c = None THEN None ELSE [c EXCEPT !.left = Elapse(@)]

(* A worker runs JavaScript to completion: between reading the cache and   *)
(* the first await of one request no other request of that worker runs.    *)
Turn(q) == \A p \in Requests \ {q} : WorkerOf[p] = WorkerOf[q] => phase[p] # "read"

Init ==
    /\ phase = [q \in Requests |-> "idle"]
    /\ seen = [q \in Requests |-> None]
    /\ resp = [q \in Requests |-> None]
    /\ fetchLeft = [q \in Requests |-> 0]
    /\ deadline = [q \in Requests |-> 0]
    /\ cache = None
    /\ lockLeft = 0
    /\ owner = None
    /\ outcome = "pending"

-----------------------------------------------------------------------------
(* A client request arrives and its auth_request reads the cache.          *)
ReadCredentials(q) ==
    /\ phase[q] = "idle" /\ Turn(q)
    /\ phase' = [phase EXCEPT ![q] = "read"]
    /\ seen' = [seen EXCEPT ![q] = cache]
    /\ UNCHANGED <<resp, fetchLeft, deadline, cache, lockLeft, owner, outcome>>

(* The request leaves fetchCredentials with r.return(200) or r.return(500) *)
(* and drops its local variables.                                          *)
Return(q, answer) ==
    /\ phase' = [phase EXCEPT ![q] = answer]
    /\ seen' = [seen EXCEPT ![q] = None]
    /\ resp' = [resp EXCEPT ![q] = None]
    /\ fetchLeft' = [fetchLeft EXCEPT ![q] = 0]
    /\ deadline' = [deadline EXCEPT ![q] = 0]

(* Mutant: failing open although the zone is there.                        *)
CanAcquireAlways == TRUE

(* _tryAcquireCredentialRefreshLock: add() succeeds while no entry is      *)
(* live; without the zone it fails open.                                   *)
CanAcquire == ~LockZone \/ lockLeft = 0

AnswerFresh(q) ==
    /\ phase[q] = "read" /\ Fresh(seen[q])
    /\ Return(q, "authorized")
    /\ UNCHANGED <<cache, lockLeft, owner, outcome>>

AnswerCached(q) ==
    /\ phase[q] = "read" /\ InMargin(seen[q]) /\ ~CanAcquire
    /\ Return(q, "authorized")
    /\ UNCHANGED <<cache, lockLeft, owner, outcome>>

StartFetch(q, validUntil) ==
    /\ phase' = [phase EXCEPT ![q] = "fetching"]
    /\ seen' = [seen EXCEPT ![q] = None]
    /\ fetchLeft' = [fetchLeft EXCEPT ![q] = MaxFetch]
    /\ deadline' = [deadline EXCEPT ![q] = validUntil]
    /\ UNCHANGED <<resp, cache>>

(* Mutant: the deadline captured for the failure path is the wrong one.    *)
ElectForMargin(q) ==
    /\ phase[q] = "read" /\ InMargin(seen[q]) /\ CanAcquire
    /\ StartFetch(q, seen[q].left + Margin)
    /\ lockLeft' = LockTTL /\ owner' = q /\ outcome' = "pending"

ElectRefresher(q) ==
    /\ phase[q] = "read" /\ InMargin(seen[q]) /\ CanAcquire
    /\ StartFetch(q, seen[q].left)
    /\ IF LockZone
       THEN lockLeft' = LockTTL /\ owner' = q /\ outcome' = "pending"
       ELSE UNCHANGED <<lockLeft, owner, outcome>>

(* Nothing cached, expired, or an expiration that does not parse: refresh  *)
(* without asking for the sentinel.                                        *)
RefreshUnconditionally(q) ==
    /\ phase[q] = "read" /\ ~Unexpired(seen[q])
    /\ StartFetch(q, 0)
    /\ UNCHANGED <<lockLeft, owner, outcome>>

-----------------------------------------------------------------------------
(* The provider answers a call; its answer still has to reach the gateway. *)
ProviderIssues(q) ==
    /\ phase[q] = "fetching" /\ resp[q] = None
    /\ \E k \in Keys, l \in Lifetimes, kind \in Kinds :
          resp' = [resp EXCEPT ![q] = [key |-> k, left |-> l, kind |-> kind]]
    /\ UNCHANGED <<phase, seen, fetchLeft, deadline, cache, lockLeft, owner, outcome>>

(* Mutant: no check for missing keys.                                      *)
WritableAny(c) == c # None

(* writeCredentials refuses credentials without keys.                      *)
Writable(c) == c # None /\ c.kind # "keyless"

(* Mutant: writeCredentials returns early, as it does for static keys.     *)
FetchSucceedsUnwritten(q) ==
    /\ phase[q] = "fetching" /\ Turn(q) /\ Writable(resp[q])
    /\ Return(q, "authorized")
    /\ UNCHANGED <<cache, lockLeft, owner, outcome>>

FetchSucceeds(q) ==
    /\ phase[q] = "fetching" /\ Turn(q) /\ Writable(resp[q])
    /\ cache' = resp[q]
    /\ Return(q, "authorized")
    /\ IF owner = q
       THEN owner' = None /\ outcome' = "refreshed"
       ELSE /\ outcome' = IF outcome = "refreshed" THEN "overwritten" ELSE outcome
            /\ UNCHANGED owner
    /\ UNCHANGED lockLeft

(* Mutant: failures absorbed without asking whether anything is valid.     *)
FailureAnswerAlwaysOk(q) == "authorized"

(* _returnCredentialFetchFailure, with its second look at the clock.       *)
FailureAnswer(q) == IF deadline[q] > 0 THEN "authorized" ELSE "failed"

(* Mutant: a catch that forgets to answer the request.                     *)
FetchFailsSilently(q) == phase[q] = "fetching" /\ Turn(q) /\ UNCHANGED vars

(* Every catch of the provider ladder, and the one around the write.       *)
FetchFails(q) ==
    /\ phase[q] = "fetching" /\ Turn(q)
    /\ Return(q, FailureAnswer(q))
    /\ owner' = IF owner = q THEN None ELSE owner
    /\ UNCHANGED <<cache, lockLeft, outcome>>

(* The request is answered and its slot serves the next one.               *)
Finish(q) ==
    /\ phase[q] \in {"authorized", "failed"} /\ Turn(q)
    /\ phase' = [phase EXCEPT ![q] = "idle"]
    /\ UNCHANGED <<seen, resp, fetchLeft, deadline, cache, lockLeft, owner, outcome>>
-----------------------------------------------------------------------------
(* One tick.  It is far longer than a synchronous stretch of JavaScript,   *)
(* so none is under way, and ngx.fetch gives up when its time is over: the *)
(* walk ends within MaxFetch, and the call that brings credentials, its    *)
(* last, within MaxCall.                                                   *)
Overdue(q) ==
    \/ phase[q] = "fetching" /\ fetchLeft[q] = 0
    \/ resp[q] # None /\ resp[q].left + MaxCall <= MinLife

Tick ==
    /\ \A q \in Requests : phase[q] # "read" /\ ~Overdue(q)
    /\ resp' = [q \in Requests |-> Aged(resp[q])]
    /\ fetchLeft' = [q \in Requests |-> Elapse(fetchLeft[q])]
    /\ deadline' = [q \in Requests |-> Elapse(deadline[q])]
    /\ cache' = Aged(cache)
    /\ lockLeft' = Elapse(lockLeft)
    /\ UNCHANGED <<phase, seen, owner, outcome>>

(* The Plus keyval zone drops its entry after 6 h.                         *)
Evict ==
    /\ Evicts /\ cache # None
    /\ cache' = None
    /\ UNCHANGED <<phase, seen, resp, fetchLeft, deadline, lockLeft, owner, outcome>>

Abandon(dead) ==
    /\ phase' = [q \in Requests |-> IF q \in dead THEN "idle" ELSE phase[q]]
    /\ seen' = [q \in Requests |-> IF q \in dead THEN None ELSE seen[q]]
    /\ resp' = [q \in Requests |-> IF q \in dead THEN None ELSE resp[q]]
    /\ fetchLeft' = [q \in Requests |-> IF q \in dead THEN 0 ELSE fetchLeft[q]]
    /\ deadline' = [q \in Requests |-> IF q \in dead THEN 0 ELSE deadline[q]]
    /\ owner' = IF owner \in dead THEN None ELSE owner

(* A worker dies with its requests; shared memory, and with it the cache   *)
(* and the sentinel, survives.                                             *)
WorkerCrash(w) ==
    LET dead == {q \in Requests : WorkerOf[q] = w} IN
    /\ \E q \in dead : phase[q] # "idle"
    /\ Abandon(dead)
    /\ UNCHANGED <<cache, lockLeft, outcome>>

(* The container restarts and loses everything.                            *)
Restart ==
    /\ Abandon(Requests)
    /\ cache' = None
    /\ lockLeft' = 0
    /\ outcome' = "pending"

FetchCredentials(q) ==
    \/ ReadCredentials(q)
    \/ AnswerFresh(q)
    \/ AnswerCached(q)
    \/ ElectRefresher(q)
    \/ RefreshUnconditionally(q)
    \/ ProviderIssues(q)
    \/ FetchSucceeds(q)
    \/ FetchFails(q)

Environment == Tick \/ Evict \/ Restart \/ \E w \in Workers : WorkerCrash(w)

Next ==
    \/ \E q \in Requests : FetchCredentials(q) \/ Finish(q)
    \/ Environment

Spec == Init /\ [][Next]_vars
-----------------------------------------------------------------------------
(* Scheduling.  NGINX processes every ready event in each turn of a        *)
(* worker's loop and real time passes whatever requests do, hence strong   *)
(* fairness where another request can disable the action for a moment.     *)
(* Nothing forces the provider to answer: only the end of the call's time. *)
Settle(q) == Overdue(q) /\ (FetchSucceeds(q) \/ FetchFails(q))

Decide(q) == AnswerFresh(q) \/ AnswerCached(q) \/ ElectRefresher(q) \/ RefreshUnconditionally(q)

Fairness ==
    /\ SF_vars(Tick)
    /\ \A q \in Requests : WF_vars(Decide(q)) /\ SF_vars(Settle(q)) /\ SF_vars(Finish(q))

FairSpec == Spec /\ Fairness
-----------------------------------------------------------------------------
(* PROPERTIES *)

(* Single flight: two refreshers elected inside the margin started at      *)
(* least one sentinel lifetime apart ("exactly one request per timeout     *)
(* window", credential_refresh_lock.conf).                                 *)
Elected(q) == phase[q] = "fetching" /\ deadline[q] > 0

ElectionsSpaced ==
    LockZone => \A p, q \in Requests :
        p # q /\ Elected(p) /\ Elected(q) =>
            \/ fetchLeft[p] - fetchLeft[q] >= LockTTL
            \/ fetchLeft[q] - fetchLeft[p] >= LockTTL

(* The sentinel left behind by a successful refresh does not hold back the *)
(* next one, as long as what that refresh wrote is still in the cache      *)
(* (the arithmetic in the comment at CREDENTIAL_REFRESH_LOCK_ZONE).        *)
OwnSentinelNeverGates ==
    lockLeft > 0 /\ outcome = "refreshed" => ~InMargin(cache)

(* The same without the proviso, as the comment puts it: "a residual       *)
(* sentinel ... can never gate a legitimately needed refresh".             *)
ResidualSentinelNeverGates ==
    lockLeft > 0 /\ owner = None /\ outcome \in {"refreshed", "overwritten"} => ~InMargin(cache)

(* On OSS no request passes the credential check and then finds the cache  *)
(* empty when its headers are built (instance_credential_cache.conf).      *)
NoEmptyReadAfterCheck ==
    ~Evicts => \A q \in Requests : phase[q] = "authorized" => cache # None

(* Whenever fetchCredentials answers 200, by whichever of its five ways,   *)
(* the credentials then in the cache have their keys and have not expired, *)
(* although slower refreshes may have replaced those it looked at.         *)
Usable(c) == IF c = None THEN Evicts ELSE c.kind # "keyless" /\ c.left > 0

AuthorizedMeansUsable ==
    [][\A q \in Requests :
         phase[q] # "authorized" /\ phase'[q] = "authorized" => Usable(cache')]_vars

(* Every request whose credential check started is answered, unless its    *)
(* worker dies first.                                                      *)
EveryRequestAnswered ==
    \A q \in Requests :
        phase[q] \in {"read", "fetching"} ~> phase[q] \in {"authorized", "failed", "idle"}
-----------------------------------------------------------------------------
(* The inductive invariant behind the safety properties, checked by TLC    *)
(* and proved in CredentialProofs.                                         *)

(* Locals live only as long as the code that holds them.                   *)
LocalsScoped ==
    \A q \in Requests : /\ phase[q] # "fetching" => resp[q] = None
                        /\ phase[q] # "read" => seen[q] = None

(* An answer has lost no more validity than its call or its walk lasted.   *)
RespBudget ==
    \A q \in Requests :
        resp[q] # None => /\ resp[q].left + MaxCall >= MinLife
                          /\ resp[q].left + MaxFetch >= MinLife + fetchLeft[q]

CacheHasKeys == cache # None => Writable(cache)

(* What a request relies on is still in the cache, or was replaced by      *)
(* credentials that outlast anything the request can still wait for.       *)
Covers(n, wait) == cache # None /\ (cache.left >= n \/ cache.left > wait)

CacheCovers ==
    \/ Evicts /\ cache = None
    \/ \A q \in Requests :
          /\ phase[q] = "read" /\ Unexpired(seen[q]) => Covers(seen[q].left, MaxFetch)
          /\ Elected(q) => Covers(deadline[q], fetchLeft[q])
          /\ phase[q] = "authorized" => Evicts \/ cache # None

(* The sentinel lives at least as long as an elected call of full TTL.     *)
SentinelCoversElected ==
    LockZone => \A q \in Requests :
        Elected(q) => lockLeft + MaxFetch >= LockTTL + fetchLeft[q]

OwnerInFlight ==
    owner # None => /\ phase[owner] = "fetching"
                    /\ \/ lockLeft = 0
                       \/ lockLeft + MaxFetch <= LockTTL + fetchLeft[owner]

OwnRefreshOutlivesSentinel ==
    lockLeft > 0 /\ outcome = "refreshed" => cache = None \/ cache.left >= Margin + lockLeft

Inv ==
    /\ TypeOK
    /\ LocalsScoped
    /\ RespBudget
    /\ CacheHasKeys
    /\ CacheCovers
    /\ SentinelCoversElected
    /\ ElectionsSpaced
    /\ OwnerInFlight
    /\ OwnRefreshOutlivesSentinel
=============================================================================

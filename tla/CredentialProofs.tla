-------------------------- MODULE CredentialProofs ---------------------------
(***************************************************************************)
(* Proofs about CredentialCache and, below, about RequestSigning, which    *)
(* composes the cache with the building of request headers: for any number *)
(* of requests and workers and every choice of timings that the            *)
(* assumptions allow.                                                      *)
(***************************************************************************)
EXTENDS RequestSigning, TLAPS

MaybeCredentials == Credentials \union {None}

(* Ageing keeps everything of a credential set but its remaining life.     *)
LEMMA AgedLemma ==
    ASSUME NEW c \in MaybeCredentials
    PROVE  /\ Aged(c) \in MaybeCredentials
           /\ Aged(c) = None <=> c = None
           /\ c # None => /\ Aged(c).left = Elapse(c.left)
                          /\ Aged(c).left \in Nat
                          /\ Aged(c).kind = c.kind
                          /\ c.left \in Nat
  <1>1. CASE c = None
    BY <1>1 DEF Aged, MaybeCredentials
  <1>2. CASE c # None
    <2>1. c \in Credentials
      BY <1>2 DEF MaybeCredentials
    <2>2. Elapse(c.left) \in Nat
      BY <2>1 DEF Credentials, Elapse
    <2>3. Aged(c) = [c EXCEPT !.left = Elapse(c.left)]
      BY <1>2 DEF Aged
    <2>4. Aged(c) \in Credentials
      BY <2>1, <2>2, <2>3 DEF Credentials
    <2> QED
      BY <1>2, <2>1, <2>2, <2>3, <2>4, NoneAssumption DEF Credentials, MaybeCredentials
  <1> QED
    BY <1>1, <1>2

LEMMA TypeStep == TypeOK /\ [Next]_vars => TypeOK'
  <1> SUFFICES ASSUME TypeOK, [Next]_vars PROVE TypeOK'
    OBVIOUS
  <1> USE TimingAssumption DEF TypeOK, Phases
  <1>1. ASSUME NEW q \in Requests, ReadCredentials(q) PROVE TypeOK'
    BY <1>1 DEF ReadCredentials
  <1>2. ASSUME NEW q \in Requests, AnswerFresh(q) PROVE TypeOK'
    BY <1>2 DEF AnswerFresh, Return
  <1>3. ASSUME NEW q \in Requests, AnswerCached(q) PROVE TypeOK'
    BY <1>3 DEF AnswerCached, Return
  <1>4. ASSUME NEW q \in Requests, ElectRefresher(q) PROVE TypeOK'
    <2>1. seen[q].left \in Nat
      BY <1>4 DEF ElectRefresher, InMargin, Unexpired, Dated, Credentials
    <2>2. LockTTL \in 0..LockTTL
      OBVIOUS
    <2> QED
      BY <1>4, <2>1, <2>2 DEF ElectRefresher, StartFetch
  <1>5. ASSUME NEW q \in Requests, RefreshUnconditionally(q) PROVE TypeOK'
    BY <1>5 DEF RefreshUnconditionally, StartFetch
  <1>6. ASSUME NEW q \in Requests, ProviderIssues(q) PROVE TypeOK'
    <2>1. PICK k \in Keys, l \in Lifetimes, kind \in Kinds :
               resp' = [resp EXCEPT ![q] = [key |-> k, left |-> l, kind |-> kind]]
      BY <1>6 DEF ProviderIssues
    <2>2. [key |-> k, left |-> l, kind |-> kind] \in Credentials
      BY DEF Credentials
    <2> QED
      BY <1>6, <2>1, <2>2 DEF ProviderIssues
  <1>7. ASSUME NEW q \in Requests, FetchSucceeds(q) PROVE TypeOK'
    BY <1>7 DEF FetchSucceeds, Return
  <1>8. ASSUME NEW q \in Requests, FetchFails(q) PROVE TypeOK'
    BY <1>8 DEF FetchFails, Return, FailureAnswer
  <1>9. ASSUME NEW q \in Requests, Finish(q) PROVE TypeOK'
    BY <1>9 DEF Finish
  <1>10. CASE Tick
    <2>1. \A q \in Requests : Aged(resp[q]) \in MaybeCredentials
      BY AgedLemma DEF MaybeCredentials
    <2>2. Aged(cache) \in MaybeCredentials
      BY AgedLemma DEF MaybeCredentials
    <2> QED
      BY <1>10, <2>1, <2>2 DEF Tick, Elapse, MaybeCredentials
  <1>11. CASE Evict
    BY <1>11 DEF Evict
  <1>12. CASE Restart
    BY <1>12 DEF Restart, Abandon
  <1>13. ASSUME NEW w \in Workers, WorkerCrash(w) PROVE TypeOK'
    BY <1>13 DEF WorkerCrash, Abandon
  <1>14. CASE UNCHANGED vars
    BY <1>14 DEF vars
  <1> QED
    BY <1>1, <1>2, <1>3, <1>4, <1>5, <1>6, <1>7, <1>8, <1>9, <1>10, <1>11, <1>12,
       <1>13, <1>14 DEF Next, FetchCredentials, Environment

(* Every variable keeps its type.                                          *)
THEOREM TypeCorrect == Spec => []TypeOK
  <1>1. Init => TypeOK
    BY TimingAssumption DEF Init, TypeOK, Phases
  <1> QED
    BY <1>1, TypeStep, PTL DEF Spec
-----------------------------------------------------------------------------
(* The inductive step, one lemma per group of actions.                     *)
LEMMA ReadStep ==
    ASSUME Inv, TypeOK', NEW q \in Requests, ReadCredentials(q)
    PROVE  Inv'
  <1> USE TimingAssumption DEF Inv, TypeOK, Phases, ReadCredentials
  <1>1. LocalsScoped'
    BY DEF LocalsScoped
  <1>2. RespBudget' /\ CacheHasKeys' /\ OwnRefreshOutlivesSentinel'
    BY DEF RespBudget, CacheHasKeys, OwnRefreshOutlivesSentinel
  <1>3. CacheCovers'
    BY DEF CacheCovers, Covers, Elected, Unexpired, Dated, Credentials
  <1>4. SentinelCoversElected' /\ ElectionsSpaced'
    BY DEF SentinelCoversElected, ElectionsSpaced, Elected
  <1>5. OwnerInFlight'
    BY DEF OwnerInFlight
  <1> QED
    BY <1>1, <1>2, <1>3, <1>4, <1>5

(* Leaving with an answer that touches neither the cache nor the sentinel. *)
LEMMA ReturnStep ==
    ASSUME Inv, TypeOK', NEW q \in Requests, NEW answer \in {"authorized", "failed"},
           Return(q, answer), phase[q] \in {"read", "fetching"},
           answer = "authorized" => Evicts \/ cache # None,
           UNCHANGED <<cache, lockLeft, outcome>>,
           owner' = IF owner = q THEN None ELSE owner
    PROVE  Inv'
  <1> USE TimingAssumption DEF Inv, TypeOK, Phases, Return
  <1>1. LocalsScoped'
    BY DEF LocalsScoped
  <1>2. RespBudget' /\ CacheHasKeys' /\ OwnRefreshOutlivesSentinel'
    BY DEF RespBudget, CacheHasKeys, OwnRefreshOutlivesSentinel
  <1>3. CacheCovers'
    BY DEF CacheCovers, Covers, Elected
  <1>4. SentinelCoversElected' /\ ElectionsSpaced'
    BY DEF SentinelCoversElected, ElectionsSpaced, Elected
  <1>5. OwnerInFlight'
    BY NoneAssumption DEF OwnerInFlight
  <1> QED
    BY <1>1, <1>2, <1>3, <1>4, <1>5

LEMMA ElectStep ==
    ASSUME Inv, TypeOK', NEW q \in Requests, ElectRefresher(q)
    PROVE  Inv'
  <1> USE TimingAssumption DEF Inv, TypeOK, Phases, ElectRefresher, StartFetch
  <1>0. /\ phase[q] = "read" /\ Unexpired(seen[q]) /\ seen[q].left \in Nat
        /\ resp[q] = None /\ owner # q /\ CanAcquire
    BY NoneAssumption
       DEF InMargin, Unexpired, Dated, Credentials, LocalsScoped, OwnerInFlight
  <1>1. LocalsScoped'
    BY DEF LocalsScoped
  <1>2. RespBudget' /\ CacheHasKeys' /\ OwnRefreshOutlivesSentinel'
    BY <1>0 DEF RespBudget, CacheHasKeys, OwnRefreshOutlivesSentinel
  <1>3. CacheCovers'
    BY <1>0 DEF CacheCovers, Covers, Elected
  <1>4. SentinelCoversElected' /\ ElectionsSpaced'
    BY <1>0 DEF SentinelCoversElected, ElectionsSpaced, Elected, CanAcquire
  <1>5. OwnerInFlight'
    BY <1>0, NoneAssumption DEF OwnerInFlight
  <1> QED
    BY <1>1, <1>2, <1>3, <1>4, <1>5

LEMMA UnconditionalStep ==
    ASSUME Inv, TypeOK', NEW q \in Requests, RefreshUnconditionally(q)
    PROVE  Inv'
  <1> USE TimingAssumption DEF Inv, TypeOK, Phases, RefreshUnconditionally, StartFetch
  <1>0. resp[q] = None /\ owner # q
    BY NoneAssumption DEF LocalsScoped, OwnerInFlight
  <1>1. LocalsScoped'
    BY DEF LocalsScoped
  <1>2. RespBudget' /\ CacheHasKeys' /\ OwnRefreshOutlivesSentinel'
    BY <1>0 DEF RespBudget, CacheHasKeys, OwnRefreshOutlivesSentinel
  <1>3. CacheCovers'
    BY DEF CacheCovers, Covers, Elected
  <1>4. SentinelCoversElected' /\ ElectionsSpaced'
    BY DEF SentinelCoversElected, ElectionsSpaced, Elected
  <1>5. OwnerInFlight'
    BY <1>0 DEF OwnerInFlight
  <1> QED
    BY <1>1, <1>2, <1>3, <1>4, <1>5

(* A fresh answer has the whole promised lifetime before it.               *)
LEMMA IssueStep ==
    ASSUME Inv, TypeOK', NEW q \in Requests, ProviderIssues(q)
    PROVE  Inv'
  <1> USE TimingAssumption DEF Inv, TypeOK, Phases
  <1>0. PICK k \in Keys, l \in Lifetimes, kind \in Kinds :
             resp' = [resp EXCEPT ![q] = [key |-> k, left |-> l, kind |-> kind]]
    BY DEF ProviderIssues
  <1> DEFINE c == [key |-> k, left |-> l, kind |-> kind]
  <1>1. c \in Credentials /\ c.left >= MinLife
    BY DEF Credentials
  <1>2. LocalsScoped'
    BY <1>0 DEF LocalsScoped, ProviderIssues
  <1>3. RespBudget'
    <2> SUFFICES ASSUME NEW p \in Requests, resp'[p] # None
                 PROVE  /\ resp'[p].left + MaxCall >= MinLife
                        /\ resp'[p].left + MaxFetch >= MinLife + fetchLeft'[p]
      BY DEF RespBudget
    <2>1. CASE p = q
      <3>1. resp'[p] = c
        BY <2>1, <1>0
      <3>2. fetchLeft'[p] \in 0..MaxFetch
        OBVIOUS
      <3> HIDE DEF c
      <3> QED
        BY <3>1, <3>2, <1>1 DEF Credentials
    <2>2. CASE p # q
      BY <2>2, <1>0 DEF RespBudget, ProviderIssues
    <2> QED
      BY <2>1, <2>2
  <1>4. /\ CacheHasKeys' /\ CacheCovers' /\ SentinelCoversElected' /\ ElectionsSpaced'
        /\ OwnerInFlight' /\ OwnRefreshOutlivesSentinel'
    BY DEF ProviderIssues, CacheHasKeys, CacheCovers, Covers, Elected, Unexpired, Dated,
       SentinelCoversElected, ElectionsSpaced, OwnerInFlight, OwnRefreshOutlivesSentinel
  <1> QED
    BY <1>2, <1>3, <1>4

(* What a refresh writes outlasts every wait and, when the sentinel is     *)
(* still its own, the sentinel as well.                                    *)
LEMMA SucceedStep ==
    ASSUME Inv, TypeOK', NEW q \in Requests, FetchSucceeds(q)
    PROVE  Inv'
  <1> USE TimingAssumption DEF Inv, TypeOK, Phases, FetchSucceeds, Return
  <1>0. /\ resp[q] \in Credentials /\ resp[q].left \in Nat
        /\ resp[q].left + MaxCall >= MinLife
        /\ resp[q].left + MaxFetch >= MinLife + fetchLeft[q]
        /\ cache' = resp[q] /\ cache' # None
    BY NoneAssumption DEF RespBudget, Writable, Credentials
  <1>1. LocalsScoped'
    BY DEF LocalsScoped
  <1>2. RespBudget' /\ CacheHasKeys'
    BY <1>0 DEF RespBudget, CacheHasKeys
  <1>3. CacheCovers'
    <2>1. cache'.left > MaxFetch
      BY <1>0
    <2> QED
      BY <2>1, <1>0 DEF CacheCovers, Covers, Elected
  <1>4. SentinelCoversElected' /\ ElectionsSpaced'
    BY DEF SentinelCoversElected, ElectionsSpaced, Elected
  <1>5. OwnerInFlight'
    BY NoneAssumption DEF OwnerInFlight
  <1>6. OwnRefreshOutlivesSentinel'
    <2>1. CASE owner = q
      BY <2>1, <1>0, NoneAssumption DEF OwnerInFlight, OwnRefreshOutlivesSentinel
    <2>2. CASE owner # q
      BY <2>2 DEF OwnRefreshOutlivesSentinel
    <2> QED
      BY <2>1, <2>2
  <1> QED
    BY <1>1, <1>2, <1>3, <1>4, <1>5, <1>6

(* A tick moves every deadline by the same amount; those that must not run *)
(* out before another one do not, because no outstanding call is overdue.  *)
LEMMA TickStep ==
    ASSUME Inv, TypeOK', Tick
    PROVE  Inv'
  <1> USE TimingAssumption DEF Inv, TypeOK, Phases
  <1>0. /\ UNCHANGED <<phase, seen, owner, outcome>>
        /\ \A q \in Requests : /\ resp'[q] = Aged(resp[q])
                               /\ fetchLeft'[q] = Elapse(fetchLeft[q])
                               /\ deadline'[q] = Elapse(deadline[q])
                               /\ phase[q] # "read"
                               /\ phase[q] = "fetching" => fetchLeft[q] > 0
                               /\ resp[q] # None => ~(resp[q].left + MaxCall <= MinLife)
        /\ cache' = Aged(cache)
        /\ lockLeft' = Elapse(lockLeft)
    BY DEF Tick, Overdue
  <1>a. \A q \in Requests :
           /\ Aged(resp[q]) = None <=> resp[q] = None
           /\ resp[q] # None => /\ Aged(resp[q]).left = Elapse(resp[q].left)
                                /\ resp[q].left \in Nat
    BY AgedLemma DEF MaybeCredentials
  <1>b. /\ Aged(cache) = None <=> cache = None
        /\ cache # None => /\ Aged(cache).left = Elapse(cache.left)
                           /\ Aged(cache).kind = cache.kind
                           /\ cache.left \in Nat
    BY AgedLemma DEF MaybeCredentials
  <1>1. LocalsScoped'
    BY <1>0, <1>a DEF LocalsScoped
  <1>2. RespBudget'
    <2> SUFFICES ASSUME NEW q \in Requests, resp'[q] # None
                 PROVE  /\ resp'[q].left + MaxCall >= MinLife
                        /\ resp'[q].left + MaxFetch >= MinLife + fetchLeft'[q]
      BY DEF RespBudget
    <2>1. /\ resp[q] # None /\ resp'[q].left = Elapse(resp[q].left) /\ resp[q].left \in Nat
          /\ phase[q] = "fetching"
      BY <1>0, <1>a DEF LocalsScoped
    <2> QED
      BY <2>1, <1>0 DEF RespBudget, Elapse
  <1>3. CacheHasKeys'
    BY <1>0, <1>b DEF CacheHasKeys, Writable
  <1>4. CacheCovers'
    <2>1. ASSUME NEW n \in Nat, NEW wait \in Nat, n > 1, wait > 0, Covers(n, wait)
          PROVE  Covers(Elapse(n), Elapse(wait))'
      BY <2>1, <1>0, <1>b DEF Covers, Elapse
    <2>2. ASSUME NEW q \in Requests, Elected(q)'
          PROVE  Elected(q) /\ deadline[q] > 1 /\ fetchLeft[q] > 0
      BY <2>2, <1>0 DEF Elected, Elapse
    <2>3. ASSUME NEW q \in Requests, Elected(q)', Covers(deadline[q], fetchLeft[q])
          PROVE  Covers(deadline[q], fetchLeft[q])'
      BY <2>3, <2>2, <2>1, <1>0 DEF Covers, Elapse
    <2> QED
      BY <2>2, <2>3, <1>0, <1>b DEF CacheCovers
  <1>5. SentinelCoversElected'
    BY <1>0 DEF SentinelCoversElected, Elected, Elapse
  <1>6. ElectionsSpaced'
    BY <1>0 DEF ElectionsSpaced, Elected, Elapse
  <1>7. OwnerInFlight'
    BY <1>0 DEF OwnerInFlight, Elapse
  <1>8. OwnRefreshOutlivesSentinel'
    BY <1>0, <1>b DEF OwnRefreshOutlivesSentinel, Elapse
  <1> QED
    BY <1>1, <1>2, <1>3, <1>4, <1>5, <1>6, <1>7, <1>8

LEMMA EvictStep ==
    ASSUME Inv, TypeOK', Evict
    PROVE  Inv'
  BY DEF Inv, Evict, LocalsScoped, RespBudget, CacheHasKeys, CacheCovers, Elected,
     SentinelCoversElected, ElectionsSpaced, OwnerInFlight, OwnRefreshOutlivesSentinel

LEMMA CrashStep ==
    ASSUME Inv, TypeOK', NEW dead \in SUBSET Requests, Abandon(dead),
           UNCHANGED <<cache, lockLeft, outcome>>
    PROVE  Inv'
  <1> USE TimingAssumption DEF Inv, TypeOK, Phases, Abandon
  <1>1. LocalsScoped'
    BY DEF LocalsScoped
  <1>2. RespBudget' /\ CacheHasKeys' /\ OwnRefreshOutlivesSentinel'
    BY DEF RespBudget, CacheHasKeys, OwnRefreshOutlivesSentinel
  <1>3. CacheCovers'
    BY DEF CacheCovers, Covers, Elected, Unexpired, Dated
  <1>4. SentinelCoversElected' /\ ElectionsSpaced'
    BY DEF SentinelCoversElected, ElectionsSpaced, Elected
  <1>5. OwnerInFlight'
    BY NoneAssumption DEF OwnerInFlight
  <1> QED
    BY <1>1, <1>2, <1>3, <1>4, <1>5

LEMMA RestartStep ==
    ASSUME Inv, TypeOK', Restart
    PROVE  Inv'
  <1> USE TimingAssumption DEF Inv, TypeOK, Phases, Restart, Abandon
  <1>1. LocalsScoped' /\ RespBudget' /\ CacheHasKeys' /\ OwnRefreshOutlivesSentinel'
    BY DEF LocalsScoped, RespBudget, CacheHasKeys, OwnRefreshOutlivesSentinel
  <1>2. CacheCovers' /\ SentinelCoversElected' /\ ElectionsSpaced'
    BY DEF CacheCovers, Elected, Unexpired, Dated, SentinelCoversElected, ElectionsSpaced
  <1>3. OwnerInFlight'
    BY NoneAssumption DEF OwnerInFlight
  <1> QED
    BY <1>1, <1>2, <1>3

LEMMA FinishStep ==
    ASSUME Inv, TypeOK', NEW q \in Requests, Finish(q)
    PROVE  Inv'
  <1> USE DEF Inv, TypeOK, Phases, Finish
  <1>1. LocalsScoped'
    BY DEF LocalsScoped
  <1>2. RespBudget' /\ CacheHasKeys' /\ OwnRefreshOutlivesSentinel'
    BY DEF RespBudget, CacheHasKeys, OwnRefreshOutlivesSentinel
  <1>3. CacheCovers'
    BY DEF CacheCovers, Covers, Elected
  <1>4. SentinelCoversElected' /\ ElectionsSpaced'
    BY DEF SentinelCoversElected, ElectionsSpaced, Elected
  <1>5. OwnerInFlight'
    BY NoneAssumption DEF OwnerInFlight
  <1> QED
    BY <1>1, <1>2, <1>3, <1>4, <1>5

LEMMA InvStep == Inv /\ [Next]_vars => Inv'
<1> SUFFICES ASSUME Inv, [Next]_vars PROVE Inv'
  OBVIOUS
<1>0. TypeOK'
  BY TypeStep DEF Inv
<1>1. ASSUME NEW q \in Requests, ReadCredentials(q) PROVE Inv'
  BY <1>1, <1>0, ReadStep
<1>2. ASSUME NEW q \in Requests, AnswerFresh(q) \/ AnswerCached(q) PROVE Inv'
  <2>1. /\ phase[q] = "read" /\ Unexpired(seen[q]) /\ owner # q
        /\ Return(q, "authorized") /\ UNCHANGED <<cache, lockLeft, owner, outcome>>
    <3>1. owner # q
      BY <1>2, NoneAssumption DEF AnswerFresh, AnswerCached, Inv, OwnerInFlight
    <3>2. Fresh(seen[q]) => Unexpired(seen[q])
      BY <1>2, TimingAssumption DEF AnswerFresh, AnswerCached, Inv, TypeOK, Fresh, Unexpired,
         Dated, Credentials
    <3> QED
      BY <1>2, <3>1, <3>2 DEF AnswerFresh, AnswerCached, InMargin
  <2>2. Evicts \/ cache # None
    BY <2>1 DEF Inv, CacheCovers, Covers
  <2> QED
    BY <2>1, <2>2, <1>0, ReturnStep
<1>3. ASSUME NEW q \in Requests, ElectRefresher(q) PROVE Inv'
  BY <1>3, <1>0, ElectStep
<1>4. ASSUME NEW q \in Requests, RefreshUnconditionally(q) PROVE Inv'
  BY <1>4, <1>0, UnconditionalStep
<1>5. ASSUME NEW q \in Requests, ProviderIssues(q) PROVE Inv'
  BY <1>5, <1>0, IssueStep
<1>6. ASSUME NEW q \in Requests, FetchSucceeds(q) PROVE Inv'
  BY <1>6, <1>0, SucceedStep
<1>7. ASSUME NEW q \in Requests, FetchFails(q) PROVE Inv'
  <2>1. FailureAnswer(q) = "authorized" => Evicts \/ cache # None
    BY <1>7 DEF FetchFails, FailureAnswer, Inv, CacheCovers, Covers, Elected
  <2> QED
    BY <1>7, <2>1, <1>0, ReturnStep DEF FetchFails, FailureAnswer
<1>8. ASSUME NEW q \in Requests, Finish(q) PROVE Inv'
  BY <1>8, <1>0, FinishStep
<1>9. CASE Tick
  BY <1>9, <1>0, TickStep
<1>10. CASE Evict
  BY <1>10, <1>0, EvictStep
<1>11. CASE Restart
  BY <1>11, <1>0, RestartStep
<1>12. ASSUME NEW w \in Workers, WorkerCrash(w) PROVE Inv'
  <2> DEFINE dead == {q \in Requests : WorkerOf[q] = w}
  <2>1. Abandon(dead) /\ UNCHANGED <<cache, lockLeft, outcome>>
    BY <1>12 DEF WorkerCrash
  <2> HIDE DEF dead
  <2>2. dead \in SUBSET Requests
    BY DEF dead
  <2> QED
    BY <2>1, <2>2, <1>0, CrashStep
<1>13. CASE UNCHANGED vars
  BY <1>13 DEF vars, Inv, TypeOK, LocalsScoped, RespBudget, CacheHasKeys, CacheCovers, Covers,
     Elected, SentinelCoversElected, ElectionsSpaced, OwnerInFlight, OwnRefreshOutlivesSentinel
<1> QED
  BY <1>1, <1>2, <1>3, <1>4, <1>5, <1>6, <1>7, <1>8, <1>9, <1>10, <1>11, <1>12, <1>13
     DEF Next, FetchCredentials, Environment

(* The conjuncts of Inv support one another; each of the properties below  *)
(* follows from some of them.                                              *)
THEOREM Invariance == Spec => []Inv
  <1>1. Init => Inv
    BY TimingAssumption DEF Init, Inv, TypeOK, Phases, LocalsScoped, RespBudget, CacheHasKeys,
       CacheCovers, Elected, SentinelCoversElected, ElectionsSpaced, OwnerInFlight,
       OwnRefreshOutlivesSentinel
  <1> QED
    BY <1>1, InvStep, PTL DEF Spec
-----------------------------------------------------------------------------
(* At most one request is elected to refresh per lifetime of the sentinel: *)
(* the add() in _tryAcquireCredentialRefreshLock is a single flight.       *)
THEOREM SingleFlight == Spec => []ElectionsSpaced
  <1>1. Inv => ElectionsSpaced
    BY DEF Inv
  <1> QED
    BY <1>1, Invariance, PTL

(* The sentinel of a refresh that succeeded never holds back a refresh     *)
(* that what it wrote makes necessary.                                     *)
THEOREM SentinelHarmless == Spec => []OwnSentinelNeverGates
  <1>1. Inv => OwnSentinelNeverGates
    BY TimingAssumption DEF Inv, TypeOK, OwnRefreshOutlivesSentinel, OwnSentinelNeverGates,
       InMargin, Unexpired, Fresh, Dated, Credentials
  <1> QED
    BY <1>1, Invariance, PTL

(* On OSS a request that passed the credential check finds credentials.    *)
THEOREM CheckedMeansCached == Spec => []NoEmptyReadAfterCheck
  <1>1. Inv => NoEmptyReadAfterCheck
    BY DEF Inv, CacheCovers, NoEmptyReadAfterCheck
  <1> QED
    BY <1>1, Invariance, PTL

(* A request answered 200 by fetchCredentials leaves usable, unexpired     *)
(* credentials in the cache, however slow the refreshes that raced it.     *)
THEOREM AuthorizedUsable == Spec => AuthorizedMeansUsable
  <1> DEFINE Good(q) == phase[q] # "authorized" /\ phase'[q] = "authorized" => Usable(cache')
  <1>1. ASSUME Inv, Next, NEW q \in Requests, phase[q] # "authorized", phase'[q] = "authorized"
        PROVE  Usable(cache')
    <2> USE <1>1, TimingAssumption DEF Inv, TypeOK, Phases
    <2>1. CASE AnswerFresh(q) \/ AnswerCached(q)
      <3>1. phase[q] = "read" /\ Unexpired(seen[q]) /\ seen[q].left > 0 /\ cache' = cache
        BY <2>1 DEF AnswerFresh, AnswerCached, Fresh, InMargin, Unexpired, Dated, Credentials
      <3>2. (cache = None /\ Evicts) \/ Covers(seen[q].left, MaxFetch)
        BY <3>1 DEF CacheCovers
      <3> QED
        BY <3>1, <3>2 DEF Covers, Usable, CacheHasKeys, Writable, Unexpired, Dated, Credentials
    <2>2. CASE FetchSucceeds(q)
      BY <2>2, NoneAssumption DEF FetchSucceeds, Usable, Writable, RespBudget, Credentials
    <2>3. CASE FetchFails(q)
      <3>1. Elected(q) /\ cache' = cache
        BY <2>3 DEF FetchFails, FailureAnswer, Return, Elected
      <3>2. (cache = None /\ Evicts) \/ Covers(deadline[q], fetchLeft[q])
        BY <3>1 DEF CacheCovers
      <3> QED
        BY <3>1, <3>2 DEF Covers, Usable, CacheHasKeys, Writable, Elected, Credentials
    <2>4. AnswerFresh(q) \/ AnswerCached(q) \/ FetchSucceeds(q) \/ FetchFails(q)
      BY <1>1 DEF Next, FetchCredentials, ReadCredentials, AnswerFresh, AnswerCached,
         ElectRefresher, StartFetch, RefreshUnconditionally, ProviderIssues, FetchSucceeds,
         FetchFails, Return, Finish, Environment, Tick, Evict, Restart, WorkerCrash, Abandon
    <2> QED
      BY <2>1, <2>2, <2>3, <2>4
  <1>2. Inv /\ [Next]_vars => [\A q \in Requests : Good(q)]_vars
    BY <1>1
  <1> QED
    BY <1>2, Invariance, PTL DEF Spec, AuthorizedMeansUsable

----------------------------------------------------------------------------
(***************************************************************************)
(* RequestSigning: header building beside the cache protocol.              *)
(***************************************************************************)
(* Each step of the composition is a step of CredentialCache or leaves     *)
(* its variables alone.                                                    *)
LEMMA StepSimulation == [SigningNext]_allVars => [Next]_vars
  BY DEF SigningNext, allVars, vars, Next, FetchCredentials, Environment, Decide,
     Authorize, Begin, SetAwsDate, S3auth, S3authThrows, SessionToken, Complete, TimePasses, Midnight,
     EvictCredentials, EvictSigningKey, Crash, RestartAll

(* Signing leaves the variables of the cache alone, so what is proved of   *)
(* CredentialCache may be cited of the composition.                        *)
LEMMA SigningImplementsCache == SigningSpec => Spec
  <1>1. SigningInit => Init
    BY DEF SigningInit
  <1> QED
    BY <1>1, StepSimulation, PTL DEF SigningSpec, Spec

(* The types of the header-building state, given those of the cache.       *)
HeaderTypes ==
    /\ today \in 0..MaxDay
    /\ now \in [Requests -> 0..MaxDay]
    /\ stage \in [Requests -> {"unsigned", "begun", "dated", "signed", "sent", "refused"}]
    /\ amzDate \in [Requests -> 0..MaxDay]
    /\ s3auth \in [Requests -> AuthHeaders \union {None}]
    /\ sessionToken \in [Requests -> Keys \union {None}]
    /\ signingKey \in Entries \union {None}

LEMMA SignatureTyped ==
    ASSUME TypeOK, HeaderTypes, cache # None, NEW q \in Requests
    PROVE  /\ SignatureV4(cache.key, now[q]) \in AuthHeaders
           /\ [key |-> cache.key, date |-> now[q], hash |-> SigningKeyHash(cache.key, now[q])]
                \in Entries
  <1> DEFINE k == cache.key
             d == now[q]
             c == CanonicalRequest(k, d)
             h == SigningKeyHash(k, d)
  <1>1. k \in Keys /\ d \in 0..MaxDay
    BY DEF TypeOK, Credentials, HeaderTypes
  <1>2. h \in SigningKeys
    <2>1. Derive(k, d) \in SigningKeys
      BY <1>1 DEF Derive, SigningKeys
    <2>2. CacheIsValid(k, d) => signingKey.hash \in SigningKeys
      BY DEF CacheIsValid, Entries, HeaderTypes
    <2> QED
      BY <2>1, <2>2 DEF SigningKeyHash
  <1>3. c \in SignedHeaders
    BY <1>1 DEF CanonicalRequest, SignedHeaders
  <1>4. SignatureV4(k, d) = [key |-> k, date |-> d, signed |-> c, signedWith |-> h]
    BY DEF SignatureV4
  <1> HIDE DEF k, d, c, h
  <1>5. /\ [key |-> k, date |-> d, signed |-> c, signedWith |-> h] \in AuthHeaders
        /\ [key |-> k, date |-> d, hash |-> h] \in Entries
    BY <1>1, <1>2, <1>3 DEF AuthHeaders, Entries
  <1> QED
    BY <1>4, <1>5 DEF k, d, h

LEMMA HeaderTypesStep ==
    ASSUME TypeOK, HeaderTypes, [SigningNext]_allVars
    PROVE  HeaderTypes'
  <1> USE SigningAssumption DEF HeaderTypes
  <1>1. ASSUME NEW q \in Requests, Begin(q) \/ SetAwsDate(q) PROVE HeaderTypes'
    BY <1>1 DEF Begin, SetAwsDate, AwsHeaderDate
  <1>2. ASSUME NEW q \in Requests, Authorize(q) PROVE HeaderTypes'
    BY <1>2 DEF Authorize, signingVars
  <1>3. ASSUME NEW q \in Requests, S3auth(q) PROVE HeaderTypes'
    <2> DEFINE k == cache.key
               d == now[q]
               a == SignatureV4(k, d)
               e == [key |-> k, date |-> d, hash |-> SigningKeyHash(k, d)]
    <2>1. cache # None
      BY <1>3 DEF S3auth
    <2>2. a \in AuthHeaders /\ e \in Entries
      BY <2>1, SignatureTyped
    <2>3. /\ s3auth' = [s3auth EXCEPT ![q] = a]
          /\ signingKey' = IF SigningCache THEN e ELSE signingKey
          /\ stage' = [stage EXCEPT ![q] = "signed"]
          /\ UNCHANGED <<today, now, amzDate, sessionToken>>
      BY <1>3 DEF S3auth
    <2> HIDE DEF a, e
    <2> QED
      BY <2>2, <2>3
  <1>4. ASSUME NEW q \in Requests, S3authThrows(q) PROVE HeaderTypes'
    BY <1>4 DEF S3authThrows
  <1>5. ASSUME NEW q \in Requests, SessionToken(q) PROVE HeaderTypes'
    <2>1. (IF cache = None THEN None ELSE cache.key) \in Keys \union {None}
      BY DEF TypeOK, Credentials
    <2> QED
      BY <1>5, <2>1 DEF SessionToken
  <1>6. ASSUME NEW q \in Requests, Complete(q) PROVE HeaderTypes'
    BY <1>6 DEF Complete, Forget
  <1>7. CASE TimePasses \/ EvictCredentials
    BY <1>7 DEF TimePasses, EvictCredentials, signingVars
  <1>8. CASE Midnight \/ EvictSigningKey
    BY <1>8 DEF Midnight, EvictSigningKey
  <1>9. ASSUME NEW w \in Workers, Crash(w) PROVE HeaderTypes'
    BY <1>9 DEF Crash, Forget
  <1>10. CASE RestartAll
    BY <1>10 DEF RestartAll, Forget
  <1>11. CASE UNCHANGED allVars
    BY <1>11 DEF allVars, signingVars
  <1> QED
    BY <1>1, <1>2, <1>3, <1>4, <1>5, <1>6, <1>7, <1>8, <1>9, <1>10, <1>11 DEF SigningNext

(* Every variable of the composition keeps its type.                       *)
THEOREM SigningTypeCorrect == SigningSpec => []SigningTypeOK
  <1>1. SigningInit => HeaderTypes
    BY SigningAssumption DEF SigningInit, HeaderTypes
  <1>2. TypeOK /\ HeaderTypes => SigningTypeOK
    BY DEF HeaderTypes, SigningTypeOK
  <1>3. TypeOK /\ HeaderTypes /\ [SigningNext]_allVars => HeaderTypes'
    BY HeaderTypesStep
  <1> QED
    BY <1>1, <1>2, <1>3, SigningImplementsCache, TypeCorrect, PTL DEF SigningSpec
-----------------------------------------------------------------------------
SigningInv == EntrySound /\ SignedWithItsOwnKey

LEMMA SignStep ==
    ASSUME SigningInv, s3auth \in [Requests -> AuthHeaders \union {None}],
           NEW q \in Requests, S3auth(q)
    PROVE  SigningInv'
  <1> DEFINE k == cache.key
             d == now[q]
             c == CanonicalRequest(k, d)
             h == SigningKeyHash(k, d)
  <1>1. h = Derive(k, d)
    BY DEF SigningKeyHash, CacheIsValid, SigningInv, EntrySound
  <1>2. /\ s3auth' = [s3auth EXCEPT ![q] = [key |-> k, date |-> d, signed |-> c, signedWith |-> h]]
        /\ signingKey' = IF SigningCache THEN [key |-> k, date |-> d, hash |-> h] ELSE signingKey
    BY DEF S3auth, SignatureV4
  <1> HIDE DEF k, d, c, h
  <1>3. EntrySound'
    BY <1>1, <1>2 DEF SigningInv, EntrySound, Derive
  <1>4. SignedWithItsOwnKey'
    BY <1>1, <1>2 DEF SigningInv, SignedWithItsOwnKey, Derive
  <1> QED
    BY <1>3, <1>4 DEF SigningInv

LEMMA SigningInvStep ==
    ASSUME SigningInv, SigningTypeOK, [SigningNext]_allVars
    PROVE  SigningInv'
  <1> USE DEF SigningInv, EntrySound, SignedWithItsOwnKey
  <1>1. ASSUME NEW q \in Requests,
                      \/ Authorize(q) \/ Begin(q) \/ SetAwsDate(q)
                      \/ S3authThrows(q) \/ SessionToken(q)
        PROVE  SigningInv'
    BY <1>1 DEF Authorize, Begin, SetAwsDate, signingVars, S3authThrows, SessionToken
  <1>2. ASSUME NEW q \in Requests, S3auth(q) PROVE SigningInv'
    BY <1>2, SignStep DEF SigningTypeOK
  <1>3. ASSUME NEW q \in Requests, Complete(q) PROVE SigningInv'
    BY <1>3 DEF Complete, Forget
  <1>4. CASE TimePasses \/ Midnight \/ EvictCredentials \/ EvictSigningKey
    BY <1>4 DEF TimePasses, Midnight, EvictCredentials, EvictSigningKey, signingVars
  <1>5. ASSUME NEW w \in Workers, Crash(w) PROVE SigningInv'
    BY <1>5 DEF Crash, Forget
  <1>6. CASE RestartAll
    BY <1>6 DEF RestartAll, Forget
  <1>7. CASE UNCHANGED allVars
    BY <1>7 DEF allVars, signingVars
  <1> QED
    BY <1>1, <1>2, <1>3, <1>4, <1>5, <1>6, <1>7 DEF SigningNext

(* The signing key cache never signs with a key that is not the one its    *)
(* request's credentials and date derive.                                  *)
THEOREM SigningCacheInvisible == SigningSpec => []SignedWithItsOwnKey
  <1>1. SigningInit => SigningInv
    BY DEF SigningInit, SigningInv, EntrySound, SignedWithItsOwnKey
  <1>2. SigningInv /\ SigningTypeOK /\ [SigningNext]_allVars => SigningInv'
    BY SigningInvStep
  <1>3. SigningInv => SignedWithItsOwnKey
    BY DEF SigningInv
  <1> QED
    BY <1>1, <1>2, <1>3, SigningTypeCorrect, PTL DEF SigningSpec

(* Headers are built only for requests the credential check let through.   *)
BuiltWhenAuthorized ==
    \A q \in Requests : stage[q] # "unsigned" => phase[q] = "authorized"

LEMMA BuiltWhenAuthorizedStep ==
    ASSUME SigningTypeOK, BuiltWhenAuthorized, [SigningNext]_allVars
    PROVE  BuiltWhenAuthorized'
  <1> USE DEF BuiltWhenAuthorized, SigningTypeOK, TypeOK
  <1>1. ASSUME NEW q \in Requests, Authorize(q) PROVE BuiltWhenAuthorized'
    <2>1. CASE ReadCredentials(q) \/ ProviderIssues(q)
      BY <1>1, <2>1 DEF Authorize, signingVars, ReadCredentials, ProviderIssues
    <2>2. CASE Decide(q)
      BY <1>1, <2>2 DEF Authorize, signingVars, Decide, AnswerFresh, AnswerCached, ElectRefresher,
         RefreshUnconditionally, StartFetch, Return
    <2>3. CASE FetchSucceeds(q) \/ FetchFails(q)
      BY <1>1, <2>3 DEF Authorize, signingVars, FetchSucceeds, FetchFails, Return
    <2> QED
      BY <1>1, <2>1, <2>2, <2>3 DEF Authorize
  <1>2. ASSUME NEW q \in Requests,
               Begin(q) \/ SetAwsDate(q) \/ S3auth(q) \/ S3authThrows(q) \/ SessionToken(q)
        PROVE  BuiltWhenAuthorized'
    BY <1>2 DEF Begin, SetAwsDate, S3auth, S3authThrows, SessionToken, vars
  <1>3. ASSUME NEW q \in Requests, Complete(q) PROVE BuiltWhenAuthorized'
    BY <1>3 DEF Complete, Finish, Forget
  <1>4. CASE TimePasses \/ Midnight \/ EvictCredentials \/ EvictSigningKey
    BY <1>4 DEF TimePasses, Tick, Midnight, EvictCredentials, Evict, EvictSigningKey,
       signingVars, vars
  <1>5. ASSUME NEW w \in Workers, Crash(w) PROVE BuiltWhenAuthorized'
    BY <1>5 DEF Crash, WorkerCrash, Abandon, Forget
  <1>6. CASE RestartAll \/ UNCHANGED allVars
    BY <1>6 DEF RestartAll, Restart, Abandon, Forget, allVars, vars, signingVars
  <1> QED
    BY <1>1, <1>2, <1>3, <1>4, <1>5, <1>6 DEF SigningNext

\* Headers are built only for requests that fetchCredentials has answered with 200
\* (auth_request in default.conf.template).
THEOREM OnlyAuthorizedAreBuilt == SigningSpec => []BuiltWhenAuthorized
  <1>1. SigningInit => BuiltWhenAuthorized
    BY DEF SigningInit, BuiltWhenAuthorized
  <1>2. SigningTypeOK /\ BuiltWhenAuthorized /\ [SigningNext]_allVars => BuiltWhenAuthorized'
    BY BuiltWhenAuthorizedStep
  <1> QED
    BY <1>1, <1>2, SigningTypeCorrect, PTL DEF SigningSpec

(* On OSS s3auth never throws for want of credentials.                     *)
THEOREM SignerFindsCredentials == SigningSpec => []NeverUnavailable
  <1>1. SigningInit => NeverUnavailable
    BY DEF SigningInit, NeverUnavailable
  <1>2. NeverUnavailable /\ SigningTypeOK /\ BuiltWhenAuthorized /\ NoEmptyReadAfterCheck /\ [SigningNext]_allVars
          => NeverUnavailable'
    <2> SUFFICES ASSUME NeverUnavailable, SigningTypeOK, BuiltWhenAuthorized,
                        NoEmptyReadAfterCheck, [SigningNext]_allVars
                 PROVE  NeverUnavailable'
      OBVIOUS
    <2> USE DEF NeverUnavailable, SigningTypeOK
    <2>1. ASSUME NEW q \in Requests, S3authThrows(q) PROVE NeverUnavailable'
      BY <2>1 DEF S3authThrows, BuiltWhenAuthorized, NoEmptyReadAfterCheck
    <2>2. ASSUME NEW q \in Requests,
                 \/ Authorize(q) \/ Begin(q) \/ SetAwsDate(q)
                 \/ S3auth(q) \/ SessionToken(q) \/ Complete(q)
          PROVE  NeverUnavailable'
      BY <2>2 DEF Authorize, Begin, SetAwsDate, S3auth, SessionToken, Complete, Forget, signingVars
    <2>3. CASE TimePasses \/ Midnight \/ EvictCredentials \/ EvictSigningKey
      BY <2>3 DEF TimePasses, Midnight, EvictCredentials, EvictSigningKey, signingVars
    <2>4. ASSUME NEW w \in Workers, Crash(w) PROVE NeverUnavailable'
      BY <2>4 DEF Crash, Forget
    <2>5. CASE RestartAll \/ UNCHANGED allVars
      BY <2>5 DEF RestartAll, Forget, allVars, signingVars
    <2> QED
      BY <2>1, <2>2, <2>3, <2>4, <2>5 DEF SigningNext
  <1> QED
    BY <1>1, <1>2, SigningTypeCorrect, OnlyAuthorizedAreBuilt, SigningImplementsCache,
       CheckedMeansCached, PTL
       DEF SigningSpec
-----------------------------------------------------------------------------
(* What becomes of the headers of one request while they are built.        *)
AsSigned(q) ==
    /\ stage[q] \in {"dated", "signed", "sent"} => amzDate[q] = now[q]
    /\ stage[q] \in {"signed", "sent"} =>
          /\ s3auth[q] # None
          /\ s3auth[q].date = now[q] /\ s3auth[q].signed.amzDate = now[q]
    /\ stage[q] = "signed" =>
          IF cache = None THEN Evicts ELSE cache.key = s3auth[q].signed.token
    /\ stage[q] = "sent" => \/ sessionToken[q] = s3auth[q].signed.token
                            \/ Evicts /\ sessionToken[q] = None

OneWorker == \A p, q \in Requests : WorkerOf[p] = WorkerOf[q]

(* With one worker nothing is written to the cache between the signature   *)
(* and the token of a request: the writer would have to be that worker.    *)
LEMMA CacheHeld ==
    ASSUME OneWorker, SigningTypeOK, BuiltWhenAuthorized, NEW q \in Requests,
           stage[q] = "signed", [SigningNext]_allVars
    PROVE  \/ cache' = cache
           \/ Evicts /\ cache' = None
           \/ stage' = [p \in Requests |-> "unsigned"]
  <1>1. ASSUME NEW p \in Requests, Authorize(p) PROVE cache' = cache
    <2>1. ~FetchSucceeds(p)
      BY <1>1 DEF Authorize, HeaderTurn, BuildingHeaders, FetchSucceeds, OneWorker,
         BuiltWhenAuthorized
    <2> QED
      BY <1>1, <2>1 DEF Authorize, Decide, ReadCredentials, AnswerFresh, AnswerCached,
         ElectRefresher, RefreshUnconditionally, StartFetch, ProviderIssues, FetchFails
  <1>2. ASSUME NEW p \in Requests,
               \/ Begin(p) \/ SetAwsDate(p) \/ S3auth(p)
               \/ S3authThrows(p) \/ SessionToken(p) \/ Complete(p)
        PROVE  cache' = cache
    BY <1>2 DEF Begin, SetAwsDate, S3auth, S3authThrows, SessionToken, Complete, Finish, vars
  <1>3. ~TimePasses
    BY DEF TimePasses, BuildingHeaders
  <1>4. CASE Midnight \/ EvictCredentials \/ EvictSigningKey
    BY <1>4 DEF Midnight, EvictCredentials, Evict, EvictSigningKey, vars
  <1>5. ASSUME NEW w \in Workers, Crash(w) PROVE cache' = cache
    BY <1>5 DEF Crash, WorkerCrash
  <1>6. CASE RestartAll
    BY <1>6 DEF RestartAll, Forget
  <1>7. CASE UNCHANGED allVars
    BY <1>7 DEF allVars, vars
  <1> QED
    BY <1>1, <1>2, <1>3, <1>4, <1>5, <1>6, <1>7 DEF SigningNext

LEMMA AsSignedStep ==
    ASSUME OneWorker, SigningTypeOK, BuiltWhenAuthorized, NEW q \in Requests,
           AsSigned(q), [SigningNext]_allVars
    PROVE  AsSigned(q)'
  <1>0. stage[q] = "signed" =>
          \/ cache' = cache
          \/ Evicts /\ cache' = None
          \/ stage' = [p \in Requests |-> "unsigned"]
    <2> HAVE stage[q] = "signed"
    <2> QED
      BY CacheHeld
  <1>a. HeaderTypes /\ HeaderTypes'
    BY HeaderTypesStep DEF SigningTypeOK, HeaderTypes
  <1> USE DEF AsSigned, SigningTypeOK
  <1>1. CASE UNCHANGED signingVars
    BY <1>0, <1>1 DEF signingVars
  <1>2. CASE Midnight \/ EvictSigningKey
    BY <1>2 DEF Midnight, EvictSigningKey, vars
  <1>3. ASSUME NEW p \in Requests, p # q,
               Begin(p) \/ SetAwsDate(p) \/ S3authThrows(p) \/ SessionToken(p)
        PROVE  AsSigned(q)'
    BY <1>3 DEF Begin, SetAwsDate, S3authThrows, SessionToken, vars
  <1>4. CASE Begin(q) \/ SetAwsDate(q) \/ S3authThrows(q)
    BY <1>4 DEF Begin, SetAwsDate, AwsHeaderDate, S3authThrows, vars
  <1>5. CASE SessionToken(q)
    BY <1>5 DEF SessionToken, vars
  <1>6. ASSUME NEW p \in Requests, S3auth(p) PROVE AsSigned(q)'
    <2> DEFINE a == SignatureV4(cache.key, now[p])
    <2>1. /\ s3auth' = [s3auth EXCEPT ![p] = a]
          /\ stage' = [stage EXCEPT ![p] = "signed"]
          /\ stage[p] = "dated" /\ cache # None
          /\ UNCHANGED <<cache, now, amzDate, sessionToken>>
      BY <1>6 DEF S3auth, vars
    <2>2. a.date = now[p] /\ a.signed.amzDate = now[p] /\ a.signed.token = cache.key
      BY DEF SignatureV4, CanonicalRequest
    <2>3. a # None
      BY <2>1, SignatureTyped, <1>a, NoneSigningAssumption
    <2> HIDE DEF a
    <2> QED
      BY <2>1, <2>2, <2>3
  <1>7. ASSUME NEW p \in Requests, Complete(p) PROVE AsSigned(q)'
    BY <1>7 DEF Complete, Finish, Forget
  <1>8. ASSUME NEW w \in Workers, Crash(w) PROVE AsSigned(q)'
    BY <1>8 DEF Crash, WorkerCrash, Forget
  <1>9. CASE RestartAll
    BY <1>9 DEF RestartAll, Forget
  <1> QED
    BY <1>1, <1>2, <1>3, <1>4, <1>5, <1>6, <1>7, <1>8, <1>9
       DEF SigningNext, Authorize, TimePasses, EvictCredentials, allVars, signingVars

(* With one worker what is sent is what was signed, for any number of      *)
(* requests and refreshes, and over any number of midnights.               *)
THEOREM OneWorkerSendsAsSigned ==
    ASSUME OneWorker PROVE SigningSpec => []SentAsSigned
  <1> DEFINE All == \A q \in Requests : AsSigned(q)
  <1>1. SigningInit => All
    BY DEF SigningInit, AsSigned
  <1>2. SigningTypeOK /\ BuiltWhenAuthorized /\ All /\ [SigningNext]_allVars => All'
    BY AsSignedStep
  <1>3. All => SentAsSigned
    BY DEF AsSigned, SentAsSigned
  <1> HIDE DEF All
  <1> QED
    BY <1>1, <1>2, <1>3, SigningTypeCorrect, OnlyAuthorizedAreBuilt, PTL DEF SigningSpec
=============================================================================

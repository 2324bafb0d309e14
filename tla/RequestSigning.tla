--------------------------- MODULE RequestSigning ----------------------------
(***************************************************************************)
(* What happens to a request after fetchCredentials answered 200.  In the  *)
(* location that proxies it the first JavaScript variable starts its njs   *)
(* VM; when the proxy cache lets it go on, nginx builds the upstream       *)
(* headers, evaluating in turn $awsDate, $s3auth (s3gateway.s3auth, the V4 *)
(* signer of awssig4.js and, on Plus, its signing key cache) and           *)
(* $awsSessionToken (awscredentials.sessionToken).  The last two read the  *)
(* shared credential cache, each for itself.  Composes with                *)
(* CredentialCache, whose refreshes go on meanwhile on this and other      *)
(* workers.                                                                *)
(*                                                                         *)
(* A derived signing key is represented by what it was derived from: the   *)
(* access key id, which stands for its secret, and the UTC date.           *)
(***************************************************************************)
EXTENDS CredentialCache

CONSTANTS
    SigningCache,   \* cache_signing_key_enabled (Plus only)
    MaxDay          \* bound on the number of midnights

ASSUME SigningAssumption == SigningCache \in BOOLEAN /\ MaxDay \in Nat

SigningKeys == [key : Keys, date : 0..MaxDay]

(* An entry of the signing key cache: its validity token, and the key.     *)
Entries == [key : Keys, date : 0..MaxDay, hash : SigningKeys]

(* Of a canonical request: the headers S3 will read it from again.         *)
SignedHeaders == [amzDate : 0..MaxDay, token : Keys]

(* An Authorization header: the credential scope, and of its signature     *)
(* what was signed and with which key.                                     *)
AuthHeaders ==
    [key : Keys, date : 0..MaxDay, signed : SignedHeaders, signedWith : SigningKeys]

ASSUME NoneSigningAssumption == None \notin Entries /\ None \notin AuthHeaders /\ None \notin Keys

VARIABLES
    today,          \* the UTC date
    now,            \* NOW of each request's njs VM: the date it was started
    stage,          \* how far the headers of each request are built
    amzDate,        \* $awsDate
    s3auth,         \* $s3auth
    sessionToken,   \* $awsSessionToken, by the key id it was issued with
    signingKey      \* the aws_signing_key_hash entry

signingVars == <<today, now, stage, amzDate, s3auth, sessionToken, signingKey>>
allVars == <<vars, signingVars>>

SigningTypeOK ==
    /\ TypeOK
    /\ today \in 0..MaxDay
    /\ now \in [Requests -> 0..MaxDay]
    /\ stage \in [Requests -> {"unsigned", "begun", "dated", "signed", "sent", "refused"}]
    /\ amzDate \in [Requests -> 0..MaxDay]
    /\ s3auth \in [Requests -> AuthHeaders \union {None}]
    /\ sessionToken \in [Requests -> Keys \union {None}]
    /\ signingKey \in Entries \union {None}

SigningInit ==
    /\ Init
    /\ today = 0
    /\ now = [q \in Requests |-> 0]
    /\ stage = [q \in Requests |-> "unsigned"]
    /\ amzDate = [q \in Requests |-> 0]
    /\ s3auth = [q \in Requests |-> None]
    /\ sessionToken = [q \in Requests |-> None]
    /\ signingKey = None

BuildingHeaders(q) == stage[q] \in {"dated", "signed"}

(* The headers are built in one synchronous stretch of the worker.         *)
HeaderTurn(q) ==
    \A p \in Requests \ {q} : WorkerOf[p] = WorkerOf[q] => ~BuildingHeaders(p)

-----------------------------------------------------------------------------
(* _buildSigningKeyHash                                                    *)
Derive(k, d) == [key |-> k, date |-> d]

(* Mutant: the entry bound to the date alone, as before GH-122.            *)
CacheIsValidByDate(k, d) == SigningCache /\ signingKey # None /\ signingKey.date = d

(* The entry is used only under its validity token: date and access key.   *)
CacheIsValid(k, d) ==
    SigningCache /\ signingKey # None /\ signingKey.key = k /\ signingKey.date = d

SigningKeyHash(k, d) == IF CacheIsValid(k, d) THEN signingKey.hash ELSE Derive(k, d)

(* _buildCanonicalRequest: the token is the one issued with k.  The path   *)
(* and the query it covers are left to PathRewrite.                        *)
CanonicalRequest(k, d) == [amzDate |-> d, token |-> k]

SignatureV4(k, d) ==
    [key |-> k, date |-> d, signed |-> CanonicalRequest(k, d), signedWith |-> SigningKeyHash(k, d)]

(* The internal redirect to the proxying location discarded the VM of the  *)
(* request; $s3uri, the first variable there, starts a new one.  What the  *)
(* proxy cache makes the request wait for comes after it.                  *)
Begin(q) ==
    /\ phase[q] = "authorized" /\ stage[q] = "unsigned"
    /\ Turn(q) /\ HeaderTurn(q)
    /\ now' = [now EXCEPT ![q] = today]
    /\ stage' = [stage EXCEPT ![q] = "begun"]
    /\ UNCHANGED <<vars, today, amzDate, s3auth, sessionToken, signingKey>>

(* Mutant: a clock read where the frozen one has to be.                    *)
AwsHeaderDateLive(q) == today

AwsHeaderDate(q) == now[q]

SetAwsDate(q) ==
    /\ stage[q] = "begun"
    /\ Turn(q) /\ HeaderTurn(q)
    /\ amzDate' = [amzDate EXCEPT ![q] = AwsHeaderDate(q)]
    /\ stage' = [stage EXCEPT ![q] = "dated"]
    /\ UNCHANGED <<vars, today, now, s3auth, sessionToken, signingKey>>

(* s3auth with credentials at hand: sign, and renew the signing key entry. *)
S3auth(q) ==
    /\ stage[q] = "dated" /\ cache # None
    /\ LET k == cache.key
           d == now[q]
       IN  /\ s3auth' = [s3auth EXCEPT ![q] = SignatureV4(k, d)]
           /\ signingKey' = IF SigningCache
                            THEN [key |-> k, date |-> d, hash |-> SigningKeyHash(k, d)]
                            ELSE signingKey
    /\ stage' = [stage EXCEPT ![q] = "signed"]
    /\ UNCHANGED <<vars, today, now, amzDate, sessionToken>>

(* "AWS credentials are unavailable": s3auth throws and the request fails. *)
S3authThrows(q) ==
    /\ stage[q] = "dated" /\ cache = None
    /\ stage' = [stage EXCEPT ![q] = "refused"]
    /\ UNCHANGED <<vars, today, now, amzDate, s3auth, sessionToken, signingKey>>

(* sessionToken tolerates a missing entry.                                 *)
SessionToken(q) ==
    /\ stage[q] = "signed"
    /\ sessionToken' = [sessionToken EXCEPT ![q] = IF cache = None THEN None ELSE cache.key]
    /\ stage' = [stage EXCEPT ![q] = "sent"]
    /\ UNCHANGED <<vars, today, now, amzDate, s3auth, signingKey>>

Forget(done) ==
    /\ now' = [q \in Requests |-> IF q \in done THEN 0 ELSE now[q]]
    /\ stage' = [q \in Requests |-> IF q \in done THEN "unsigned" ELSE stage[q]]
    /\ amzDate' = [q \in Requests |-> IF q \in done THEN 0 ELSE amzDate[q]]
    /\ s3auth' = [q \in Requests |-> IF q \in done THEN None ELSE s3auth[q]]
    /\ sessionToken' = [q \in Requests |-> IF q \in done THEN None ELSE sessionToken[q]]
    /\ UNCHANGED today

Complete(q) ==
    /\ phase[q] = "failed" \/ stage[q] \in {"sent", "refused"}
    /\ HeaderTurn(q)
    /\ Finish(q) /\ Forget({q}) /\ UNCHANGED signingKey
-----------------------------------------------------------------------------
(* The steps of CredentialCache, beside which headers are being built.     *)
Authorize(q) ==
    /\ HeaderTurn(q)
    /\ \/ ReadCredentials(q)
       \/ Decide(q)
       \/ ProviderIssues(q)
       \/ FetchSucceeds(q)
       \/ FetchFails(q)
    /\ UNCHANGED signingVars

TimePasses ==
    /\ \A q \in Requests : ~BuildingHeaders(q)
    /\ Tick
    /\ UNCHANGED signingVars

(* The clock runs on while JavaScript does.                                *)
Midnight ==
    /\ today < MaxDay
    /\ today' = today + 1
    /\ UNCHANGED <<vars, now, stage, amzDate, s3auth, sessionToken, signingKey>>

EvictCredentials == Evict /\ UNCHANGED signingVars

(* The Plus keyval zone drops the signing key after 24 h.                  *)
EvictSigningKey ==
    /\ signingKey # None
    /\ signingKey' = None
    /\ UNCHANGED <<vars, today, now, stage, amzDate, s3auth, sessionToken>>

Crash(w) ==
    /\ WorkerCrash(w)
    /\ Forget({q \in Requests : WorkerOf[q] = w})
    /\ UNCHANGED signingKey

RestartAll == Restart /\ Forget(Requests) /\ signingKey' = None

SigningNext ==
    \/ \E q \in Requests :
          \/ Authorize(q)
          \/ Begin(q)
          \/ SetAwsDate(q)
          \/ S3auth(q)
          \/ S3authThrows(q)
          \/ SessionToken(q)
          \/ Complete(q)
    \/ TimePasses
    \/ Midnight
    \/ EvictCredentials
    \/ EvictSigningKey
    \/ \E w \in Workers : Crash(w)
    \/ RestartAll

SigningSpec == SigningInit /\ [][SigningNext]_allVars
-----------------------------------------------------------------------------
(* PROPERTIES *)

(* The signing key cache is invisible: every request is signed with the    *)
(* key derived from the credentials and date its header names, across      *)
(* rotations within a day and across midnight (GH-122).                    *)
SignedWithItsOwnKey ==
    \A q \in Requests :
        s3auth[q] # None => s3auth[q].signedWith = Derive(s3auth[q].key, s3auth[q].date)

(* What is sent is what was signed: S3 reads date and token of a request   *)
(* from headers of their own, evaluated apart from the signature over      *)
(* them, across midnight and whatever refreshes the cache meanwhile; only  *)
(* the token may be missing, when the zone dropped the entry in between.   *)
(* A refresh on ANOTHER worker can break this; with the one worker of      *)
(* nginx.conf it cannot happen.                                            *)
SentAsSigned ==
    \A q \in Requests : stage[q] = "sent" =>
        /\ amzDate[q] = s3auth[q].signed.amzDate /\ amzDate[q] = s3auth[q].date
        /\ \/ sessionToken[q] = s3auth[q].signed.token
           \/ Evicts /\ sessionToken[q] = None

(* On OSS the signer never finds the cache empty: nothing but a restart    *)
(* takes the entry away once a request was authorized by it.               *)
NeverUnavailable == ~Evicts => \A q \in Requests : stage[q] # "refused"

(* Part of the inductive invariant: an entry holds the key its token names.*)
EntrySound ==
    signingKey # None => signingKey.hash = Derive(signingKey.key, signingKey.date)
=============================================================================

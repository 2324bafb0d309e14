# A verification of nginx-s3-gateway

The gateway is NGINX, with handlers in njs (JavaScript inside NGINX), in front of an S3
bucket. It obtains AWS credentials and keeps them fresh, decides by which internal
route a client's path is answered, signs a request for S3, and renders what comes back.
This directory models that logic in TLA+, checks it with TLC and proves every safety
property that the passing runs check with TLAPS. File names below are relative to
`src/common/etc/nginx/include/` (njs, XSL), `src/common/etc/nginx/templates/` and
`src/common/docker-entrypoint.d/`.

1. [The system](#1-the-system)
2. [The modules](#2-the-modules)
3. [The runs](#3-the-runs)
4. [Bounds](#4-bounds)
5. [Fairness](#5-fairness)
6. [What is proved](#6-what-is-proved)
7. [Where code and documentation disagree](#7-where-code-and-documentation-disagree)
8. [Assumptions and what is not modelled](#8-assumptions-and-what-is-not-modelled)
9. [Plan](#9-plan)

## 1. The system

| Component | State it keeps | Operations | What is hard | What makes it correct |
|---|---|---|---|---|
| Credential cache and refresh (`awscredentials.js`; zones in `conf.d/`) | one credential entry (njs shared dict on OSS, keyval on Plus), one refresh sentinel with a 30 s timeout, both shared by all workers; locals of each request across an `await` | `fetchCredentials`, run as `auth_request` of every proxied request; `writeCredentials`; `_tryAcquireCredentialRefreshLock` | interleavings of requests and workers, answers out of order, a refresher that dies, eviction, three time constants that have to fit | one refresher per window; no 200 without usable credentials; no refresh gated that is needed; every request answered; recovery |
| Provider fetches (`awscredentials.js`) | none; three dependent calls for the instance metadata service (IMDS), one for every other provider | `_fetchEC2RoleCredentials` and its siblings | each call can fail in many ways, some of which mean "speak version 1"; time adds up over three calls | with version 1 disabled no call of version 1; falls back only for a reason; caches only successful answers; keeps the time the cache counts on |
| Request signing (`awssig4.js`, `awssig2.js`, `s3gateway.s3auth`, `awscredentials.sessionToken`) | signing key cache (Plus); `NOW`, per njs VM | `$awsDate`, then `$s3auth`, then `$awsSessionToken` | three values of one request computed apart from a clock and a shared cache; keys cached across rotation and midnight | date and token are sent as they were signed; a cached key is the key that would be derived |
| Path rewriting (`s3gateway.js`, the map of `default.conf.template`, the links of `listing.xsl`) | none (a function of path and configuration) | `uriFullPath`, `$uri_path`, `s3uri`, `_s3DirQueryParams`, `_s3ReqParamsForSigV2/4`, `_escapeURIPath` | several computations of one path that have to agree | signed is sent; one path has one meaning; every key has a path; links lead back to their keys |
| Request routing (`default.conf.template`, `gateway/s3_location_common.conf.template`, `redirectToS3`, `loadContent`, `trailslashControl`) | per request: location, `$uri`, lazily evaluated variables, a pending loopback request | locations, named locations, `error_page`, `auth_request`, internal redirects, the index-page probe | composition: values frozen at first use, locations entered in the middle, requests to itself | checked before signed; contract with the client; no nesting; termination |
| Directory listing (`_s3DirQueryParams`, `listing.xsl`) | the marker, kept by the client in a link | one ListObjects request per page | the bucket changes between pages; markers that are not keys | nothing shown twice or skipped; the walk ends |
| List response filter (`filterListResponse`) | `$indexIsEmpty`, per request | one call per chunk of a response | chunk boundaries anywhere | an empty listing is a 404, a full one is not |
| Credential mode (`00-check-for-required-env.sh` against `fetchCredentials`) | the environment of the container | start-up check; provider ladder | two programs classify one environment, by value and by presence | they agree where the operator relies on it |
| Response header filter (`editHeaders`, `parseArray`) | none | one call per response | pieces matched anywhere in a name; what counts as a directory | the client sees what the settings allow, and nothing of the object behind a directory |
| Proxy cache and slices (`default.conf.template:162-186, 257-275`) | two caches of NGINX, kept between requests | key, bypass, stored answer | identity of a request, computed from variables that are frozen at first use | a stored answer is one the contract allows for whom it is given to |
| CORS | none | preflight, rejection, headers | - | routing part only |
| Start-up defaults and edits (`01`, `02`, `22`-`25`, `99`, `gateway_env_lib.sh`) | a template and configuration files that persist over restarts | run in order at each start | crash between two scripts, read-only file system, another kernel, another setting, certificates that vanish | nginx loads what they leave; S3 is verified or the gateway is down; IPv6 as wanted |
| Standalone installer, images, deployments, examples, tests | - | - | - | not modelled |

How they interact:

* A client request enters `location /` (or the `/index.html` location). `auth_request`
  runs **credential refresh** in a subrequest, which calls a **provider** if it has to and
  answers 200 or 500. On 200 **routing** picks a named location. Its `proxy_pass` uses
  `$s3uri` (**path rewriting**); its headers use `$s3auth` and `$awsSessionToken`
  (**signing**), which read the credential cache again.
* A directory with index pages enabled makes the gateway send a request to itself
  (`loadContent`), which takes the whole way once more; by its answer the first one is
  redirected internally to the index page, to the **listing**, or to an error.
* Before S3 is asked, the **proxy cache** may answer by a key made of `$s3uri`. Every answer
  of S3, stored or not, passes the **header filter**.
* A listing passes the **list response filter**, then the XSL stylesheet; the client's next
  request carries the marker of its link.
* All of it is configured at start by the entry-point scripts. One (**credential mode**)
  predicts which provider will be used; others edit what nginx loads (**start-up edits**).

Requests of one worker interleave at `await` only, because njs runs to completion
between; requests of several workers interleave anywhere. The container runs one worker
(`nginx.conf:2`); the standalone installer writes `worker_processes auto`.

## 2. The modules

| Module | Models | Extended or instantiated by |
|---|---|---|
| `CredentialCache` | `fetchCredentials`, sentinel, cache, workers, time | `CredentialRecovery`, `RequestSigning`; proofs in `CredentialProofs` |
| `CredentialRecovery` | the long-run property of the cache and the surroundings it needs | `MCCredentialRecovery` |
| `RequestSigning` | composes header building with `CredentialCache` | proofs in `CredentialProofs` |
| `ProviderFetch` | the calls of one walk to a provider | proofs in `ProviderFetchProofs` |
| `PathRewrite` | the path and query functions, as operators | `PathSpellings`, `ResponseHeaders`, `Gateway`; lemmas in `PathRewriteProofs` |
| `PathSpellings` | a client that types every path up to a length | proofs in `PathSpellingsProofs` |
| `ResponseHeaders` | the header filter, as operators | `RequestRouting` |
| `Gateway` | abstract: which answers a question may get | instantiated by `RequestRouting` |
| `RequestRouting` | a request through all locations, with loopback requests and the proxy cache; implements `Gateway` | proofs in `RequestRoutingProofs` |
| `DirectoryListing` | pages, links and a bucket that changes | proofs in `ListingProofs` |
| `ListResponseFilter` | the body filter, chunk by chunk | proofs in `ListingProofs` |
| `CredentialMode` | start-up check and provider ladder over one environment | proofs in `CredentialModeProofs` |
| `ContainerStart` | the scripts that edit configuration files, start after start | proofs in `ContainerStartProofs` |

Each `MC...` module gives a specification's constants their values for TLC.

### CredentialCache

A tick is 30 s. Every deadline is the number of ticks left to it, so the code's
`nowMs < expireAtMs` reads `left > 0` and `nowMs < refreshAtMs` reads `left > Margin`;
`Tick` moves all of them together. Credentials are a key id, the time left, and whether
they are complete, have no readable expiration ("undated") or lack a key ("keyless").

| Action | Code |
|---|---|
| `ReadCredentials` | `fetchCredentials` up to the read of the cache |
| `AnswerFresh`, `AnswerCached` | the early `r.return(200)`: outside the margin; inside, with the sentinel taken |
| `ElectRefresher` | inside the margin, `add()` of the sentinel succeeded |
| `RefreshUnconditionally` | nothing cached, expired, or an expiration that is not a date |
| `ProviderIssues` | the provider answers; the answer is still on its way |
| `FetchSucceeds`, `FetchFails` | after the `await`: `writeCredentials` and 200; every `catch`, and `_returnCredentialFetchFailure` |
| `Finish` | the request is answered and its slot free |
| `Tick`, `Evict`, `WorkerCrash`, `Restart` | time, the keyval timeout, a worker that dies (shared memory stays), a container that starts anew |

`Turn(q)` is the run-to-completion rule of njs within a worker. `owner` and `outcome` are
history variables: who added the sentinel, and what became of that refresh.

`Overdue` gives a call `MaxFetch` ticks to bring an answer, and an answer `MaxCall` ticks
to arrive.

### RequestSigning

| Action | Code |
|---|---|
| `Authorize` | the actions of `CredentialCache` up to the answer 200 |
| `Begin` | the proxying location: `$s3uri`, its first variable, starts a new njs VM, and `NOW` is set |
| `SetAwsDate` | `$awsDate`, from `NOW` |
| `S3auth`, `S3authThrows` | `$s3auth`: reads the cache, signs date and token, renews the signing key entry |
| `SessionToken` | `$awsSessionToken`: reads the cache again |
| `Midnight`, `EvictSigningKey`, `Crash`, `RestartAll` | the surroundings |

Each is a step of its own, because each reads the clock or a shared zone; `HeaderTurn`
says that one worker does nothing else between the last three. Between `Begin` and
`SetAwsDate` a request may wait, for instance for the lock of the proxy cache. A derived
signing key is represented by what it was derived from (access key id and date).
`SigningKeyHash` is the signing key cache with its validity token, `CanonicalRequest` what
the signature covers of the headers. All steps of `CredentialCache` go on beside.

### ProviderFetch

`calls` holds the calls of the walk with their answers: a status and what the body is to
its reader (the document, one without keys, one of another shape, nothing, not JSON or
XML). `token` says of a call whether it has the header of a session token, and whether there is
one in it. `TokenAnswered`, `RoleAnswered` and `CredentialsAnswered` are the code after each
`await`. In `CredentialCache` a whole walk is one fetch. `left`, `spent` and `age` are
clocks (of the call, the walk, the answer) that tie the two: `WithinBudget` says that a
walk lasts no longer than three calls, and what it brings is no older than one, which is
what `Overdue` of `CredentialCache` grants a fetch.

### PathRewrite, PathSpellings

A path is a sequence of tokens: a literal slash, an encoded one, and pieces of names.
`S3uri` is what is sent; `S3ReqParamsForSigV2` and `S3ReqParamsForSigV4` are what is
signed; `SignatureMatches` compares as S3 would. `PrefixLeadingDirectoryPath` and
`StripLeadingDirectoryPath` are the settings as `01-set-defaults.envsh` leaves them.
`EntryLink` and `HasParentLink` are the links `listing.xsl` renders, which the gateway has
to understand when they come back as requests.

### RequestRouting, Gateway

A request is a record: `$uri` (which an internal redirect changes), the path of
`$request_uri` (which stays), the location it is in, `$forIndexPage`, the frozen `$s3uri`,
whether its credentials were checked, what was sent, and the answer. `reqs` is a stack:
the client's request and, while it waits for one, its loopback request. Each location
has its actions; `S3Finds`, `S3Misses`, `S3Fails`, `S3Redirects`, `S3FindsNothingToList`
are S3's answers as the `error_page` of the location sees them. `stored` holds one
response in the proxy cache under its `CacheKey`: put there by `S3FindsAndStored`, given
by `FromCache` to any later request with that key, headers filtered anew. `EditHeaders`
(`ResponseHeaders`) computes the headers of every answer. `Gateway` says for each
configuration and question which answers are acceptable, in terms of the key a path
denotes; the mapping takes the bottom of the stack as question and answer.

### DirectoryListing, ListResponseFilter, CredentialMode

`DirectoryListing` has S3's rules (byte order, roll-up at the delimiter, the page after a
marker) and the gateway's (`RequestMarker`, `NextLink`, `ListMaxKeys`, `Shown`), and lets
`Change` put and delete keys between pages. `ListResponseFilter` cuts a response of tag
tokens into chunks in every way, through tags too. `CredentialMode` tries every setting
(unset, empty, value; file unset, empty, bad, good) of every variable that selects
credentials; `Announcement` and `Refused` translate the shell, `Provider` and `ReadThrows`
translate njs.

### ContainerStart

`step` names the script to run next, or how the start ended; each script is one action,
`StartNginx` reads what they left, and refuses if nothing was ever rendered: `nginx.conf:78`
includes a rendered file by name. `template` counts the IPv6 listeners of
`default.conf.template`; `conf` is what was rendered from it and the directives appended
to the three stubs. `Envsubst` (of the base image) renders `conf` anew, where it can write.
`Kill` stops anywhere, and all files stay; `Recreate` is an image committed from the
container and started with another setting or file system; `RebootHost` changes the
kernel, `ChangeCertificates` the mounted files.

## 3. The runs

| Run | Asks | Size |
|---|---|---|
| `cred_oss` | three requests on two workers, OSS: refreshers are one sentinel lifetime apart (`ElectionsSpaced`); a sentinel never gates a refresh while what its owner wrote is cached (`OwnSentinelNeverGates`); who passes the check finds an entry (`NoEmptyReadAfterCheck`); every 200 leaves usable credentials in the cache (`AuthorizedMeansUsable`); `Inv` is invariant | 0.6 M states, with symmetry |
| `cred_live` | Plus, evictions, all kinds of answers, crashes: every check is answered; in steady surroundings the cache is fresh again and again | 50 s |
| `cred_residual_sentinel` | *violated*: the claim of a comment about residual sentinels (section 7) | |
| `sign_container` | one worker, Plus, rotation, a midnight at any moment: date and token are sent as signed; the signing key cache is invisible | 118 k |
| `fetch_walk` | every provider, every class of answer to each call: with version 1 disabled no call without the header of a token, empty after one answer only (section 7); no false downgrade, only successful answers cached, a walk keeps its time, and it ends | 0.8 M |
| `paths_normalized` | every path of up to five tokens in 112 configurations: duplicate slashes and the spelling of the strip and prefix settings never matter, signed is sent, every key has a path, a probe asks for the page that is served, the links of a listing page lead to what they name | 38 k, 1 min |
| `paths_encoded_probe` | *violated*: the same for the probe with encoded slashes (section 7) | |
| `route_all` | four methods, 14 paths, 152 configurations, every answer from outside or from the cache: signed is sent although `$s3uri` is frozen early; checked before signed; no nested probes; the bucket is not read with listings off; the contract of `Gateway` for status, content and headers; every request is answered | 412 k, 95 s |
| `list_walk` | four page sizes, two kinds of backend, three changes of the bucket during a walk: nothing twice, nothing skipped, no invented marker, an end | 36 k |
| `filter_chunks` | every cut of 20 or so responses of up to three entries: empty ones spoiled, ones with at least as many entries as chunks passed on | 0.7 k |
| `mode_agrees` | all environments: what was announced is used, for AssumeRole, the container providers and silent static mode; version 2 signatures never meet a token; a role ARN never ends at the instance's role; a gateway that starts can read its files | 578 k |
| `start_container` | any number of starts, kills, reboots, other settings and file systems: S3 verified or down; IPv6 as wanted; nginx refuses only for a missing certificate, for IPv6 listeners that stay or are insisted on, or where nothing could ever be rendered | 2.0 M, 40 s |

For every property `PROJECT.json` names a mutant: a plausible slip in one definition that
makes TLC find the property violated. The mutated definitions stand in the modules, marked
"mutant", just before the ones they replace.

## 4. Bounds

* `CredentialCache`. What matters about time is the order of the deadlines, so the
  constants are scaled. A tick is 30 s: really a call may last 2 (60 s, the default of
  `js_fetch_timeout`, which the repository does not set), a walk of three calls 6, the
  sentinel lives 1, the margin is 9 (4.5 minutes) and the promised lifetime 10 (5 minutes).
  In `cred_oss` a call lasts 1, a walk 3, the sentinel 1, the margin is 4 and the lifetime
  5: `MinLife > MaxFetch + MaxCall` and `MinLife >= Margin + LockTTL` hold as narrowly, a
  walk outlasts several sentinels, and the margin outlasts a walk. Lifetimes are 5 and 7,
  so that a later answer can carry the shorter life. Three requests on two workers have an
  elected refresher, one that comes after the sentinel ran out, and a bystander. `cred_oss`
  identifies the two requests of one worker: no constant but `WorkerOf` names a request,
  and all its properties are invariants or action properties. `cred_live` scales further
  (margin 1, one lifetime) and has two requests. The proofs have no bound.
* `RequestSigning`: two key ids and one midnight; two requests of one worker, one to sign
  while the other refreshes.
* `ProviderFetch`: one or two statuses for each way the code tells them apart; a call lasts
  up to two ticks; walks are finite by themselves.
* `PathSpellings`: five tokens hold a leading slash, two runs of slashes and an encoded one
  next to a literal one, or a strip prefix and a doubled slash. The settings are empty, plain,
  spelled with slashes to spare, a prefix with a doubled slash inside and one with an
  encoded slash, and a strip expression that ends in the index page.
* `RequestRouting`: 14 paths, one or more for each location and rewrite; `MaxDepth` 3 is one
  more than the loopback depth that occurs, so that a nested probe would be seen. The cache holds one response, put there in eight of
  the configurations (`Storing`): a wrong answer from the cache needs one entry and one later
  request. Four header names: Amazon's, Amazon's under an allowed prefix, one stripped by a
  setting, one of neither kind.
* `DirectoryListing`: keys over four characters, one sorting before the slash; a directory
  with the folder object, three files, one subdirectory with two keys, so that roll-up,
  the order around the slash and the folder object all take part; page sizes 0 (unset),
  1, 2 and one over the limit; S3's own cap is 3 and its largest number 5, in place of
  1000 and 2^31-1.
* `ListResponseFilter`: three entries, and every number of chunks they can be cut into.
* `CredentialMode`: no bound; the data is finite.
* `ContainerStart`: two certificate files. The number of starts has no bound.

None of these bounds is in a proof: paths, keys, responses, configurations, loopback depth
and the number of changes are any that meet the assumptions of section 6.

## 5. Fairness

* `CredentialCache!FairSpec`: strong fairness of `Tick` (time passes, however often a
  synchronous stretch disables it for a moment), of `Settle` (a call whose time is over is
  given up: `ngx.fetch` has a timeout) and of `Finish`; weak fairness of `Decide` (njs runs
  on). The provider is not forced to answer. NGINX processes every ready event in
  each turn of the loop, which justifies strong fairness between the requests of a worker.
* `CacheRecovers` states its surroundings in its hypothesis `Steady`: from some moment on no
  crash and no eviction, requests keep coming, and a provider called again and again
  gives a usable answer in time again and again. Without requests nothing would refresh.
* `RequestRouting!FairSpec`: while a request is pending, something happens to it again and
  again: NGINX takes the steps it can take, and connections that stay silent time out,
  which is one of the answers (`S3Fails`, `ProbeBroken`). This is weak fairness of `Serve`,
  stated without ENABLED: a pending request always has a step (the run checks deadlock),
  and only `Serve` takes one then.
* `DirectoryListing!FairSpec`: the gateway answers and the client keeps following links. The
  bucket need not settle: its changes are bounded by `MaxChanges`.
* `ProviderFetch!FairSpec`: a call is answered or times out (status 0), and handled.

## 6. What is proved

All for every value of the constants that meets the named assumptions; every
obligation is checked by TLAPS. Every invariant and action property of a passing run is
a theorem, and so is the refinement of `Gateway`.

**CredentialProofs**, first the cache (any requests, workers, keys, lifetimes): `TypeCorrect`,
`Invariance`, `SingleFlight` (`ElectionsSpaced`), `SentinelHarmless`
(`OwnSentinelNeverGates`), `CheckedMeansCached` (`NoEmptyReadAfterCheck`) and
`AuthorizedUsable` (`AuthorizedMeansUsable`). The assumptions are `TimingAssumption`, in
particular `MinLife >= Margin + LockTTL` (the arithmetic the comment at
`CREDENTIAL_REFRESH_LOCK_ZONE` gives) and `MinLife > MaxFetch + MaxCall`: what is issued
outlasts a walk and the call that brings it. That walks and calls keep these times is
`WalkInTime` below. None of the properties
is inductive. `Inv` adds:

* `RespBudget`: an answer has lost no more validity than its call has lasted;
* `CacheCovers`: what a request relies on is still cached, or was replaced by something that
  outlasts whatever the request can still wait for. This carries `AuthorizedMeansUsable`:
  a slow, older answer may overwrite a newer one, yet never with something that expires
  before the requests that rely on it are done. It is where `MinLife > MaxFetch + MaxCall` enters;
* `SentinelCoversElected` and `OwnerInFlight`: how the sentinel's time relates to that of
  the elected call, which makes the next election late enough;
* `OwnRefreshOutlivesSentinel`: what the owner wrote outlives the sentinel by the margin.

There is one lemma per action (`ReadStep`, `ElectStep`, `SucceedStep`, `TickStep`, ...) and
`InvStep` joins them. `AuthorizedUsable` is an action property, from `Inv` and the steps to
"authorized".

**CredentialProofs**, then the signing. The signing steps leave the variables of the cache
alone, so the theorems about it carry over (the lemma `SigningImplementsCache`).
`SigningTypeCorrect`,
`SigningCacheInvisible` (`SignedWithItsOwnKey`; the strengthening is `EntrySound`, an entry
holds the key its validity token names), and `SignerFindsCredentials`: on OSS the signer
never throws "AWS credentials are unavailable", which uses `CheckedMeansCached` of the
cache. These hold for several workers, too. `OneWorkerSendsAsSigned`
(`SentAsSigned`) assumes one: then nothing can change the cache between the two reads of a
request whose headers are being built (`AsSignedStep`, over `OnlyAuthorizedAreBuilt`).

**ProviderFetchProofs** (any set of statuses): `Invariance` of `Inv`, whose part `Led` says
which calls a walk consists of and which answer led to each; from it `TypeCorrect`,
`ClosedWithoutToken` (`FailsClosed`), `NeverDowngraded` (`NoFalseDowngrade`) and
`OnlyFromSuccess` (`CachedFromOk`). `WalkInTime` (`WithinBudget`) strengthens the bound with
the time left to the call and the calls still to come.

**ContainerStartProofs** (any certificates, any number of starts, crashes and changes):
`StagedAlways` says what each script finds done by those before it in the same start, above
all that stubs are empty before a script appends to them; `StagedEdits` has a step per
script. From it `NeverUnverified` (`VerifiedOrDown`), `Ipv6Follows` (`Ipv6AsWanted`) and
`EveryStartLoads` (`LoadsAgain`). `Checked` in `TypeCorrect` is the part of the start-up
check the scripts rely on.

**RequestRoutingProofs** (any configurations, methods, paths, markers and headers).
`Inductive` is the invariant `IInv`: what a request must have been through to be where it
is. Its parts:

* `Placed`: a location that proxies has seen the check and the right method; a named
  location is the one `Route` gives; `$uri` is still the normalised path of the request,
  or the index page a probe has found. Without it nothing says which rewriting a request
  in the `index` location has had;
* `Computed` and `Fetched`: `$s3uri` is not frozen before a location proxies, and what was
  sent is the line of this path under the `$forIndexPage` of this location;
* `Nested`: at most two requests, of which the lower one waits in `@s3PreListing` and the
  upper one asks for an index page, which never goes there;
* `StoredOK`: what the cache holds is the answer to some request with this key.

From it follow `TypeCorrect`, `SentIsSigned` (`SignedIsProxied`), `SentIsChecked`
(`CheckedBeforeSigned`), `ProbesEnd` (`ProbeNeverProbes`), `BucketStaysClosed`
(`BucketNotRead`) and `Implements` (`ContractSpec`): each action is a step of `Gateway` or a
stutter, one lemma for each group of actions. The two harder parts of that are `SentIsServed`
(the line sent, computed by the rewriting, names a key that `Gateway` lets the question
have) and the header filter against what the contract says of headers. The
assumptions are types, that a request path starts with a slash, and that a list of header
prefixes has no empty entry: the code takes an empty one to be in every name (section 7).
`BucketNotRead` leaves out the paths that the strip expression cuts inside a segment or
leaves nothing of: there the code lets the bucket be read (section 7). The proof that a
stored answer suits a later request also corrected the model: what S3 sends (`Sends`)
was once a CASE with alternatives that overlapped.

**PathRewriteProofs, PathSpellingsProofs** (any path, any configuration). The lemmas of
the first say what the operators of `PathRewrite` do to any path: `CollapseDuplicateSlashes`
is determined by the indices it keeps (`KeptFacts`, `CollapseType`), so an increasing map
from the kept indices of one path to those of another that keeps the tokens shows two
results equal (`CollapseRenumbered`). That takes the place of an induction over the path and
gives `CollapseInsert` (a doubled slash), `CollapseConcat` and `CollapseTwice`; `PrefixSplits`,
`TrimTail`, `LineForm` and others do the same for prefixes, settings and the line that is
sent. `SignatureCovers` (what is signed covers what is sent) serves routing as well. From
these: `EveryPathSigned` (`SignedIsProxied`), `SpellingsAreOneRequest` (`SpellingsAgree`),
`EveryKeyCanBeAsked` (`EveryKeyAddressable`), `ProbeIsForTheIndexPage`
(`PlainProbeNamesTheIndexPage`) and `LinksLead` (`LinksLeadToWhatTheyName`). The invariant
behind them only says that the state is a path with a leading slash and a configuration.
`Token` is written as `STRING` and the literal tokens, since the provers do not
know that a literal is a string.

**ListingProofs** (any finite set of keys, page sizes, backend, number of changes). Byte
order is a strict linear order (`Before`), so finite sets of entries have a first and a
last one and a page. S3 compares a marker with keys and the gateway with entries: a
marker that is an entry splits the listing in two all the same. `Invariance` adds to
the properties that the marker is an entry that was issued (`MarkerIsAnEntry`), that nothing
shown comes after it (`ShownUpToMarker`), that what lasts is still in the bucket
(`LastingIsThere`) and is shown or still to come (`RestIsToCome`). From it `EntriesShownOnce`
(`ShownOnce`), `LastingEntriesShown` (`NothingSkipped`), `NoMarkerInvented`
(`MarkersAreIssued`) and `TypeCorrect`. The assumption on S3's own page limit is that it is
more than one (it is 1000).

Then the filter, for any response and any way to cut it: the invariant counts
(`HiddenInCuts`). As long as the filter has seen no entry there are fewer entries in what it
was handed than there were chunks, for an entry can only hide in a cut of its own. From it
`EmptyListingsAreSpoiled` (`EmptyIsSpoiled`), `ListingsPassThrough`
(`ManyEntriesPassThrough`) and `FilterTypeCorrect`.

**CredentialModeProofs** (any settings): the inductive invariant ties the environment of a
running gateway to what was announced of it and to what a request makes of it
(`Consistent`); the rest are lemmas that put the ladder of the shell beside that of njs.
From it `TypeCorrect`, `AnnouncedIsUsed` (`RunsAsAnnounced`), `Version2HasNoToken`
(`Version2Tokenless`), `NeverTheInstancesRole` (`RoleNeverFromInstance`) and
`FilesStayReadable` (`FilesReadable`).

**Model-checked only**: liveness, which is out of the prover's reach, as is ENABLED: that every
check and every request is answered, that the cache recovers, that walks end. The two
violated properties are counterexamples and have no theorem.

## 7. Where code and documentation disagree

Two disagreements are runs that TLC finds violated:

1. **A residual sentinel can hold back a needed refresh** (`cred_residual_sentinel`).
   `awscredentials.js:139-143` says it "can never gate a legitimately needed refresh". The
   write at line 369 is unconditional: a fetch that started earlier and ends later than the
   elected one replaces the newer credentials with older ones, which enter the margin
   under the sentinel of the successful refresh. Requests are answered from the
   cache until the sentinel runs out. What does hold is `OwnSentinelNeverGates`.
2. **A probe can ask for another page** (`paths_encoded_probe`). `docs/getting_started.md:275-277`
   says an encoded slash is key data and never collapsed. The address of the probe is
   decoded by `_escapeURIPath` and collapsed when it comes in again: for `/a/%2F/` it asks for
   `a/index.html`.

Two more are about properties that hold, and say in their comments what the code does:

3. **Retrieval does not fail closed on a token answer without text** (`fetch_walk`, `FailsClosed`).
   `awscredentials.js:686-688` says that with `AWS_EC2_METADATA_V1_DISABLED` it does whenever a
   token cannot be obtained. Line 723 takes the text of a 2xx answer unchecked (line 752 checks
   the name of the role): if it is empty, the next calls carry an empty token header. It is the
   only answer after which they carry no token.
4. **No entry of a listing appears twice** (`list_walk`, `ShownOnce`). `docs/getting_started.md:208-210`
   says that entries created or deleted between page requests may be skipped or appear twice.
   They may be skipped, but an entry keeps its place in the order of names, and a page
   starts after the last entry of the one before.

Others were seen while modelling. No run states them; where one touches a property,
the property leaves exactly that case out and its comment says so:

* `awscredentials.js:472` decides by what the failing request itself had cached. A request
  that found the cache empty answers 500 although another one may have filled it.
* With several workers a refresh on another worker between the two header reads gives an
  `Authorization` of one credential with the token of another (`SentAsSigned` is for the one
  worker of the container).
* `s3gateway.js:163-187` looks for a setting anywhere in a header's name, while
  `docs/getting_started.md:61-62` calls the settings prefixes; `Gateway` has what the code
  does. `utils.js:168` leaves an empty piece for `a;;b` or `;a`, which every name contains.
  `HEADER_PREFIXES_TO_STRIP` in upper case is refused at start, `HEADER_PREFIXES_ALLOWED` is
  not and never matches.
* A HEAD of a directory gets the content type of a listing also where its index page is
  what a GET would get.
* `docs/development.md:44-51` lets an image that builds on this one overwrite the stubs in
  `conf.d/gateway`; the base image's script renders them anew at every start.
* `s3gateway.js:753`: the 404 of a probe may stand for a sanitized 403 or 5xx of S3; the
  directory is then listed although it has an index page.
* `s3gateway.js:607`: a path of which `STRIP_LEADING_DIRECTORY_PATH` leaves nothing is not
  "/" to the root guard; in path style the bucket is then read with listings off
  (`BucketNotRead` leaves it out).
* `listing.xsl:13-39, 200-210`: the stylesheet takes the prefix as it is spelled, while the
  gateway collapses the path it is part of. With `PREFIX_LEADING_DIRECTORY_PATH=/p//q` the keys of
  a page start with `p/q/`, the links keep that, and the prefix is put in front once more when
  they come back (`SettingsUndone` leaves it out of `LinksLeadToWhatTheyName`).
* A strip expression that ends in the index page (`/s/index.html`) takes the page away from the
  probe of `/s/` but not from the request (`PlainProbeNamesTheIndexPage` leaves it out).
* `listing.xsl:140` with `DIRECTORY_LISTING_PAGE_SIZE=1`: a folder object takes the first
  page, which shows nothing and has no link (`NothingSkipped` leaves it out).
* `s3gateway.js:777`: cuts through every entry's tag make a listing look empty
  (`ManyEntriesPassThrough` asks for as many entries as chunks).
* The start-up check announces "not using IMDS" for a session token alone, while njs goes on
  to IMDS; it announces ECS or IMDS while njs uses static credentials or a web identity.
  With pod identity, a stray role ARN and `AWS_WEB_IDENTITY_TOKEN_FILE` set but empty, both use
  web identity (`utils.js:98` tests presence), although the script's comment
  (`00-check-for-required-env.sh:196`) says pod identity serves.

## 8. Assumptions and what is not modelled

* A synchronous stretch of JavaScript is shorter than a tick. `ngx.fetch` ends within
  `MaxCall`; NGINX's timeout is one between two reads or writes, so a provider that answers
  in drops may exceed it.
* Providers issue credentials valid for at least `MinLife` (the comment at
  `awscredentials.js:139`). Equal access key ids mean equal secrets.
* Keyval zones drop entries by timeout at moments the model leaves open (`Evict`,
  `EvictSigningKey`).
* `CredentialCache` leaves out the early return of static credentials, a declared zone
  that is missing from the configuration, and signature version 2.
* The strip expression is a literal. Malformed percent sequences, dot segments, and the empty
  `$s3uri` in virtual style (strip leaves nothing) are left out of the paths.
* Of the proxy cache, expiry, locks, revalidation and bypass appear only as the choice to
  use an entry or not, and a stored error is one S3 may give. Routing leaves out how slices
  are assembled (slices of two versions of an object can meet after a bypass;
  `default.conf.template:266-269` counts on NGINX to reject them), and the headers CORS adds.
* Signing leaves out the layout of the canonical request, the string to sign and the HMACs;
  also the signature of the STS call (`signRequestV4`), which shares no state with the others:
  it bypasses the signing key cache.
* `ContainerStart` takes each script for one step: a script killed while it writes is left
  out. `24-remove_legacy_credential_cache.sh` and `99-output-settings.sh` change nothing that
  nginx loads.
* `CredentialMode` leaves out the deprecated variable names, which only refuse to start.
* Links are followed from paths in their canonical spelling, for names without an empty
  segment; percent-encoding of names in links is left out.
* `DirectoryListing` gets its pages from S3. A page from the proxy cache may show the bucket as
  it was before the walk began, so an entry that is there throughout the walk can be missing
  from it; `ShownOnce` does not depend on that.
* `CredentialMode` leaves out what the start-up check does where there is no `su` to try a
  file as another user (`00-check-for-required-env.sh:58-64`).
* Not modelled: the start-up defaults other than the two paths (values passed on), the
  standalone installer (the same templates rendered once), packaging. Reasons are in
  `PROJECT.json`.

## 9. Plan

Modules were written in the order of what would hurt most: credential refresh and its
proofs; signing on top of it; paths; routing and its contract; listings; mode; providers;
then the clock of provider walks, dates in signatures, the header filter, the proxy cache
and the start of the container; then the proofs about paths, routing, listings, the filter
and mode. What is left, in order:

1. The refinement between `CredentialCache` and `ProviderFetch` as one theorem, where now
   the bounds of one are the assumptions of the other.
2. A proxy cache with several entries, versions of objects and slices.

---------------------------- MODULE ProviderFetch ----------------------------
(***************************************************************************)
(* One walk of fetchCredentials to the provider of the gateway: the HTTP   *)
(* calls of _fetchEC2RoleCredentials (up to three, with a fallback from    *)
(* version 2 of the metadata service to version 1), or the single call of  *)
(* the ECS, EKS pod identity, web identity and AssumeRole providers.  The  *)
(* provider may answer anything, or nothing.                               *)
(***************************************************************************)
EXTENDS Naturals, SequencesExt

CONSTANTS Statuses,     \* the statuses a provider may answer with
          MaxCall       \* the longest an ngx.fetch takes, in ticks

ASSUME StatusesAssumption == Statuses \subseteq 100 .. 599
ASSUME MaxCallAssumption == MaxCall \in Nat

VARIABLES provider,     \* the provider njs has picked
          v1Disabled,   \* AWS_EC2_METADATA_V1_DISABLED
          calls,        \* the calls of this walk with their answers
          outcome,      \* "none", "cached" or "failed"
          left,         \* time left to the present call
          spent,        \* history: the time this walk has taken
          age           \* history: the time since the last answer was given

vars == <<provider, v1Disabled, calls, outcome, left, spent, age>>

clocks == <<left, spent, age>>

Providers == {"ECS", "PodIdentity", "WebIdentity", "AssumeRole", "IMDS"}
Targets   == {"token", "role", "credentials"}

\* What a body is to its reader: the document expected; one without keys; one
\* of another shape; no text at all; no JSON or XML.
Bodies  == {"complete", "keyless", "shapeless", "empty", "garbage"}
Answers == [status : Statuses, body : Bodies] \cup [status : {0}, body : {"empty"}]

\* Status 0 stands for a connection that failed or timed out.
Pending == [status |-> 0, body |-> "none"]

\* `token`: the header of a session token is absent, without text, or holds one.
Tokens == {"none", "empty", "issued"}

CallType == [target : Targets, token : Tokens, answer : Answers \cup {Pending}]

Call(target, token) == [target |-> target, token |-> token, answer |-> Pending]

Ok(a) == a.status \in 200 .. 299

call == Last(calls)
said == call.answer

Fail == outcome' = "failed" /\ UNCHANGED <<calls, clocks>>
Ask(target, token) ==
    /\ calls' = Append(calls, Call(target, token))
    /\ left' = MaxCall /\ age' = 0
    /\ UNCHANGED <<outcome, spent>>

----------------------------------------------------------------------------
Begin ==
    /\ calls = << >> /\ outcome = "none"
    /\ Ask(IF provider = "IMDS" THEN "token" ELSE "credentials", "none")
    /\ UNCHANGED <<provider, v1Disabled>>

\* A token file or an STS endpoint that cannot be used throws before any call.
Misconfigured ==
    /\ calls = << >> /\ outcome = "none"
    /\ provider \in {"PodIdentity", "WebIdentity", "AssumeRole"}
    /\ Fail
    /\ UNCHANGED <<provider, v1Disabled>>

\* The provider gives its answer, which then travels until its call's time is over.
Respond ==
    /\ calls # << >> /\ call.answer = Pending
    /\ \E a \in Answers : calls' = [calls EXCEPT ![Len(calls)].answer = a]
    /\ age' = 0
    /\ UNCHANGED <<provider, v1Disabled, outcome, left, spent>>

Tick ==
    /\ calls # << >> /\ outcome = "none" /\ left > 0
    /\ left' = left - 1 /\ spent' = spent + 1 /\ age' = age + 1
    /\ UNCHANGED <<provider, v1Disabled, calls, outcome>>

(***************************************************************************)
(* After PUT /latest/api/token.                                            *)
(***************************************************************************)
FallsBackOnAnyError(a) == ~Ok(a)      \* mutant: throttling falls back too

FallsBack(a) == a.status \in {0, 403, 404, 405}

V1Allowed == TRUE                     \* mutant: the setting is not looked at

FallbackAllowed == ~v1Disabled

\* The text of a successful answer, which nobody looks at, is the token.
Header(a) == IF a.body = "empty" THEN "empty" ELSE "issued"

StartOver == calls' = << >> /\ left' = 0 /\ spent' = 0 /\ age' = 0 /\ UNCHANGED outcome

TokenAskedAgain ==                    \* mutant: a fatal status is tried again, without end
    \/ Ok(said) /\ Ask("role", Header(said))
    \/ ~Ok(said) /\ FallsBack(said) /\ FallbackAllowed /\ Ask("role", "none")
    \/ ~Ok(said) /\ ~(FallsBack(said) /\ FallbackAllowed) /\ StartOver

TokenAnswered ==
    \/ Ok(said) /\ Ask("role", Header(said))
    \/ ~Ok(said) /\ FallsBack(said) /\ FallbackAllowed /\ Ask("role", "none")
    \/ ~Ok(said) /\ ~(FallsBack(said) /\ FallbackAllowed) /\ Fail

(***************************************************************************)
(* After GET .../security-credentials/, which names the role.              *)
(***************************************************************************)
RoleAnswered ==
    IF Ok(said) /\ said.body # "empty" THEN Ask("credentials", call.token) ELSE Fail

(***************************************************************************)
(* After the call for the credentials.  What cannot be read throws: the    *)
(* JSON of web identity is nested, the XML of AssumeRole is checked for    *)
(* its elements, the others take any JSON object.  writeCredentials then   *)
(* refuses credentials without keys, in the same turn of the event loop.   *)
(***************************************************************************)
ReadsErrorsToo ==                     \* mutant: the status is not looked at
    \/ said.body = "complete"
    \/ said.body = "keyless" /\ provider # "AssumeRole"

Reads ==
    /\ Ok(said)
    /\ \/ said.body = "complete"
       \/ said.body = "keyless" /\ provider # "AssumeRole"
       \/ said.body = "shapeless" /\ provider \notin {"WebIdentity", "AssumeRole"}

HasKeys == said.body = "complete"

AnsweredOrAskedAgain ==               \* mutant: the only call is made again after a timeout
    IF Reads /\ HasKeys THEN outcome' = "cached" /\ UNCHANGED <<calls, clocks>>
    ELSE IF said.status = 0 /\ Len(calls) = 1 THEN Ask("credentials", "none") ELSE Fail

CredentialsAnswered ==
    IF Reads /\ HasKeys THEN outcome' = "cached" /\ UNCHANGED <<calls, clocks>> ELSE Fail

Proceed ==
    /\ calls # << >> /\ call.answer # Pending /\ outcome = "none"
    /\ \/ call.target = "token" /\ TokenAnswered
       \/ call.target = "role" /\ RoleAnswered
       \/ call.target = "credentials" /\ CredentialsAnswered
    /\ UNCHANGED <<provider, v1Disabled>>

\* The next walk, after the request was answered.
Again ==
    /\ outcome # "none"
    /\ calls' = << >> /\ outcome' = "none"
    /\ left' = 0 /\ spent' = 0 /\ age' = 0
    /\ UNCHANGED <<provider, v1Disabled>>

Init == /\ provider \in Providers /\ v1Disabled \in BOOLEAN
        /\ calls = << >> /\ outcome = "none"
        /\ left = 0 /\ spent = 0 /\ age = 0

Next == Begin \/ Misconfigured \/ Respond \/ Tick \/ Proceed \/ Again

Spec == Init /\ [][Next]_vars

\* A call is answered or times out (ngx.fetch), and its answer is handled.
FairSpec == Spec /\ WF_vars(Respond) /\ WF_vars(Proceed)

----------------------------------------------------------------------------
TypeOK ==
    /\ provider \in Providers /\ v1Disabled \in BOOLEAN
    /\ outcome \in {"none", "cached", "failed"}
    /\ calls \in Seq(CallType)
    /\ left \in 0 .. MaxCall /\ spent \in Nat /\ age \in Nat
    /\ Len(calls) <= IF provider = "IMDS" THEN 3 ELSE 1
    /\ \A i \in 1 .. Len(calls) - 1 : calls[i].answer # Pending

(***************************************************************************)
(* With AWS_EC2_METADATA_V1_DISABLED the walk goes on after the token      *)
(* request only if that succeeded, and then sends what it answered as the  *)
(* token: no call is one of version 1.  Retrieval does NOT stop when the   *)
(* success comes without text, although there is no token then: the header *)
(* goes out empty, in this one case (the comment in the code promises that *)
(* retrieval fails closed whenever a token cannot be obtained).            *)
(***************************************************************************)
FailsClosed ==
    v1Disabled /\ provider = "IMDS" =>
        \A i \in 2 .. Len(calls) :
            /\ Ok(calls[1].answer) /\ calls[i].token # "none"
            /\ calls[i].token = "empty" => calls[1].answer.body = "empty"

(***************************************************************************)
(* A service that speaks version 2 is not asked as one that does not: no   *)
(* call lacks the header after a token request that succeeded, or after an *)
(* answer (throttling, an internal error) that says nothing about tokens.  *)
(***************************************************************************)
NoFalseDowngrade ==
    \A i \in 2 .. Len(calls) :
        calls[i].token = "none" => calls[1].answer.status \notin (200 .. 299) \cup {429} \cup (500 .. 599)

(***************************************************************************)
(* Credentials reach the cache only from a successful answer that holds    *)
(* them, to a call that every call before it led to: never from the body   *)
(* of an error, and never for a role nobody named.                         *)
(***************************************************************************)
CachedFromOk ==
    outcome = "cached" =>
        /\ call.target = "credentials" /\ Ok(said) /\ said.body = "complete"
        /\ provider = "IMDS" => /\ Len(calls) = 3
                                /\ Ok(calls[2].answer) /\ calls[2].answer.body # "empty"

(***************************************************************************)
(* What CredentialCache takes for granted of a fetch: a walk takes no more *)
(* than three times the time of a call, or once for a provider of one      *)
(* call, and what it brings to the cache is no older than one call.        *)
(***************************************************************************)
WithinBudget ==
    /\ spent <= IF provider = "IMDS" THEN 3 * MaxCall ELSE MaxCall
    /\ outcome = "cached" => age <= MaxCall

(***************************************************************************)
(* A walk comes to an end: the request that makes it is answered, and the  *)
(* refresh sentinel is not held by one that hangs.                         *)
(***************************************************************************)
WalkEnds == calls # << >> ~> outcome # "none"
=============================================================================

--------------------------- MODULE CredentialMode ---------------------------
(***************************************************************************)
(* Which credentials a gateway runs on, decided twice from the same        *)
(* environment: at start up by 00-check-for-required-env.sh, which refuses *)
(* to start or announces a mode, and at every request by fetchCredentials  *)
(* of awscredentials.js.  The shell tests some variables by value (-n) and *)
(* some by presence (-v); so does njs.                                     *)
(*                                                                         *)
(* A plain variable is "unset", "empty" or holds a "value".  A credential  *)
(* may also come from the file that its companion <name>_FILE names:       *)
(* "unset", "empty" (no path), "bad" (a path that cannot be read, or an    *)
(* empty file) or "good".                                                  *)
(***************************************************************************)
CONSTANTS KeyIds, Secrets, Sessions   \* the settings tried: sets of Setting

Plain == {"unset", "empty", "value"}
Setting == [direct : Plain, file : {"unset", "empty", "bad", "good"}]

ASSUME SettingsAssumption == KeyIds \cup Secrets \cup Sessions \subseteq Setting

VARIABLES env,          \* the environment of the container
          phase,        \* "stopped", "refused" or "running"
          announced,    \* the mode the start-up check has announced
          used          \* the provider of the last request, "none" before one

vars == <<env, phase, announced, used>>

Modes == {"AssumeRole", "ECS", "MissingStatics", "SessionToken", "IMDS",
          "WebIdentity", "PodIdentity", "Static"}
Providers == {"Static", "AssumeRole", "ECS", "WebIdentity", "PodIdentity", "IMDS"}

Environment ==
    [keyId : KeyIds, secret : Secrets, session : Sessions, arn : Plain, webIdentity : Plain,
     ecs : Plain, pod : Plain, sigver : {2, 4}]

HasValue(c) == c.direct = "value" \/ c.file \in {"bad", "good"}
Present(v)  == v # "unset"

----------------------------------------------------------------------------
(***************************************************************************)
(* The start-up check.                                                     *)
(***************************************************************************)
StaticCredentialsConfigured(e) == HasValue(e.keyId) /\ HasValue(e.secret)

AssumeRoleSelected(e) == e.arn = "value" /\ e.webIdentity # "value"
AssumeRoleActive(e)   == AssumeRoleSelected(e) /\ StaticCredentialsConfigured(e)

SessionTokenPresent(e) == Present(e.session.direct) \/ Present(e.session.file)

EcsFirst(e, imds) ==                  \* mutant: the order of the ladder before GH-122
    IF Present(e.ecs)           THEN "ECS"
    ELSE IF AssumeRoleActive(e) THEN "AssumeRole"
    ELSE IF AssumeRoleSelected(e) /\ ~Present(e.pod) THEN "MissingStatics"
    ELSE IF SessionTokenPresent(e)  THEN "SessionToken"
    ELSE IF imds                    THEN "IMDS"
    ELSE IF Present(e.webIdentity)  THEN "WebIdentity"
    ELSE IF Present(e.pod)          THEN "PodIdentity"
    ELSE "Static"

RoleArnLast(e, imds) ==               \* mutant: asks for the statics of a role too late
    IF AssumeRoleActive(e) THEN "AssumeRole"
    ELSE IF Present(e.ecs) THEN "ECS"
    ELSE IF SessionTokenPresent(e)  THEN "SessionToken"
    ELSE IF imds                    THEN "IMDS"
    ELSE IF AssumeRoleSelected(e) /\ ~Present(e.pod) THEN "MissingStatics"
    ELSE IF Present(e.webIdentity)  THEN "WebIdentity"
    ELSE IF Present(e.pod)          THEN "PodIdentity"
    ELSE "Static"

\* `imds`: whether the probe of the instance metadata service succeeds.
Announcement(e, imds) ==
    IF AssumeRoleActive(e) THEN "AssumeRole"
    ELSE IF Present(e.ecs) THEN "ECS"
    ELSE IF AssumeRoleSelected(e) /\ ~Present(e.pod) THEN "MissingStatics"
    ELSE IF SessionTokenPresent(e)  THEN "SessionToken"
    ELSE IF imds                    THEN "IMDS"
    ELSE IF Present(e.webIdentity)  THEN "WebIdentity"
    ELSE IF Present(e.pod)          THEN "PodIdentity"
    ELSE "Static"

FileUnchecked(c) == FALSE             \* mutant: trusts the path it is given

FileRefused(c) == c.file # "unset" /\ (c.direct = "value" \/ c.file \in {"empty", "bad"})

RequiredStatics(e) == HasValue(e.keyId) /\ HasValue(e.secret)

TemporaryWithV2Unguarded(e) ==        \* mutant: only the session token is looked at
    HasValue(e.session) \/ AssumeRoleActive(e)

TemporaryWithV2(e) ==
    HasValue(e.session) \/ AssumeRoleActive(e) \/ ~StaticCredentialsConfigured(e)

Refused(e, mode) ==
    \/ mode \in {"MissingStatics", "Static"} /\ ~RequiredStatics(e)
    \/ \E c \in {e.keyId, e.secret, e.session} : FileRefused(c)
    \/ e.sigver = 2 /\ TemporaryWithV2(e)

----------------------------------------------------------------------------
(***************************************************************************)
(* fetchCredentials.  A direct value wins over a file; a file that cannot  *)
(* be used throws.                                                         *)
(***************************************************************************)
Throws(c) == c.direct # "value" /\ c.file = "bad"

ReadThrows(e) ==
    \/ Throws(e.keyId) \/ Throws(e.secret)
    \/ HasValue(e.keyId) /\ HasValue(e.secret) /\ Throws(e.session)

Statics(e) == HasValue(e.keyId) /\ HasValue(e.secret)

IsAssumeRoleMode(e) == e.arn = "value" /\ e.webIdentity # "value" /\ Statics(e)

Provider(e) ==
    IF IsAssumeRoleMode(e) THEN "AssumeRole"
    ELSE IF Statics(e)             THEN "Static"
    ELSE IF Present(e.ecs)         THEN "ECS"
    ELSE IF Present(e.webIdentity) THEN "WebIdentity"
    ELSE IF Present(e.pod)         THEN "PodIdentity"
    ELSE "IMDS"

\* What is signed for S3 carries a session token: temporary credentials do.
Tokened == used # "Static" \/ HasValue(env.session)

----------------------------------------------------------------------------
Init ==
    /\ env \in Environment
    /\ env.keyId.direct = "unset" /\ env.keyId.file = "unset"
    /\ env.secret.direct = "unset" /\ env.secret.file = "unset"
    /\ env.session.direct = "unset" /\ env.session.file = "unset"
    /\ env.arn = "unset" /\ env.webIdentity = "unset" /\ env.ecs = "unset" /\ env.pod = "unset"
    /\ phase = "stopped" /\ announced = "Static" /\ used = "none"

\* The operator edits one setting of a container that is not running.
Configure ==
    /\ phase # "running"
    /\ \/ \E s \in KeyIds   : env' = [env EXCEPT !.keyId = s]
       \/ \E s \in Secrets  : env' = [env EXCEPT !.secret = s]
       \/ \E s \in Sessions : env' = [env EXCEPT !.session = s]
       \/ \E v \in Plain : \/ env' = [env EXCEPT !.arn = v]
                           \/ env' = [env EXCEPT !.webIdentity = v]
                           \/ env' = [env EXCEPT !.ecs = v]
                           \/ env' = [env EXCEPT !.pod = v]
    /\ phase' = "stopped" /\ announced' = "Static" /\ used' = "none"

Start ==
    /\ phase = "stopped"
    /\ \E imds \in BOOLEAN :
          /\ announced' = Announcement(env, imds)
          /\ phase' = IF Refused(env, announced') THEN "refused" ELSE "running"
    /\ UNCHANGED <<env, used>>

Request ==
    /\ phase = "running"
    /\ used' = IF ReadThrows(env) THEN "error" ELSE Provider(env)
    /\ UNCHANGED <<env, phase, announced>>

Stop ==
    /\ phase = "running"
    /\ phase' = "stopped" /\ announced' = "Static" /\ used' = "none"
    /\ UNCHANGED env

Next == Configure \/ Start \/ Request \/ Stop

Spec == Init /\ [][Next]_vars

----------------------------------------------------------------------------
TypeOK ==
    /\ env \in Environment
    /\ phase \in {"stopped", "refused", "running"}
    /\ announced \in Modes
    /\ used \in Providers \cup {"none", "error"}
    /\ used # "none" => phase = "running" /\ announced # "MissingStatics"

(***************************************************************************)
(* Shell and njs classify the same environment alike, empty variables and  *)
(* files included: a role is assumed exactly if it was announced, an       *)
(* announced container provider is in use unless there are static          *)
(* credentials, and a gateway that started without naming any provider     *)
(* uses the static credentials it was given.                               *)
(***************************************************************************)
RunsAsAnnounced ==
    used # "none" =>
        /\ used = "AssumeRole" <=> announced = "AssumeRole"
        /\ announced \in {"ECS", "WebIdentity", "PodIdentity"} => used \in {announced, "Static"}
        /\ announced = "Static" => used = "Static"

(***************************************************************************)
(* A gateway that started with signature version 2, which covers no        *)
(* session token, never signs with temporary credentials.                  *)
(***************************************************************************)
Version2Tokenless == used # "none" /\ env.sigver = 2 => ~Tokened

(***************************************************************************)
(* A role that is to be assumed is never replaced by that of the instance: *)
(* with a role ARN the gateway does not fall through to the instance       *)
(* metadata service.                                                       *)
(***************************************************************************)
RoleNeverFromInstance == env.arn = "value" => used # "IMDS"

(***************************************************************************)
(* A gateway that started can read its credential files, in whatever mode. *)
(***************************************************************************)
FilesReadable == used # "error"

=============================================================================

------------------------ MODULE CredentialModeProofs ------------------------
(***************************************************************************)
(* The properties of CredentialMode, for every set of settings.  They are  *)
(* about two classifications of one environment, so the inductive          *)
(* invariant only has to keep the environment of a running gateway, what   *)
(* was announced of it and what a request makes of it together; the rest   *)
(* is a lemma about the two classifications.                               *)
(***************************************************************************)
EXTENDS CredentialMode, TLAPS

(* What a running gateway has announced came from its own environment and  *)
(* was not refused; the last request read that environment.                *)
Admitted(e, mode) == (\E imds \in BOOLEAN : mode = Announcement(e, imds)) /\ ~Refused(e, mode)

Consistent ==
    /\ phase = "running" => Admitted(env, announced)
    /\ used # "none" => /\ phase = "running"
                        /\ used = IF ReadThrows(env) THEN "error" ELSE Provider(env)

TypeInv ==
    /\ env \in Environment
    /\ phase \in {"stopped", "refused", "running"}
    /\ announced \in Modes
    /\ used \in Providers \cup {"none", "error"}

IInv == TypeInv /\ Consistent

LEMMA AnnouncedMode == ASSUME NEW e, NEW imds \in BOOLEAN PROVE Announcement(e, imds) \in Modes
BY DEF Announcement, Modes

LEMMA ProviderType == ASSUME NEW e PROVE Provider(e) \in Providers
BY DEF Provider, Providers

LEMMA InitInv == Init => IInv
BY DEF Init, IInv, TypeInv, Consistent, Modes

LEMMA StepInv == IInv /\ [Next]_vars => IInv'
<1> SUFFICES ASSUME IInv, [Next]_vars PROVE IInv'
  OBVIOUS
<1>1. CASE Configure
  <2>1. env' \in Environment
    BY <1>1 DEF IInv, TypeInv, Configure, Environment, Plain
  <2> QED
    BY <1>1, <2>1 DEF Configure, IInv, TypeInv, Consistent, Modes
<1>2. CASE Start
  <2>1. PICK imds \in BOOLEAN :
           /\ announced' = Announcement(env, imds)
           /\ phase' = IF Refused(env, announced') THEN "refused" ELSE "running"
    BY <1>2 DEF Start
  <2>2. announced' \in Modes
    BY <2>1, AnnouncedMode
  <2>3. used = "none"
    BY <1>2 DEF IInv, Consistent, Start
  <2>4. phase' = "running" => Admitted(env', announced')
    BY <1>2, <2>1 DEF Start, Admitted
  <2> QED
    BY <1>2, <2>1, <2>2, <2>3, <2>4 DEF Start, IInv, TypeInv, Consistent
<1>3. CASE Request
  BY <1>3, ProviderType DEF Request, IInv, TypeInv, Consistent
<1>4. CASE Stop
  BY <1>4 DEF Stop, IInv, TypeInv, Consistent, Modes
<1>5. CASE UNCHANGED vars
  BY <1>5 DEF vars, IInv, TypeInv, Consistent
<1> QED
  BY <1>1, <1>2, <1>3, <1>4, <1>5 DEF Next

LEMMA Invariance == Spec => []IInv
<1> QED
  BY InitInv, StepInv, PTL DEF Spec

----------------------------------------------------------------------------
(***************************************************************************)
(* The classifications of the shell and of njs, side by side.  First the   *)
(* files: one that njs could not read was refused at the start.            *)
(***************************************************************************)
LEMMA ReadableFiles ==
    ASSUME NEW e \in Environment, NEW mode, Admitted(e, mode)
    PROVE  ~ReadThrows(e)
<1>1. \A c \in {e.keyId, e.secret, e.session} : ~FileRefused(c)
  BY DEF Admitted, Refused
<1>2. \A c \in {e.keyId, e.secret, e.session} : ~Throws(c)
  BY <1>1 DEF FileRefused, Throws
<1> QED
  BY <1>2 DEF ReadThrows

LEMMA AdmittedMode ==
    ASSUME NEW e \in Environment, NEW mode, Admitted(e, mode)
    PROVE  /\ mode # "MissingStatics"
           /\ mode = "AssumeRole" <=> Provider(e) = "AssumeRole"
           /\ mode \in {"ECS", "WebIdentity", "PodIdentity"} => Provider(e) \in {mode, "Static"}
           /\ mode = "Static" => Provider(e) = "Static"
<1>1. PICK imds \in BOOLEAN : mode = Announcement(e, imds)
  BY DEF Admitted
<1>2. mode \in {"MissingStatics", "Static"} => Statics(e)
  BY DEF Admitted, Refused, RequiredStatics, Statics
<1>3. AssumeRoleActive(e) <=> IsAssumeRoleMode(e)
  BY DEF AssumeRoleActive, AssumeRoleSelected, StaticCredentialsConfigured, IsAssumeRoleMode, Statics
<1>4. mode = "AssumeRole" <=> AssumeRoleActive(e)
  BY <1>1 DEF Announcement
<1>5. mode # "MissingStatics"
  BY <1>1, <1>2, <1>3 DEF Announcement, AssumeRoleActive, AssumeRoleSelected,
     StaticCredentialsConfigured, Statics
<1>6. mode = "AssumeRole" <=> Provider(e) = "AssumeRole"
  BY <1>3, <1>4 DEF Provider
<1>7. ASSUME mode = "ECS" PROVE Provider(e) \in {mode, "Static"}
  BY <1>1, <1>3, <1>7 DEF Announcement, Provider
<1>8. ASSUME mode = "WebIdentity" PROVE Provider(e) \in {mode, "Static"}
  BY <1>1, <1>3, <1>8 DEF Announcement, Provider
<1>9. ASSUME mode = "PodIdentity" PROVE Provider(e) \in {mode, "Static"}
  BY <1>1, <1>3, <1>9 DEF Announcement, Provider
<1>10. ASSUME mode = "Static" PROVE Provider(e) = "Static"
  BY <1>2, <1>3, <1>4, <1>10 DEF Provider
<1> QED
  BY <1>5, <1>6, <1>7, <1>8, <1>9, <1>10

----------------------------------------------------------------------------
(***************************************************************************)
(* Every variable keeps its type, and only a running gateway that was      *)
(* given what its mode asks for has served a request.                      *)
(***************************************************************************)
THEOREM TypeCorrect == Spec => []TypeOK
<1>1. IInv => TypeOK
  <2> SUFFICES ASSUME IInv PROVE TypeOK
    OBVIOUS
  <2>1. used # "none" => announced # "MissingStatics"
    BY AdmittedMode DEF IInv, TypeInv, Consistent
  <2> QED
    BY <2>1 DEF IInv, TypeInv, Consistent, TypeOK
<1> QED
  BY <1>1, Invariance, PTL

(***************************************************************************)
(* A gateway that started can read its credential files, in whatever mode. *)
(***************************************************************************)
THEOREM FilesStayReadable == Spec => []FilesReadable
<1>1. IInv => FilesReadable
  <2> SUFFICES ASSUME IInv, used = "error" PROVE FALSE
    BY DEF FilesReadable
  <2>1. env \in Environment /\ Admitted(env, announced)
    BY DEF IInv, TypeInv, Consistent
  <2>2. ReadThrows(env)
    BY ProviderType DEF IInv, Consistent, Providers
  <2> QED
    BY <2>1, <2>2, ReadableFiles
<1> QED
  BY <1>1, Invariance, PTL

(***************************************************************************)
(* Shell and njs classify the same environment alike, whatever settings    *)
(* are given in whatever order.                                            *)
(***************************************************************************)
LEMMA ServedBy ==
    ASSUME IInv, used # "none"
    PROVE  env \in Environment /\ Admitted(env, announced) /\ used = Provider(env)
BY ReadableFiles DEF IInv, TypeInv, Consistent

\* AssumeRole, the container providers and silent static mode: fetchCredentials
\* goes to what 00-check-for-required-env.sh has announced, whatever the environment.
THEOREM AnnouncedIsUsed == Spec => []RunsAsAnnounced
<1>1. IInv => RunsAsAnnounced
  BY ServedBy, AdmittedMode DEF RunsAsAnnounced
<1> QED
  BY <1>1, Invariance, PTL

(***************************************************************************)
(* Signature version 2 never meets temporary credentials.                  *)
(***************************************************************************)
THEOREM Version2HasNoToken == Spec => []Version2Tokenless
<1>1. IInv => Version2Tokenless
  <2> SUFFICES ASSUME IInv, used # "none", env.sigver = 2 PROVE ~Tokened
    BY DEF Version2Tokenless
  <2>1. Admitted(env, announced) /\ used = Provider(env)
    BY ServedBy
  <2>2. ~HasValue(env.session) /\ ~AssumeRoleActive(env) /\ StaticCredentialsConfigured(env)
    BY <2>1 DEF Admitted, Refused, TemporaryWithV2
  <2>3. Statics(env) /\ ~IsAssumeRoleMode(env)
    BY <2>2 DEF Statics, StaticCredentialsConfigured, IsAssumeRoleMode, AssumeRoleActive,
       AssumeRoleSelected
  <2> QED
    BY <2>1, <2>2, <2>3 DEF Tokened, Provider
<1> QED
  BY <1>1, Invariance, PTL

(***************************************************************************)
(* With a role ARN the gateway never runs on the role of its instance.     *)
(***************************************************************************)
THEOREM NeverTheInstancesRole == Spec => []RoleNeverFromInstance
<1>1. IInv => RoleNeverFromInstance
  <2> SUFFICES ASSUME IInv, env.arn = "value", used = "IMDS" PROVE FALSE
    BY DEF RoleNeverFromInstance
  <2>1. Admitted(env, announced) /\ used = Provider(env)
    BY ServedBy
  <2>2. /\ ~IsAssumeRoleMode(env) /\ ~Statics(env)
        /\ ~Present(env.ecs) /\ ~Present(env.webIdentity) /\ ~Present(env.pod)
    BY <2>1 DEF Provider
  <2>3. env.webIdentity # "value"
    BY <2>2 DEF Present
  <2>4. AssumeRoleSelected(env) /\ ~AssumeRoleActive(env)
    BY <2>2, <2>3 DEF AssumeRoleSelected, AssumeRoleActive, StaticCredentialsConfigured, Statics
  <2>5. announced = "MissingStatics"
    BY <2>1, <2>2, <2>4 DEF Admitted, Announcement
  <2> QED
    BY <2>1, <2>5, AdmittedMode DEF IInv, TypeInv
<1> QED
  BY <1>1, Invariance, PTL
=============================================================================

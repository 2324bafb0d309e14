--------------------------- MODULE ContainerStart ---------------------------
(***************************************************************************)
(* The start of the container: the scripts of docker-entrypoint.d that     *)
(* edit configuration files, in their order, until nginx loads what they   *)
(* left.  The files survive a crash, a restart and, in an image committed  *)
(* from a container, a change of its environment; every start edits them   *)
(* once more.  20-envsubst-on-templates.sh, which renders the templates,   *)
(* comes with the base image.                                              *)
(***************************************************************************)
EXTENDS Naturals, Sequences

CONSTANTS
    Certs,      \* certificate files the settings may name
    None        \* no setting, no file

IgnoreSettings == {"unset", "blank", "Expires"}
Ipv6Settings == {"unset", "on", "yes", "no"}

\* The environment of a container, 01-set-defaults.envsh applied.
Environments ==
    [https  : BOOLEAN,                  \* S3_SERVER_PROTO
     cert   : Certs,                    \* S3_TRUSTED_CERT_PATH
     jsCert : Certs \cup {None},        \* JS_TRUSTED_CERT_PATH
     ignore : IgnoreSettings,           \* PROXY_CACHE_IGNORE_HEADERS
     ipv6   : Ipv6Settings]             \* IPV6_ENABLED

Containers == [env : Environments, templateWritable : BOOLEAN, confWritable : BOOLEAN]

\* default.conf.template: how often a port is listened on for IPv6; does it
\* have a plain listen directive?
Templates == [listen6 : Nat, plain : BOOLEAN]

\* What was rendered into conf.d, and the directives appended to its stubs.
Confs == [listen6 : Nat, ssl : Seq(Certs), jsFetch : Seq(Certs), ignore : Seq({"Expires"})]

ASSUME NoneAssumption == None \notin Certs /\ None \notin Confs

VARIABLES
    container,  \* as it was created
    kernel6,    \* does the kernel support IPv6 (/proc/net/if_inet6)?
    present,    \* the certificate files that exist
    template,
    conf,       \* None before the first rendering
    step        \* the script to run next, or how the start ended

vars == <<container, kernel6, present, template, conf, step>>

Scripts == {"00", "02", "20", "22", "23", "25", "nginx"}

TypeOK ==
    /\ container \in Containers
    /\ kernel6 \in BOOLEAN
    /\ present \subseteq Certs
    /\ template \in Templates
    /\ conf \in Confs \cup {None}
    /\ step \in Scripts \cup {"stopped", "refused", "running"}

env == container.env

Init ==
    /\ container \in Containers
    /\ kernel6 \in BOOLEAN
    /\ present = Certs
    /\ template \in [listen6 : {0, 1}, plain : BOOLEAN]
    /\ conf = None
    /\ step = "stopped"

-----------------------------------------------------------------------------
Start ==
    /\ step = "stopped"
    /\ step' = "00"
    /\ UNCHANGED <<container, kernel6, present, template, conf>>

(* 00-check-for-required-env.sh: spellings, not the presence of files.     *)
CheckEnvironment ==
    /\ step = "00"
    /\ step' = IF env.ipv6 = "on" \/ env.ignore = "blank" THEN "stopped" ELSE "02"
    /\ UNCHANGED <<container, kernel6, present, template, conf>>

(* Mutant: the kernel decides, whatever the setting says.                  *)
Ipv6WantedByKernel == kernel6

(* An explicit setting wins over what the kernel says.                     *)
Ipv6Wanted == env.ipv6 = "yes" \/ (env.ipv6 = "unset" /\ kernel6)

(* Mutant: does not look whether a directive is already there.             *)
Ipv6EnableAgain ==
    /\ step = "02"
    /\ template' = IF ~container.templateWritable THEN template
                   ELSE IF ~Ipv6Wanted THEN [template EXCEPT !.listen6 = 0]
                   ELSE IF template.plain THEN [template EXCEPT !.listen6 = @ + 1] ELSE template
    /\ step' = "20"
    /\ UNCHANGED <<container, kernel6, present, conf>>

(* 02-ipv6-enable.sh: takes the directives out, or puts one beside every   *)
(* plain listen; a template that cannot be modified is left as it is.      *)
Ipv6Enable ==
    /\ step = "02"
    /\ template' = IF ~container.templateWritable THEN template
                   ELSE IF ~Ipv6Wanted THEN [template EXCEPT !.listen6 = 0]
                   ELSE IF template.listen6 = 0 /\ template.plain
                        THEN [template EXCEPT !.listen6 = 1] ELSE template
    /\ step' = "20"
    /\ UNCHANGED <<container, kernel6, present, conf>>

(* Renders default.conf and empty stubs; where it cannot write it goes on. *)
Envsubst ==
    /\ step = "20"
    /\ conf' = IF container.confWritable
               THEN [listen6 |-> template.listen6, ssl |-> << >>, jsFetch |-> << >>, ignore |-> << >>]
               ELSE conf
    /\ step' = "22"
    /\ UNCHANGED <<container, kernel6, present, template>>

(* Under set -e a line that cannot be appended ends the start.             *)
AppendOrStop(field, line, next) ==
    IF conf # None /\ container.confWritable
    THEN conf' = [conf EXCEPT ![field] = Append(@, line)] /\ step' = next
    ELSE conf' = conf /\ step' = "stopped"

(* 22-enable_js_fetch_trusted_certificate.sh                               *)
EnableJsFetchCertificate ==
    /\ step = "22"
    /\ IF conf = None \/ env.jsCert = None THEN step' = "23" /\ UNCHANGED conf
       ELSE IF env.jsCert \notin present THEN step' = "stopped" /\ UNCHANGED conf
       ELSE AppendOrStop("jsFetch", env.jsCert, "23")
    /\ UNCHANGED <<container, kernel6, present, template>>

(* Mutant: a warning and no error when the certificates are missing.       *)
EnableS3ProxySslIfPresent ==
    /\ step = "23"
    /\ IF ~env.https \/ env.cert \notin present THEN step' = "25" /\ UNCHANGED conf
       ELSE AppendOrStop("ssl", env.cert, "25")
    /\ UNCHANGED <<container, kernel6, present, template>>

(* 23-enable_s3_proxy_ssl.sh: verification of S3's certificate.            *)
EnableS3ProxySsl ==
    /\ step = "23"
    /\ IF ~env.https THEN step' = "25" /\ UNCHANGED conf
       ELSE IF env.cert \notin present THEN step' = "stopped" /\ UNCHANGED conf
       ELSE AppendOrStop("ssl", env.cert, "25")
    /\ UNCHANGED <<container, kernel6, present, template>>

(* 25-set-proxy-ignore-headers.sh                                          *)
SetProxyIgnoreHeaders ==
    /\ step = "25"
    /\ IF env.ignore = "unset" THEN step' = "nginx" /\ UNCHANGED conf
       ELSE AppendOrStop("ignore", env.ignore, "nginx")
    /\ UNCHANGED <<container, kernel6, present, template>>

(* nginx.conf includes by name a file that only rendering puts into conf.d *)
(* (gateway/logging.conf), so without it nginx refuses.  It also refuses a *)
(* directive given twice (of proxy_ignore_headers, which adds up, one      *)
(* without a name), a certificate that is not there, and an address the    *)
(* kernel does not know.                                                   *)
Loads ==
    /\ conf # None
    /\ conf.listen6 <= 1
    /\ Len(conf.ssl) <= 1 /\ Len(conf.jsFetch) <= 1
    /\ \A i \in DOMAIN conf.ignore : conf.ignore[i] # "blank"
    /\ \A i \in DOMAIN conf.ssl : conf.ssl[i] \in present
    /\ \A i \in DOMAIN conf.jsFetch : conf.jsFetch[i] \in present
    /\ conf.listen6 > 0 => kernel6

StartNginx ==
    /\ step = "nginx"
    /\ step' = IF Loads THEN "running" ELSE "refused"
    /\ UNCHANGED <<container, kernel6, present, template, conf>>
-----------------------------------------------------------------------------
(* Killed, in the middle of a start or later; all files stay.              *)
Kill ==
    /\ step # "stopped"
    /\ step' = "stopped"
    /\ UNCHANGED <<container, kernel6, present, template, conf>>

(* A volume with certificates is mounted or changes, whenever it likes.    *)
ChangeCertificates ==
    /\ present' \in SUBSET Certs
    /\ UNCHANGED <<container, kernel6, template, conf, step>>

(* The host boots another kernel.                                          *)
RebootHost ==
    /\ step = "stopped"
    /\ kernel6' = ~kernel6
    /\ UNCHANGED <<container, present, template, conf, step>>

(* The container is committed to an image and created anew with another    *)
(* setting, or with a file system that is read-only or no longer so; any   *)
(* number of settings by doing this again.                                 *)
SetEnvironment ==
    \/ \E v \in BOOLEAN : container' = [container EXCEPT !.env.https = v]
    \/ \E v \in Certs : container' = [container EXCEPT !.env.cert = v]
    \/ \E v \in Certs \cup {None} : container' = [container EXCEPT !.env.jsCert = v]
    \/ \E v \in IgnoreSettings : container' = [container EXCEPT !.env.ignore = v]
    \/ \E v \in Ipv6Settings : container' = [container EXCEPT !.env.ipv6 = v]

Recreate ==
    /\ step = "stopped"
    /\ \/ SetEnvironment
       \/ container' = [container EXCEPT !.templateWritable = ~@]
       \/ container' = [container EXCEPT !.confWritable = ~@]
    /\ UNCHANGED <<kernel6, present, template, conf, step>>

Next ==
    \/ Start \/ CheckEnvironment \/ Ipv6Enable \/ Envsubst \/ EnableJsFetchCertificate
    \/ EnableS3ProxySsl \/ SetProxyIgnoreHeaders \/ StartNginx
    \/ Kill \/ ChangeCertificates \/ RebootHost \/ Recreate

Spec == Init /\ [][Next]_vars
-----------------------------------------------------------------------------
(* PROPERTIES *)

(* With S3_SERVER_PROTO=https the gateway verifies S3 against the          *)
(* certificates its settings name or does not run, whatever was left by    *)
(* earlier starts, can be written or vanishes meanwhile.                   *)
VerifiedOrDown == step = "running" /\ env.https => conf # None /\ conf.ssl = <<env.cert>>

(* nginx loads what the scripts left: no number of starts and crashes      *)
(* piles up directives (the comment in 25-set-proxy-ignore-headers.sh).    *)
(* It refuses only where nothing was ever rendered because nothing could   *)
(* be, a certificate that is gone, and IPv6 listeners that nobody could    *)
(* take out or that the settings insist on.                                *)
RefusedWithReason ==
    \/ present # Certs
    \/ conf = None /\ ~container.confWritable
    \/ /\ conf # None /\ conf.listen6 = 1 /\ ~kernel6
       /\ env.ipv6 = "yes" \/ ~container.templateWritable \/ ~container.confWritable

LoadsAgain == [][step # "refused" /\ step' = "refused" => RefusedWithReason]_vars

(* A gateway that could edit its files listens on IPv6 if the settings say *)
(* so or leave it to a kernel that supports it, and in no other case (a    *)
(* template without a plain listen has no directive to put it beside).     *)
Ipv6AsWanted ==
    step = "running" /\ container.templateWritable /\ container.confWritable =>
        /\ conf.listen6 > 0 => env.ipv6 # "no" /\ (env.ipv6 = "yes" \/ kernel6)
        /\ template.plain /\ conf.listen6 = 0 => env.ipv6 # "yes" /\ (env.ipv6 = "no" \/ ~kernel6)
=============================================================================

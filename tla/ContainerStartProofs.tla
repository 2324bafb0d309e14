------------------------ MODULE ContainerStartProofs ------------------------
(* Proofs about ContainerStart, for any set of certificates and any number *)
(* of starts, crashes, reboots and changes of the settings.                *)
EXTENDS ContainerStart, TLAPS

Edits == CheckEnvironment \/ Ipv6Enable \/ Envsubst \/ EnableJsFetchCertificate
         \/ EnableS3ProxySsl \/ SetProxyIgnoreHeaders \/ StartNginx

Surroundings == Kill \/ ChangeCertificates \/ RebootHost \/ Recreate

(* What an appending script does, one definition for each stub.            *)
Appends == conf # None /\ container.confWritable

JsFetchAppended == Appends /\ conf' = [conf EXCEPT !.jsFetch = Append(@, container.env.jsCert)]
SslAppended == Appends /\ conf' = [conf EXCEPT !.ssl = Append(@, container.env.cert)]
IgnoreAppended == Appends /\ conf' = [conf EXCEPT !.ignore = Append(@, container.env.ignore)]

LEMMA JsFetchCases ==
    ASSUME EnableJsFetchCertificate
    PROVE  /\ step = "22" /\ step' \in {"23", "stopped"}
           /\ \/ conf' = conf
              \/ JsFetchAppended /\ container.env.jsCert # None
           /\ UNCHANGED <<container, kernel6, present, template>>
  BY DEF EnableJsFetchCertificate, AppendOrStop, Appends, JsFetchAppended, env

LEMMA SslCases ==
    ASSUME EnableS3ProxySsl
    PROVE  /\ step = "23" /\ step' \in {"25", "stopped"}
           /\ \/ conf' = conf /\ (step' = "25" => ~container.env.https)
              \/ SslAppended /\ step' = "25"
           /\ UNCHANGED <<container, kernel6, present, template>>
  BY DEF EnableS3ProxySsl, AppendOrStop, Appends, SslAppended, env

LEMMA IgnoreCases ==
    ASSUME SetProxyIgnoreHeaders
    PROVE  /\ step = "25" /\ step' \in {"nginx", "stopped"}
           /\ \/ conf' = conf
              \/ IgnoreAppended /\ container.env.ignore # "unset"
           /\ UNCHANGED <<container, kernel6, present, template>>
  BY DEF SetProxyIgnoreHeaders, AppendOrStop, Appends, IgnoreAppended, env

(* An appended line changes one stub and nothing else.                     *)
LEMMA Appended ==
    ASSUME conf \in Confs
    PROVE  /\ JsFetchAppended /\ container.env.jsCert \in Certs =>
               /\ conf' \in Confs /\ conf'.jsFetch = Append(conf.jsFetch, container.env.jsCert)
               /\ conf'.listen6 = conf.listen6 /\ conf'.ssl = conf.ssl /\ conf'.ignore = conf.ignore
           /\ SslAppended /\ container.env.cert \in Certs =>
               /\ conf' \in Confs /\ conf'.ssl = Append(conf.ssl, container.env.cert)
               /\ conf'.listen6 = conf.listen6 /\ conf'.jsFetch = conf.jsFetch /\ conf'.ignore = conf.ignore
           /\ IgnoreAppended /\ container.env.ignore = "Expires" =>
               /\ conf' \in Confs /\ conf'.ignore = Append(conf.ignore, container.env.ignore)
               /\ conf'.listen6 = conf.listen6 /\ conf'.ssl = conf.ssl /\ conf'.jsFetch = conf.jsFetch
  <1>1. JsFetchAppended /\ container.env.jsCert \in Certs =>
            /\ conf' \in Confs /\ conf'.jsFetch = Append(conf.jsFetch, container.env.jsCert)
            /\ conf'.listen6 = conf.listen6 /\ conf'.ssl = conf.ssl /\ conf'.ignore = conf.ignore
    <2> DEFINE new == Append(conf.jsFetch, container.env.jsCert)
    <2>1. SUFFICES ASSUME JsFetchAppended, container.env.jsCert \in Certs
                   PROVE  /\ conf' \in Confs /\ conf'.jsFetch = new
                          /\ conf'.listen6 = conf.listen6 /\ conf'.ssl = conf.ssl /\ conf'.ignore = conf.ignore
      OBVIOUS
    <2>2. conf.jsFetch \in Seq(Certs)
      BY DEF Confs
    <2>3. new \in Seq(Certs)
      BY <2>1, <2>2
    <2>4. conf' = [conf EXCEPT !.jsFetch = new]
      BY <2>1 DEF JsFetchAppended
    <2> HIDE DEF new
    <2> QED
      BY <2>3, <2>4 DEF Confs
  <1>2. SslAppended /\ container.env.cert \in Certs =>
            /\ conf' \in Confs /\ conf'.ssl = Append(conf.ssl, container.env.cert)
            /\ conf'.listen6 = conf.listen6 /\ conf'.jsFetch = conf.jsFetch /\ conf'.ignore = conf.ignore
    <2> DEFINE new == Append(conf.ssl, container.env.cert)
    <2>1. SUFFICES ASSUME SslAppended, container.env.cert \in Certs
                   PROVE  /\ conf' \in Confs /\ conf'.ssl = new
                          /\ conf'.listen6 = conf.listen6 /\ conf'.jsFetch = conf.jsFetch /\ conf'.ignore = conf.ignore
      OBVIOUS
    <2>2. conf.ssl \in Seq(Certs)
      BY DEF Confs
    <2>3. new \in Seq(Certs)
      BY <2>1, <2>2
    <2>4. conf' = [conf EXCEPT !.ssl = new]
      BY <2>1 DEF SslAppended
    <2> HIDE DEF new
    <2> QED
      BY <2>3, <2>4 DEF Confs
  <1>3. IgnoreAppended /\ container.env.ignore = "Expires" =>
            /\ conf' \in Confs /\ conf'.ignore = Append(conf.ignore, container.env.ignore)
            /\ conf'.listen6 = conf.listen6 /\ conf'.ssl = conf.ssl /\ conf'.jsFetch = conf.jsFetch
    <2> DEFINE new == Append(conf.ignore, container.env.ignore)
    <2>1. SUFFICES ASSUME IgnoreAppended, container.env.ignore = "Expires"
                   PROVE  /\ conf' \in Confs /\ conf'.ignore = new
                          /\ conf'.listen6 = conf.listen6 /\ conf'.ssl = conf.ssl /\ conf'.jsFetch = conf.jsFetch
      OBVIOUS
    <2>2. conf.ignore \in Seq({"Expires"})
      BY DEF Confs
    <2>3. new \in Seq({"Expires"})
      BY <2>1, <2>2
    <2>4. conf' = [conf EXCEPT !.ignore = new]
      BY <2>1 DEF IgnoreAppended
    <2> HIDE DEF new
    <2> QED
      BY <2>3, <2>4 DEF Confs
  <1> QED
    BY <1>1, <1>2, <1>3

LEMMA FirstLine ==
    ASSUME NEW x
    PROVE  Append(<< >>, x) = <<x>> /\ Len(<<x>>) = 1
  OBVIOUS

(* 00 has let through no other value to be appended.                       *)
Checked ==
    step \notin {"00", "stopped", "refused"} =>
        container.env.ignore # "blank" /\ container.env.ipv6 # "on"

LEMMA EnvironmentTyped ==
    ASSUME container \in Containers
    PROVE  /\ container.env.cert \in Certs
           /\ container.env.jsCert # None => container.env.jsCert \in Certs
           /\ container.env.ignore \in {"unset", "blank", "Expires"}
           /\ container.env.ipv6 \in {"unset", "on", "yes", "no"}
           /\ container.env.https \in BOOLEAN
  BY DEF Containers, Environments, IgnoreSettings, Ipv6Settings

LEMMA RecreatedIsContainer ==
    ASSUME container \in Containers, Recreate
    PROVE  container' \in Containers
  <1>1. ASSUME NEW v \in BOOLEAN, container' = [container EXCEPT !.env.https = v]
       PROVE  container' \in Containers
    <2>1. [container.env EXCEPT !.https = v] \in Environments
      BY <1>1 DEF Containers, Environments
    <2>2. container' = [container EXCEPT !.env = [container.env EXCEPT !.https = v]]
      BY <1>1
    <2> QED
      BY <2>1, <2>2 DEF Containers
  <1>2. ASSUME NEW v \in Certs, container' = [container EXCEPT !.env.cert = v]
       PROVE  container' \in Containers
    <2>1. [container.env EXCEPT !.cert = v] \in Environments
      BY <1>2 DEF Containers, Environments
    <2>2. container' = [container EXCEPT !.env = [container.env EXCEPT !.cert = v]]
      BY <1>2
    <2> QED
      BY <2>1, <2>2 DEF Containers
  <1>3. ASSUME NEW v \in Certs \cup {None}, container' = [container EXCEPT !.env.jsCert = v]
       PROVE  container' \in Containers
    <2>1. [container.env EXCEPT !.jsCert = v] \in Environments
      BY <1>3 DEF Containers, Environments
    <2>2. container' = [container EXCEPT !.env = [container.env EXCEPT !.jsCert = v]]
      BY <1>3
    <2> QED
      BY <2>1, <2>2 DEF Containers
  <1>4. ASSUME NEW v \in IgnoreSettings, container' = [container EXCEPT !.env.ignore = v]
       PROVE  container' \in Containers
    <2>1. [container.env EXCEPT !.ignore = v] \in Environments
      BY <1>4 DEF Containers, Environments
    <2>2. container' = [container EXCEPT !.env = [container.env EXCEPT !.ignore = v]]
      BY <1>4
    <2> QED
      BY <2>1, <2>2 DEF Containers
  <1>5. ASSUME NEW v \in Ipv6Settings, container' = [container EXCEPT !.env.ipv6 = v]
       PROVE  container' \in Containers
    <2>1. [container.env EXCEPT !.ipv6 = v] \in Environments
      BY <1>5 DEF Containers, Environments
    <2>2. container' = [container EXCEPT !.env = [container.env EXCEPT !.ipv6 = v]]
      BY <1>5
    <2> QED
      BY <2>1, <2>2 DEF Containers
  <1>6. CASE container' = [container EXCEPT !.templateWritable = ~@]
    BY <1>6 DEF Containers
  <1>7. CASE container' = [container EXCEPT !.confWritable = ~@]
    BY <1>7 DEF Containers
  <1> QED
    BY <1>1, <1>2, <1>3, <1>4, <1>5, <1>6, <1>7 DEF Recreate, SetEnvironment

LEMMA TypeStep ==
    ASSUME TypeOK, Checked, [Next]_vars
    PROVE  TypeOK' /\ Checked'
  <1> USE DEF TypeOK, Checked, Scripts
  <1>1. CASE Start \/ Kill \/ ChangeCertificates \/ RebootHost \/ UNCHANGED vars
    BY <1>1 DEF Start, Kill, ChangeCertificates, RebootHost, vars
  <1>2. CASE CheckEnvironment
    BY <1>2 DEF CheckEnvironment, env
  <1>3. CASE Ipv6Enable
    BY <1>3 DEF Ipv6Enable, Templates
  <1>4. CASE Envsubst
    BY <1>4 DEF Envsubst, Templates, Confs
  <1>5. CASE EnableJsFetchCertificate
    BY <1>5, JsFetchCases, EnvironmentTyped, Appended DEF JsFetchAppended, Appends
  <1>6. CASE EnableS3ProxySsl
    BY <1>6, SslCases, EnvironmentTyped, Appended DEF SslAppended, Appends
  <1>7. CASE SetProxyIgnoreHeaders
    BY <1>7, IgnoreCases, EnvironmentTyped, Appended DEF IgnoreAppended, Appends
  <1>8. CASE StartNginx
    BY <1>8 DEF StartNginx
  <1>9. CASE Recreate
    BY <1>9, RecreatedIsContainer DEF Recreate
  <1> QED
    BY <1>1, <1>2, <1>3, <1>4, <1>5, <1>6, <1>7, <1>8, <1>9 DEF Next

(* Every variable keeps its type.                                          *)
THEOREM TypeCorrect == Spec => [](TypeOK /\ Checked)
  <1>1. Init => TypeOK /\ Checked
    BY DEF Init, TypeOK, Checked, Templates
  <1>2. TypeOK /\ Checked /\ [Next]_vars => (TypeOK /\ Checked)'
    BY TypeStep
  <1> QED
    BY <1>1, <1>2, PTL DEF Spec
-----------------------------------------------------------------------------
(* What each script finds done by those before it in the same start.       *)
TemplateEdited ==
    step \in {"20", "22", "23", "25", "nginx", "running"} /\ container.templateWritable =>
        /\ template.listen6 > 0 => Ipv6Wanted
        /\ Ipv6Wanted /\ template.plain => template.listen6 > 0

Rendered ==
    step \in {"22", "23", "25", "nginx", "running"} /\ container.confWritable =>
        conf # None /\ conf.listen6 = template.listen6

StubsEmpty ==
    container.confWritable =>
        /\ step = "22" => conf.jsFetch = << >>
        /\ step \in {"22", "23"} => conf.ssl = << >>
        /\ step \in {"22", "23", "25"} => conf.ignore = << >>

Verified ==
    step \in {"25", "nginx", "running"} /\ container.env.https => conf # None /\ conf.ssl = <<container.env.cert>>

AtMostOnce ==
    /\ template.listen6 <= 1
    /\ conf # None => /\ conf.listen6 <= 1 /\ Len(conf.ssl) <= 1
                      /\ Len(conf.jsFetch) <= 1 /\ Len(conf.ignore) <= 1

Staged == TemplateEdited /\ Rendered /\ StubsEmpty /\ Verified /\ AtMostOnce

LEMMA StagedEdits ==
    ASSUME TypeOK, Checked, Staged, Edits
    PROVE  Staged'
  <1> USE DEF Staged, TemplateEdited, Rendered, StubsEmpty, Verified, AtMostOnce
  <1>1. CASE CheckEnvironment
    BY <1>1 DEF CheckEnvironment
  <1>2. CASE StartNginx
    BY <1>2 DEF StartNginx, Ipv6Wanted, env
  <1>3. CASE Ipv6Enable
    BY <1>3 DEF Ipv6Enable, Ipv6Wanted, TypeOK, Templates, env
  <1>4. CASE Envsubst
    <2> DEFINE new == [listen6 |-> template.listen6, ssl |-> << >>, jsFetch |-> << >>,
                       ignore |-> << >>]
    <2>1. new \in Confs
      BY DEF Confs, TypeOK, Templates
    <2>2. /\ step = "20" /\ step' = "22"
          /\ conf' = IF container.confWritable THEN new ELSE conf
          /\ UNCHANGED <<container, kernel6, present, template>>
      BY <1>4 DEF Envsubst
    <2>3. /\ new # None
          /\ new.listen6 = template.listen6 /\ new.ssl = << >>
          /\ new.jsFetch = << >> /\ new.ignore = << >>
      BY <2>1, NoneAssumption
    <2>4. Len(<< >>) = 0
      OBVIOUS
    <2> HIDE DEF new
    <2> QED
      BY <2>2, <2>3, <2>4 DEF Ipv6Wanted, env
  <1>5. CASE EnableJsFetchCertificate
    <2>1. CASE conf' = conf
      BY <1>5, <2>1, JsFetchCases DEF Ipv6Wanted, env
    <2>2. CASE JsFetchAppended /\ container.env.jsCert # None
      <3>1. conf \in Confs /\ conf.jsFetch = << >> /\ container.env.jsCert \in Certs
        BY <1>5, <2>2, JsFetchCases, EnvironmentTyped DEF JsFetchAppended, Appends, TypeOK
      <3>2. /\ conf' # None /\ conf'.jsFetch = Append(<< >>, container.env.jsCert)
            /\ conf'.listen6 = conf.listen6 /\ conf'.ssl = conf.ssl /\ conf'.ignore = conf.ignore
        <4> HIDE DEF Staged, TemplateEdited, Rendered, StubsEmpty, Verified, AtMostOnce
        <4> QED
          BY <2>2, <3>1, Appended, NoneAssumption
      <3>3. Len(conf'.jsFetch) = 1
        BY <3>2, FirstLine
      <3> QED
        BY <1>5, <2>2, <3>2, <3>3, JsFetchCases DEF JsFetchAppended, Appends, Ipv6Wanted, env
    <2> QED
      BY <1>5, <2>1, <2>2, JsFetchCases
  <1>6. CASE EnableS3ProxySsl
    <2>1. CASE conf' = conf /\ (step' = "25" => ~container.env.https)
      BY <1>6, <2>1, SslCases DEF Ipv6Wanted, env
    <2>2. CASE SslAppended /\ step' = "25"
      <3>1. conf \in Confs /\ conf.ssl = << >> /\ container.env.cert \in Certs
        BY <1>6, <2>2, SslCases, EnvironmentTyped DEF SslAppended, Appends, TypeOK
      <3>2. /\ conf' # None /\ conf'.ssl = Append(<< >>, container.env.cert)
            /\ conf'.listen6 = conf.listen6 /\ conf'.jsFetch = conf.jsFetch
            /\ conf'.ignore = conf.ignore
        <4> HIDE DEF Staged, TemplateEdited, Rendered, StubsEmpty, Verified, AtMostOnce
        <4> QED
          BY <2>2, <3>1, Appended, NoneAssumption
      <3>3. conf'.ssl = <<container.env.cert>> /\ Len(conf'.ssl) = 1
        BY <3>2, FirstLine
      <3> QED
        BY <1>6, <2>2, <3>2, <3>3, SslCases DEF SslAppended, Appends, Ipv6Wanted, env
    <2> QED
      BY <1>6, <2>1, <2>2, SslCases
  <1>7. CASE SetProxyIgnoreHeaders
    <2>1. CASE conf' = conf
      BY <1>7, <2>1, IgnoreCases DEF Ipv6Wanted, env
    <2>2. CASE IgnoreAppended /\ container.env.ignore # "unset"
      <3>1. conf \in Confs /\ conf.ignore = << >> /\ container.env.ignore = "Expires"
        BY <1>7, <2>2, IgnoreCases, EnvironmentTyped DEF IgnoreAppended, Appends, TypeOK, Checked
      <3>2. /\ conf' # None /\ conf'.ignore = Append(<< >>, container.env.ignore)
            /\ conf'.listen6 = conf.listen6 /\ conf'.ssl = conf.ssl /\ conf'.jsFetch = conf.jsFetch
        <4> HIDE DEF Staged, TemplateEdited, Rendered, StubsEmpty, Verified, AtMostOnce
        <4> QED
          BY <2>2, <3>1, Appended, NoneAssumption
      <3>3. Len(conf'.ignore) = 1
        BY <3>2, FirstLine
      <3> QED
        BY <1>7, <2>2, <3>2, <3>3, IgnoreCases DEF IgnoreAppended, Appends, Ipv6Wanted, env
    <2> QED
      BY <1>7, <2>1, <2>2, IgnoreCases
  <1> QED
    BY <1>1, <1>2, <1>3, <1>4, <1>5, <1>6, <1>7 DEF Edits

(* What happens around a start stops it or leaves what it edited.          *)
LEMMA StagedSurroundings ==
    ASSUME Staged, Start \/ Surroundings \/ UNCHANGED vars
    PROVE  Staged'
  <1> USE DEF Staged, TemplateEdited, Rendered, StubsEmpty, Verified, AtMostOnce, Ipv6Wanted, env
  <1>1. CASE Start
    BY <1>1 DEF Start
  <1>2. CASE Kill
    BY <1>2 DEF Kill
  <1>3. CASE ChangeCertificates
    BY <1>3 DEF ChangeCertificates
  <1>4. CASE RebootHost \/ Recreate
    <2>1. step = "stopped" /\ step' = "stopped" /\ UNCHANGED <<template, conf>>
      BY <1>4 DEF RebootHost, Recreate
    <2> QED
      BY <2>1
  <1>5. CASE UNCHANGED vars
    BY <1>5 DEF vars
  <1> QED
    BY <1>1, <1>2, <1>3, <1>4, <1>5 DEF Surroundings

(* At every stage of every start the stages before have left what the next *)
(* ones rely on: stubs are empty before a script appends to them.          *)
THEOREM StagedAlways == Spec => []Staged
  <1>1. Init => Staged
    BY DEF Init, Staged, TemplateEdited, Rendered, StubsEmpty, Verified, AtMostOnce
  <1>2. TypeOK /\ Checked /\ Staged /\ [Next]_vars => Staged'
    BY StagedEdits, StagedSurroundings DEF Next, Edits, Surroundings
  <1> QED
    BY <1>1, <1>2, TypeCorrect, PTL DEF Spec
-----------------------------------------------------------------------------
(* Over https a running gateway verifies S3 against the certificates its   *)
(* settings name, whatever happened to its files.                          *)
THEOREM NeverUnverified == Spec => []VerifiedOrDown
  <1>1. Staged => VerifiedOrDown
    BY DEF Staged, Verified, VerifiedOrDown, env
  <1> QED
    BY <1>1, StagedAlways, PTL

(* A running gateway that could edit its files listens on IPv6 exactly if  *)
(* it is to.                                                               *)
THEOREM Ipv6Follows == Spec => []Ipv6AsWanted
  <1>1. TypeOK /\ Checked /\ Staged => Ipv6AsWanted
    BY EnvironmentTyped DEF TypeOK, Checked, Staged, TemplateEdited, Rendered, Ipv6Wanted,
                            Ipv6AsWanted, Templates, env
  <1> QED
    BY <1>1, TypeCorrect, StagedAlways, PTL

LEMMA LoadsAgainStep ==
    ASSUME TypeOK, Checked, Staged, step # "refused", step' = "refused", [Next]_vars
    PROVE  RefusedWithReason
  <1>1. StartNginx /\ ~Loads
    BY DEF Next, Start, CheckEnvironment, Ipv6Enable, Envsubst, EnableJsFetchCertificate,
           EnableS3ProxySsl, SetProxyIgnoreHeaders, AppendOrStop, StartNginx, Kill,
           ChangeCertificates, RebootHost, Recreate, vars
  <1>2. CASE present # Certs
    BY <1>2 DEF RefusedWithReason
  <1>3. CASE conf = None
    <2>1. step = "nginx"
      BY <1>1 DEF StartNginx
    <2>2. container.confWritable => conf # None
      BY <2>1 DEF Staged, Rendered
    <2> QED
      BY <1>3, <2>2 DEF RefusedWithReason
  <1>4. CASE present = Certs
    <2> SUFFICES ASSUME conf # None PROVE RefusedWithReason
      BY <1>3
    <2>1. step = "nginx" /\ conf \in Confs
      BY <1>1 DEF StartNginx, TypeOK
    <2>2. /\ \A i \in DOMAIN conf.ssl : conf.ssl[i] \in present
          /\ \A i \in DOMAIN conf.jsFetch : conf.jsFetch[i] \in present
          /\ \A i \in DOMAIN conf.ignore : conf.ignore[i] # "blank"
      BY <1>4, <2>1 DEF Confs
    <2>3. conf.listen6 > 0 /\ ~kernel6
      BY <1>1, <2>1, <2>2 DEF Loads, Staged, AtMostOnce
    <2>4. conf.listen6 = 1
      BY <2>1, <2>3 DEF Staged, AtMostOnce, Confs
    <2>5. container.templateWritable /\ container.confWritable => container.env.ipv6 = "yes"
      BY <2>1, <2>3 DEF Staged, TemplateEdited, Rendered, Ipv6Wanted, env
    <2>6. container.templateWritable \in BOOLEAN /\ container.confWritable \in BOOLEAN
      BY DEF TypeOK, Containers
    <2> QED
      BY <2>3, <2>4, <2>5, <2>6 DEF RefusedWithReason, env
  <1> QED
    BY <1>2, <1>4

(* No number of starts, crashes and reboots leaves files nginx refuses for *)
(* any reason but a missing certificate, unremovable IPv6 listeners, or a  *)
(* file system on which nothing could ever be rendered.                    *)
THEOREM EveryStartLoads == Spec => LoadsAgain
  <1>1. TypeOK /\ Checked /\ Staged /\ [Next]_vars
            => [step # "refused" /\ step' = "refused" => RefusedWithReason]_vars
    BY LoadsAgainStep
  <1> QED
    BY <1>1, TypeCorrect, StagedAlways, PTL DEF Spec, LoadsAgain
=============================================================================

----------------------------- MODULE KymaConfig -----------------------------
(***************************************************************************)
(* compileInstallationConfig (controllers/cfapi/controller.go) and the     *)
(* lookups it makes in Kyma (controllers/kyma, controllers/cfapi/secrets), *)
(* one read after the other while the CR and Kyma change, and what the     *)
(* reconciler does with the outcome: a config that goes to the charts and  *)
(* into the status, a Warning with a retry, or a panic, which              *)
(* controller-runtime turns into a retry without a patch.                  *)
(*                                                                         *)
(* Texts that are cut or put together are sequences of their pieces: a     *)
(* host of its characters, the last one standing for all the rest; a token *)
(* URL of its labels.                                                      *)
(***************************************************************************)
EXTENDS SequencesExt

CONSTANTS
    Texts,       \* texts that are not empty
    Nil,         \* an empty field of the spec
    Absent,      \* an object that does not exist
    Garbled,     \* a secret that is no docker config
    Specs,       \* what users may write into the CR
    Worlds,      \* what may be found in Kyma
    MaxChanges   \* bound on changes of the CR and of Kyma

KymaSecret == "dockerregistry-config-external"

\* The texts in the code.
Literals == {"contour", "istio", "contour-envoy", "korifi-istio", KymaSecret, "/", "/cfapi/kpack-builder",
             "https://uaa.cf"}

\* The fields of the spec that the lookups depend on.
SpecType ==
    [gateway : {Nil} \cup Texts, secret : {Nil} \cup Texts, prefix : {Nil} \cup Seq(Texts),
     builder : {Nil} \cup Seq(Texts), uaa : {Nil} \cup Seq(Texts), admins : Seq(Texts)]

Subjects == [kind : Texts, name : Texts]
Bindings == [role : Texts, subjects : Seq(Subjects)]

\* What the operator reads in Kyma: the state of Istio's alpha API, the hosts of
\* the servers of the Kyma gateway, the CRDs, the registry in Kyma's secret, the
\* registries in the user's, the token URL of the BTP operator, the role bindings.
WorldType ==
    [istio : Texts, gateway : {Absent} \cup Seq(Seq(Seq(Texts))), crds : SUBSET Texts,
     kymaSecret : {Absent, Nil} \cup Texts, userSecret : {Absent, Garbled} \cup SUBSET Texts,
     btpSecret : {Absent, Nil} \cup Seq(Texts), bindings : SUBSET Bindings]

ASSUME ConfigAssumption ==
    /\ MaxChanges \in Nat
    /\ Literals \subseteq Texts
    /\ Nil \notin Texts \cup Seq(Texts)
    /\ Specs \subseteq SpecType
    /\ Worlds \subseteq WorldType
    /\ \A k \in Worlds : IsFiniteSet(k.bindings)

VARIABLES
    spec,        \* spec of the CR
    kyma,        \* the Kyma objects the operator reads
    queued,      \* the CR's key is in the work queue
    timer,       \* the key is to be queued later
    pc,          \* the next lookup of the running reconcile
    seen,        \* the spec the running reconcile has read
    conf,        \* the config compiled so far
    quiet,       \* history: nothing has changed in Kyma since it began
    status,      \* state and config in the CR's status
    released,    \* the config the charts were last applied with
    changes

vars == <<spec, kyma, queued, timer, pc, seen, conf, quiet, status, released, changes>>

NoConfig == [gateway |-> Nil, ingress |-> Nil, domain |-> Nil, secret |-> Nil, registry |-> Nil,
             prefix |-> Nil, builder |-> Nil, uaa |-> Nil, admins |-> Nil]

Init ==
    /\ spec \in Specs
    /\ kyma \in Worlds
    /\ queued = TRUE
    /\ timer = FALSE
    /\ pc = "idle"
    /\ seen = spec
    /\ conf = NoConfig
    /\ quiet = TRUE
    /\ status = [state |-> "Processing", config |-> NoConfig]
    /\ released = NoConfig
    /\ changes = 0

-----------------------------------------------------------------------------
(* Lookups: the set of answers each of them may give.                      *)

Ok(value) == [kind |-> "ok", value |-> value]
Error == [kind |-> "error"]
Panic == [kind |-> "panic"]
Check(condition, answers) == IF condition THEN answers ELSE {Error}

KorifiGatewayType(s) == IF s.gateway = Nil THEN "contour" ELSE s.gateway

KorifiIngressService(s) == IF s.gateway = "istio" THEN "korifi-istio" ELSE "contour-envoy"

\* isAplhaGatewayAPIEnabled: the Istio resource exists, has an experimental
\* section, and that section enables the alpha gateway API.
isAplhaGatewayAPIEnabled(k) == k.istio = "alpha"

\* Gateway.Validate.
Validate(s, k) ==
    Check(KorifiGatewayType(s) \in {"contour", "istio"} /\ (s.gateway = "istio" => isAplhaGatewayAPIEnabled(k)),
          {Ok(KorifiGatewayType(s))})

\* Gateway.KymaDomain: the first host of the first server without its first
\* two characters; neither the hosts nor the length are checked.
KymaDomain(k) ==
    Check(k.gateway # Absent /\ k.gateway # <<>>,
          IF k.gateway[1] = <<>> THEN {Panic}
          ELSE LET wildCardDomain == k.gateway[1][1]
               IN {IF Len(wildCardDomain) < 2 THEN Panic ELSE Ok(SubSeq(wildCardDomain, 3, Len(wildCardDomain)))})

dockerRegistryModuleIsEnabled(k) == "DockerRegistry" \in k.crds

GetRegistrySecret(k) == Check(dockerRegistryModuleIsEnabled(k) /\ k.kymaSecret # Absent, {Ok(KymaSecret)})

\* GetRegistryURL: reads the secret once more.
GetRegistryURL(k) ==
    Check(GetRegistrySecret(k) # {Error} /\ k.kymaSecret # Nil, {Ok(k.kymaSecret)})

\* Docker.GetRegistryConfig: the registries of the secret the spec names.
GetRegistryConfig(k) == Check(k.userSecret \notin {Absent, Garbled}, {Ok(k.userSecret)})

\* ensureContainerRegistry, first read: the secret.
RegistrySecret(s, k) ==
    IF s.secret = Nil THEN GetRegistrySecret(k) ELSE Check(k.userSecret # Absent, {Ok(s.secret)})

\* ensureContainerRegistry, second read: the URL. maps.Keys has no order: any
\* registry of the secret may be the first.
RegistryURL(s, k) ==
    IF s.secret = Nil THEN GetRegistryURL(k)
    ELSE IF GetRegistryConfig(k) = {Error} \/ k.userSecret = {} THEN {Error}
    ELSE {Ok(url) : url \in k.userSecret}

\* UAA.GetURL and extractUaaURLFromTokenUrl: the labels after the second.
extractUaaURLFromTokenUrl(parts) ==
    IF Len(parts) < 2 THEN Panic ELSE Ok(<<"https://uaa.cf">> \o SubSeq(parts, 3, Len(parts)))

\* Mutant of GetURL: a secret without the key is read as an empty text.
GetURLUnchecked(k) == Check(k.btpSecret # Absent, {IF k.btpSecret = Nil THEN Ok(Nil) ELSE extractUaaURLFromTokenUrl(k.btpSecret)})

GetURL(k) == Check(k.btpSecret \notin {Absent, Nil}, {extractUaaURLFromTokenUrl(k.btpSecret)})

computeUaaURL(s, k) == IF s.uaa # Nil THEN {Ok(s.uaa)} ELSE GetURL(k)

\* The inner loop of GetClusterAdmins.
Users(subjects) ==
    FlattenSeq([i \in DOMAIN subjects |-> IF subjects[i].kind = "User" THEN <<subjects[i]>> ELSE <<>>])

\* Mutant of GetClusterAdmins: the role of a binding is not looked at.
AllSubjects(bindings) == FlattenSeq([b \in DOMAIN bindings |-> Users(bindings[b].subjects)])

\* Users.GetClusterAdmins, the bindings in the order the cache lists them.
GetClusterAdmins(bindings) ==
    FlattenSeq([b \in DOMAIN bindings |->
        IF bindings[b].role = "cluster-admin" THEN Users(bindings[b].subjects) ELSE <<>>])

\* Mutant of computeCFAdmins: the names go through a Go map to drop duplicates.
AdminsOfMap(s, k) ==
    IF s.admins # <<>> THEN {Ok(s.admins)}
    ELSE {Ok(names) : names \in
            SetToSeqs({subject.name : subject \in UNION {ToSet(GetClusterAdmins(<<b>>)) : b \in k.bindings}})}

\* computeCFAdmins: the cache lists its objects in the order of a Go map.
computeCFAdmins(s, k) ==
    IF s.admins # <<>> THEN {Ok(s.admins)}
    ELSE {Ok([i \in DOMAIN subjects |-> subjects[i].name]) :
            subjects \in {GetClusterAdmins(order) : order \in SetToSeqs(k.bindings)}}

-----------------------------------------------------------------------------
(* The reconcile.                                                          *)

\* The reads of compileInstallationConfig in their order.
Lookups == <<"gateway", "domain", "secret", "registry", "uaa", "admins">>

Answers(lookup, s, k) ==
    CASE lookup = "gateway" -> Validate(s, k)
      [] lookup = "domain" -> KymaDomain(k)
      [] lookup = "secret" -> RegistrySecret(s, k)
      [] lookup = "registry" -> RegistryURL(s, k)
      [] lookup = "uaa" -> computeUaaURL(s, k)
      [] lookup = "admins" -> computeCFAdmins(s, k)

\* The config with its defaults, once all lookups are answered.
Completed(s, c) ==
    [c EXCEPT !.ingress = KorifiIngressService(s),
              !.prefix = IF s.prefix # Nil THEN s.prefix ELSE <<c.registry, "/">>,
              !.builder = IF s.builder # Nil THEN s.builder ELSE <<c.registry, "/cfapi/kpack-builder">>]

\* A new status reaches the watch and queues the key.
SetStatus(new) ==
    /\ status' = new
    /\ queued' = (queued \/ new # status)

Begin ==
    /\ pc = "idle" /\ queued
    /\ queued' = FALSE
    /\ pc' = Lookups[1]
    /\ seen' = spec
    /\ conf' = NoConfig
    /\ quiet' = TRUE
    /\ UNCHANGED <<spec, kyma, timer, status, released, changes>>

\* One lookup succeeds; after the last one the charts are applied.
LookUp(i) ==
    /\ pc = Lookups[i]
    /\ \E answer \in Answers(pc, seen, kyma) :
          /\ answer.kind = "ok"
          /\ conf' = [conf EXCEPT ![pc] = answer.value]
    /\ pc' = IF i = Len(Lookups) THEN "install" ELSE Lookups[i + 1]
    /\ UNCHANGED <<spec, kyma, queued, timer, seen, quiet, status, released, changes>>

\* Mutant of CompileFails: the config is stored before the error is looked at.
CompileFailsStored ==
    /\ pc \in ToSet(Lookups)
    /\ Error \in Answers(pc, seen, kyma)
    /\ SetStatus([state |-> "Warning", config |-> NoConfig])
    /\ timer' = TRUE
    /\ pc' = "idle"
    /\ UNCHANGED <<spec, kyma, seen, conf, quiet, released, changes>>

\* A lookup fails: Warning, the stored config stays, and a NotReadyError with
\* RequeueAfter.
CompileFails ==
    /\ pc \in ToSet(Lookups)
    /\ Error \in Answers(pc, seen, kyma)
    /\ SetStatus([status EXCEPT !.state = "Warning"])
    /\ timer' = TRUE
    /\ pc' = "idle"
    /\ UNCHANGED <<spec, kyma, seen, conf, quiet, released, changes>>

\* A lookup panics: controller-runtime recovers, nothing is patched, and the key
\* comes back from the rate limiter.
Panics ==
    /\ pc \in ToSet(Lookups)
    /\ Panic \in Answers(pc, seen, kyma)
    /\ timer' = TRUE
    /\ pc' = "idle"
    /\ UNCHANGED <<spec, kyma, queued, seen, conf, quiet, status, released, changes>>

\* The charts are applied with values made from the config (an upgrade if they
\* differ) and the status is patched; Ready is not requeued.
Install ==
    /\ pc = "install"
    /\ released' = Completed(seen, conf)
    /\ SetStatus([state |-> "Ready", config |-> Completed(seen, conf)])
    /\ pc' = "idle"
    /\ UNCHANGED <<spec, kyma, timer, seen, conf, quiet, changes>>

-----------------------------------------------------------------------------
(* Surroundings.                                                           *)

EditSpec ==
    /\ changes < MaxChanges
    /\ changes' = changes + 1
    /\ \E s \in Specs \ {spec} : spec' = s
    /\ queued' = TRUE
    /\ UNCHANGED <<kyma, timer, pc, seen, conf, quiet, status, released>>

\* A Kyma module is enabled, disabled or configured; nobody watches them.
KymaChanges ==
    /\ changes < MaxChanges
    /\ changes' = changes + 1
    /\ \E k \in Worlds \ {kyma} : kyma' = k
    /\ quiet' = FALSE
    /\ UNCHANGED <<spec, queued, timer, pc, seen, conf, status, released>>

TimerFires ==
    /\ timer
    /\ timer' = FALSE
    /\ queued' = TRUE
    /\ UNCHANGED <<spec, kyma, pc, seen, conf, quiet, status, released, changes>>

\* The informer's resync, every ten hours or so.
Resync ==
    /\ pc = "idle" /\ ~queued
    /\ queued' = TRUE
    /\ UNCHANGED <<spec, kyma, timer, pc, seen, conf, quiet, status, released, changes>>

Reconcile == Begin \/ CompileFails \/ Panics \/ Install \/ \E i \in DOMAIN Lookups : LookUp(i)

Next == Reconcile \/ EditSpec \/ KymaChanges \/ TimerFires \/ Resync

Spec == Init /\ [][Next]_vars

\* The worker runs, timers fire, the informer resyncs.
FairSpec == Spec /\ WF_vars(Reconcile) /\ WF_vars(TimerFires) /\ WF_vars(Resync)

-----------------------------------------------------------------------------
(* Properties.                                                             *)

\* A config with everything in it.
ConfigType ==
    [gateway : Texts, ingress : Texts, domain : Seq(Texts), secret : Texts, registry : Texts,
     prefix : Seq(Texts), builder : Seq(Texts), uaa : Seq(Texts), admins : Seq(Texts)]

\* Every variable keeps its shape; a config in use is complete.
TypeOK ==
    /\ spec \in Specs /\ seen \in Specs /\ kyma \in Worlds
    /\ queued \in BOOLEAN /\ timer \in BOOLEAN /\ quiet \in BOOLEAN
    /\ pc \in {"idle", "install"} \cup ToSet(Lookups)
    /\ DOMAIN conf = DOMAIN NoConfig
    /\ status \in [state : {"Processing", "Ready", "Warning"}, config : {NoConfig} \cup ConfigType]
    /\ released \in {NoConfig} \cup ConfigType
    /\ changes \in 0..MaxChanges

\* The lookups that the running reconcile is through with.
Passed(i) == pc = "install" \/ \E n \in (i + 1)..Len(Lookups) : pc = Lookups[n]

\* What has been looked up so far is what some state of Kyma answered to the spec
\* that was read at the beginning: the present one, if nothing has changed.
LookedUpForSeen ==
    \A i \in DOMAIN Lookups :
        Passed(i) => \E k \in Worlds :
            /\ Ok(conf[Lookups[i]]) \in Answers(Lookups[i], seen, k)
            /\ quiet => k = kyma

\* A config that was compiled from one spec.
Compiled(c, s) ==
    /\ \A i \in DOMAIN Lookups : \E k \in Worlds : Ok(c[Lookups[i]]) \in Answers(Lookups[i], s, k)
    /\ c = Completed(s, c)

\* The status has the config the charts were applied with, which is all of one
\* spec however the CR was edited meanwhile; it is empty only before the first
\* install.
StatusTellsReleased ==
    /\ status.config = released
    /\ released # NoConfig => \E s \in Specs : Compiled(released, s)
    /\ status.state = "Ready" => released # NoConfig
    /\ status.state = "Processing" => released = NoConfig

\* The inductive invariant.
IndInv == TypeOK /\ LookedUpForSeen /\ StatusTellsReleased

\* What the README promises of a config, for a spec and what is in Kyma: what the
\* spec sets is used, defaults come from the registry, and the ingress service is
\* the one of the gateway type;
PromisedBySpec(c, s) ==
    /\ c.gateway = (IF s.gateway = "istio" THEN "istio" ELSE "contour")
    /\ c.ingress = (IF c.gateway = "istio" THEN "korifi-istio" ELSE "contour-envoy")
    /\ c.secret = (IF s.secret = Nil THEN KymaSecret ELSE s.secret)
    /\ c.prefix \in {s.prefix, <<c.registry, "/">>} \ {Nil}
    /\ c.builder \in {s.builder, <<c.registry, "/cfapi/kpack-builder">>} \ {Nil}
    /\ s.uaa # Nil => c.uaa = s.uaa
    /\ s.admins # <<>> => c.admins = s.admins

\* the domain is one the Kyma gateway serves;
DomainIsServed(c, k) == <<"*", ".">> \o c.domain \in ToSet(k.gateway[1])

\* the registry is one of the secret's;
RegistryIsKnown(c, s, k) == IF s.secret = Nil THEN c.registry = k.kymaSecret ELSE c.registry \in k.userSecret

\* and by default the admins are the users that are cluster admins.
ClusterAdmins(bindings) ==
    {u \in UNION {ToSet(b.subjects) : b \in {x \in bindings : x.role = "cluster-admin"}} : u.kind = "User"}

AdminsAreAdmins(c, s, k) ==
    s.admins = <<>> => ToSet(c.admins) = {u.name : u \in ClusterAdmins(k.bindings)}

Promised(c, s, k) ==
    PromisedBySpec(c, s) /\ DomainIsServed(c, k) /\ RegistryIsKnown(c, s, k) /\ AdminsAreAdmins(c, s, k)

Broken(s, k) == \E i \in DOMAIN Lookups : Error \in Answers(Lookups[i], s, k)
Crashes(s, k) == \E i \in DOMAIN Lookups : Panic \in Answers(Lookups[i], s, k)

\* When the CR and Kyma are left alone, the status catches up with them, whatever
\* mixture of old and new objects, errors and panics the reconciles ran into:
\* Ready with a config that keeps the README's promises, or Warning.
StatusFollowsKyma ==
    <>[](IF Crashes(spec, kyma) THEN TRUE
         ELSE IF Broken(spec, kyma) THEN status.state = "Warning"
         ELSE status.state = "Ready" /\ Promised(status.config, spec, kyma))

\* Once there is an installation config the CR never again looks as if the
\* installation had not started, which is what finalize concludes from an empty
\* one before it lets the CR go without uninstalling anything.
ConfigIsNeverLost == [][released # NoConfig => released' # NoConfig /\ status'.config # NoConfig]_vars

\* A binding that makes users cluster admins.
HasUsers(b) == b.role = "cluster-admin" /\ Users(b.subjects) # <<>>

\* There is nothing for a Go map to put in order: one registry in the secret the spec
\* names, one binding that makes users cluster admins.
Unambiguous(s, k) ==
    /\ s.secret # Nil /\ k.userSecret \notin {Absent, Garbled} => \A x, y \in k.userSecret : x = y
    /\ s.admins = <<>> => \A x, y \in k.bindings : HasUsers(x) /\ HasUsers(y) => x = y

\* When the CR and Kyma are left alone with nothing that a Go map could put in
\* another order, installing again is a no-op: the charts are no longer applied
\* with other values, however many registries or bindings there were before, and
\* however many there are that do not count.
ReinstallIsNoop == <>[]Unambiguous(spec, kyma) => <>[][released' = released]_vars
=============================================================================

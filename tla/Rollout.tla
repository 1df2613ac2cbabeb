------------------------------ MODULE Rollout -------------------------------
(***************************************************************************)
(* The installation pass with the real installables of main.go in their    *)
(* order, the values their providers compute (controllers/installable/     *)
(* values) and what each of them waits for: certificates that are issued   *)
(* some time after the prerequisites chart asked for them, the ingress     *)
(* service of the gateway type and its address, CRDs that another chart    *)
(* brings. Providers read an informer cache.                               *)
(*                                                                         *)
(* Kyma is sound here and Helm deploys or refuses a chart in one step; see *)
(* KymaConfig, HelmRelease and CFAPIOperator for what else may happen.     *)
(***************************************************************************)
EXTENDS SequencesExt

CONSTANTS
    None,       \* no release, no address
    NotReady,   \* a provider's error
    Specs,      \* gateway type, registry secret, propagation, root namespace, admins
    MaxEdits,   \* bound on edits of the CR
    MaxFaults   \* bound on charts that Helm refuses without reason

\* Only the two known gateway types are compiled into a config.
ASSUME RolloutAssumption ==
    /\ MaxEdits \in Nat /\ MaxFaults \in Nat
    /\ \A s \in Specs : s.gateway \in {"contour", "istio"} /\ s.disablePropagation \in BOOLEAN

VARIABLES
    spec,       \* spec of the CR
    queued,     \* the CR's key is in the work queue
    timer,      \* the key is to be queued later
    idx,        \* position of the pass in the order, 0 if none runs
    config,     \* the installation config of the pass
    worst,      \* the worst result of the pass so far
    status,     \* state and config in the CR's status
    yamls,      \* the Yaml installables whose objects are there
    released,   \* the values each chart is deployed with
    issued,     \* the certificate secrets in the cluster
    services,   \* the ingress services in the cluster and their addresses
    view,       \* what the informer cache has of issuer, secrets and services
    edits, faults

cluster == <<yamls, released, issued, services>>
worker == <<idx, config, worst>>
vars == <<spec, queued, timer, worker, status, cluster, view, edits, faults>>

-----------------------------------------------------------------------------
(* Wiring.                                                                 *)

YamlInstallables == {"systemNs", "cfRootNs", "certIssuers", "gwAPI", "kpack"}
HelmCharts == {"contour", "korifiPrerequisites", "korifi", "cfAPIConfig", "btpServiceBroker"}

installOrder ==
    <<"systemNs", "cfRootNs", "certIssuers", "gwAPI", "contour", "kpack",
      "korifiPrerequisites", "korifi", "cfAPIConfig", "btpServiceBroker">>

ContourEnabled(c) == c.gateway = "contour"

KorifiIngressService(c) == IF c.gateway = "istio" THEN "korifi-istio" ELSE "contour-envoy"

KymaSecret == "dockerregistry-config-external"

\* The secrets that ensureCertificateSecrets looks for: certificates of the
\* self-signed issuer and those of the public one, which take longer.
InternalCerts == {"korifi-api-internal-cert", "korifi-controllers-webhook-cert"}
IngressCerts == {"korifi-api-ingress-cert", "korifi-workloads-ingress-cert"}
CertSecrets == InternalCerts \cup IngressCerts

IngressServices == {"contour-envoy", "korifi-istio"}

\* A service that is not there, that waits for its load balancer, that has it,
\* or that waits for the load balancer to be cleaned up.
NoService == [state |-> "absent", hostname |-> None, ip |-> None]
Pending == [state |-> "pending", hostname |-> None, ip |-> None]

-----------------------------------------------------------------------------
(* Values providers.                                                       *)

\* ContourValues and the broker's empty Override do not depend on anything.
Override == [static |-> TRUE]

\* Mutant of propagationEnabled: the condition is inverted.
propagatesKymaSecret(c) == c.secret = KymaSecret /\ ~c.disablePropagation

propagationEnabled(c) == c.secret # KymaSecret /\ ~c.disablePropagation

\* Prerequisites.GetValues: the map it returns, and ensureSelfSignedIssuer.
PrerequisitesMap(c) ==
    [gateway |-> c.gateway, secret |-> c.secret, propagateTo |-> IF propagationEnabled(c) THEN c.root ELSE None]

PrerequisitesValues(c, v) == IF v.issuer THEN PrerequisitesMap(c) ELSE NotReady

\* Korifi.GetValues: the map it returns, and ensureCertificateSecrets. The root
\* namespace is not among the values; the chart's own default is "cf".
KorifiMap(c) == [gateway |-> c.gateway, secret |-> c.secret, root |-> "cf"]

KorifiValues(c, v) == IF CertSecrets \subseteq v.issued THEN KorifiMap(c) ELSE NotReady

\* Mutant of getKorifiIngressHost: an address that is not assigned yet is taken
\* for an empty one.
anyIngressHost(service) == IF service.hostname # None THEN service.hostname ELSE service.ip

\* getKorifiIngressHost: the hostname, or the IP if there is none.
getKorifiIngressHost(service) ==
    IF service.state = "absent" \/ (service.hostname = None /\ service.ip = None) THEN NotReady
    ELSE IF service.hostname # None THEN service.hostname ELSE service.ip

\* withOIDCPrefix: a user is its prefix and its name.
withOIDCPrefix(user) == IF user[1] = "sap.ids:" THEN user ELSE <<"sap.ids:">> \o user

\* CFAPIConfig.GetValues: the map it returns, and when.
CFAPIConfigMap(c, host) ==
    [host |-> host, root |-> c.root, admins |-> [i \in DOMAIN c.admins |-> withOIDCPrefix(c.admins[i])]]

CFAPIConfigValues(c, v) ==
    LET host == getKorifiIngressHost(v.services[KorifiIngressService(c)])
    IN IF host = NotReady THEN NotReady ELSE CFAPIConfigMap(c, host)

GetValues(chart, c, v) ==
    CASE chart = "korifiPrerequisites" -> PrerequisitesValues(c, v)
      [] chart = "korifi" -> KorifiValues(c, v)
      [] chart = "cfAPIConfig" -> CFAPIConfigValues(c, v)
      [] chart \in {"contour", "btpServiceBroker"} -> Override

\* Addresses of load balancers: of which service, and when it got it.
Addresses == IngressServices \X (0 .. MaxEdits)

\* Nothing is both a value and a mark for none.
IsValue(x) == x # None /\ x # NotReady

ASSUME MarksAssumption ==
    /\ None # NotReady /\ IsValue(TRUE) /\ IsValue("cf") /\ IsValue(Override)
    /\ \A address \in Addresses : IsValue(address)
    /\ \A s \in Specs :
          /\ IsValue(s) /\ IsValue(s.gateway) /\ IsValue(s.secret) /\ IsValue(s.root)
          /\ IsValue(PrerequisitesMap(s)) /\ IsValue(KorifiMap(s))
          /\ \A address \in Addresses :
                IsValue(CFAPIConfigMap(s, address)) /\ IsValue(CFAPIConfigMap(s, address).admins)

-----------------------------------------------------------------------------
(* The pass.                                                               *)

InTheCluster == [issuer |-> "certIssuers" \in yamls, issued |-> issued, services |-> services]

Init ==
    /\ spec \in Specs
    /\ queued = TRUE
    /\ timer = FALSE
    /\ idx = 0
    /\ config = spec
    /\ worst = "Success"
    /\ status = [state |-> "Processing", config |-> None]
    /\ yamls = {}
    /\ released = [c \in HelmCharts |-> None]
    /\ issued = {}
    /\ services = [s \in IngressServices |-> NoService]
    /\ view = InTheCluster
    /\ edits = 0
    /\ faults = 0

Begin ==
    /\ idx = 0 /\ queued
    /\ queued' = FALSE
    /\ idx' = 1
    /\ config' = spec
    /\ worst' = "Success"
    /\ UNCHANGED <<spec, timer, status, cluster, view, edits, faults>>

\* The installable at idx returns a result; the worst of all counts.
Step(result) ==
    /\ idx' = idx + 1
    /\ worst' = IF result = "Success" THEN worst ELSE result
    /\ UNCHANGED <<spec, queued, timer, config, status, view, edits>>

At(installable) == idx \in DOMAIN installOrder /\ installable = installOrder[idx]

InstallYaml(y) ==
    /\ At(y)
    /\ yamls' = yamls \cup {y}
    /\ Step("Success")
    /\ UNCHANGED <<released, issued, services, faults>>

\* What Helm needs to map the objects of a chart: CRDs of others.
CRDsOf(chart) ==
    CASE chart = "korifiPrerequisites" -> {"gwAPI"}
      [] chart = "korifi" -> {"gwAPI", "kpack"}
      [] OTHER -> {}

CanBeMapped(chart) ==
    /\ CRDsOf(chart) \subseteq yamls
    /\ chart = "btpServiceBroker" => released["korifi"] # None

Applies(chart) == At(chart) /\ (chart = "contour" => ContourEnabled(config))

\* HelmChart.Install when the provider fails, when Helm cannot map the objects
\* or refuses for another reason: InProgress.
ChartWaits(chart) ==
    /\ Applies(chart)
    /\ GetValues(chart, config, view) = NotReady \/ (released[chart] = None /\ ~CanBeMapped(chart))
    /\ Step("InProgress")
    /\ UNCHANGED <<cluster, faults>>

ChartRefused(chart) ==
    /\ Applies(chart)
    /\ GetValues(chart, config, view) \notin {NotReady, released[chart]}
    /\ faults < MaxFaults
    /\ faults' = faults + 1
    /\ Step("InProgress")
    /\ UNCHANGED cluster

\* Mutant of UpToDate: a release that is there is good enough.
IsReleased(chart, values) == released[chart] # None

\* Apply: the release has these values already.
UpToDate(chart, values) == released[chart] = values

\* HelmChart.Install: the release is as it should be, or Helm makes it so. The
\* chart's ingress service is created, or adopted as it is if it is still there.
ApplyChart(chart) ==
    /\ Applies(chart)
    /\ LET values == GetValues(chart, config, view)
       IN /\ values # NotReady
          /\ released[chart] # None \/ CanBeMapped(chart)
          /\ IF UpToDate(chart, values) THEN UNCHANGED <<released, services>>
             ELSE /\ released' = [released EXCEPT ![chart] = values]
                  /\ services' = IF chart = "contour" /\ services["contour-envoy"].state = "absent"
                                 THEN [services EXCEPT !["contour-envoy"] = Pending]
                                 ELSE services
    /\ Step("Success")
    /\ UNCHANGED <<yamls, issued, faults>>

\* Conditional.Install for another gateway type: the chart is uninstalled, which
\* is InProgress until it is found gone. Helm does not wait for the service.
RemoveContour ==
    /\ At("contour") /\ ~ContourEnabled(config)
    /\ released' = [released EXCEPT !["contour"] = None]
    /\ services' = [services EXCEPT !["contour-envoy"] =
                      IF @.state = "up" THEN [@ EXCEPT !.state = "terminating"]
                      ELSE IF @.state = "pending" THEN NoService ELSE @]
    /\ Step(IF released["contour"] = None THEN "Success" ELSE "InProgress")
    /\ UNCHANGED <<yamls, issued, faults>>

\* Mutant of InstallDone: what is not finished is left to the next event.
InstallDoneParked ==
    /\ idx = Len(installOrder) + 1
    /\ idx' = 0
    /\ status' = [state |-> IF worst = "Success" THEN "Ready" ELSE "Processing", config |-> config]
    /\ queued' = (queued \/ status' # status)
    /\ UNCHANGED <<spec, timer, config, worst, cluster, view, edits, faults>>

\* applyInstallResultToStatus and the patch, whose event queues the key.
InstallDone ==
    /\ idx = Len(installOrder) + 1
    /\ idx' = 0
    /\ status' = [state |-> IF worst = "Success" THEN "Ready" ELSE "Processing", config |-> config]
    /\ queued' = (queued \/ status' # status)
    /\ timer' = (timer \/ worst # "Success")
    /\ UNCHANGED <<spec, config, worst, cluster, view, edits, faults>>

-----------------------------------------------------------------------------
(* Surroundings.                                                           *)

Surroundings == <<spec, worker, status, yamls, released, edits, faults>>

EditSpec ==
    /\ edits < MaxEdits
    /\ edits' = edits + 1
    /\ \E s \in Specs \ {spec} : spec' = s
    /\ queued' = TRUE
    /\ UNCHANGED <<timer, worker, status, cluster, view, faults>>

TimerFires ==
    /\ timer
    /\ timer' = FALSE
    /\ queued' = TRUE
    /\ UNCHANGED <<Surroundings, issued, services, view>>

\* The certificate manager issues what the prerequisites chart asks for.
IssueCertificates ==
    /\ released["korifiPrerequisites"] # None
    /\ \E certs \in {InternalCerts, IngressCerts} :
          ~(certs \subseteq issued) /\ issued' = issued \cup certs
    /\ UNCHANGED <<Surroundings, queued, timer, services, view>>

\* Istio creates a service for Korifi's gateway.
IstioCreatesService ==
    /\ released["korifi"] # None
    /\ released["korifi"].gateway = "istio"
    /\ services["korifi-istio"].state = "absent"
    /\ services' = [services EXCEPT !["korifi-istio"] = Pending]
    /\ UNCHANGED <<Surroundings, queued, timer, issued, view>>

\* A load balancer is assigned, with a name or with an address.
AssignLoadBalancer(s) ==
    /\ services[s].state = "pending"
    /\ \E named \in BOOLEAN :
          services' = [services EXCEPT ![s] =
              [state |-> "up", hostname |-> IF named THEN <<s, edits>> ELSE None,
               ip |-> IF named THEN None ELSE <<s, edits>>]]
    /\ UNCHANGED <<Surroundings, queued, timer, issued, view>>

CleanUpLoadBalancer(s) ==
    /\ services[s].state = "terminating"
    /\ services' = [services EXCEPT ![s] = NoService]
    /\ UNCHANGED <<Surroundings, queued, timer, issued, view>>

CacheSync(kind) ==
    /\ view[kind] # InTheCluster[kind]
    /\ view' = [view EXCEPT ![kind] = InTheCluster[kind]]
    /\ UNCHANGED <<Surroundings, queued, timer, issued, services>>

Reconcile ==
    \/ Begin \/ RemoveContour \/ InstallDone
    \/ \E y \in YamlInstallables : InstallYaml(y)
    \/ \E chart \in HelmCharts : ChartWaits(chart) \/ ApplyChart(chart)

Next ==
    \/ Reconcile \/ EditSpec \/ TimerFires \/ IssueCertificates \/ IstioCreatesService
    \/ \E chart \in HelmCharts : ChartRefused(chart)
    \/ \E s \in DOMAIN services : AssignLoadBalancer(s) \/ CleanUpLoadBalancer(s)
    \/ \E kind \in DOMAIN view : CacheSync(kind)

Spec == Init /\ [][Next]_vars

\* The worker runs, timers fire, the cluster does its part, the watch delivers.
\* The informer's resync is not needed.
FairSpec ==
    /\ Spec
    /\ WF_vars(Reconcile) /\ WF_vars(TimerFires) /\ WF_vars(IssueCertificates) /\ WF_vars(IstioCreatesService)
    /\ \A s \in IngressServices : WF_vars(AssignLoadBalancer(s)) /\ WF_vars(CleanUpLoadBalancer(s))
    /\ \A kind \in {"issuer", "issued", "services"} : WF_vars(CacheSync(kind))

-----------------------------------------------------------------------------
(* Properties.                                                             *)

Services ==
    {NoService, Pending}
        \cup {service \in [state : {"up", "terminating"}, hostname : Addresses \cup {None}, ip : Addresses \cup {None}] :
                 service.hostname # None \/ service.ip # None}

\* Every variable keeps its shape; no chart is deployed with incomplete values.
TypeOK ==
    /\ spec \in Specs /\ config \in Specs
    /\ queued \in BOOLEAN /\ timer \in BOOLEAN
    /\ idx \in 0..(Len(installOrder) + 1)
    /\ worst \in {"Success", "InProgress"}
    /\ status \in [state : {"Processing", "Ready"}, config : Specs \cup {None}]
    /\ yamls \subseteq YamlInstallables
    /\ issued \subseteq CertSecrets
    /\ services \in [IngressServices -> Services]
    /\ view \in [issuer : BOOLEAN, issued : SUBSET CertSecrets, services : [IngressServices -> Services]]
    /\ DOMAIN released = HelmCharts
    /\ \A chart \in HelmCharts :
          released[chart] # None =>
              \A field \in DOMAIN released[chart] \ {"propagateTo"} : released[chart][field] # None
    /\ edits \in 0..MaxEdits /\ faults \in 0..MaxFaults

AtRest == idx = 0 /\ ~queued

\* Ready and at rest means that the cluster is what the spec asks for, as it is
\* now and not as some cache or an earlier pass of another config saw it: every
\* chart of the gateway type is deployed with the values that its provider has
\* for it, no other is left, and names lead to the service that takes traffic.
ReadyIsRolledOut ==
    AtRest /\ status.state = "Ready" =>
        /\ \A chart \in HelmCharts \ {"contour"} : released[chart] = GetValues(chart, spec, InTheCluster)
        /\ (released["contour"] # None) = (spec.gateway = "contour")
        /\ LET service == services[IF spec.gateway = "istio" THEN "korifi-istio" ELSE "contour-envoy"]
           IN service.state = "up" /\ released["cfAPIConfig"].host \in {service.hostname, service.ip}

\* The registry secret Korifi pushes images with is in the root namespace Korifi
\* uses, put there by Kyma or by the propagation of the prerequisites chart,
\* unless the user has taken that on.
SecretInPlace ==
    \/ released["korifi"].secret = KymaSecret
    \/ spec.disablePropagation
    \/ /\ released["korifiPrerequisites"].secret = released["korifi"].secret
       /\ released["korifiPrerequisites"].propagateTo = released["korifi"].root

\* So it is when the CR is Ready and at rest with the root namespace cf, from
\* whatever root namespace, secret and propagation it has been edited to that.
SecretReachesKorifi == AtRest /\ status.state = "Ready" /\ spec.root = "cf" => SecretInPlace

\* What the README says of rootNamespace, "Root namespace for CF resources": so it
\* is with any other. Korifi is never told about it.
SecretReachesAnyRoot == AtRest /\ status.state = "Ready" => SecretInPlace

\* The pass is beyond position k, or has ended well and nothing has begun since.
Passed(k) == worst = "Success" /\ (idx > k \/ (idx = 0 /\ status.state = "Ready"))

\* What a pass without a setback has earned so far, installable by installable,
\* for the config it works with.
PassEarned ==
    /\ idx = 0 /\ status.state = "Ready" => worst = "Success"
    /\ ~queued => config = spec
    /\ Passed(5) => (released["contour"] # None) = ContourEnabled(config)
    /\ Passed(7) => released["korifiPrerequisites"] = PrerequisitesMap(config) /\ "certIssuers" \in yamls
    /\ Passed(8) => released["korifi"] = KorifiMap(config) /\ CertSecrets \subseteq issued
    /\ Passed(10) => released["btpServiceBroker"] = Override

\* The cache has seen nothing that is not there any more.
ViewIsNotAhead == (view.issuer => "certIssuers" \in yamls) /\ view.issued \subseteq issued

\* The inductive invariant behind SecretReachesKorifi.
IndInv == TypeOK /\ PassEarned /\ ViewIsNotAhead

\* A service that is not on its way out, and if the cache has an address for it,
\* it is the one.
Kept(s) ==
    /\ services[s].state # "terminating"
    /\ view.services[s] \in {NoService, Pending, services[s]}

\* Names lead where traffic is taken.
HostIsTrue ==
    /\ Kept("korifi-istio")
    /\ released["contour"] # None => Kept("contour-envoy")
    /\ Passed(9) =>
          LET service == services[KorifiIngressService(config)]
          IN service.state = "up" /\ released["cfAPIConfig"] = CFAPIConfigMap(config, getKorifiIngressHost(service))

\* Contour is only installed when nothing is left of an earlier one, neither in
\* the cluster nor in the cache. The code does not see to that.
ContourStartsClean ==
    At("contour") /\ ContourEnabled(config) /\ released["contour"] = None =>
        services["contour-envoy"] = NoService /\ view.services["contour-envoy"] = NoService

\* With one edit there is no way back to Contour.
NoWayBack ==
    /\ edits = 0 => config = spec
    /\ released["contour"] # None => ContourEnabled(config) \/ (edits >= 1 /\ ~ContourEnabled(spec))
    /\ released["contour"] = None =>
          \/ services["contour-envoy"] = NoService /\ view.services["contour-envoy"] = NoService
          \/ edits >= 1 /\ ~ContourEnabled(spec) /\ ~ContourEnabled(config)

\* Whatever comes late, in whatever order, the installation ends Ready by its
\* own retries, without an event from what it waits for and without the resync.
RolloutCompletes == <>[](AtRest /\ status = [state |-> "Ready", config |-> spec])
=============================================================================

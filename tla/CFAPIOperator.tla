--------------------------- MODULE CFAPIOperator ---------------------------
(***************************************************************************)
(* The CFAPI operator: the controller that installs and removes Cloud      *)
(* Foundry on a Kyma cluster for the one CFAPI custom resource (CR).       *)
(*                                                                         *)
(* Modelled: PatchingReconciler.Reconcile with Patch (tools/k8s), the      *)
(* CFAPI Reconciler (controllers/cfapi/controller.go) and, at the level of *)
(* what Install and Uninstall return and leave behind, the installables    *)
(* (controllers/installable). One worker serves one key; between its steps *)
(* users edit the CR and create orgs, the informer cache lags behind the   *)
(* API server, calls fail and the operator restarts.                       *)
(***************************************************************************)
EXTENDS Integers, Sequences

CONSTANTS
    YamlModules,     \* installables built by installable.NewYaml
    HelmModules,     \* installables built by installable.NewHelmChart
    Orgs,            \* the uninstall-only installable over all CFOrgs
    CfRootNs,        \* the Yaml installable that owns the namespace "cf"
    Contour,         \* the Helm installable wrapped in NewConditional
    Korifi,          \* the Helm installable whose controllers serve CFOrgs
    InstallOrder,    \* main.go installOrder
    UninstallOrder,  \* main.go uninstallOrder
    Names,           \* the values of string fields of spec and config
    Specs,           \* the CFAPISpecs users apply
    MaxGeneration,   \* bound on metadata.generation reached by spec edits
    MaxCreates,      \* bound on creations of the CR
    MaxOrgs,         \* bound on cf create-org calls
    MaxFaults        \* bound on failed calls, crashes and Kyma outages

Modules == YamlModules \cup HelmModules \cup {Orgs}

ASSUME ModulesAssumption ==
    /\ CfRootNs \in YamlModules
    /\ {Contour, Korifi} \subseteq HelmModules
    /\ YamlModules \cap HelmModules = {}
    /\ Orgs \notin YamlModules \cup HelmModules
    /\ Contour # Korifi

\* Everything the operator installs, it also knows how to uninstall; Orgs has
\* no Install (it panics) and therefore is not in InstallOrder. Korifi goes
\* after the root namespace its orgs live in.
ASSUME OrdersAssumption ==
    /\ InstallOrder \in Seq(YamlModules \cup HelmModules)
    /\ UninstallOrder \in Seq(Modules)
    /\ \A m \in Modules : \E k \in 1 .. Len(UninstallOrder) : UninstallOrder[k] = m
    /\ \A k \in 1 .. Len(UninstallOrder) :
          UninstallOrder[k] = Korifi => \E j \in 1 .. k - 1 : UninstallOrder[j] = CfRootNs

ASSUME SpecsAssumption ==
    /\ {"", "contour", "istio", "cf"} \subseteq Names
    /\ Specs \subseteq [gatewayType : Names, rootNamespace : Names]

ASSUME BoundsAssumption ==
    /\ MaxGeneration \in Nat \ {0}
    /\ MaxCreates \in Nat
    /\ MaxOrgs \in Nat
    /\ MaxFaults \in Nat

VARIABLES
    cr,        \* the CFAPI object in the API server
    cache,     \* the copy of it in the informer cache client.Get reads
    listed,    \* the informer cache client.List reads holds a CFOrg
    queued,    \* the CR's key is in the work queue
    timer,     \* a RequeueAfter or rate-limited retry of the key is pending
    pc,        \* where the worker is in Reconcile
    base,      \* objCopy: the object as the worker read it
    obj,       \* the object as the worker modified it
    idx,       \* position in InstallOrder or UninstallOrder
    worst,     \* the worst ResultState of this install pass
    retry,     \* Reconcile will return RequeueAfter or an error
    phase,     \* per installable: what of it is in the cluster
    applied,   \* per Helm installable: the config it was last applied with
    crd,       \* the CFOrg CRD, an object of the Korifi chart, is in the cluster
    known,     \* the process has mapped the CFOrg kind and runs its informer
    kyma,      \* the Kyma modules the config is compiled from are in place
    creates,   \* CR creations so far
    orgs,      \* orgs created so far
    faults     \* faults so far

caches == <<cache, listed>>
worker == <<pc, base, obj, idx, worst, retry>>
orgsApi == <<crd, known>>
cluster == <<phase, applied, orgsApi>>
budget == <<creates, orgs, faults>>
vars == <<cr, caches, queued, timer, worker, cluster, kyma, budget>>

-----------------------------------------------------------------------------
(* The data the reconciler tells apart.                                    *)

\* ResultState of installable.go.
Success == 0
InProgress == 1
Failed == 2

States == {"", "Ready", "Processing", "Error", "Deleting", "Warning"}
ConditionTypes == {"Configuration", "Installation", "Deletion"}
Conditions == [status : {"", "True", "False", "Unknown"}, observed : Nat]

\* InstallationConfig, reduced to the two fields that change what the
\* installables do; its zero value is what reflect.Value.IsZero detects.
Configs == [gatewayType : Names, rootNamespace : Names]
ZeroConfig == [gatewayType |-> "", rootNamespace |-> ""]

\* CFAPIStatus; url says whether Status.URL is set.
Statuses == [state : States, observed : Nat, config : Configs,
             conditions : [ConditionTypes -> Conditions], url : BOOLEAN]
ZeroStatus == [state |-> "", observed |-> 0, config |-> ZeroConfig,
               conditions |-> [t \in ConditionTypes |-> [status |-> "", observed |-> 0]],
               url |-> FALSE]

Objects == [exists : BOOLEAN, generation : Nat, spec : Configs, deleting : BOOLEAN,
            finalizer : BOOLEAN, status : Statuses]
Absent == [exists |-> FALSE, generation |-> 0, spec |-> ZeroConfig, deleting |-> FALSE,
           finalizer |-> FALSE, status |-> ZeroStatus]

\* What can be in the cluster of an installable. Of a Helm release, Helm's list
\* hides two kinds from the client: one whose install or upgrade died with the
\* process (interrupted) and one whose removal failed or died (abandoned).
HiddenPhases == {"interrupted", "abandoned"}
Phases == {"absent", "partial", "installed", "removing"} \cup HiddenPhases

SetCondition(status, type, value, generation) ==
    [status EXCEPT !.conditions[type] = [status |-> value, observed |-> generation]]

\* compileInstallationConfig: the defaults it fills in, and whether it succeeds.
Compile(spec) ==
    [gatewayType |-> IF spec.gatewayType = "" THEN "contour" ELSE spec.gatewayType,
     rootNamespace |-> IF spec.rootNamespace = "" THEN "cf" ELSE spec.rootNamespace]

ValidGateway(spec) == Compile(spec).gatewayType \in {"contour", "istio"}

CanCompile(spec) == kyma /\ ValidGateway(spec)

ContourEnabled(config) == config.gatewayType = "contour"

\* JSON merge patch: a field the reconciler did not change keeps whatever the
\* server has, whatever the reconciler read.
Pick(current, read, modified) == IF read = modified THEN current ELSE modified

MergeConfig(current, read, modified) ==
    [gatewayType |-> Pick(current.gatewayType, read.gatewayType, modified.gatewayType),
     rootNamespace |-> Pick(current.rootNamespace, read.rootNamespace, modified.rootNamespace)]

\* The conditions list is merged as a whole, the config field by field.
MergeStatus(current, read, modified) ==
    [state |-> Pick(current.state, read.state, modified.state),
     observed |-> Pick(current.observed, read.observed, modified.observed),
     config |-> MergeConfig(current.config, read.config, modified.config),
     conditions |-> Pick(current.conditions, read.conditions, modified.conditions),
     url |-> Pick(current.url, read.url, modified.url)]

\* A deleting object whose last finalizer goes is removed by the API server.
MergeFinalizer(current, read, modified) ==
    LET f == Pick(current.finalizer, read.finalizer, modified.finalizer)
    IN  IF current.deleting /\ ~f THEN Absent ELSE [current EXCEPT !.finalizer = f]

-----------------------------------------------------------------------------
Init ==
    /\ cr = Absent
    /\ cache = Absent
    /\ listed = FALSE
    /\ queued = FALSE
    /\ timer = FALSE
    /\ pc = "idle"
    /\ base = Absent
    /\ obj = Absent
    /\ idx = 1
    /\ worst = Success
    /\ retry = FALSE
    /\ phase = [m \in Modules |-> "absent"]
    /\ applied = [m \in HelmModules |-> ZeroConfig]
    /\ crd = FALSE
    /\ known = FALSE
    /\ kyma \in BOOLEAN
    /\ creates = 0
    /\ orgs = 0
    /\ faults = 0

Fault == faults < MaxFaults /\ faults' = faults + 1
NoFault == UNCHANGED faults

SetPhase(m, p) == phase' = [phase EXCEPT ![m] = p]

\* A Helm release changes, and with Korifi's the CFOrg CRD comes or goes.
SetRelease(m, p, crds) == SetPhase(m, p) /\ crd' = IF m = Korifi THEN crds ELSE crd

Gone(m) == phase[m] = "absent"

\* There is a Helm release, but the client does not see it.
Hidden(m) == m \in HelmModules /\ phase[m] \in HiddenPhases

\* As far as the client can tell, there is nothing to uninstall.
Unseen(m) == Gone(m) \/ Hidden(m)

-----------------------------------------------------------------------------
(* Users of the cluster and the cluster itself.                            *)

CreateCR(spec) ==
    /\ ~cr.exists
    /\ creates < MaxCreates
    /\ creates' = creates + 1
    /\ cr' = [Absent EXCEPT !.exists = TRUE, !.generation = 1, !.spec = spec]
    /\ UNCHANGED <<caches, queued, timer, worker, cluster, kyma, orgs, faults>>

EditSpec(spec) ==
    /\ cr.exists
    /\ spec # cr.spec
    /\ cr.generation < MaxGeneration
    /\ cr' = [cr EXCEPT !.spec = spec, !.generation = @ + 1]
    /\ UNCHANGED <<caches, queued, timer, worker, cluster, kyma, budget>>

\* Without the operator's finalizer the API server removes the object at once.
DeleteCR ==
    /\ cr.exists
    /\ ~cr.deleting
    /\ cr' = IF cr.finalizer
             THEN [cr EXCEPT !.deleting = TRUE, !.generation = @ + 1]
             ELSE Absent
    /\ UNCHANGED <<caches, queued, timer, worker, cluster, kyma, budget>>

\* cf create-org: the Korifi API puts a CFOrg into its root namespace, which is
\* "cf" whatever the CR says, as no values provider passes rootNamespace on.
CreateOrg ==
    /\ phase[Korifi] = "installed"
    /\ phase[CfRootNs] = "installed"
    /\ orgs < MaxOrgs
    /\ orgs' = orgs + 1
    /\ phase' = [phase EXCEPT ![Orgs] = "installed"]
    /\ UNCHANGED <<cr, caches, queued, timer, worker, applied, orgsApi, kyma, creates, faults>>

\* What was marked for deletion disappears: a CFOrg once Korifi's controllers
\* have finalized it, the root namespace once it holds no CFOrg any more.
FinishRemoval(m) ==
    /\ phase[m] = "removing"
    /\ m = Orgs => phase[Korifi] \in {"installed", "partial", "interrupted"}
    /\ m = CfRootNs => phase[Orgs] = "absent"
    /\ phase' = [phase EXCEPT ![m] = "absent"]
    /\ UNCHANGED <<cr, caches, queued, timer, worker, applied, orgsApi, kyma, budget>>

\* Somebody removes a hidden Helm release by hand, with all its objects.
Repair(m) ==
    /\ Hidden(m)
    /\ m = Korifi => phase[Orgs] = "absent"
    /\ SetRelease(m, "absent", FALSE)
    /\ UNCHANGED <<cr, caches, queued, timer, worker, applied, known, kyma, budget>>

\* A terminating namespace deletes what it holds.
CascadeToOrgs ==
    /\ phase[CfRootNs] = "removing"
    /\ phase[Orgs] = "installed"
    /\ phase' = [phase EXCEPT ![Orgs] = "removing"]
    /\ UNCHANGED <<cr, caches, queued, timer, worker, applied, orgsApi, kyma, budget>>

KymaComesUp ==
    /\ ~kyma
    /\ kyma' = TRUE
    /\ UNCHANGED <<cr, caches, queued, timer, worker, cluster, budget>>

KymaGoesDown ==
    /\ kyma
    /\ kyma' = FALSE
    /\ Fault
    /\ UNCHANGED <<cr, caches, queued, timer, worker, cluster, creates, orgs>>

-----------------------------------------------------------------------------
(* controller-runtime: watch, work queue, retry timers, restart.           *)

\* The watch delivers the newest object; For(&CFAPI{}) has no predicate, so
\* the operator's own status writes enqueue the key as well.
CacheSync ==
    /\ cache # cr
    /\ cache' = cr
    /\ queued' = TRUE
    /\ UNCHANGED <<cr, listed, timer, worker, cluster, kyma, budget>>

\* The cache of CFOrgs catches up; nobody watches them, so no key is queued.
OrgsListSync ==
    /\ listed # (phase[Orgs] # "absent")
    /\ listed' = ~listed
    /\ UNCHANGED <<cr, cache, queued, timer, worker, cluster, kyma, budget>>

TimerFires ==
    /\ timer
    /\ timer' = FALSE
    /\ queued' = TRUE
    /\ UNCHANGED <<cr, caches, worker, cluster, kyma, budget>>

\* The informer's periodic resync.
Resync ==
    /\ cache.exists
    /\ ~queued
    /\ queued' = TRUE
    /\ UNCHANGED <<cr, caches, timer, worker, cluster, kyma, budget>>

\* The worker is done: in-memory objects are dropped, and a result with
\* RequeueAfter or an error arms the timer.
Finish(again) ==
    /\ pc' = "idle"
    /\ base' = Absent
    /\ obj' = Absent
    /\ idx' = 1
    /\ worst' = Success
    /\ retry' = FALSE
    /\ timer' = (timer \/ again)

\* The Helm operation the worker would be in the middle of: an install or
\* upgrade that is due leaves its pending record behind, the uninstall of a
\* release its uninstalling one, and in both cases any part of the objects.
InsideHelm(m, p) ==
    \/ /\ pc = "install"
       /\ idx <= Len(InstallOrder)
       /\ m = InstallOrder[idx] /\ m \in HelmModules
       /\ IF m = Contour /\ ~ContourEnabled(obj.status.config)
          THEN p = "abandoned" /\ phase[m] \in {"partial", "installed"}
          ELSE /\ p = "interrupted"
               /\ \/ phase[m] \in {"absent", "partial"}
                  \/ phase[m] = "installed" /\ applied[m] # obj.status.config
    \/ /\ pc = "uninstall"
       /\ idx <= Len(UninstallOrder)
       /\ m = UninstallOrder[idx] /\ m \in HelmModules
       /\ p = "abandoned" /\ phase[m] \in {"partial", "installed"}

\* The process dies at any point, in the middle of a Helm operation too, and
\* its successor lists the CR afresh and knows nothing of CFOrgs.
Restart ==
    /\ Fault
    /\ pc' = "idle"
    /\ base' = Absent
    /\ obj' = Absent
    /\ idx' = 1
    /\ worst' = Success
    /\ retry' = FALSE
    /\ timer' = FALSE
    /\ cache' = cr
    /\ listed' = (phase[Orgs] # "absent")
    /\ queued' = cr.exists
    /\ known' = FALSE
    /\ \/ UNCHANGED <<phase, crd>>
       \/ \E m \in HelmModules, p \in HiddenPhases :
             /\ InsideHelm(m, p)
             /\ \E crds \in {crd, p = "interrupted"} : SetRelease(m, p, crds)
    /\ UNCHANGED <<cr, applied, kyma, creates, orgs>>

-----------------------------------------------------------------------------
(* Reconcile, up to the first installable.                                 *)

TakeKey ==
    /\ pc = "idle"
    /\ queued
    /\ queued' = FALSE

\* Reconcile: Get says NotFound.
ReconcileGone ==
    /\ TakeKey
    /\ ~cache.exists
    /\ UNCHANGED <<cr, caches, timer, worker, cluster, kyma, budget>>

\* The lines of ReconcileResource before it branches.
Touched(o) ==
    [o EXCEPT !.status.observed = o.generation,
              !.status.state = "Processing",
              !.finalizer = TRUE]

\* Reconcile: Get fails.
ReconcileGetFails ==
    /\ TakeKey
    /\ Fault
    /\ timer' = TRUE
    /\ UNCHANGED <<cr, caches, worker, cluster, kyma, creates, orgs>>

Start(o, next, again) ==
    /\ base' = cache
    /\ obj' = o
    /\ pc' = next
    /\ idx' = 1
    /\ worst' = Success
    /\ retry' = again
    /\ UNCHANGED <<cr, caches, timer, cluster, kyma, budget>>

\* Mutant of FinalizeSkip: an empty config alone makes the operator let go.
FinalizeSkipAlive ==
    /\ TakeKey
    /\ cache.exists
    /\ cache.status.config = ZeroConfig
    /\ Start([Touched(cache) EXCEPT !.status.state = "Deleting", !.finalizer = FALSE],
             "patchMain", FALSE)

\* finalize, the branch that finds no installation config.
FinalizeSkip ==
    /\ TakeKey
    /\ cache.exists
    /\ cache.deleting
    /\ cache.status.config = ZeroConfig
    /\ Start([Touched(cache) EXCEPT !.status.state = "Deleting", !.finalizer = FALSE],
             "patchMain", FALSE)

\* finalize, the branch that goes on to uninstall.
FinalizeStart ==
    /\ TakeKey
    /\ cache.exists
    /\ cache.deleting
    /\ cache.status.config # ZeroConfig
    /\ Start([Touched(cache) EXCEPT !.status.state = "Deleting"], "uninstall", FALSE)

\* ReconcileResource: compileInstallationConfig returns an error.
CompileFails ==
    /\ TakeKey
    /\ cache.exists
    /\ ~cache.deleting
    /\ ~CanCompile(cache.spec)
    /\ LET o == [Touched(cache) EXCEPT !.status.state = "Warning"]
       IN  Start([o EXCEPT !.status = SetCondition(@, "Configuration", "False", o.generation)],
                 "patchMain", TRUE)

\* ReconcileResource: the config is compiled and the install pass begins.
InstallStart ==
    /\ TakeKey
    /\ cache.exists
    /\ ~cache.deleting
    /\ CanCompile(cache.spec)
    /\ LET o == [Touched(cache) EXCEPT !.status.config = Compile(cache.spec)]
       IN  Start([o EXCEPT !.status = SetCondition(@, "Configuration", "True", o.generation)],
                 "install", FALSE)

-----------------------------------------------------------------------------
(* The installables, as the reconciler sees them: the state r they report  *)
(* and what they leave in the cluster.                                     *)

\* Yaml.Install, all objects created or updated. Updating an object that is
\* being deleted succeeds and does not stop its deletion.
YamlInstalled(m, r) ==
    /\ r = Success
    /\ SetPhase(m, IF phase[m] = "removing" THEN "removing" ELSE "installed")
    /\ NoFault
    /\ UNCHANGED <<applied, orgsApi>>

\* Mutant of HelmInstalled: a deployed release is never upgraded.
HelmInstalledOnce(m, config, r) ==
    /\ r = Success
    /\ ~Hidden(m)
    /\ SetRelease(m, "installed", TRUE)
    /\ applied' = IF phase[m] = "installed" THEN applied ELSE [applied EXCEPT ![m] = config]
    /\ NoFault
    /\ UNCHANGED known

\* HelmChart.Install, the release ends up deployed with these values.
HelmInstalled(m, config, r) ==
    /\ r = Success
    /\ ~Hidden(m)
    /\ SetRelease(m, "installed", TRUE)
    /\ applied' = [applied EXCEPT ![m] = config]
    /\ NoFault
    /\ UNCHANGED known

\* HelmChart.Install of a hidden release: the client installs it, but Helm
\* refuses to re-use its name.
HelmRefused(m, r) ==
    /\ r = InProgress
    /\ Hidden(m)
    /\ NoFault
    /\ UNCHANGED cluster

\* HelmChart.Install: values not available yet or a failed operation
\* (InProgress), or the release cannot be looked up (Failed).
HelmInstallFails(m, r) ==
    /\ r \in {InProgress, Failed}
    /\ ~Hidden(m)
    /\ Fault
    /\ \/ UNCHANGED cluster
       \/ /\ r = InProgress
          /\ \E crds \in {crd, TRUE} : SetRelease(m, "partial", crds)
          /\ UNCHANGED <<applied, known>>

\* Uninstall of something that is not there any more, or that Helm's list does
\* not show.
NothingToUninstall(m, r) ==
    /\ m # Orgs
    /\ r = Success
    /\ Unseen(m)
    /\ NoFault
    /\ UNCHANGED cluster

\* Mutant of YamlDeleted: reports Success as soon as the deletes are accepted.
YamlDeletedNoWait(m, r) ==
    /\ m \in YamlModules
    /\ r = Success
    /\ phase[m] # "absent"
    /\ SetPhase(m, "removing")
    /\ NoFault
    /\ UNCHANGED <<applied, orgsApi>>

\* Yaml.Uninstall with objects left: they are marked for deletion.
YamlDeleted(m, r) ==
    /\ m \in YamlModules
    /\ r = InProgress
    /\ phase[m] # "absent"
    /\ SetPhase(m, "removing")
    /\ NoFault
    /\ UNCHANGED <<applied, orgsApi>>

\* HelmChart.Uninstall of a release: the run that removes it still reports
\* InProgress, as its HelmResult is not zero.
HelmDeleted(m, r) ==
    /\ m \in HelmModules
    /\ r = InProgress
    /\ ~Unseen(m)
    /\ SetRelease(m, "absent", FALSE)
    /\ NoFault
    /\ UNCHANGED <<applied, known>>

\* HelmChart.Uninstall: the release cannot be looked up (Failed), or the run
\* fails, at once or half way (InProgress).
HelmUninstallFails(m, r) ==
    /\ m \in HelmModules
    /\ Fault
    /\ \/ r = Failed /\ UNCHANGED cluster
       \/ r = InProgress /\ ~Unseen(m) /\ UNCHANGED cluster
       \/ /\ r = InProgress
          /\ ~Unseen(m)
          /\ \E crds \in {crd, FALSE} : SetRelease(m, "abandoned", crds)
          /\ UNCHANGED <<applied, known>>

\* Mutant of OrgsDeleted: only counts the orgs, never deletes them.
OrgsCounted(m, config, r) ==
    /\ m = Orgs
    /\ crd \/ known
    /\ r = IF listed THEN InProgress ELSE Success
    /\ known' = TRUE
    /\ NoFault
    /\ UNCHANGED <<phase, applied, crd>>

\* Orgs.Uninstall: DeleteAllOf reaches only the configured root namespace, the
\* remaining orgs are counted in all of them, but in the cache: one just
\* created may be missed, one just gone still counted. A process that knows the
\* CFOrg kind gets along without the CRD: DeleteAllOf says NotFound, which is
\* ignored, and the informer still answers.
OrgsDeleted(m, config, r) ==
    /\ m = Orgs
    /\ crd \/ known
    /\ r = IF listed THEN InProgress ELSE Success
    /\ SetPhase(Orgs, IF phase[Orgs] # "absent" /\ config.rootNamespace = "cf"
                      THEN "removing" ELSE phase[Orgs])
    /\ known' = TRUE
    /\ NoFault
    /\ UNCHANGED <<applied, crd>>

Uninstall(m, config, r) ==
    \/ NothingToUninstall(m, r)
    \/ YamlDeleted(m, r)
    \/ HelmDeleted(m, r)
    \/ HelmUninstallFails(m, r)
    \/ OrgsDeleted(m, config, r)

\* Install, Conditional.Install for Contour included: with its predicate
\* false it uninstalls.
Install(m, config, r) ==
    \/ m \in YamlModules /\ YamlInstalled(m, r)
    \/ /\ m \in HelmModules
       /\ m = Contour => ContourEnabled(config)
       /\ HelmInstalled(m, config, r) \/ HelmRefused(m, r) \/ HelmInstallFails(m, r)
    \/ /\ m = Contour
       /\ ~ContourEnabled(config)
       /\ Uninstall(m, config, r)

-----------------------------------------------------------------------------
(* The install and uninstall passes.                                       *)

\* install: one iteration. It goes on after InProgress and Failed results.
InstallStep ==
    /\ pc = "install"
    /\ idx <= Len(InstallOrder)
    /\ \E r \in {Success, InProgress, Failed} :
          /\ Install(InstallOrder[idx], obj.status.config, r)
          /\ worst' = IF r > worst THEN r ELSE worst
    /\ idx' = idx + 1
    /\ UNCHANGED <<cr, caches, queued, timer, pc, base, obj, retry, kyma, creates, orgs>>

\* Yaml.Install returns an error after some of its objects; install stops.
InstallErrs ==
    /\ pc = "install"
    /\ idx <= Len(InstallOrder)
    /\ LET m == InstallOrder[idx] IN
          /\ m \in YamlModules
          /\ \/ UNCHANGED phase
             \/ phase[m] = "absent" /\ SetPhase(m, "partial")
    /\ Fault
    /\ pc' = "patchMain"
    /\ retry' = TRUE
    /\ UNCHANGED <<cr, caches, queued, timer, base, obj, idx, worst, applied, orgsApi, kyma,
                   creates, orgs>>

\* applyInstallResultToStatus.
ApplyResult(o, r) ==
    LET s == CASE r = Success -> [o.status EXCEPT !.state = "Ready", !.url = TRUE]
               [] r = Failed -> [o.status EXCEPT !.state = "Error", !.url = FALSE]
               [] OTHER -> [o.status EXCEPT !.state = "Processing", !.url = FALSE]
        c == CASE r = Success -> "True" [] r = Failed -> "False" [] OTHER -> "Unknown"
    IN  [o EXCEPT !.status = SetCondition(s, "Installation", c, o.generation)]

\* Mutant of InstallDone: an unfinished installation is not requeued.
InstallDoneNoRequeue ==
    /\ pc = "install"
    /\ idx > Len(InstallOrder)
    /\ obj' = ApplyResult(obj, worst)
    /\ retry' = FALSE
    /\ pc' = "patchMain"
    /\ UNCHANGED <<cr, caches, queued, timer, base, idx, worst, cluster, kyma, budget>>

\* install has gone through all installables; the worst result decides.
InstallDone ==
    /\ pc = "install"
    /\ idx > Len(InstallOrder)
    /\ obj' = ApplyResult(obj, worst)
    /\ retry' = (worst = InProgress)
    /\ pc' = "patchMain"
    /\ UNCHANGED <<cr, caches, queued, timer, base, idx, worst, cluster, kyma, budget>>

\* Mutant of UninstallStep: goes on after every result, the way install does.
UninstallStepGoesOn ==
    /\ pc = "uninstall"
    /\ idx <= Len(UninstallOrder)
    /\ \E r \in {Success, InProgress, Failed} :
          Uninstall(UninstallOrder[idx], obj.status.config, r)
    /\ idx' = idx + 1
    /\ UNCHANGED <<cr, caches, queued, timer, pc, base, obj, worst, retry, kyma, creates, orgs>>

\* uninstall: one iteration; anything but Success ends the pass.
UninstallStep ==
    /\ pc = "uninstall"
    /\ idx <= Len(UninstallOrder)
    /\ \E r \in {Success, InProgress, Failed} :
          /\ Uninstall(UninstallOrder[idx], obj.status.config, r)
          /\ IF r = Success
             THEN idx' = idx + 1 /\ UNCHANGED <<pc, obj, retry>>
             ELSE /\ pc' = "patchMain"
                  /\ obj' = [obj EXCEPT !.status =
                                SetCondition(@, "Deletion", "False", obj.generation)]
                  /\ retry' = TRUE
                  /\ UNCHANGED idx
    /\ UNCHANGED <<cr, caches, queued, timer, base, worst, kyma, creates, orgs>>

\* Yaml.Uninstall or Orgs.Uninstall returns an error after some deletions.
UninstallErrs ==
    /\ pc = "uninstall"
    /\ idx <= Len(UninstallOrder)
    /\ LET m == UninstallOrder[idx] IN
          /\ m \notin HelmModules
          /\ \/ UNCHANGED phase
             \/ /\ phase[m] # "absent"
                /\ m = Orgs => obj.status.config.rootNamespace = "cf"
                /\ SetPhase(m, "removing")
    /\ Fault
    /\ pc' = "patchMain"
    /\ retry' = TRUE
    /\ UNCHANGED <<cr, caches, queued, timer, base, obj, idx, worst, applied, orgsApi, kyma,
                   creates, orgs>>

\* No installed Korifi has brought the CFOrg CRD, and this process has never
\* seen it.
OrgsUnreachable == ~crd /\ ~known

\* Orgs.Uninstall: the client cannot map CFOrg to a resource. That error is not
\* the NotFound which deleteAllOrgs and remainingOrgsCount ignore.
OrgsUninstallErrs ==
    /\ pc = "uninstall"
    /\ idx <= Len(UninstallOrder)
    /\ UninstallOrder[idx] = Orgs
    /\ OrgsUnreachable
    /\ pc' = "patchMain"
    /\ retry' = TRUE
    /\ UNCHANGED <<cr, caches, queued, timer, base, obj, idx, worst, cluster, kyma, budget>>

\* uninstall got Success from everything: finalize drops the finalizer.
UninstallDone ==
    /\ pc = "uninstall"
    /\ idx > Len(UninstallOrder)
    /\ obj' = [obj EXCEPT !.finalizer = FALSE]
    /\ retry' = FALSE
    /\ pc' = "patchMain"
    /\ UNCHANGED <<cr, caches, queued, timer, base, idx, worst, cluster, kyma, budget>>

-----------------------------------------------------------------------------
(* Patch: the object first, then its status, both against what was read.   *)

PatchMain ==
    /\ pc = "patchMain"
    /\ cr.exists
    /\ cr' = MergeFinalizer(cr, base, obj)
    /\ pc' = "patchStatus"
    /\ UNCHANGED <<caches, queued, timer, base, obj, idx, worst, retry, cluster, kyma, budget>>

PatchStatus ==
    /\ pc = "patchStatus"
    /\ cr.exists
    /\ cr' = [cr EXCEPT !.status = MergeStatus(@, base.status, obj.status)]
    /\ Finish(retry)
    /\ UNCHANGED <<caches, queued, cluster, kyma, budget>>

\* Either patch finds the object gone; the error overrides the result.
PatchNotFound ==
    /\ pc \in {"patchMain", "patchStatus"}
    /\ ~cr.exists
    /\ Finish(TRUE)
    /\ UNCHANGED <<cr, caches, queued, cluster, kyma, budget>>

\* Either patch fails, or was applied and its answer got lost.
PatchFails ==
    /\ pc \in {"patchMain", "patchStatus"}
    /\ cr.exists
    /\ Fault
    /\ \/ UNCHANGED cr
       \/ pc = "patchMain" /\ cr' = MergeFinalizer(cr, base, obj)
       \/ /\ pc = "patchStatus"
          /\ cr' = [cr EXCEPT !.status = MergeStatus(@, base.status, obj.status)]
    /\ Finish(TRUE)
    /\ UNCHANGED <<caches, queued, cluster, kyma, creates, orgs>>

-----------------------------------------------------------------------------
Reconcile ==
    \/ ReconcileGone \/ ReconcileGetFails
    \/ FinalizeSkip \/ FinalizeStart \/ CompileFails \/ InstallStart
    \/ InstallStep \/ InstallErrs \/ InstallDone
    \/ UninstallStep \/ UninstallErrs \/ OrgsUninstallErrs \/ UninstallDone
    \/ PatchMain \/ PatchStatus \/ PatchNotFound \/ PatchFails

Environment ==
    \/ \E spec \in Specs : CreateCR(spec) \/ EditSpec(spec)
    \/ DeleteCR
    \/ CreateOrg
    \/ \E m \in Modules : FinishRemoval(m) \/ Repair(m)
    \/ CascadeToOrgs
    \/ KymaComesUp \/ KymaGoesDown
    \/ CacheSync \/ OrgsListSync \/ TimerFires \/ Resync \/ Restart

Next == Reconcile \/ Environment

\* The worker runs, watches, timers and resyncs fire, and objects marked for
\* deletion are eventually collected; nothing obliges users, Kyma, faults or
\* whoever might repair a Helm release.
Fairness ==
    /\ WF_vars(Reconcile)
    /\ WF_vars(CacheSync)
    /\ WF_vars(OrgsListSync)
    /\ WF_vars(TimerFires)
    /\ WF_vars(Resync)
    /\ WF_vars(CascadeToOrgs)
    /\ \A m \in YamlModules \cup {Orgs} : WF_vars(FinishRemoval(m))

Spec == Init /\ [][Next]_vars

FairSpec == Spec /\ Fairness

-----------------------------------------------------------------------------
(* Properties.                                                             *)

\* Every variable keeps its shape.
TypeOK ==
    /\ cr \in Objects /\ cache \in Objects /\ base \in Objects /\ obj \in Objects
    /\ listed \in BOOLEAN /\ queued \in BOOLEAN /\ timer \in BOOLEAN /\ retry \in BOOLEAN
    /\ kyma \in BOOLEAN /\ crd \in BOOLEAN /\ known \in BOOLEAN
    /\ pc \in {"idle", "install", "uninstall", "patchMain", "patchStatus"}
    /\ idx \in Nat \ {0}
    /\ worst \in {Success, InProgress, Failed}
    /\ phase \in [Modules -> Phases]
    /\ applied \in [HelmModules -> Configs]
    /\ creates \in Nat /\ orgs \in Nat /\ faults \in Nat

AllGone == \A m \in Modules : Gone(m)

\* finalize lets the CR go only after a complete uninstall: whenever a
\* reconcile that read an installation config drops the finalizer, no org and
\* nothing the operator installs is left in the cluster. The code does not keep
\* this: a Helm release left half installed or half removed is hidden from the
\* client, and the pass goes by it.
ReleasedOnlyWhenUninstalled ==
    [][cr.finalizer /\ ~cr'.finalizer => obj.status.config = ZeroConfig \/ AllGone]_vars

\* Everything is gone but for Helm releases that a fault has hidden.
AllUnseen == \A m \in Modules : Gone(m) \/ (Hidden(m) /\ faults > 0)

\* What the code does keep: the CR is released with its installation config only
\* when no org and nothing the operator installs is left, although orgs may be
\* created and removals complete while the uninstall pass runs, except Helm
\* releases hidden by a crash or by a removal that failed half way.
ReleasedUnlessHidden ==
    [][cr.finalizer /\ ~cr'.finalizer => obj.status.config = ZeroConfig \/ AllUnseen]_vars

\* The order of uninstallOrder and the early return of uninstall protect users'
\* orgs: as long as an org exists, Korifi, whose controllers have to finalize
\* it, is not being removed and has not been removed.
OrgsNeverStranded ==
    phase[Orgs] # "absent" => phase[Korifi] \in {"installed", "partial", "interrupted"}

\* The finalizer, once persisted, stays until the CR goes with it: no stale
\* reconcile takes it from a CR that lives on, a re-created one included.
FinalizerHeld ==
    [][cr.exists /\ cr.finalizer /\ cr'.exists => cr'.finalizer]_vars

Settled == pc = "idle" /\ ~queued /\ ~timer /\ cache = cr

\* Installed, or removed if its predicate is false, according to the config; of
\* the removal that is all the client can tell.
InstalledAs(m, config) ==
    IF m = Contour /\ ~ContourEnabled(config)
    THEN Gone(m) \/ (Hidden(m) /\ faults > 0)
    ELSE phase[m] = "installed" /\ (m \in HelmModules => applied[m] = config)

\* The CR's status tells the truth about the cluster.
ReadyIsTrue ==
    cr.status.state = "Ready" =>
        /\ cr.status.url
        /\ cr.status.conditions["Installation"].status = "True"
        /\ \A k \in 1 .. Len(InstallOrder) : InstalledAs(InstallOrder[k], cr.status.config)

\* When the operator has nothing left to do (nothing queued, no retry pending,
\* the cache up to date) it has really finished: the CR carries the finalizer,
\* its status is about the current generation and spec, and it is Ready with
\* everything installed accordingly, or Error. Stale reads, lost answers and
\* restarts on the way do not matter.
SettledIsFinished ==
    Settled /\ cr.exists =>
        /\ ~cr.deleting
        /\ cr.finalizer
        /\ cr.status.observed = cr.generation
        /\ cr.status.config = Compile(cr.spec)
        /\ cr.status.state \in {"Ready", "Error"}
        /\ cr.status.conditions["Configuration"].status = "True"
        /\ ReadyIsTrue

\* A hidden Helm release: Install is refused, Uninstall goes by it.
ReleaseStuck == \E m \in HelmModules : Hidden(m)

\* A CR that is being deleted eventually goes away, whatever orgs users create
\* meanwhile and whatever fails, unless the operator can never again reach the
\* CFOrg kind.
DeletionCompletes ==
    <>[](cr.exists /\ cr.deleting) => <>[]OrgsUnreachable

\* What the tests say of a CR with the finalizer that is deleted, without the
\* exception: it goes away.
DeletionAlwaysCompletes == (cr.exists /\ cr.deleting) ~> ~cr.exists

\* A CR that from some moment on is not deleted and can be compiled, no Helm
\* release being stuck, ends up Ready for good, whatever failed before: Error is
\* not retried on its own, but the informer's resync brings the key back.
Converges ==
    <>[](cr.exists /\ ~cr.deleting /\ CanCompile(cr.spec) /\ ~ReleaseStuck)
        => <>[](cr.status.state = "Ready" /\ ReadyIsTrue /\ cr.status.observed = cr.generation)

\* Every org lives in the root namespace.
OrgsInRootNs == phase[CfRootNs] = "absent" => phase[Orgs] = "absent"

\* Only a fault hides a Helm release.
HiddenOnlyByFault == ReleaseStuck => faults > 0

\* During an uninstall pass everything already passed is gone or hidden, apart
\* from orgs that users may have created again behind the pass.
UninstallProgress ==
    pc = "uninstall" =>
        \A k \in 1 .. Len(UninstallOrder) :
            k < idx /\ UninstallOrder[k] # Orgs => Unseen(UninstallOrder[k])

\* The finalizer is in the object until the end of the pass, and taken out of
\* an object with a config only when nothing is left that the client can see.
ReleaseEarned ==
    /\ pc \in {"install", "uninstall"} => obj.finalizer
    /\ pc = "patchMain" /\ ~obj.finalizer => obj.status.config = ZeroConfig \/ AllUnseen

\* The inductive invariant behind ReleasedUnlessHidden and
\* OrgsNeverStranded: what the uninstall pass has established so far survives
\* everything that users and the cluster do meanwhile.
IndInv ==
    /\ TypeOK
    /\ ~cr.exists => ~cr.finalizer
    /\ OrgsInRootNs
    /\ HiddenOnlyByFault
    /\ UninstallProgress
    /\ ReleaseEarned
    /\ OrgsNeverStranded

\* An object can only be deleting while a finalizer holds it.
HeldWhileDeleting(o) == o.deleting => o.exists /\ o.finalizer

\* The invariant behind FinalizerHeld: a worker that takes the finalizer away
\* has read a deleting CR, and as long as a CR that carries the finalizer is not
\* deleting, neither cache nor worker remember a deleting one. A re-created CR
\* only gets its finalizer from a worker that has read it.
FinalizerKept ==
    /\ HeldWhileDeleting(cr) /\ HeldWhileDeleting(cache) /\ HeldWhileDeleting(base)
    /\ pc # "idle" => base.exists
    /\ pc = "uninstall" \/ (pc # "idle" /\ ~obj.finalizer) => base.deleting
    /\ cr.finalizer /\ ~cr.deleting => ~cache.deleting /\ ~base.deleting
    /\ pc # "idle" /\ cache.deleting /\ ~base.deleting => cr.deleting
    /\ base.deleting /\ cr.deleting => cache.deleting

\* What finalize logs when it skips the uninstall, "installation has not
\* started": a reconcile that drops the finalizer because it found no config
\* has nothing to uninstall.
SkippedOnlyIfNotStarted ==
    pc = "patchMain" /\ ~obj.finalizer /\ obj.status.config = ZeroConfig => AllGone

\* The CR is gone and no other will be created.
OverForGood == ~cr.exists /\ creates >= MaxCreates

\* Of an old installation nothing is left to a CR that is not deleting but what
\* is hidden, and
\* Yaml objects on their way out belong to a deleting CR that everyone has seen.
NothingInherited ==
    /\ (cache.deleting \/ base.deleting) /\ ~cr.deleting => AllUnseen \/ OverForGood
    /\ (\E m \in YamlModules : phase[m] = "removing")
        => OverForGood \/ (cr.deleting /\ cache.deleting /\ (pc # "idle" => base.deleting))

\* What a status says of an object whose spec has been compiled.
Records(status, o) ==
    /\ status.observed = o.generation
    /\ status.config = Compile(o.spec)
    /\ status.conditions["Configuration"].status = "True"

\* What a status says at the end of an install pass that needs no retry.
Concludes(status, o) ==
    /\ Records(status, o)
    /\ status.state \in {"Ready", "Error"}
    /\ status.state = "Ready" =>
          /\ status.url
          /\ status.conditions["Installation"].status = "True"
          /\ \/ \A k \in 1 .. Len(InstallOrder) : InstalledAs(InstallOrder[k], status.config)
             \/ OverForGood

\* What a pass has earned so far, and with what it ends if it needs no retry.
PassConcludes ==
    /\ pc = "install" =>
          /\ ~base.deleting
          /\ obj.generation = base.generation
          /\ Records(obj.status, base)
          /\ worst = Success =>
                \/ \A k \in 1 .. Len(InstallOrder) : k < idx => InstalledAs(InstallOrder[k], obj.status.config)
                \/ OverForGood
    /\ pc \in {"patchMain", "patchStatus"} /\ ~retry =>
          IF base.deleting THEN ~obj.finalizer ELSE Concludes(obj.status, base)

\* The worker's write shows: the CR differs from what the worker has read, in
\* a way that only another reconcile can undo.
Differs ==
    \/ cr.finalizer /\ (cr.status # cache.status \/ ~cache.finalizer)
    \/ ~cr.finalizer /\ cache.finalizer

\* The invariant behind SettledIsFinished: a worker whose key is not queued has
\* read what is in the cache, and leaves it concluded or the CR different.
Settling ==
    /\ cr.exists => creates >= 1
    /\ NothingInherited
    /\ PassConcludes
    /\ pc # "idle" /\ ~queued => cache = base
    /\ pc = "patchStatus" =>
          IF obj.finalizer THEN base.finalizer \/ cr.finalizer ELSE ~cr.finalizer
    /\ pc = "idle" /\ ~queued /\ ~timer /\ cache.exists =>
          Differs \/ (cache.finalizer /\ ~cache.deleting /\ Concludes(cache.status, cache))

\* Ready says that everything is installed, at least once the operator has
\* caught up with everything that happened.
ReadyMeansInstalled == Settled => ReadyIsTrue
=============================================================================

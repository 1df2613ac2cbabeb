# Verification of the CFAPI operator and the BTP service broker

This directory holds TLA+ models of `kyma-project/cfapi`: the Kubernetes
operator that installs Cloud Foundry (Korifi) on a Kyma cluster and removes it
again, and the Open Service Broker that serves SAP BTP services to it. TLC
checks the models on small instances; TLAPS proves the central invariants for
every value of the constants. `PROJECT.json` maps each definition to the lines
it models, and lists runs, mutants, findings, hazards and theorems.

## 1. The system

| component | source | state it keeps | operations |
|---|---|---|---|
| Patching reconciler | `tools/k8s/reconcile.go`, `patch.go` | none; the copy of the object it read | `Reconcile`: Get, `ReconcileResource`, merge patch of the object, merge patch of the status |
| CFAPI reconciler | `controllers/cfapi/controller.go` | everything in the CR: finalizer, state, observed generation, conditions, installation config, URL | `ReconcileResource`, `compileInstallationConfig`, `install`, `applyInstallResultToStatus`, `finalize`, `uninstall` |
| Module CR API | `api/v1alpha1` | the CR | spec, status, states |
| Installables | `controllers/installable` | the cluster: objects of manifests, Helm releases, CFOrgs | `Install`, `Uninstall`, each returning Success, InProgress, Failed or an error |
| Helm client | `controllers/helm/client.go` | Helm's release records | `Apply` (install or upgrade), `Uninstall` |
| Wiring | `main.go` | install and uninstall order | construction |
| Kyma lookups | `controllers/kyma`, `controllers/cfapi/secrets` | none; Kyma's gateway, secrets, CRDs and role bindings | gateway validation, domain, registry, UAA URL, admins |
| Values providers | `controllers/installable/values` | none; certificate secrets and ingress services in the cluster | `GetValues` per chart, or "not ready" |
| BTP service broker | `components/btp-service-broker/btp` | none; ServiceInstances and ServiceBindings in the Kubernetes API, offerings and plans in the Service Manager | `Services`, `Provision`, `Deprovision`, `Bind`, `Unbind`, `LastOperation`, `LastBindingOperation` |
| Binding credentials | `components/btp-service-broker/btp/bindings` | none; the binding's Secret | `DecodeBindingSecretData` |
| Broker process | `components/btp-service-broker/main.go` | the Service Manager credentials it read at the start | start, exit |

How they interact. controller-runtime watches the one CFAPI CR and puts its key
into a work queue that one worker serves. A reconcile reads the CR **from the
informer cache**, computes the installation config, calls the installables one
after the other in `installOrder` (or, for a CR being deleted,
`uninstallOrder`), and only then writes back what changed, in two merge
patches. Nothing is kept in memory between reconciles: the CR's finalizer and
`status.installationConfig` are the only evidence of an installation. The Helm
installables keep their state in Helm's release records. The broker is a
separate process; its requests run concurrently and share the objects with the
BTP operator.

What is hard. Stale reads of the cache, by which a reconcile redoes or undoes
what an earlier one did; two patches that may each fail, or succeed with the
answer lost; users who edit, delete and re-create the CR and create orgs while
a pass runs; installables that fail half way; crashes between the writes of a
Helm operation, whose record Helm's list then hides; retries that depend on `RequeueAfter`, an error or nothing but
the informer's resync; lookups in Kyma objects that nobody watches and that
change between two reads; charts that wait for certificates, load balancers and
CRDs others bring; conditions on BTP objects that are about an older generation;
a catalog put together from two lists. The list, with lines, is under `hazards` in `PROJECT.json`.

What makes the parts correct:

* *Operator, deletion*: the CR is released only when everything is gone that the
  operator can see; Korifi is never taken away from orgs it still has to
  finalize; deletion ends if the CFOrg kind can be reached.
* *Operator, status*: when the operator rests, the CR's status is about the
  current spec and true of what the operator can see; an installation that can succeed does.
* *Finalizer*: no stale reconcile takes it from a CR that lives on.
* *Installables*: Success is said of a complete installation with the values
  asked for, or of a clean removal unless Helm hides the rest; nothing is orphaned, no update of others is
  overwritten unseen, and what is wanted is reached through failures.
* *Patches*: a call changes only the fields it means to change, and what a
  reconcile changed is stored even if it failed.
* *Configuration*: the status catches up with Kyma; a stored config is not lost;
  installing again changes nothing where there is nothing to put in order.
* *Rollout*: whatever comes late, the installation ends Ready, and Ready means
  that what is deployed is what the spec asks for.
* *Broker*: what a poll is told is true of BTP at that moment; polling ends; the
  catalog offers only what exists; credentials are restored as issued.

## 2. Modules

| module | models | kind |
|---|---|---|
| `CFAPIOperator` | reconciler, patches, installables as calls, cache, queue, users | state machine |
| `CFAPIOperator_proofs` | its theorems | proofs |
| `Installable` | what the reconciler relies on in an installable | abstract specification |
| `HelmRelease` | `HelmChart` and the Helm client, write by write; implements `Installable` | state machine |
| `HelmRelease_proofs` | its theorems | proofs |
| `YamlManifest` | `NewYaml` object by object, with the metadata cache; implements `Installable` | state machine |
| `YamlManifest_proofs` | its theorems | proofs |
| `KymaConfig` | `compileInstallationConfig`, lookup by lookup, and the status it leads to | state machine over pure operators |
| `KymaConfig_proofs` | its theorems | proofs |
| `Rollout` | the installables of `main.go`, their values providers and what they wait for | state machine |
| `Rollout_proofs` | its theorems | proofs |
| `PatchingReconciler` | `Reconcile`, `Patch`, `PatchResource`, `TryPatchResource`, `NotReadyError`, for any object | state machine |
| `PatchingReconciler_proofs` | its theorems | proofs |
| `BTPBroker` | the broker's endpoints, call by call, and the BTP operator | state machine |
| `BrokerCatalog` | the broker's process and `Services` | state machine |
| `BindingCredentials` | the decoder of binding Secrets | state machine over pure operators |
| `Broker_proofs` | the theorems of these three | proofs |
| `SequenceLemmas` | what the operators on sequences compute | lemmas |
| `MC...` | an instance of the module of that name | models for TLC |

Definitions called "Mutant of ..." are wrong variants of the definition below
them. No specification uses them; they are put in its place to see that a
property notices.

### CFAPIOperator

`cr` is the CR in the API server, `cache` the informer's copy, `listed` what the
informer of CFOrgs knows. `queued` and `timer` are the work queue and a pending
`RequeueAfter` or rate-limited retry. The worker is `pc`, `base` (`objCopy`),
`obj`, `idx` (position in the order), `worst` (what sorting the results puts
first) and `retry` (what `Reconcile` will return). The cluster is `phase`, per
installable, `applied`, the config a Helm release was last deployed with, and
`crd`, whether the CFOrg CRD is there; `known` is whether this process has ever
mapped that kind. A Helm release in one of `HiddenPhases` is there without the
client seeing it.

| code | actions |
|---|---|
| `Reconcile` up to the branch | `ReconcileGone`, `ReconcileGetFails`, `FinalizeSkip`, `FinalizeStart`, `CompileFails`, `InstallStart` |
| `install` | `InstallStep` (one installable), `InstallErrs`, `InstallDone` with `ApplyResult` |
| `uninstall`, `finalize` | `UninstallStep`, `UninstallErrs`, `OrgsUninstallErrs`, `UninstallDone` |
| `Patch` | `PatchMain`, `PatchStatus`, `PatchNotFound`, `PatchFails` |
| `NewConditional`, `NewYaml`, `NewHelmChart`, `NewOrgs` | `Install`, `Uninstall` and the operators they are made of |
| users, API server, Kyma, controller-runtime | `CreateCR` ... `Restart` |

`MergeStatus` is the JSON merge patch: a field that the reconcile did not change
relative to *what it read* keeps the server's value, the conditions being one
field and the config being merged field by field. `Compile` keeps the two config
fields that change what installables do; whether the Kyma objects behind the
others exist is the Boolean `kyma`; `KymaConfig` opens that up. A call of an
installable is one step here, in the middle of which the process may die
(`Restart` with `InsideHelm`); `HelmRelease` and `YamlManifest` open it up.

*Hidden releases.* A crash inside an install or upgrade leaves the release
`interrupted`, a removal that fails or dies leaves it `abandoned`. Helm's list
shows neither, so that from then on `Uninstall` finds nothing and says Success
(`NothingToUninstall`), and `Install` is refused by Helm because the name is taken
(`HelmRefused`, InProgress). Only somebody who removes it by hand ends this (`Repair`).

*Orgs without their CRD.* The CFOrg CRD is a template of the Korifi chart
(`module-data/vendor/korifi-chart/templates/components.yaml`), hence comes with the
release and goes with it. While it is not there, a process that has never mapped
the kind gets a no-match error, which `orgs.go` does not ignore
(`OrgsUninstallErrs`); one that has mapped it before asks the API server, gets
NotFound and goes on. What the REST mapper keeps is controller-runtime's doing
and modelled from that.

### Installable and HelmRelease

`Installable` has what of it is in the cluster, the config it was installed
with, and the last result. It allows an `Install` to succeed from anything that
is not being removed, demands that a successful `Uninstall` finds nothing left,
and lets everything else come to an end in further calls. Its weak spot is the
phase `hidden`: an installable that was interrupted may lose sight of what it has
in the cluster, after which `Uninstall` succeeds and `Install` never does. The Helm
installable makes use of this exception, the Yaml one does not.

`HelmRelease` has the goal, the latest release record, the chart's objects and
the running call. Helm itself is external: install and upgrade write a pending
record, change objects, write deployed or failed; uninstall writes uninstalling,
deletes objects, purges the record. The operator may die between any two writes
(`Crash`). `LatestRelease` is what `getLatestReleases` returns: the client leaves the
`StateMask` of list unset, whose default is deployed and failed, applied after each
name is reduced to its latest record. A record that is pending or uninstalling is
therefore `Hidden`; the branches of the client for such records
(`client.go:48-54` and `87-93`) never run and have no action. `ImplementsInstallable` is refinement under a mapping that reads the
phase off the record.

### YamlManifest

The manifest is a sequence of files of documents; `Listed` flattens it, unless a
document is malformed. Objects have a state, a resource version and whether
their content is the manifest's or somebody else's. `createOrUpdate` reads the
version in `cache`, which lags, and the API server refuses a `Create` of what
exists and an `Update` with another version (`Accepted`). A refused or failing
call ends the pass with an error, with or without its effect. `stage` is a
history variable that records how far the calls have got: it is the phase that
`Installable` speaks of, and `StageIsTrue` ties it to the cluster. `result` is
what the last call for what is wanted *now* returned: it is forgotten when the
reconciler changes its mind, as nobody acts on it any more.

### KymaConfig

Each lookup is an operator from the spec and the state of Kyma to the *set* of
answers it may give: `Ok`, `Error` or `Panic`, several where the code takes the
first key of a Go map. A reconcile is one step per lookup, and the CR and Kyma may change in
between. An error is a Warning with a retry, a panic a retry without a patch, a
complete config goes to the charts and into the status. Strings that are cut are
sequences of the pieces the code cuts at; the others are members of `Texts`. `quiet` is a
history variable: nothing has changed in Kyma since the reconcile began.

### Rollout

The pass over the ten installables in the order of `main.go`, the values each
provider computes from the config and its cached view, and the cluster that
answers late (Korifi always works in `cf`, as no provider passes the root namespace
on to it): certificates are issued after the prerequisites chart, Istio
creates the ingress service after Korifi, load balancers get their address, old
ones are cleaned up. A chart is applied in one step.

### PatchingReconciler

Any number of concurrent callers on one object with any fields in its main part
and its status. `MergeFrom` is the merge patch; `Touched` are the fields a call
means to change. It is modelled from `tools/k8s/patch.go`; the broker carries a copy of `patch.go`, the same line by line,
which nothing calls; the module stands for both.

### BTPBroker

One instance and one binding. Requests that change something are sequences of
API calls (`CreateOrPatch` is a Get and a Create or Patch); polls make one Get
and are the operators `LastOperation` and `LastBindingOperation`, so that an
invariant says what a poll arriving *now* is told. `Bind` keeps what it answers
until the platform has it (`GetCredentials`, `Answered`); its history field `alone`
says that no other request has written or deleted the object since its Get. The BTP operator is external: it takes
up the generation it has read, reports on that generation, holds a finalizer.

### BrokerCatalog and BindingCredentials

`BrokerCatalog` has the process (down, starting, serving with the credentials it
read) and one `Services` call at a time with its two lists. Texts that are
unmarshalled are reduced to whether they parse. `BindingCredentials` has the
Secret as the BTP operator encodes it and as others may damage it; bytes are
shared between strings and JSON texts, so that a wrong format is seen.

## 3. Runs

| run | result | what it shows |
|---|---|---|
| `OperatorConvergence` | pass | with edits between valid and invalid gateway types, deletion and one fault anywhere, a crash inside a Helm operation included: `SettledIsFinished` (an operator at rest has finished, and the status is true of all the client can see); `Converges` |
| `OperatorRecreate` | pass | with the CR deleted and created again, an org and one fault: `ReleasedUnlessHidden` (nothing is left but Helm releases a fault has hidden), `OrgsNeverStranded`, `FinalizerHeld`, `DeletionCompletes` (unless the operator can never again reach the CFOrg kind), and the inductive invariant |
| `Helm` | pass | `CleanUnlessHidden`, `InstallSuccessIsComplete`, the inductive invariant; the contract is kept; `GoalIsReached`: failed operations are retried until the goal is met, unless a record is left that nobody works on |
| `Yaml` | pass | the inductive invariant, of which `UninstallSuccessIsClean` and `InstallSuccessIsComplete` are parts; the contract is kept; `NoBlindOverwrite`, `BadManifestTouchesNothing`; `WantedIsReached` |
| `Config` | pass | `ConfigIsNeverLost`, the inductive invariant (a config of one spec, complete or not there at all); `StatusFollowsKyma`; `ReinstallIsNoop`, from the moment on that there is one registry and one binding with cluster admins, whatever there was before |
| `Rollout` | pass | `ReadyIsRolledOut`, `SecretReachesKorifi` (with the root namespace `cf`, also after an edit from another one), the inductive invariant; `RolloutCompletes` |
| `Patching` | pass | `OnlyOwnChanges`, `ChangesAreStored`, `FailureComesBack`, the inductive invariant |
| `Broker` | pass | `SucceededIsReal` with `CredentialsAreOwn` (what `Bind` answers), `DeletedIsGone`, `FailureIsFresh`, the inductive invariant; `CreationConcludes`, `DeletionConcludes` |
| `Catalog` | pass | `OfferedPairsExist`, `AnswerIsWhole`, the inductive invariant; `CatalogIsServed` |
| `Credentials` | pass | `OriginalIsRestored` |
| `OperatorCustomRoot` | violated | with `rootNamespace` other than `cf` one org blocks the deletion forever |
| `OperatorSkip` | violated | "installation has not started" is said, and the CR released, with everything installed |

The two violated properties state what a test, a comment or a log line of the
repository says; the findings in `PROJECT.json` quote it.

**Disagreements without a run of their own.** The modules also have properties
that the code does not keep: without the exceptions that the checked ones make, or
outside the bounds of the passing runs. Each is seen by changing a configuration
as follows:

| property | change | what TLC shows |
|---|---|---|
| `CFAPIOperator!ReadyMeansInstalled` | `OperatorRecreate.cfg` with it as its only invariant | a reconcile of the stale deleting CR uninstalls under a re-created one, which stays Ready ("has been installed successfully", `api/v1alpha1/status.go:13`) with its root namespace terminating |
| `HelmRelease!UninstallSuccessIsClean` | `Helm.cfg` with it as its only invariant and no property | after a crash inside a Helm operation, or a deletion that failed half way, Helm's list hides the record (`controllers/helm/client.go:156`), Uninstall finds "nothing to uninstall" (`client.go:83`) and the installable says "uninstalled successfully" (`controllers/installable/helm.go:103`) of objects that are still there |
| `CFAPIOperator!ReleasedOnlyWhenUninstalled` | `OperatorSkip.cfg` with it as its only property instead of the invariant | the CR is released with such a release in the cluster, although the client means to say "uninstall operation is ongoing" of it (`controllers/helm/client.go:88`) |
| `CFAPIOperator!DeletionAlwaysCompletes` | `OperatorCustomRoot.cfg` with it as its only property, `Specs <- DefaultOnly`, `MaxOrgs = 0`, `MaxFaults = 1` | a CR deleted before Korifi was deployed is never released, as the Orgs step errs on every pass without the CFOrg CRD (`controllers/installable/orgs.go:57`); "is deleted", says `controllers/cfapi/controller_test.go:44-49` |
| `KymaConfig!ReinstallIsNoop` without its hypothesis | `Config.cfg` with `<>[][released' = released]_vars` as a property | with two registries in the secret, or two bindings to cluster-admin, the order of a Go map changes the config and upgrades the charts again and again; theorem `NoNeedlessUpgrade` says that nothing else does |
| `Rollout!RolloutCompletes` | `Rollout.cfg` with `Specs <- SwitchSpecs`, `MaxEdits = 2` | Contour, Istio and Contour again: the old ingress service is adopted while it terminates, and then nothing creates a new one |
| `Rollout!ReadyIsRolledOut` | the same two settings, with it as the only property | the config chart is then deployed with the address of the service that is going away |
| `Rollout!SecretReachesAnyRoot` | `Rollout.cfg` with it as its only invariant and no property | with a root namespace other than `cf` ("Root namespace for CF resources", `README.md:12`) the registry secret is propagated there, while Korifi, which is never told, uses `cf` |
| `BrokerCatalog!CatalogStaysServed` | `Catalog.cfg` with it as a property | after a rotation of the credentials the broker fails until it is restarted |

**Bounds.** The operator runs with four installables, one of each kind the code
treats differently: a Yaml one (the root namespace), the conditional Helm chart
Contour, Korifi and the uninstall-only Orgs, in the relative order of `main.go`.
More of a kind adds passes of the same loop body, and the proofs are for any
number. One edit (`MaxGeneration` = 2) is enough for a stale generation, two
creations for a stale CR, one org for one behind the pass. One fault is placed
at every point; two faults in a row mostly repeat one retry. `SettledIsFinished` is
checked with one creation. With two it fails as `ReadyMeansInstalled` does:
`FinalizeSkip` releases an installed CR on a stale cache, another is created, and
an uninstall pass for the old one runs under it; theorem `SettledUnlessSkipped`
says that this skip is the only cause. The one fault may hide a Helm release, and
with orgs and a second CR in `OperatorRecreate` that release is met by a later
install and a later uninstall. `Helm` has two sets of values, three changes of the goal and
two failures of each kind, hence a retry that fails again and a change back.
`Yaml` has two objects in two files, three changes, one write of others and two
faults: a conflict on an object already written, another failure after the
retry, and install, uninstall and install again. `Config`
has one state of Kyma for each way in which a lookup can fail or panic, a sound
and a renamed one, one with two registries and one with three bindings to
cluster-admin, one of them without users, and two changes, so that a reconcile may see three mixed
states. `Rollout` has all installables, one edit of the gateway type, the
secret or the root namespace and one refused chart. `Patching` has two callers, which is what it takes to
be overtaken; the proofs are for any number. `Broker` has two overlapping
requests out of four, two parameters and one failure: a request overtaken by
another and by a deletion, and one failure that an outdated condition may still
report afterwards. `Catalog` has two offerings, one with two plans, two changes, a
rotation and two faults; `Credentials` two names, texts that are JSON, that are
not, and that are both, and three writes.

**Deadlock** is not checked where everything may have been done: an absent
CR leaves the operator nothing to do, `Rollout` ends at rest, the broker's and the
patch helpers' callers have made their calls.

**Fairness.** `CFAPIOperator`: the worker runs; the watch delivers (`CacheSync`,
`OrgsListSync`); timers fire; the informer resyncs (controller-runtime's default
sync period, about ten hours, which is what retries an Error); the API server
collects what is marked for deletion once its finalizers allow. Weak fairness is
enough everywhere. Nothing is assumed of users, of Kyma, of faults (their number
is bounded by `MaxFaults`, so they end), or of anybody repairing a Helm release (`Repair` may happen and need not).
`HelmRelease` and `YamlManifest`: the reconciler calls again; the watch delivers
and the API server collects. `KymaConfig`: worker, timers, resync. `Rollout`: worker
and timers, but *not* the resync; the certificate manager, Istio and the load
balancers do their part; the watch delivers. `BTPBroker`: handlers run on, the BTP
operator keeps working and retries. `BrokerCatalog`: the kubelet restarts the
process, the platform asks again, the BTP operator module is enabled some day.

## 4. Proofs

All for arbitrary constants, from the named assumptions in the modules, which TLC
evaluates on every run: `ModulesAssumption` (kinds of installables are disjoint),
`OrdersAssumption` (everything installable is in the uninstall order; the root
namespace comes before Korifi in it), `SpecsAssumption`, `BoundsAssumption`;
`HelmAssumption`; `YamlAssumption` (manifests are sequences of files of documents;
one that can be read has an object in it); `PatchAssumption`; `BrokerAssumption`;
`CatalogAssumption`; `RolloutAssumption` (the two gateway types that the reconciler
accepts) and `MarksAssumption` (no value is the mark for none or not ready);
`CredentialsAssumption` and `MissingAssumption` (what the decoder reads back is what
was encoded, and no value is the mark for a missing one); `ConfigAssumption` (specs and
states of Kyma have the fields the code reads, with texts that are not empty, and the role
bindings are finitely many). The theorems of the three broker modules are in one module,
`Broker_proofs`, which is why their definitions have names of their own.

*CFAPIOperator, deletion*: `Invariance`, and from it `TypeCorrect`, `OrgsSafe` and
`ReleaseSafe`. That nothing is left when the finalizer goes is not inductive:
one has to know what a pass has established so far and that it survives what
users and the cluster do meanwhile. `UninstallProgress` says that whatever the
pass has gone by is gone, *except orgs*, which users may create again behind it
and which the cache may have hidden from it. `OrgsInRootNs` closes the gap: an org
lives in the root namespace, the namespace comes before Korifi, so that when the
pass reaches Korifi the namespace, hence every org, is gone and no new one can
come. The argument never uses the count of orgs that the Orgs installable
reports. `ReleaseEarned` carries the result from the end of the pass to the patch.
For a Helm release "gone" is weaker: gone, or hidden (`Unseen`), which stays so
however the cluster goes on, and `HiddenOnlyByFault` says that it takes a fault to
hide one; without faults the theorem is the full promise.

*CFAPIOperator, finalizer*: `DeletionIsSeen` (`FinalizerKept`) and from it
`FinalizerStays` (`FinalizerHeld`). A worker that takes the finalizer away has read
a deleting CR. What has to be shown is that a re-created CR cannot carry a
finalizer while such a worker is still on its way. The invariant is about the
three versions of the CR that are around, in the API server, in the cache and in
the worker's hands: a CR gets its finalizer only from a worker that has read it,
and by then cache and worker have forgotten the deleting one.

*CFAPIOperator, status*: `SettledOnce` and `SettledUnlessSkipped`, both about
`SettledIsFinished`: the first for a CR that is created at most once, the second
for any number of creations under the hypothesis `[]SkippedOnlyIfNotStarted`. The
hypothesis is what the code's log line says and what the run `OperatorSkip`
refutes; the theorem says that nothing else can leave a status wrong for good, but
for a Contour that should be removed and that a fault has hidden, of which Ready
says nothing. The
invariant `Settling` has three ideas. A worker whose key is not queued has read
what is in the cache now, since every change of the cache queues the key. A pass
that asks for no retry has a status that concludes (`PassConcludes`: recorded for
this generation, and Ready only if every installable it went by is as the config
wants it). And its patch either changes the CR, so that the cache differs and
another reconcile is due (`Differs`), or changes nothing, so that what was there
already concludes. `NothingInherited` keeps the cluster from changing under such a
status: Yaml objects on their way out belong to a deleting CR that everyone has
seen, which is where the skipped uninstall breaks it.
`FinalizerKept` and `Settling` are no invariants of a run, as they are proved; to see
them on an instance, add them to `OperatorRecreate.cfg` and `OperatorConvergence.cfg`.

*HelmRelease*: `Invariance`, `InstallComplete`, `UninstallClean`, `Recorded` (no
orphans) and `Implements` (refinement of `Installable`). The invariant ties the
record to the running operation (`RecordMatchesOp`) and the last result to the
record (`ResultMatchesRecord`), and says that only a crash or a failed deletion
leaves a record that list hides (`HiddenOnlyIfInterrupted`). `UninstallClean` is
about `CleanUnlessHidden`, with that exception.

*YamlManifest*: `Invariance`, `InstallComplete`, `UninstallClean`, `BadManifest`,
`NoOverwrite` and `Implements` (refinement of `Installable`), for any manifest.
`PassIsTrue` says what a pass has earned so far, object by object; it survives
because nothing is deleted while Install is wanted and nothing created by anybody
while Uninstall is. `StageIsTrue` is what makes the refinement step through: the
history agrees with the cluster, and only objects of the manifest are on their
way out. That an object is in the flattened manifest exactly if it is in one of
its files needs an induction over the files, which is done by taking the least
counterexample in a well-founded order (`SequenceLemmas!SetInduction`).

*KymaConfig*: `Invariance`, `ConfigStays` (`ConfigIsNeverLost`), `PromisesOfInstalls`,
`InstallsOneSpec` and `NoNeedlessUpgrade`, for any specs and states of Kyma and any number of changes. The
invariant has to say where the half-made config of a running reconcile comes from:
`LookedUpForSeen`, that every lookup it is through with was answered to the spec read at
the beginning, by *some* state of Kyma, which is the present one while Kyma is `quiet`.
Without it nothing keeps an install from storing an incomplete config.
`StatusTellsReleased` has the rest: the status shows what the charts were applied
with, `Compiled` from one spec. What that is worth is shown about the operators:
`CompiledLemma` says that a config compiled from one spec is complete and keeps the
README's promises about the spec, and `PromisesKept` adds those about domain,
registry and admins when all answers are from one state of Kyma. The code cuts off the
first two characters of the first host of the gateway whatever they are, so the
domain is as promised only if they are `*.`: that is the hypothesis `WildcardFirst`.
The admins are those of the role bindings in whatever order the cache lists them;
this rests on what `FlattenSeq` and `SetToSeqs` compute (`FlattenLemma`, `OrderLemma` in
`SequenceLemmas`). `NoNeedlessUpgrade` is the safety core of `ReinstallIsNoop`: where there
is one registry in the secret and one binding that makes users cluster admins
(`Unambiguous`), no lookup has two answers (`OneAnswer`), so that there is one config to
compile, and an undisturbed reconcile changes the charts' values only if the present
ones are out of date. `ReinstallIsNoop` has the same hypothesis; without it TLC
refutes both.
`UndisturbedInstall`, `OneSpec` and `UpgradeIsNeeded` are stated with the theorems and hold
on the instance of `Config`.

*Rollout*: `Invariance`, `SecretReaches` (`SecretReachesKorifi`, whatever spec the CR
had before it), `RolledOutOnce` and `RolledOutUnlessAdopted`, both about `ReadyIsRolledOut`:
the first for at most one edit, the second for any number under the hypothesis
`[]ContourStartsClean`, that Contour is not installed over the rest of an earlier
one. `PassEarned` says what the pass has established, chart by chart; it survives
because certificates and the issuer only come (`ViewIsNotAhead`) and because an
edit queues the key. The address is another matter, as services go: `HostIsTrue`
says that a service names lead to is not on its way out and that an address in
the cache is its own (`Kept`). Installing Contour is the only step that can break
this, when it adopts a terminating service or the cache still has the old one,
and the code does not guard against it; with two edits TLC shows it. With one,
`NoWayBack` rules it out.

*PatchingReconciler*: `Invariance`, `Stored`, `ComesBack` and `OwnChanges`, for any
fields, values and number of callers. The invariant is that the copy taken before
the first patch is what that patch sends (`CopyIsFaithful`), since the answer to it
overwrites the caller's object, and that what the first patch has stored is still
there, unless another call touched the field, when the second one is made
(`StoredSoFar`).

*BTPBroker*: `Invariance`, `SuccessTrue`, `DeletionTrue`, `FailureTrue`, for any
number of overlapping requests. The invariant has three parts per kind: an
object without the BTP operator's finalizer is unknown to BTP (`UnknownToBTP`),
work on the current generation is about the current spec (`WorkMatchesObject`),
and a condition about the current generation is true (`ConditionsMatchObject`). Per
request it has what a request that is alone with its object knows of it
(`RequestMatchesObject`): the spec it read or wrote, then that the success it was
told of still stands when it reads the Secret, since the BTP operator withdraws a
success only for a new generation.

*BrokerCatalog*: `CatalogInvariance`, `PairsExist`, `Whole`, for any offerings and plans.
The Service Manager never shows a plan without its offering, and a request that
was not disturbed holds the offerings that are there (`ListsBelongTogether`); an
answer put together from an older list of offerings and a newer one of plans can
therefore only leave plans out.

*BindingCredentials*: `Restored`, for any names, values and encodings: an intact
Secret is the encoding of the credentials issued last, and decoding undoes it.

Only model-checked: liveness and fairness, which are beyond the prover
(`Converges`, `DeletionCompletes`, `GoalIsReached`, `WantedIsReached`, `RolloutCompletes`,
`StatusFollowsKyma`, `ReinstallIsNoop`, `CreationConcludes`, `DeletionConcludes`,
`CatalogIsServed`), and the violations. Every invariant and every action property
of a passing run is also a theorem.

## 5. Assumptions and limits

* *Helm's list.* That list shows deployed and failed releases only, after reducing
  each name to its latest record, is the documented default of the Helm version
  in `go.mod`, whose source is not in the repository; the same holds for what Helm
  does with a name that is taken.
* An installable's call is one step in `CFAPIOperator` but for a process that dies
  inside a Helm operation; other writes of Helm are in `HelmRelease` only.
* A hidden Korifi that somebody repairs is removed only after the orgs (`Repair`).
* A process that has once mapped the CFOrg kind goes on to know it; one that starts
  without the CRD does not. Where the REST mapper forgets a kind earlier, more
  deletions fail to end (`DeletionAlwaysCompletes`).
* One worker and one process: with leader election off (the flag's default)
  nothing but the replica count of the deployment keeps two apart.
* A CR deleted during its first reconcile has no finalizer yet and vanishes with
  everything left behind (`DeleteCR`); the properties are about CRs whose
  finalizer was persisted. Between two patches the status may be mixed, Ready
  without a URL for instance; `SettledIsFinished` is about an operator at rest.
* The cache never goes back, and delivers the newest object: intermediate
  versions may be skipped, which the work queue does as well.
* The API server counts the deletion of a finalized object as a new generation.
* Objects have no finalizers but those named. In `CFAPIOperator` manifests can be
  read and parsed; `YamlManifest` has those that cannot.
* Panics are recovered by controller-runtime and retried. While what makes a
  lookup panic lasts, the status stays as it was; `StatusFollowsKyma` says so.
* In `Rollout` Kyma is sound, and Helm applies or refuses a chart in one step.
* In `YamlManifest` others write objects of a manifest only while it is wanted; one
  who creates them during an uninstall would leave them behind the pass.
* Orgs are one Boolean: some CFOrg exists or none.
* The broker's platform may send any request at any time; the real one does not
  overlap operations on one instance.

## 6. Not modelled, and the plan

Not modelled: events, logging, health probes and flags, none of which the
program reads back; charts and manifests as data; generated deep copies and
fakes; two replicas that install at the same time (their patches are in
`PatchingReconciler`).

Done, in this order: `CFAPIOperator` (the system's core), `Installable` with
`HelmRelease`, `BTPBroker`, `PatchingReconciler`, `YamlManifest`, `KymaConfig`,
`Rollout`, `BrokerCatalog`, `BindingCredentials`; proofs for all of them; hidden Helm
releases and the CFOrg CRD throughout. Next: `CFAPIOperator` over the `Installable`
contract, with `Conditional` between them, instead of the operators it has now.

---------------------------- MODULE HelmRelease ----------------------------
(***************************************************************************)
(* One Helm installable: HelmChart.Install and HelmChart.Uninstall         *)
(* (controllers/installable/helm.go) on top of the Helm client's Apply and *)
(* Uninstall (controllers/helm/client.go).                                 *)
(*                                                                         *)
(* The Helm library itself is external. It is modelled by what the client  *)
(* calls: install and upgrade store a pending record, change the cluster,  *)
(* then store deployed or failed; uninstall stores uninstalling, deletes   *)
(* the resources, then purges the record; the operator's process may die   *)
(* between any two of these writes. list, which the client calls without a *)
(* StateMask, takes the latest record of the name and then drops it unless *)
(* it is deployed or failed: a record left pending or uninstalling is      *)
(* hidden from the client. install refuses a name that has any record.     *)
(***************************************************************************)
EXTENDS Naturals

CONSTANTS
    Values,              \* the chart values the providers compute
    NoValues,            \* no values: nothing released
    MaxChanges,          \* bound on changes of the goal
    MaxCrashes,          \* bound on crashes of the operator
    MaxInstallFailures,  \* bound on failing lookups, values, installs, upgrades
    MaxDeleteFailures    \* bound on failing resource deletions

Pending == {"pending-install", "pending-upgrade"}
ReleaseStatuses == {"deployed", "failed", "uninstalling"} \cup Pending

ASSUME HelmAssumption ==
    /\ NoValues \notin Values
    /\ MaxChanges \in Nat /\ MaxCrashes \in Nat
    /\ MaxInstallFailures \in Nat /\ MaxDeleteFailures \in Nat

VARIABLES
    goal,       \* the values to install, or NoValues to uninstall
    record,     \* the latest release record, status "none" if there is none
    resources,  \* the chart's objects in the cluster: how many, from which values
    op,         \* where the running call is
    wanted,     \* the values the running call got
    result,     \* what the last call returned, and for which goal
    changes, crashes, installFailures, deleteFailures

call == <<op, wanted>>
failures == <<installFailures, deleteFailures>>
vars == <<goal, record, resources, call, result, changes, crashes, failures>>

NoRecord == [status |-> "none", values |-> NoValues]
NoResources == [extent |-> "none", values |-> NoValues]
NoResult == [state |-> "none", for |-> NoValues]

Init ==
    /\ goal \in Values
    /\ record = NoRecord
    /\ resources = NoResources
    /\ op = "idle"
    /\ wanted = NoValues
    /\ result = NoResult
    /\ changes = 0
    /\ crashes = 0
    /\ installFailures = 0
    /\ deleteFailures = 0

\* The statuses in the default StateMask of Helm's list.
Listed == {"deployed", "failed"}

\* getLatestReleases: the latest record of this name, if list shows it.
LatestRelease == IF record.status \in Listed THEN record ELSE NoRecord

\* There is a record, but list does not show it.
Hidden == record.status # "none" /\ LatestRelease = NoRecord

Return(state) ==
    /\ op' = "idle"
    /\ wanted' = NoValues
    /\ result' = [state |-> state, for |-> wanted]

\* A call that returns before it starts a Helm operation.
ReturnAtOnce(state) ==
    /\ UNCHANGED <<op, wanted>>
    /\ result' = [state |-> state, for |-> goal]

InstallFailure ==
    /\ installFailures < MaxInstallFailures
    /\ installFailures' = installFailures + 1
    /\ UNCHANGED deleteFailures

\* newHelmActionConfig, or what precedes any write of a Helm operation, fails.
newHelmActionConfigFails == InstallFailure

DeleteFailure ==
    /\ deleteFailures < MaxDeleteFailures
    /\ deleteFailures' = deleteFailures + 1
    /\ UNCHANGED installFailures

-----------------------------------------------------------------------------
(* HelmChart.Install and Client.Apply.                                     *)

CallInstall == op = "idle" /\ goal # NoValues
CallUninstall == op = "idle" /\ goal = NoValues

\* GetValues fails (InProgress); the chart or the release cannot be loaded
\* (Apply returns an error: Failed).
ApplyUnavailable ==
    /\ CallInstall
    /\ \E state \in {"InProgress", "Failed"} : ReturnAtOnce(state)
    /\ newHelmActionConfigFails
    /\ UNCHANGED <<goal, record, resources, changes, crashes>>

\* Mutant of UpToDate: forgets to compare the values.
SameChart(rel, values) == rel.status \in {"deployed", "uninstalling"}

\* Mutant of UpToDate: a failed release with the right values is left alone.
UpToDateOrFailed(rel, values) == rel.values = values /\ rel.status # "none"

\* equalValues and equalVersions, the release not failed: no update needed.
UpToDate(rel, values) == rel.values = values /\ rel.status \notin {"none", "failed"}

\* HelmChart.Install, the switch over the release status.
ResultState(status) ==
    CASE status = "deployed" -> "Success" [] status = "failed" -> "Failed" [] OTHER -> "InProgress"

\* A release with a pending operation (which list never shows) or one that is
\* up to date is left alone; its status decides the result.
ApplyLeavesAlone ==
    /\ CallInstall
    /\ LatestRelease.status \in Pending \/ UpToDate(LatestRelease, goal)
    /\ ReturnAtOnce(ResultState(LatestRelease.status))
    /\ UNCHANGED <<goal, record, resources, changes, crashes, failures>>

\* install: list shows no release, and there is none.
InstallBegin ==
    /\ CallInstall
    /\ LatestRelease.status = "none"
    /\ ~Hidden
    /\ record' = [status |-> "pending-install", values |-> goal]
    /\ op' = "install"
    /\ wanted' = goal
    /\ UNCHANGED <<goal, resources, result, changes, crashes, failures>>

\* install: list shows no release, but Helm refuses to re-use the name of a
\* hidden one; the client reports the error as StatusUnknown.
InstallRefused ==
    /\ CallInstall
    /\ LatestRelease.status = "none"
    /\ Hidden
    /\ ReturnAtOnce("InProgress")
    /\ UNCHANGED <<goal, record, resources, changes, crashes, failures>>

\* upgrade: other values, or the last operation failed.
UpgradeBegin ==
    /\ CallInstall
    /\ LatestRelease.status \notin {"none"} \cup Pending
    /\ ~UpToDate(LatestRelease, goal)
    /\ record' = [status |-> "pending-upgrade", values |-> goal]
    /\ op' = "upgrade"
    /\ wanted' = goal
    /\ UNCHANGED <<goal, resources, result, changes, crashes, failures>>

\* Helm creates or updates the objects one after the other.
ResourcesBegin ==
    /\ op \in {"install", "upgrade"}
    /\ resources.extent # "partial" \/ resources.values # wanted
    /\ resources' = [extent |-> "partial", values |-> wanted]
    /\ UNCHANGED <<goal, record, call, result, changes, crashes, failures>>

\* All objects are there and the record says deployed.
ApplySucceeds ==
    /\ op \in {"install", "upgrade"}
    /\ resources = [extent |-> "partial", values |-> wanted]
    /\ resources' = [extent |-> "full", values |-> wanted]
    /\ record' = [status |-> "deployed", values |-> wanted]
    /\ Return("Success")
    /\ UNCHANGED <<goal, changes, crashes, failures>>

\* An object is refused: the record says failed and Run returns an error,
\* which the client reports as StatusUnknown.
ApplyFails ==
    /\ op \in {"install", "upgrade"}
    /\ record' = [record EXCEPT !.status = "failed"]
    /\ Return("InProgress")
    /\ InstallFailure
    /\ UNCHANGED <<goal, resources, changes, crashes>>

-----------------------------------------------------------------------------
(* HelmChart.Uninstall and Client.Uninstall.                               *)

\* The release cannot be looked up (an error: Failed), or Helm's uninstall of
\* one that list shows fails before its first write (StatusUnknown).
UninstallUnavailable ==
    /\ CallUninstall
    /\ \/ ReturnAtOnce("Failed")
       \/ LatestRelease.status # "none" /\ ReturnAtOnce("InProgress")
    /\ newHelmActionConfigFails
    /\ UNCHANGED <<goal, record, resources, changes, crashes>>

\* Mutant of UninstallLeavesAlone: takes every release that is not deployed
\* for gone.
UninstallNotDeployed ==
    /\ CallUninstall
    /\ LatestRelease.status # "deployed"
    /\ ReturnAtOnce("Success")
    /\ UNCHANGED <<goal, record, resources, changes, crashes, failures>>

\* "release not found, nothing to uninstall": a zero HelmResult, which the
\* installable takes for Success, of a hidden record too. "uninstall operation
\* is ongoing" would be InProgress, but list never shows such a release.
UninstallLeavesAlone ==
    /\ CallUninstall
    /\ LatestRelease.status \in {"none", "uninstalling"}
    /\ ReturnAtOnce(IF LatestRelease.status = "none" THEN "Success" ELSE "InProgress")
    /\ UNCHANGED <<goal, record, resources, changes, crashes, failures>>

\* Any other release is uninstalled.
UninstallBegin ==
    /\ CallUninstall
    /\ LatestRelease.status \notin {"none", "uninstalling"}
    /\ record' = [record EXCEPT !.status = "uninstalling"]
    /\ op' = "uninstall"
    /\ wanted' = NoValues
    /\ UNCHANGED <<goal, resources, result, changes, crashes, failures>>

\* Helm deletes the objects.
DeleteResources ==
    /\ op = "uninstall"
    /\ resources # NoResources
    /\ resources' = NoResources
    /\ UNCHANGED <<goal, record, call, result, changes, crashes, failures>>

\* Mutant of UninstallSucceeds: purges the record before the objects are gone.
UninstallPurgesFirst ==
    /\ op = "uninstall"
    /\ record' = NoRecord
    /\ Return("InProgress")
    /\ UNCHANGED <<goal, resources, changes, crashes, failures>>

\* The record is purged; the result still carries a status: InProgress.
UninstallSucceeds ==
    /\ op = "uninstall"
    /\ resources = NoResources
    /\ record' = NoRecord
    /\ Return("InProgress")
    /\ UNCHANGED <<goal, resources, changes, crashes, failures>>

\* An object cannot be deleted: Run returns an error, the record stays.
UninstallFails ==
    /\ op = "uninstall"
    /\ resources # NoResources
    /\ Return("InProgress")
    /\ DeleteFailure
    /\ UNCHANGED <<goal, record, resources, changes, crashes>>

-----------------------------------------------------------------------------
(* Surroundings.                                                           *)

\* The CR is edited or deleted, or the gateway type changes, which for the
\* conditional Contour turns Install into Uninstall and back.
ChangeGoal ==
    /\ op = "idle"
    /\ changes < MaxChanges
    /\ changes' = changes + 1
    /\ \E g \in (Values \cup {NoValues}) \ {goal} : goal' = g
    /\ UNCHANGED <<record, resources, call, result, crashes, failures>>

\* The operator's process dies in the middle of a Helm operation.
Crash ==
    /\ op # "idle"
    /\ crashes < MaxCrashes
    /\ crashes' = crashes + 1
    /\ op' = "idle"
    /\ wanted' = NoValues
    /\ result' = NoResult
    /\ UNCHANGED <<goal, record, resources, changes, failures>>

Step ==
    \/ ApplyUnavailable \/ ApplyLeavesAlone \/ InstallBegin \/ InstallRefused
    \/ UpgradeBegin \/ ResourcesBegin \/ ApplySucceeds \/ ApplyFails
    \/ UninstallUnavailable \/ UninstallLeavesAlone \/ UninstallBegin
    \/ DeleteResources \/ UninstallSucceeds \/ UninstallFails

Next == Step \/ ChangeGoal \/ Crash

Spec == Init /\ [][Next]_vars

\* The reconciler calls Install or Uninstall again until it gets Success.
FairSpec == Spec /\ WF_vars(Step)

-----------------------------------------------------------------------------
(* Properties.                                                             *)

\* Every variable keeps its shape.
TypeOK ==
    /\ goal \in Values \cup {NoValues}
    /\ record \in [status : ReleaseStatuses \cup {"none"}, values : Values \cup {NoValues}]
    /\ resources \in [extent : {"none", "partial", "full"}, values : Values \cup {NoValues}]
    /\ op \in {"idle", "install", "upgrade", "uninstall"}
    /\ wanted \in Values \cup {NoValues}
    /\ result \in [state : {"none", "Success", "InProgress", "Failed"},
                   for : Values \cup {NoValues}]
    /\ changes \in Nat /\ crashes \in Nat /\ installFailures \in Nat /\ deleteFailures \in Nat

Uninstalled == op = "idle" /\ result = [state |-> "Success", for |-> NoValues]

\* What "uninstalled successfully" (HelmChart.Uninstall) says, and what the
\* reconciler relies on when it goes on to the next uninstallable: Uninstall
\* says Success only if no object of the chart is left. The code does not keep
\* this: the client takes a hidden record for no release.
UninstallSuccessIsClean == Uninstalled => resources = NoResources

\* A call was interrupted between two writes of a Helm operation, or an object
\* could not be deleted.
Interrupted == crashes > 0 \/ deleteFailures > 0

\* What Uninstall's Success is worth: no object of the chart is left, whatever
\* installations failed before, unless a crash in the middle of a Helm
\* operation or a failed deletion left a record that list hides.
CleanUnlessHidden == Uninstalled => resources = NoResources \/ (Hidden /\ Interrupted)

\* What the reconciler relies on when it reports Ready: Install says Success
\* only if all objects are there, made from the values asked for.
InstallSuccessIsComplete ==
    op = "idle" /\ result.state = "Success" /\ result.for \in Values
        => resources = [extent |-> "full", values |-> result.for]

\* No objects are orphaned: whatever the chart left in the cluster is known to
\* a release record, so that a later Apply or Uninstall can deal with it.
NothingOrphaned == resources # NoResources => record.status # "none"

\* Between the writes of a Helm operation the record says which one it is.
RecordMatchesOp ==
    /\ op \in {"install", "upgrade"} => record.status \in Pending /\ wanted \in Values
    /\ op = "uninstall" => record.status = "uninstalling" /\ wanted = NoValues
    /\ record.status = "deployed" =>
          resources = [extent |-> "full", values |-> record.values]

\* Only an interrupted operation leaves a hidden record behind.
HiddenOnlyIfInterrupted == op = "idle" /\ Hidden => Interrupted

\* Until the next call, a Success still says what the record says.
ResultMatchesRecord ==
    op = "idle" /\ result.state = "Success" =>
        IF result.for = NoValues
        THEN record.status = "none" \/ Hidden
        ELSE record = [status |-> "deployed", values |-> result.for]

\* The inductive invariant behind CleanUnlessHidden and
\* InstallSuccessIsComplete: the record, the objects and the results stay in
\* step through failures and crashes.
IndInv ==
    /\ TypeOK
    /\ NothingOrphaned
    /\ RecordMatchesOp
    /\ HiddenOnlyIfInterrupted
    /\ ResultMatchesRecord

Installed == result = [state |-> "Success", for |-> goal]

\* A record that says an operation is going on although no call is at work: a
\* crash or a failed deletion has left it behind.
Abandoned == op = "idle" /\ Hidden

\* Failed operations are retried until the current goal is met, unless a record
\* is left behind that nobody works on.
GoalIsReached == <>[](op = "idle" => Installed) \/ <>[]Abandoned

-----------------------------------------------------------------------------
(* Refinement of the contract every installable keeps.                     *)

\* What the running call and the release record say is in the cluster.
Phase ==
    CASE op = "uninstall" -> "removing"
      [] op \in {"install", "upgrade"} -> "partial"
      [] op = "idle" /\ record.status = "none" -> "absent"
      [] op = "idle" /\ record.status = "deployed" -> "installed"
      [] op = "idle" /\ record.status = "failed" -> "partial"
      [] OTHER -> "hidden"

Applied == IF record.status = "deployed" THEN record.values ELSE NoValues

Contract == INSTANCE Installable WITH
    Configs <- Values,
    NoConfig <- NoValues,
    phase <- Phase,
    applied <- Applied

\* A Helm chart behaves as an installable: its results tell the truth about the
\* cluster, but for a release hidden from its client, and what it has there
\* only changes the way the contract allows.
ImplementsInstallable == Contract!Spec

=============================================================================

------------------------ MODULE HelmRelease_proofs ------------------------
(***************************************************************************)
(* Proofs about HelmRelease, for all values and any number of changes,     *)
(* failures and crashes.                                                   *)
(***************************************************************************)
EXTENDS HelmRelease, TLAPS

\* The invariant holds initially.
LEMMA InitIndInv ==
    ASSUME Init
    PROVE  IndInv
BY HelmAssumption DEF Init, IndInv, TypeOK, NothingOrphaned, RecordMatchesOp,
       HiddenOnlyIfInterrupted, Hidden, ResultMatchesRecord, NoRecord, NoResources, NoResult,
       ReleaseStatuses, Pending

\* Install and Apply keep the types and the invariant.
LEMMA InstallKeeps ==
    ASSUME IndInv,
           \/ ApplyUnavailable \/ ApplyLeavesAlone \/ InstallBegin \/ InstallRefused
           \/ UpgradeBegin \/ ResourcesBegin \/ ApplySucceeds \/ ApplyFails
    PROVE  IndInv'
<1> USE HelmAssumption
<1> USE DEF IndInv, TypeOK, NothingOrphaned, RecordMatchesOp, HiddenOnlyIfInterrupted, Hidden,
            Listed, Interrupted, ResultMatchesRecord, NoRecord, NoResources, NoResult, ReleaseStatuses, Pending, CallInstall, ReturnAtOnce, Return,
            LatestRelease, call, failures
<1>1. CASE ApplyUnavailable
  BY <1>1 DEF ApplyUnavailable, newHelmActionConfigFails, InstallFailure
<1>2. CASE InstallRefused
  BY <1>2 DEF InstallRefused
<1>3. CASE ApplyLeavesAlone
  BY <1>3 DEF ApplyLeavesAlone, UpToDate, ResultState
<1>4. CASE InstallBegin \/ UpgradeBegin
  BY <1>4 DEF InstallBegin, UpgradeBegin
<1>5. CASE ResourcesBegin
  BY <1>5 DEF ResourcesBegin
<1>6. CASE ApplySucceeds
  BY <1>6 DEF ApplySucceeds
<1>7. CASE ApplyFails
  BY <1>7 DEF ApplyFails, InstallFailure
<1> QED
  BY <1>1, <1>2, <1>3, <1>4, <1>5, <1>6, <1>7

\* So do Uninstall, a change of the goal and a crash.
LEMMA UninstallKeeps ==
    ASSUME IndInv,
           \/ UninstallUnavailable \/ UninstallLeavesAlone \/ UninstallBegin
           \/ DeleteResources \/ UninstallSucceeds \/ UninstallFails \/ ChangeGoal \/ Crash
    PROVE  IndInv'
<1> USE HelmAssumption
<1> USE DEF IndInv, TypeOK, NothingOrphaned, RecordMatchesOp, HiddenOnlyIfInterrupted, Hidden,
            Listed, Interrupted, ResultMatchesRecord, NoRecord, NoResources, NoResult, ReleaseStatuses, Pending, CallUninstall, ReturnAtOnce, Return,
            LatestRelease, call, failures
<1>1. CASE UninstallUnavailable
  BY <1>1 DEF UninstallUnavailable, newHelmActionConfigFails, InstallFailure
<1>2. CASE UninstallLeavesAlone
  BY <1>2 DEF UninstallLeavesAlone
<1>3. CASE UninstallBegin
  BY <1>3 DEF UninstallBegin
<1>4. CASE DeleteResources
  BY <1>4 DEF DeleteResources
<1>5. CASE UninstallSucceeds
  BY <1>5 DEF UninstallSucceeds
<1>6. CASE UninstallFails
  BY <1>6 DEF UninstallFails, DeleteFailure
<1>7. CASE ChangeGoal
  BY <1>7 DEF ChangeGoal
<1>8. CASE Crash
  BY <1>8 DEF Crash
<1> QED
  BY <1>1, <1>2, <1>3, <1>4, <1>5, <1>6, <1>7, <1>8

\* The release record, the chart's objects and the reported results stay in
\* step.
THEOREM Invariance == Spec => []IndInv
<1>1. Init => IndInv
  BY InitIndInv
<1>2. IndInv /\ [Next]_vars => IndInv'
  <2> SUFFICES ASSUME IndInv, [Next]_vars PROVE IndInv'
    OBVIOUS
  <2>1. CASE Next
    BY <2>1, InstallKeeps, UninstallKeeps DEF Next, Step
  <2>2. CASE UNCHANGED vars
    BY <2>2 DEF vars, call, failures, IndInv, TypeOK, NothingOrphaned, RecordMatchesOp,
                HiddenOnlyIfInterrupted, Hidden, Interrupted, ResultMatchesRecord, LatestRelease
  <2> QED
    BY <2>1, <2>2
<1> QED
  BY <1>1, <1>2, PTL DEF Spec

\* Install reports Success only about a complete installation with the values
\* asked for, whatever failed or died before.
THEOREM InstallComplete == Spec => []InstallSuccessIsComplete
<1>1. IndInv => InstallSuccessIsComplete
  BY HelmAssumption DEF IndInv, RecordMatchesOp, ResultMatchesRecord, InstallSuccessIsComplete
<1> QED
  BY <1>1, Invariance, PTL

\* Objects of the chart never outlive the release record that lists them.
THEOREM Recorded == Spec => []NothingOrphaned
<1>1. IndInv => NothingOrphaned
  BY DEF IndInv
<1> QED
  BY <1>1, Invariance, PTL

\* Uninstall reports Success only about a cluster without any object of the
\* chart, or after a crash or a failed deletion left a record Helm's list hides.
THEOREM UninstallClean == Spec => []CleanUnlessHidden
<1>1. IndInv => CleanUnlessHidden
  BY HelmAssumption DEF IndInv, TypeOK, NothingOrphaned, HiddenOnlyIfInterrupted,
                        ResultMatchesRecord, Uninstalled, NoRecord, CleanUnlessHidden
<1> QED
  BY <1>1, Invariance, PTL

-----------------------------------------------------------------------------
(* The Helm installable implements the contract of Installable.            *)

\* Calls for a config are steps of the contract, or stutter.
LEMMA InstallSimulates ==
    ASSUME IndInv,
           \/ ApplyUnavailable \/ ApplyLeavesAlone \/ InstallBegin \/ InstallRefused
           \/ UpgradeBegin \/ ResourcesBegin \/ ApplySucceeds \/ ApplyFails
    PROVE  [Contract!Next]_(Contract!vars)
<1> USE HelmAssumption
<1> USE DEF IndInv, TypeOK, RecordMatchesOp, Phase, Applied, ReleaseStatuses, Pending, Listed,
            Hidden, CallInstall, ReturnAtOnce, Return, LatestRelease, NoRecord, call
<1>1. CASE ApplyUnavailable \/ InstallRefused
  <2>1. Contract!InstallAgain(goal) /\ goal \in Values
    BY <1>1 DEF ApplyUnavailable, InstallRefused, Contract!InstallAgain
  <2> QED
    BY <2>1 DEF Contract!Next
<1>2. CASE ApplyLeavesAlone
  <2>1. Contract!Install(goal) /\ goal \in Values
    BY <1>2 DEF ApplyLeavesAlone, UpToDate, ResultState, Contract!Install
  <2> QED
    BY <2>1 DEF Contract!Next
<1>3. CASE InstallBegin \/ UpgradeBegin
  <2>1. Contract!AtWork
    BY <1>3 DEF InstallBegin, UpgradeBegin, Contract!AtWork
  <2> QED
    BY <2>1 DEF Contract!Next
<1>4. CASE ResourcesBegin
  BY <1>4 DEF ResourcesBegin, Contract!vars
<1>5. CASE ApplySucceeds
  <2>1. Contract!Install(wanted) /\ wanted \in Values
    BY <1>5 DEF ApplySucceeds, Contract!Install
  <2> QED
    BY <2>1 DEF Contract!Next
<1>6. CASE ApplyFails
  <2>1. Contract!InstallAgain(wanted) /\ wanted \in Values
    BY <1>6 DEF ApplyFails, Contract!InstallAgain
  <2> QED
    BY <2>1 DEF Contract!Next
<1> QED
  BY <1>1, <1>2, <1>3, <1>4, <1>5, <1>6

\* So are the calls for nothing, and what happens in between.
LEMMA UninstallSimulates ==
    ASSUME IndInv,
           \/ UninstallUnavailable \/ UninstallLeavesAlone \/ UninstallBegin
           \/ DeleteResources \/ UninstallSucceeds \/ UninstallFails \/ ChangeGoal \/ Crash
    PROVE  [Contract!Next]_(Contract!vars)
<1> USE HelmAssumption
<1> USE DEF IndInv, TypeOK, RecordMatchesOp, Phase, Applied, ReleaseStatuses, Pending, Listed,
            CallUninstall, ReturnAtOnce, Return, LatestRelease, NoRecord, call
<1>1. CASE UninstallUnavailable
  <2>1. Contract!UninstallAgain
    BY <1>1 DEF UninstallUnavailable, Contract!UninstallAgain
  <2> QED
    BY <2>1 DEF Contract!Next
<1>2. CASE UninstallLeavesAlone
  <2>1. Contract!Uninstall
    BY <1>2 DEF UninstallLeavesAlone, Contract!Uninstall
  <2> QED
    BY <2>1 DEF Contract!Next
<1>3. CASE UninstallBegin
  <2>1. Contract!AtWork
    BY <1>3 DEF UninstallBegin, Contract!AtWork
  <2> QED
    BY <2>1 DEF Contract!Next
<1>4. CASE DeleteResources \/ ChangeGoal
  BY <1>4 DEF DeleteResources, ChangeGoal, Contract!vars
<1>5. CASE UninstallSucceeds \/ UninstallFails
  <2>1. wanted = NoValues
    BY <1>5 DEF UninstallSucceeds, UninstallFails
  <2>2. Contract!UninstallAgain
    BY <1>5, <2>1 DEF UninstallSucceeds, UninstallFails, Contract!UninstallAgain
  <2> QED
    BY <2>2 DEF Contract!Next
<1>6. CASE Crash
  <2>1. Contract!Forget
    BY <1>6 DEF Crash, NoResult, Contract!Forget
  <2> QED
    BY <2>1 DEF Contract!Next
<1> QED
  BY <1>1, <1>2, <1>3, <1>4, <1>5, <1>6

\* HelmChart keeps the contract of an installable through failures and crashes,
\* a release hidden by an interrupted operation included.
THEOREM Implements == Spec => ImplementsInstallable
<1>1. Init => Contract!Init
  BY DEF Init, NoRecord, NoResult, Phase, Applied, Contract!Init
<1>2. IndInv /\ [Next]_vars => [Contract!Next]_(Contract!vars)
  <2> SUFFICES ASSUME IndInv, [Next]_vars PROVE [Contract!Next]_(Contract!vars)
    OBVIOUS
  <2>1. CASE Next
    BY <2>1, InstallSimulates, UninstallSimulates DEF Next, Step
  <2>2. CASE UNCHANGED vars
    BY <2>2 DEF vars, call, failures, Phase, Applied, Contract!vars
  <2> QED
    BY <2>1, <2>2
<1> QED
  BY <1>1, <1>2, Invariance, PTL DEF Spec, ImplementsInstallable, Contract!Spec

=============================================================================

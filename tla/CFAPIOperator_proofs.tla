------------------------ MODULE CFAPIOperator_proofs ------------------------
(***************************************************************************)
(* Proofs about CFAPIOperator, for every set of installables and every     *)
(* install and uninstall order that satisfies the assumptions.             *)
(***************************************************************************)
EXTENDS CFAPIOperator, TLAPS

-----------------------------------------------------------------------------
(* Types of the operators on objects and statuses.                         *)

\* The zero values are well-formed.
LEMMA ZeroType == ZeroConfig \in Configs /\ ZeroStatus \in Statuses /\ Absent \in Objects
<1>1. ZeroConfig \in Configs
  BY SpecsAssumption DEF ZeroConfig, Configs
<1>2. [t \in ConditionTypes |-> [status |-> "", observed |-> 0]] \in [ConditionTypes -> Conditions]
  BY DEF Conditions
<1>3. ZeroStatus \in Statuses
  BY <1>1, <1>2 DEF ZeroStatus, Statuses, States
<1>4. Absent \in Objects
  BY <1>1, <1>3 DEF Absent, Objects
<1> QED
  BY <1>1, <1>3, <1>4

\* meta.SetStatusCondition keeps a status a status.
LEMMA SetConditionType ==
    ASSUME NEW s \in Statuses, NEW t \in ConditionTypes,
           NEW v \in {"", "True", "False", "Unknown"}, NEW g \in Nat
    PROVE  SetCondition(s, t, v, g) \in Statuses
BY DEF SetCondition, Statuses, Conditions

\* Filling in the defaults yields a config.
LEMMA CompileType ==
    ASSUME NEW s \in Configs
    PROVE  Compile(s) \in Configs
BY SpecsAssumption DEF Compile, Configs

\* A merge patch between statuses yields a status.
LEMMA MergeStatusType ==
    ASSUME NEW a \in Statuses, NEW b \in Statuses, NEW c \in Statuses
    PROVE  MergeStatus(a, b, c) \in Statuses
BY DEF MergeStatus, MergeConfig, Pick, Statuses, Configs

\* So does the merge patch of the finalizers with the object.
LEMMA MergeFinalizerType ==
    ASSUME NEW a \in Objects, NEW b \in Objects, NEW c \in Objects
    PROVE  MergeFinalizer(a, b, c) \in Objects
BY ZeroType DEF MergeFinalizer, Pick, Objects

\* The prelude of ReconcileResource.
LEMMA TouchedType ==
    ASSUME NEW o \in Objects
    PROVE  /\ Touched(o) \in Objects
           /\ Touched(o).finalizer
           /\ Touched(o).status.config = o.status.config
BY DEF Touched, Objects, Statuses, States

\* Writing another state into an object.
LEMMA SetStateType ==
    ASSUME NEW o \in Objects, NEW st \in States
    PROVE  /\ [o EXCEPT !.status.state = st] \in Objects
           /\ [o EXCEPT !.status.state = st, !.finalizer = FALSE] \in Objects
<1>1. [o.status EXCEPT !.state = st] \in Statuses
  BY DEF Objects, Statuses
<1>2. [o EXCEPT !.status.state = st] = [o EXCEPT !.status = [o.status EXCEPT !.state = st]]
  BY DEF Objects
<1>3. [o EXCEPT !.status.state = st] \in Objects
  BY <1>1, <1>2 DEF Objects
<1>4. [o EXCEPT !.status.state = st, !.finalizer = FALSE]
        = [[o EXCEPT !.status.state = st] EXCEPT !.finalizer = FALSE]
  BY DEF Objects
<1> QED
  BY <1>3, <1>4 DEF Objects

\* applyInstallResultToStatus keeps the object an object, with its finalizer.
LEMMA ApplyResultType ==
    ASSUME NEW o \in Objects, NEW r \in {Success, InProgress, Failed}
    PROVE  /\ ApplyResult(o, r) \in Objects
           /\ ApplyResult(o, r).finalizer = o.finalizer
<1> DEFINE s == CASE r = Success -> [o.status EXCEPT !.state = "Ready", !.url = TRUE]
                  [] r = Failed -> [o.status EXCEPT !.state = "Error", !.url = FALSE]
                  [] OTHER -> [o.status EXCEPT !.state = "Processing", !.url = FALSE]
           c == CASE r = Success -> "True" [] r = Failed -> "False" [] OTHER -> "Unknown"
<1>1. s \in Statuses
  BY DEF Objects, Statuses, States, Success, InProgress, Failed
<1>2. c \in {"", "True", "False", "Unknown"}
  BY DEF Success, InProgress, Failed
<1>3. o.generation \in Nat /\ "Installation" \in ConditionTypes
  BY DEF Objects, ConditionTypes
<1>4. SetCondition(s, "Installation", c, o.generation) \in Statuses
  BY <1>1, <1>2, <1>3, SetConditionType
<1>5. ApplyResult(o, r) = [o EXCEPT !.status = SetCondition(s, "Installation", c, o.generation)]
  BY DEF ApplyResult
<1> QED
  BY <1>4, <1>5 DEF Objects

-----------------------------------------------------------------------------
(* What the installables do to the cluster.                                *)

\* The domain of the installables' state.
LEMMA ModulesFacts ==
    /\ CfRootNs \in Modules /\ Contour \in Modules /\ Korifi \in Modules /\ Orgs \in Modules
    /\ CfRootNs # Orgs /\ CfRootNs # Korifi /\ CfRootNs # Contour
    /\ Korifi # Orgs /\ Contour # Orgs /\ Contour # Korifi
BY ModulesAssumption DEF Modules

\* Unseen, after the step: m itself may be a state function, which is not primed.
UnseenThen(m) == phase'[m] = "absent" \/ (m \in HelmModules /\ phase'[m] \in HiddenPhases)

\* Uninstall reports Success only about what the client cannot see (Orgs alone
\* may miss an org) and changes only the phase of its own installable, never to
\* partial or installed; only a fault hides a release.
LEMMA UninstallEffect ==
    ASSUME TypeOK, NEW m \in Modules, NEW config \in Configs,
           NEW r \in {Success, InProgress, Failed}, Uninstall(m, config, r)
    PROVE  /\ phase' \in [Modules -> Phases]
           /\ applied' = applied
           /\ faults' \in Nat
           /\ \A n \in Modules \ {m} : phase'[n] = phase[n]
           /\ phase[m] = "absent" => phase'[m] = "absent"
           /\ Unseen(m) => UnseenThen(m)
           /\ r = Success /\ m # Orgs => UnseenThen(m)
           /\ m \notin HelmModules => phase'[m] \in {phase[m], "removing"}
           /\ HiddenOnlyByFault => HiddenOnlyByFault'
<1> USE DEF TypeOK, Phases, HiddenPhases, SetPhase, SetRelease, Success, InProgress, Failed, NoFault,
            Gone, Hidden, Unseen, UnseenThen, HiddenOnlyByFault, ReleaseStuck
<1>0. HelmModules \subseteq Modules
  BY DEF Modules
<1>1. CASE NothingToUninstall(m, r)
  BY <1>1 DEF NothingToUninstall, cluster
<1>2. CASE YamlDeleted(m, r)
  BY <1>0, <1>2, ModulesAssumption DEF YamlDeleted
<1>3. CASE HelmDeleted(m, r)
  BY <1>0, <1>3, ModulesAssumption DEF HelmDeleted
<1>4. CASE HelmUninstallFails(m, r)
  <2>0. Fault /\ m \in HelmModules /\ r # Success
    <3>1. Fault /\ m \in HelmModules /\ r \in {InProgress, Failed}
      <4> HIDE DEF SetRelease, Unseen, InProgress, Failed
      <4> QED
        BY <1>4, Zenon DEF HelmUninstallFails
    <3> QED
      BY <3>1
  <2>1. faults' \in Nat /\ faults' > 0 /\ m # Orgs /\ m \in HelmModules /\ r # Success
    BY <2>0, ModulesAssumption DEF Fault
  <2>2. CASE UNCHANGED cluster
    BY <2>1, <2>2 DEF cluster
  <2>3. CASE ~Unseen(m) /\ UNCHANGED applied /\ SetPhase(m, "abandoned")
    BY <2>1, <2>3
  <2> QED
    BY <1>4, <2>2, <2>3 DEF HelmUninstallFails
<1>5. CASE OrgsDeleted(m, config, r)
  BY <1>0, <1>5, ModulesAssumption DEF OrgsDeleted
<1> QED
  BY <1>1, <1>2, <1>3, <1>4, <1>5 DEF Uninstall

\* It leaves the knowledge of CFOrgs well-formed.
LEMMA UninstallKnows ==
    ASSUME TypeOK, NEW m, NEW config, NEW r, Uninstall(m, config, r)
    PROVE  crd' \in BOOLEAN /\ known' \in BOOLEAN
<1> USE DEF TypeOK, SetRelease, cluster, orgsApi
<1>1. CASE NothingToUninstall(m, r)
  BY <1>1 DEF NothingToUninstall
<1>2. CASE YamlDeleted(m, r)
  BY <1>2 DEF YamlDeleted
<1>3. CASE HelmDeleted(m, r)
  BY <1>3 DEF HelmDeleted
<1>4. CASE HelmUninstallFails(m, r)
  BY <1>4 DEF HelmUninstallFails
<1>5. CASE OrgsDeleted(m, config, r)
  BY <1>5 DEF OrgsDeleted
<1> QED
  BY <1>1, <1>2, <1>3, <1>4, <1>5 DEF Uninstall

\* Install changes only the phase of its own installable; only the conditional
\* Contour can lose anything by it, and what it deploys is not absent.
LEMMA InstallEffect ==
    ASSUME TypeOK, NEW m \in YamlModules \cup HelmModules, NEW config \in Configs,
           NEW r \in {Success, InProgress, Failed}, Install(m, config, r)
    PROVE  /\ phase' \in [Modules -> Phases]
           /\ applied' \in [HelmModules -> Configs]
           /\ faults' \in Nat
           /\ \A n \in Modules \ {m} : phase'[n] = phase[n]
           /\ m # Contour => phase'[m] \in {phase[m], "partial", "installed"}
           /\ HiddenOnlyByFault => HiddenOnlyByFault'
<1> USE DEF TypeOK, Phases, HiddenPhases, SetPhase, SetRelease, Success, InProgress, Failed, NoFault, Modules,
            Hidden, HiddenOnlyByFault, ReleaseStuck
<1>1. CASE m \in YamlModules /\ YamlInstalled(m, r)
  BY <1>1 DEF YamlInstalled
<1>2. CASE m \in HelmModules /\ HelmInstalled(m, config, r)
  BY <1>2 DEF HelmInstalled
<1>3. CASE m \in HelmModules /\ HelmRefused(m, r)
  BY <1>3 DEF HelmRefused, cluster
<1>4. CASE m \in HelmModules /\ HelmInstallFails(m, r)
  <2>1. faults' \in Nat /\ faults' > 0
    BY <1>4 DEF HelmInstallFails, Fault
  <2>2. CASE UNCHANGED cluster
    BY <2>1, <2>2 DEF cluster
  <2>3. CASE UNCHANGED applied /\ SetPhase(m, "partial")
    BY <1>4, <2>1, <2>3
  <2> QED
    BY <1>4, <2>2, <2>3 DEF HelmInstallFails
<1>5. CASE m = Contour /\ Uninstall(m, config, r)
  BY <1>5, UninstallEffect, ModulesFacts
<1> QED
  BY <1>1, <1>2, <1>3, <1>4, <1>5 DEF Install

\* So does Install.
LEMMA InstallKnows ==
    ASSUME TypeOK, NEW m, NEW config, NEW r, Install(m, config, r)
    PROVE  crd' \in BOOLEAN /\ known' \in BOOLEAN
<1> USE DEF TypeOK, SetRelease, cluster, orgsApi
<1>1. CASE YamlInstalled(m, r)
  BY <1>1 DEF YamlInstalled
<1>2. CASE HelmInstalled(m, config, r)
  BY <1>2 DEF HelmInstalled
<1>3. CASE HelmRefused(m, r)
  BY <1>3 DEF HelmRefused
<1>4. CASE HelmInstallFails(m, r)
  BY <1>4 DEF HelmInstallFails
<1>5. CASE Uninstall(m, config, r)
  BY <1>5, UninstallKnows
<1> QED
  BY <1>1, <1>2, <1>3, <1>4, <1>5 DEF Install

-----------------------------------------------------------------------------
(* Type correctness.                                                       *)

\* A fault is counted.
LEMMA FaultType ==
    ASSUME TypeOK, Fault
    PROVE  faults' \in Nat
BY DEF TypeOK, Fault

\* A key taken from the queue: the four ways ReconcileResource goes on.
LEMMA StartType ==
    ASSUME TypeOK, NEW o \in Objects,
           NEW next \in {"install", "uninstall", "patchMain"}, NEW again \in BOOLEAN,
           TakeKey, Start(o, next, again)
    PROVE  TypeOK'
<1>1. idx' \in Nat \ {0} /\ worst' \in {Success, InProgress, Failed}
  BY DEF Start
<1>2. queued' \in BOOLEAN /\ retry' \in BOOLEAN
  BY DEF TakeKey, Start
<1> QED
  BY <1>1, <1>2 DEF TypeOK, Start, caches, cluster, orgsApi, budget

\* The worker drops what it holds in memory.
LEMMA FinishType ==
    ASSUME TypeOK, NEW again \in BOOLEAN, Finish(again)
    PROVE  /\ pc' = "idle" /\ base' \in Objects /\ obj' \in Objects
           /\ idx' \in Nat \ {0} /\ worst' \in {Success, InProgress, Failed}
           /\ retry' \in BOOLEAN /\ timer' \in BOOLEAN
<1>1. idx' \in Nat \ {0} /\ worst' \in {Success, InProgress, Failed}
  BY DEF Finish
<1>2. retry' \in BOOLEAN /\ timer' \in BOOLEAN
  BY DEF Finish
<1> QED
  BY <1>1, <1>2, ZeroType DEF Finish

\* What users and the cluster do keeps the types.
LEMMA EnvironmentType ==
    ASSUME TypeOK, Environment
    PROVE  TypeOK'
<1> USE DEF TypeOK, caches, worker, cluster, orgsApi, budget
<1>1. ASSUME NEW spec \in Specs, CreateCR(spec) PROVE TypeOK'
  <2>1. spec \in Configs
    BY SpecsAssumption DEF Configs
  <2>2. cr' \in Objects
    BY <1>1, <2>1, ZeroType DEF CreateCR, Objects
  <2> QED
    BY <1>1, <2>2 DEF CreateCR
<1>2. ASSUME NEW spec \in Specs, EditSpec(spec) PROVE TypeOK'
  <2>1. spec \in Configs
    BY SpecsAssumption DEF Configs
  <2>2. cr' \in Objects
    <3>1. cr.generation + 1 \in Nat
      BY DEF Objects
    <3> QED
      BY <1>2, <2>1, <3>1 DEF EditSpec, Objects
  <2> QED
    BY <1>2, <2>2 DEF EditSpec
<1>3. CASE DeleteCR
  <2>1. cr' \in Objects
    <3>1. cr.generation + 1 \in Nat
      BY DEF Objects
    <3> QED
      BY <1>3, <3>1, ZeroType DEF DeleteCR, Objects
  <2> QED
    BY <1>3, <2>1 DEF DeleteCR
<1>4. CASE CreateOrg
  <2>1. orgs' \in Nat
    BY <1>4 DEF CreateOrg
  <2> QED
    BY <1>4, <2>1 DEF CreateOrg, Phases
<1>5. ASSUME NEW m \in Modules, FinishRemoval(m) PROVE TypeOK'
  BY <1>5 DEF FinishRemoval, Phases
<1>14. ASSUME NEW m \in Modules, Repair(m) PROVE TypeOK'
  <2>1. crd' \in BOOLEAN
    BY <1>14 DEF Repair, SetRelease
  <2>2. phase' \in [Modules -> Phases]
    BY <1>14 DEF Repair, SetRelease, SetPhase, Phases
  <2> QED
    BY <1>14, <2>1, <2>2 DEF Repair
<1>6. CASE CascadeToOrgs
  BY <1>6 DEF CascadeToOrgs, Phases
<1>7. CASE KymaComesUp
  BY <1>7 DEF KymaComesUp
<1>8. CASE KymaGoesDown
  <2>1. faults' \in Nat
    BY <1>8, FaultType DEF KymaGoesDown
  <2> QED
    BY <1>8, <2>1 DEF KymaGoesDown
<1>9. CASE CacheSync
  BY <1>9 DEF CacheSync
<1>10. CASE TimerFires
  BY <1>10 DEF TimerFires
<1>11. CASE Resync
  BY <1>11 DEF Resync
<1>13. CASE OrgsListSync
  BY <1>13 DEF OrgsListSync
<1>12. CASE Restart
  <2>1. queued' \in BOOLEAN /\ listed' \in BOOLEAN /\ retry' \in BOOLEAN /\ timer' \in BOOLEAN
    BY <1>12 DEF Restart, Objects
  <2>2. crd' \in BOOLEAN /\ known' \in BOOLEAN
    BY <1>12 DEF Restart, SetRelease
  <2>3. phase' \in [Modules -> Phases]
    BY <1>12 DEF Restart, SetRelease, SetPhase, Phases
  <2>4. faults' \in Nat /\ idx' \in Nat \ {0} /\ worst' \in {Success, InProgress, Failed}
    BY <1>12, FaultType DEF Restart
  <2>5. cache' \in Objects /\ base' \in Objects /\ obj' \in Objects
    BY <1>12, ZeroType DEF Restart
  <2> QED
    BY <1>12, <2>1, <2>2, <2>3, <2>4, <2>5 DEF Restart
<1> QED
  BY <1>1, <1>2, <1>3, <1>4, <1>5, <1>6, <1>7, <1>8, <1>9, <1>10, <1>11, <1>12,
     <1>13, <1>14 DEF Environment

\* So do the steps of Reconcile.
LEMMA ReconcileType ==
    ASSUME TypeOK, Reconcile
    PROVE  TypeOK'
<1> USE DEF caches, worker, cluster, orgsApi, budget
<1>1. CASE ReconcileGone
  BY <1>1 DEF ReconcileGone, TakeKey, TypeOK
<1>2. CASE ReconcileGetFails
  <2>1. faults' \in Nat
    BY <1>2, FaultType DEF ReconcileGetFails
  <2> QED
    BY <1>2, <2>1 DEF ReconcileGetFails, TakeKey, TypeOK
<1>3. CASE FinalizeSkip
  <2> DEFINE o == [Touched(cache) EXCEPT !.status.state = "Deleting", !.finalizer = FALSE]
  <2>1. o \in Objects
    BY TouchedType, SetStateType DEF TypeOK, States
  <2> QED
    BY <1>3, <2>1, StartType DEF FinalizeSkip
<1>4. CASE FinalizeStart
  <2> DEFINE o == [Touched(cache) EXCEPT !.status.state = "Deleting"]
  <2>1. o \in Objects
    BY TouchedType, SetStateType DEF TypeOK, States
  <2> QED
    BY <1>4, <2>1, StartType DEF FinalizeStart
<1>5. CASE CompileFails
  <2> DEFINE o == [Touched(cache) EXCEPT !.status.state = "Warning"]
             s == SetCondition(o.status, "Configuration", "False", o.generation)
  <2>1. o \in Objects
    BY TouchedType, SetStateType DEF TypeOK, States
  <2>2. s \in Statuses
    BY <2>1, SetConditionType DEF Objects, ConditionTypes
  <2>3. [o EXCEPT !.status = s] \in Objects
    BY <2>1, <2>2 DEF Objects
  <2>4. TakeKey /\ Start([o EXCEPT !.status = s], "patchMain", TRUE)
    BY <1>5 DEF CompileFails
  <2> QED
    BY <2>3, <2>4, StartType
<1>6. CASE InstallStart
  <2> DEFINE o == [Touched(cache) EXCEPT !.status.config = Compile(cache.spec)]
             s == SetCondition(o.status, "Configuration", "True", o.generation)
  <2>1. Compile(cache.spec) \in Configs
    BY CompileType DEF TypeOK, Objects
  <2>2. o \in Objects
    BY <2>1, TouchedType DEF TypeOK, Objects, Statuses
  <2>3. s \in Statuses
    BY <2>2, SetConditionType DEF Objects, ConditionTypes
  <2>4. [o EXCEPT !.status = s] \in Objects
    BY <2>2, <2>3 DEF Objects
  <2>5. TakeKey /\ Start([o EXCEPT !.status = s], "install", FALSE)
    BY <1>6 DEF InstallStart
  <2> QED
    BY <2>4, <2>5, StartType
<1>7. CASE InstallStep
  <2>1. PICK r \in {Success, InProgress, Failed} :
          /\ Install(InstallOrder[idx], obj.status.config, r)
          /\ worst' = IF r > worst THEN r ELSE worst
    BY <1>7 DEF InstallStep
  <2>2. InstallOrder[idx] \in YamlModules \cup HelmModules
    BY <1>7, OrdersAssumption DEF InstallStep, TypeOK
  <2>3. obj.status.config \in Configs
    BY DEF TypeOK, Objects, Statuses
  <2>4. /\ phase' \in [Modules -> Phases]
        /\ applied' \in [HelmModules -> Configs]
        /\ faults' \in Nat
    BY <2>1, <2>2, <2>3, InstallEffect
  <2>5. crd' \in BOOLEAN /\ known' \in BOOLEAN
    BY <2>1, InstallKnows
  <2> QED
    BY <1>7, <2>1, <2>4, <2>5 DEF InstallStep, TypeOK, Success, InProgress, Failed
<1>8. CASE InstallErrs
  <2>1. phase' \in [Modules -> Phases]
    BY <1>8 DEF InstallErrs, SetPhase, TypeOK, Phases
  <2> QED
    BY <1>8, <2>1 DEF InstallErrs, Fault, TypeOK
<1>9. CASE InstallDone
  <2>1. obj' \in Objects
    BY <1>9, ApplyResultType DEF InstallDone, TypeOK
  <2> QED
    BY <1>9, <2>1 DEF InstallDone, TypeOK
<1>10. CASE UninstallStep
  <2>1. PICK r \in {Success, InProgress, Failed} :
          /\ Uninstall(UninstallOrder[idx], obj.status.config, r)
          /\ IF r = Success
             THEN idx' = idx + 1 /\ UNCHANGED <<pc, obj, retry>>
             ELSE /\ pc' = "patchMain"
                  /\ obj' = [obj EXCEPT !.status =
                                SetCondition(@, "Deletion", "False", obj.generation)]
                  /\ retry' = TRUE
                  /\ UNCHANGED idx
    BY <1>10 DEF UninstallStep
  <2>2. UninstallOrder[idx] \in Modules
    BY <1>10, OrdersAssumption DEF UninstallStep, TypeOK
  <2>3. obj.status.config \in Configs
    BY DEF TypeOK, Objects, Statuses
  <2>4. phase' \in [Modules -> Phases] /\ applied' = applied /\ faults' \in Nat
    BY <2>1, <2>2, <2>3, UninstallEffect
  <2>5. SetCondition(obj.status, "Deletion", "False", obj.generation) \in Statuses
    BY SetConditionType DEF TypeOK, Objects, ConditionTypes
  <2>6. obj' \in Objects
    BY <2>1, <2>5 DEF TypeOK, Objects
  <2> QED
    <3>1. idx' \in Nat \ {0}
      BY <2>1 DEF TypeOK
    <3>2. /\ pc' \in {"idle", "install", "uninstall", "patchMain", "patchStatus"}
          /\ retry' \in BOOLEAN
      BY <2>1 DEF TypeOK
    <3>3. crd' \in BOOLEAN /\ known' \in BOOLEAN
      BY <2>1, UninstallKnows
    <3> QED
      BY <1>10, <2>4, <2>6, <3>1, <3>2, <3>3 DEF UninstallStep, TypeOK
<1>11. CASE UninstallErrs
  <2>1. phase' \in [Modules -> Phases]
    BY <1>11 DEF UninstallErrs, SetPhase, TypeOK, Phases
  <2> QED
    BY <1>11, <2>1 DEF UninstallErrs, Fault, TypeOK
<1>17. CASE OrgsUninstallErrs
  BY <1>17 DEF OrgsUninstallErrs, TypeOK
<1>12. CASE UninstallDone
  <2>1. obj' \in Objects
    BY <1>12 DEF UninstallDone, TypeOK, Objects
  <2> QED
    BY <1>12, <2>1 DEF UninstallDone, TypeOK
<1>13. CASE PatchMain
  <2>1. cr' \in Objects
    BY <1>13, MergeFinalizerType DEF PatchMain, TypeOK
  <2> QED
    BY <1>13, <2>1 DEF PatchMain, TypeOK
<1>14. CASE PatchStatus
  <2>1. MergeStatus(cr.status, base.status, obj.status) \in Statuses
    BY MergeStatusType DEF TypeOK, Objects
  <2>2. cr' \in Objects
    BY <1>14, <2>1 DEF PatchStatus, TypeOK, Objects
  <2>3. retry \in BOOLEAN /\ Finish(retry)
    BY <1>14 DEF PatchStatus, TypeOK
  <2> QED
    BY <1>14, <2>2, <2>3, FinishType DEF PatchStatus, TypeOK
<1>15. CASE PatchNotFound
  BY <1>15, FinishType DEF PatchNotFound, TypeOK
<1>16. CASE PatchFails
  <2>1. MergeStatus(cr.status, base.status, obj.status) \in Statuses
    BY MergeStatusType DEF TypeOK, Objects
  <2>2. [cr EXCEPT !.status = MergeStatus(@, base.status, obj.status)] \in Objects
    BY <2>1 DEF TypeOK, Objects
  <2>3. MergeFinalizer(cr, base, obj) \in Objects
    BY MergeFinalizerType DEF TypeOK
  <2>4. cr' \in Objects
    BY <1>16, <2>2, <2>3 DEF PatchFails, TypeOK
  <2> QED
    BY <1>16, <2>4, FinishType, FaultType DEF PatchFails, TypeOK
<1> QED
  BY <1>1, <1>2, <1>3, <1>4, <1>5, <1>6, <1>7, <1>8, <1>9, <1>10, <1>11, <1>12, <1>13,
     <1>14, <1>15, <1>16, <1>17 DEF Reconcile


-----------------------------------------------------------------------------
(* The inductive invariant.                                                *)

\* What the client cannot see stays out of its sight.
LEMMA UnseenStep ==
    ASSUME HiddenOnlyByFault', \A m \in Modules : Unseen(m) => UnseenThen(m), AllUnseen
    PROVE  AllUnseen'
<1>1. SUFFICES ASSUME NEW m \in Modules PROVE (Gone(m) \/ (Hidden(m) /\ faults > 0))'
  BY DEF AllUnseen
<1>2. UnseenThen(m)
  BY DEF AllUnseen, Unseen
<1> QED
  BY <1>2 DEF UnseenThen, Gone, Hidden, HiddenOnlyByFault, ReleaseStuck

\* Where nothing else happens to the cluster, a fault does not matter.
LEMMA FaultsAside ==
    ASSUME TypeOK, UNCHANGED phase, UNCHANGED faults \/ Fault
    PROVE  /\ AllUnseen => AllUnseen'
           /\ HiddenOnlyByFault => HiddenOnlyByFault'
           /\ \A m, config : InstalledAs(m, config) /\ UNCHANGED applied => InstalledAs(m, config)'
<1>1. faults > 0 => faults' > 0
  BY DEF TypeOK, Fault
<1> QED
  BY <1>1 DEF AllUnseen, HiddenOnlyByFault, ReleaseStuck, InstalledAs, Gone, Hidden

\* Korifi's turn in an uninstall pass: the root namespace, and the orgs with it,
\* are gone.
LEMMA KorifiLast ==
    ASSUME IndInv, pc = "uninstall", idx <= Len(UninstallOrder), UninstallOrder[idx] = Korifi
    PROVE  phase[Orgs] = "absent"
<1>1. idx \in 1 .. Len(UninstallOrder)
  BY OrdersAssumption DEF IndInv, TypeOK
<1>2. PICK j \in 1 .. idx - 1 : UninstallOrder[j] = CfRootNs
  BY <1>1, OrdersAssumption
<1>3. j \in 1 .. Len(UninstallOrder) /\ j < idx
  BY <1>1, <1>2
<1>4. Unseen(CfRootNs)
  BY <1>2, <1>3, ModulesFacts DEF IndInv, UninstallProgress
<1>5. phase[CfRootNs] = "absent"
  BY <1>4, ModulesAssumption DEF Unseen, Gone, Hidden
<1> QED
  BY <1>5 DEF IndInv, OrgsInRootNs

\* Only the uninstall pass, Contour's conditional install and the completion
\* of a removal make anything disappear.
LEMMA EnvironmentKeeps ==
    ASSUME IndInv, Environment
    PROVE  IndInv'
<1>1. TypeOK'
  BY EnvironmentType DEF IndInv
<1> USE ModulesFacts
<1> USE DEF IndInv, OrgsInRootNs, UninstallProgress, ReleaseEarned, OrgsNeverStranded, HiddenOnlyByFault,
            ReleaseStuck, AllUnseen, Unseen, Gone, Hidden, caches, worker, cluster, orgsApi, budget
<1>0. /\ \A k \in 1 .. Len(UninstallOrder) : UninstallOrder[k] \in Modules
      /\ HelmModules \subseteq Modules /\ Orgs \notin HelmModules /\ CfRootNs \notin HelmModules
  BY OrdersAssumption, ModulesAssumption DEF Modules
<1>2. ASSUME NEW spec \in Specs, CreateCR(spec) PROVE IndInv'
  <2>1. cr'.exists
    BY <1>2 DEF CreateCR, Absent
  <2> QED
    BY <1>1, <1>2, <2>1 DEF CreateCR
<1>3. ASSUME NEW spec \in Specs, EditSpec(spec) PROVE IndInv'
  <2>1. cr'.exists
    BY <1>3 DEF EditSpec, TypeOK, Objects
  <2> QED
    BY <1>1, <1>3, <2>1 DEF EditSpec
<1>4. CASE DeleteCR
  <2>1. cr'.exists \/ ~cr'.finalizer
    BY <1>4 DEF DeleteCR, Absent, TypeOK, Objects
  <2> QED
    BY <1>1, <1>4, <2>1 DEF DeleteCR
<1>5. CASE CreateOrg
  <2>1. \A m \in Modules \ {Orgs} : phase'[m] = phase[m]
    BY <1>5 DEF CreateOrg, TypeOK
  <2>2. phase[CfRootNs] = "installed" /\ phase[Korifi] = "installed"
    BY <1>5 DEF CreateOrg
  <2>3. HiddenOnlyByFault' /\ UninstallProgress'
    BY <1>0, <1>5, <2>1 DEF CreateOrg
  <2>4. ~AllUnseen
    BY <2>2 DEF HiddenPhases
  <2>5. OrgsInRootNs' /\ OrgsNeverStranded'
    BY <2>1, <2>2
  <2>6. ReleaseEarned'
    BY <1>5, <2>4 DEF CreateOrg
  <2> QED
    BY <1>1, <1>5, <2>3, <2>5, <2>6 DEF CreateOrg
<1>6. ASSUME NEW m \in Modules, FinishRemoval(m) PROVE IndInv'
  <2>1. phase'[m] = "absent" /\ \A n \in Modules \ {m} : phase'[n] = phase[n]
    BY <1>6 DEF FinishRemoval, TypeOK
  <2>2. HiddenOnlyByFault' /\ UninstallProgress' /\ ReleaseEarned'
    BY <1>0, <1>6, <2>1 DEF FinishRemoval, HiddenPhases
  <2>3. OrgsInRootNs' /\ OrgsNeverStranded'
    BY <1>6, <2>1 DEF FinishRemoval
  <2> QED
    BY <1>1, <1>6, <2>2, <2>3 DEF FinishRemoval
<1>10. ASSUME NEW m \in Modules, Repair(m) PROVE IndInv'
  <2>1. phase'[m] = "absent" /\ \A n \in Modules \ {m} : phase'[n] = phase[n]
    BY <1>10 DEF Repair, SetRelease, SetPhase, TypeOK
  <2>2. HiddenOnlyByFault' /\ UninstallProgress' /\ ReleaseEarned'
    BY <1>0, <1>10, <2>1 DEF Repair, HiddenPhases
  <2>3. OrgsInRootNs' /\ OrgsNeverStranded'
    BY <1>0, <1>10, <2>1 DEF Repair
  <2> QED
    BY <1>1, <1>10, <2>2, <2>3 DEF Repair
<1>7. CASE CascadeToOrgs
  <2>1. \A m \in Modules \ {Orgs} : phase'[m] = phase[m]
    BY <1>7 DEF CascadeToOrgs, TypeOK
  <2>2. phase[CfRootNs] = "removing" /\ phase[Orgs] = "installed"
    BY <1>7 DEF CascadeToOrgs
  <2>3. HiddenOnlyByFault' /\ UninstallProgress'
    BY <1>0, <1>7, <2>1 DEF CascadeToOrgs
  <2>4. ~AllUnseen
    BY <1>0, <2>2
  <2>5. OrgsInRootNs' /\ OrgsNeverStranded'
    BY <2>1, <2>2
  <2>6. ReleaseEarned'
    BY <1>7, <2>4 DEF CascadeToOrgs
  <2> QED
    BY <1>1, <1>7, <2>3, <2>5, <2>6 DEF CascadeToOrgs
<1>8. CASE \/ KymaComesUp \/ KymaGoesDown \/ CacheSync \/ OrgsListSync
           \/ TimerFires \/ Resync
  <2>1. UNCHANGED <<cr, phase, pc, obj, idx>> /\ (UNCHANGED faults \/ Fault)
    BY <1>8 DEF KymaComesUp, KymaGoesDown, CacheSync, OrgsListSync, TimerFires, Resync
  <2>2. (AllUnseen => AllUnseen') /\ HiddenOnlyByFault'
    BY <2>1, FaultsAside
  <2> HIDE DEF AllUnseen, HiddenOnlyByFault
  <2> QED
    BY <1>1, <2>1, <2>2
<1>9. CASE Restart
  <2>1. pc' = "idle" /\ cr' = cr /\ faults' > 0
    BY <1>9 DEF Restart, Fault, TypeOK
  <2>2. CASE UNCHANGED phase
    BY <1>1, <2>1, <2>2
  <2>3. ASSUME NEW m \in HelmModules, NEW p \in HiddenPhases, InsideHelm(m, p), SetPhase(m, p) PROVE IndInv'
    <3>1. phase'[m] = p /\ \A n \in Modules \ {m} : phase'[n] = phase[n]
      BY <1>0, <2>3 DEF SetPhase, TypeOK
    <3>2. OrgsInRootNs'
      BY <1>0, <3>1
    <3>3. m = Korifi /\ p # "interrupted" => phase[Orgs] = "absent"
      BY <2>3, KorifiLast DEF InsideHelm
    <3>4. OrgsNeverStranded'
      BY <1>0, <3>1, <3>3
    <3> QED
      BY <1>1, <2>1, <3>2, <3>4
  <2> QED
    BY <1>9, <2>2, <2>3 DEF Restart, SetRelease
<1> QED
  BY <1>2, <1>3, <1>4, <1>5, <1>6, <1>7, <1>8, <1>9, <1>10 DEF Environment

\* The steps of Reconcile establish and use it.
LEMMA ReconcileKeeps ==
    ASSUME IndInv, Reconcile
    PROVE  IndInv'
<1>1. TypeOK'
  BY ReconcileType DEF IndInv
<1> USE ModulesFacts
<1> USE DEF IndInv, OrgsInRootNs, UninstallProgress, ReleaseEarned, OrgsNeverStranded,
            caches, worker, cluster, orgsApi, budget
<1>0. UNCHANGED phase /\ (UNCHANGED faults \/ Fault) =>
        /\ HiddenOnlyByFault' /\ (AllUnseen => AllUnseen')
        /\ \A m : Unseen(m) => Unseen(m)'
  BY FaultsAside DEF Unseen, Gone, Hidden
<1>2. CASE ReconcileGone \/ ReconcileGetFails
  <2>1. UNCHANGED <<cr, phase, pc, obj, idx>> /\ (UNCHANGED faults \/ Fault)
    BY <1>2 DEF ReconcileGone, ReconcileGetFails
  <2> QED
    BY <1>0, <1>1, <2>1
<1>3. CASE FinalizeSkip
  <2>1. /\ pc' = "patchMain" /\ UNCHANGED <<cr, phase, faults>>
        /\ obj' = [Touched(cache) EXCEPT !.status.state = "Deleting", !.finalizer = FALSE]
    BY <1>3 DEF FinalizeSkip, Start
  <2>2. obj'.status.config = ZeroConfig
    BY <1>3, <2>1, TouchedType DEF FinalizeSkip, TypeOK, Objects, Statuses
  <2> QED
    BY <1>0, <1>1, <2>1, <2>2
<1>4. CASE FinalizeStart
  <2>1. /\ pc' = "uninstall" /\ idx' = 1 /\ UNCHANGED <<cr, phase, faults>>
        /\ obj' = [Touched(cache) EXCEPT !.status.state = "Deleting"]
    BY <1>4 DEF FinalizeStart, Start
  <2>2. obj'.finalizer
    BY <2>1, TouchedType DEF TypeOK, Objects
  <2>3. UninstallProgress'
    BY <2>1
  <2> QED
    BY <1>0, <1>1, <2>1, <2>2, <2>3
<1>5. CASE CompileFails
  <2> DEFINE o == [Touched(cache) EXCEPT !.status.state = "Warning"]
             s == SetCondition(o.status, "Configuration", "False", o.generation)
  <2>1. pc' = "patchMain" /\ UNCHANGED <<cr, phase, faults>> /\ obj' = [o EXCEPT !.status = s]
    BY <1>5 DEF CompileFails, Start
  <2>2. obj'.finalizer
    <3> HIDE DEF s
    <3> QED
      BY <2>1, TouchedType DEF TypeOK, Objects
  <2> QED
    BY <1>0, <1>1, <2>1, <2>2
<1>6. CASE InstallStart
  <2> DEFINE o == [Touched(cache) EXCEPT !.status.config = Compile(cache.spec)]
             s == SetCondition(o.status, "Configuration", "True", o.generation)
  <2>1. pc' = "install" /\ UNCHANGED <<cr, phase, faults>> /\ obj' = [o EXCEPT !.status = s]
    BY <1>6 DEF InstallStart, Start
  <2>2. obj'.finalizer
    <3> HIDE DEF s
    <3> QED
      BY <2>1, TouchedType DEF TypeOK, Objects
  <2> QED
    BY <1>0, <1>1, <2>1, <2>2
<1>7. CASE InstallStep
  <2>1. PICK r \in {Success, InProgress, Failed} :
          Install(InstallOrder[idx], obj.status.config, r)
    BY <1>7 DEF InstallStep
  <2> DEFINE m == InstallOrder[idx]
  <2>2. m \in YamlModules \cup HelmModules
    BY <1>7, OrdersAssumption DEF InstallStep, TypeOK
  <2>3. obj.status.config \in Configs
    BY DEF TypeOK, Objects, Statuses
  <2>4. m \in Modules /\ m # Orgs
    BY <2>2, ModulesAssumption DEF Modules
  <2>5. /\ \A n \in Modules \ {m} : phase'[n] = phase[n]
        /\ m # Contour => phase'[m] \in {phase[m], "partial", "installed"}
        /\ HiddenOnlyByFault'
    BY <2>1, <2>2, <2>3, InstallEffect
  <2>6. pc = "install" /\ UNCHANGED <<cr, pc, obj>>
    BY <1>7 DEF InstallStep
  <2>7. OrgsInRootNs' /\ OrgsNeverStranded'
    <3> HIDE DEF m
    <3> QED
      BY <2>4, <2>5
  <2> QED
    BY <1>1, <2>5, <2>6, <2>7
<1>8. CASE InstallErrs
  <2> DEFINE m == InstallOrder[idx]
  <2>1. m \in YamlModules
    BY <1>8 DEF InstallErrs
  <2>2. m # Korifi /\ m # Orgs
    BY <2>1, ModulesAssumption
  <2>3. \A n \in Modules \ {m} : phase'[n] = phase[n]
    BY <1>8 DEF InstallErrs, SetPhase, TypeOK
  <2>4. phase'[m] \in {phase[m], "partial"}
    BY <1>8, <2>1 DEF InstallErrs, SetPhase, TypeOK, Modules
  <2>5. OrgsInRootNs' /\ OrgsNeverStranded'
    <3> HIDE DEF m
    <3> QED
      BY <2>2, <2>3, <2>4
  <2>6. pc = "install" /\ pc' = "patchMain" /\ UNCHANGED <<cr, obj>>
    BY <1>8 DEF InstallErrs
  <2>7. HiddenOnlyByFault'
    BY <1>8 DEF InstallErrs, Fault, TypeOK, HiddenOnlyByFault
  <2> QED
    BY <1>1, <2>5, <2>6, <2>7
<1>9. CASE InstallDone
  <2>1. obj'.finalizer = obj.finalizer
    BY <1>9, ApplyResultType DEF InstallDone, TypeOK
  <2> QED
    BY <1>0, <1>1, <1>9, <2>1 DEF InstallDone
<1>10. CASE UninstallStep
  <2>1. PICK r \in {Success, InProgress, Failed} :
          /\ Uninstall(UninstallOrder[idx], obj.status.config, r)
          /\ IF r = Success
             THEN idx' = idx + 1 /\ UNCHANGED <<pc, obj, retry>>
             ELSE /\ pc' = "patchMain"
                  /\ obj' = [obj EXCEPT !.status =
                                SetCondition(@, "Deletion", "False", obj.generation)]
                  /\ retry' = TRUE
                  /\ UNCHANGED idx
    BY <1>10 DEF UninstallStep
  <2> DEFINE m == UninstallOrder[idx]
  <2>2. idx \in 1 .. Len(UninstallOrder) /\ pc = "uninstall" /\ cr' = cr
    BY <1>10 DEF UninstallStep, TypeOK
  <2>3. \A k \in 1 .. Len(UninstallOrder) : UninstallOrder[k] \in Modules
    BY OrdersAssumption
  <2>4. obj.status.config \in Configs
    BY DEF TypeOK, Objects, Statuses
  <2>5. m \in Modules
    BY <2>2, <2>3
  <2>6. /\ \A n \in Modules \ {m} : phase'[n] = phase[n]
        /\ phase[m] = "absent" => phase'[m] = "absent"
        /\ Unseen(m) => UnseenThen(m)
        /\ r = Success /\ m # Orgs => UnseenThen(m)
        /\ m \notin HelmModules => phase'[m] \in {phase[m], "removing"}
        /\ HiddenOnlyByFault'
    BY <2>1, <2>4, <2>5, UninstallEffect
  <2>7. \A n \in Modules : /\ phase[n] = "absent" => phase'[n] = "absent"
                           /\ Unseen(n) => UnseenThen(n)
    <3> HIDE DEF m
    <3> QED
      BY <2>6 DEF Unseen, UnseenThen, Gone, Hidden
  <2>8. OrgsInRootNs'
    <3>1. phase'[CfRootNs] = "absent" => phase[CfRootNs] = "absent"
      <4> HIDE DEF m
      <4> QED
        BY <2>6, ModulesAssumption
    <3> QED
      BY <2>7, <3>1
  <2>9. m = Korifi => phase[Orgs] = "absent"
    BY <2>2, KorifiLast
  <2>10. OrgsNeverStranded'
    <3>1. CASE m = Korifi
      BY <2>7, <2>9, <3>1
    <3>2. CASE m # Korifi
      <4>1. phase'[Korifi] = phase[Korifi]
        BY <2>6, <3>2
      <4>2. phase[Orgs] = "absent" => phase'[Orgs] = "absent"
        BY <2>7
      <4> QED
        BY <4>1, <4>2
    <3> QED
      BY <3>1, <3>2
  <2>11. CASE r = Success
    <3>1. idx' = idx + 1 /\ UNCHANGED <<pc, obj>>
      BY <2>1, <2>11
    <3>2. UninstallProgress'
      <4>1. SUFFICES ASSUME NEW k \in 1 .. Len(UninstallOrder), k < idx + 1,
                            UninstallOrder[k] # Orgs
                     PROVE  UnseenThen(UninstallOrder[k])
        BY <3>1 DEF UnseenThen, Unseen, Gone, Hidden
      <4>2. CASE k = idx
        BY <2>6, <2>11, <4>1, <4>2
      <4>3. CASE k < idx
        BY <2>2, <2>3, <2>7, <4>1, <4>3
      <4> QED
        BY <2>2, <4>1, <4>2, <4>3
    <3> QED
      BY <1>1, <2>2, <2>6, <2>8, <2>10, <3>1, <3>2
  <2>12. CASE r # Success
    <3>1. pc' = "patchMain"
      BY <2>1, <2>12
    <3>2. obj'.finalizer = obj.finalizer
      BY <2>1, <2>12 DEF TypeOK, Objects
    <3> QED
      BY <1>1, <2>2, <2>6, <2>8, <2>10, <3>1, <3>2
  <2> QED
    BY <2>11, <2>12
<1>11. CASE UninstallErrs
  <2> DEFINE m == UninstallOrder[idx]
  <2>1. m \in Modules /\ m \notin HelmModules
    <3>1. idx \in 1 .. Len(UninstallOrder)
      BY <1>11 DEF UninstallErrs, TypeOK
    <3>2. m \in Modules
      BY <3>1, OrdersAssumption
    <3> QED
      BY <1>11, <3>2 DEF UninstallErrs
  <2>2. m # Korifi
    BY <2>1, ModulesAssumption
  <2>3. \A n \in Modules \ {m} : phase'[n] = phase[n]
    BY <1>11 DEF UninstallErrs, SetPhase, TypeOK
  <2>4. phase'[m] = phase[m] \/ (phase[m] # "absent" /\ phase'[m] = "removing")
    BY <1>11, <2>1 DEF UninstallErrs, SetPhase, TypeOK
  <2>5. OrgsInRootNs' /\ OrgsNeverStranded'
    <3> HIDE DEF m
    <3> QED
      BY <2>1, <2>2, <2>3, <2>4
  <2>6. pc = "uninstall" /\ pc' = "patchMain" /\ UNCHANGED <<cr, obj>>
    BY <1>11 DEF UninstallErrs
  <2>7. HiddenOnlyByFault'
    BY <1>11 DEF UninstallErrs, Fault, TypeOK, HiddenOnlyByFault
  <2> QED
    BY <1>1, <2>5, <2>6, <2>7
<1>17. CASE OrgsUninstallErrs
  BY <1>0, <1>1, <1>17 DEF OrgsUninstallErrs
<1>12. CASE UninstallDone
  <2>1. pc = "uninstall" /\ pc' = "patchMain" /\ UNCHANGED <<cr, phase, faults>>
    BY <1>12 DEF UninstallDone
  <2>2. \A m \in Modules \ {Orgs} : Unseen(m)
    <3>1. SUFFICES ASSUME NEW m \in Modules \ {Orgs} PROVE Unseen(m)
      OBVIOUS
    <3>2. PICK k \in 1 .. Len(UninstallOrder) : UninstallOrder[k] = m
      BY OrdersAssumption
    <3>3. k < idx
      BY <1>12, <3>2 DEF UninstallDone, TypeOK
    <3> QED
      BY <2>1, <3>2, <3>3
  <2>3. phase[Orgs] = "absent"
    BY <2>2, ModulesAssumption DEF Unseen, Gone, Hidden
  <2>4. AllUnseen
    BY <2>2, <2>3 DEF AllUnseen, Unseen, Gone, Hidden, HiddenOnlyByFault, ReleaseStuck
  <2> QED
    BY <1>0, <1>1, <2>1, <2>4
<1>13. CASE PatchMain
  <2>1. cr' = MergeFinalizer(cr, base, obj) /\ cr.exists
    BY <1>13 DEF PatchMain
  <2>2. cr'.exists \/ ~cr'.finalizer
    BY <2>1 DEF MergeFinalizer, Absent, TypeOK, Objects
  <2> QED
    BY <1>0, <1>1, <1>13, <2>2 DEF PatchMain
<1>14. CASE PatchStatus
  <2>1. cr'.exists
    BY <1>14 DEF PatchStatus, TypeOK, Objects
  <2> QED
    BY <1>0, <1>1, <1>14, <2>1 DEF PatchStatus, Finish
<1>15. CASE PatchNotFound
  BY <1>0, <1>1, <1>15 DEF PatchNotFound, Finish
<1>16. CASE PatchFails
  <2>1. cr.exists
    BY <1>16 DEF PatchFails
  <2>2. cr'.exists \/ ~cr'.finalizer
    BY <1>16, <2>1 DEF PatchFails, MergeFinalizer, Absent, TypeOK, Objects
  <2> QED
    BY <1>0, <1>1, <1>16, <2>2 DEF PatchFails, Finish
<1> QED
  BY <1>2, <1>3, <1>4, <1>5, <1>6, <1>7, <1>8, <1>9, <1>10, <1>11, <1>12, <1>13, <1>14,
     <1>15, <1>16, <1>17 DEF Reconcile


\* The invariant holds initially.
LEMMA InitIndInv ==
    ASSUME Init
    PROVE  IndInv
<1> USE ModulesFacts
<1>1. TypeOK
  <2>1. /\ idx \in Nat \ {0} /\ worst \in {Success, InProgress, Failed}
        /\ creates \in Nat /\ orgs \in Nat /\ faults \in Nat
    BY DEF Init
  <2>2. phase \in [Modules -> Phases] /\ applied \in [HelmModules -> Configs]
    BY ZeroType DEF Init, Phases
  <2> QED
    BY <2>1, <2>2, ZeroType DEF Init, TypeOK
<1>2. ~cr.exists /\ ~cr.finalizer
  BY DEF Init, Absent
<1>3. OrgsInRootNs /\ OrgsNeverStranded
  BY DEF Init, OrgsInRootNs, OrgsNeverStranded
<1>5. HiddenOnlyByFault
  BY DEF Init, HiddenOnlyByFault, ReleaseStuck, Hidden, HiddenPhases, Modules
<1>4. UninstallProgress /\ ReleaseEarned
  BY DEF Init, UninstallProgress, ReleaseEarned
<1> QED
  BY <1>1, <1>2, <1>3, <1>4, <1>5 DEF IndInv

\* Every step keeps it.
LEMMA NextIndInv ==
    ASSUME IndInv, [Next]_vars
    PROVE  IndInv'
<1>1. CASE Reconcile
  BY <1>1, ReconcileKeeps
<1>2. CASE Environment
  BY <1>2, EnvironmentKeeps
<1>3. CASE UNCHANGED vars
  BY <1>3 DEF vars, caches, worker, cluster, orgsApi, budget, IndInv, TypeOK, OrgsInRootNs, UninstallProgress,
              ReleaseEarned, OrgsNeverStranded, AllUnseen, HiddenOnlyByFault, ReleaseStuck, Unseen, Gone, Hidden
<1> QED
  BY <1>1, <1>2, <1>3 DEF Next

-----------------------------------------------------------------------------
(* The results.                                                            *)

\* The uninstall pass of finalize keeps what it has established, whatever
\* users, the cluster and faults do between its steps.
THEOREM Invariance == Spec => []IndInv
<1>1. Init => IndInv
  BY InitIndInv
<1>2. IndInv /\ [Next]_vars => IndInv'
  BY NextIndInv
<1> QED
  BY <1>1, <1>2, PTL DEF Spec

\* The operator's state, the CR and the cluster keep their shape.
THEOREM TypeCorrect == Spec => []TypeOK
<1>1. IndInv => TypeOK
  BY DEF IndInv
<1> QED
  BY <1>1, Invariance, PTL

\* uninstall never takes Korifi away from orgs that still have to be finalized.
THEOREM OrgsSafe == Spec => []OrgsNeverStranded
<1>1. IndInv => OrgsNeverStranded
  BY DEF IndInv
<1> QED
  BY <1>1, Invariance, PTL

\* Only the two patches of the finalizer change it on an existing object.
LEMMA FinalizerStep ==
    ASSUME IndInv, [Next]_vars, cr.finalizer, ~cr'.finalizer
    PROVE  pc = "patchMain" /\ ~obj.finalizer /\ cr' = MergeFinalizer(cr, base, obj)
<1> USE DEF caches, worker, cluster, orgsApi, budget
<1>1. cr.exists /\ cr \in Objects /\ base \in Objects /\ obj \in Objects
  BY DEF IndInv, TypeOK
<1>2. ASSUME cr' = MergeFinalizer(cr, base, obj) PROVE ~obj.finalizer
  BY <1>1, <1>2 DEF MergeFinalizer, Pick, Objects
<1>3. CASE PatchMain
  BY <1>2, <1>3 DEF PatchMain
<1>4. CASE PatchFails
  <2>1. [cr EXCEPT !.status = MergeStatus(@, base.status, obj.status)].finalizer = cr.finalizer
    BY <1>1 DEF Objects
  <2> QED
    BY <1>2, <1>4, <2>1 DEF PatchFails
<1>5. CASE PatchStatus
  <2>1. cr'.finalizer = cr.finalizer
    BY <1>1, <1>5 DEF PatchStatus, Objects
  <2> QED
    BY <2>1
<1>6. ASSUME NEW spec \in Specs, CreateCR(spec) \/ EditSpec(spec) PROVE FALSE
  <2>1. cr'.finalizer = cr.finalizer
    BY <1>1, <1>6 DEF CreateCR, EditSpec, Objects
  <2> QED
    BY <2>1
<1>7. CASE DeleteCR
  <2>1. cr'.finalizer = cr.finalizer
    BY <1>1, <1>7 DEF DeleteCR, Objects
  <2> QED
    BY <2>1
<1>8. CASE \/ CreateOrg \/ CascadeToOrgs \/ KymaComesUp \/ KymaGoesDown \/ CacheSync
           \/ OrgsListSync \/ TimerFires \/ Resync \/ Restart
           \/ \E m \in Modules : FinishRemoval(m) \/ Repair(m)
  BY <1>8 DEF CreateOrg, CascadeToOrgs, KymaComesUp, KymaGoesDown, CacheSync,
              OrgsListSync, TimerFires, Resync, Restart, FinishRemoval, Repair
<1>9. CASE \/ ReconcileGone \/ ReconcileGetFails \/ FinalizeSkip \/ FinalizeStart
           \/ CompileFails \/ InstallStart
  BY <1>9 DEF ReconcileGone, ReconcileGetFails, FinalizeSkip, FinalizeStart, CompileFails,
              InstallStart, Start
<1>10. CASE \/ InstallStep \/ InstallErrs \/ InstallDone
            \/ UninstallStep \/ UninstallErrs \/ OrgsUninstallErrs \/ UninstallDone \/ PatchNotFound
  BY <1>10 DEF InstallStep, InstallErrs, InstallDone, UninstallStep, UninstallErrs, OrgsUninstallErrs,
               UninstallDone, PatchNotFound
<1>11. CASE UNCHANGED vars
  BY <1>11 DEF vars
<1> QED
  BY <1>3, <1>4, <1>5, <1>6, <1>7, <1>8, <1>9, <1>10, <1>11 DEF Next, Reconcile, Environment

\* finalize lets a CR with an installation config go only when no org and nothing
\* of the installation is left, but for Helm releases hidden by a fault.
THEOREM ReleaseSafe == Spec => ReleasedUnlessHidden
<1>1. IndInv /\ [Next]_vars
        => [cr.finalizer /\ ~cr'.finalizer => obj.status.config = ZeroConfig \/ AllUnseen]_vars
  BY FinalizerStep DEF IndInv, ReleaseEarned
<1> QED
  BY <1>1, Invariance, PTL DEF Spec, ReleasedUnlessHidden

-----------------------------------------------------------------------------
(* The finalizer and a deletion somebody has seen.                         *)

\* The finalizer after the merge patch.
Merged(a, b, c) == IF b.finalizer = c.finalizer THEN a.finalizer ELSE c.finalizer

\* What the finalizer's merge patch makes of the CR.
LEMMA MergeFinalizerEffect ==
    ASSUME NEW a \in Objects, NEW b \in Objects, NEW c \in Objects
    PROVE  /\ a.deleting /\ ~Merged(a, b, c) => MergeFinalizer(a, b, c) = Absent
           /\ ~(a.deleting /\ ~Merged(a, b, c)) =>
                 /\ MergeFinalizer(a, b, c).exists = a.exists
                 /\ MergeFinalizer(a, b, c).deleting = a.deleting
                 /\ MergeFinalizer(a, b, c).finalizer = Merged(a, b, c)
                 /\ MergeFinalizer(a, b, c).status = a.status
  BY DEF MergeFinalizer, Pick, Objects, Merged

\* An absent object is in nobody's way.
LEMMA AbsentFacts == ~Absent.exists /\ ~Absent.deleting /\ ~Absent.finalizer
  BY DEF Absent

\* The operator's two ways to store the finalizer keep FinalizerKept.
LEMMA KeptByRelease ==
    ASSUME IndInv, FinalizerKept, pc = "patchMain", cr.exists, cr' = MergeFinalizer(cr, base, obj),
           cache' = cache,
           \/ pc' = "patchStatus" /\ base' = base /\ obj' = obj
           \/ pc' = "idle" /\ base' = Absent
    PROVE  FinalizerKept'
<1> DEFINE f == Merged(cr, base, obj)
<1>1. /\ cr.deleting /\ ~f => ~cr'.exists /\ ~cr'.deleting /\ ~cr'.finalizer
      /\ ~(cr.deleting /\ ~f) => cr'.exists = cr.exists /\ cr'.deleting = cr.deleting /\ cr'.finalizer = f
  <2>1. cr \in Objects /\ base \in Objects /\ obj \in Objects
    BY DEF IndInv, TypeOK
  <2>2. /\ cr.deleting /\ ~f => cr' = Absent
        /\ ~(cr.deleting /\ ~f) => cr'.exists = cr.exists /\ cr'.deleting = cr.deleting /\ cr'.finalizer = f
    BY <2>1, MergeFinalizerEffect, Zenon
  <2> QED
    BY <2>2, AbsentFacts, Zenon
<1>2. /\ cr.finalizer \in BOOLEAN /\ base.finalizer \in BOOLEAN /\ obj.finalizer \in BOOLEAN
      /\ cr.deleting \in BOOLEAN /\ cr.exists \in BOOLEAN /\ base.deleting \in BOOLEAN /\ cache.deleting \in BOOLEAN
  BY DEF IndInv, TypeOK, Objects
<1> HIDE DEF f
<1>3. f = IF base.finalizer = obj.finalizer THEN cr.finalizer ELSE obj.finalizer
  BY DEF f, Merged
<1>4. HeldWhileDeleting(cr)' /\ HeldWhileDeleting(cache)' /\ HeldWhileDeleting(base)'
  BY <1>1, AbsentFacts DEF FinalizerKept, HeldWhileDeleting
<1>5. base.deleting /\ ~cr.deleting => ~cr'.finalizer
  BY <1>1, <1>2, <1>3 DEF FinalizerKept, HeldWhileDeleting
<1>6. ~base.deleting /\ cache.deleting => cr.deleting /\ cr'.deleting
  BY <1>1, <1>2, <1>3 DEF FinalizerKept, HeldWhileDeleting
<1>7. cr'.deleting => cr.deleting
  BY <1>1
<1>8. cr'.finalizer /\ ~cr'.deleting => ~cache.deleting /\ ~base.deleting
  BY <1>1, <1>2, <1>3, <1>5, <1>6 DEF FinalizerKept, HeldWhileDeleting
<1> QED
  BY <1>4, <1>5, <1>6, <1>7, <1>8, AbsentFacts DEF FinalizerKept

\* Every step keeps FinalizerKept.
LEMMA KeptStep ==
    ASSUME IndInv, FinalizerKept, [Next]_vars
    PROVE  FinalizerKept'
<1> USE DEF caches, worker, cluster, orgsApi, budget
<1>0. cr \in Objects /\ cache \in Objects /\ base \in Objects /\ obj \in Objects
  BY DEF IndInv, TypeOK
<1>1. ASSUME UNCHANGED <<cache, pc, base, obj>>,
             HeldWhileDeleting(cr)',
             cr.deleting => cr'.deleting,
             cr'.deleting => cr.deleting \/ (cr.finalizer /\ ~cr.deleting),
             cr'.finalizer => cr.finalizer
      PROVE  FinalizerKept'
  BY <1>1 DEF FinalizerKept, HeldWhileDeleting
<1>2. ASSUME NEW spec \in Specs, CreateCR(spec) PROVE FinalizerKept'
  <2>1. ~cr'.deleting /\ ~cr'.finalizer /\ ~cr.exists
    BY <1>2 DEF CreateCR, Absent
  <2> QED
    BY <1>1, <1>2, <2>1 DEF CreateCR, FinalizerKept, HeldWhileDeleting
<1>3. ASSUME NEW spec \in Specs, EditSpec(spec) PROVE FinalizerKept'
  <2>1. cr'.deleting = cr.deleting /\ cr'.finalizer = cr.finalizer /\ cr'.exists = cr.exists
    BY <1>0, <1>3 DEF EditSpec, Objects
  <2> QED
    BY <1>1, <1>3, <2>1 DEF EditSpec, FinalizerKept, HeldWhileDeleting
<1>4. CASE DeleteCR
  <2>1. cr.exists /\ ~cr.deleting
    BY <1>4 DEF DeleteCR
  <2>2. cr.finalizer => cr'.exists /\ cr'.finalizer /\ cr'.deleting
    BY <1>0, <1>4 DEF DeleteCR, Objects
  <2>3. ~cr.finalizer => ~cr'.exists /\ ~cr'.finalizer /\ ~cr'.deleting
    BY <1>4 DEF DeleteCR, Absent
  <2> QED
    BY <1>1, <1>4, <2>1, <2>2, <2>3 DEF DeleteCR, FinalizerKept, HeldWhileDeleting
<1>5. ASSUME UNCHANGED <<cr, cache, pc, base, obj>> PROVE FinalizerKept'
  BY <1>5 DEF FinalizerKept, HeldWhileDeleting
<1>6. CASE \/ CreateOrg \/ CascadeToOrgs \/ KymaComesUp \/ KymaGoesDown
           \/ OrgsListSync \/ TimerFires \/ Resync \/ \E m \in Modules : FinishRemoval(m) \/ Repair(m)
  BY <1>5, <1>6 DEF CreateOrg, CascadeToOrgs, KymaComesUp, KymaGoesDown, OrgsListSync, TimerFires, Resync,
              FinishRemoval, Repair
<1>7. CASE CacheSync
  BY <1>7 DEF CacheSync, FinalizerKept, HeldWhileDeleting
<1>8. CASE Restart
  BY <1>8, AbsentFacts DEF Restart, FinalizerKept, HeldWhileDeleting
<1>9. CASE ReconcileGone \/ ReconcileGetFails \/ UNCHANGED vars
  BY <1>5, <1>9 DEF ReconcileGone, ReconcileGetFails, vars
<1>10. ASSUME NEW o, NEW next, NEW again, cache.exists, Start(o, next, again),
              next = "uninstall" \/ ~o.finalizer => cache.deleting
       PROVE  FinalizerKept'
  BY <1>10 DEF Start, FinalizerKept, HeldWhileDeleting
<1>11. CASE FinalizeSkip
  BY <1>10, <1>11 DEF FinalizeSkip
<1>12. CASE FinalizeStart
  BY <1>10, <1>12 DEF FinalizeStart
<1>13. CASE CompileFails
  <2> DEFINE o == [Touched(cache) EXCEPT !.status.state = "Warning"]
             s == SetCondition(o.status, "Configuration", "False", o.generation)
  <2>1. cache.exists /\ Start([o EXCEPT !.status = s], "patchMain", TRUE)
    BY <1>13 DEF CompileFails
  <2>2. [o EXCEPT !.status = s].finalizer
    <3> HIDE DEF s
    <3> QED
      BY <1>0, TouchedType DEF Objects
  <2> QED
    BY <1>10, <2>1, <2>2
<1>14. CASE InstallStart
  <2> DEFINE o == [Touched(cache) EXCEPT !.status.config = Compile(cache.spec)]
             s == SetCondition(o.status, "Configuration", "True", o.generation)
  <2>1. cache.exists /\ Start([o EXCEPT !.status = s], "install", FALSE)
    BY <1>14 DEF InstallStart
  <2>2. [o EXCEPT !.status = s].finalizer
    <3> HIDE DEF s
    <3> QED
      BY <1>0, TouchedType DEF Objects
  <2> QED
    BY <1>10, <2>1, <2>2
<1>15. ASSUME UNCHANGED <<cr, cache, base>>, pc # "idle", pc' # "uninstall" \/ pc = "uninstall",
              ~obj'.finalizer => base.deleting
       PROVE  FinalizerKept'
  BY <1>15 DEF FinalizerKept, HeldWhileDeleting
<1>16. CASE InstallStep \/ InstallErrs
  BY <1>15, <1>16 DEF InstallStep, InstallErrs, FinalizerKept
<1>17. CASE InstallDone
  <2>1. obj'.finalizer = obj.finalizer
    BY <1>0, <1>17, ApplyResultType DEF InstallDone, IndInv, TypeOK
  <2> QED
    BY <1>15, <1>17, <2>1 DEF InstallDone, FinalizerKept
<1>18. CASE UninstallStep \/ UninstallErrs \/ OrgsUninstallErrs \/ UninstallDone
  <2>1. pc = "uninstall" /\ UNCHANGED <<cr, cache, base>>
    BY <1>18 DEF UninstallStep, UninstallErrs, OrgsUninstallErrs, UninstallDone
  <2> QED
    BY <1>15, <2>1 DEF FinalizerKept
<1>19. CASE PatchMain
  BY <1>19, KeptByRelease DEF PatchMain
<1>20. ASSUME UNCHANGED cache, pc' = "idle", base' = Absent,
              cr'.exists = cr.exists, cr'.deleting = cr.deleting, cr'.finalizer = cr.finalizer
       PROVE  FinalizerKept'
  BY <1>20, AbsentFacts DEF FinalizerKept, HeldWhileDeleting
<1>21. [cr EXCEPT !.status = MergeStatus(cr.status, base.status, obj.status)].exists = cr.exists
       /\ [cr EXCEPT !.status = MergeStatus(cr.status, base.status, obj.status)].deleting = cr.deleting
       /\ [cr EXCEPT !.status = MergeStatus(cr.status, base.status, obj.status)].finalizer = cr.finalizer
  BY <1>0 DEF Objects
<1>22. CASE PatchStatus \/ PatchNotFound
  BY <1>20, <1>21, <1>22 DEF PatchStatus, PatchNotFound, Finish
<1>23. CASE PatchFails
  <2>1. UNCHANGED cache /\ pc' = "idle" /\ base' = Absent /\ cr.exists
    BY <1>23 DEF PatchFails, Finish
  <2>2. CASE pc = "patchMain" /\ cr' = MergeFinalizer(cr, base, obj)
    BY <2>1, <2>2, KeptByRelease
  <2>3. CASE cr' = cr \/ cr' = [cr EXCEPT !.status = MergeStatus(cr.status, base.status, obj.status)]
    BY <1>20, <1>21, <2>1, <2>3
  <2> QED
    BY <1>23, <2>2, <2>3 DEF PatchFails
<1> QED
  BY <1>2, <1>3, <1>4, <1>6, <1>7, <1>8, <1>9, <1>11, <1>12, <1>13, <1>14, <1>16, <1>17, <1>18, <1>19,
     <1>22, <1>23 DEF Next, Reconcile, Environment

\* Whoever takes the finalizer away has read a deleting CR, and a living CR with
\* a finalizer is no longer remembered as deleting by anyone.
THEOREM DeletionIsSeen == Spec => []FinalizerKept
<1>1. Init => FinalizerKept
  BY AbsentFacts DEF Init, FinalizerKept, HeldWhileDeleting
<1>2. IndInv /\ FinalizerKept /\ [Next]_vars => FinalizerKept'
  BY KeptStep
<1> QED
  BY <1>1, <1>2, Invariance, PTL DEF Spec

\* No stale reconcile takes the finalizer from a CR that lives on.
THEOREM FinalizerStays == Spec => FinalizerHeld
<1>1. ASSUME IndInv, FinalizerKept, [Next]_vars, cr.exists, cr.finalizer, ~cr'.finalizer PROVE ~cr'.exists
  <2>1. pc = "patchMain" /\ ~obj.finalizer /\ cr' = MergeFinalizer(cr, base, obj)
    BY <1>1, FinalizerStep
  <2>2. base.deleting /\ cr.deleting
    BY <1>1, <2>1 DEF FinalizerKept
  <2>3. cr' = Absent
    BY <1>1, <2>1, <2>2, MergeFinalizerEffect DEF Merged, IndInv, TypeOK, Objects, FinalizerKept, HeldWhileDeleting
  <2> QED
    BY <2>3, AbsentFacts
<1>2. IndInv /\ FinalizerKept /\ [Next]_vars
        => [cr.exists /\ cr.finalizer /\ cr'.exists => cr'.finalizer]_vars
  BY <1>1
<1> QED
  BY <1>2, Invariance, DeletionIsSeen, PTL DEF Spec, FinalizerHeld

-----------------------------------------------------------------------------
(* Settling: what a worker that needs no retry leaves behind.              *)

\* The part of a status that a merge patch did not change was not modified.
LEMMA MergeStatusSame ==
    ASSUME NEW a \in Statuses, NEW b \in Statuses, NEW c \in Statuses, MergeStatus(a, b, c) = b
    PROVE  c = b
<1> DEFINE m == MergeStatus(a, b, c)
<1>1. /\ m.state = IF b.state = c.state THEN a.state ELSE c.state
      /\ m.observed = IF b.observed = c.observed THEN a.observed ELSE c.observed
      /\ m.conditions = IF b.conditions = c.conditions THEN a.conditions ELSE c.conditions
      /\ m.url = IF b.url = c.url THEN a.url ELSE c.url
      /\ m.config.gatewayType = IF b.config.gatewayType = c.config.gatewayType
                                THEN a.config.gatewayType ELSE c.config.gatewayType
      /\ m.config.rootNamespace = IF b.config.rootNamespace = c.config.rootNamespace
                                  THEN a.config.rootNamespace ELSE c.config.rootNamespace
  BY DEF MergeStatus, MergeConfig, Pick
<1>2. m = b
  OBVIOUS
<1> HIDE DEF m
<1>3. c.state = b.state
  BY <1>1, <1>2
<1>4. c.observed = b.observed
  BY <1>1, <1>2
<1>5. c.conditions = b.conditions
  BY <1>1, <1>2
<1>6. c.url = b.url
  BY <1>1, <1>2
<1>7. c.config.gatewayType = b.config.gatewayType /\ c.config.rootNamespace = b.config.rootNamespace
  BY <1>1, <1>2
<1>8. c.config = b.config
  BY <1>7 DEF Statuses, Configs
<1> QED
  BY <1>3, <1>4, <1>5, <1>6, <1>8 DEF Statuses

\* applyInstallResultToStatus leaves alone what the pass has recorded, and says
\* Ready only after a pass of Success.
LEMMA ApplyResultConcludes ==
    ASSUME NEW o \in Objects, NEW b, Records(o.status, b), NEW r \in {Success, Failed},
           r = Success => \/ \A k \in 1 .. Len(InstallOrder) : InstalledAs(InstallOrder[k], o.status.config)
                          \/ OverForGood
    PROVE  Concludes(ApplyResult(o, r).status, b)
<1> DEFINE s == CASE r = Success -> [o.status EXCEPT !.state = "Ready", !.url = TRUE]
                  [] r = Failed -> [o.status EXCEPT !.state = "Error", !.url = FALSE]
                  [] OTHER -> [o.status EXCEPT !.state = "Processing", !.url = FALSE]
           c == CASE r = Success -> "True" [] r = Failed -> "False" [] OTHER -> "Unknown"
           cond == [status |-> c, observed |-> o.generation]
           t == SetCondition(s, "Installation", c, o.generation)
<1>1. ApplyResult(o, r).status = t
  BY DEF ApplyResult, Objects
<1>2. o.status \in Statuses
  BY DEF Objects
<1>3. /\ s.observed = o.status.observed /\ s.config = o.status.config /\ s.conditions = o.status.conditions
      /\ r = Success => s.state = "Ready" /\ s.url = TRUE
      /\ r = Failed => s.state = "Error"
      /\ s \in Statuses
  <2>1. CASE r = Success
    <3>1. s = [o.status EXCEPT !.state = "Ready", !.url = TRUE] /\ r # Failed
      BY <2>1 DEF Success, Failed
    <3> HIDE DEF s
    <3> QED
      BY <1>2, <3>1 DEF Statuses, States
  <2>2. CASE r = Failed
    <3>1. s = [o.status EXCEPT !.state = "Error", !.url = FALSE] /\ r # Success
      BY <2>2 DEF Success, Failed
    <3> HIDE DEF s
    <3> QED
      BY <1>2, <2>2, <3>1 DEF Statuses, States
  <2> QED
    BY <2>1, <2>2
<1>4. r = Success => c = "True"
  BY DEF Success, Failed
<1> HIDE DEF s, c
<1>5. t = [s EXCEPT !.conditions = [s.conditions EXCEPT !["Installation"] = cond]]
  BY <1>3 DEF SetCondition, Statuses
<1>6. /\ t.observed = s.observed /\ t.config = s.config /\ t.state = s.state /\ t.url = s.url
      /\ t.conditions = [s.conditions EXCEPT !["Installation"] = cond]
  BY <1>3, <1>5 DEF Statuses
<1>7. /\ t.conditions["Configuration"] = s.conditions["Configuration"]
      /\ t.conditions["Installation"].status = c
  BY <1>3, <1>6 DEF Statuses, ConditionTypes
<1> HIDE DEF t
<1>8. Records(t, b)
  BY <1>3, <1>6, <1>7 DEF Records
<1>9. Success # Failed
  BY DEF Success, Failed
<1>10. CASE r = Success
  BY <1>3, <1>4, <1>6, <1>7, <1>8, <1>10, <1>1 DEF Concludes
<1>11. CASE r = Failed
  BY <1>3, <1>6, <1>8, <1>11, <1>1 DEF Concludes
<1> QED
  BY <1>10, <1>11

\* The object with which an install pass starts.
Compiled(o) == [Touched(o) EXCEPT !.status.config = Compile(o.spec)]
Started(o) == [Compiled(o) EXCEPT
                  !.status = SetCondition(Compiled(o).status, "Configuration", "True", Compiled(o).generation)]

\* What an install pass records before it starts.
LEMMA InstallRecords ==
    ASSUME NEW o \in Objects
    PROVE  Started(o).generation = o.generation /\ Records(Started(o).status, o)
<1> DEFINE p == Compiled(o)
           q == Started(o)
<1> DEFINE cond == [status |-> "True", observed |-> o.generation]
<1>1. /\ p.generation = o.generation /\ p.status.observed = o.generation
      /\ p.status.config = Compile(o.spec) /\ p.status.conditions = o.status.conditions
      /\ p.status \in [state : States, observed : Nat, config : {Compile(o.spec)},
                       conditions : [ConditionTypes -> Conditions], url : BOOLEAN]
      /\ p \in [exists : BOOLEAN, generation : Nat, spec : Configs, deleting : BOOLEAN,
                finalizer : BOOLEAN, status : {p.status}]
  BY DEF Compiled, Touched, Objects, Statuses, States
<1> HIDE DEF p
<1>2. SetCondition(p.status, "Configuration", "True", p.generation)
        = [p.status EXCEPT !.conditions = [p.status.conditions EXCEPT !["Configuration"] = cond]]
  BY <1>1 DEF SetCondition
<1> DEFINE t == SetCondition(p.status, "Configuration", "True", p.generation)
<1>3. /\ t.observed = o.generation /\ t.config = Compile(o.spec)
      /\ t.conditions = [o.status.conditions EXCEPT !["Configuration"] = cond]
  BY <1>1, <1>2
<1>4. t.conditions["Configuration"].status = "True"
  BY <1>3 DEF Objects, Statuses, ConditionTypes
<1> HIDE DEF t
<1>5. q.generation = o.generation /\ q.status = t
  <2>1. q = [p EXCEPT !.status = t]
    BY DEF p, t, Started
  <2> HIDE DEF q
  <2> QED
    BY <1>1, <2>1
<1> QED
  BY <1>3, <1>4, <1>5 DEF Records

\* InstalledAs, after the step: m itself may be a state function, which is not
\* primed.
InstalledThen(m, config) ==
    IF m = Contour /\ ~ContourEnabled(config)
    THEN UnseenThen(m)
    ELSE phase'[m] = "installed" /\ (m \in HelmModules => applied'[m] = config)

\* Unprimed and primed, as only a fault hides a release.
LEMMA InstalledNow ==
    ASSUME HiddenOnlyByFault', NEW m, NEW config, InstalledThen(m, config)
    PROVE  InstalledAs(m, config)'
BY DEF InstalledThen, InstalledAs, UnseenThen, Gone, Hidden, HiddenOnlyByFault, ReleaseStuck

\* Install touches its own installable only, puts no Yaml objects on their way
\* out, and reports Success about what is as the config wants it; only a Yaml
\* installable on its way out is mistaken for installed.
LEMMA InstallKeeps ==
    ASSUME TypeOK, NEW m \in YamlModules \cup HelmModules, NEW config \in Configs,
           NEW r \in {Success, InProgress, Failed}, Install(m, config, r)
    PROVE  /\ \A n \in YamlModules : phase'[n] = "removing" => phase[n] = "removing"
           /\ \A n \in YamlModules \cup HelmModules : \A c : n # m /\ InstalledAs(n, c) => InstalledThen(n, c)
           /\ r = Success => InstalledThen(m, config) \/ (m \in YamlModules /\ phase[m] = "removing")
<1> USE DEF TypeOK, SetPhase, SetRelease, Success, InProgress, Failed, NoFault, Modules
<1>1. ASSUME \A n \in Modules \ {m} : phase'[n] = phase[n],
             \A n \in HelmModules \ {m} : applied'[n] = applied[n]
      PROVE  \A n \in YamlModules \cup HelmModules : \A c : n # m /\ InstalledAs(n, c) => InstalledThen(n, c)
  BY <1>1 DEF InstalledAs, InstalledThen, Gone, Hidden, UnseenThen
<1>2. CASE m \in YamlModules /\ YamlInstalled(m, r)
  BY <1>1, <1>2, ModulesAssumption DEF YamlInstalled, InstalledThen
<1>3. ASSUME m \in HelmModules, \A n \in Modules \ {m} : phase'[n] = phase[n]
      PROVE  \A n \in YamlModules : phase'[n] = "removing" => phase[n] = "removing"
  BY <1>3, ModulesAssumption
<1>4. CASE m \in HelmModules /\ (m = Contour => ContourEnabled(config)) /\ HelmInstalled(m, config, r)
  BY <1>1, <1>3, <1>4 DEF HelmInstalled, InstalledThen
<1>5. CASE m \in HelmModules /\ HelmRefused(m, r)
  BY <1>1, <1>3, <1>5 DEF HelmRefused, cluster
<1>6. CASE m \in HelmModules /\ HelmInstallFails(m, r)
  <2>1. r # Success
    BY <1>6 DEF HelmInstallFails
  <2>2. CASE UNCHANGED cluster
    BY <1>1, <1>3, <1>6, <2>1, <2>2 DEF cluster
  <2>3. CASE UNCHANGED applied /\ SetPhase(m, "partial")
    BY <1>1, <1>3, <1>6, <2>1, <2>3
  <2> QED
    BY <1>6, <2>2, <2>3 DEF HelmInstallFails
<1>7. CASE m = Contour /\ ~ContourEnabled(config) /\ Uninstall(m, config, r)
  <2>1. /\ \A n \in Modules \ {m} : phase'[n] = phase[n]
        /\ applied' = applied /\ (r = Success /\ m # Orgs => UnseenThen(m))
    BY <1>7, ModulesFacts, UninstallEffect
  <2>2. m \in HelmModules /\ m # Orgs
    BY <1>7, ModulesAssumption
  <2> QED
    BY <1>1, <1>3, <1>7, <2>1, <2>2 DEF InstalledThen
<1> QED
  BY <1>2, <1>4, <1>5, <1>6, <1>7 DEF Install

\* Users edit the CR.
LEMMA SettlingUsers ==
    ASSUME Settling, ~OverForGood,
           UNCHANGED <<cache, queued, timer, pc, base, obj, idx, worst, retry, phase, applied, faults>>,
           cr'.finalizer = cr.finalizer, cr.finalizer => cr'.status = cr.status,
           cr.deleting => cr'.deleting,
           cr'.exists => creates' >= 1
    PROVE  Settling'
<1> USE DEF Settling
<1>1. NothingInherited'
  BY DEF NothingInherited, AllUnseen, Gone, Hidden
<1>2. \A st, o : Records(st, o) => Records(st, o)'
  BY DEF Records
<1>3. \A m, config : InstalledAs(m, config) <=> InstalledAs(m, config)'
  BY DEF InstalledAs, Gone, Hidden
<1>4. PassConcludes'
  BY <1>2, <1>3 DEF PassConcludes, Concludes
<1>5. Differs => Differs'
  BY DEF Differs
<1> QED
  BY <1>1, <1>3, <1>4, <1>5 DEF Concludes, Records

\* Orgs are created, things on their way out disappear and a hidden release may
\* be removed by hand: what a CR has installed stays, and what is gone stays gone.
LEMMA SettlingCluster ==
    ASSUME Settling,
           UNCHANGED <<cr, cache, queued, timer, pc, base, obj, idx, worst, retry, applied, creates, faults>>,
           AllUnseen => AllUnseen',
           \A m \in YamlModules : phase'[m] = "removing" => phase[m] = "removing",
           \A m \in YamlModules \cup HelmModules :
              /\ phase[m] \in {"installed", "absent"} => phase'[m] = phase[m]
              /\ phase[m] \in HiddenPhases => phase'[m] \in {phase[m], "absent"}
    PROVE  Settling'
<1> USE DEF Settling
<1>1. OverForGood => OverForGood'
  BY DEF OverForGood
<1>2. NothingInherited'
  BY <1>1 DEF NothingInherited
<1>3. \A k \in 1 .. Len(InstallOrder) : InstallOrder[k] \in YamlModules \cup HelmModules
  BY OrdersAssumption
<1>4. \A m \in YamlModules \cup HelmModules : \A config : InstalledAs(m, config) => InstalledAs(m, config)'
  BY DEF InstalledAs, Gone, Hidden
<1>5. PassConcludes'
  BY <1>1, <1>3, <1>4 DEF PassConcludes, Concludes, Records
<1> QED
  BY <1>1, <1>2, <1>3, <1>4, <1>5 DEF Concludes, Records, Differs

\* A worker is done, or gives up: what it leaves to show is left to the caller.
LEMMA SettlingFinish ==
    ASSUME TypeOK, Settling, pc' = "idle", base' = Absent,
           UNCHANGED <<cache, queued, phase, applied, creates>>, UNCHANGED faults \/ Fault,
           cr'.exists = cr.exists, cr'.deleting = cr.deleting,
           ~queued /\ ~timer' /\ cache.exists =>
              Differs' \/ (cache.finalizer /\ ~cache.deleting /\ Concludes(cache.status, cache)')
    PROVE  Settling'
<1> USE DEF Settling
<1>1. NothingInherited'
  BY AbsentFacts, FaultsAside DEF NothingInherited, OverForGood
<1>2. PassConcludes'
  BY DEF PassConcludes
<1> QED
  BY <1>1, <1>2

\* The finalizer is stored, and goes only when nothing is left or no other CR
\* will come.
LEMMA SettlingRelease ==
    ASSUME IndInv, FinalizerKept, Settling, MaxCreates <= 1 \/ SkippedOnlyIfNotStarted,
           pc = "patchMain", cr.exists, cr' = MergeFinalizer(cr, base, obj),
           UNCHANGED <<cache, queued, phase, applied, creates>>, UNCHANGED faults \/ Fault,
           \/ pc' = "patchStatus" /\ UNCHANGED <<base, obj, idx, worst, retry, timer>>
           \/ pc' = "idle" /\ base' = Absent /\ timer'
    PROVE  Settling'
<1>1. cr \in Objects /\ base \in Objects /\ obj \in Objects
  BY DEF IndInv, TypeOK
<1>2. /\ cr.deleting /\ ~Merged(cr, base, obj) => cr' = Absent
      /\ ~(cr.deleting /\ ~Merged(cr, base, obj)) =>
            /\ cr'.exists = cr.exists /\ cr'.deleting = cr.deleting
            /\ cr'.finalizer = Merged(cr, base, obj)
  BY <1>1, MergeFinalizerEffect, Zenon
<1> USE DEF Settling
<1>3. /\ ~obj.finalizer => ~Merged(cr, base, obj)
      /\ obj.finalizer /\ ~base.finalizer => Merged(cr, base, obj)
      /\ obj.finalizer /\ cr.finalizer => Merged(cr, base, obj)
  BY <1>1 DEF FinalizerKept, HeldWhileDeleting, Merged, Objects
<1>4. cr.deleting /\ ~cr'.deleting => AllUnseen \/ OverForGood'
  <2> SUFFICES ASSUME cr.deleting, ~cr'.deleting PROVE AllUnseen \/ OverForGood'
    OBVIOUS
  <2>1. ~Merged(cr, base, obj) /\ ~cr'.exists
    BY <1>2, AbsentFacts
  <2>2. ~obj.finalizer
    BY <1>3, <2>1 DEF FinalizerKept, HeldWhileDeleting
  <2>3. CASE SkippedOnlyIfNotStarted
    BY <2>2, <2>3 DEF SkippedOnlyIfNotStarted, AllGone, AllUnseen, IndInv, ReleaseEarned
  <2>4. CASE MaxCreates <= 1
    <3>1. creates' >= MaxCreates
      BY <2>4, BoundsAssumption DEF IndInv, TypeOK
    <3> QED
      BY <2>1, <3>1 DEF OverForGood
  <2> QED
    BY <2>3, <2>4
<1>5. ~OverForGood
  BY DEF OverForGood
<1>6. AllUnseen => AllUnseen' /\ \A m \in YamlModules : phase[m] # "removing"
  <2>1. AllUnseen => AllUnseen'
    BY FaultsAside DEF IndInv
  <2> QED
    BY <2>1, ModulesAssumption DEF AllUnseen, Gone, Hidden, Modules
<1>7. NothingInherited'
  <2>1. (cache.deleting \/ base.deleting) /\ ~cr.deleting => AllUnseen
    BY <1>5 DEF NothingInherited
  <2>2. ((cache.deleting \/ base.deleting) /\ ~cr.deleting => AllUnseen \/ OverForGood)'
    BY <1>4, <1>6, <2>1, AbsentFacts
  <2>3. (\E m \in YamlModules : phase[m] = "removing") => cr.deleting /\ cache.deleting /\ base.deleting
    BY <1>5 DEF NothingInherited
  <2>4. ((\E m \in YamlModules : phase[m] = "removing")
          => OverForGood \/ (cr.deleting /\ cache.deleting /\ (pc # "idle" => base.deleting)))'
    BY <1>4, <1>6, <2>3
  <2> QED
    BY <2>2, <2>4 DEF NothingInherited
<1>8. PassConcludes'
  <2>1. \A m, config : InstalledAs(m, config) => InstalledAs(m, config)'
    BY FaultsAside DEF IndInv
  <2> QED
    BY <1>5, <2>1 DEF PassConcludes, Concludes, Records
<1>9. cr'.exists => creates' >= 1
  OBVIOUS
<1>10. (pc = "patchStatus" => IF obj.finalizer THEN base.finalizer \/ cr.finalizer ELSE ~cr.finalizer)'
  BY <1>1, <1>2, <1>3, AbsentFacts DEF Objects
<1> QED
  BY <1>7, <1>8, <1>9, <1>10

\* An install pass goes on.
LEMMA SettlingInstall ==
    ASSUME IndInv, HiddenOnlyByFault', FinalizerKept, Settling, InstallStep \/ InstallErrs \/ InstallDone
    PROVE  Settling'
<1> USE DEF Settling, caches, cluster, orgsApi, budget
<1>1. /\ UNCHANGED <<cr, cache, base, queued, timer, creates>> /\ pc = "install"
      /\ pc' \in {"install", "patchMain"}
  BY DEF InstallStep, InstallErrs, InstallDone
<1>2. ~base.deleting /\ Records(obj.status, base) /\ obj.generation = base.generation
  BY <1>1 DEF PassConcludes
<1>3. OverForGood => OverForGood'
  BY <1>1 DEF OverForGood
<1>4. ~(cache.deleting /\ ~cr.deleting)
  BY <1>1, <1>2 DEF FinalizerKept
<1>5. (\E m \in YamlModules : phase[m] = "removing") => OverForGood
  BY <1>1, <1>2 DEF NothingInherited
<1>6. ASSUME \A m \in YamlModules : phase'[m] = "removing" => phase[m] = "removing" PROVE NothingInherited'
  BY <1>1, <1>2, <1>3, <1>4, <1>5, <1>6 DEF NothingInherited
<1>7. CASE InstallStep
  <2>1. PICK r \in {Success, InProgress, Failed} :
          /\ Install(InstallOrder[idx], obj.status.config, r)
          /\ worst' = IF r > worst THEN r ELSE worst
    BY <1>7 DEF InstallStep
  <2> DEFINE m == InstallOrder[idx]
             config == obj.status.config
  <2>2. m \in YamlModules \cup HelmModules
    BY <1>7, OrdersAssumption DEF InstallStep, IndInv, TypeOK
  <2>3. config \in Configs
    BY DEF IndInv, TypeOK, Objects, Statuses
  <2>4. TypeOK
    BY DEF IndInv
  <2>5. /\ \A n \in YamlModules : phase'[n] = "removing" => phase[n] = "removing"
        /\ \A n \in YamlModules \cup HelmModules : \A c : n # m /\ InstalledAs(n, c) => InstalledThen(n, c)
        /\ r = Success => InstalledThen(m, config) \/ (m \in YamlModules /\ phase[m] = "removing")
    <3> HIDE DEF m, config
    <3> QED
      BY <2>1, <2>2, <2>3, <2>4, InstallKeeps DEF m, config
  <2>6. NothingInherited'
    BY <1>6, <2>5
  <2>7. pc' = "install" /\ idx' = idx + 1 /\ UNCHANGED <<obj, retry>>
    BY <1>7 DEF InstallStep
  <2>8. worst' = Success => worst = Success /\ r = Success
    BY <2>1, <2>4 DEF TypeOK, Success, InProgress, Failed
  <2>9. worst' = Success =>
          \/ \A k \in 1 .. Len(InstallOrder) : k < idx + 1 => InstalledThen(InstallOrder[k], config)
          \/ OverForGood
    <3> SUFFICES ASSUME worst' = Success, ~OverForGood, NEW k \in 1 .. Len(InstallOrder), k < idx + 1
                 PROVE  InstalledThen(InstallOrder[k], config)
      OBVIOUS
    <3>1. InstallOrder[k] \in YamlModules \cup HelmModules
      BY OrdersAssumption
    <3>2. InstalledThen(m, config)
      BY <1>5, <2>5, <2>8
    <3>3. CASE InstallOrder[k] = m
      BY <3>2, <3>3
    <3>4. CASE InstallOrder[k] # m
      <4>1. k < idx
        BY <3>4, <2>4 DEF TypeOK
      <4>2. InstalledAs(InstallOrder[k], config)
        BY <1>1, <2>8, <4>1 DEF PassConcludes
      <4> HIDE DEF m, config
      <4> QED
        BY <2>5, <3>1, <3>4, <4>2
    <3> QED
      BY <3>3, <3>4
  <2>10. PassConcludes'
    <3>1. PICK c : c = config
      OBVIOUS
    <3>2. worst' = Success =>
            \/ \A k \in 1 .. Len(InstallOrder) : k < idx + 1 => InstalledAs(InstallOrder[k], c)'
            \/ OverForGood
      BY <2>9, <3>1, InstalledNow
    <3> QED
      BY <1>1, <1>2, <1>3, <2>7, <3>1, <3>2 DEF PassConcludes, Records, InstalledAs, Gone, Hidden
  <2> QED
    BY <1>1, <2>6, <2>7, <2>10
<1>8. CASE InstallErrs
  <2>1. \A m \in YamlModules : phase'[m] = "removing" => phase[m] = "removing"
    BY <1>8 DEF InstallErrs, SetPhase, IndInv, TypeOK, Modules
  <2>2. pc' = "patchMain" /\ retry'
    BY <1>8 DEF InstallErrs
  <2>3. PassConcludes'
    BY <2>2 DEF PassConcludes
  <2> QED
    BY <1>1, <1>6, <2>1, <2>2, <2>3
<1>9. CASE InstallDone
  <2>1. UNCHANGED <<phase, applied, faults>> /\ pc' = "patchMain" /\ idx > Len(InstallOrder)
        /\ obj' = ApplyResult(obj, worst) /\ retry' = (worst = InProgress)
    BY <1>9 DEF InstallDone
  <2>2. NothingInherited'
    BY <1>6, <2>1
  <2>3. ~retry' => Concludes(ApplyResult(obj, worst).status, base)
    <3> SUFFICES ASSUME ~retry' PROVE Concludes(ApplyResult(obj, worst).status, base)
      OBVIOUS
    <3>1. obj \in Objects /\ worst \in {Success, Failed}
      BY <2>1 DEF IndInv, TypeOK
    <3>2. worst = Success => \/ \A k \in 1 .. Len(InstallOrder) : InstalledAs(InstallOrder[k], obj.status.config)
                             \/ OverForGood
      <4>1. \A k \in 1 .. Len(InstallOrder) : k < idx
        BY <2>1, OrdersAssumption DEF IndInv, TypeOK
      <4> QED
        BY <1>1, <4>1 DEF PassConcludes
    <3> QED
      BY <1>2, <3>1, <3>2, ApplyResultConcludes
  <2>4. PassConcludes'
    <3>1. ~retry' => Concludes(obj.status, base)'
      BY <1>1, <1>3, <2>1, <2>3 DEF Concludes, Records, InstalledAs, Gone, Hidden
    <3> QED
      BY <1>1, <1>2, <2>1, <3>1 DEF PassConcludes
  <2> QED
    BY <1>1, <2>1, <2>2, <2>4
<1> QED
  BY <1>7, <1>8, <1>9

\* An uninstall pass goes on.
LEMMA SettlingUninstall ==
    ASSUME IndInv, HiddenOnlyByFault', FinalizerKept, Settling,
           UninstallStep \/ UninstallErrs \/ OrgsUninstallErrs \/ UninstallDone
    PROVE  Settling'
<1> USE DEF Settling, caches, cluster, orgsApi, budget
<1>1. /\ UNCHANGED <<cr, cache, base, queued, timer, creates>> /\ pc = "uninstall"
      /\ pc' \in {"uninstall", "patchMain"}
      /\ pc' = "patchMain" => retry' \/ ~obj'.finalizer
  <2>1. CASE UninstallStep
    BY <2>1 DEF UninstallStep
  <2>2. CASE UninstallErrs
    BY <2>2 DEF UninstallErrs
  <2>3. CASE UninstallDone
    BY <2>3 DEF UninstallDone, IndInv, TypeOK, Objects
  <2>4. CASE OrgsUninstallErrs
    BY <2>4 DEF OrgsUninstallErrs
  <2> QED
    BY <2>1, <2>2, <2>3, <2>4
<1>2. base.deleting
  BY <1>1 DEF FinalizerKept
<1>3. \A m \in Modules : Unseen(m) => UnseenThen(m)
  <2>1. CASE UninstallStep
    <3>1. PICK r \in {Success, InProgress, Failed} : Uninstall(UninstallOrder[idx], obj.status.config, r)
      BY <2>1 DEF UninstallStep
    <3> DEFINE m == UninstallOrder[idx]
    <3>2. idx \in 1 .. Len(UninstallOrder)
      BY <2>1 DEF UninstallStep, IndInv, TypeOK
    <3>3. m \in Modules /\ TypeOK
      BY <3>2, OrdersAssumption DEF IndInv
    <3>5. obj.status.config \in Configs
      BY DEF IndInv, TypeOK, Objects, Statuses
    <3>4. /\ \A n \in Modules \ {m} : phase'[n] = phase[n]
          /\ Unseen(m) => UnseenThen(m)
      BY <3>1, <3>3, <3>5, UninstallEffect
    <3> HIDE DEF m
    <3> QED
      BY <3>4 DEF Unseen, UnseenThen, Gone, Hidden
  <2>2. CASE UninstallErrs
    BY <2>2 DEF UninstallErrs, SetPhase, IndInv, TypeOK, Unseen, UnseenThen, Gone, Hidden
  <2>3. CASE UninstallDone \/ OrgsUninstallErrs
    BY <2>3 DEF UninstallDone, OrgsUninstallErrs, Unseen, UnseenThen, Gone, Hidden
  <2> QED
    BY <2>1, <2>2, <2>3
<1>4. AllUnseen => AllUnseen' /\ ~(\E m \in YamlModules : phase'[m] = "removing")
  <2>1. AllUnseen => AllUnseen'
    BY <1>3, UnseenStep
  <2> QED
    BY <2>1, ModulesAssumption DEF AllUnseen, Gone, Hidden, Modules
<1>5. OverForGood => OverForGood'
  BY <1>1 DEF OverForGood
<1>6. cr.deleting => cache.deleting
  BY <1>2 DEF FinalizerKept
<1>7. cr.deleting \/ AllUnseen \/ OverForGood
  BY <1>2 DEF NothingInherited
<1>8. NothingInherited'
  BY <1>1, <1>2, <1>4, <1>5, <1>6, <1>7 DEF NothingInherited
<1>9. PassConcludes'
  BY <1>1, <1>2 DEF PassConcludes
<1> QED
  BY <1>1, <1>8, <1>9

\* A key is taken and a pass begins with what the cache has.
LEMMA SettlingStart ==
    ASSUME IndInv, Settling, FinalizeSkip \/ FinalizeStart \/ CompileFails \/ InstallStart
    PROVE  Settling'
<1> USE DEF Settling, caches, cluster, orgsApi, budget
<1>1. /\ UNCHANGED <<cr, cache, phase, applied, creates, faults>> /\ base' = cache /\ idx' = 1
      /\ pc' \in {"install", "uninstall", "patchMain"}
  BY DEF FinalizeSkip, FinalizeStart, CompileFails, InstallStart, Start
<1>2. NothingInherited'
  BY <1>1 DEF NothingInherited, AllUnseen, Gone, Hidden, OverForGood
<1>3. PassConcludes'
  <2>1. CASE FinalizeSkip
    <3>1. pc' = "patchMain" /\ base'.deleting
      BY <1>1, <2>1 DEF FinalizeSkip, Start
    <3>2. ~obj'.finalizer
      <4>1. obj' = [Touched(cache) EXCEPT !.status.state = "Deleting", !.finalizer = FALSE]
        BY <2>1 DEF FinalizeSkip, Start
      <4>2. Touched(cache) \in Objects
        BY TouchedType DEF IndInv, TypeOK
      <4> QED
        BY <4>1, <4>2 DEF Objects
    <3> QED
      BY <3>1, <3>2 DEF PassConcludes
  <2>2. CASE FinalizeStart
    BY <2>2 DEF FinalizeStart, Start, PassConcludes
  <2>3. CASE CompileFails
    <3>1. pc' = "patchMain" /\ retry'
      BY <2>3 DEF CompileFails, Start
    <3> QED
      BY <3>1 DEF PassConcludes
  <2>4. CASE InstallStart
    <3>1. pc' = "install" /\ obj' = Started(cache) /\ ~cache.deleting
      BY <2>4 DEF InstallStart, Start, Started, Compiled
    <3>2. cache \in Objects
      BY DEF IndInv, TypeOK
    <3>3. Started(cache).generation = cache.generation /\ Records(Started(cache).status, cache)
      BY <3>2, InstallRecords
    <3>4. \A k \in 1 .. Len(InstallOrder) : ~(k < idx')
      BY <1>1, OrdersAssumption
    <3> QED
      BY <1>1, <3>1, <3>3, <3>4 DEF PassConcludes, Records
  <2> QED
    BY <2>1, <2>2, <2>3, <2>4
<1> QED
  BY <1>1, <1>2, <1>3

\* The status is stored, and the worker is done.
LEMMA SettlingStatus ==
    ASSUME IndInv, FinalizerKept, Settling, PatchStatus
    PROVE  Settling'
<1> USE DEF Settling, caches, cluster, orgsApi, budget
<1>1. /\ pc = "patchStatus" /\ cr.exists /\ pc' = "idle" /\ base' = Absent
      /\ timer' = (timer \/ retry)
      /\ UNCHANGED <<cache, queued, phase, applied, creates, faults>>
  BY DEF PatchStatus, Finish
<1>2. cr \in Objects /\ base \in Objects /\ obj \in Objects
  BY DEF IndInv, TypeOK
<1>3. /\ cr'.exists = cr.exists /\ cr'.deleting = cr.deleting /\ cr'.finalizer = cr.finalizer
      /\ cr'.status = MergeStatus(cr.status, base.status, obj.status)
  BY <1>2 DEF PatchStatus, Objects
<1>4. ASSUME ~queued, ~timer'
      PROVE  Differs' \/ (cache.finalizer /\ ~cache.deleting /\ Concludes(cache.status, cache)')
  <2>1. cache = base /\ ~retry
    BY <1>1, <1>4
  <2>2. CASE base.deleting
    <3>1. ~obj.finalizer
      BY <1>1, <2>1, <2>2 DEF PassConcludes
    <3>2. ~cr.finalizer /\ cache.finalizer
      BY <1>1, <2>1, <2>2, <3>1 DEF FinalizerKept, HeldWhileDeleting
    <3> QED
      BY <1>1, <1>3, <3>2 DEF Differs
  <2>3. CASE ~base.deleting
    <3>1. obj.finalizer /\ (base.finalizer \/ cr.finalizer)
      BY <1>1, <2>3 DEF FinalizerKept
    <3>2. Concludes(obj.status, base)
      BY <1>1, <2>1, <2>3 DEF PassConcludes
    <3> SUFFICES ASSUME ~Differs' PROVE cache.finalizer /\ ~cache.deleting /\ Concludes(cache.status, cache)'
      OBVIOUS
    <3>3. cr.finalizer /\ cache.finalizer /\ cr'.status = cache.status
      BY <1>1, <1>3, <2>1, <3>1 DEF Differs
    <3>4. obj.status = base.status
      <4>1. cr.status \in Statuses /\ base.status \in Statuses /\ obj.status \in Statuses
        BY <1>2 DEF Objects
      <4> QED
        BY <1>3, <2>1, <3>3, <4>1, MergeStatusSame
    <3>5. Concludes(cache.status, cache)
      BY <2>1, <3>2, <3>4
    <3>6. Concludes(cache.status, cache)'
      BY <1>1, <1>3, <3>5 DEF Concludes, Records, InstalledAs, Gone, Hidden, OverForGood
    <3> QED
      BY <2>1, <2>3, <3>3, <3>6
  <2> QED
    BY <2>2, <2>3
<1>5. TypeOK
  BY DEF IndInv
<1> QED
  BY <1>1, <1>3, <1>4, <1>5, SettlingFinish

\* Every step keeps Settling.
LEMMA SettlingStep ==
    ASSUME IndInv, FinalizerKept, Settling, [Next]_vars, MaxCreates <= 1 \/ SkippedOnlyIfNotStarted
    PROVE  Settling'
<1> USE DEF caches, worker, cluster, orgsApi, budget
<1>0. cr \in Objects /\ TypeOK
  BY DEF IndInv, TypeOK
<1>15. HiddenOnlyByFault'
  BY NextIndInv DEF IndInv
<1>1. ASSUME NEW spec \in Specs, CreateCR(spec) PROVE Settling'
  <2>1. ~cr.exists /\ ~cr.deleting /\ ~cr.finalizer
    BY <1>1 DEF CreateCR, IndInv, FinalizerKept, HeldWhileDeleting
  <2>2. ~OverForGood /\ creates' >= 1
    BY <1>1, BoundsAssumption DEF CreateCR, OverForGood, IndInv, TypeOK
  <2>3. cr'.finalizer = FALSE
    BY <1>1 DEF CreateCR, Absent
  <2>4. cr'.finalizer = cr.finalizer
    BY <1>0, <2>1, <2>3 DEF Objects
  <2> QED
    BY <1>1, <2>1, <2>2, <2>4, SettlingUsers DEF CreateCR
<1>2. ASSUME NEW spec \in Specs, EditSpec(spec) PROVE Settling'
  <2>1. /\ cr'.deleting = cr.deleting /\ cr'.finalizer = cr.finalizer /\ cr'.exists = cr.exists
        /\ cr'.status = cr.status
    BY <1>0, <1>2 DEF EditSpec, Objects
  <2>2. ~OverForGood /\ creates' >= 1
    BY <1>2 DEF EditSpec, OverForGood, Settling
  <2> QED
    BY <1>2, <2>1, <2>2, SettlingUsers DEF EditSpec
<1>3. CASE DeleteCR
  <2>1. cr'.finalizer = cr.finalizer /\ (cr.finalizer => cr'.status = cr.status) /\ ~cr.deleting
    <3>1. CASE cr.finalizer
      BY <1>0, <1>3, <3>1 DEF DeleteCR, Objects
    <3>2. CASE ~cr.finalizer
      <4>1. cr'.finalizer = FALSE
        BY <1>3, <3>2 DEF DeleteCR, Absent
      <4> QED
        BY <1>0, <1>3, <3>2, <4>1 DEF DeleteCR, Objects
    <3> QED
      BY <3>1, <3>2
  <2>2. ~OverForGood /\ creates' >= 1
    BY <1>3 DEF DeleteCR, OverForGood, Settling
  <2> QED
    BY <1>3, <2>1, <2>2, SettlingUsers DEF DeleteCR
<1>4. CASE CreateOrg
  <2>1. phase' = [phase EXCEPT ![Orgs] = "installed"] /\ phase[Korifi] = "installed"
    BY <1>4 DEF CreateOrg
  <2>2. \A m \in YamlModules \cup HelmModules : phase'[m] = phase[m]
    BY <2>1, ModulesAssumption DEF IndInv, TypeOK
  <2>3. ~AllUnseen
    BY <2>1, ModulesFacts, ModulesAssumption DEF AllUnseen, Gone, Hidden, HiddenPhases
  <2> QED
    BY <1>4, <2>2, <2>3, SettlingCluster DEF CreateOrg
<1>5. ASSUME NEW m \in Modules, FinishRemoval(m) PROVE Settling'
  <2>1. phase[m] = "removing" /\ phase' = [phase EXCEPT ![m] = "absent"]
    BY <1>5 DEF FinishRemoval
  <2>2. /\ \A n \in Modules : phase'[n] = IF n = m THEN "absent" ELSE phase[n]
        /\ ~AllUnseen
    BY <2>1 DEF IndInv, TypeOK, AllUnseen, Gone, Hidden, HiddenPhases
  <2>3. \A n \in YamlModules \cup HelmModules :
           /\ phase[n] \in {"installed", "absent"} => phase'[n] = phase[n]
           /\ phase[n] \in HiddenPhases => phase'[n] \in {phase[n], "absent"}
    BY <2>1, <2>2 DEF Modules
  <2>4. \A n \in YamlModules : phase'[n] = "removing" => phase[n] = "removing"
    BY <2>2 DEF Modules
  <2> QED
    BY <1>5, <2>2, <2>3, <2>4, SettlingCluster DEF FinishRemoval
<1>16. ASSUME NEW m \in Modules, Repair(m) PROVE Settling'
  <2>1. m \in HelmModules /\ phase[m] \in HiddenPhases /\ phase' = [phase EXCEPT ![m] = "absent"]
    BY <1>16 DEF Repair, Hidden, SetRelease, SetPhase
  <2>2. \A n \in Modules : phase'[n] = IF n = m THEN "absent" ELSE phase[n]
    BY <2>1 DEF IndInv, TypeOK
  <2>3. AllUnseen => AllUnseen'
    BY <1>16, <2>2 DEF AllUnseen, Gone, Hidden, Repair
  <2>4. \A n \in YamlModules \cup HelmModules :
           /\ phase[n] \in {"installed", "absent"} => phase'[n] = phase[n]
           /\ phase[n] \in HiddenPhases => phase'[n] \in {phase[n], "absent"}
    BY <2>1, <2>2 DEF Modules, HiddenPhases
  <2>5. \A n \in YamlModules : phase'[n] = "removing" => phase[n] = "removing"
    BY <2>2 DEF Modules
  <2> QED
    BY <1>16, <2>3, <2>4, <2>5, SettlingCluster DEF Repair
<1>6. CASE CascadeToOrgs
  <2>1. phase' = [phase EXCEPT ![Orgs] = "removing"] /\ phase[Orgs] = "installed"
    BY <1>6 DEF CascadeToOrgs
  <2>2. \A m \in YamlModules \cup HelmModules : phase'[m] = phase[m]
    BY <2>1, ModulesAssumption DEF IndInv, TypeOK
  <2>3. ~AllUnseen
    BY <2>1, ModulesFacts, ModulesAssumption DEF AllUnseen, Gone, Hidden, HiddenPhases
  <2> QED
    BY <1>6, <2>2, <2>3, SettlingCluster DEF CascadeToOrgs
<1>7. ASSUME UNCHANGED <<cr, cache, pc, base, obj, idx, worst, retry, phase, applied, creates>>,
             UNCHANGED faults \/ Fault,
             \/ UNCHANGED <<queued, timer>>
             \/ pc = "idle" /\ (queued' \/ timer' \/ ~cache.exists)
             \/ queued'
      PROVE  Settling'
  <2>0. (AllUnseen => AllUnseen') /\ \A m, config : InstalledAs(m, config) => InstalledAs(m, config)'
    BY <1>0, <1>7, FaultsAside
  <2>1. NothingInherited'
    BY <1>7, <2>0 DEF Settling, NothingInherited, OverForGood
  <2>2. PassConcludes'
    BY <1>7, <2>0 DEF Settling, PassConcludes, Concludes, Records, OverForGood
  <2>3. Concludes(cache.status, cache) => Concludes(cache.status, cache)'
    BY <1>7, <2>0 DEF Concludes, Records, OverForGood
  <2> QED
    BY <1>7, <2>1, <2>2, <2>3 DEF Settling, Differs
<1>8. CASE KymaComesUp \/ KymaGoesDown \/ OrgsListSync \/ TimerFires \/ Resync \/ UNCHANGED vars
  BY <1>7, <1>8 DEF KymaComesUp, KymaGoesDown, OrgsListSync, TimerFires, Resync, vars
<1>9. CASE ReconcileGone \/ ReconcileGetFails
  BY <1>7, <1>9 DEF ReconcileGone, ReconcileGetFails, TakeKey
<1>10. CASE CacheSync
  <2>1. /\ UNCHANGED <<cr, pc, base, obj, idx, worst, retry, phase, applied, creates, faults>>
        /\ cache' = cr /\ queued'
    BY <1>10 DEF CacheSync
  <2>2. NothingInherited'
    BY <2>1 DEF Settling, NothingInherited, AllUnseen, Gone, Hidden, OverForGood
  <2>3. PassConcludes'
    BY <2>1 DEF Settling, PassConcludes, Concludes, Records, InstalledAs, Gone, Hidden, OverForGood
  <2> QED
    BY <2>1, <2>2, <2>3 DEF Settling
<1>11. CASE Restart
  <2>1. /\ UNCHANGED <<cr, applied, creates>> /\ pc' = "idle" /\ base' = Absent
        /\ cache' = cr /\ queued' = cr.exists
    BY <1>11 DEF Restart
  <2>4. \A n \in Modules \ HelmModules : phase'[n] = phase[n]
    BY <1>0, <1>11 DEF Restart, SetRelease, SetPhase, TypeOK
  <2>2. NothingInherited'
    BY <2>1, <2>4, AbsentFacts, ModulesAssumption DEF Settling, NothingInherited, OverForGood, Modules
  <2>3. PassConcludes'
    BY <2>1 DEF PassConcludes
  <2> QED
    BY <2>1, <2>2, <2>3 DEF Settling
<1>12. CASE PatchMain
  BY <1>12, SettlingRelease DEF PatchMain
<1>13. CASE PatchNotFound
  BY <1>0, <1>13, SettlingFinish DEF PatchNotFound, Finish
<1>14. CASE PatchFails
  <2>1. /\ UNCHANGED <<cache, queued, phase, applied, creates>> /\ pc' = "idle" /\ base' = Absent
        /\ cr.exists /\ timer' /\ Fault
    BY <1>14 DEF PatchFails, Finish
  <2>2. CASE pc = "patchMain" /\ cr' = MergeFinalizer(cr, base, obj)
    BY <2>1, <2>2, SettlingRelease
  <2>3. CASE cr' = cr \/ cr' = [cr EXCEPT !.status = MergeStatus(cr.status, base.status, obj.status)]
    <3>1. cr'.exists = cr.exists /\ cr'.deleting = cr.deleting
      BY <1>0, <2>3 DEF Objects
    <3> QED
      BY <1>0, <2>1, <3>1, SettlingFinish
  <2> QED
    BY <1>14, <2>2, <2>3 DEF PatchFails
<1> QED
  BY <1>1, <1>2, <1>3, <1>4, <1>5, <1>6, <1>8, <1>9, <1>10, <1>11, <1>12, <1>13, <1>14, <1>15, <1>16, SettlingStart,
     SettlingInstall, SettlingUninstall, SettlingStatus DEF Next, Reconcile, Environment

\* It holds initially.
LEMMA SettlingInit == Init => Settling
<1> SUFFICES ASSUME Init PROVE Settling
  OBVIOUS
<1>1. NothingInherited /\ PassConcludes
  BY AbsentFacts DEF Init, NothingInherited, PassConcludes, Modules
<1> QED
  BY <1>1, AbsentFacts DEF Init, Settling

\* A settled operator has finished.
LEMMA SettlingConcludes == Settling => SettledIsFinished
<1> SUFFICES ASSUME Settling, Settled, cr.exists
             PROVE  /\ ~cr.deleting /\ cr.finalizer
                    /\ cr.status.observed = cr.generation
                    /\ cr.status.config = Compile(cr.spec)
                    /\ cr.status.state \in {"Ready", "Error"}
                    /\ cr.status.conditions["Configuration"].status = "True"
                    /\ ReadyIsTrue
  BY DEF SettledIsFinished
<1>1. cache = cr /\ ~Differs
  BY DEF Settled, Differs
<1>2. cr.finalizer /\ ~cr.deleting /\ Concludes(cr.status, cr)
  BY <1>1 DEF Settling, Settled
<1> QED
  BY <1>2 DEF Concludes, Records, ReadyIsTrue, OverForGood

\* For a CR that is created once, whatever else goes wrong: when nothing is left
\* to do, the status is about the CR's spec and true, where a Contour release
\* hidden by a fault counts as removed.
THEOREM SettledOnce ==
    ASSUME MaxCreates <= 1
    PROVE  Spec => []SettledIsFinished
<1>1. IndInv /\ FinalizerKept /\ Settling /\ [Next]_vars => Settling'
  BY SettlingStep
<1> QED
  BY <1>1, SettlingInit, SettlingConcludes, Invariance, DeletionIsSeen, PTL DEF Spec

\* However often the CR is created: the same, as long as finalize never skips
\* the uninstall of something that has been installed.
THEOREM SettledUnlessSkipped == Spec /\ []SkippedOnlyIfNotStarted => []SettledIsFinished
<1>1. IndInv /\ FinalizerKept /\ Settling /\ SkippedOnlyIfNotStarted /\ [Next]_vars => Settling'
  BY SettlingStep
<1> QED
  BY <1>1, SettlingInit, SettlingConcludes, Invariance, DeletionIsSeen, PTL DEF Spec
=============================================================================

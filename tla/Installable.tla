---------------------------- MODULE Installable ----------------------------
(***************************************************************************)
(* What the reconciler relies on in every installable (the interface of    *)
(* controllers/installable/installable.go): the contract between           *)
(* CFAPIOperator, which uses it, and the Helm and Yaml installables, which *)
(* implement it. "hidden" is the weak spot of the contract: an installable *)
(* that was interrupted may lose sight of what it has in the cluster. From *)
(* then on Uninstall reports Success, and Install never does.              *)
(***************************************************************************)
CONSTANTS
    Configs,   \* what can be installed
    NoConfig   \* nothing: the argument of an Uninstall

VARIABLES
    phase,     \* what of the installable is in the cluster
    applied,   \* the config an installed installable was installed with
    result     \* what the last call returned, and for which config

vars == <<phase, applied, result>>

Init ==
    /\ phase = "absent"
    /\ applied = NoConfig
    /\ result = [state |-> "none", for |-> NoConfig]

\* Install succeeds: everything is there, according to the config.
Install(config) ==
    /\ phase \notin {"removing", "hidden"}
    /\ phase' = "installed"
    /\ applied' = config
    /\ result' = [state |-> "Success", for |-> config]

\* Install does not get there in this call: it can be called again.
InstallAgain(config) ==
    /\ result' \in [state : {"InProgress", "Failed"}, for : {config}]
    /\ \/ UNCHANGED <<phase, applied>>
       \/ phase \in {"absent", "partial"} /\ phase' = "partial" /\ UNCHANGED applied

\* Uninstall succeeds: nothing is left, or nothing the installable can see.
Uninstall ==
    /\ phase \in {"absent", "hidden"}
    /\ result' = [state |-> "Success", for |-> NoConfig]
    /\ UNCHANGED <<phase, applied>>

\* Uninstall is not done in this call; a removal that fails half way may be
\* lost sight of.
UninstallAgain ==
    /\ result' \in [state : {"InProgress", "Failed"}, for : {NoConfig}]
    /\ \/ phase' = phase
       \/ phase # "hidden" /\ phase' \in {"removing", "absent"}
       \/ phase = "removing" /\ phase' = "hidden"
    /\ applied' = IF phase' = phase THEN applied ELSE NoConfig

\* A call at work: an installation is started or changed, or a removal begun.
AtWork ==
    /\ phase # "hidden"
    /\ phase' \in {"partial", "removing"}
    /\ phase = "removing" => phase' = "removing"
    /\ applied' = NoConfig
    /\ UNCHANGED result

\* What is being removed disappears.
Removed ==
    /\ phase = "removing"
    /\ phase' = "absent"
    /\ applied' = NoConfig
    /\ UNCHANGED result

\* The operator restarts and forgets what it was told; of a call it was in the
\* middle of, it may lose sight.
Forget ==
    /\ result' = [state |-> "none", for |-> NoConfig]
    /\ \/ UNCHANGED <<phase, applied>>
       \/ phase \in {"partial", "removing"} /\ phase' = "hidden" /\ applied' = NoConfig

Next ==
    \/ \E config \in Configs : Install(config) \/ InstallAgain(config)
    \/ Uninstall \/ UninstallAgain
    \/ AtWork \/ Removed \/ Forget

Spec == Init /\ [][Next]_vars
=============================================================================

------------------------- MODULE PatchingReconciler -------------------------
(***************************************************************************)
(* The generic reconciler and the patch helpers (tools/k8s/reconcile.go    *)
(* and patch.go), for any object and any ObjectReconciler. Several callers *)
(* read one object from a cache, modify their copy, and send what they     *)
(* changed as merge patches, without a resource version: first of the      *)
(* object, then of its status. The API server ignores the status in a      *)
(* patch of the object, and everything else in one of the status.          *)
(***************************************************************************)
EXTENDS Naturals

CONSTANTS
    Callers,     \* calls of Reconcile, PatchResource or TryPatchResource
    Main,        \* fields of the object, a list being one field
    Status,      \* fields of its status, empty for a kind without status
    Values,      \* what a field may hold
    MaxFaults    \* bound on failing API calls

ASSUME PatchAssumption ==
    /\ Main \cap Status = {}
    /\ MaxFaults \in Nat

VARIABLES
    server,      \* the object in the API server
    cache,       \* the object in the informer cache
    reconciles,  \* the callers that are a Reconcile
    pc,          \* "start", "read", "main", "status", "end" of a call
    base,        \* objCopy, originalObj: what the call has read
    modified,    \* modifiedObj: what modify() made of it
    obj,         \* the object in the caller's hands
    delegateErr, \* what ReconcileResource returned
    outcome,     \* what the call returned
    faults

vars == <<server, cache, reconciles, pc, base, modified, obj, delegateErr, outcome, faults>>

Object == [Main \cup Status -> Values]

-----------------------------------------------------------------------------
(* NotReadyError and what Reconcile makes of it.                           *)

Error(kind, requeue, requeueAfter, noRequeue) ==
    [kind |-> kind, requeue |-> requeue, requeueAfter |-> requeueAfter, noRequeue |-> noRequeue]

NoError == Error("nil", FALSE, FALSE, FALSE)
PlainError == Error("plain", FALSE, FALSE, FALSE)

\* NotReadyError with what WithRequeue, WithRequeueAfter and WithNoRequeue left
\* in it, in any combination.
NotReadyErrors == {Error("notReady", r, a, n) : r, a, n \in BOOLEAN}

\* Mutant of ReconcileResult: every NotReadyError is taken for handled.
ResultHandled(err) ==
    IF err.kind = "notReady"
    THEN IF err.requeue THEN "requeue" ELSE IF err.requeueAfter THEN "requeueAfter" ELSE "done"
    ELSE IF err = NoError THEN "done" ELSE "error"

\* The three ifs in modify(), the last one that applies deciding.
ReconcileResult(err) ==
    IF err.kind = "notReady"
    THEN IF err.requeue THEN "requeue"
         ELSE IF err.requeueAfter THEN "requeueAfter"
         ELSE IF err.noRequeue THEN "done" ELSE "error"
    ELSE IF err = NoError THEN "done" ELSE "error"

-----------------------------------------------------------------------------
(* The patch helpers.                                                      *)

hasStatus == Status # {}

\* Mutant of MergeFrom: the whole object is sent.
WholeObject(old, new, onto, fields) ==
    [f \in DOMAIN onto |-> IF f \in fields THEN new[f] ELSE onto[f]]

\* client.MergeFrom and what the API server does with it: fields that differ
\* from what was read are set, the others are not mentioned.
MergeFrom(old, new, onto, fields) ==
    [f \in DOMAIN onto |-> IF f \in fields /\ new[f] # old[f] THEN new[f] ELSE onto[f]]

Init ==
    /\ server \in Object
    /\ cache = server
    /\ reconciles \in SUBSET Callers
    /\ pc = [c \in Callers |-> "start"]
    /\ base = [c \in Callers |-> server]
    /\ modified = base
    /\ obj = base
    /\ delegateErr = [c \in Callers |-> NoError]
    /\ outcome = [c \in Callers |-> "none"]
    /\ faults = 0

Get(c) ==
    /\ pc[c] = "start"
    /\ pc' = [pc EXCEPT ![c] = "read"]
    /\ base' = [base EXCEPT ![c] = cache]
    /\ modified' = [modified EXCEPT ![c] = cache]
    /\ obj' = [obj EXCEPT ![c] = cache]
    /\ UNCHANGED <<server, cache, reconciles, delegateErr, outcome, faults>>

Return(c, result) ==
    /\ pc' = [pc EXCEPT ![c] = "end"]
    /\ outcome' = [outcome EXCEPT ![c] = result]

\* Mutant of ReconcileResource: modifiedObj is copied before modify() runs.
CopiedTooEarly(c) ==
    /\ pc[c] = "read" /\ c \in reconciles
    /\ \E new \in Object, err \in NotReadyErrors \cup {NoError, PlainError} :
          /\ obj' = [obj EXCEPT ![c] = new]
          /\ delegateErr' = [delegateErr EXCEPT ![c] = err]
    /\ modified' = [modified EXCEPT ![c] = obj[c]]
    /\ pc' = [pc EXCEPT ![c] = "main"]
    /\ UNCHANGED <<server, cache, reconciles, base, outcome, faults>>

\* modify() of a Reconcile: ReconcileResource changes what it likes, and may
\* fail nevertheless.
ReconcileResource(c) ==
    /\ pc[c] = "read" /\ c \in reconciles
    /\ \E new \in Object, err \in NotReadyErrors \cup {NoError, PlainError} :
          /\ obj' = [obj EXCEPT ![c] = new]
          /\ modified' = [modified EXCEPT ![c] = new]
          /\ delegateErr' = [delegateErr EXCEPT ![c] = err]
    /\ pc' = [pc EXCEPT ![c] = "main"]
    /\ UNCHANGED <<server, cache, reconciles, base, outcome, faults>>

\* modify() of PatchResource or TryPatchResource succeeds.
Modify(c) ==
    /\ pc[c] = "read" /\ c \notin reconciles
    /\ \E new \in Object :
          /\ obj' = [obj EXCEPT ![c] = new]
          /\ modified' = [modified EXCEPT ![c] = new]
    /\ pc' = [pc EXCEPT ![c] = "main"]
    /\ UNCHANGED <<server, cache, reconciles, base, delegateErr, outcome, faults>>

\* TryPatchResource: modify() fails; what it did to the copy is not sent.
ModifyFails(c) ==
    /\ pc[c] = "read" /\ c \notin reconciles
    /\ \E new \in Object : obj' = [obj EXCEPT ![c] = new]
    /\ Return(c, "error")
    /\ UNCHANGED <<server, cache, reconciles, base, modified, delegateErr, faults>>

\* What the call returns once everything is patched.
Patched(c) ==
    IF c \in reconciles THEN ReconcileResult(delegateErr[c]) ELSE "done"

\* k8sClient.Patch: the answer replaces the object, its status included.
PatchMain(c) ==
    /\ pc[c] = "main"
    /\ server' = MergeFrom(base[c], obj[c], server, Main)
    /\ obj' = [obj EXCEPT ![c] = server']
    /\ IF c \in reconciles /\ hasStatus
       THEN pc' = [pc EXCEPT ![c] = "status"] /\ UNCHANGED outcome
       ELSE Return(c, Patched(c))
    /\ UNCHANGED <<cache, reconciles, base, modified, delegateErr, faults>>

\* copyInto: the caller's object becomes what the second patch was answered.
copyInto(c, source) == obj' = [obj EXCEPT ![c] = source]

\* Mutant of PatchStatus: the status of the object that was sent is used, which
\* the answer of the first patch has replaced.
PatchStatusOfAnswer(c) ==
    /\ pc[c] = "status"
    /\ server' = MergeFrom(base[c], obj[c], server, Status)
    /\ obj' = [obj EXCEPT ![c] = server']
    /\ Return(c, Patched(c))
    /\ UNCHANGED <<cache, reconciles, base, modified, delegateErr, faults>>

\* Status().Patch of the copy made before the first patch, and copyInto.
PatchStatus(c) ==
    /\ pc[c] = "status"
    /\ server' = MergeFrom(base[c], modified[c], server, Status)
    /\ copyInto(c, server')
    /\ Return(c, Patched(c))
    /\ UNCHANGED <<cache, reconciles, base, modified, delegateErr, faults>>

\* A patch fails, before or after it took effect; the error goes to the caller.
PatchFails(c) ==
    /\ pc[c] \in {"main", "status"}
    /\ faults < MaxFaults
    /\ faults' = faults + 1
    /\ \/ server' = server
       \/ server' = MergeFrom(base[c], modified[c], server, IF pc[c] = "main" THEN Main ELSE Status)
    /\ Return(c, "error")
    /\ UNCHANGED <<cache, reconciles, base, modified, obj, delegateErr>>

CacheSync ==
    /\ cache # server
    /\ cache' = server
    /\ UNCHANGED <<server, reconciles, pc, base, modified, obj, delegateErr, outcome, faults>>

Step(c) ==
    \/ Get(c) \/ ReconcileResource(c) \/ Modify(c) \/ ModifyFails(c)
    \/ PatchMain(c) \/ PatchStatus(c) \/ PatchFails(c)

Next == CacheSync \/ \E c \in Callers : Step(c)

Spec == Init /\ [][Next]_vars

-----------------------------------------------------------------------------
(* Properties.                                                             *)

\* Every variable keeps its shape.
TypeOK ==
    /\ server \in Object /\ cache \in Object
    /\ reconciles \subseteq Callers
    /\ pc \in [Callers -> {"start", "read", "main", "status", "end"}]
    /\ base \in [Callers -> Object]
    /\ modified \in [Callers -> Object]
    /\ obj \in [Callers -> Object]
    /\ delegateErr \in [Callers -> NotReadyErrors \cup {NoError, PlainError}]
    /\ outcome \in [Callers -> {"none", "done", "requeue", "requeueAfter", "error"}]
    /\ faults \in Nat

\* The copy taken after modify() is what the first patch is about to send.
CopyIsFaithful ==
    \A c \in Callers :
        /\ pc[c] = "main" => obj[c] = modified[c]
        /\ pc[c] = "status" => c \in reconciles /\ hasStatus

\* Fields that modify() changed, relative to what was read.
Touched(c) == {f \in Main \cup Status : modified[c][f] # base[c][f]}

\* However stale its read, a call takes back nothing that another one has
\* written meanwhile, except in fields that it means to change itself.
OnlyOwnChanges ==
    [][\A c \in Callers : pc'[c] # pc[c] =>
        \A f \in DOMAIN server : server'[f] # server[f] => f \in Touched(c) /\ server'[f] = modified[c][f]]_vars

\* A reconcile whose patches succeed has stored every change ReconcileResource
\* made, of the status too, and even if it returned an error, unless another
\* call wanted the same field.
ChangesAreStored ==
    \A c \in reconciles :
        pc[c] = "end" /\ faults = 0 =>
            \A f \in Touched(c) :
                \/ server[f] = modified[c][f]
                \/ \E d \in Callers \ {c} : f \in Touched(d)

\* What a reconcile has stored on its way there: the object after the first
\* patch, everything after the second. A call that has not run modify() yet has
\* changed nothing.
StoredSoFar ==
    /\ \A c \in Callers : pc[c] \in {"start", "read"} => Touched(c) = {}
    /\ \A c \in reconciles :
          faults = 0 =>
              \A f \in Touched(c) :
                  pc[c] = "end" \/ (pc[c] = "status" /\ f \in Main) =>
                      \/ server[f] = modified[c][f]
                      \/ \E d \in Callers \ {c} : f \in Touched(d)

\* A reconcile that failed comes back: an error of the patch, or of
\* ReconcileResource unless it says that there is no need to.
FailureComesBack ==
    \A c \in reconciles :
        pc[c] = "end" /\ delegateErr[c] # NoError /\ ~delegateErr[c].noRequeue => outcome[c] # "done"

\* The inductive invariant behind OnlyOwnChanges, ChangesAreStored and
\* FailureComesBack.
IndInv == TypeOK /\ CopyIsFaithful /\ StoredSoFar /\ FailureComesBack
=============================================================================

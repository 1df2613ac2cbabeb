---------------------- MODULE PatchingReconciler_proofs ---------------------
(***************************************************************************)
(* Proofs about PatchingReconciler, for any number of callers, fields and  *)
(* values.                                                                 *)
(***************************************************************************)
EXTENDS PatchingReconciler, TLAPS

\* A merge patch of an object is an object that differs from what was there
\* only in fields that were changed, and there has their new values.
LEMMA MergeLemma ==
    ASSUME NEW old \in Object, NEW new \in Object, NEW onto \in Object, NEW fields \in SUBSET (Main \cup Status)
    PROVE  /\ MergeFrom(old, new, onto, fields) \in Object
           /\ \A f \in Main \cup Status :
                 MergeFrom(old, new, onto, fields)[f] # onto[f]
                     => new[f] # old[f] /\ MergeFrom(old, new, onto, fields)[f] = new[f]
  BY DEF MergeFrom, Object

\* Reconcile returns one of the results controller-runtime knows.
LEMMA PatchedType ==
    ASSUME NEW c \in Callers
    PROVE  Patched(c) \in {"none", "done", "requeue", "requeueAfter", "error"}
  BY DEF Patched, ReconcileResult

\* Nobody has called yet: the object is as it was created.
LEMMA InitInv == Init => IndInv
<1> SUFFICES ASSUME Init PROVE IndInv
  OBVIOUS
<1>1. TypeOK /\ CopyIsFaithful
  BY PatchAssumption DEF Init, TypeOK, CopyIsFaithful, Object
<1>2. StoredSoFar /\ FailureComesBack
  BY DEF Init, StoredSoFar, FailureComesBack, Touched
<1> QED
  BY <1>1, <1>2 DEF IndInv

-----------------------------------------------------------------------------
(* Shape, and the copy for the second patch.                               *)

\* The part of the invariant that is about one call alone.
Shape == TypeOK /\ CopyIsFaithful

\* Every step of Next keeps it: the copy is taken of what is then patched.
LEMMA ShapeStep == Shape /\ [Next]_vars => Shape'
<1> SUFFICES ASSUME Shape, [Next]_vars PROVE Shape'
    OBVIOUS
<1> USE DEF Shape
<1>1. CASE CacheSync
  BY <1>1 DEF CacheSync, TypeOK, CopyIsFaithful
<1>2. ASSUME NEW c \in Callers, Get(c) PROVE Shape'
  BY <1>2 DEF Get, TypeOK, CopyIsFaithful
<1>3. ASSUME NEW c \in Callers, ReconcileResource(c) PROVE Shape'
  BY <1>3 DEF ReconcileResource, TypeOK, CopyIsFaithful
<1>4. ASSUME NEW c \in Callers, Modify(c) PROVE Shape'
  BY <1>4 DEF Modify, TypeOK, CopyIsFaithful
<1>5. ASSUME NEW c \in Callers, ModifyFails(c) PROVE Shape'
  BY <1>5 DEF ModifyFails, Return, TypeOK, CopyIsFaithful
<1>6. ASSUME NEW c \in Callers, PatchMain(c) PROVE Shape'
  <2>1. server' \in Object
    BY <1>6, MergeLemma DEF PatchMain, TypeOK
  <2>2. CASE c \in reconciles /\ hasStatus
    BY <1>6, <2>1, <2>2 DEF PatchMain, TypeOK, CopyIsFaithful
  <2>3. CASE ~(c \in reconciles /\ hasStatus)
    BY <1>6, <2>1, <2>3, PatchedType DEF PatchMain, Return, TypeOK, CopyIsFaithful
  <2> QED BY <2>2, <2>3
<1>7. ASSUME NEW c \in Callers, PatchStatus(c) PROVE Shape'
  <2>1. server' \in Object
    BY <1>7, MergeLemma DEF PatchStatus, copyInto, TypeOK
  <2> QED BY <1>7, <2>1, PatchedType DEF PatchStatus, copyInto, Return, TypeOK, CopyIsFaithful
<1>8. ASSUME NEW c \in Callers, PatchFails(c) PROVE Shape'
  <2>1. server' \in Object
    BY <1>8, MergeLemma DEF PatchFails, TypeOK
  <2> QED BY <1>8, <2>1 DEF PatchFails, Return, TypeOK, CopyIsFaithful
<1>9. CASE UNCHANGED vars
  BY <1>9 DEF vars, TypeOK, CopyIsFaithful
<1> QED BY <1>1, <1>2, <1>3, <1>4, <1>5, <1>6, <1>7, <1>8, <1>9 DEF Next, Step

\* What one step of Next writes into the object in the API server.
LEMMA StepOwnChanges ==
    ASSUME Shape, [Next]_vars, NEW c \in Callers, pc'[c] # pc[c], NEW f \in DOMAIN server, server'[f] # server[f]
    PROVE  f \in Touched(c) /\ server'[f] = modified[c][f]
<1> USE DEF Shape
<1>1. f \in Main \cup Status
  BY DEF TypeOK, Object
<1>2. PICK d \in Callers : Step(d)
  BY DEF Next, CacheSync, vars
<1>3. d = c
  BY <1>2 DEF Step, Get, ReconcileResource, Modify, ModifyFails, PatchMain, PatchStatus, PatchFails, Return, TypeOK
<1>4. PatchMain(c) \/ PatchStatus(c) \/ PatchFails(c)
  BY <1>2, <1>3 DEF Step, Get, ReconcileResource, Modify, ModifyFails
<1>5. PICK fields \in {Main, Status} : server' = MergeFrom(base[c], modified[c], server, fields)
  BY <1>4 DEF PatchMain, PatchStatus, PatchFails, CopyIsFaithful
<1>6. /\ base[c] \in Object /\ modified[c] \in Object /\ server \in Object
      /\ fields \in SUBSET (Main \cup Status)
  BY <1>5 DEF TypeOK
<1>7. modified[c][f] # base[c][f] /\ server'[f] = modified[c][f]
  BY <1>1, <1>5, <1>6, MergeLemma
<1> QED BY <1>1, <1>7 DEF Touched

-----------------------------------------------------------------------------
(* What the patches of a reconcile have stored.                            *)

\* A call's own copies are fixed once modify() has run.
LEMMA FixedOnceModified ==
    ASSUME Shape, [Next]_vars, NEW c \in Callers, pc[c] \notin {"start", "read"}
    PROVE  /\ Touched(c)' = Touched(c) /\ modified'[c] = modified[c]
           /\ pc'[c] \notin {"start", "read"}
<1>1. modified'[c] = modified[c] /\ base'[c] = base[c] /\ pc'[c] \notin {"start", "read"}
  <2>1. CASE CacheSync \/ UNCHANGED vars
    BY <2>1 DEF CacheSync, vars
  <2>2. ASSUME NEW d \in Callers, Step(d)
        PROVE  modified'[c] = modified[c] /\ base'[c] = base[c] /\ pc'[c] \notin {"start", "read"}
    BY <2>2 DEF Step, Get, ReconcileResource, Modify, ModifyFails, PatchMain, PatchStatus, PatchFails,
              Return, Shape, TypeOK
  <2> QED
    BY <2>1, <2>2 DEF Next
<1> QED
  BY <1>1 DEF Touched

\* Until modify() has run nothing counts as changed.
LEMMA UntouchedStep ==
    ASSUME Shape, StoredSoFar, [Next]_vars, NEW c \in Callers, pc'[c] \in {"start", "read"}
    PROVE  Touched(c)' = {}
<1>1. CASE pc[c] \in {"start", "read"} /\ base'[c] = base[c] /\ modified'[c] = modified[c]
  BY <1>1 DEF StoredSoFar, Touched
<1>2. CASE Get(c)
  BY <1>2 DEF Get, Touched, Shape, TypeOK
<1>3. CASE CacheSync \/ UNCHANGED vars
  BY <1>1, <1>3 DEF CacheSync, vars
<1>4. ASSUME NEW d \in Callers, Step(d), ~Get(c)
      PROVE  pc[c] \in {"start", "read"} /\ base'[c] = base[c] /\ modified'[c] = modified[c]
  BY <1>4 DEF Step, Get, ReconcileResource, Modify, ModifyFails, PatchMain, PatchStatus, PatchFails,
            Return, Shape, TypeOK
<1> QED
  BY <1>1, <1>2, <1>3, <1>4 DEF Next

\* A field a call has changed is on the server once its patch was answered,
\* until another call changes it: no step of Next takes it back.
LEMMA StoredStep == IndInv /\ [Next]_vars => StoredSoFar'
<1> SUFFICES ASSUME IndInv, [Next]_vars PROVE StoredSoFar'
  OBVIOUS
<1> USE DEF IndInv, Shape
<1>1. ASSUME NEW c \in Callers, pc'[c] \in {"start", "read"} PROVE Touched(c)' = {}
  BY <1>1, UntouchedStep
<1>2. reconciles' = reconciles /\ reconciles \subseteq Callers /\ (faults' = 0 => faults = 0)
  BY DEF TypeOK, Next, CacheSync, Step, Get, ReconcileResource, Modify, ModifyFails, PatchMain, PatchStatus,
         PatchFails, vars
<1>3. ASSUME NEW c \in reconciles, faults' = 0, NEW f \in Touched(c)',
             pc'[c] = "end" \/ (pc'[c] = "status" /\ f \in Main)
      PROVE  server'[f] = modified'[c][f] \/ \E d \in Callers \ {c} : f \in Touched(d)'
  <2>1. c \in Callers /\ faults = 0 /\ f \in Main \cup Status
    BY <1>2, <1>3 DEF Touched
  <2>2. CASE pc'[c] # pc[c]
    <3>1. PICK d \in Callers : Step(d)
      BY <2>2 DEF Next, CacheSync, vars
    <3>2. d = c
      BY <2>1, <2>2, <3>1 DEF Step, Get, ReconcileResource, Modify, ModifyFails, PatchMain, PatchStatus,
                               PatchFails, Return, TypeOK
    <3>3. PatchMain(c) \/ PatchStatus(c)
      BY <1>3, <2>1, <3>1, <3>2 DEF Step, Get, ReconcileResource, Modify, ModifyFails, PatchFails, TypeOK
    <3>4. f \in Touched(c) /\ modified'[c] = modified[c]
      BY <1>3, <2>1, <3>3, FixedOnceModified DEF PatchMain, PatchStatus
    <3>5. f \in DOMAIN server /\ modified[c][f] # base[c][f]
      BY <2>1, <3>4 DEF Touched, TypeOK, Object
    <3>6. CASE PatchMain(c) /\ f \in Main
      BY <2>1, <3>4, <3>5, <3>6 DEF PatchMain, MergeFrom, CopyIsFaithful
    <3>7. CASE PatchMain(c) /\ f \notin Main
      BY <1>3, <2>1, <3>7 DEF PatchMain, TypeOK, hasStatus
    <3>8. CASE PatchStatus(c) /\ f \in Status
      BY <3>4, <3>5, <3>8 DEF PatchStatus, MergeFrom
    <3>9. CASE PatchStatus(c) /\ f \in Main
      <4>1. server'[f] = server[f]
        BY <3>5, <3>9, PatchAssumption DEF PatchStatus, MergeFrom
      <4>2. server[f] = modified[c][f] \/ \E d2 \in Callers \ {c} : f \in Touched(d2)
        BY <2>1, <3>4, <3>9 DEF PatchStatus, StoredSoFar
      <4>3. ASSUME NEW d2 \in Callers, f \in Touched(d2) PROVE f \in Touched(d2)'
        BY <4>3, FixedOnceModified DEF StoredSoFar
      <4> QED
        BY <3>4, <4>1, <4>2, <4>3
    <3> QED
      BY <2>1, <3>3, <3>6, <3>7, <3>8, <3>9
  <2>3. CASE pc'[c] = pc[c]
    <3>1. f \in Touched(c) /\ modified'[c] = modified[c]
      BY <1>3, <2>1, <2>3, FixedOnceModified
    <3>2. server[f] = modified[c][f] \/ \E d \in Callers \ {c} : f \in Touched(d)
      BY <1>3, <2>1, <2>3, <3>1 DEF StoredSoFar
    <3>3. ASSUME NEW d \in Callers, f \in Touched(d) PROVE f \in Touched(d)'
      BY <3>3, FixedOnceModified DEF StoredSoFar
    <3>4. CASE server'[f] = server[f]
      BY <3>1, <3>2, <3>3, <3>4
    <3>5. CASE server'[f] # server[f]
      <4>1. PICK d \in Callers : Step(d)
        BY <3>5 DEF Next, CacheSync, vars
      <4>2. PatchMain(d) \/ PatchStatus(d) \/ PatchFails(d)
        BY <3>5, <4>1 DEF Step, Get, ReconcileResource, Modify, ModifyFails
      <4>3. pc'[d] # pc[d]
        BY <4>2 DEF PatchMain, PatchStatus, PatchFails, Return, TypeOK
      <4>4. f \in DOMAIN server
        BY <2>1 DEF TypeOK, Object
      <4>5. f \in Touched(d)
        BY <3>5, <4>3, <4>4, StepOwnChanges
      <4> QED
        BY <2>3, <3>3, <4>3, <4>5
    <3> QED
      BY <3>4, <3>5
  <2> QED
    BY <2>2, <2>3
<1> QED
  BY <1>1, <1>2, <1>3 DEF StoredSoFar

\* A NotReadyError is only taken for done if it says so.
LEMMA ResultComesBack ==
    ASSUME NEW err \in NotReadyErrors \cup {NoError, PlainError}, err # NoError, ~err.noRequeue
    PROVE  ReconcileResult(err) # "done"
  BY DEF ReconcileResult, NotReadyErrors, PlainError, NoError, Error

\* Only the end of a reconcile decides what controller-runtime is told, and it
\* tells a failure as a failure or as a requeue.
LEMMA ComesBackStep == IndInv /\ [Next]_vars => FailureComesBack'
<1> SUFFICES ASSUME IndInv, [Next]_vars, NEW c \in reconciles', pc'[c] = "end",
                    delegateErr'[c] # NoError, ~delegateErr'[c].noRequeue
             PROVE  outcome'[c] # "done"
  BY DEF FailureComesBack
<1> USE DEF IndInv
<1>1. reconciles' = reconciles /\ c \in Callers
  BY DEF TypeOK, Next, CacheSync, Step, Get, ReconcileResource, Modify, ModifyFails, PatchMain, PatchStatus,
         PatchFails, vars
<1>2. CASE CacheSync \/ UNCHANGED vars
  BY <1>1, <1>2 DEF CacheSync, vars, FailureComesBack
<1>3. ASSUME NEW d \in Callers, Step(d), d # c PROVE outcome'[c] # "done"
  <2>1. pc'[c] = pc[c] /\ delegateErr'[c] = delegateErr[c] /\ outcome'[c] = outcome[c]
    BY <1>1, <1>3 DEF Step, Get, ReconcileResource, Modify, ModifyFails, PatchMain, PatchStatus, PatchFails,
                       Return, TypeOK
  <2> QED
    BY <1>1, <2>1 DEF FailureComesBack
<1>4. CASE Step(c)
  <2>1. PatchMain(c) \/ PatchStatus(c) \/ PatchFails(c)
    BY <1>1, <1>4 DEF Step, Get, ReconcileResource, Modify, ModifyFails, TypeOK
  <2>2. delegateErr'[c] = delegateErr[c] /\ delegateErr[c] \in NotReadyErrors \cup {NoError, PlainError}
    BY <1>1, <2>1 DEF PatchMain, PatchStatus, PatchFails, TypeOK
  <2>3. outcome'[c] \in {Patched(c), "error"}
    BY <1>1, <2>1 DEF PatchMain, PatchStatus, PatchFails, Return, TypeOK
  <2>4. Patched(c) # "done"
    BY <1>1, <2>2, ResultComesBack DEF Patched
  <2> QED
    BY <2>3, <2>4
<1> QED
  BY <1>2, <1>3, <1>4 DEF Next

-----------------------------------------------------------------------------
(* Theorems.                                                               *)

\* The three parts together are inductive.
LEMMA NextInv == IndInv /\ [Next]_vars => IndInv'
  BY ShapeStep, StoredStep, ComesBackStep DEF IndInv, Shape

\* The object in a caller's hands is what the copy for the status patch was
\* taken from, through all calls and failures.
THEOREM Invariance == Spec => []IndInv
  BY InitInv, NextInv, PTL DEF Spec

\* Whatever else happens, a reconcile whose patches succeed has stored what it
\* meant to, unless somebody else wanted the same field.
THEOREM Stored == Spec => []ChangesAreStored
<1>1. IndInv => ChangesAreStored
  BY DEF IndInv, StoredSoFar, ChangesAreStored
<1> QED
  BY <1>1, Invariance, PTL

\* No failed reconcile is forgotten.
THEOREM ComesBack == Spec => []FailureComesBack
<1>1. IndInv => FailureComesBack
  BY DEF IndInv
<1> QED
  BY <1>1, Invariance, PTL

\* No call takes back what another one has written, however stale its read.
THEOREM OwnChanges == Spec => OnlyOwnChanges
<1>1. IndInv /\ [Next]_vars =>
        [\A c \in Callers : pc'[c] # pc[c] =>
            \A f \in DOMAIN server : server'[f] # server[f] => f \in Touched(c) /\ server'[f] = modified[c][f]]_vars
  BY StepOwnChanges DEF IndInv, Shape
<1> QED BY <1>1, Invariance, PTL DEF Spec, OnlyOwnChanges
=============================================================================

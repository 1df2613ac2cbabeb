----------------------------- MODULE BTPBroker -----------------------------
(***************************************************************************)
(* The BTP service broker (components/btp-service-broker/btp/broker.go):   *)
(* the Open Service Broker endpoints that turn instances and bindings of   *)
(* the platform into ServiceInstance and ServiceBinding objects, for one   *)
(* instance ID and one binding ID.                                         *)
(*                                                                         *)
(* Requests are served concurrently, each call of the Kubernetes API being *)
(* a step of its own; the client is not cached. LastOperation and          *)
(* LastBindingOperation make a single Get and change nothing, so that they *)
(* are operators on the object they read: the properties say what a poll   *)
(* that arrives at any moment is told. The BTP operator that works on the  *)
(* objects is external and modelled by what the broker relies on: it       *)
(* reports on the generation it has read, puts its finalizer on what it    *)
(* works on, and lets go of an object after removing it from BTP.          *)
(***************************************************************************)
EXTENDS Naturals

CONSTANTS
    Requests,       \* requests the broker may be serving at the same time
    Params,         \* plans and parameters requests ask for
    NoParams,       \* nothing asked for, nothing there
    MaxRequests,    \* bound on requests that change anything
    MaxFailures     \* bound on failures of BTP and of the Service Manager

Kinds == {"instance", "binding"}

ASSUME BrokerAssumption ==
    /\ NoParams \notin Params
    /\ MaxRequests \in Nat
    /\ MaxFailures \in Nat

VARIABLES
    obj,       \* per kind: the object in the Kubernetes API
    req,       \* per request: what the broker is doing for it
    secret,    \* the Secret with the binding's credentials
    real,      \* per kind: what exists in BTP
    work,      \* per kind: what the BTP operator is working on
    failed,    \* per kind: the work that failed last
    requests, failures

vars == <<obj, req, secret, real, work, failed, requests, failures>>

NoCondition == [status |-> FALSE, observed |-> 0]
NoObject == [exists |-> FALSE, generation |-> 0, params |-> NoParams, deleting |-> FALSE,
             finalizer |-> FALSE, opType |-> "none",
             conditions |-> [t \in {"Succeeded", "Failed"} |-> NoCondition]]
Idle == [op |-> "none", step |-> "none", params |-> NoParams, read |-> NoParams, alone |-> FALSE]
NoWork == [type |-> "none", generation |-> 0, params |-> NoParams, applied |-> FALSE]

Init ==
    /\ obj = [k \in Kinds |-> NoObject]
    /\ req = [i \in Requests |-> Idle]
    /\ secret = NoParams
    /\ real = [k \in Kinds |-> NoParams]
    /\ work = [k \in Kinds |-> NoWork]
    /\ failed = [k \in Kinds |-> NoWork]
    /\ requests = 0
    /\ failures = 0

Failure == failures < MaxFailures /\ failures' = failures + 1

-----------------------------------------------------------------------------
(* What polls are told.                                                    *)

\* Mutant of LatestTrue: expects the generation after the one reported on.
ObservedBefore(o, type) ==
    o.conditions[type].status /\ o.conditions[type].observed < o.generation

\* latestInstanceStatusConditions, latestBindingStatusConditions and
\* IsStatusConditionTrue.
LatestTrue(o, type) ==
    o.conditions[type].status /\ o.conditions[type].observed = o.generation

\* Mutant of CreateAnswer: believes a success of an earlier generation.
CreateAnswerStale(o) ==
    CASE ~o.exists -> "not found"
      [] o.exists /\ o.conditions["Succeeded"].status -> "succeeded"
      [] o.exists /\ ~o.conditions["Succeeded"].status /\ LatestTrue(o, "Failed") -> "failed"
      [] OTHER -> IF o.opType = "create" THEN "in progress" ELSE ""

\* provisionLastOperation and bindLastOperation; "" is the empty LastOperation.
CreateAnswer(o) ==
    CASE ~o.exists -> "not found"
      [] o.exists /\ LatestTrue(o, "Succeeded") -> "succeeded"
      [] o.exists /\ ~LatestTrue(o, "Succeeded") /\ LatestTrue(o, "Failed") -> "failed"
      [] OTHER -> IF o.opType = "create" THEN "in progress" ELSE ""

\* Mutant of DeleteAnswer: the object being on its way out is good enough.
DeleteAnswerEager(o) ==
    CASE ~o.exists \/ o.deleting -> "succeeded"
      [] o.exists /\ LatestTrue(o, "Failed") -> "failed"
      [] OTHER -> IF o.opType = "delete" THEN "in progress" ELSE ""

\* Mutant of DeleteAnswer: believes a failure of an earlier generation.
DeleteAnswerStale(o) ==
    CASE ~o.exists -> "succeeded"
      [] o.exists /\ o.conditions["Failed"].status -> "failed"
      [] OTHER -> IF o.opType = "delete" THEN "in progress" ELSE ""

\* Mutant of DeleteAnswer: treats NotFound the way provisionLastOperation does.
DeleteAnswerNotFound(o) ==
    CASE ~o.exists -> "not found"
      [] o.exists /\ LatestTrue(o, "Failed") -> "failed"
      [] OTHER -> IF o.opType = "delete" THEN "in progress" ELSE ""

\* deprovisionLastOperation and unbindLastOperation.
DeleteAnswer(o) ==
    CASE ~o.exists -> "succeeded"
      [] o.exists /\ LatestTrue(o, "Failed") -> "failed"
      [] OTHER -> IF o.opType = "delete" THEN "in progress" ELSE ""

\* LastOperation: the operation data that Provision or Deprovision gave the
\* platform says which question is asked; any other operation is unknown.
LastOperation(data) ==
    CASE data = "provision" -> CreateAnswer(obj["instance"])
      [] data = "deprovision" -> DeleteAnswer(obj["instance"])
      [] OTHER -> "error"

\* LastBindingOperation: the same with the data of Bind and Unbind.
LastBindingOperation(data) ==
    CASE data = "bind" -> CreateAnswer(obj["binding"])
      [] data = "unbind" -> DeleteAnswer(obj["binding"])
      [] OTHER -> "error"

-----------------------------------------------------------------------------
(* The requests that change something.                                     *)

KindOf(op) == IF op = "Provision" THEN "instance" ELSE "binding"

Begin(i, op, step, params) ==
    /\ req[i] = Idle
    /\ requests < MaxRequests
    /\ requests' = requests + 1
    /\ req' = [req EXCEPT ![i] = [Idle EXCEPT !.op = op, !.step = step, !.params = params]]
    /\ UNCHANGED <<obj, secret, real, work, failed, failures>>

Provision(i, p) == Begin(i, "Provision", "lookup", p)

Bind(i, p) == Begin(i, "Bind", "get", p)

\* The handler has made one of its calls.
Continue(i, step) == req' = [req EXCEPT ![i].step = step]

Respond(i) == req' = [req EXCEPT ![i] = Idle]

\* getPlanByID and getOfferingByID.
LookUp(i) ==
    /\ req[i].step = "lookup"
    /\ Continue(i, "get")
    /\ UNCHANGED <<obj, secret, real, work, failed, requests, failures>>

\* Any call of a handler may fail, the plan or offering may be unknown, or the
\* platform gives up on its request: the handler stops with an error.
CallFails(i) ==
    /\ req[i] # Idle
    /\ Respond(i)
    /\ Failure
    /\ UNCHANGED <<obj, secret, real, work, failed, requests>>

\* CreateOrPatch: its Get; the history field alone says that no other request has
\* written the object since.
Get(i) ==
    /\ req[i].step = "get"
    /\ req' = [req EXCEPT ![i].step = "write",
                          ![i].read = obj[KindOf(req[i].op)].params,
                          ![i].alone = TRUE]
    /\ UNCHANGED <<obj, secret, real, work, failed, requests, failures>>

\* A write of an object of kind k, as another request that works on it sees it.
Disturbed(r, k) ==
    IF KindOf(r.op) = k /\ r.step \in {"write", "status", "secret"} THEN [r EXCEPT !.alone = FALSE] ELSE r

\* Provision answers 202; Bind goes on to look at the binding.
Unwritten(i) == IF req[i].op = "Bind" THEN Continue(i, "status") ELSE Respond(i)

Written(i) ==
    req' = [j \in Requests |->
               IF j # i THEN Disturbed(req[j], KindOf(req[i].op))
               ELSE IF req[i].op = "Bind" THEN [req[i] EXCEPT !.step = "status"] ELSE Idle]

\* Mutant of Create: the mutate function is not applied before Create.
CreateBlank(i) ==
    LET k == KindOf(req[i].op) IN
    /\ req[i].step = "write"
    /\ req[i].read = NoParams
    /\ ~obj[k].exists
    /\ obj' = [obj EXCEPT ![k] = [NoObject EXCEPT !.exists = TRUE, !.generation = 1]]
    /\ Written(i)
    /\ UNCHANGED <<secret, real, work, failed, requests, failures>>

\* CreateOrPatch: Create, if Get found nothing.
Create(i) ==
    LET k == KindOf(req[i].op) IN
    /\ req[i].step = "write"
    /\ req[i].read = NoParams
    /\ ~obj[k].exists
    /\ obj' = [obj EXCEPT ![k] = [NoObject EXCEPT !.exists = TRUE, !.generation = 1,
                                                  !.params = req[i].params]]
    /\ Written(i)
    /\ UNCHANGED <<secret, real, work, failed, requests, failures>>

\* CreateOrPatch: Patch, if Get found another spec; what is being deleted can
\* be patched, too.
Patch(i) ==
    LET k == KindOf(req[i].op) IN
    /\ req[i].step = "write"
    /\ req[i].read \notin {NoParams, req[i].params}
    /\ obj[k].exists
    /\ obj' = IF obj[k].params = req[i].params
              THEN obj
              ELSE [obj EXCEPT ![k].params = req[i].params, ![k].generation = @ + 1]
    /\ Written(i)
    /\ UNCHANGED <<secret, real, work, failed, requests, failures>>

\* CreateOrPatch: Get found the spec asked for.
NothingToPatch(i) ==
    /\ req[i].step = "write"
    /\ req[i].read = req[i].params
    /\ Unwritten(i)
    /\ UNCHANGED <<obj, secret, real, work, failed, requests, failures>>

\* CreateOrPatch: the object came (AlreadyExists) or went (NotFound) meanwhile.
WriteFails(i) ==
    /\ req[i].step = "write"
    /\ req[i].read # req[i].params
    /\ (req[i].read = NoParams) <=> obj[KindOf(req[i].op)].exists
    /\ Respond(i)
    /\ UNCHANGED <<obj, secret, real, work, failed, requests, failures>>

\* Bind: LastBindingOperation. Unless it succeeded, the answer is 202 or an error.
BindStatus(i) ==
    /\ req[i].step = "status"
    /\ IF LastBindingOperation("bind") = "succeeded" THEN Continue(i, "secret") ELSE Respond(i)
    /\ UNCHANGED <<obj, secret, real, work, failed, requests, failures>>

\* Bind: getCredentials, credentials or an error if the Secret is gone.
GetCredentials(i) ==
    /\ req[i].step = "secret"
    /\ req' = [req EXCEPT ![i].step = "answered", ![i].read = secret]
    /\ UNCHANGED <<obj, secret, real, work, failed, requests, failures>>

\* Bind: the answer reaches the platform.
Answered(i) ==
    /\ req[i].step = "answered"
    /\ Respond(i)
    /\ UNCHANGED <<obj, secret, real, work, failed, requests, failures>>

\* What the API server makes of an object to be deleted: without a finalizer it
\* goes at once.
Deleted(o) ==
    IF o.exists /\ o.finalizer
    THEN IF o.deleting THEN o ELSE [o EXCEPT !.deleting = TRUE, !.generation = @ + 1]
    ELSE NoObject

\* Deprovision and Unbind: Delete, NotFound being ignored.
Delete(k) ==
    /\ requests < MaxRequests
    /\ requests' = requests + 1
    /\ obj' = [obj EXCEPT ![k] = Deleted(@)]
    /\ req' = [j \in Requests |-> Disturbed(req[j], k)]
    /\ UNCHANGED <<secret, real, work, failed, failures>>

Deprovision == Delete("instance")
Unbind == Delete("binding")

-----------------------------------------------------------------------------
(* The BTP operator.                                                       *)

\* Both conditions are reported together, about the generation worked on.
Report(o, succeeded, fails, generation) ==
    [o EXCEPT !.conditions = [Succeeded |-> [status |-> succeeded, observed |-> generation],
                              Failed |-> [status |-> fails, observed |-> generation]]]

\* The work on the object's generation is done.
UpToDate(o) ==
    /\ o.conditions["Succeeded"].status
    /\ o.conditions["Succeeded"].observed = o.generation

\* What there is to do about an object.
Task(o, there) ==
    IF o.deleting THEN "delete" ELSE IF there = NoParams THEN "create" ELSE "update"

\* It notices a new object, a new spec or a deletion, or tries again.
OperatorStarts(k) ==
    LET o == obj[k]
        t == Task(o, real[k])
    IN
    /\ o.exists
    /\ work[k] = NoWork
    /\ o.deleting \/ ~UpToDate(o)
    /\ k = "binding" /\ ~o.deleting => UpToDate(obj["instance"])
    /\ work' = [work EXCEPT ![k] = [type |-> t, generation |-> o.generation,
                                    params |-> o.params, applied |-> FALSE]]
    /\ obj' = [obj EXCEPT ![k] = [Report(o, FALSE, FALSE, o.generation) EXCEPT
                                     !.finalizer = TRUE, !.opType = t]]
    /\ UNCHANGED <<req, secret, real, failed, requests, failures>>

\* BTP does what it is asked for, the credentials being stored or removed; an
\* instance with a binding is not deleted.
OperatorApplies(k) ==
    LET w == work[k]
        p == IF w.type = "delete" THEN NoParams ELSE w.params
    IN
    /\ w # NoWork
    /\ ~w.applied
    /\ k = "instance" /\ w.type = "delete" => real["binding"] = NoParams
    /\ real' = [real EXCEPT ![k] = p]
    /\ secret' = IF k = "binding" THEN p ELSE secret
    /\ work' = [work EXCEPT ![k].applied = TRUE]
    /\ UNCHANGED <<obj, req, failed, requests, failures>>

\* The work is done and reported; a deleted object loses its finalizer.
OperatorReports(k) ==
    LET w == work[k] IN
    /\ w.applied
    /\ obj' = [obj EXCEPT ![k] = IF w.type = "delete" THEN NoObject
                                 ELSE Report(@, TRUE, FALSE, w.generation)]
    /\ work' = [work EXCEPT ![k] = NoWork]
    /\ UNCHANGED <<req, secret, real, failed, requests, failures>>

OperatorGivesUp(k) ==
    /\ work[k] # NoWork
    /\ ~work[k].applied
    /\ obj' = [obj EXCEPT ![k] = Report(@, FALSE, TRUE, work[k].generation)]
    /\ failed' = [failed EXCEPT ![k] = work[k]]
    /\ work' = [work EXCEPT ![k] = NoWork]
    /\ UNCHANGED <<req, secret, real, requests>>

\* BTP refuses: for a reason of its own, or as a binding is left.
OperatorFails(k) ==
    /\ OperatorGivesUp(k)
    /\ Failure

OperatorRefused ==
    /\ work["instance"].type = "delete"
    /\ real["binding"] # NoParams
    /\ OperatorGivesUp("instance")
    /\ UNCHANGED failures

-----------------------------------------------------------------------------
Handle(i) ==
    \/ LookUp(i) \/ CallFails(i) \/ Get(i)
    \/ Create(i) \/ Patch(i) \/ NothingToPatch(i) \/ WriteFails(i)
    \/ BindStatus(i) \/ GetCredentials(i) \/ Answered(i)

Platform ==
    \/ \E i \in Requests, p \in Params : Provision(i, p) \/ Bind(i, p)
    \/ Deprovision \/ Unbind

Operator(k) ==
    OperatorStarts(k) \/ OperatorApplies(k) \/ OperatorReports(k) \/ OperatorFails(k)

Next ==
    \/ \E i \in Requests : Handle(i)
    \/ Platform
    \/ \E k \in Kinds : Operator(k)
    \/ OperatorRefused

Spec == Init /\ [][Next]_vars

\* Handlers run on and the BTP operator keeps working.
FairSpec ==
    /\ Spec
    /\ \A i \in Requests : WF_vars(Handle(i))
    /\ \A k \in Kinds : WF_vars(Operator(k))
    /\ WF_vars(OperatorRefused)

-----------------------------------------------------------------------------
(* Properties.                                                             *)

ObjectType ==
    [exists : BOOLEAN, generation : Nat, params : Params \cup {NoParams}, deleting : BOOLEAN,
     finalizer : BOOLEAN, opType : {"none", "create", "update", "delete"},
     conditions : [{"Succeeded", "Failed"} -> [status : BOOLEAN, observed : Nat]]]
RequestType ==
    [op : {"none", "Provision", "Bind"},
     step : {"none", "lookup", "get", "write", "status", "secret", "answered"},
     params : Params \cup {NoParams}, read : Params \cup {NoParams}, alone : BOOLEAN]
WorkType ==
    [type : {"none", "create", "update", "delete"}, generation : Nat,
     params : Params \cup {NoParams}, applied : BOOLEAN]

\* Every variable keeps its shape.
TypeOK ==
    /\ obj \in [Kinds -> ObjectType]
    /\ req \in [Requests -> RequestType]
    /\ secret \in Params \cup {NoParams}
    /\ real \in [Kinds -> Params \cup {NoParams}]
    /\ work \in [Kinds -> WorkType]
    /\ failed \in [Kinds -> WorkType]
    /\ requests \in Nat
    /\ failures \in Nat

\* What the platform is told when it polls for the creation or the deletion.
CreationPoll(k) == IF k = "instance" THEN LastOperation("provision") ELSE LastBindingOperation("bind")
DeletionPoll(k) == IF k = "instance" THEN LastOperation("deprovision") ELSE LastBindingOperation("unbind")

\* Bind looks at the binding, then at its status, then at its Secret. Whatever the
\* BTP operator does in between, it answers with the credentials of the parameters
\* it was asked for, unless another request has written or deleted the binding.
CredentialsAreOwn ==
    \A i \in Requests : req[i].step = "answered" /\ req[i].alone => req[i].read = req[i].params

\* Who is told "succeeded" about a provision or bind can rely on it: BTP has what
\* the object now asks for, with credentials if it is a binding, nobody has begun
\* to remove it, however requests overlapped, and the credentials that Bind
\* answers with are its own.
SucceededIsReal ==
    /\ \A k \in Kinds : CreationPoll(k) = "succeeded" =>
          /\ real[k] = obj[k].params
          /\ ~obj[k].deleting
          /\ k = "binding" => secret = obj[k].params
    /\ CredentialsAreOwn

\* A poll that is told "succeeded" about a deprovision or unbind can forget the
\* resource: nothing of it is left in BTP and nobody works on it.
DeletedIsGone ==
    \A k \in Kinds : DeletionPoll(k) = "succeeded" =>
        /\ real[k] = NoParams
        /\ work[k] = NoWork
        /\ k = "binding" => secret = NoParams

\* A poll is not told of an old failure: of a failed creation while the resource
\* is being deleted, or of one with parameters that have been replaced since.
FailureIsFresh ==
    \A k \in Kinds :
        /\ obj[k].deleting /\ DeletionPoll(k) = "failed" => failed[k].type = "delete"
        /\ ~obj[k].deleting /\ CreationPoll(k) = "failed" =>
              failed[k].type # "delete" /\ failed[k].params = obj[k].params

\* What is in BTP, or for a binding in BTP and in its Secret.
There(k, p) == real[k] = p /\ (k = "binding" => secret = p)

\* An object the BTP operator has not put its finalizer on is not known to BTP.
UnknownToBTP(k) ==
    /\ ~obj[k].exists => ~obj[k].finalizer
    /\ obj[k].exists => obj[k].params \in Params
    /\ ~obj[k].finalizer =>
          /\ There(k, NoParams) /\ work[k] = NoWork /\ ~obj[k].deleting
          /\ \A t \in {"Succeeded", "Failed"} : ~obj[k].conditions[t].status

\* Work that is still about the current generation is about the current spec,
\* a deletion if and only if the object is being deleted.
WorkMatchesObject(k) ==
    /\ work[k].type = "none" => work[k] = NoWork
    /\ work[k] # NoWork =>
          /\ work[k].generation <= obj[k].generation
          /\ work[k].type = "delete" => obj[k].deleting
          /\ work[k].generation = obj[k].generation =>
                work[k].params = obj[k].params /\ (obj[k].deleting <=> work[k].type = "delete")
          /\ work[k].applied =>
                There(k, IF work[k].type = "delete" THEN NoParams ELSE work[k].params)
          /\ \A t \in {"Succeeded", "Failed"} : ~obj[k].conditions[t].status

\* A condition that is still about the current generation tells the truth.
ConditionsMatchObject(k) ==
    /\ \A t \in {"Succeeded", "Failed"} :
          obj[k].conditions[t].status => obj[k].conditions[t].observed <= obj[k].generation
    /\ LatestTrue(obj[k], "Succeeded") => There(k, obj[k].params) /\ ~obj[k].deleting
    /\ LatestTrue(obj[k], "Failed") =>
          failed[k].params = obj[k].params /\ (obj[k].deleting <=> failed[k].type = "delete")

\* What a request that is alone with its object knows of it.
RequestMatchesObject(i) ==
    LET r == req[i]
        o == obj[KindOf(r.op)]
    IN
    /\ r.step # "none" => r.params \in Params
    /\ r.step \in {"status", "secret", "answered"} => r.op = "Bind"
    /\ r.alone /\ r.step = "write" /\ o.exists => o.params = r.read
    /\ r.alone /\ r.step = "status" /\ o.exists => o.params = r.params
    /\ r.alone /\ r.step = "secret" => o.exists /\ o.params = r.params /\ LatestTrue(o, "Succeeded")
    /\ r.alone /\ r.step = "answered" => r.read = r.params

KindInv(k) == UnknownToBTP(k) /\ WorkMatchesObject(k) /\ ConditionsMatchObject(k)

\* The inductive invariant behind SucceededIsReal, DeletedIsGone and
\* FailureIsFresh.
IndInv ==
    /\ TypeOK
    /\ \A i \in Requests : RequestMatchesObject(i)
    /\ \A k \in Kinds : KindInv(k)

\* Polling comes to an end: whatever is accepted is, sooner or later, reported
\* as succeeded or failed, or gone, or on its way out.
CreationConcludes ==
    \A k \in Kinds : obj[k].exists ~>
        \/ CreationPoll(k) \in {"succeeded", "failed", "not found"}
        \/ obj[k].deleting
        \/ k = "binding" /\ ~UpToDate(obj["instance"])

\* The same for a deletion.
DeletionConcludes ==
    \A k \in Kinds : obj[k].deleting ~> DeletionPoll(k) \in {"succeeded", "failed"}
=============================================================================

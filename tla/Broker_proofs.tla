---------------------------- MODULE Broker_proofs ---------------------------
(***************************************************************************)
(* Proofs about the BTP service broker: BTPBroker, for any number of       *)
(* concurrent requests and any parameters: what polls are told is true,    *)
(* however requests interleave with each other and with the BTP operator;  *)
(* BrokerCatalog, for any offerings and plans and any number of changes,   *)
(* rotations, failures and crashes; BindingCredentials, for any names,     *)
(* texts and JSON values and any number of writes.                         *)
(***************************************************************************)
EXTENDS BTPBroker, BrokerCatalog, BindingCredentials, TLAPS

-----------------------------------------------------------------------------
(* Instances and bindings.                                                 *)

\* The constants of the module have their types.
LEMMA ConstantTypes ==
    /\ NoObject \in ObjectType
    /\ Idle \in RequestType
    /\ NoWork \in WorkType
<1>1. [t \in {"Succeeded", "Failed"} |-> NoCondition]
          \in [{"Succeeded", "Failed"} -> [status : BOOLEAN, observed : Nat]]
  BY DEF NoCondition
<1> QED
  BY <1>1 DEF NoObject, ObjectType, Idle, RequestType, NoWork, WorkType

\* A report keeps an object an object and changes nothing but its conditions.
LEMMA ReportEffect ==
    ASSUME NEW o \in ObjectType, NEW s \in BOOLEAN, NEW f \in BOOLEAN, NEW g \in Nat
    PROVE  /\ Report(o, s, f, g) \in ObjectType
           /\ Report(o, s, f, g).exists = o.exists
           /\ Report(o, s, f, g).generation = o.generation
           /\ Report(o, s, f, g).params = o.params
           /\ Report(o, s, f, g).deleting = o.deleting
           /\ Report(o, s, f, g).finalizer = o.finalizer
           /\ Report(o, s, f, g).opType = o.opType
           /\ Report(o, s, f, g).conditions["Succeeded"].status = s
           /\ Report(o, s, f, g).conditions["Succeeded"].observed = g
           /\ Report(o, s, f, g).conditions["Failed"].status = f
           /\ Report(o, s, f, g).conditions["Failed"].observed = g
<1> DEFINE c == [Succeeded |-> [status |-> s, observed |-> g],
                 Failed |-> [status |-> f, observed |-> g]]
<1>1. c \in [{"Succeeded", "Failed"} -> [status : BOOLEAN, observed : Nat]]
  OBVIOUS
<1>2. /\ c["Succeeded"].status = s /\ c["Succeeded"].observed = g
      /\ c["Failed"].status = f /\ c["Failed"].observed = g
  OBVIOUS
<1> HIDE DEF c
<1>3. Report(o, s, f, g) = [o EXCEPT !.conditions = c]
  BY DEF Report, c
<1> QED
  BY <1>1, <1>2, <1>3 DEF ObjectType

\* A kind nobody touches keeps its invariant.
LEMMA Frame ==
    ASSUME NEW k \in Kinds, KindInv(k),
           obj'[k] = obj[k], real'[k] = real[k], work'[k] = work[k], failed'[k] = failed[k],
           k = "binding" => secret' = secret
    PROVE  KindInv(k)'
BY DEF KindInv, UnknownToBTP, WorkMatchesObject, ConditionsMatchObject, There, LatestTrue, Kinds

\* A request keeps what it knows of its object as long as the object keeps its spec
\* or goes, and keeps a success that the request has been told of.
LEMMA RequestFrame ==
    ASSUME NEW j \in Requests, RequestMatchesObject(j), req'[j] = req[j],
           NEW o, o = obj[KindOf(req[j].op)],
           NEW q, q = obj'[KindOf(req[j].op)],
           q.exists => o.exists /\ q.params = o.params,
           o.exists /\ LatestTrue(o, "Succeeded") =>
               q.exists /\ q.params = o.params /\ LatestTrue(q, "Succeeded")
    PROVE  RequestMatchesObject(j)'
BY DEF RequestMatchesObject

\* A request that is told apart from the writer is disturbed or works on another
\* kind of object.
LEMMA DisturbedFrame ==
    ASSUME NEW j \in Requests, NEW k \in Kinds, RequestMatchesObject(j), req[j] \in RequestType,
           req'[j] = Disturbed(req[j], k),
           \A n \in Kinds \ {k} : obj'[n] = obj[n]
    PROVE  RequestMatchesObject(j)' /\ req'[j] \in RequestType
<1>1. KindOf(req[j].op) \in Kinds
  BY DEF KindOf, Kinds
<1>2. CASE KindOf(req[j].op) = k /\ req[j].step \in {"write", "status", "secret"}
  <2>1. req'[j] = [req[j] EXCEPT !.alone = FALSE]
    BY <1>2 DEF Disturbed
  <2>2. /\ req'[j].op = req[j].op /\ req'[j].step = req[j].step
        /\ req'[j].params = req[j].params /\ req'[j].alone = FALSE
    BY <2>1 DEF RequestType
  <2>3. req'[j] \in RequestType
    BY <2>1 DEF RequestType
  <2> QED
    BY <2>2, <2>3, <1>2 DEF RequestMatchesObject
<1>3. CASE ~(KindOf(req[j].op) = k /\ req[j].step \in {"write", "status", "secret"})
  <2>1. req'[j] = req[j]
    BY <1>3 DEF Disturbed
  <2>2. CASE KindOf(req[j].op) # k
    <3>1. obj'[KindOf(req[j].op)] = obj[KindOf(req[j].op)]
      BY <1>1, <2>2
    <3> QED
      BY <2>1, <3>1, RequestFrame
  <2>3. CASE req[j].step \notin {"write", "status", "secret"}
    BY <2>1, <2>3 DEF RequestMatchesObject
  <2> QED
    BY <1>3, <2>1, <2>2, <2>3
<1> QED
  BY <1>2, <1>3

\* The steps that change only what the broker remembers about a request.
LEMMA RequestsKeep ==
    ASSUME IndInv, NEW i \in Requests,
           \/ LookUp(i) \/ CallFails(i) \/ Get(i) \/ NothingToPatch(i) \/ WriteFails(i)
           \/ BindStatus(i) \/ GetCredentials(i) \/ Answered(i)
           \/ \E p \in Params : Provision(i, p) \/ Bind(i, p)
    PROVE  IndInv'
<1> USE DEF IndInv
<1>1. UNCHANGED <<obj, secret, real, work, failed>>
  BY DEF LookUp, CallFails, Get, NothingToPatch, WriteFails, BindStatus, GetCredentials,
         Answered, Provision, Bind, Begin
<1>2. requests' \in Nat /\ failures' \in Nat
  <2>1. requests \in Nat /\ failures \in Nat
    BY DEF TypeOK
  <2>2. /\ requests' \in {requests, requests + 1}
        /\ failures' \in {failures, failures + 1}
    BY DEF LookUp, CallFails, Failure, Get, NothingToPatch, WriteFails, BindStatus,
           GetCredentials, Answered, Provision, Bind, Begin
  <2> QED
    BY <2>1, <2>2
<1> DEFINE r == req[i]
           o == obj[KindOf(r.op)]
<1>3. /\ r \in RequestType /\ RequestMatchesObject(i) /\ req \in [Requests -> RequestType]
      /\ o.params \in Params \cup {NoParams} /\ secret \in Params \cup {NoParams}
  BY DEF TypeOK, KindOf, Kinds, ObjectType
<1> DEFINE Kept == /\ req' = [req EXCEPT ![i] = req'[i]]
                   /\ req'[i] \in RequestType
                   /\ RequestMatchesObject(i)'
<1>4. Kept
  <2>1. ASSUME req' = [req EXCEPT ![i] = Idle] PROVE Kept
    <3>1. req'[i] = Idle
      BY <1>3, <2>1
    <3>2. req'[i].step = "none" /\ req'[i] \in RequestType
      BY <3>1, ConstantTypes DEF Idle
    <3> QED
      BY <2>1, <3>1, <3>2 DEF RequestMatchesObject
  <2>2. ASSUME NEW p \in Params, Provision(i, p) \/ Bind(i, p) PROVE Kept
    <3>1. PICK op \in {"Provision", "Bind"}, step \in {"lookup", "get"} :
             req' = [req EXCEPT ![i] = [Idle EXCEPT !.op = op, !.step = step, !.params = p]]
      BY <2>2 DEF Provision, Bind, Begin
    <3>2. req'[i] = [Idle EXCEPT !.op = op, !.step = step, !.params = p]
      BY <1>3, <3>1
    <3>3. /\ req'[i].step = step /\ req'[i].params = p /\ req'[i].alone = FALSE
      BY <3>2 DEF Idle
    <3>4. req'[i] \in RequestType
      BY <3>2 DEF Idle, RequestType
    <3> QED
      BY <3>1, <3>2, <3>3, <3>4 DEF RequestMatchesObject
  <2>3. ASSUME LookUp(i) PROVE Kept
    <3>1. r.step = "lookup" /\ req' = [req EXCEPT ![i].step = "get"]
      BY <2>3 DEF LookUp, Continue
    <3>2. req'[i] = [r EXCEPT !.step = "get"]
      BY <1>3, <3>1
    <3>3. req'[i].step = "get" /\ req'[i].params = r.params /\ req'[i] \in RequestType
      BY <1>3, <3>2 DEF RequestType
    <3> QED
      BY <1>3, <3>1, <3>2, <3>3 DEF RequestMatchesObject
  <2>4. ASSUME Get(i) PROVE Kept
    <3>1. /\ r.step = "get"
          /\ req' = [req EXCEPT ![i].step = "write", ![i].read = o.params, ![i].alone = TRUE]
      BY <2>4 DEF Get
    <3>2. req'[i] = [r EXCEPT !.step = "write", !.read = o.params, !.alone = TRUE]
      BY <1>3, <3>1
    <3>3. /\ req'[i].step = "write" /\ req'[i].params = r.params /\ req'[i].op = r.op
          /\ req'[i].read = o.params
      BY <1>3, <3>2 DEF RequestType
    <3>4. req'[i] \in RequestType
      BY <1>3, <3>2 DEF RequestType
    <3> QED
      BY <1>1, <1>3, <3>1, <3>2, <3>3, <3>4 DEF RequestMatchesObject
  <2>5. ASSUME r.step = "write", r.op = "Bind", NothingToPatch(i) PROVE Kept
    <3>1. /\ r.read = r.params
          /\ req' = [req EXCEPT ![i].step = "status"]
      BY <2>5 DEF NothingToPatch, Unwritten, Continue
    <3>2. req'[i] = [r EXCEPT !.step = "status"]
      BY <1>3, <3>1
    <3>3. /\ req'[i].step = "status" /\ req'[i].params = r.params /\ req'[i].op = r.op
          /\ req'[i].alone = r.alone /\ req'[i] \in RequestType
      BY <1>3, <3>2 DEF RequestType
    <3> QED
      BY <1>1, <1>3, <2>5, <3>1, <3>2, <3>3 DEF RequestMatchesObject
  <2>6. ASSUME BindStatus(i), LastBindingOperation("bind") = "succeeded" PROVE Kept
    <3>1. r.step = "status" /\ req' = [req EXCEPT ![i].step = "secret"]
      BY <2>6 DEF BindStatus, Continue
    <3>2. req'[i] = [r EXCEPT !.step = "secret"]
      BY <1>3, <3>1
    <3>3. /\ req'[i].step = "secret" /\ req'[i].params = r.params /\ req'[i].op = r.op
          /\ req'[i].alone = r.alone /\ req'[i] \in RequestType
      BY <1>3, <3>2 DEF RequestType
    <3>4. r.op = "Bind" /\ KindOf(r.op) = "binding"
      BY <1>3, <3>1 DEF RequestMatchesObject, KindOf
    <3>5. o.exists /\ LatestTrue(o, "Succeeded")
      BY <2>6, <3>4 DEF LastBindingOperation, CreateAnswer
    <3> QED
      BY <1>1, <1>3, <3>1, <3>2, <3>3, <3>4, <3>5 DEF RequestMatchesObject
  <2>7. ASSUME GetCredentials(i) PROVE Kept
    <3>1. r.step = "secret" /\ req' = [req EXCEPT ![i].step = "answered", ![i].read = secret]
      BY <2>7 DEF GetCredentials
    <3>2. req'[i] = [r EXCEPT !.step = "answered", !.read = secret]
      BY <1>3, <3>1
    <3>3. /\ req'[i].step = "answered" /\ req'[i].params = r.params /\ req'[i].op = r.op
          /\ req'[i].read = secret /\ req'[i].alone = r.alone /\ req'[i] \in RequestType
      BY <1>3, <3>2 DEF RequestType
    <3>4. r.op = "Bind" /\ KindOf(r.op) = "binding" /\ KindInv("binding")
      BY <1>3, <3>1 DEF RequestMatchesObject, KindOf, Kinds
    <3>5. r.alone => secret = r.params
      BY <1>3, <3>1, <3>4 DEF RequestMatchesObject, KindInv, ConditionsMatchObject, There
    <3> QED
      BY <1>3, <3>1, <3>2, <3>3, <3>4, <3>5 DEF RequestMatchesObject
  <2>8. CASE CallFails(i) \/ WriteFails(i) \/ Answered(i)
    BY <2>1, <2>8 DEF CallFails, WriteFails, Answered, Respond
  <2>9. CASE NothingToPatch(i)
    BY <2>1, <2>5, <2>9 DEF NothingToPatch, Unwritten, Respond
  <2>10. CASE BindStatus(i)
    BY <2>1, <2>6, <2>10 DEF BindStatus, Respond
  <2> QED
    BY <2>2, <2>3, <2>4, <2>7, <2>8, <2>9, <2>10
<1>5. TypeOK'
  BY <1>1, <1>2, <1>3, <1>4 DEF TypeOK
<1>6. \A k \in Kinds : KindInv(k)'
  BY <1>1, Frame
<1>7. ASSUME NEW j \in Requests PROVE RequestMatchesObject(j)'
  <2>1. CASE j # i
    <3>1. req'[j] = req[j]
      BY <1>3, <1>4, <2>1
    <3> QED
      BY <1>1, <3>1, RequestFrame
  <2> QED
    BY <1>4, <2>1
<1> QED
  BY <1>5, <1>6, <1>7

\* CreateOrPatch writes the spec of one object.
LEMMA WriteKeeps ==
    ASSUME IndInv, NEW i \in Requests, Create(i) \/ Patch(i)
    PROVE  IndInv'
<1> USE DEF IndInv
<1>1. PICK k \in Kinds : k = KindOf(req[i].op)
  BY DEF KindOf, Kinds
<1>2. obj \in [Kinds -> ObjectType] /\ req[i] \in RequestType
  BY DEF TypeOK
<1>3. UNCHANGED <<secret, real, work, failed, requests, failures>>
  BY DEF Create, Patch
<1>5. \A n \in Kinds \ {k} : obj'[n] = obj[n]
  BY <1>1, <1>2 DEF Create, Patch
<1>7. obj'[k] \in ObjectType /\ KindInv(k)'
  <2> DEFINE o == obj[k]
             q == obj'[k]
  <2>1. req[i].params \in Params
    BY DEF Create, Patch, RequestMatchesObject
  <2>2. CASE Create(i)
    <3>1. q = [NoObject EXCEPT !.exists = TRUE, !.generation = 1, !.params = req[i].params]
      BY <1>1, <1>2, <2>2 DEF Create
    <3>2. /\ q.params = req[i].params /\ q.generation = 1
          /\ q.finalizer = FALSE /\ q.exists = TRUE /\ q.deleting = FALSE
      BY <3>1 DEF NoObject
    <3>6. q \in ObjectType
      <4>1. q = [exists |-> TRUE, generation |-> 1, params |-> req[i].params, deleting |-> FALSE,
                 finalizer |-> FALSE, opType |-> "none", conditions |-> NoObject.conditions]
        BY <3>1 DEF NoObject
      <4>2. NoObject.conditions
              \in [{"Succeeded", "Failed"} -> [status : BOOLEAN, observed : Nat]]
        BY ConstantTypes DEF ObjectType
      <4> QED
        BY <2>1, <4>1, <4>2 DEF ObjectType
    <3>3. \A t \in {"Succeeded", "Failed"} : ~q.conditions[t].status
      BY <3>1 DEF NoObject, NoCondition
    <3>4. ~o.finalizer
      BY <1>1, <2>2 DEF Create, KindInv, UnknownToBTP
    <3>5. There(k, NoParams)' /\ work'[k] = NoWork
      BY <1>1, <1>3, <3>4 DEF KindInv, UnknownToBTP, There
    <3> QED
      BY <2>1, <3>2, <3>3, <3>5, <3>6
      DEF KindInv, UnknownToBTP, WorkMatchesObject, ConditionsMatchObject, LatestTrue
  <2>3. CASE Patch(i) /\ obj' = obj
    BY <1>1, <1>2, <1>3, <2>3, Frame
  <2>4. CASE Patch(i) /\ obj' # obj
    <3>1. q = [o EXCEPT !.params = req[i].params, !.generation = @ + 1] /\ o.exists
      BY <1>1, <1>2, <2>4 DEF Patch
    <3>2. o \in ObjectType
      BY <1>1, <1>2
    <3>3. /\ q.params = req[i].params /\ q.generation = o.generation + 1
          /\ q.finalizer = o.finalizer /\ q.exists = o.exists /\ q.deleting = o.deleting
          /\ q.conditions = o.conditions
      BY <3>1, <3>2 DEF ObjectType
    <3>9. q \in ObjectType
      <4>1. o.generation + 1 \in Nat
        BY <3>2 DEF ObjectType
      <4> QED
        BY <2>1, <3>1, <3>2, <4>1 DEF ObjectType
    <3>4. KindInv(k) /\ o.generation \in Nat /\ work[k] \in WorkType
      BY <1>1, <3>2 DEF TypeOK, ObjectType
    <3>5. \A t \in {"Succeeded", "Failed"} : o.conditions[t].observed \in Nat
      BY <3>2 DEF ObjectType
    <3>6. UnknownToBTP(k)'
      BY <1>3, <2>1, <3>1, <3>3, <3>4 DEF KindInv, UnknownToBTP, There
    <3>7. WorkMatchesObject(k)'
      BY <1>3, <3>3, <3>4 DEF KindInv, WorkMatchesObject, There, WorkType
    <3>8. ConditionsMatchObject(k)'
      BY <1>3, <3>3, <3>4, <3>5 DEF KindInv, ConditionsMatchObject, LatestTrue
    <3> QED
      BY <3>6, <3>7, <3>8, <3>9 DEF KindInv
  <2> QED
    BY <2>2, <2>3, <2>4
<1>8. \A n \in Kinds : KindInv(n)'
  BY <1>3, <1>5, <1>7, Frame
<1>4. \A j \in Requests : RequestMatchesObject(j)' /\ req'[j] \in RequestType
  <2>1. /\ req[i].step = "write"
        /\ req' = [j \in Requests |->
                      IF j # i THEN Disturbed(req[j], k)
                      ELSE IF req[i].op = "Bind" THEN [req[i] EXCEPT !.step = "status"] ELSE Idle]
    BY <1>1 DEF Create, Patch, Written
  <2>2. ASSUME NEW j \in Requests, j # i PROVE RequestMatchesObject(j)' /\ req'[j] \in RequestType
    <3>1. req'[j] = Disturbed(req[j], k) /\ req[j] \in RequestType
      BY <2>1, <2>2 DEF TypeOK
    <3> QED
      BY <1>5, <3>1, DisturbedFrame
  <2>3. ASSUME req[i].op = "Bind" PROVE RequestMatchesObject(i)' /\ req'[i] \in RequestType
    <3>1. req'[i] = [req[i] EXCEPT !.step = "status"]
      BY <2>1, <2>3
    <3>2. /\ req'[i].step = "status" /\ req'[i].params = req[i].params /\ req'[i].op = req[i].op
          /\ req'[i] \in RequestType
      BY <1>2, <3>1 DEF RequestType
    <3>4. req[i].params \in Params
      BY <2>1 DEF RequestMatchesObject
    <3>3. obj'[k].params = req[i].params
      <4>1. CASE Create(i)
        BY <1>1, <1>2, <4>1 DEF Create, NoObject
      <4>2. CASE Patch(i)
        <5>1. obj[k] \in ObjectType
          BY <1>1, <1>2
        <5>2. CASE obj[k].params = req[i].params
          BY <1>1, <4>2, <5>2 DEF Patch
        <5>3. CASE obj[k].params # req[i].params
          <6>1. obj'[k] = [obj[k] EXCEPT !.params = req[i].params, !.generation = @ + 1]
            BY <1>1, <1>2, <4>2, <5>3 DEF Patch
          <6> QED
            BY <5>1, <6>1 DEF ObjectType
        <5> QED
          BY <5>2, <5>3
      <4> QED
        BY <4>1, <4>2
    <3> QED
      BY <1>1, <2>1, <2>3, <3>2, <3>3, <3>4 DEF RequestMatchesObject
  <2>4. ASSUME req[i].op # "Bind" PROVE RequestMatchesObject(i)' /\ req'[i] \in RequestType
    <3>1. req'[i] = Idle
      BY <2>1, <2>4
    <3>2. req'[i].step = "none" /\ req'[i] \in RequestType
      BY <3>1, ConstantTypes DEF Idle
    <3> QED
      BY <3>2 DEF RequestMatchesObject
  <2> QED
    BY <2>2, <2>3, <2>4
<1>9. TypeOK'
  <2>2. req' \in [Requests -> RequestType]
    BY <1>4 DEF Create, Patch, Written
  <2>1. obj' \in [Kinds -> ObjectType]
    <3>1. \A n \in Kinds : obj'[n] \in ObjectType
      BY <1>2, <1>5, <1>7
    <3>2. obj' = [n \in Kinds |-> obj'[n]]
      BY <1>2 DEF Create, Patch
    <3> QED
      BY <3>1, <3>2
  <2> QED
    BY <1>3, <2>1, <2>2 DEF TypeOK
<1> QED
  BY <1>4, <1>8, <1>9

\* Deprovision and Unbind mark the object, or remove one BTP does not know of.
LEMMA DeleteKeeps ==
    ASSUME IndInv, NEW k \in Kinds, Delete(k)
    PROVE  IndInv'
<1> USE DEF IndInv
<1> DEFINE o == obj[k]
           q == obj'[k]
<1>1. o \in ObjectType /\ KindInv(k) /\ work[k] \in WorkType
  BY DEF TypeOK
<1>2. UNCHANGED <<secret, real, work, failed, failures>>
  BY DEF Delete
<1>3. \A n \in Kinds \ {k} : obj'[n] = obj[n]
  BY DEF Delete, TypeOK
<1>4. q \in ObjectType /\ KindInv(k)'
  <2>1. CASE ~o.exists \/ ~o.finalizer
    <3>1. q = NoObject
      BY <2>1 DEF Delete, Deleted, TypeOK
    <3>2. ~o.finalizer
      BY <1>1, <2>1 DEF KindInv, UnknownToBTP
    <3>3. There(k, NoParams)' /\ work'[k] = NoWork
      BY <1>1, <1>2, <3>2 DEF KindInv, UnknownToBTP, There
    <3>4. /\ ~q.exists /\ ~q.finalizer /\ ~q.deleting
          /\ \A t \in {"Succeeded", "Failed"} : ~q.conditions[t].status
      BY <3>1 DEF NoObject, NoCondition
    <3> QED
      BY <3>1, <3>3, <3>4, ConstantTypes
      DEF KindInv, UnknownToBTP, WorkMatchesObject, ConditionsMatchObject, LatestTrue
  <2>2. CASE o.exists /\ o.finalizer /\ o.deleting
    <3>1. q = o
      BY <2>2 DEF Delete, Deleted, TypeOK
    <3> QED
      BY <1>1, <1>2, <3>1, Frame
  <2>3. CASE o.exists /\ o.finalizer /\ ~o.deleting
    <3>1. q = [o EXCEPT !.deleting = TRUE, !.generation = @ + 1]
      BY <2>3 DEF Delete, Deleted, TypeOK
    <3>2. /\ q.deleting = TRUE /\ q.generation = o.generation + 1 /\ q.params = o.params
          /\ q.finalizer = o.finalizer /\ q.exists = o.exists /\ q.conditions = o.conditions
      BY <1>1, <3>1 DEF ObjectType
    <3>3. o.generation \in Nat /\ o.generation + 1 \in Nat
      BY <1>1 DEF ObjectType
    <3>4. q \in ObjectType
      BY <1>1, <3>1, <3>3 DEF ObjectType
    <3>5. \A t \in {"Succeeded", "Failed"} : o.conditions[t].observed \in Nat
      BY <1>1 DEF ObjectType
    <3>6. UnknownToBTP(k)'
      BY <1>1, <1>2, <2>3, <3>2 DEF KindInv, UnknownToBTP, There
    <3>7. WorkMatchesObject(k)'
      BY <1>1, <1>2, <3>2, <3>3 DEF KindInv, WorkMatchesObject, There, WorkType
    <3>8. ConditionsMatchObject(k)'
      BY <1>1, <1>2, <3>2, <3>3, <3>5 DEF KindInv, ConditionsMatchObject, LatestTrue
    <3> QED
      BY <3>4, <3>6, <3>7, <3>8 DEF KindInv
  <2> QED
    BY <2>1, <2>2, <2>3, <1>1 DEF ObjectType
<1>5. \A n \in Kinds : KindInv(n)'
  BY <1>2, <1>3, <1>4, Frame
<1>6. obj' \in [Kinds -> ObjectType]
  BY <1>1, <1>3, <1>4 DEF TypeOK, Delete
<1>7. requests' \in Nat
  BY DEF TypeOK, Delete
<1>8. ASSUME NEW j \in Requests PROVE RequestMatchesObject(j)' /\ req'[j] \in RequestType
  <2>1. req'[j] = Disturbed(req[j], k) /\ req[j] \in RequestType
    BY DEF Delete, TypeOK
  <2> QED
    BY <1>3, <2>1, DisturbedFrame
<1>9. req' \in [Requests -> RequestType]
  BY <1>8 DEF Delete
<1> QED
  BY <1>2, <1>5, <1>6, <1>7, <1>8, <1>9 DEF TypeOK

\* The BTP operator begins: whatever was reported before is withdrawn.
LEMMA StartKeeps ==
    ASSUME IndInv, NEW k \in Kinds, OperatorStarts(k)
    PROVE  IndInv'
<1> USE DEF IndInv
<1> DEFINE o == obj[k]
           q == obj'[k]
           r == Report(o, FALSE, FALSE, o.generation)
           t == Task(o, real[k])
           w == [type |-> t, generation |-> o.generation, params |-> o.params, applied |-> FALSE]
<1>1. o \in ObjectType /\ KindInv(k) /\ o.generation \in Nat
  BY DEF TypeOK, ObjectType
<1>2. /\ o.exists
      /\ work' = [work EXCEPT ![k] = w]
      /\ obj' = [obj EXCEPT ![k] = [r EXCEPT !.finalizer = TRUE, !.opType = t]]
      /\ UNCHANGED <<req, secret, real, failed, requests, failures>>
  BY DEF OperatorStarts
<1>3. t \in {"create", "update", "delete"} /\ (o.deleting <=> t = "delete")
  BY DEF Task
<1>4. w \in WorkType /\ w # NoWork /\ w.type # "none"
  BY <1>1, <1>3 DEF WorkType, ObjectType, NoWork
<1>12. /\ r \in ObjectType
       /\ r.exists = o.exists /\ r.generation = o.generation /\ r.params = o.params
       /\ r.deleting = o.deleting
       /\ r.conditions["Succeeded"].status = FALSE
       /\ r.conditions["Failed"].status = FALSE
  <2>1. PICK no \in BOOLEAN : no = FALSE
    OBVIOUS
  <2>2. r = Report(o, no, no, o.generation)
    BY <2>1
  <2> HIDE DEF r
  <2> QED
    BY <1>1, <2>1, <2>2, ReportEffect
<1>13. q = [r EXCEPT !.finalizer = TRUE, !.opType = t]
  BY <1>2 DEF TypeOK
<1> HIDE DEF r, t
<1>5. /\ q.exists = o.exists /\ q.generation = o.generation /\ q.params = o.params
      /\ q.deleting = o.deleting /\ q.finalizer = TRUE /\ q.conditions = r.conditions
  BY <1>12, <1>13 DEF ObjectType
<1>6. q \in ObjectType
  BY <1>3, <1>12, <1>13 DEF ObjectType
<1>7. \A c \in {"Succeeded", "Failed"} : q.conditions[c].status = FALSE
  BY <1>5, <1>12
<1>8. KindInv(k)'
  <2>1. UnknownToBTP(k)'
    BY <1>1, <1>2, <1>5 DEF KindInv, UnknownToBTP
  <2>2. ConditionsMatchObject(k)'
    BY <1>7 DEF ConditionsMatchObject, LatestTrue
  <2>3. work'[k] = w
    BY <1>2 DEF TypeOK
  <2>5. /\ w.type = t /\ w.generation = o.generation /\ w.params = o.params
        /\ w.applied = FALSE
    OBVIOUS
  <2>4. WorkMatchesObject(k)'
    BY <1>1, <1>3, <1>4, <1>5, <1>7, <2>3, <2>5 DEF WorkMatchesObject
  <2> QED
    BY <2>1, <2>2, <2>4 DEF KindInv
<1>9. \A n \in Kinds \ {k} : obj'[n] = obj[n] /\ work'[n] = work[n]
  BY <1>2 DEF TypeOK
<1>10. \A n \in Kinds : KindInv(n)'
  BY <1>2, <1>8, <1>9, Frame
<1>11. obj' \in [Kinds -> ObjectType] /\ work' \in [Kinds -> WorkType]
  BY <1>2, <1>4, <1>6 DEF TypeOK
<1>14. ~LatestTrue(o, "Succeeded")
  BY <1>1 DEF OperatorStarts, UpToDate, LatestTrue, KindInv, ConditionsMatchObject
<1>15. ASSUME NEW j \in Requests PROVE RequestMatchesObject(j)'
  <2>1. KindOf(req[j].op) \in Kinds /\ req'[j] = req[j]
    BY <1>2 DEF KindOf, Kinds
  <2>2. CASE KindOf(req[j].op) = k
    BY <1>5, <1>14, <2>1, <2>2, RequestFrame
  <2>3. CASE KindOf(req[j].op) # k
    BY <1>9, <2>1, <2>3, RequestFrame
  <2> QED
    BY <2>2, <2>3
<1> QED
  BY <1>2, <1>10, <1>11, <1>15 DEF TypeOK

\* BTP does the work: nothing has been reported since it began.
LEMMA ApplyKeeps ==
    ASSUME IndInv, NEW k \in Kinds, OperatorApplies(k)
    PROVE  IndInv'
<1> USE DEF IndInv
<1> DEFINE w == work[k]
           p == IF w.type = "delete" THEN NoParams ELSE w.params
<1>1. w \in WorkType /\ KindInv(k) /\ w # NoWork /\ ~w.applied
  BY DEF TypeOK, OperatorApplies
<1>2. /\ real' = [real EXCEPT ![k] = p]
      /\ secret' = IF k = "binding" THEN p ELSE secret
      /\ work' = [work EXCEPT ![k].applied = TRUE]
      /\ UNCHANGED <<obj, req, failed, requests, failures>>
  BY DEF OperatorApplies
<1>3. p \in Params \cup {NoParams}
  BY <1>1 DEF WorkType
<1>4. /\ work'[k].type = w.type /\ work'[k].generation = w.generation
      /\ work'[k].params = w.params /\ work'[k] \in WorkType
  BY <1>1, <1>2 DEF TypeOK, WorkType
<1>5. There(k, p)'
  BY <1>2 DEF There, TypeOK
<1>6. KindInv(k)'
  <2>1. UnknownToBTP(k)'
    BY <1>1, <1>2 DEF KindInv, UnknownToBTP
  <2>2. ConditionsMatchObject(k)'
    BY <1>1, <1>2 DEF KindInv, WorkMatchesObject, ConditionsMatchObject, LatestTrue
  <2>3. w.type # "none"
    BY <1>1 DEF KindInv, WorkMatchesObject
  <2>4. WorkMatchesObject(k)'
    BY <1>1, <1>2, <1>4, <1>5, <2>3 DEF KindInv, WorkMatchesObject, There
  <2> QED
    BY <2>1, <2>2, <2>4 DEF KindInv
<1>7. \A n \in Kinds \ {k} : real'[n] = real[n] /\ work'[n] = work[n]
  BY <1>2 DEF TypeOK
<1>8. \A n \in Kinds : KindInv(n)'
  BY <1>2, <1>6, <1>7, Frame
<1>9. /\ work' \in [Kinds -> WorkType] /\ real' \in [Kinds -> Params \cup {NoParams}]
      /\ secret' \in Params \cup {NoParams}
  BY <1>2, <1>3, <1>4 DEF TypeOK
<1>10. \A j \in Requests : RequestMatchesObject(j)'
  BY <1>2, RequestFrame
<1> QED
  BY <1>2, <1>8, <1>9, <1>10 DEF TypeOK

\* The work is done and reported. If the object has changed meanwhile, the report
\* is about an earlier generation and nobody will believe it.
LEMMA ReportKeeps ==
    ASSUME IndInv, NEW k \in Kinds, OperatorReports(k)
    PROVE  IndInv'
<1> USE DEF IndInv
<1> DEFINE o == obj[k]
           q == obj'[k]
           w == work[k]
           r == Report(o, TRUE, FALSE, w.generation)
<1>1. o \in ObjectType /\ w \in WorkType /\ KindInv(k) /\ w.applied
  BY DEF TypeOK, OperatorReports
<1>2. /\ obj' = [obj EXCEPT ![k] = IF w.type = "delete" THEN NoObject ELSE r]
      /\ work' = [work EXCEPT ![k] = NoWork]
      /\ UNCHANGED <<req, secret, real, failed, requests, failures>>
  BY DEF OperatorReports
<1>3. w # NoWork
  BY <1>1 DEF NoWork
<1>4. q \in ObjectType /\ KindInv(k)'
  <2>1. work'[k] = NoWork
    BY <1>2 DEF TypeOK
  <2>2. CASE w.type = "delete"
    <3>1. q = NoObject
      BY <1>2, <2>2 DEF TypeOK
    <3>2. There(k, NoParams)'
      BY <1>1, <1>2, <1>3, <2>2 DEF KindInv, WorkMatchesObject, There
    <3>3. /\ ~q.exists /\ ~q.finalizer /\ ~q.deleting
          /\ \A t \in {"Succeeded", "Failed"} : ~q.conditions[t].status
      BY <3>1 DEF NoObject, NoCondition
    <3> QED
      BY <2>1, <3>1, <3>2, <3>3, ConstantTypes
      DEF KindInv, UnknownToBTP, WorkMatchesObject, ConditionsMatchObject, LatestTrue
  <2>3. CASE w.type # "delete"
    <3>1. /\ r \in ObjectType
          /\ r.exists = o.exists /\ r.generation = o.generation /\ r.params = o.params
          /\ r.deleting = o.deleting /\ r.finalizer = o.finalizer
          /\ r.conditions["Succeeded"].observed = w.generation
          /\ r.conditions["Failed"].status = FALSE
      <4>1. PICK yes \in BOOLEAN, no \in BOOLEAN : yes = TRUE /\ no = FALSE
        OBVIOUS
      <4>2. r = Report(o, yes, no, w.generation)
        BY <4>1
      <4>3. w.generation \in Nat
        BY <1>1 DEF WorkType
      <4> HIDE DEF r, o, w
      <4>4. /\ r \in ObjectType
           /\ r.exists = o.exists /\ r.generation = o.generation /\ r.params = o.params
           /\ r.deleting = o.deleting /\ r.finalizer = o.finalizer
        BY <1>1, <4>2, <4>3, ReportEffect
      <4>5. /\ r.conditions["Failed"].observed = w.generation
           /\ r.conditions["Succeeded"].observed = w.generation
           /\ r.conditions["Failed"].status = no
           /\ r.conditions["Succeeded"].status = yes
        BY <1>1, <4>2, <4>3, ReportEffect
      <4> QED
        BY <4>1, <4>4, <4>5
    <3>2. q = r
      BY <1>2, <2>3 DEF TypeOK
    <3> HIDE DEF r
    <3>3. /\ o.finalizer
          /\ w.generation <= o.generation
          /\ real'[k] = w.params /\ (k = "binding" => secret' = w.params)
      <4>1. o.finalizer
        BY <1>1, <1>3 DEF KindInv, UnknownToBTP
      <4>2. w.generation <= o.generation
        BY <1>1, <1>3 DEF KindInv, WorkMatchesObject
      <4>3. There(k, w.params)
        BY <1>1, <1>3, <2>3 DEF KindInv, WorkMatchesObject
      <4> QED
        BY <1>2, <4>1, <4>2, <4>3 DEF There
    <3>4. UnknownToBTP(k)'
      BY <1>1, <3>1, <3>2, <3>3 DEF KindInv, UnknownToBTP
    <3>5. WorkMatchesObject(k)'
      BY <2>1 DEF WorkMatchesObject
    <3>6. w.generation = o.generation => w.params = o.params /\ ~o.deleting
      BY <1>1, <1>3, <2>3 DEF KindInv, WorkMatchesObject
    <3>7. ConditionsMatchObject(k)'
      <4>1. q.generation = o.generation /\ q.params = o.params /\ q.deleting = o.deleting
        BY <3>1, <3>2
      <4>2. ~q.conditions["Failed"].status /\ q.conditions["Succeeded"].observed = w.generation
        BY <3>1, <3>2
      <4>3. LatestTrue(q, "Succeeded") =>
                /\ real'[k] = q.params /\ (k = "binding" => secret' = q.params)
                /\ ~q.deleting
        BY <3>3, <3>6, <4>1, <4>2 DEF LatestTrue
      <4> QED
        BY <3>3, <4>1, <4>2, <4>3 DEF ConditionsMatchObject, LatestTrue, There
    <3> QED
      BY <3>1, <3>2, <3>4, <3>5, <3>7 DEF KindInv
  <2> QED
    BY <2>2, <2>3
<1>5. \A n \in Kinds \ {k} : obj'[n] = obj[n] /\ work'[n] = work[n]
  BY <1>2 DEF TypeOK
<1>6. \A n \in Kinds : KindInv(n)'
  BY <1>2, <1>4, <1>5, Frame
<1>7. obj' \in [Kinds -> ObjectType] /\ work' \in [Kinds -> WorkType]
  BY <1>2, <1>4, <1>5, ConstantTypes DEF TypeOK
<1>8. ~LatestTrue(o, "Succeeded")
  BY <1>1, <1>3 DEF KindInv, WorkMatchesObject, LatestTrue
<1>9. q.exists => o.exists /\ q.params = o.params
  <2>1. CASE w.type = "delete"
    BY <1>2, <2>1 DEF TypeOK, NoObject
  <2>2. CASE w.type # "delete"
    BY <1>1, <1>2, <2>2 DEF TypeOK, Report, ObjectType
  <2> QED
    BY <2>1, <2>2
<1>10. ASSUME NEW j \in Requests PROVE RequestMatchesObject(j)'
  <2>1. KindOf(req[j].op) \in Kinds /\ req'[j] = req[j]
    BY <1>2 DEF KindOf, Kinds
  <2>2. CASE KindOf(req[j].op) = k
    BY <1>8, <1>9, <2>1, <2>2, RequestFrame
  <2>3. CASE KindOf(req[j].op) # k
    BY <1>5, <2>1, <2>3, RequestFrame
  <2> QED
    BY <2>2, <2>3
<1> QED
  BY <1>2, <1>6, <1>7, <1>10 DEF TypeOK

\* The work has failed and that is reported, about the generation it was for.
LEMMA FailureKeeps ==
    ASSUME IndInv, NEW k \in Kinds, OperatorGivesUp(k), failures' \in Nat
    PROVE  IndInv'
<1> USE DEF IndInv
<1> DEFINE o == obj[k]
           q == obj'[k]
           w == work[k]
           r == Report(o, FALSE, TRUE, w.generation)
<1>1. o \in ObjectType /\ w \in WorkType /\ KindInv(k) /\ w # NoWork
  BY DEF TypeOK, OperatorGivesUp
<1>2. /\ obj' = [obj EXCEPT ![k] = r]
      /\ failed' = [failed EXCEPT ![k] = w]
      /\ work' = [work EXCEPT ![k] = NoWork]
      /\ UNCHANGED <<req, secret, real, requests>>
  BY DEF OperatorGivesUp
<1>3. /\ r \in ObjectType
      /\ r.exists = o.exists /\ r.generation = o.generation /\ r.params = o.params
      /\ r.deleting = o.deleting /\ r.finalizer = o.finalizer
      /\ r.conditions["Failed"].observed = w.generation
      /\ r.conditions["Succeeded"].status = FALSE
  <2>1. PICK yes \in BOOLEAN, no \in BOOLEAN : yes = TRUE /\ no = FALSE
    OBVIOUS
  <2>2. r = Report(o, no, yes, w.generation)
    BY <2>1
  <2>3. w.generation \in Nat
    BY <1>1 DEF WorkType
  <2> HIDE DEF r, o, w
  <2>4. /\ r \in ObjectType
       /\ r.exists = o.exists /\ r.generation = o.generation /\ r.params = o.params
       /\ r.deleting = o.deleting /\ r.finalizer = o.finalizer
    BY <1>1, <2>2, <2>3, ReportEffect
  <2>5. /\ r.conditions["Failed"].observed = w.generation
       /\ r.conditions["Succeeded"].observed = w.generation
       /\ r.conditions["Failed"].status = yes
       /\ r.conditions["Succeeded"].status = no
    BY <1>1, <2>2, <2>3, ReportEffect
  <2> QED
    BY <2>1, <2>4, <2>5
<1> HIDE DEF r
<1>4. q = r /\ work'[k] = NoWork /\ failed'[k] = w
  BY <1>2 DEF TypeOK
<1>5. KindInv(k)'
  <2>1. o.finalizer /\ w.generation <= o.generation
    BY <1>1 DEF KindInv, UnknownToBTP, WorkMatchesObject
  <2>2. UnknownToBTP(k)'
    BY <1>1, <1>3, <1>4, <2>1 DEF KindInv, UnknownToBTP
  <2>3. WorkMatchesObject(k)'
    BY <1>4 DEF WorkMatchesObject
  <2>4. w.generation = o.generation =>
            w.params = o.params /\ (o.deleting <=> w.type = "delete")
    BY <1>1 DEF KindInv, WorkMatchesObject
  <2>5. ConditionsMatchObject(k)'
    BY <1>3, <1>4, <2>1, <2>4 DEF ConditionsMatchObject, LatestTrue
  <2> QED
    BY <2>2, <2>3, <2>5 DEF KindInv
<1>6. \A n \in Kinds \ {k} : obj'[n] = obj[n] /\ work'[n] = work[n] /\ failed'[n] = failed[n]
  BY <1>2 DEF TypeOK
<1>7. \A n \in Kinds : KindInv(n)'
  BY <1>2, <1>5, <1>6, Frame
<1>8. /\ obj' \in [Kinds -> ObjectType] /\ work' \in [Kinds -> WorkType]
      /\ failed' \in [Kinds -> WorkType]
  BY <1>1, <1>2, <1>3, ConstantTypes DEF TypeOK
<1>9. ~LatestTrue(o, "Succeeded")
  BY <1>1 DEF KindInv, WorkMatchesObject, LatestTrue
<1>10. ASSUME NEW j \in Requests PROVE RequestMatchesObject(j)'
  <2>1. KindOf(req[j].op) \in Kinds /\ req'[j] = req[j]
    BY <1>2 DEF KindOf, Kinds
  <2>2. CASE KindOf(req[j].op) = k
    BY <1>3, <1>4, <1>9, <2>1, <2>2, RequestFrame
  <2>3. CASE KindOf(req[j].op) # k
    BY <1>6, <2>1, <2>3, RequestFrame
  <2> QED
    BY <2>2, <2>3
<1> QED
  BY <1>2, <1>7, <1>8, <1>10 DEF TypeOK

-----------------------------------------------------------------------------
(* The theorems.                                                           *)

\* IndInv holds whatever requests arrive and however they interleave.
THEOREM Invariance == Spec => []IndInv
<1>1. Init => IndInv
  <2> SUFFICES ASSUME Init PROVE IndInv
    OBVIOUS
  <2>1. TypeOK
    BY ConstantTypes DEF Init, TypeOK
  <2>2. \A k \in Kinds : KindInv(k)
    BY DEF Init, NoObject, NoCondition, NoWork, KindInv, UnknownToBTP, WorkMatchesObject,
           ConditionsMatchObject, LatestTrue, There, Kinds
  <2>3. \A i \in Requests : RequestMatchesObject(i)
    BY DEF Init, Idle, RequestMatchesObject
  <2> QED
    BY <2>1, <2>2, <2>3 DEF IndInv
<1>2. IndInv /\ [Next]_vars => IndInv'
  <2> SUFFICES ASSUME IndInv, [Next]_vars PROVE IndInv'
    OBVIOUS
  <2>1. CASE \E i \in Requests : Handle(i)
    BY <2>1, RequestsKeep, WriteKeeps DEF Handle
  <2>2. CASE Platform
    BY <2>2, RequestsKeep, DeleteKeeps DEF Platform, Deprovision, Unbind, Kinds
  <2>3. ASSUME NEW k \in Kinds, Operator(k) PROVE IndInv'
    <3>1. CASE OperatorFails(k)
      <4>1. failures' \in Nat
        BY <3>1 DEF OperatorFails, Failure, IndInv, TypeOK
      <4> QED
        BY <3>1, <4>1, FailureKeeps DEF OperatorFails
    <3> QED
      BY <2>3, <3>1, StartKeeps, ApplyKeeps, ReportKeeps DEF Operator
  <2>4. CASE OperatorRefused
    <3>1. failures' \in Nat /\ "instance" \in Kinds
      BY <2>4 DEF OperatorRefused, IndInv, TypeOK, Kinds
    <3> QED
      BY <2>4, <3>1, FailureKeeps DEF OperatorRefused
  <2>5. CASE UNCHANGED vars
    <3>1. \A k \in Kinds : KindInv(k)'
      BY <2>5, Frame DEF vars, IndInv
    <3>2. \A i \in Requests : RequestMatchesObject(i)'
      BY <2>5, RequestFrame DEF vars, IndInv
    <3> QED
      BY <2>5, <3>1, <3>2 DEF vars, IndInv, TypeOK
  <2> QED
    BY <2>1, <2>2, <2>3, <2>4, <2>5 DEF Next
<1> QED
  BY <1>1, <1>2, PTL DEF Spec

\* The operation data leads every poll to the answer it asks for.
LEMMA PollAnswers ==
    \A k \in Kinds : CreationPoll(k) = CreateAnswer(obj[k]) /\ DeletionPoll(k) = DeleteAnswer(obj[k])
BY DEF Kinds, CreationPoll, DeletionPoll, LastOperation, LastBindingOperation

\* "succeeded", told to a poll of a provision or bind, is true, and the credentials
\* that a Bind answers with are its own unless another request has written the binding.
THEOREM SuccessTrue == Spec => []SucceededIsReal
<1>1. ASSUME IndInv, NEW k \in Kinds, CreationPoll(k) = "succeeded"
      PROVE  There(k, obj[k].params) /\ ~obj[k].deleting
  <2>1. LatestTrue(obj[k], "Succeeded")
    BY <1>1, PollAnswers DEF CreateAnswer
  <2> QED
    BY <1>1, <2>1 DEF IndInv, KindInv, ConditionsMatchObject
<1>2. IndInv => CredentialsAreOwn
  BY DEF IndInv, CredentialsAreOwn, RequestMatchesObject
<1>3. IndInv => SucceededIsReal
  BY <1>1, <1>2 DEF SucceededIsReal, There
<1> QED
  BY <1>3, Invariance, PTL

\* "succeeded", told to a poll of a deprovision or unbind, is true.
THEOREM DeletionTrue == Spec => []DeletedIsGone
<1>1. IndInv => DeletedIsGone
  BY PollAnswers DEF IndInv, DeletedIsGone, DeleteAnswer, KindInv, UnknownToBTP, There
<1> QED
  BY <1>1, Invariance, PTL

\* "failed", told to a poll, is about the operation it polls for.
THEOREM FailureTrue == Spec => []FailureIsFresh
<1>1. IndInv => FailureIsFresh
  BY PollAnswers DEF IndInv, FailureIsFresh, CreateAnswer, DeleteAnswer, KindInv,
                     ConditionsMatchObject
<1> QED
  BY <1>1, Invariance, PTL

-----------------------------------------------------------------------------
(* What is put into a catalog.                                             *)

\* What toCatalog lists: the offerings it was given, each with those of the
\* plans it was given that belong to it; nothing at all if something does not
\* parse.
LEMMA CatalogLemma ==
    ASSUME NEW os \in [Offerings -> {"absent", "good", "bad"}], NEW ps \in [Plans -> {"absent", "good", "bad"}]
    PROVE  /\ toCatalog(os, ps).kind \in {"error", "ok"}
           /\ toCatalog(os, ps).catalog \subseteq [service : Offerings, plans : SUBSET Plans]
           /\ \A entry \in toCatalog(os, ps).catalog :
                 /\ entry.plans = {p \in Plans : ps[p] # "absent" /\ OfferingOf[p] = entry.service}
                 /\ os[entry.service] # "absent"
           /\ toCatalog(os, ps).kind = "ok" =>
                 {entry.service : entry \in toCatalog(os, ps).catalog} = {o \in Offerings : os[o] # "absent"}
<1> DEFINE Catalog == {[service |-> o, plans |-> selectPlansForOffering(o, ps)] : o \in Listed(os)}
<1>1. Listed(os) = {o \in Offerings : os[o] # "absent"} /\ Listed(ps) = {p \in Plans : ps[p] # "absent"}
  BY DEF Listed
<1>2. \A o \in Listed(os) :
         selectPlansForOffering(o, ps) = {p \in Plans : ps[p] # "absent" /\ OfferingOf[p] = o}
  BY <1>1 DEF selectPlansForOffering
<1>3. \A entry \in Catalog :
         /\ entry \in [service : Offerings, plans : SUBSET Plans]
         /\ entry.plans = {p \in Plans : ps[p] # "absent" /\ OfferingOf[p] = entry.service}
         /\ os[entry.service] # "absent"
  BY <1>1, <1>2
<1>4. {entry.service : entry \in Catalog} = {o \in Offerings : os[o] # "absent"}
  <2>1. ASSUME NEW o \in Listed(os) PROVE \E entry \in Catalog : entry.service = o
    <3>1. [service |-> o, plans |-> selectPlansForOffering(o, ps)] \in Catalog
      OBVIOUS
    <3> QED
      BY <3>1
  <2>2. \A entry \in Catalog : entry.service \in Listed(os)
    OBVIOUS
  <2> QED
    BY <1>1, <2>1, <2>2
<1>5. toCatalog(os, ps) \in {[kind |-> "ok", catalog |-> Catalog], CatalogError}
  BY DEF toCatalog
<1>6. CASE toCatalog(os, ps) = [kind |-> "ok", catalog |-> Catalog]
  <2> HIDE DEF Catalog
  <2> QED
    BY <1>3, <1>4, <1>6
<1>7. CASE toCatalog(os, ps) = CatalogError
  BY <1>7 DEF CatalogError
<1> QED
  BY <1>5, <1>6, <1>7

-----------------------------------------------------------------------------
(* The inductive invariant of the catalog.                                 *)

\* The initial states satisfy it.
LEMMA CatalogInitInv == CatalogInit => CatalogInv
<1> SUFFICES ASSUME CatalogInit PROVE CatalogInv
  OBVIOUS
<1>1. smPlans \in [Plans -> {"absent", "good", "bad"}] /\ ListsBelongTogether
  BY CatalogAssumption DEF CatalogInit, ListsBelongTogether
<1> QED
  BY <1>1, CatalogAssumption DEF CatalogInit, CatalogInv, CatalogTypeOK, NoCatalog

\* Every step preserves it.
LEMMA CatalogNextInv == CatalogInv /\ [CatalogNext]_catalogVars => CatalogInv'
<1> SUFFICES ASSUME CatalogInv, [CatalogNext]_catalogVars PROVE CatalogInv'
  OBVIOUS
<1> USE CatalogAssumption DEF CatalogInv, manager, request
<1>1. CASE Start
  BY <1>1 DEF Start, CatalogTypeOK, ListsBelongTogether
<1>2. CASE LoadCredentials
  BY <1>2 DEF LoadCredentials, CatalogTypeOK, ListsBelongTogether
<1>3. CASE Crash
  BY <1>3 DEF Crash, Reply, NoCatalog, CatalogTypeOK, ListsBelongTogether
<1>4. CASE ListOfferings
  BY <1>4 DEF ListOfferings, CatalogTypeOK, ListsBelongTogether
<1>5. CASE ListPlans
  <2>1. /\ answer'.kind \in {"none", "error", "ok"}
        /\ answer'.catalog \subseteq [service : Offerings, plans : SUBSET Plans]
    BY <1>5, CatalogLemma DEF ListPlans, Reply, CatalogTypeOK
  <2> QED
    BY <1>5, <2>1 DEF ListPlans, Reply, CatalogTypeOK, ListsBelongTogether
<1>6. CASE ListFails
  BY <1>6 DEF ListFails, Reply, CatalogError, CatalogTypeOK, ListsBelongTogether
<1>7. CASE ManagerChanges
  <2>1. /\ smOfferings' \in [Offerings -> {"absent", "good", "bad"}]
        /\ smPlans' \in [Plans -> {"absent", "good", "bad"}]
    BY <1>7 DEF ManagerChanges, CatalogTypeOK
  <2>2. \A p \in Plans : smPlans'[p] # "absent" => smOfferings'[OfferingOf[p]] # "absent"
    BY <1>7 DEF ManagerChanges, CatalogTypeOK, ListsBelongTogether
  <2>3. quiet' = FALSE /\ changes' \in 0 .. MaxChanges
    BY <1>7 DEF ManagerChanges, CatalogTypeOK
  <2>4. UNCHANGED <<smSecret, proc, creds, pc, offerings, answer, rotations, faults>>
    BY <1>7 DEF ManagerChanges
  <2> QED
    BY <2>1, <2>2, <2>3, <2>4 DEF CatalogTypeOK, ListsBelongTogether
<1>8. CASE SecretAppears
  BY <1>8 DEF SecretAppears, CatalogTypeOK, ListsBelongTogether
<1>9. CASE Rotate
  BY <1>9 DEF Rotate, CatalogTypeOK, ListsBelongTogether
<1>10. CASE UNCHANGED catalogVars
  BY <1>10 DEF catalogVars, CatalogTypeOK, ListsBelongTogether
<1> QED
  BY <1>1, <1>2, <1>3, <1>4, <1>5, <1>6, <1>7, <1>8, <1>9, <1>10 DEF CatalogNext, Process, Services

\* The broker never serves without credentials, the Service Manager never shows
\* a plan without its offering, and a call that was not disturbed knows the
\* offerings that are there.
THEOREM CatalogInvariance == CatalogSpec => []CatalogInv
  BY CatalogInitInv, CatalogNextInv, PTL DEF CatalogSpec

-----------------------------------------------------------------------------
(* What the catalog endpoint answers.                                      *)

\* Only ListPlans answers with something in it.
LEMMA AnswerLemma ==
    ASSUME CatalogInv, [CatalogNext]_catalogVars, answer' # answer
    PROVE  answer' \in {toCatalog(offerings, smPlans), CatalogError, NoCatalog}
  BY DEF CatalogNext, Process, Services, Start, LoadCredentials, Crash, ListOfferings, ListPlans, ListFails, Reply,
         ManagerChanges, SecretAppears, Rotate, catalogVars, request, manager

\* The platform is never offered a plan under another offering than its own, or
\* a pair that is not in the Service Manager, although the two lists are taken
\* at different times.
THEOREM PairsExist == CatalogSpec => OfferedPairsExist
<1>1. ASSUME CatalogInv, [CatalogNext]_catalogVars, answer' # answer,
             NEW service \in answer'.catalog, NEW p \in service.plans
      PROVE  /\ OfferingOf[p] = service.service
             /\ smPlans[p] # "absent" /\ smOfferings[service.service] # "absent"
  <2>1. answer' = toCatalog(offerings, smPlans)
    BY <1>1, AnswerLemma DEF CatalogError, NoCatalog
  <2>2. p \in Plans /\ smPlans[p] # "absent" /\ OfferingOf[p] = service.service
    BY <1>1, <2>1, CatalogLemma DEF CatalogInv, CatalogTypeOK
  <2> QED
    BY <1>1, <2>2 DEF CatalogInv, ListsBelongTogether
<1>2. CatalogInv /\ [CatalogNext]_catalogVars =>
        [answer' # answer =>
            \A service \in answer'.catalog : \A p \in service.plans :
                /\ OfferingOf[p] = service.service
                /\ smPlans[p] # "absent" /\ smOfferings[service.service] # "absent"]_catalogVars
  BY <1>1
<1> QED
  BY <1>2, CatalogInvariance, PTL DEF CatalogSpec, OfferedPairsExist

\* Nothing is missing in an answer unless the Service Manager changed under it.
THEOREM Whole == CatalogSpec => AnswerIsWhole
<1>1. ASSUME CatalogInv, [CatalogNext]_catalogVars, answer' # answer, answer'.kind = "ok", quiet
      PROVE  /\ \A service \in answer'.catalog :
                   service.plans = {p \in Plans : smPlans[p] # "absent" /\ OfferingOf[p] = service.service}
             /\ {service.service : service \in answer'.catalog} = {o \in Offerings : smOfferings[o] # "absent"}
  <2>1. answer' = toCatalog(offerings, smPlans)
    BY <1>1, AnswerLemma DEF CatalogError, NoCatalog
  <2>2. offerings = smOfferings
    BY <1>1 DEF CatalogInv, ListsBelongTogether
  <2> QED
    BY <1>1, <2>1, <2>2, CatalogLemma DEF CatalogInv, CatalogTypeOK
<1>2. CatalogInv /\ [CatalogNext]_catalogVars =>
        [answer' # answer /\ answer'.kind = "ok" /\ quiet =>
            /\ \A service \in answer'.catalog :
                  service.plans = {p \in Plans : smPlans[p] # "absent" /\ OfferingOf[p] = service.service}
            /\ {service.service : service \in answer'.catalog} = {o \in Offerings : smOfferings[o] # "absent"}]_catalogVars
  BY <1>1
<1> QED
  BY <1>2, CatalogInvariance, PTL DEF CatalogSpec, AnswerIsWhole

-----------------------------------------------------------------------------
(* The decoder of binding credentials.                                     *)

\* A Secret nobody has touched is the one the BTP operator wrote for the
\* credentials that BTP issued last.
IntactIsEncoded ==
    /\ credentials \in Credentials
    /\ intact => data = EncodedData(credentials) /\ metadata = bindingCredentialMetadata(credentials)

\* A credential survives being stored and read back, in whichever format, even
\* if its bytes could be read in the other one.
LEMMA RoundTrip ==
    ASSUME NEW v \in Values
    PROVE  /\ decodeProperty(IF v.type = "string" THEN "text" ELSE "json", Bytes(v)) = v
           /\ v # Missing
<1>1. CASE v \in {[type |-> "string", value |-> s] : s \in Strings}
  BY <1>1, CredentialsAssumption, MissingAssumption DEF decodeProperty, Bytes
<1>2. CASE v \in {[type |-> "json", value |-> Json[b]] : b \in DOMAIN Json}
  <2>1. PICK b \in DOMAIN Json : v = [type |-> "json", value |-> Json[b]]
    BY <1>2
  <2> DEFINE c == CHOOSE x \in DOMAIN Json : Json[x] = v.value
  <2>2. Bytes(v) = c
    BY <2>1 DEF Bytes
  <2>3. c \in DOMAIN Json /\ Json[c] = v.value
    BY <2>1
  <2> HIDE DEF c
  <2> QED
    BY <2>1, <2>2, <2>3, MissingAssumption DEF decodeProperty
<1> QED
  BY <1>1, <1>2 DEF Values

\* Decoding what was encoded gives the object back, none of it lost or changed.
LEMMA ObjectRoundTrip ==
    ASSUME NEW c \in Credentials
    PROVE  decodeSecretKeys(EncodedData(c), EncodedMetadata(c)) = [kind |-> "ok", object |-> c]
<1>1. PICK names \in SUBSET Names : c \in [names -> Values]
  BY DEF Credentials
<1>2. DOMAIN EncodedMetadata(c) = names
  BY <1>1 DEF EncodedMetadata
<1>3. ASSUME NEW n \in names
      PROVE  decodeProperty(EncodedMetadata(c)[n], EncodedData(c)[n]) = c[n] /\ c[n] # Missing
  <2>1. EncodedData(c)[n] = Bytes(c[n])
    BY <1>1 DEF EncodedData
  <2>2. EncodedMetadata(c)[n] = IF c[n].type = "string" THEN "text" ELSE "json"
    BY <1>1 DEF EncodedMetadata
  <2> QED
    BY <1>1, <2>1, <2>2, RoundTrip
<1>4. [n \in names |-> decodeProperty(EncodedMetadata(c)[n], EncodedData(c)[n])] = c
  BY <1>1, <1>3
<1> QED
  BY <1>2, <1>3, <1>4 DEF decodeSecretKeys

\* The invariant holds from the start and through every write.
LEMMA Intact == DecoderSpec => []IntactIsEncoded
<1>1. DecoderInit => IntactIsEncoded
  BY DEF DecoderInit, IntactIsEncoded
<1>2. IntactIsEncoded /\ [DecoderNext]_decoderVars => IntactIsEncoded'
  <2> SUFFICES ASSUME IntactIsEncoded, [DecoderNext]_decoderVars PROVE IntactIsEncoded'
    OBVIOUS
  <2>1. CASE DecodeBindingSecretData
    BY <2>1 DEF DecodeBindingSecretData, IntactIsEncoded
  <2>2. CASE Reissue
    BY <2>2 DEF Reissue, IntactIsEncoded
  <2>3. CASE Damage
    BY <2>3 DEF Damage, IntactIsEncoded
  <2>4. CASE UNCHANGED decoderVars
    BY <2>4 DEF decoderVars, IntactIsEncoded
  <2> QED
    BY <2>1, <2>2, <2>3, <2>4 DEF DecoderNext
<1> QED
  BY <1>1, <1>2, PTL DEF DecoderSpec

\* decodeSecretKeys answers with all that the metadata lists or with an error.
LEMMA NoHoles ==
    ASSUME NEW bytes, NEW formats
    PROVE  decodeSecretKeys(bytes, formats).kind = "ok"
               => DOMAIN decodeSecretKeys(bytes, formats).object = DOMAIN formats
  BY DEF decodeSecretKeys, DecodeError

\* Bind returns the original credentials object from a Secret as the BTP operator
\* wrote it, and never an object with holes from any other.
THEOREM Restored == DecoderSpec => OriginalIsRestored
<1>1. ASSUME IntactIsEncoded, [DecoderNext]_decoderVars, decoded' # decoded
      PROVE  /\ intact => decoded' = [kind |-> "ok", object |-> credentials]
             /\ decoded'.kind = "ok" => DOMAIN decoded'.object = DOMAIN metadata.formats
  <2>1. decoded' = IF metadata.kind # "ok" THEN DecodeError ELSE decodeSecretKeys(data, metadata.formats)
    BY <1>1 DEF DecoderNext, DecodeBindingSecretData, Reissue, Damage, decoderVars
  <2>2. intact => decoded' = [kind |-> "ok", object |-> credentials]
    <3> SUFFICES ASSUME intact PROVE decoded' = [kind |-> "ok", object |-> credentials]
      OBVIOUS
    <3>1. metadata.kind = "ok" /\ metadata.formats = EncodedMetadata(credentials)
      BY <1>1 DEF IntactIsEncoded, bindingCredentialMetadata
    <3>2. credentials \in Credentials /\ data = EncodedData(credentials)
      BY <1>1 DEF IntactIsEncoded
    <3> QED
      BY <2>1, <3>1, <3>2, ObjectRoundTrip
  <2>3. decoded'.kind = "ok" => DOMAIN decoded'.object = DOMAIN metadata.formats
    BY <2>1, NoHoles DEF DecodeError
  <2> QED
    BY <2>2, <2>3
<1>2. IntactIsEncoded /\ [DecoderNext]_decoderVars =>
        [decoded' # decoded =>
            /\ intact => decoded' = [kind |-> "ok", object |-> credentials]
            /\ decoded'.kind = "ok" => DOMAIN decoded'.object = DOMAIN metadata.formats]_decoderVars
  BY <1>1
<1> QED
  BY <1>2, Intact, PTL DEF DecoderSpec, OriginalIsRestored
=============================================================================

---------------------------- MODULE BrokerCatalog ---------------------------
(***************************************************************************)
(* The broker process (components/btp-service-broker/main.go): it reads    *)
(* its Service Manager credentials once, at the start, or exits and is     *)
(* started again. And its catalog endpoint (btp/broker.go): Services lists *)
(* offerings and then plans, two calls between which the Service Manager   *)
(* may change, and puts every plan under its offering.                     *)
(*                                                                         *)
(* Of the texts that are unmarshalled the model has whether they parse.    *)
(***************************************************************************)
EXTENDS Naturals, FiniteSets

CONSTANTS
    Offerings,   \* IDs of service offerings
    Plans,       \* IDs of service plans
    OfferingOf,  \* ServiceOfferingID of a plan
    Absent,      \* no secret, no credentials
    MaxChanges,  \* bound on changes in the Service Manager
    MaxRotations,\* bound on rotations of the credentials
    MaxFaults    \* bound on failing calls and crashes

ASSUME CatalogAssumption ==
    /\ OfferingOf \in [Plans -> Offerings]
    /\ MaxChanges \in Nat /\ MaxRotations \in Nat /\ MaxFaults \in Nat

VARIABLES
    smOfferings, \* in the Service Manager: "absent", "good" or "bad" (does not parse)
    smPlans,
    smSecret,    \* the secret sap-btp-manager: the credentials that are valid
    proc,        \* "down", "starting", "serving"
    creds,       \* what the process has read of the secret
    pc,          \* "idle", "plans": what the running Services call lists next
    offerings,   \* the offerings it has listed
    quiet,       \* history: nothing has changed since it did
    answer,      \* the last answer of the running process: none, an error, or a catalog
    changes, rotations, faults

manager == <<smOfferings, smPlans>>
request == <<pc, offerings, quiet, answer>>
catalogVars == <<manager, smSecret, proc, creds, request, changes, rotations, faults>>

NoCatalog == [kind |-> "none", catalog |-> {}]
CatalogError == [kind |-> "error", catalog |-> {}]

Listed(contents) == {x \in DOMAIN contents : contents[x] # "absent"}

CatalogInit ==
    /\ smOfferings \in [Offerings -> {"absent", "good"}]
    /\ smPlans = [p \in Plans |-> smOfferings[OfferingOf[p]]]
    /\ smSecret \in {Absent, 0}
    /\ proc = "down"
    /\ creds = Absent
    /\ pc = "idle"
    /\ offerings = smOfferings
    /\ quiet = TRUE
    /\ answer = NoCatalog
    /\ changes = 0
    /\ rotations = 0
    /\ faults = 0

Reply(a) ==
    /\ answer' = a
    /\ pc' = "idle"

-----------------------------------------------------------------------------
(* The process.                                                            *)

\* main: the configuration is loaded and the Kubernetes client made.
Start ==
    /\ proc = "down"
    /\ proc' = "starting"
    /\ UNCHANGED <<manager, smSecret, creds, request, changes, rotations, faults>>

\* Mutant of LoadCredentials: a missing secret is taken for an empty one.
LoadWhateverIsThere ==
    /\ proc = "starting"
    /\ creds' = smSecret
    /\ proc' = "serving"
    /\ UNCHANGED <<manager, smSecret, request, changes, rotations, faults>>

\* loadServiceManagerClientConfig, NewClient, ListenAndServe; os.Exit if there
\* is no secret.
LoadCredentials ==
    /\ proc = "starting"
    /\ creds' = smSecret
    /\ proc' = IF smSecret = Absent THEN "down" ELSE "serving"
    /\ UNCHANGED <<manager, smSecret, request, changes, rotations, faults>>

\* What was answered before says nothing about the process that comes next.
Crash ==
    /\ proc # "down"
    /\ faults < MaxFaults
    /\ faults' = faults + 1
    /\ proc' = "down"
    /\ Reply(NoCatalog)
    /\ UNCHANGED <<manager, smSecret, creds, offerings, quiet, changes, rotations>>

-----------------------------------------------------------------------------
(* Services.                                                               *)

CanCall == proc = "serving" /\ creds = smSecret

\* Mutant of selectPlansForOffering: the filter is dropped.
allPlans(o, plans) == Listed(plans)

selectPlansForOffering(o, plans) == {p \in Listed(plans) : OfferingOf[p] = o}

\* toService and toPlan succeed for this offering.
toServiceParses(o, os, ps) == os[o] = "good" /\ \A p \in selectPlansForOffering(o, ps) : ps[p] = "good"

\* Mutant of toCatalog: what does not parse is left out.
toPartialCatalog(os, ps) ==
    [kind |-> "ok",
     catalog |-> {[service |-> o, plans |-> selectPlansForOffering(o, ps)] :
                    o \in {x \in Listed(os) : toServiceParses(x, os, ps)}}]

\* TryCollect over the offerings: the catalog, or the first error.
toCatalog(os, ps) ==
    IF \A o \in Listed(os) : toServiceParses(o, os, ps)
    THEN [kind |-> "ok",
          catalog |-> {[service |-> o, plans |-> selectPlansForOffering(o, ps)] : o \in Listed(os)}]
    ELSE CatalogError

ListOfferings ==
    /\ CanCall /\ pc = "idle"
    /\ offerings' = smOfferings
    /\ quiet' = TRUE
    /\ pc' = "plans"
    /\ UNCHANGED <<manager, smSecret, proc, creds, answer, changes, rotations, faults>>

ListPlans ==
    /\ CanCall /\ pc = "plans"
    /\ Reply(toCatalog(offerings, smPlans))
    /\ UNCHANGED <<manager, smSecret, proc, creds, offerings, quiet, changes, rotations, faults>>

\* A call fails: with credentials that are no longer valid, or for once.
ListFails ==
    /\ proc = "serving"
    /\ \/ creds # smSecret /\ faults' = faults
       \/ creds = smSecret /\ faults < MaxFaults /\ faults' = faults + 1
    /\ Reply(CatalogError)
    /\ UNCHANGED <<manager, smSecret, proc, creds, offerings, quiet, changes, rotations>>

-----------------------------------------------------------------------------
(* Surroundings.                                                           *)

\* In the Service Manager a plan exists only with its offering.
ManagerChanges ==
    /\ changes < MaxChanges
    /\ changes' = changes + 1
    /\ \/ \E o \in Offerings, how \in {"absent", "good", "bad"} :
             /\ smOfferings' = [smOfferings EXCEPT ![o] = how]
             /\ smPlans' = [p \in Plans |-> IF OfferingOf[p] = o /\ how = "absent" THEN "absent" ELSE smPlans[p]]
       \/ \E p \in Plans, how \in {"absent", "good", "bad"} :
             /\ smOfferings[OfferingOf[p]] # "absent"
             /\ smPlans' = [smPlans EXCEPT ![p] = how]
             /\ UNCHANGED smOfferings
    /\ quiet' = FALSE
    /\ UNCHANGED <<smSecret, proc, creds, pc, offerings, answer, rotations, faults>>

\* The BTP operator module is enabled.
SecretAppears ==
    /\ smSecret = Absent
    /\ smSecret' = 0
    /\ UNCHANGED <<manager, proc, creds, request, changes, rotations, faults>>

\* New credentials replace the old ones.
Rotate ==
    /\ smSecret # Absent
    /\ rotations < MaxRotations
    /\ rotations' = rotations + 1
    /\ smSecret' = smSecret + 1
    /\ UNCHANGED <<manager, proc, creds, request, changes, faults>>

Process == Start \/ LoadCredentials
Services == ListOfferings \/ ListPlans \/ ListFails

CatalogNext == Process \/ Services \/ Crash \/ ManagerChanges \/ SecretAppears \/ Rotate

CatalogSpec == CatalogInit /\ [][CatalogNext]_catalogVars

\* The kubelet restarts the process, the platform asks for the catalog again and
\* again, the BTP operator module is enabled some day.
FairCatalogSpec ==
    /\ CatalogSpec
    /\ WF_catalogVars(Process) /\ WF_catalogVars(SecretAppears)
    /\ WF_catalogVars(ListOfferings) /\ WF_catalogVars(ListPlans)

-----------------------------------------------------------------------------
(* Properties.                                                             *)

\* Every variable keeps its shape, and a process that serves has credentials.
CatalogTypeOK ==
    /\ smOfferings \in [Offerings -> {"absent", "good", "bad"}]
    /\ smPlans \in [Plans -> {"absent", "good", "bad"}]
    /\ smSecret \in Nat \cup {Absent}
    /\ proc \in {"down", "starting", "serving"}
    /\ creds \in Nat \cup {Absent}
    /\ proc = "serving" => creds # Absent
    /\ pc \in {"idle", "plans"}
    /\ offerings \in [Offerings -> {"absent", "good", "bad"}]
    /\ quiet \in BOOLEAN
    /\ answer.kind \in {"none", "error", "ok"}
    /\ answer.catalog \subseteq [service : Offerings, plans : SUBSET Plans]
    /\ changes \in 0..MaxChanges /\ rotations \in 0..MaxRotations /\ faults \in 0..MaxFaults

\* In the Service Manager no plan is without its offering, and a call that has
\* not been disturbed holds the offerings that are there.
ListsBelongTogether ==
    /\ \A p \in Plans : smPlans[p] # "absent" => smOfferings[OfferingOf[p]] # "absent"
    /\ quiet => offerings = smOfferings

\* The inductive invariant behind OfferedPairsExist and AnswerIsWhole.
CatalogInv == CatalogTypeOK /\ ListsBelongTogether

\* Although the two lists are taken one after the other, every plan of an answer
\* is under its own offering, and both were in the Service Manager together,
\* namely when the answer was put together: the platform is never offered a pair
\* that did not exist.
OfferedPairsExist ==
    [][answer' # answer =>
        \A service \in answer'.catalog : \A p \in service.plans :
            /\ OfferingOf[p] = service.service
            /\ smPlans[p] # "absent" /\ smOfferings[service.service] # "absent"]_catalogVars

\* An answer is all or nothing: if the Service Manager was left alone meanwhile,
\* it is the whole inventory, and an error if some of it cannot be read.
AnswerIsWhole ==
    [][answer' # answer /\ answer'.kind = "ok" /\ quiet =>
        /\ \A service \in answer'.catalog :
              service.plans = {p \in Plans : smPlans[p] # "absent" /\ OfferingOf[p] = service.service}
        /\ {service.service : service \in answer'.catalog} = {o \in Offerings : smOfferings[o] # "absent"}]_catalogVars

Readable == \A contents \in {smOfferings, smPlans} : \A x \in DOMAIN contents : contents[x] # "bad"

\* The broker comes up once there is a secret, through exits and crashes, and
\* then the catalog is served as long as it can be read, if the credentials stay
\* as they are.
CatalogIsServed == <>[]Readable /\ [](rotations = 0) => []<>(answer.kind = "ok")

\* The same whatever happens to the credentials.
CatalogStaysServed == <>[]Readable => []<>(answer.kind = "ok")
=============================================================================

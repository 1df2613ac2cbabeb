---------------------------- MODULE YamlManifest ----------------------------
(***************************************************************************)
(* One Yaml installable (controllers/installable/yaml.go), object by       *)
(* object. Reads go to a metadata cache that lags behind the API server;   *)
(* writes go to the API server, which refuses a Create of an object that   *)
(* exists and an Update with another resource version. Other writers       *)
(* change the objects meanwhile, and calls fail with or without effect.    *)
(*                                                                         *)
(* A call's result is about wanted: "all" objects (Install) or "none"      *)
(* (Uninstall). A Go error is the result state "Error".                    *)
(***************************************************************************)
EXTENDS SequencesExt

CONSTANTS
    Objects,     \* the objects manifests are made of
    Blank,       \* a document without content, or null
    Malformed,   \* a document that is no YAML object
    Manifests,   \* what the glob may match: sequences of files of documents
    MaxChanges,  \* bound on changes of what is wanted
    MaxOthers,   \* bound on writes of others
    MaxFaults    \* bound on failing API calls and crashes

ASSUME YamlAssumption ==
    /\ {Blank, Malformed} \cap Objects = {}
    /\ Manifests \subseteq Seq(Seq(Objects \cup {Blank, Malformed}))
    /\ \A m \in Manifests :  \* what can be read has an object in it
          m = <<>> \/ \E f \in DOMAIN m : ToSet(m[f]) \cap (Objects \cup {Malformed}) # {}
    /\ MaxChanges \in Nat /\ MaxOthers \in Nat /\ MaxFaults \in Nat

VARIABLES
    manifest,    \* the files the glob matches; part of the operator's image
    store,       \* the objects in the API server
    cache,       \* the resource versions the metadata cache has, 0 for no object
    wanted,      \* what the reconciler calls for
    op,          \* the running call: "idle", "all" or "none"
    next,        \* position of the running call in the objects
    allDeleted,  \* what Uninstall has found so far
    result,      \* what the last call for what is wanted returned
    stage,       \* history: how far the calls have brought the installable
    changes, others, faults

call == <<op, next, allDeleted>>
vars == <<manifest, store, cache, wanted, call, result, stage, changes, others, faults>>

NoResult == [state |-> "none", for |-> "none"]

Init ==
    /\ manifest \in Manifests
    /\ store = [o \in Objects |-> [state |-> "absent", rv |-> 0, content |-> "manifest"]]
    /\ cache = [o \in Objects |-> 0]
    /\ wanted = "all"
    /\ op = "idle"
    /\ next = 0
    /\ allDeleted = TRUE
    /\ result = NoResult
    /\ stage = "absent"
    /\ changes = 0
    /\ others = 0
    /\ faults = 0

-----------------------------------------------------------------------------
(* Reading the manifest.                                                   *)

\* Mutant of fileParses: a document that is no object is skipped.
fileSkips(file) == TRUE

\* fileToUnstructuredObjects: one malformed document spoils the file.
fileParses(file) == Malformed \notin ToSet(file)

\* parseToUnstructuredObjects: the objects of a file, documents without
\* content left out.
parseToUnstructuredObjects(file) ==
    FlattenSeq([d \in DOMAIN file |-> IF file[d] \in Objects THEN <<file[d]>> ELSE <<>>])

\* globToUnstructuredObjects succeeds: something matches, everything parses.
Readable == manifest # <<>> /\ \A f \in DOMAIN manifest : fileParses(manifest[f])

\* globToUnstructuredObjects: the objects of all files, in the files' order.
Listed == FlattenSeq([f \in DOMAIN manifest |-> parseToUnstructuredObjects(manifest[f])])

\* The objects in some document of some file.
InManifest == {o \in Objects : \E f \in DOMAIN manifest : o \in ToSet(manifest[f])}

-----------------------------------------------------------------------------
(* The API server.                                                         *)

\* What a cache that is up to date has of an object.
Seen(o) == IF store[o].state = "absent" THEN 0 ELSE store[o].rv

Written(o) ==
    IF store[o].state = "absent" THEN [state |-> "present", rv |-> store[o].rv + 1, content |-> "manifest"]
    ELSE IF store[o].content = "manifest" THEN store[o]
    ELSE [store[o] EXCEPT !.rv = @ + 1, !.content = "manifest"]

MarkedDeleted(o) ==
    IF store[o].state = "present" THEN [store[o] EXCEPT !.state = "terminating", !.rv = @ + 1]
    ELSE store[o]

\* setResourceVersion: an Update carries the version that Get found in the cache.
setResourceVersion(o) == cache[o]

\* Mutant of Accepted: whatever Get says, the object is created.
AcceptedCreate(o) == store[o].state = "absent"

\* Mutant of Accepted: setResourceVersion is forgotten.
AcceptedBlind(o) == (cache[o] = 0) = (store[o].state = "absent")

\* createOrUpdate, the call it makes: Create if Get finds nothing, else Update,
\* which the API server refuses unless it carries the current version.
Accepted(o) ==
    IF cache[o] = 0 THEN store[o].state = "absent"
    ELSE store[o].state # "absent" /\ store[o].rv = setResourceVersion(o)

-----------------------------------------------------------------------------
(* Install and Uninstall.                                                  *)

Return(state) ==
    /\ op' = "idle"
    /\ next' = 0
    /\ allDeleted' = TRUE
    /\ result' = [state |-> state, for |-> wanted]

\* The manifest cannot be read: Failed, nothing is touched.
Unreadable ==
    /\ op = "idle"
    /\ ~Readable
    /\ Return("Failed")
    /\ UNCHANGED <<manifest, store, cache, wanted, stage, changes, others, faults>>

Begin ==
    /\ op = "idle"
    /\ Readable
    /\ op' = wanted
    /\ next' = 1
    /\ allDeleted' = TRUE
    /\ UNCHANGED <<manifest, store, cache, wanted, result, stage, changes, others, faults>>

At(o) == next \in DOMAIN Listed /\ o = Listed[next]

\* Install, one object: created, updated, or as it should be already.
ApplyObject(o) ==
    /\ op = "all" /\ At(o)
    /\ Accepted(o)
    /\ store' = [store EXCEPT ![o] = Written(o)]
    /\ stage' = IF stage = "absent" THEN "partial" ELSE stage
    /\ next' = next + 1
    /\ UNCHANGED <<manifest, cache, wanted, op, allDeleted, result, changes, others, faults>>

\* Mutant of ApplyRefused: the error is dropped and the loop goes on.
ApplyIgnored(o) ==
    /\ op = "all" /\ At(o)
    /\ ~Accepted(o)
    /\ next' = next + 1
    /\ UNCHANGED <<manifest, store, cache, wanted, op, allDeleted, result, stage, changes, others, faults>>

\* Install, one object: the cache is stale. Create finds the object, Update
\* another version or nothing; the call ends with the error.
ApplyRefused(o) ==
    /\ op = "all" /\ At(o)
    /\ ~Accepted(o)
    /\ Return("Error")
    /\ UNCHANGED <<manifest, store, cache, wanted, stage, changes, others, faults>>

\* Install: the loop is through.
InstallDone ==
    /\ op = "all" /\ next = Len(Listed) + 1
    /\ Return("Success")
    /\ stage' = "installed"
    /\ UNCHANGED <<manifest, store, cache, wanted, changes, others, faults>>

\* Mutant of isGone: an accepted Delete counts as gone.
isAccepted(o) == store[o].state # "terminating"

\* delete: only a Delete that finds nothing tells that the object is gone.
isGone(o) == store[o].state = "absent"

\* Uninstall, one object.
DeleteObject(o) ==
    /\ op = "none" /\ At(o)
    /\ store' = [store EXCEPT ![o] = MarkedDeleted(o)]
    /\ allDeleted' = (allDeleted /\ isGone(o))
    /\ stage' = IF store[o].state = "absent" THEN stage ELSE "removing"
    /\ next' = next + 1
    /\ UNCHANGED <<manifest, cache, wanted, op, result, changes, others, faults>>

\* Uninstall: the loop is through.
UninstallDone ==
    /\ op = "none" /\ next = Len(Listed) + 1
    /\ Return(IF allDeleted THEN "Success" ELSE "InProgress")
    /\ UNCHANGED <<manifest, store, cache, wanted, stage, changes, others, faults>>

\* An API call fails; the API server may have done what it was asked for.
CallFails(o) ==
    /\ op # "idle" /\ At(o)
    /\ faults < MaxFaults
    /\ faults' = faults + 1
    /\ Return("Error")
    /\ \/ UNCHANGED <<store, stage>>
       \/ /\ op = "all" /\ Accepted(o)
          /\ store' = [store EXCEPT ![o] = Written(o)]
          /\ stage' = IF stage = "absent" THEN "partial" ELSE stage
       \/ /\ op = "none" /\ store[o].state # "absent"
          /\ store' = [store EXCEPT ![o] = MarkedDeleted(o)]
          /\ stage' = "removing"
    /\ UNCHANGED <<manifest, cache, wanted, changes, others>>

-----------------------------------------------------------------------------
(* Surroundings.                                                           *)

\* The CR is deleted; a new one is only installed once the old one is gone,
\* which the finalizer sees to. What is wanted now was never called for yet.
ChangeWanted ==
    /\ op = "idle"
    /\ changes < MaxChanges
    /\ wanted = "none" => result = [state |-> "Success", for |-> "none"]
    /\ changes' = changes + 1
    /\ wanted' = IF wanted = "all" THEN "none" ELSE "all"
    /\ result' = NoResult
    /\ UNCHANGED <<manifest, store, cache, call, stage, others, faults>>

\* Somebody else creates or changes an object before or after Install does.
OtherWrites(o) ==
    /\ wanted = "all"
    /\ others < MaxOthers
    /\ others' = others + 1
    /\ store' = [store EXCEPT ![o] = [state |-> "present", rv |-> @.rv + 1, content |-> "other"]]
    /\ UNCHANGED <<manifest, cache, wanted, call, result, stage, changes, faults>>

\* What is marked for deletion disappears when its finalizers are done.
Collect(o) ==
    /\ store[o].state = "terminating"
    /\ store' = [store EXCEPT ![o].state = "absent"]
    /\ stage' = IF \A p \in InManifest \ {o} : store[p].state = "absent" THEN "absent" ELSE stage
    /\ UNCHANGED <<manifest, cache, wanted, call, result, changes, others, faults>>

CacheSync(o) ==
    /\ cache[o] # Seen(o)
    /\ cache' = [cache EXCEPT ![o] = Seen(o)]
    /\ UNCHANGED <<manifest, store, wanted, call, result, stage, changes, others, faults>>

\* The operator restarts, with caches filled anew.
Crash ==
    /\ op # "idle"
    /\ faults < MaxFaults
    /\ faults' = faults + 1
    /\ op' = "idle" /\ next' = 0 /\ allDeleted' = TRUE
    /\ result' = NoResult
    /\ cache' = [o \in Objects |-> Seen(o)]
    /\ UNCHANGED <<manifest, store, wanted, stage, changes, others>>

Step ==
    \/ Unreadable \/ Begin \/ InstallDone \/ UninstallDone
    \/ \E o \in Objects : ApplyObject(o) \/ ApplyRefused(o) \/ DeleteObject(o)

Next ==
    \/ Step \/ ChangeWanted \/ Crash
    \/ \E o \in Objects : CallFails(o) \/ OtherWrites(o) \/ Collect(o) \/ CacheSync(o)

Spec == Init /\ [][Next]_vars

\* The reconciler calls again until it gets Success; the watch delivers; the
\* API server collects.
FairSpec ==
    /\ Spec
    /\ WF_vars(Step)
    /\ \A o \in Objects : WF_vars(CacheSync(o)) /\ WF_vars(Collect(o))

-----------------------------------------------------------------------------
(* Properties.                                                             *)

\* Every variable keeps its shape.
TypeOK ==
    /\ manifest \in Manifests
    /\ store \in [Objects -> [state : {"absent", "present", "terminating"}, rv : Nat,
                              content : {"manifest", "other"}]]
    /\ cache \in [Objects -> Nat]
    /\ wanted \in {"all", "none"}
    /\ op \in {"idle", "all", "none"}
    /\ next \in Nat
    /\ allDeleted \in BOOLEAN
    /\ result \in [state : {"none", "Success", "InProgress", "Failed", "Error"}, for : {"all", "none"}]
    /\ stage \in {"absent", "partial", "installed", "removing"}
    /\ changes \in Nat /\ others \in Nat /\ faults \in Nat

\* What the reconciler relies on when it goes on to the next uninstallable: of
\* all objects in the manifest, in whatever file, none is left, although the
\* pass looked at them one after the other and earlier passes broke off.
UninstallSuccessIsClean ==
    op = "idle" /\ wanted = "none" /\ result = [state |-> "Success", for |-> "none"]
        => \A o \in InManifest : store[o].state = "absent"

\* What the reconciler relies on when it reports Ready: all objects exist and
\* none is on its way out, although the cache was stale and calls were refused.
InstallSuccessIsComplete ==
    op = "idle" /\ wanted = "all" /\ result = [state |-> "Success", for |-> "all"]
        => \A o \in InManifest : store[o].state = "present"

\* A manifest is read to its end before the first object is written: one bad
\* document anywhere, or no file at all, and the cluster stays as it is.
BadManifestTouchesNothing ==
    [][~(manifest # <<>> /\ \A f \in DOMAIN manifest : Malformed \notin ToSet(manifest[f]))
        => result'.state # "Success" /\ (store' # store => others' # others)]_vars

\* No lost update: Install only overwrites what somebody else wrote after the
\* cache has shown that version.
NoBlindOverwrite ==
    [][\A o \in Objects :
        store[o].content = "other" /\ store'[o].content = "manifest" /\ store[o].state # "absent"
            => cache[o] = store[o].rv]_vars

\* Conflicts, stale reads, lost answers and crashes are all retried until what
\* is wanted is there, or gone.
WantedIsReached ==
    Readable => <>[](op = "idle" => result = [state |-> "Success", for |-> wanted])

-----------------------------------------------------------------------------
(* Refinement of the contract every installable keeps.                     *)

\* The reconciler retries an error as it retries what is in progress.
ContractResult == IF result.state = "Error" THEN [result EXCEPT !.state = "InProgress"] ELSE result

Contract == INSTANCE Installable WITH
    Configs <- {"all"},
    NoConfig <- "none",
    phase <- stage,
    applied <- IF stage = "installed" THEN "all" ELSE "none",
    result <- ContractResult

\* A Yaml installable behaves as the reconciler expects of an installable.
ImplementsInstallable == Contract!Spec

\* How far the calls got is what is in the cluster.
StageIsTrue ==
    /\ stage = "installed" => \A o \in InManifest : store[o].state = "present"
    /\ stage = "partial" => \E o \in InManifest : store[o].state = "present"
    /\ stage = "removing" => wanted = "none" /\ \E o \in InManifest : store[o].state # "absent"
    /\ \A o \in Objects : store[o].state = "terminating" => stage = "removing" /\ o \in InManifest

\* What a running pass has earned so far, object by object, for what is wanted.
PassIsTrue ==
    /\ op # "idle" => op = wanted /\ Readable /\ next \in 1 .. Len(Listed) + 1
    /\ op = "all" => \A i \in 1..(next - 1) : store[Listed[i]].state = "present"
    /\ op = "none" /\ allDeleted => \A i \in 1..(next - 1) : store[Listed[i]].state = "absent"
    /\ ~Readable => stage = "absent" /\ result.state # "Success"

\* The invariant behind the two properties of Success, which a running pass has
\* to earn object by object, and the history agrees with the cluster.
IndInv == TypeOK /\ StageIsTrue /\ PassIsTrue /\ UninstallSuccessIsClean /\ InstallSuccessIsComplete
=============================================================================

------------------------ MODULE YamlManifest_proofs -------------------------
(***************************************************************************)
(* Proofs about YamlManifest, for any objects and any manifests, and any   *)
(* number of conflicts, failures and crashes.                              *)
(***************************************************************************)
EXTENDS YamlManifest, SequenceLemmas

-----------------------------------------------------------------------------
(* What is read of a manifest.                                             *)

\* The objects of a file are those in some document of it.
LEMMA ParseLemma ==
    ASSUME NEW file \in Seq(Objects \cup {Blank, Malformed})
    PROVE  /\ parseToUnstructuredObjects(file) \in Seq(Objects)
           /\ ToSet(parseToUnstructuredObjects(file)) = ToSet(file) \cap Objects
<1>1. (Objects \cup {Blank, Malformed}) \cap Objects = Objects
  OBVIOUS
<1> QED
  BY <1>1, FilterLemma DEF parseToUnstructuredObjects

\* The loops of Install and Uninstall go over all objects of the manifest and
\* over nothing else.
LEMMA ListedLemma ==
    ASSUME manifest \in Manifests
    PROVE  /\ Listed \in Seq(Objects)
           /\ \A o : o \in InManifest <=> \E i \in 1..Len(Listed) : Listed[i] = o
           /\ Readable => \E o : o \in InManifest
<1> DEFINE files == [f \in DOMAIN manifest |-> parseToUnstructuredObjects(manifest[f])]
<1>1. manifest \in Seq(Seq(Objects \cup {Blank, Malformed}))
  BY YamlAssumption
<1>2. \A f \in DOMAIN manifest : /\ files[f] \in Seq(Objects)
                                 /\ ToSet(files[f]) = ToSet(manifest[f]) \cap Objects
  BY <1>1, ParseLemma
<1>3. files \in Seq(Seq(Objects)) /\ DOMAIN files = DOMAIN manifest
  <2>1. files \in [1..Len(manifest) -> Seq(Objects)] /\ Len(manifest) \in Nat
    BY <1>1, <1>2
  <2> QED
    BY <1>1, <2>1, FunctionIsSeq
<1>4. Listed = FlattenSeq(files)
  BY DEF Listed
<1> HIDE DEF files
<1>5. Listed \in Seq(Objects) /\ ToSet(Listed) = UNION {ToSet(files[f]) : f \in DOMAIN files}
  BY <1>3, <1>4, FlattenLemma
<1>6. \A o : o \in InManifest <=> o \in ToSet(Listed)
  BY <1>2, <1>3, <1>5 DEF InManifest
<1>7. \A o : o \in ToSet(Listed) <=> \E i \in 1..Len(Listed) : Listed[i] = o
  BY <1>5 DEF ToSet
<1>8. Readable => \E o : o \in InManifest
  <2> SUFFICES ASSUME Readable PROVE \E o : o \in InManifest
    OBVIOUS
  <2>1. PICK f \in DOMAIN manifest : ToSet(manifest[f]) \cap (Objects \cup {Malformed}) # {}
    BY YamlAssumption DEF Readable
  <2>2. Malformed \notin ToSet(manifest[f])
    BY <2>1 DEF Readable, fileParses
  <2> QED
    BY <2>1, <2>2 DEF InManifest
<1> QED
  BY <1>5, <1>6, <1>7, <1>8

-----------------------------------------------------------------------------
(* The inductive invariant.                                                *)

\* The initial states satisfy it.
LEMMA InitInv == Init => IndInv
<1> SUFFICES ASSUME Init PROVE IndInv
  OBVIOUS
<1>1. TypeOK
  BY YamlAssumption DEF Init, TypeOK, NoResult
<1>2. StageIsTrue /\ PassIsTrue
  BY DEF Init, StageIsTrue, PassIsTrue, NoResult
<1>3. UninstallSuccessIsClean /\ InstallSuccessIsComplete
  BY DEF Init, UninstallSuccessIsClean, InstallSuccessIsComplete, NoResult
<1> QED
  BY <1>1, <1>2, <1>3 DEF IndInv

\* The manifest is part of the image: what is read of it never changes.
LEMMA SameManifest ==
    ASSUME [Next]_vars
    PROVE  /\ manifest' = manifest /\ Listed' = Listed /\ InManifest' = InManifest /\ Readable' = Readable
<1>1. manifest' = manifest
  BY DEF Next, Step, Unreadable, Begin, InstallDone, UninstallDone, ApplyObject, ApplyRefused, DeleteObject,
         ChangeWanted, Crash, CallFails, OtherWrites, Collect, CacheSync, vars
<1> QED
  BY <1>1 DEF Listed, InManifest, Readable

\* The object a call is at is one of the manifest's.
LEMMA AtLemma ==
    ASSUME TypeOK, NEW o \in Objects, At(o)
    PROVE  o \in InManifest /\ next \in 1..Len(Listed) /\ o = Listed[next]
<1>1. Listed \in Seq(Objects) /\ \A p : p \in InManifest <=> \E i \in 1..Len(Listed) : Listed[i] = p
  BY ListedLemma DEF TypeOK
<1>2. DOMAIN Listed = 1..Len(Listed)
  BY <1>1
<1>3. next \in 1..Len(Listed) /\ o = Listed[next]
  BY <1>2 DEF At
<1> QED
  BY <1>1, <1>3

\* Nothing is on its way out while everything is wanted.
LEMMA NoneTerminating ==
    ASSUME StageIsTrue, wanted = "all", NEW o \in Objects
    PROVE  store[o].state # "terminating"
  BY DEF StageIsTrue

\* What the API server has of an object.
Stored == [state : {"absent", "present", "terminating"}, rv : Nat, content : {"manifest", "other"}]

\* What the API server makes of an Install's call.
LEMMA WrittenLemma ==
    ASSUME TypeOK, NEW o \in Objects, store[o].state # "terminating"
    PROVE  Written(o) \in Stored /\ Written(o).state = "present"
<1> DEFINE s == store[o]
<1>1. s \in Stored
  BY DEF TypeOK, Stored
<1>2. Written(o) = IF s.state = "absent" THEN [state |-> "present", rv |-> s.rv + 1, content |-> "manifest"]
                   ELSE IF s.content = "manifest" THEN s
                   ELSE [s EXCEPT !.rv = s.rv + 1, !.content = "manifest"]
  BY DEF Written
<1>3. s.state # "terminating"
  OBVIOUS
<1> HIDE DEF s
<1>4. s.rv + 1 \in Nat
  BY <1>1 DEF Stored
<1>5. CASE s.state = "absent"
  BY <1>2, <1>4, <1>5 DEF Stored
<1>6. CASE s.state = "present" /\ s.content = "manifest"
  BY <1>1, <1>2, <1>6
<1>7. CASE s.state = "present" /\ s.content # "manifest"
  BY <1>1, <1>2, <1>4, <1>7 DEF Stored
<1> QED
  BY <1>1, <1>3, <1>5, <1>6, <1>7 DEF Stored

\* What the API server makes of an Uninstall's call.
LEMMA MarkedLemma ==
    ASSUME TypeOK, NEW o \in Objects
    PROVE  /\ MarkedDeleted(o) \in Stored
           /\ MarkedDeleted(o).state = IF store[o].state = "absent" THEN "absent" ELSE "terminating"
           /\ store[o].state = "absent" => MarkedDeleted(o) = store[o]
<1> DEFINE s == store[o]
<1>1. s \in Stored
  BY DEF TypeOK, Stored
<1>2. MarkedDeleted(o) = IF s.state = "present" THEN [s EXCEPT !.state = "terminating", !.rv = s.rv + 1] ELSE s
  BY DEF MarkedDeleted
<1> SUFFICES /\ MarkedDeleted(o) \in Stored
             /\ MarkedDeleted(o).state = IF s.state = "absent" THEN "absent" ELSE "terminating"
             /\ s.state = "absent" => MarkedDeleted(o) = s
  OBVIOUS
<1> HIDE DEF s
<1>3. s.rv + 1 \in Nat
  BY <1>1 DEF Stored
<1> QED
  BY <1>1, <1>2, <1>3 DEF Stored

\* A call that ends, with the cluster as it was.
LEMMA ReturnInv ==
    ASSUME IndInv, [Next]_vars, NEW state \in {"InProgress", "Failed", "Error"}, Return(state),
           UNCHANGED <<manifest, store, cache, wanted, stage, changes, others>>, faults' \in Nat
    PROVE  IndInv'
<1> USE SameManifest DEF IndInv
<1>1. TypeOK'
  BY DEF Return, TypeOK
<1>2. StageIsTrue'
  BY DEF StageIsTrue
<1>3. PassIsTrue'
  BY DEF Return, PassIsTrue
<1>4. UninstallSuccessIsClean' /\ InstallSuccessIsComplete'
  BY DEF Return, UninstallSuccessIsClean, InstallSuccessIsComplete
<1> QED
  BY <1>1, <1>2, <1>3, <1>4

\* A pass writes an object, and goes on or ends with an error.
LEMMA WriteInv ==
    ASSUME IndInv, [Next]_vars, NEW o \in Objects, op = "all", At(o),
           store' = [store EXCEPT ![o] = Written(o)],
           stage' = IF stage = "absent" THEN "partial" ELSE stage,
           \/ next' = next + 1 /\ UNCHANGED <<op, allDeleted, result>>
           \/ Return("Error"),
           faults' \in Nat, UNCHANGED <<manifest, cache, wanted, changes, others>>
    PROVE  IndInv'
<1> USE SameManifest DEF IndInv
<1>1. o \in InManifest /\ next \in 1..Len(Listed) /\ o = Listed[next]
  BY AtLemma
<1>2. Listed \in Seq(Objects) /\ InManifest \subseteq Objects
  BY ListedLemma DEF TypeOK, InManifest
<1>3. wanted = "all" /\ Readable
  BY DEF PassIsTrue
<1>4. Written(o) \in Stored /\ Written(o).state = "present"
  BY <1>3, NoneTerminating, WrittenLemma
<1>5. store' \in [Objects -> Stored] /\ store'[o].state = "present"
  BY <1>4 DEF TypeOK, Stored
<1>6. \A p \in Objects : p # o => store'[p] = store[p]
  BY DEF TypeOK
<1>7. TypeOK'
  <2>1. next' \in Nat /\ op' \in {"idle", "all", "none"} /\ stage' \in {"absent", "partial", "installed", "removing"}
    BY DEF TypeOK, Return
  <2>2. allDeleted' \in BOOLEAN
    BY DEF TypeOK, Return
  <2>3. result' \in [state : {"none", "Success", "InProgress", "Failed", "Error"}, for : {"all", "none"}]
    BY DEF TypeOK, Return
  <2> QED
    BY <1>5, <2>1, <2>2, <2>3 DEF TypeOK, Stored
<1>8. StageIsTrue'
  BY <1>1, <1>2, <1>3, <1>5, <1>6 DEF StageIsTrue
<1>9. PassIsTrue'
  <2>1. CASE next' = next + 1 /\ UNCHANGED <<op, allDeleted, result>>
    <3>1. \A i \in 1..(next' - 1) : store'[Listed[i]].state = "present"
      <4> TAKE i \in 1..(next' - 1)
      <4>1. i \in 1..Len(Listed) /\ Listed[i] \in Objects
        BY <1>1, <1>2, <2>1 DEF TypeOK
      <4>2. i \in 1..(next - 1) \/ i = next
        BY <1>1, <2>1
      <4> QED
        BY <1>1, <1>5, <1>6, <4>1, <4>2 DEF PassIsTrue
    <3>2. next' \in 1..Len(Listed) + 1
      BY <1>1, <1>2, <2>1
    <3> QED
      BY <1>3, <2>1, <3>1, <3>2 DEF PassIsTrue
  <2>2. CASE Return("Error")
    BY <1>3, <2>2 DEF PassIsTrue, Return
  <2> QED
    BY <2>1, <2>2
<1>10. UninstallSuccessIsClean' /\ InstallSuccessIsComplete'
  BY <1>3, <1>5, <1>6 DEF UninstallSuccessIsClean, InstallSuccessIsComplete, Return
<1> QED
  BY <1>7, <1>8, <1>9, <1>10

\* A pass deletes an object, and goes on or ends with an error.
LEMMA DeleteInv ==
    ASSUME IndInv, [Next]_vars, NEW o \in Objects, op = "none", At(o),
           store' = [store EXCEPT ![o] = MarkedDeleted(o)],
           stage' = IF store[o].state = "absent" THEN stage ELSE "removing",
           \/ next' = next + 1 /\ allDeleted' = (allDeleted /\ isGone(o)) /\ UNCHANGED <<op, result>>
           \/ Return("Error"),
           faults' \in Nat, UNCHANGED <<manifest, cache, wanted, changes, others>>
    PROVE  IndInv'
<1> USE SameManifest DEF IndInv
<1>1. o \in InManifest /\ next \in 1..Len(Listed) /\ o = Listed[next]
  BY AtLemma
<1>2. Listed \in Seq(Objects) /\ InManifest \subseteq Objects
  BY ListedLemma DEF TypeOK, InManifest
<1>3. wanted = "none" /\ Readable
  BY DEF PassIsTrue
<1>4. /\ store' \in [Objects -> Stored]
      /\ store'[o].state = IF store[o].state = "absent" THEN "absent" ELSE "terminating"
  BY MarkedLemma DEF TypeOK, Stored
<1>5. \A p \in Objects : p # o => store'[p] = store[p]
  BY DEF TypeOK
<1>6. TypeOK'
  <2>1. next' \in Nat /\ op' \in {"idle", "all", "none"} /\ stage' \in {"absent", "partial", "installed", "removing"}
    BY DEF TypeOK, Return
  <2>2. allDeleted' \in BOOLEAN
    BY Zenon DEF TypeOK, Return
  <2>3. result' \in [state : {"none", "Success", "InProgress", "Failed", "Error"}, for : {"all", "none"}]
    BY DEF TypeOK, Return
  <2> QED
    BY <1>4, <2>1, <2>2, <2>3 DEF TypeOK, Stored
<1>7. StageIsTrue'
  <2>1. CASE store[o].state = "absent"
    <3>1. store' = store
      BY <2>1, MarkedLemma DEF TypeOK
    <3> QED
      BY <2>1, <3>1 DEF StageIsTrue
  <2>2. CASE store[o].state # "absent"
    BY <1>1, <1>3, <1>4, <2>2 DEF StageIsTrue
  <2> QED
    BY <2>1, <2>2
<1>8. PassIsTrue'
  <2>1. CASE next' = next + 1 /\ allDeleted' = (allDeleted /\ isGone(o)) /\ UNCHANGED <<op, result>>
    <3>1. ASSUME allDeleted', NEW i \in 1..(next' - 1) PROVE store'[Listed[i]].state = "absent"
      <4>1. i \in 1..Len(Listed) /\ Listed[i] \in Objects
        BY <1>1, <1>2, <2>1, <3>1 DEF TypeOK
      <4>2. i \in 1..(next - 1) \/ i = next
        BY <1>1, <2>1, <3>1
      <4>3. allDeleted /\ store[o].state = "absent"
        BY <2>1, <3>1 DEF isGone, TypeOK
      <4> QED
        BY <1>1, <1>4, <1>5, <4>1, <4>2, <4>3 DEF PassIsTrue
    <3>2. next' \in 1..Len(Listed) + 1
      BY <1>1, <1>2, <2>1
    <3> QED
      BY <1>3, <2>1, <3>1, <3>2 DEF PassIsTrue
  <2>2. CASE Return("Error")
    BY <1>3, <2>2 DEF PassIsTrue, Return
  <2> QED
    BY <2>1, <2>2
<1>9. UninstallSuccessIsClean' /\ InstallSuccessIsComplete'
  BY <1>3 DEF UninstallSuccessIsClean, InstallSuccessIsComplete, Return
<1> QED
  BY <1>6, <1>7, <1>8, <1>9

\* An Uninstall that has come through its loop with nothing found has found all
\* objects of the manifest absent.
LEMMA PassCleared ==
    ASSUME IndInv, UninstallDone, allDeleted
    PROVE  \A o \in InManifest : store[o].state = "absent"
<1>1. Listed \in Seq(Objects) /\ \A o : o \in InManifest <=> \E i \in 1..Len(Listed) : Listed[i] = o
  BY ListedLemma DEF IndInv, TypeOK
<1>2. \A i \in 1..(next - 1) : store[Listed[i]].state = "absent"
  BY DEF UninstallDone, IndInv, PassIsTrue
<1>3. next - 1 = Len(Listed)
  BY <1>1 DEF UninstallDone
<1> QED
  BY <1>1, <1>2, <1>3

\* Every step keeps it.
LEMMA NextInv == IndInv /\ [Next]_vars => IndInv'
<1> SUFFICES ASSUME IndInv, [Next]_vars PROVE IndInv'
  OBVIOUS
<1> USE SameManifest DEF IndInv
<1>1. CASE Unreadable
  BY <1>1, ReturnInv DEF Unreadable, TypeOK
<1>2. CASE Begin
  <2>1. TypeOK' /\ StageIsTrue'
    BY <1>2 DEF Begin, TypeOK, StageIsTrue
  <2>2. PassIsTrue'
    <3>1. Len(Listed) \in Nat
      BY ListedLemma DEF TypeOK
    <3>2. op' = wanted' /\ wanted' # "idle" /\ Readable /\ next' = 1 /\ 1 \in 1..Len(Listed) + 1
      BY <1>2, <3>1 DEF Begin, TypeOK
    <3>3. 1..(next' - 1) = {}
      BY <3>2
    <3> QED
      BY <3>2, <3>3 DEF PassIsTrue
  <2>3. UninstallSuccessIsClean' /\ InstallSuccessIsComplete'
    BY <1>2 DEF Begin, UninstallSuccessIsClean, InstallSuccessIsComplete, TypeOK
  <2> QED
    BY <2>1, <2>2, <2>3
<1>3. CASE InstallDone
  <2>1. Listed \in Seq(Objects) /\ \A o : o \in InManifest <=> \E i \in 1..Len(Listed) : Listed[i] = o
    BY ListedLemma DEF TypeOK
  <2>2. \A o \in InManifest : store[o].state = "present"
    <3>1. \A i \in 1..(next - 1) : store[Listed[i]].state = "present"
      BY <1>3 DEF InstallDone, PassIsTrue
    <3>2. next - 1 = Len(Listed)
      BY <1>3, <2>1 DEF InstallDone
    <3> QED
      BY <2>1, <3>1, <3>2
  <2>3. wanted = "all" /\ Readable /\ op' = "idle" /\ result' = [state |-> "Success", for |-> wanted]
        /\ stage' = "installed" /\ store' = store /\ wanted' = wanted
    BY <1>3 DEF InstallDone, Return, PassIsTrue
  <2>4. TypeOK'
    BY <1>3 DEF InstallDone, Return, TypeOK
  <2>5. StageIsTrue'
    BY <2>2, <2>3, NoneTerminating DEF StageIsTrue
  <2>6. PassIsTrue'
    BY <2>3 DEF PassIsTrue
  <2>7. UninstallSuccessIsClean' /\ InstallSuccessIsComplete'
    BY <2>2, <2>3 DEF UninstallSuccessIsClean, InstallSuccessIsComplete
  <2> QED
    BY <2>4, <2>5, <2>6, <2>7
<1>4. CASE UninstallDone
  <2>1. CASE ~allDeleted
    BY <1>4, <2>1, ReturnInv DEF UninstallDone, TypeOK
  <2>2. CASE allDeleted
    <3>1. \A o \in InManifest : store[o].state = "absent"
      BY <1>4, <2>2, PassCleared
    <3>2. wanted = "none" /\ Readable /\ op' = "idle" /\ result' = [state |-> "Success", for |-> wanted]
          /\ stage' = stage /\ store' = store /\ wanted' = wanted
      BY <1>4, <2>2 DEF UninstallDone, Return, PassIsTrue
    <3>3. TypeOK'
      BY <1>4, <2>2 DEF UninstallDone, Return, TypeOK
    <3>4. StageIsTrue'
      BY <3>2 DEF StageIsTrue
    <3>5. PassIsTrue'
      BY <3>2 DEF PassIsTrue
    <3>6. UninstallSuccessIsClean' /\ InstallSuccessIsComplete'
      BY <3>1, <3>2 DEF UninstallSuccessIsClean, InstallSuccessIsComplete
    <3> QED
      BY <3>3, <3>4, <3>5, <3>6
  <2> QED
    BY <2>1, <2>2
<1>5. ASSUME NEW o \in Objects, ApplyObject(o) PROVE IndInv'
  BY <1>5, WriteInv DEF ApplyObject, TypeOK
<1>6. ASSUME NEW o \in Objects, ApplyRefused(o) PROVE IndInv'
  BY <1>6, ReturnInv DEF ApplyRefused, TypeOK
<1>7. ASSUME NEW o \in Objects, DeleteObject(o) PROVE IndInv'
  BY <1>7, DeleteInv DEF DeleteObject, TypeOK
<1>8. ASSUME NEW o \in Objects, CallFails(o) PROVE IndInv'
  <2>1. faults' \in Nat /\ At(o) /\ Return("Error") /\ UNCHANGED <<manifest, cache, wanted, changes, others>>
    BY <1>8 DEF CallFails, TypeOK
  <2>2. CASE UNCHANGED <<store, stage>>
    BY <2>1, <2>2, ReturnInv
  <2>3. CASE /\ op = "all"
             /\ store' = [store EXCEPT ![o] = Written(o)]
             /\ stage' = IF stage = "absent" THEN "partial" ELSE stage
    BY <2>1, <2>3, WriteInv
  <2>4. CASE /\ op = "none" /\ store[o].state # "absent"
             /\ store' = [store EXCEPT ![o] = MarkedDeleted(o)]
             /\ stage' = "removing"
    BY <2>1, <2>4, DeleteInv
  <2> QED
    BY <1>8, <2>2, <2>3, <2>4 DEF CallFails
<1>9. CASE ChangeWanted
  <2>1. op = "idle" /\ op' = op /\ store' = store /\ stage' = stage /\ result' = NoResult
    BY <1>9 DEF ChangeWanted, call
  <2>2. TypeOK'
    BY <1>9 DEF ChangeWanted, TypeOK, call, NoResult
  <2>3. stage = "removing" => wanted = "none" /\ wanted' = "none"
    BY <1>9 DEF ChangeWanted, StageIsTrue, UninstallSuccessIsClean
  <2>4. StageIsTrue' /\ PassIsTrue'
    BY <2>1, <2>3 DEF StageIsTrue, PassIsTrue, NoResult
  <2>5. UninstallSuccessIsClean' /\ InstallSuccessIsComplete'
    BY <2>1 DEF UninstallSuccessIsClean, InstallSuccessIsComplete, NoResult
  <2> QED
    BY <2>2, <2>4, <2>5
<1>10. ASSUME NEW o \in Objects, OtherWrites(o) PROVE IndInv'
  <2>1. wanted = "all" /\ UNCHANGED <<cache, wanted, op, next, allDeleted, result, stage, changes, faults>>
    BY <1>10 DEF OtherWrites, call
  <2>2. store[o] \in Stored /\ store[o].rv + 1 \in Nat
    BY DEF TypeOK, Stored
  <2>3. store' \in [Objects -> Stored] /\ store'[o].state = "present"
    BY <1>10, <2>2 DEF OtherWrites, TypeOK, Stored
  <2>4. \A p \in Objects : p # o => store'[p] = store[p]
    BY <1>10 DEF OtherWrites, TypeOK
  <2>5. TypeOK'
    BY <1>10, <2>1, <2>3 DEF OtherWrites, TypeOK, Stored
  <2>6. InManifest \subseteq Objects /\ Listed \in Seq(Objects)
    BY ListedLemma DEF InManifest, TypeOK
  <2>7. StageIsTrue'
    BY <2>1, <2>3, <2>4, <2>6 DEF StageIsTrue
  <2>8. PassIsTrue'
    <3>1. op # "none"
      BY <2>1 DEF PassIsTrue
    <3>2. op = "all" => \A i \in 1..(next - 1) : Listed[i] \in Objects
      BY <2>6 DEF PassIsTrue
    <3> QED
      BY <2>1, <2>3, <2>4, <3>1, <3>2 DEF PassIsTrue
  <2>9. UninstallSuccessIsClean' /\ InstallSuccessIsComplete'
    BY <2>1, <2>3, <2>4, <2>6 DEF UninstallSuccessIsClean, InstallSuccessIsComplete
  <2> QED
    BY <2>5, <2>7, <2>8, <2>9
<1>11. ASSUME NEW o \in Objects, Collect(o) PROVE IndInv'
  <2>1. UNCHANGED <<cache, wanted, op, next, allDeleted, result, changes, others, faults>>
    BY <1>11 DEF Collect, call
  <2>2. stage = "removing" /\ wanted = "none" /\ store[o].state = "terminating" /\ o \in InManifest
    BY <1>11 DEF Collect, StageIsTrue
  <2>3. store' \in [Objects -> Stored] /\ store'[o].state = "absent"
    <3>1. store' = [store EXCEPT ![o] = [store[o] EXCEPT !.state = "absent"]] /\ store[o] \in Stored
      BY <1>11 DEF Collect, TypeOK, Stored
    <3>2. [store[o] EXCEPT !.state = "absent"] \in Stored /\ [store[o] EXCEPT !.state = "absent"].state = "absent"
      BY <3>1 DEF Stored
    <3> QED
      BY <3>1, <3>2 DEF TypeOK, Stored
  <2>4. \A p \in Objects : p # o => store'[p] = store[p]
    BY <1>11 DEF Collect, TypeOK
  <2>5. stage' = IF \A p \in InManifest \ {o} : store[p].state = "absent" THEN "absent" ELSE stage
    BY <1>11 DEF Collect
  <2>6. TypeOK'
    BY <2>1, <2>3, <2>5 DEF TypeOK, Stored
  <2>7. InManifest \subseteq Objects /\ Listed \in Seq(Objects)
    BY ListedLemma DEF InManifest, TypeOK
  <2>8. StageIsTrue'
    BY <2>1, <2>2, <2>3, <2>4, <2>5, <2>7 DEF StageIsTrue
  <2>9. PassIsTrue'
    <3>1. op # "all" /\ Readable
      BY <2>2 DEF PassIsTrue
    <3>2. op = "none" => \A i \in 1..(next - 1) : Listed[i] \in Objects
      BY <2>7 DEF PassIsTrue
    <3> QED
      BY <2>1, <2>3, <2>4, <3>1, <3>2 DEF PassIsTrue
  <2>10. UninstallSuccessIsClean' /\ InstallSuccessIsComplete'
    BY <2>1, <2>2, <2>3, <2>4, <2>7 DEF UninstallSuccessIsClean, InstallSuccessIsComplete
  <2> QED
    BY <2>6, <2>8, <2>9, <2>10
<1>12. ASSUME NEW o \in Objects, CacheSync(o) PROVE IndInv'
  <2>1. Seen(o) \in Nat
    BY DEF Seen, TypeOK
  <2>2. TypeOK'
    BY <1>12, <2>1 DEF CacheSync, TypeOK, call
  <2>3. StageIsTrue' /\ PassIsTrue' /\ UninstallSuccessIsClean' /\ InstallSuccessIsComplete'
    BY <1>12 DEF CacheSync, call, StageIsTrue, PassIsTrue, UninstallSuccessIsClean, InstallSuccessIsComplete
  <2> QED
    BY <2>2, <2>3
<1>13. CASE Crash
  <2>1. \A o \in Objects : Seen(o) \in Nat
    BY DEF Seen, TypeOK
  <2>2. TypeOK'
    BY <1>13, <2>1 DEF Crash, TypeOK, NoResult
  <2>3. StageIsTrue' /\ PassIsTrue'
    BY <1>13 DEF Crash, StageIsTrue, PassIsTrue, NoResult
  <2>4. UninstallSuccessIsClean' /\ InstallSuccessIsComplete'
    BY <1>13 DEF Crash, UninstallSuccessIsClean, InstallSuccessIsComplete, NoResult
  <2> QED
    BY <2>2, <2>3, <2>4
<1>14. CASE UNCHANGED vars
  BY <1>14 DEF vars, call, TypeOK, StageIsTrue, PassIsTrue, UninstallSuccessIsClean, InstallSuccessIsComplete
<1> QED
  BY <1>1, <1>2, <1>3, <1>4, <1>5, <1>6, <1>7, <1>8, <1>9, <1>10, <1>11, <1>12, <1>13, <1>14 DEF Next, Step

\* The history of the calls, and what a running pass has earned.
THEOREM Invariance == Spec => []IndInv
  BY InitInv, NextInv, PTL DEF Spec

\* An Uninstall that reports Success has left nothing of the manifest, for any
\* manifest and any order of crashes, lost answers and collections.
THEOREM UninstallClean == Spec => []UninstallSuccessIsClean
<1>1. IndInv => UninstallSuccessIsClean
  BY DEF IndInv
<1> QED
  BY <1>1, Invariance, PTL

\* An Install that reports Success has all of the manifest in the cluster, and
\* nothing of it on its way out.
THEOREM InstallComplete == Spec => []InstallSuccessIsComplete
<1>1. IndInv => InstallSuccessIsComplete
  BY DEF IndInv
<1> QED
  BY <1>1, Invariance, PTL

-----------------------------------------------------------------------------
(* Action properties.                                                      *)

\* A manifest with one bad document anywhere, or no file, writes nothing and
\* never succeeds.
THEOREM BadManifest == Spec => BadManifestTouchesNothing
<1> DEFINE Good == manifest # <<>> /\ \A f \in DOMAIN manifest : Malformed \notin ToSet(manifest[f])
<1>1. ASSUME IndInv, IndInv', [Next]_vars
      PROVE  ~Good => result'.state # "Success" /\ (store' # store => others' # others)
  <2> SUFFICES ASSUME ~Good PROVE result'.state # "Success" /\ (store' # store => others' # others)
    OBVIOUS
  <2>1. ~Readable /\ ~Readable'
    BY <1>1, SameManifest DEF Readable, fileParses
  <2>2. result'.state # "Success" /\ op = "idle" /\ stage = "absent"
    BY <1>1, <2>1 DEF IndInv, PassIsTrue
  <2>3. \A o \in Objects : store[o].state # "terminating"
    BY <1>1, <2>2 DEF IndInv, StageIsTrue
  <2>4. ASSUME NEW o \in Objects, OtherWrites(o) PROVE others' # others
    BY <1>1, <2>4 DEF OtherWrites, IndInv, TypeOK
  <2>5. (\E o \in Objects : OtherWrites(o)) \/ store' = store
    BY <1>1, <2>2, <2>3 DEF Next, Step, Unreadable, Begin, InstallDone, UninstallDone, ApplyObject, ApplyRefused,
        DeleteObject, ChangeWanted, Crash, CallFails, Collect, CacheSync, vars
  <2> QED
    BY <2>2, <2>4, <2>5
<1> QED
  BY <1>1, Invariance, PTL DEF Spec, BadManifestTouchesNothing

\* What somebody else wrote is only overwritten by an Install that has seen it.
THEOREM NoOverwrite == Spec => NoBlindOverwrite
<1> DEFINE Overwritten(o) ==
      store[o].content = "other" /\ store'[o].content = "manifest" /\ store[o].state # "absent"
<1>1. ASSUME IndInv, [Next]_vars, NEW o \in Objects, Overwritten(o) PROVE cache[o] = store[o].rv
  <2> USE DEF IndInv, TypeOK
  <2>1. ASSUME NEW p \in Objects, ApplyObject(p) \/ CallFails(p), op = "all", Accepted(p),
               store' = [store EXCEPT ![p] = Written(p)]
        PROVE  cache[o] = store[o].rv
    <3>1. p = o
      BY <1>1, <2>1
    <3> QED
      BY <1>1, <2>1, <3>1 DEF Accepted, setResourceVersion
  <2>2. ASSUME NEW p \in Objects, store' = [store EXCEPT ![p] = MarkedDeleted(p)] PROVE FALSE
    BY <1>1, <2>2 DEF MarkedDeleted
  <2>3. ASSUME NEW p \in Objects, OtherWrites(p) PROVE FALSE
    BY <1>1, <2>3 DEF OtherWrites
  <2>4. ASSUME NEW p \in Objects, Collect(p) PROVE FALSE
    BY <1>1, <2>4 DEF Collect
  <2>5. ASSUME store' = store PROVE FALSE
    BY <1>1, <2>5
  <2>6. ASSUME NEW p \in Objects, ApplyObject(p) PROVE cache[o] = store[o].rv
    BY <2>1, <2>6 DEF ApplyObject
  <2>7. ASSUME NEW p \in Objects, CallFails(p) PROVE cache[o] = store[o].rv
    BY <2>1, <2>2, <2>5, <2>7 DEF CallFails
  <2>8. ASSUME NEW p \in Objects, DeleteObject(p) PROVE FALSE
    BY <2>2, <2>8 DEF DeleteObject
  <2>9. ASSUME Unreadable \/ Begin \/ InstallDone \/ UninstallDone \/ ChangeWanted \/ Crash \/ UNCHANGED vars
               \/ \E p \in Objects : ApplyRefused(p) \/ CacheSync(p)
        PROVE FALSE
    <3>1. store' = store
      BY <2>9 DEF Unreadable, Begin, InstallDone, UninstallDone, ApplyRefused, ChangeWanted, Crash, CacheSync, vars
    <3> QED
      BY <2>5, <3>1
  <2> QED
    BY <1>1, <2>3, <2>4, <2>6, <2>7, <2>8, <2>9 DEF Next, Step
<1>2. ASSUME IndInv, [Next]_vars PROVE \A o \in Objects : Overwritten(o) => cache[o] = store[o].rv
  BY <1>1, <1>2
<1> QED
  BY <1>2, Invariance, PTL DEF Spec, NoBlindOverwrite

-----------------------------------------------------------------------------
(* Refinement of the contract of an installable.                           *)

\* What the contract sees of a call that ends without success.
LEMMA AgainSimulates ==
    ASSUME IndInv, NEW state \in {"InProgress", "Failed", "Error"}, Return(state),
           \/ UNCHANGED stage
           \/ wanted = "all" /\ stage' = IF stage = "absent" THEN "partial" ELSE stage
           \/ wanted = "none" /\ stage' = "removing"
    PROVE  [Contract!Next]_(Contract!vars)
<1> USE DEF IndInv, TypeOK
<1>1. /\ result'.state \in {"InProgress", "Failed", "Error"} /\ result'.for = wanted
      /\ result' \in [state : {"InProgress", "Failed", "Error"}, for : {wanted}]
  BY DEF Return
<1>2. ContractResult' \in [state : {"InProgress", "Failed"}, for : {wanted}]
  BY <1>1 DEF ContractResult
<1>3. CASE wanted = "all"
  <2>1. Contract!InstallAgain("all")
    BY <1>2, <1>3 DEF Contract!InstallAgain
  <2> QED
    BY <2>1 DEF Contract!Next
<1>4. CASE wanted = "none"
  <2>1. Contract!UninstallAgain
    BY <1>2, <1>4 DEF Contract!UninstallAgain
  <2> QED
    BY <2>1 DEF Contract!Next
<1> QED
  BY <1>3, <1>4

\* A Yaml installable keeps the contract through stale reads, conflicts, lost
\* answers and crashes.
THEOREM Implements == Spec => ImplementsInstallable
<1>1. Init => Contract!Init
  BY DEF Init, NoResult, ContractResult, Contract!Init
<1>2. ASSUME IndInv, [Next]_vars PROVE [Contract!Next]_(Contract!vars)
  <2> USE <1>2 DEF IndInv
  <2>1. CASE Unreadable
    BY <2>1, AgainSimulates DEF Unreadable
  <2>2. ASSUME UNCHANGED <<stage, result>> PROVE [Contract!Next]_(Contract!vars)
    BY <2>2 DEF Contract!vars, ContractResult
  <2>3. CASE InstallDone
    <3>1. wanted = "all" /\ stage \notin {"removing", "hidden"}
      BY <2>3 DEF InstallDone, PassIsTrue, StageIsTrue, TypeOK
    <3>2. ContractResult' = [state |-> "Success", for |-> "all"] /\ stage' = "installed"
      BY <2>3, <3>1 DEF InstallDone, Return, ContractResult
    <3>3. Contract!Install("all")
      BY <3>1, <3>2 DEF Contract!Install
    <3> QED
      BY <3>3 DEF Contract!Next
  <2>4. CASE UninstallDone /\ ~allDeleted
    BY <2>4, AgainSimulates DEF UninstallDone
  <2>5. CASE UninstallDone /\ allDeleted
    <3>1. \A o \in InManifest : store[o].state = "absent"
      BY <2>5, PassCleared
    <3>2. wanted = "none" /\ Readable
      BY <2>5 DEF UninstallDone, PassIsTrue
    <3>3. \E o : o \in InManifest
      BY <3>2, ListedLemma DEF TypeOK
    <3>4. stage = "absent" /\ stage' = stage
      BY <2>5, <3>1, <3>3 DEF StageIsTrue, TypeOK, UninstallDone
    <3>5. ContractResult' = [state |-> "Success", for |-> "none"]
      BY <2>5, <3>2 DEF UninstallDone, Return, ContractResult
    <3>6. Contract!Uninstall
      BY <3>4, <3>5 DEF Contract!Uninstall
    <3> QED
      BY <3>6 DEF Contract!Next
  <2>6. ASSUME stage' # stage, stage' \in {"partial", "removing"}, stage = "removing" => stage' = "removing",
               result' = result
        PROVE  [Contract!Next]_(Contract!vars)
    <3>1. Contract!AtWork
      BY <2>6 DEF TypeOK, Contract!AtWork, ContractResult
    <3> QED
      BY <3>1 DEF Contract!Next
  <2>7. ASSUME NEW o \in Objects, ApplyObject(o) PROVE [Contract!Next]_(Contract!vars)
    BY <2>2, <2>6, <2>7 DEF ApplyObject
  <2>8. ASSUME NEW o \in Objects, ApplyRefused(o) PROVE [Contract!Next]_(Contract!vars)
    BY <2>8, AgainSimulates DEF ApplyRefused
  <2>9. ASSUME NEW o \in Objects, DeleteObject(o) PROVE [Contract!Next]_(Contract!vars)
    BY <2>2, <2>6, <2>9 DEF DeleteObject
  <2>10. ASSUME NEW o \in Objects, CallFails(o) PROVE [Contract!Next]_(Contract!vars)
    <3>1. op = "all" \/ op = "none" => op = wanted
      BY DEF PassIsTrue
    <3> QED
      BY <2>10, <3>1, AgainSimulates DEF CallFails
  <2>11. CASE ChangeWanted \/ Crash
    <3>1. result' = NoResult /\ stage' = stage
      BY <2>11 DEF ChangeWanted, Crash
    <3>2. Contract!Forget
      BY <3>1 DEF Contract!Forget, ContractResult, NoResult
    <3> QED
      BY <3>2 DEF Contract!Next
  <2>12. ASSUME NEW o \in Objects, Collect(o) PROVE [Contract!Next]_(Contract!vars)
    <3>1. stage = "removing" /\ result' = result /\ stage' \in {"absent", "removing"}
      BY <2>12 DEF Collect, StageIsTrue
    <3>2. CASE stage' = "absent"
      <4>1. Contract!Removed
        BY <3>1, <3>2 DEF Contract!Removed, ContractResult
      <4> QED
        BY <4>1 DEF Contract!Next
    <3>3. CASE stage' = stage
      BY <2>2, <3>1, <3>3
    <3> QED
      BY <3>1, <3>2, <3>3
  <2>13. ASSUME \/ Begin \/ UNCHANGED vars
                \/ \E o \in Objects : OtherWrites(o) \/ CacheSync(o)
         PROVE  [Contract!Next]_(Contract!vars)
    BY <2>2, <2>13 DEF Begin, OtherWrites, CacheSync, vars
  <2> QED
    BY <2>1, <2>3, <2>4, <2>5, <2>7, <2>8, <2>9, <2>10, <2>11, <2>12, <2>13 DEF Next, Step
<1> QED
  BY <1>1, <1>2, Invariance, PTL DEF Spec, ImplementsInstallable, Contract!Spec
=============================================================================

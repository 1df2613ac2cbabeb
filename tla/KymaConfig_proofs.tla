------------------------- MODULE KymaConfig_proofs --------------------------
(***************************************************************************)
(* Proofs about KymaConfig, for any specs and any states of Kyma, and any  *)
(* number of changes between the lookups.                                  *)
(***************************************************************************)
EXTENDS KymaConfig, SequenceLemmas

-----------------------------------------------------------------------------
(* What the lookups answer.                                                *)

\* Only an Ok is an answer with a value.
LEMMA OkLemma ==
    /\ \A v : Ok(v).kind = "ok" /\ Ok(v).value = v
    /\ \A v : Ok(v) # Error /\ Ok(v) # Panic
    /\ \A v, w : Ok(v) = Ok(w) => v = w
    /\ \A a, v : a = Ok(v) => a.kind = "ok" /\ a.value = v
<1>1. \A v : Ok(v).kind = "ok" /\ Ok(v).value = v
  BY DEF Ok
<1>2. Error.kind = "error" /\ Panic.kind = "panic"
  BY DEF Error, Panic
<1> QED
  BY <1>1, <1>2

\* A check that fails has no value.
LEMMA CheckLemma ==
    ASSUME NEW condition, NEW answers, NEW v, Ok(v) \in Check(condition, answers)
    PROVE  condition /\ Ok(v) \in answers
  BY OkLemma DEF Check

\* The gateway type is the one the spec asks for.
LEMMA GatewayLemma ==
    ASSUME NEW s \in SpecType, NEW k \in WorldType, NEW v, Ok(v) \in Validate(s, k)
    PROVE  v = (IF s.gateway = "istio" THEN "istio" ELSE "contour")
<1>1. KorifiGatewayType(s) \in {"contour", "istio"} /\ Ok(v) \in {Ok(KorifiGatewayType(s))}
  BY CheckLemma DEF Validate
<1>2. v = KorifiGatewayType(s)
  BY <1>1, OkLemma
<1> QED
  BY <1>1, <1>2, ConfigAssumption DEF KorifiGatewayType, Literals

\* The domain is the first host of the gateway without its first two characters.
LEMMA DomainLemma ==
    ASSUME NEW k \in WorldType, NEW v, Ok(v) \in KymaDomain(k)
    PROVE  /\ k.gateway # Absent /\ k.gateway \in Seq(Seq(Seq(Texts))) /\ k.gateway # <<>>
           /\ k.gateway[1] \in Seq(Seq(Texts)) /\ k.gateway[1] # <<>>
           /\ k.gateway[1][1] \in Seq(Texts) /\ ~(Len(k.gateway[1][1]) < 2)
           /\ v = SubSeq(k.gateway[1][1], 3, Len(k.gateway[1][1]))
<1>1. k.gateway # Absent /\ k.gateway # <<>>
  BY CheckLemma DEF KymaDomain
<1>2. k.gateway \in Seq(Seq(Seq(Texts)))
  BY <1>1 DEF WorldType
<1> DEFINE g == k.gateway[1]
           h == g[1]
           answers == IF g = <<>> THEN {Panic}
                      ELSE {IF Len(h) < 2 THEN Panic ELSE Ok(SubSeq(h, 3, Len(h)))}
<1>3. Ok(v) \in answers
  BY CheckLemma DEF KymaDomain
<1>4. g \in Seq(Seq(Texts))
  BY <1>1, <1>2
<1>5. g # <<>>
  BY <1>3, OkLemma
<1>6. h \in Seq(Texts)
  BY <1>4, <1>5
<1>7. ~(Len(h) < 2) /\ Ok(v) = Ok(SubSeq(h, 3, Len(h)))
  BY <1>3, <1>5, OkLemma
<1>8. v = SubSeq(h, 3, Len(h))
  BY <1>7, OkLemma
<1> QED
  BY <1>1, <1>2, <1>4, <1>5, <1>6, <1>7, <1>8

\* The registry's secret is the one the spec names, or Kyma's.
LEMMA SecretLemma ==
    ASSUME NEW s \in SpecType, NEW k \in WorldType, NEW v, Ok(v) \in RegistrySecret(s, k)
    PROVE  v = (IF s.secret = Nil THEN KymaSecret ELSE s.secret)
<1>1. CASE s.secret = Nil
  <2>1. Ok(v) \in {Ok(KymaSecret)}
    BY <1>1, CheckLemma DEF RegistrySecret, GetRegistrySecret
  <2> QED
    BY <1>1, <2>1, OkLemma
<1>2. CASE s.secret # Nil
  <2>1. Ok(v) \in {Ok(s.secret)}
    BY <1>2, CheckLemma DEF RegistrySecret
  <2> QED
    BY <1>2, <2>1, OkLemma
<1> QED
  BY <1>1, <1>2

\* The registry is one of those in that secret.
LEMMA RegistryLemma ==
    ASSUME NEW s \in SpecType, NEW k \in WorldType, NEW v, Ok(v) \in RegistryURL(s, k)
    PROVE  /\ v \in Texts
           /\ IF s.secret = Nil THEN v = k.kymaSecret ELSE v \in k.userSecret
<1>1. CASE s.secret = Nil
  <2>1. Ok(v) \in GetRegistryURL(k)
    BY <1>1 DEF RegistryURL
  <2>2. (GetRegistrySecret(k) # {Error} /\ k.kymaSecret # Nil) /\ Ok(v) \in {Ok(k.kymaSecret)}
    BY <2>1, CheckLemma DEF GetRegistryURL
  <2>3. v = k.kymaSecret
    BY <2>2, OkLemma
  <2>4. k.kymaSecret # Absent
    BY <2>2 DEF GetRegistrySecret, Check
  <2> QED
    BY <1>1, <2>2, <2>3, <2>4 DEF WorldType
<1>2. CASE s.secret # Nil
  <2>1. /\ ~(GetRegistryConfig(k) = {Error} \/ k.userSecret = {})
        /\ Ok(v) \in {Ok(url) : url \in k.userSecret}
    BY <1>2, OkLemma DEF RegistryURL
  <2>2. PICK url \in k.userSecret : Ok(v) = Ok(url)
    BY <2>1
  <2>3. v = url
    BY <2>2, OkLemma
  <2>4. k.userSecret \notin {Absent, Garbled}
    BY <2>1 DEF GetRegistryConfig, Check
  <2>5. k.userSecret \in SUBSET Texts
    BY <2>4 DEF WorldType
  <2> QED
    BY <1>2, <2>2, <2>3, <2>5
<1> QED
  BY <1>1, <1>2

\* The UAA is the one the spec names, or a list of labels made from the token URL.
LEMMA UaaLemma ==
    ASSUME NEW s \in SpecType, NEW k \in WorldType, NEW v, Ok(v) \in computeUaaURL(s, k)
    PROVE  v \in Seq(Texts) /\ (s.uaa # Nil => v = s.uaa)
<1>1. CASE s.uaa # Nil
  <2>1. v = s.uaa
    BY <1>1, OkLemma DEF computeUaaURL
  <2> QED
    BY <1>1, <2>1 DEF SpecType
<1>2. CASE s.uaa = Nil
  <2> DEFINE parts == k.btpSecret
  <2>1. parts \notin {Absent, Nil} /\ Ok(v) = extractUaaURLFromTokenUrl(parts)
    <3>1. Ok(v) \in Check(k.btpSecret \notin {Absent, Nil}, {extractUaaURLFromTokenUrl(k.btpSecret)})
      BY <1>2 DEF computeUaaURL, GetURL
    <3>2. k.btpSecret \notin {Absent, Nil} /\ Ok(v) \in {extractUaaURLFromTokenUrl(k.btpSecret)}
      BY <3>1, CheckLemma, Zenon
    <3> QED
      BY <3>2
  <2>2. parts \in Seq(Texts)
    BY <2>1 DEF WorldType
  <2> HIDE DEF parts
  <2>3. ~(Len(parts) < 2) /\ v = <<"https://uaa.cf">> \o SubSeq(parts, 3, Len(parts))
    BY <2>1, OkLemma DEF extractUaaURLFromTokenUrl
  <2>4. SubSeq(parts, 3, Len(parts)) \in Seq(Texts) /\ <<"https://uaa.cf">> \in Seq(Texts)
    <3>1. SubSeq(parts, 3, Len(parts)) \in Seq(Texts)
      BY <2>2, <2>3, SubSeqLemma
    <3>2. <<"https://uaa.cf">> \in Seq(Texts)
      BY ConfigAssumption DEF Literals
    <3> QED
      BY <3>1, <3>2
  <2> QED
    BY <1>2, <2>3, <2>4
<1> QED
  BY <1>1, <1>2

\* The inner loop keeps the users.
LEMMA UsersLemma ==
    ASSUME NEW subjects \in Seq(Subjects)
    PROVE  /\ Users(subjects) \in Seq(Subjects)
           /\ ToSet(Users(subjects)) = {u \in ToSet(subjects) : u.kind = "User"}
<1> DEFINE T == {u \in Subjects : u.kind = "User"}
           ss == [d \in DOMAIN subjects |-> IF subjects[d] \in T THEN <<subjects[d]>> ELSE <<>>]
<1>1. FlattenSeq(ss) \in Seq(Subjects \cap T) /\ ToSet(FlattenSeq(ss)) = ToSet(subjects) \cap T
  <2> HIDE DEF T
  <2> QED
    BY FilterLemma
<1>2. \A d \in DOMAIN subjects : subjects[d] \in Subjects
  OBVIOUS
<1>3. Users(subjects) = FlattenSeq(ss)
  <2>1. ss = [i \in DOMAIN subjects |-> IF subjects[i].kind = "User" THEN <<subjects[i]>> ELSE <<>>]
    BY <1>2
  <2> QED
    BY <2>1 DEF Users
<1>4. ToSet(subjects) \cap T = {u \in ToSet(subjects) : u.kind = "User"}
  BY <1>2 DEF ToSet
<1>5. Seq(Subjects \cap T) \subseteq Seq(Subjects)
  OBVIOUS
<1> QED
  BY <1>1, <1>3, <1>4, <1>5

\* The two loops together find the cluster admins, whatever the order of the
\* bindings.
LEMMA ClusterAdminsLemma ==
    ASSUME NEW order \in Seq(Bindings)
    PROVE  /\ GetClusterAdmins(order) \in Seq(Subjects)
           /\ ToSet(GetClusterAdmins(order)) = ClusterAdmins(ToSet(order))
<1> DEFINE ss == [b \in DOMAIN order |->
                    IF order[b].role = "cluster-admin" THEN Users(order[b].subjects) ELSE <<>>]
           Found(b) == order[b].role = "cluster-admin"
<1>1. DOMAIN order = 1..Len(order) /\ Len(order) \in Nat
  OBVIOUS
<1>2. ASSUME NEW b \in DOMAIN order
      PROVE  /\ ss[b] \in Seq(Subjects)
             /\ \A u : u \in ToSet(ss[b]) <=> Found(b) /\ u \in ToSet(order[b].subjects) /\ u.kind = "User"
  <2>1. order[b] \in Bindings
    OBVIOUS
  <2>2. order[b].subjects \in Seq(Subjects)
    BY <2>1 DEF Bindings
  <2>3. CASE Found(b)
    BY <2>2, <2>3, UsersLemma
  <2>4. CASE ~Found(b)
    <3>1. ss[b] = <<>>
      BY <2>4
    <3>2. <<>> \in Seq(Subjects) /\ ToSet(<<>>) = {}
      BY DEF ToSet
    <3> HIDE DEF ss
    <3> QED
      BY <2>4, <3>1, <3>2
  <2> QED
    BY <2>3, <2>4
<1>3. ss \in Seq(Seq(Subjects)) /\ DOMAIN ss = DOMAIN order
  <2>1. ss \in [1..Len(order) -> Seq(Subjects)]
    BY <1>1, <1>2
  <2> QED
    BY <1>1, <2>1, FunctionIsSeq
<1>4. GetClusterAdmins(order) = FlattenSeq(ss)
  BY DEF GetClusterAdmins
<1> HIDE DEF ss
<1>5. FlattenSeq(ss) \in Seq(Subjects) /\ ToSet(FlattenSeq(ss)) = UNION {ToSet(ss[b]) : b \in DOMAIN ss}
  BY <1>3, FlattenLemma
<1>6. \A u : u \in ToSet(FlattenSeq(ss)) <=> \E b \in DOMAIN order : u \in ToSet(ss[b])
  BY <1>3, <1>5
<1>7. \A u : u \in ClusterAdmins(ToSet(order))
              <=> \E b \in DOMAIN order : Found(b) /\ u \in ToSet(order[b].subjects) /\ u.kind = "User"
  BY DEF ClusterAdmins, ToSet
<1> HIDE DEF Found
<1>8. \A u : u \in ToSet(FlattenSeq(ss)) <=> u \in ClusterAdmins(ToSet(order))
  BY <1>2, <1>6, <1>7
<1> QED
  BY <1>4, <1>5, <1>8

\* The admins are those the spec names, or the cluster admins.
LEMMA AdminsLemma ==
    ASSUME NEW s \in SpecType, NEW k \in WorldType, IsFiniteSet(k.bindings), NEW v,
           Ok(v) \in computeCFAdmins(s, k)
    PROVE  /\ v \in Seq(Texts)
           /\ s.admins # <<>> => v = s.admins
           /\ s.admins = <<>> => ToSet(v) = {u.name : u \in ClusterAdmins(k.bindings)}
<1>1. CASE s.admins # <<>>
  <2>1. v = s.admins
    BY <1>1, OkLemma DEF computeCFAdmins
  <2> QED
    BY <1>1, <2>1 DEF SpecType
<1>2. CASE s.admins = <<>>
  <2>1. PICK order \in SetToSeqs(k.bindings) :
           Ok(v) = Ok([i \in DOMAIN GetClusterAdmins(order) |-> GetClusterAdmins(order)[i].name])
    BY <1>2 DEF computeCFAdmins
  <2> DEFINE found == GetClusterAdmins(order)
  <2>2. v = [i \in DOMAIN found |-> found[i].name]
    BY <2>1, OkLemma
  <2>3. k.bindings \subseteq Bindings
    BY DEF WorldType
  <2>4. order \in Seq(k.bindings) /\ ToSet(order) = k.bindings
    BY OrderLemma
  <2>5. order \in Seq(Bindings)
    BY <2>3, <2>4
  <2>6. found \in Seq(Subjects) /\ ToSet(found) = ClusterAdmins(k.bindings)
    BY <2>4, <2>5, ClusterAdminsLemma
  <2> HIDE DEF found
  <2>7. DOMAIN found = 1..Len(found) /\ Len(found) \in Nat /\ \A i \in DOMAIN found : found[i].name \in Texts
    <3>1. DOMAIN found = 1..Len(found) /\ Len(found) \in Nat /\ \A i \in DOMAIN found : found[i] \in Subjects
      BY <2>6
    <3>2. \A u \in Subjects : u.name \in Texts
      BY DEF Subjects
    <3> QED
      BY <3>1, <3>2
  <2>8. v \in Seq(Texts)
    BY <2>2, <2>7, FunctionIsSeq
  <2>9. ToSet(v) = {found[i].name : i \in DOMAIN found}
    BY <2>2 DEF ToSet
  <2>10. {found[i].name : i \in DOMAIN found} = {u.name : u \in ToSet(found)}
    BY DEF ToSet
  <2> QED
    BY <1>2, <2>6, <2>8, <2>9, <2>10
<1> QED
  BY <1>1, <1>2

-----------------------------------------------------------------------------
(* Configs.                                                                *)

\* The lookups one by one.
LEMMA LookupsLemma ==
    /\ Len(Lookups) = 6 /\ DOMAIN Lookups = 1..6
    /\ Lookups[1] = "gateway" /\ Lookups[2] = "domain" /\ Lookups[3] = "secret"
    /\ Lookups[4] = "registry" /\ Lookups[5] = "uaa" /\ Lookups[6] = "admins"
    /\ ToSet(Lookups) = {"gateway", "domain", "secret", "registry", "uaa", "admins"}
<1>1. /\ Len(Lookups) = 6 /\ DOMAIN Lookups = 1..6
      /\ Lookups[1] = "gateway" /\ Lookups[2] = "domain" /\ Lookups[3] = "secret"
      /\ Lookups[4] = "registry" /\ Lookups[5] = "uaa" /\ Lookups[6] = "admins"
  BY DEF Lookups
<1>2. \A i : i \in 1..6 <=> i \in {1, 2, 3, 4, 5, 6}
  OBVIOUS
<1> QED
  BY <1>1, <1>2 DEF ToSet

\* No two are the same, and none is another step of a reconcile.
LEMMA LookupsDiffer ==
    /\ \A i, j \in 1..6 : Lookups[i] = Lookups[j] => i = j
    /\ \A i \in 1..6 : Lookups[i] \notin {"idle", "install"} /\ Lookups[i] \in DOMAIN NoConfig
<1>1. \A i : i \in 1..6 <=> i \in {1, 2, 3, 4, 5, 6}
  OBVIOUS
<1> QED
  BY <1>1, LookupsLemma DEF NoConfig

\* Who answers them.
LEMMA AnswersLemma ==
    ASSUME NEW s, NEW k
    PROVE  /\ Answers("gateway", s, k) = Validate(s, k)
           /\ Answers("domain", s, k) = KymaDomain(k)
           /\ Answers("secret", s, k) = RegistrySecret(s, k)
           /\ Answers("registry", s, k) = RegistryURL(s, k)
           /\ Answers("uaa", s, k) = computeUaaURL(s, k)
           /\ Answers("admins", s, k) = computeCFAdmins(s, k)
  BY DEF Answers

\* A record with the fields of a config.
HasFields(c) == DOMAIN c = DOMAIN NoConfig /\ c = [field \in DOMAIN NoConfig |-> c[field]]

\* What completing a config does to it.
LEMMA CompletedLemma ==
    ASSUME NEW s, NEW c, DOMAIN c = DOMAIN NoConfig, NEW d, d = Completed(s, c)
    PROVE  /\ HasFields(d)
           /\ d.ingress = KorifiIngressService(s)
           /\ d.prefix = IF s.prefix # Nil THEN s.prefix ELSE <<d.registry, "/">>
           /\ d.builder = IF s.builder # Nil THEN s.builder ELSE <<d.registry, "/cfapi/kpack-builder">>
           /\ d = Completed(s, d)
<1>1. DOMAIN NoConfig = {"gateway", "ingress", "domain", "secret", "registry", "prefix", "builder", "uaa", "admins"}
  BY DEF NoConfig
<1>2. DOMAIN d = DOMAIN NoConfig /\ d = [field \in DOMAIN NoConfig |-> d[field]]
  BY <1>1 DEF Completed
<1>3. /\ d.ingress = KorifiIngressService(s)
      /\ d.prefix = IF s.prefix # Nil THEN s.prefix ELSE <<c.registry, "/">>
      /\ d.builder = IF s.builder # Nil THEN s.builder ELSE <<c.registry, "/cfapi/kpack-builder">>
      /\ \A field \in DOMAIN NoConfig \ {"ingress", "prefix", "builder"} : d[field] = c[field]
  BY <1>1 DEF Completed
<1>4. d.registry = c.registry
  BY <1>1, <1>3
<1>6. d = Completed(s, d)
  BY <1>1, <1>2, <1>3, <1>4 DEF Completed
<1> QED
  BY <1>2, <1>3, <1>4, <1>6 DEF HasFields

\* What was looked up is left alone.
LEMMA CompletedKeeps ==
    ASSUME NEW s, NEW c, DOMAIN c = DOMAIN NoConfig, NEW lookup \in ToSet(Lookups)
    PROVE  Completed(s, c)[lookup] = c[lookup]
<1>1. DOMAIN NoConfig = {"gateway", "ingress", "domain", "secret", "registry", "prefix", "builder", "uaa", "admins"}
  BY DEF NoConfig
<1> QED
  BY <1>1, LookupsLemma DEF Completed

\* A config compiled from a spec has everything in it, each thing of its kind, and
\* keeps what the README promises of it for that spec, whatever states of Kyma the
\* lookups were answered in.
LEMMA CompiledLemma ==
    ASSUME NEW s \in Specs, NEW c, HasFields(c), Compiled(c, s)
    PROVE  /\ c \in ConfigType
           /\ PromisedBySpec(c, s)
<1>1. s \in SpecType /\ \A k \in Worlds : k \in WorldType /\ IsFiniteSet(k.bindings)
  BY ConfigAssumption
<1>2. \A i \in 1..6 : \E k \in Worlds : Ok(c[Lookups[i]]) \in Answers(Lookups[i], s, k)
  BY LookupsLemma DEF Compiled
<1>3. c.gateway = (IF s.gateway = "istio" THEN "istio" ELSE "contour")
  <2>1. PICK k \in Worlds : Ok(c["gateway"]) \in Answers("gateway", s, k)
    BY <1>2, LookupsLemma
  <2> QED
    BY <1>1, <2>1, AnswersLemma, GatewayLemma
<1>4. c.domain \in Seq(Texts)
  <2>1. PICK k \in Worlds : Ok(c["domain"]) \in Answers("domain", s, k)
    BY <1>2, LookupsLemma
  <2>2. Ok(c.domain) \in KymaDomain(k)
    BY <2>1, AnswersLemma
  <2>3. /\ k.gateway[1][1] \in Seq(Texts) /\ ~(Len(k.gateway[1][1]) < 2)
        /\ c.domain = SubSeq(k.gateway[1][1], 3, Len(k.gateway[1][1]))
    BY <1>1, <2>2, DomainLemma
  <2> QED
    BY <2>3, SubSeqLemma
<1>5. c.secret = (IF s.secret = Nil THEN KymaSecret ELSE s.secret)
  <2>1. PICK k \in Worlds : Ok(c["secret"]) \in Answers("secret", s, k)
    BY <1>2, LookupsLemma
  <2> QED
    BY <1>1, <2>1, AnswersLemma, SecretLemma
<1>6. c.registry \in Texts
  <2>1. PICK k \in Worlds : Ok(c["registry"]) \in Answers("registry", s, k)
    BY <1>2, LookupsLemma
  <2> QED
    BY <1>1, <2>1, AnswersLemma, RegistryLemma
<1>7. c.uaa \in Seq(Texts) /\ (s.uaa # Nil => c.uaa = s.uaa)
  <2>1. PICK k \in Worlds : Ok(c["uaa"]) \in Answers("uaa", s, k)
    BY <1>2, LookupsLemma
  <2> QED
    BY <1>1, <2>1, AnswersLemma, UaaLemma
<1>8. c.admins \in Seq(Texts) /\ (s.admins # <<>> => c.admins = s.admins)
  <2>1. PICK k \in Worlds : Ok(c["admins"]) \in Answers("admins", s, k)
    BY <1>2, LookupsLemma
  <2> QED
    BY <1>1, <2>1, AnswersLemma, AdminsLemma
<1>9. /\ c.ingress = KorifiIngressService(s)
      /\ c.prefix = IF s.prefix # Nil THEN s.prefix ELSE <<c.registry, "/">>
      /\ c.builder = IF s.builder # Nil THEN s.builder ELSE <<c.registry, "/cfapi/kpack-builder">>
  <2>1. c = Completed(s, c)
    BY DEF Compiled
  <2> QED
    BY <2>1, CompletedLemma DEF HasFields
<1>10. c.gateway \in Texts /\ c.ingress \in Texts
  BY <1>3, <1>9, ConfigAssumption DEF KorifiIngressService, Literals
<1>11. c.secret \in Texts
  BY <1>1, <1>5, ConfigAssumption DEF SpecType, Literals
<1>12. c.prefix \in Seq(Texts) /\ c.builder \in Seq(Texts)
  <2>1. <<c.registry, "/">> \in Seq(Texts) /\ <<c.registry, "/cfapi/kpack-builder">> \in Seq(Texts)
    BY <1>6, ConfigAssumption DEF Literals
  <2>2. /\ s.prefix # Nil => s.prefix \in Seq(Texts)
        /\ s.builder # Nil => s.builder \in Seq(Texts)
    BY <1>1 DEF SpecType
  <2> QED
    BY <1>9, <2>1, <2>2
<1>13. c \in ConfigType
  BY <1>4, <1>6, <1>7, <1>8, <1>10, <1>11, <1>12 DEF ConfigType, HasFields, NoConfig
<1>14. c.ingress = (IF c.gateway = "istio" THEN "korifi-istio" ELSE "contour-envoy")
  BY <1>3, <1>9 DEF KorifiIngressService
<1>15. /\ c.prefix \in {s.prefix, <<c.registry, "/">>} \ {Nil}
       /\ c.builder \in {s.builder, <<c.registry, "/cfapi/kpack-builder">>} \ {Nil}
  <2>1. c.prefix # Nil /\ c.builder # Nil
    BY <1>12, ConfigAssumption
  <2> QED
    BY <1>9, <2>1
<1> QED
  BY <1>3, <1>5, <1>7, <1>8, <1>13, <1>14, <1>15 DEF PromisedBySpec

\* The first host of the Kyma gateway is a wildcard, which is what KymaDomain takes
\* for granted when it cuts off two characters.
WildcardFirst(k) ==
    k.gateway # Absent /\ k.gateway # <<>> /\ k.gateway[1] # <<>> /\ ~(Len(k.gateway[1][1]) < 2)
        => k.gateway[1][1][1] = "*" /\ k.gateway[1][1][2] = "."

\* A config compiled from one spec and one state of Kyma keeps all that the README
\* promises of it: for all specs and states of Kyma, and in whatever order Kyma
\* lists its registries and role bindings.
THEOREM PromisesKept ==
    ASSUME NEW s \in Specs, NEW k \in Worlds, WildcardFirst(k),
           NEW c, HasFields(c), \A i \in DOMAIN Lookups : Ok(c[Lookups[i]]) \in Answers(Lookups[i], s, k),
           c = Completed(s, c)
    PROVE  Promised(c, s, k)
<1>1. s \in SpecType /\ k \in WorldType /\ IsFiniteSet(k.bindings)
  BY ConfigAssumption
<1>2. Compiled(c, s)
  BY DEF Compiled
<1>3. PromisedBySpec(c, s)
  BY <1>2, CompiledLemma
<1>4. /\ Ok(c.domain) \in KymaDomain(k)
      /\ Ok(c.registry) \in RegistryURL(s, k)
      /\ Ok(c.admins) \in computeCFAdmins(s, k)
  <2>1. \A i \in 1..6 : Ok(c[Lookups[i]]) \in Answers(Lookups[i], s, k)
    BY LookupsLemma
  <2>2. /\ Ok(c["domain"]) \in Answers("domain", s, k)
        /\ Ok(c["registry"]) \in Answers("registry", s, k)
        /\ Ok(c["admins"]) \in Answers("admins", s, k)
    BY <2>1, LookupsLemma
  <2> QED
    BY <2>2, AnswersLemma
<1>5. DomainIsServed(c, k)
  <2> DEFINE g == k.gateway[1]
             h == g[1]
  <2>1. /\ k.gateway \in Seq(Seq(Seq(Texts))) /\ k.gateway # <<>>
        /\ g \in Seq(Seq(Texts)) /\ g # <<>> /\ h \in Seq(Texts) /\ ~(Len(h) < 2)
        /\ c.domain = SubSeq(h, 3, Len(h)) /\ k.gateway # Absent
    BY <1>1, <1>4, DomainLemma
  <2>2. h[1] = "*" /\ h[2] = "."
    BY <2>1 DEF WildcardFirst
  <2>3. h \in ToSet(g)
    <3> HIDE DEF g
    <3> QED
      BY <2>1 DEF ToSet
  <2> HIDE DEF g, h
  <2>4. <<"*", ".">> \o c.domain = h
    BY <2>1, <2>2, SubSeqLemma
  <2> QED
    BY <2>3, <2>4 DEF DomainIsServed, g
<1>6. RegistryIsKnown(c, s, k)
  BY <1>1, <1>4, RegistryLemma DEF RegistryIsKnown
<1>7. AdminsAreAdmins(c, s, k)
  BY <1>1, <1>4, AdminsLemma DEF AdminsAreAdmins
<1> QED
  BY <1>3, <1>5, <1>6, <1>7 DEF Promised

-----------------------------------------------------------------------------
(* Installing again.                                                       *)

\* A config that one state of Kyma answers.
AnsweredBy(c, s, k) ==
    /\ \A i \in DOMAIN Lookups : Ok(c[Lookups[i]]) \in Answers(Lookups[i], s, k)
    /\ c = Completed(s, c)

\* With one such binding, or none, the order of the bindings does not matter.
LEMMA OneOrder ==
    ASSUME NEW B \in SUBSET Bindings, IsFiniteSet(B), \A x, y \in B : HasUsers(x) /\ HasUsers(y) => x = y,
           NEW one \in SetToSeqs(B), NEW other \in SetToSeqs(B)
    PROVE  GetClusterAdmins(one) = GetClusterAdmins(other)
<1> DEFINE Found(order) == [b \in DOMAIN order |->
             IF order[b].role = "cluster-admin" THEN Users(order[b].subjects) ELSE <<>>]
<1>1. ASSUME NEW order \in SetToSeqs(B)
      PROVE  /\ Found(order) \in Seq(Seq(Subjects)) /\ DOMAIN Found(order) = DOMAIN order
             /\ ToSet(order) = B /\ \A i, j \in DOMAIN order : order[i] = order[j] => i = j
             /\ \A i \in DOMAIN order : order[i] \in B
             /\ \A i \in DOMAIN order : ~HasUsers(order[i]) => Found(order)[i] = <<>>
             /\ \A i \in DOMAIN order : HasUsers(order[i]) => Found(order)[i] = Users(order[i].subjects)
  <2>1. /\ order \in Seq(B) /\ ToSet(order) = B
        /\ \A i, j \in DOMAIN order : order[i] = order[j] => i = j
    BY OrderLemma
  <2>2. DOMAIN order = 1..Len(order) /\ Len(order) \in Nat /\ \A i \in DOMAIN order : order[i] \in B
    BY <2>1
  <2>3. \A b \in B : Users(b.subjects) \in Seq(Subjects)
    BY UsersLemma DEF Bindings
  <2>4. \A i \in DOMAIN order : Found(order)[i] \in Seq(Subjects)
    BY <2>2, <2>3
  <2>5. Found(order) \in [1..Len(order) -> Seq(Subjects)]
    BY <2>2, <2>4
  <2>6. Found(order) \in Seq(Seq(Subjects))
    BY <2>2, <2>5, FunctionIsSeq
  <2>7. \A i \in DOMAIN order :
           /\ ~HasUsers(order[i]) => Found(order)[i] = <<>>
           /\ HasUsers(order[i]) => Found(order)[i] = Users(order[i].subjects)
    BY DEF HasUsers
  <2>8. DOMAIN Found(order) = DOMAIN order
    OBVIOUS
  <2> HIDE DEF Found
  <2> QED
    BY <2>1, <2>2, <2>6, <2>7, <2>8
<1>2. \A order : GetClusterAdmins(order) = FlattenSeq(Found(order))
  BY DEF GetClusterAdmins
<1> HIDE DEF Found
<1>3. CASE \E b \in B : HasUsers(b)
  <2>1. PICK b \in B : HasUsers(b)
    BY <1>3
  <2>2. ASSUME NEW order \in SetToSeqs(B) PROVE FlattenSeq(Found(order)) = Users(b.subjects)
    <3>1. PICK j \in DOMAIN order : order[j] = b
      BY <1>1 DEF ToSet
    <3>2. \A i \in DOMAIN order : i # j => ~HasUsers(order[i])
      BY <1>1, <2>1, <3>1
    <3>3. \A i \in DOMAIN Found(order) : i # j => Found(order)[i] = <<>>
      BY <1>1, <3>2
    <3>4. Found(order) \in Seq(Seq(Subjects)) /\ j \in DOMAIN Found(order)
      BY <1>1
    <3>5. FlattenSeq(Found(order)) = Found(order)[j]
      BY <3>3, <3>4, FlattenOne
    <3> QED
      BY <1>1, <2>1, <3>1, <3>5
  <2> QED
    BY <1>2, <2>2
<1>4. CASE ~ \E b \in B : HasUsers(b)
  <2>1. ASSUME NEW order \in SetToSeqs(B) PROVE FlattenSeq(Found(order)) = <<>>
    <3>1. Found(order) \in Seq(Seq(Subjects)) /\ \A i \in DOMAIN Found(order) : Found(order)[i] = <<>>
      BY <1>1, <1>4
    <3> QED
      BY <3>1, FlattenNone
  <2> QED
    BY <1>2, <2>1
<1> QED
  BY <1>3, <1>4

\* Then no lookup has two answers,
LEMMA OneAnswer ==
    ASSUME NEW s \in Specs, NEW k \in Worlds, Unambiguous(s, k), NEW i \in 1..6, NEW v, NEW w,
           Ok(v) \in Answers(Lookups[i], s, k), Ok(w) \in Answers(Lookups[i], s, k)
    PROVE  v = w
<1>0. s \in SpecType /\ k \in WorldType /\ IsFiniteSet(k.bindings)
  BY ConfigAssumption
<1>1. CASE i = 1
  BY <1>0, <1>1, LookupsLemma, AnswersLemma, GatewayLemma
<1>2. CASE i = 2
  <2>1. Ok(v) \in KymaDomain(k) /\ Ok(w) \in KymaDomain(k)
    BY <1>2, LookupsLemma, AnswersLemma
  <2>2. PICK x : x = SubSeq(k.gateway[1][1], 3, Len(k.gateway[1][1]))
    OBVIOUS
  <2>3. v = x
    BY <1>0, <2>1, <2>2, DomainLemma
  <2>4. w = x
    BY <1>0, <2>1, <2>2, DomainLemma
  <2> QED
    BY <2>3, <2>4
<1>3. CASE i = 3
  BY <1>0, <1>3, LookupsLemma, AnswersLemma, SecretLemma
<1>4. CASE i = 4
  <2>1. Ok(v) \in RegistryURL(s, k) /\ Ok(w) \in RegistryURL(s, k)
    BY <1>4, LookupsLemma, AnswersLemma
  <2>2. /\ IF s.secret = Nil THEN v = k.kymaSecret ELSE v \in k.userSecret
        /\ IF s.secret = Nil THEN w = k.kymaSecret ELSE w \in k.userSecret
    BY <1>0, <2>1, RegistryLemma
  <2>3. s.secret # Nil => k.userSecret \notin {Absent, Garbled}
    BY <2>1, OkLemma DEF RegistryURL, GetRegistryConfig, Check
  <2> QED
    BY <2>2, <2>3 DEF Unambiguous
<1>5. CASE i = 5
  <2>1. Ok(v) \in computeUaaURL(s, k) /\ Ok(w) \in computeUaaURL(s, k)
    BY <1>5, LookupsLemma, AnswersLemma
  <2>2. CASE s.uaa # Nil
    BY <1>0, <2>1, <2>2, UaaLemma
  <2>3. CASE s.uaa = Nil
    <3>1. /\ Ok(v) \in {extractUaaURLFromTokenUrl(k.btpSecret)}
          /\ Ok(w) \in {extractUaaURLFromTokenUrl(k.btpSecret)}
      BY <2>1, <2>3, CheckLemma DEF computeUaaURL, GetURL
    <3> QED
      BY <3>1, OkLemma
  <2> QED
    BY <2>2, <2>3
<1>6. CASE i = 6
  <2>1. Ok(v) \in computeCFAdmins(s, k) /\ Ok(w) \in computeCFAdmins(s, k)
    BY <1>6, LookupsLemma, AnswersLemma
  <2>2. CASE s.admins # <<>>
    BY <1>0, <2>1, <2>2, AdminsLemma
  <2>3. CASE s.admins = <<>>
    <3> DEFINE Names(order) == [n \in DOMAIN GetClusterAdmins(order) |-> GetClusterAdmins(order)[n].name]
    <3>1. PICK one \in SetToSeqs(k.bindings) : Ok(v) = Ok(Names(one))
      BY <2>1, <2>3 DEF computeCFAdmins
    <3>2. PICK other \in SetToSeqs(k.bindings) : Ok(w) = Ok(Names(other))
      BY <2>1, <2>3 DEF computeCFAdmins
    <3>3. k.bindings \in SUBSET Bindings /\ \A x, y \in k.bindings : HasUsers(x) /\ HasUsers(y) => x = y
      BY <1>0, <2>3 DEF WorldType, Unambiguous
    <3>4. GetClusterAdmins(one) = GetClusterAdmins(other)
      BY <1>0, <3>3, OneOrder
    <3>5. Names(one) = Names(other)
      BY <3>4
    <3> HIDE DEF Names
    <3> QED
      BY <3>1, <3>2, <3>5, OkLemma
  <2> QED
    BY <2>2, <2>3
<1> QED
  BY <1>1, <1>2, <1>3, <1>4, <1>5, <1>6

\* and there is but one config to compile.
LEMMA OneConfig ==
    ASSUME NEW s \in Specs, NEW k \in Worlds, Unambiguous(s, k),
           NEW c, HasFields(c), AnsweredBy(c, s, k), NEW d, HasFields(d), AnsweredBy(d, s, k)
    PROVE  c = d
<1>1. \A i \in 1..6 : c[Lookups[i]] = d[Lookups[i]]
  <2>1. \A i \in 1..6 : /\ Ok(c[Lookups[i]]) \in Answers(Lookups[i], s, k)
                       /\ Ok(d[Lookups[i]]) \in Answers(Lookups[i], s, k)
    BY LookupsLemma DEF AnsweredBy
  <2> QED
    BY <2>1, OneAnswer
<1>2. c["registry"] = d["registry"]
  BY <1>1, LookupsLemma
<1>3. /\ c["gateway"] = d["gateway"] /\ c["domain"] = d["domain"] /\ c["secret"] = d["secret"]
      /\ c["uaa"] = d["uaa"] /\ c["admins"] = d["admins"]
  BY <1>1, LookupsLemma
<1>4. c = Completed(s, c) /\ d = Completed(s, d) /\ DOMAIN c = DOMAIN NoConfig /\ DOMAIN d = DOMAIN NoConfig
  BY DEF AnsweredBy, HasFields
<1>5. /\ c.ingress = KorifiIngressService(s)
      /\ c.prefix = IF s.prefix # Nil THEN s.prefix ELSE <<c.registry, "/">>
      /\ c.builder = IF s.builder # Nil THEN s.builder ELSE <<c.registry, "/cfapi/kpack-builder">>
  BY <1>4, CompletedLemma
<1>6. /\ d.ingress = KorifiIngressService(s)
      /\ d.prefix = IF s.prefix # Nil THEN s.prefix ELSE <<d.registry, "/">>
      /\ d.builder = IF s.builder # Nil THEN s.builder ELSE <<d.registry, "/cfapi/kpack-builder">>
  BY <1>4, CompletedLemma
<1>7. c["ingress"] = d["ingress"] /\ c["prefix"] = d["prefix"] /\ c["builder"] = d["builder"]
  BY <1>2, <1>5, <1>6
<1>8. DOMAIN NoConfig = {"gateway", "ingress", "domain", "secret", "registry", "prefix", "builder", "uaa", "admins"}
  BY DEF NoConfig
<1>9. \A field \in DOMAIN NoConfig : c[field] = d[field]
  BY <1>2, <1>3, <1>7, <1>8
<1> QED
  BY <1>9 DEF HasFields

-----------------------------------------------------------------------------
(* The inductive invariant.                                                *)

\* An answer with a value is an Ok.
LEMMA AnswerForm ==
    ASSUME NEW i \in 1..6, NEW s, NEW k, NEW a \in Answers(Lookups[i], s, k), a.kind = "ok"
    PROVE  a = Ok(a.value)
<1>1. Error.kind # "ok" /\ Panic.kind # "ok"
  BY DEF Error, Panic
<1>2. \A v : Ok(v) = Ok(Ok(v).value)
  BY OkLemma
<1>3. CASE i = 1
  BY <1>1, <1>2, <1>3, LookupsLemma, AnswersLemma DEF Validate, Check
<1>4. CASE i = 2
  BY <1>1, <1>2, <1>4, LookupsLemma, AnswersLemma DEF KymaDomain, Check
<1>5. CASE i = 3
  BY <1>1, <1>2, <1>5, LookupsLemma, AnswersLemma DEF RegistrySecret, GetRegistrySecret, Check
<1>6. CASE i = 4
  BY <1>1, <1>2, <1>6, LookupsLemma, AnswersLemma DEF RegistryURL, GetRegistryURL, Check
<1>7. CASE i = 5
  BY <1>1, <1>2, <1>7, LookupsLemma, AnswersLemma DEF computeUaaURL, GetURL, extractUaaURLFromTokenUrl, Check
<1>8. CASE i = 6
  <2>1. a \in computeCFAdmins(s, k)
    BY <1>8, LookupsLemma, AnswersLemma
  <2>2. \E v : a = Ok(v)
    <3>1. CASE s.admins # <<>>
      BY <2>1, <3>1 DEF computeCFAdmins
    <3>2. CASE s.admins = <<>>
      <4>1. PICK subjects \in {GetClusterAdmins(order) : order \in SetToSeqs(k.bindings)} :
               a = Ok([n \in DOMAIN subjects |-> subjects[n].name])
        BY <2>1, <3>2 DEF computeCFAdmins
      <4> QED
        BY <4>1
    <3> QED
      BY <3>1, <3>2
  <2> QED
    BY <1>2, <2>2
<1> QED
  BY <1>3, <1>4, <1>5, <1>6, <1>7, <1>8

\* At a lookup the earlier ones are passed; outside of a reconcile, none.
LEMMA PassedLemma ==
    /\ \A i, j \in 1..6 : pc = Lookups[i] => (Passed(j) <=> j < i)
    /\ pc = "idle" => \A j \in 1..6 : ~Passed(j)
    /\ pc = "install" => \A j \in 1..6 : Passed(j)
<1>1. \A i, j \in 1..6 : pc = Lookups[i] => (Passed(j) <=> j < i)
  <2> SUFFICES ASSUME NEW i \in 1..6, NEW j \in 1..6, pc = Lookups[i]
               PROVE  Passed(j) <=> j < i
    OBVIOUS
  <2>1. pc # "install"
    BY LookupsDiffer
  <2>2. ASSUME Passed(j) PROVE j < i
    <3>1. PICK n \in (j + 1)..6 : pc = Lookups[n]
      BY <2>1, <2>2, LookupsLemma DEF Passed
    <3>2. n \in 1..6
      OBVIOUS
    <3>3. n = i
      BY <3>1, <3>2, LookupsDiffer
    <3> QED
      BY <3>1, <3>3
  <2>3. ASSUME j < i PROVE Passed(j)
    BY <2>3, LookupsLemma DEF Passed
  <2> QED
    BY <2>2, <2>3
<1>2. pc = "idle" => \A j \in 1..6 : ~Passed(j)
  <2> SUFFICES ASSUME pc = "idle", NEW j \in 1..6, Passed(j) PROVE FALSE
    OBVIOUS
  <2>1. PICK n \in (j + 1)..6 : pc = Lookups[n]
    BY LookupsLemma DEF Passed
  <2> QED
    BY <2>1, LookupsDiffer
<1>3. pc = "install" => \A j \in 1..6 : Passed(j)
  BY DEF Passed
<1> QED
  BY <1>1, <1>2, <1>3

\* A config with everything in it is not empty.
LEMMA ConfigIsNotEmpty == NoConfig \notin ConfigType
<1>1. NoConfig.gateway = Nil /\ \A c \in ConfigType : c.gateway \in Texts
  BY DEF NoConfig, ConfigType
<1> QED
  BY <1>1, ConfigAssumption

\* What is installed is compiled from the spec that was read, and complete.
LEMMA InstallLemma ==
    ASSUME IndInv, pc = "install"
    PROVE  /\ Completed(seen, conf) \in ConfigType
           /\ Completed(seen, conf) # NoConfig
           /\ Compiled(Completed(seen, conf), seen)
           /\ HasFields(Completed(seen, conf))
           /\ quiet => AnsweredBy(Completed(seen, conf), seen, kyma)
           /\ quiet /\ WildcardFirst(kyma) => Promised(Completed(seen, conf), seen, kyma)
<1>0. PICK d : d = Completed(seen, conf)
  OBVIOUS
<1>1. DOMAIN conf = DOMAIN NoConfig /\ seen \in Specs /\ kyma \in Worlds
  BY DEF IndInv, TypeOK
<1>2. /\ HasFields(d)
      /\ \A i \in DOMAIN Lookups : d[Lookups[i]] = conf[Lookups[i]]
      /\ d = Completed(seen, d)
  <2>1. HasFields(d) /\ d = Completed(seen, d)
    BY <1>0, <1>1, CompletedLemma
  <2>2. \A lookup \in ToSet(Lookups) : d[lookup] = conf[lookup]
    BY <1>0, <1>1, CompletedKeeps
  <2> QED
    BY <2>1, <2>2 DEF ToSet
<1>3. \A i \in 1..6 : \E k \in Worlds :
         Ok(conf[Lookups[i]]) \in Answers(Lookups[i], seen, k) /\ (quiet => k = kyma)
  BY PassedLemma, LookupsLemma DEF IndInv, LookedUpForSeen
<1>4. Compiled(d, seen)
  BY <1>2, <1>3, LookupsLemma DEF Compiled
<1>5. d \in ConfigType
  BY <1>1, <1>2, <1>4, CompiledLemma
<1>6. ASSUME quiet PROVE AnsweredBy(d, seen, kyma)
  <2>1. \A i \in DOMAIN Lookups : Ok(d[Lookups[i]]) \in Answers(Lookups[i], seen, kyma)
    BY <1>2, <1>3, <1>6, LookupsLemma
  <2> QED
    BY <1>2, <2>1 DEF AnsweredBy
<1>7. ASSUME quiet, WildcardFirst(kyma) PROVE Promised(d, seen, kyma)
  BY <1>1, <1>2, <1>6, <1>7, PromisesKept DEF AnsweredBy
<1>8. d # NoConfig
  BY <1>5, ConfigIsNotEmpty
<1> QED
  BY <1>0, <1>2, <1>4, <1>5, <1>6, <1>7, <1>8

\* The initial states satisfy it.
LEMMA InitInv == Init => IndInv
<1> SUFFICES ASSUME Init PROVE IndInv
  OBVIOUS
<1>1. TypeOK
  <2>1. spec \in Specs /\ seen \in Specs /\ kyma \in Worlds
    BY DEF Init
  <2>2. queued \in BOOLEAN /\ timer \in BOOLEAN /\ quiet \in BOOLEAN
    BY DEF Init
  <2>3. pc \in {"idle", "install"} \cup ToSet(Lookups) /\ DOMAIN conf = DOMAIN NoConfig
    BY DEF Init
  <2>4. status \in [state : {"Processing", "Ready", "Warning"}, config : {NoConfig} \cup ConfigType]
    BY DEF Init
  <2>5. released \in {NoConfig} \cup ConfigType /\ changes \in 0..MaxChanges
    BY ConfigAssumption DEF Init
  <2> QED
    BY <2>1, <2>2, <2>3, <2>4, <2>5 DEF TypeOK
<1>2. LookedUpForSeen
  BY LookupsLemma, PassedLemma DEF Init, LookedUpForSeen
<1>3. StatusTellsReleased
  BY DEF Init, StatusTellsReleased
<1> QED
  BY <1>1, <1>2, <1>3 DEF IndInv

\* A step that leaves the reconcile alone, and Kyma unless it says so.
LEMMA LookedUpFrame ==
    ASSUME IndInv, UNCHANGED <<pc, seen, conf>>, quiet' => quiet /\ kyma' = kyma
    PROVE  LookedUpForSeen'
<1>1. ASSUME NEW i \in DOMAIN Lookups, Passed(i)'
      PROVE  \E k \in Worlds : Ok(conf'[Lookups[i]]) \in Answers(Lookups[i], seen', k) /\ (quiet' => k = kyma')
  <2>1. Passed(i)
    BY <1>1 DEF Passed
  <2>2. PICK k \in Worlds : Ok(conf[Lookups[i]]) \in Answers(Lookups[i], seen, k) /\ (quiet => k = kyma)
    BY <2>1 DEF IndInv, LookedUpForSeen
  <2> QED
    BY <2>2
<1> QED
  BY <1>1 DEF LookedUpForSeen

\* Nothing is looked up when no reconcile runs.
LEMMA LookedUpIdle ==
    ASSUME pc' = "idle"
    PROVE  LookedUpForSeen'
<1>1. ASSUME NEW i \in 1..6, Passed(i)' PROVE FALSE
  <2>1. PICK n \in (i + 1)..6 : pc' = Lookups[n]
    BY <1>1, LookupsLemma DEF Passed
  <2>2. n \in 1..6
    OBVIOUS
  <2> QED
    BY <2>1, <2>2, LookupsDiffer
<1> QED
  BY <1>1, LookupsLemma DEF LookedUpForSeen

\* A successful lookup adds its answer to the earlier ones.
LEMMA LookUpKeeps ==
    ASSUME IndInv, NEW i \in DOMAIN Lookups, LookUp(i)
    PROVE  IndInv'
<1>1. i \in 1..6 /\ pc = Lookups[i] /\ Len(Lookups) = 6 /\ DOMAIN Lookups = 1..6
  BY LookupsLemma DEF LookUp
<1>2. PICK answer \in Answers(Lookups[i], seen, kyma) :
         answer.kind = "ok" /\ conf' = [conf EXCEPT ![Lookups[i]] = answer.value]
  BY <1>1 DEF LookUp
<1>3. pc' = IF i = 6 THEN "install" ELSE Lookups[i + 1]
  BY <1>1 DEF LookUp
<1>4. UNCHANGED <<spec, kyma, queued, timer, seen, quiet, status, released, changes>>
  BY DEF LookUp
<1>5. Ok(answer.value) \in Answers(Lookups[i], seen, kyma)
  BY <1>1, <1>2, AnswerForm
<1>6. DOMAIN conf = DOMAIN NoConfig /\ Lookups[i] \in DOMAIN conf
  BY <1>1, LookupsDiffer DEF IndInv, TypeOK
<1>7. conf'[Lookups[i]] = answer.value /\ \A j \in 1..6 : j # i => conf'[Lookups[j]] = conf[Lookups[j]]
  BY <1>1, <1>2, <1>6, LookupsDiffer
<1>8. \A j \in 1..6 : Passed(j)' => j <= i
  <2> SUFFICES ASSUME NEW j \in 1..6, Passed(j)', ~(j <= i) PROVE FALSE
    OBVIOUS
  <2>1. i # 6 /\ i + 1 \in 1..6 /\ pc' = Lookups[i + 1]
    BY <1>1, <1>3
  <2>2. pc' # "install"
    BY <2>1, LookupsDiffer
  <2>3. PICK n \in (j + 1)..6 : pc' = Lookups[n]
    BY <1>1, <2>2 DEF Passed
  <2>4. n \in 1..6 /\ n # i + 1
    BY <1>1
  <2> QED
    BY <2>1, <2>3, <2>4, LookupsDiffer
<1>9. LookedUpForSeen'
  <2>1. ASSUME NEW j \in 1..6, Passed(j)'
        PROVE  \E k \in Worlds : Ok(conf'[Lookups[j]]) \in Answers(Lookups[j], seen', k) /\ (quiet' => k = kyma')
    <3>1. CASE j = i
      <4>1. kyma \in Worlds
        BY DEF IndInv, TypeOK
      <4> QED
        BY <1>4, <1>5, <1>7, <3>1, <4>1
    <3>2. CASE j # i
      <4>1. j < i
        BY <1>1, <1>8, <2>1, <3>2
      <4>2. Passed(j)
        BY <1>1, <4>1, PassedLemma
      <4>3. PICK k \in Worlds : Ok(conf[Lookups[j]]) \in Answers(Lookups[j], seen, k) /\ (quiet => k = kyma)
        BY <1>1, <4>2 DEF IndInv, LookedUpForSeen
      <4> QED
        BY <1>4, <1>7, <3>2, <4>3
    <3> QED
      BY <3>1, <3>2
  <2> QED
    BY <1>1, <2>1 DEF LookedUpForSeen
<1>10. pc' \in {"idle", "install"} \cup ToSet(Lookups)
  BY <1>1, <1>3 DEF ToSet
<1>11. TypeOK'
  BY <1>2, <1>4, <1>6, <1>10 DEF IndInv, TypeOK
<1>12. StatusTellsReleased'
  BY <1>4 DEF IndInv, StatusTellsReleased
<1> QED
  BY <1>9, <1>11, <1>12 DEF IndInv

\* Every step keeps it.
LEMMA NextInv == IndInv /\ [Next]_vars => IndInv'
<1> SUFFICES ASSUME IndInv, [Next]_vars PROVE IndInv'
  OBVIOUS
<1>0. TypeOK /\ LookedUpForSeen /\ StatusTellsReleased
  BY DEF IndInv
<1>1. CASE Begin
  <2>1. TypeOK'
    <3>1. spec' \in Specs /\ seen' \in Specs /\ kyma' \in Worlds
      BY <1>0, <1>1 DEF Begin, TypeOK
    <3>2. queued' \in BOOLEAN /\ timer' \in BOOLEAN /\ quiet' \in BOOLEAN
      BY <1>0, <1>1 DEF Begin, TypeOK
    <3>3. pc' \in {"idle", "install"} \cup ToSet(Lookups)
      BY <1>1, LookupsLemma DEF Begin, ToSet
    <3> QED
      BY <1>0, <1>1, <3>1, <3>2, <3>3 DEF Begin, TypeOK
  <2>2. LookedUpForSeen'
    <3>1. pc' = Lookups[1]
      BY <1>1 DEF Begin
    <3>2. ASSUME NEW i \in 1..6, Passed(i)' PROVE FALSE
      <4>1. pc' # "install"
        BY <3>1, LookupsDiffer
      <4>2. PICK n \in (i + 1)..6 : pc' = Lookups[n]
        BY <3>2, <4>1, LookupsLemma DEF Passed
      <4>3. n \in 1..6 /\ 1 \in 1..6 /\ n # 1
        OBVIOUS
      <4>4. Lookups[n] # Lookups[1]
        BY <4>3, LookupsDiffer
      <4> QED
        BY <3>1, <4>2, <4>4
    <3> QED
      BY <3>2, LookupsLemma DEF LookedUpForSeen
  <2>3. StatusTellsReleased'
    BY <1>0, <1>1 DEF Begin, StatusTellsReleased
  <2> QED
    BY <2>1, <2>2, <2>3 DEF IndInv
<1>2. CASE CompileFails
  <2>1. status' = [status EXCEPT !.state = "Warning"] /\ queued' \in BOOLEAN /\ released' = released
    BY <1>2 DEF CompileFails, SetStatus
  <2>2. status' \in [state : {"Processing", "Ready", "Warning"}, config : {NoConfig} \cup ConfigType]
    BY <1>0, <2>1 DEF TypeOK
  <2>3. TypeOK'
    BY <1>0, <1>2, <2>1, <2>2 DEF CompileFails, TypeOK
  <2>4. LookedUpForSeen'
    BY <1>2, LookedUpIdle DEF CompileFails
  <2>5. StatusTellsReleased'
    <3>1. status'.config = status.config /\ status'.state = "Warning"
      BY <1>0, <2>1 DEF TypeOK
    <3> QED
      BY <1>0, <2>1, <3>1 DEF StatusTellsReleased
  <2> QED
    BY <2>3, <2>4, <2>5 DEF IndInv
<1>3. CASE Panics
  <2>1. TypeOK'
    BY <1>0, <1>3 DEF Panics, TypeOK
  <2>2. LookedUpForSeen'
    BY <1>3, LookedUpIdle DEF Panics
  <2>3. StatusTellsReleased'
    BY <1>0, <1>3 DEF Panics, StatusTellsReleased
  <2> QED
    BY <2>1, <2>2, <2>3 DEF IndInv
<1>4. CASE Install
  <2>1. PICK d : d = Completed(seen, conf)
    OBVIOUS
  <2>2. d \in ConfigType /\ d # NoConfig /\ Compiled(d, seen)
    BY <1>4, <2>1, InstallLemma DEF Install
  <2>3. released' = d /\ status' = [state |-> "Ready", config |-> d] /\ queued' \in BOOLEAN
    BY <1>4, <2>1 DEF Install, SetStatus
  <2>4. TypeOK'
    BY <1>0, <1>4, <2>2, <2>3 DEF Install, TypeOK
  <2>5. LookedUpForSeen'
    BY <1>4, LookedUpIdle DEF Install
  <2>6. StatusTellsReleased'
    <3>1. seen \in Specs
      BY <1>0 DEF TypeOK
    <3> QED
      BY <2>2, <2>3, <3>1 DEF StatusTellsReleased
  <2> QED
    BY <2>4, <2>5, <2>6 DEF IndInv
<1>5. CASE \E i \in DOMAIN Lookups : LookUp(i)
  BY <1>5, LookUpKeeps
<1>6. CASE EditSpec
  <2>1. TypeOK'
    BY <1>0, <1>6, ConfigAssumption DEF EditSpec, TypeOK
  <2>2. LookedUpForSeen'
    BY <1>6, LookedUpFrame DEF EditSpec
  <2>3. StatusTellsReleased'
    BY <1>0, <1>6 DEF EditSpec, StatusTellsReleased
  <2> QED
    BY <2>1, <2>2, <2>3 DEF IndInv
<1>7. CASE KymaChanges
  <2>1. TypeOK'
    <3>1. quiet' \in BOOLEAN
      BY <1>7 DEF KymaChanges
    <3>2. kyma' \in Worlds /\ changes' \in 0..MaxChanges
      BY <1>0, <1>7, ConfigAssumption DEF KymaChanges, TypeOK
    <3> QED
      BY <1>0, <1>7, <3>1, <3>2 DEF KymaChanges, TypeOK
  <2>2. LookedUpForSeen'
    BY <1>7, LookedUpFrame DEF KymaChanges
  <2>3. StatusTellsReleased'
    BY <1>0, <1>7 DEF KymaChanges, StatusTellsReleased
  <2> QED
    BY <2>1, <2>2, <2>3 DEF IndInv
<1>8. CASE TimerFires \/ Resync
  <2>1. TypeOK'
    BY <1>0, <1>8 DEF TimerFires, Resync, TypeOK
  <2>2. LookedUpForSeen'
    BY <1>8, LookedUpFrame DEF TimerFires, Resync
  <2>3. StatusTellsReleased'
    BY <1>0, <1>8 DEF TimerFires, Resync, StatusTellsReleased
  <2> QED
    BY <2>1, <2>2, <2>3 DEF IndInv
<1>9. CASE UNCHANGED vars
  <2>1. TypeOK'
    BY <1>0, <1>9 DEF vars, TypeOK
  <2>2. LookedUpForSeen'
    BY <1>9, LookedUpFrame DEF vars
  <2>3. StatusTellsReleased'
    BY <1>0, <1>9 DEF vars, StatusTellsReleased
  <2> QED
    BY <2>1, <2>2, <2>3 DEF IndInv
<1> QED
  BY <1>1, <1>2, <1>3, <1>4, <1>5, <1>6, <1>7, <1>8, <1>9 DEF Next, Reconcile

\* However the CR and Kyma change between the lookups, and whichever of them fail or
\* panic: what a reconcile has gathered answers the one spec it read, and the
\* status holds the complete config the charts were applied with.
THEOREM Invariance == Spec => []IndInv
<1> QED
  BY InitInv, NextInv, PTL DEF Spec

\* Only an install changes the config the charts were applied with, and it installs
\* what it has compiled.
LEMMA ReleaseStep ==
    ASSUME IndInv, [Next]_vars, released' # released
    PROVE  pc = "install" /\ released' = Completed(seen, conf)
<1>1. CASE Install
  BY <1>1 DEF Install
<1>2. CASE Begin \/ CompileFails \/ Panics
  BY <1>2 DEF Begin, CompileFails, Panics
<1>3. CASE \E i \in DOMAIN Lookups : LookUp(i)
  BY <1>3 DEF LookUp
<1>4. CASE EditSpec \/ KymaChanges \/ TimerFires \/ Resync \/ UNCHANGED vars
  BY <1>4 DEF EditSpec, KymaChanges, TimerFires, Resync, vars
<1> QED
  BY <1>1, <1>2, <1>3, <1>4 DEF Next, Reconcile

\* Neither a failing lookup nor a panic empties the installation config of the CR
\* once the charts are applied, so finalize never skips the uninstallation.
THEOREM ConfigStays == Spec => ConfigIsNeverLost
<1>1. ASSUME IndInv, [Next]_vars, released # NoConfig
      PROVE  released' # NoConfig /\ status'.config # NoConfig
  <2>1. released' # NoConfig
    <3>1. CASE released' = released
      BY <1>1, <3>1
    <3>2. CASE released' # released
      BY <1>1, <3>2, ReleaseStep, InstallLemma
    <3> QED
      BY <3>1, <3>2
  <2>2. IndInv'
    BY <1>1, NextInv
  <2> QED
    BY <2>1, <2>2 DEF IndInv, StatusTellsReleased
<1>2. IndInv /\ [Next]_vars => [released # NoConfig => released' # NoConfig /\ status'.config # NoConfig]_vars
  BY <1>1
<1> QED
  BY <1>2, Invariance, PTL DEF Spec, ConfigIsNeverLost

\* A reconcile that installs and during which nothing has changed in Kyma applies the
\* charts with a config that keeps every promise of the README to the spec it read,
\* however often the CR was edited meanwhile.
UndisturbedInstall == released' # released /\ quiet /\ WildcardFirst(kyma) => Promised(released', seen, kyma)

THEOREM PromisesOfInstalls == Spec => [][UndisturbedInstall]_vars
<1>1. IndInv /\ [Next]_vars => UndisturbedInstall
  <2> SUFFICES ASSUME IndInv, [Next]_vars, released' # released, quiet, WildcardFirst(kyma)
               PROVE  Promised(released', seen, kyma)
    BY DEF UndisturbedInstall
  <2> QED
    BY ReleaseStep, InstallLemma
<1> QED
  BY <1>1, Invariance, PTL DEF Spec

\* Whatever changes while a reconcile looks around in Kyma: the config the charts are
\* applied with keeps what the README promises about one spec of the CR, never a
\* mixture of two.
OneSpec == released # NoConfig => \E s \in Specs : PromisedBySpec(released, s)

THEOREM InstallsOneSpec == Spec => []OneSpec
<1>1. IndInv => OneSpec
  <2> SUFFICES ASSUME IndInv, released # NoConfig PROVE \E s \in Specs : PromisedBySpec(released, s)
    BY DEF OneSpec
  <2>1. PICK s \in Specs : Compiled(released, s)
    BY DEF IndInv, StatusTellsReleased
  <2>2. HasFields(released)
    BY DEF IndInv, TypeOK, ConfigType, HasFields, NoConfig
  <2> QED
    BY <2>1, <2>2, CompiledLemma
<1> QED
  BY <1>1, Invariance, PTL

\* An install that nothing disturbed replaces a config only if it is no longer what
\* Kyma answers to the spec: that the charts are upgraded again and again has no other
\* cause than the order of a Go map.
UpgradeIsNeeded ==
    released' # released /\ quiet /\ Unambiguous(seen, kyma) => ~AnsweredBy(released, seen, kyma)

THEOREM NoNeedlessUpgrade == Spec => [][UpgradeIsNeeded]_vars
<1>1. IndInv /\ [Next]_vars => UpgradeIsNeeded
  <2> SUFFICES ASSUME IndInv, [Next]_vars, released' # released, quiet, Unambiguous(seen, kyma),
                      AnsweredBy(released, seen, kyma)
               PROVE  FALSE
    BY DEF UpgradeIsNeeded
  <2>1. seen \in Specs /\ kyma \in Worlds
    BY DEF IndInv, TypeOK
  <2>2. PICK d : d = Completed(seen, conf)
    OBVIOUS
  <2>3. released' = d /\ HasFields(d) /\ AnsweredBy(d, seen, kyma)
    BY <2>2, ReleaseStep, InstallLemma
  <2>4. HasFields(released)
    BY DEF IndInv, TypeOK, ConfigType, HasFields, NoConfig
  <2> QED
    BY <2>1, <2>3, <2>4, OneConfig
<1> QED
  BY <1>1, Invariance, PTL DEF Spec
=============================================================================

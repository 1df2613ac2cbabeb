--------------------------- MODULE Rollout_proofs ---------------------------
(***************************************************************************)
(* Proofs about Rollout, for any specs and any number of edits and refused *)
(* charts.                                                                 *)
(***************************************************************************)
EXTENDS Rollout, TLAPS

-----------------------------------------------------------------------------
(* The order, the values and the services.                                 *)

\* Where the pass is when it is at an installable.
LEMMA AtLemma ==
    /\ Len(installOrder) = 10
    /\ \A x : At(x) => idx \in 1..10
    /\ At("contour") => idx = 5
    /\ At("korifiPrerequisites") => idx = 7
    /\ At("korifi") => idx = 8
    /\ At("cfAPIConfig") => idx = 9
    /\ At("btpServiceBroker") => idx = 10
    /\ \A y \in YamlInstallables : At(y) => idx \in {1, 2, 3, 4, 6}
<1> DEFINE o == installOrder
<1>1. Len(o) = 10 /\ DOMAIN o = 1..10
  BY DEF installOrder
<1>2. /\ o[1] = "systemNs" /\ o[2] = "cfRootNs" /\ o[3] = "certIssuers" /\ o[4] = "gwAPI" /\ o[5] = "contour"
      /\ o[6] = "kpack" /\ o[7] = "korifiPrerequisites" /\ o[8] = "korifi" /\ o[9] = "cfAPIConfig"
      /\ o[10] = "btpServiceBroker"
  BY DEF installOrder
<1>3. \A i \in 1..10 : i = 1 \/ i = 2 \/ i = 3 \/ i = 4 \/ i = 5 \/ i = 6 \/ i = 7 \/ i = 8 \/ i = 9 \/ i = 10
  OBVIOUS
<1> HIDE DEF o
<1> QED
  BY <1>1, <1>2, <1>3 DEF o, At, YamlInstallables

\* An address in a service is a value, and of a pending or absent service there
\* is none.
LEMMA HostLemma ==
    ASSUME NEW service \in Services, getKorifiIngressHost(service) # NotReady
    PROVE  /\ service.state \in {"up", "terminating"}
           /\ getKorifiIngressHost(service) \in Addresses
           /\ getKorifiIngressHost(service) \in {service.hostname, service.ip}
<1>1. service \notin {NoService, Pending}
  BY DEF NoService, Pending, getKorifiIngressHost
<1>2. service \in [state : {"up", "terminating"}, hostname : Addresses \cup {None}, ip : Addresses \cup {None}]
      /\ (service.hostname # None \/ service.ip # None)
  BY <1>1 DEF Services
<1> QED
  BY <1>2 DEF getKorifiIngressHost

\* The services of the model.
LEMMA ServicesLemma ==
    /\ NoService \in Services /\ Pending \in Services
    /\ NoService.state = "absent" /\ Pending.state = "pending"
    /\ \A service \in Services :
          /\ service.state = "absent" => service = NoService
          /\ service.state = "pending" => service = Pending
          /\ service.state \in {"absent", "pending", "up", "terminating"}
          /\ service.state = "up" => [service EXCEPT !.state = "terminating"] \in Services
          /\ service.state = "up" => getKorifiIngressHost(service) \in Addresses
    /\ \A address \in Addresses :
          /\ [state |-> "up", hostname |-> address, ip |-> None] \in Services
          /\ [state |-> "up", hostname |-> None, ip |-> address] \in Services
<1> DEFINE R == [state : {"up", "terminating"}, hostname : Addresses \cup {None}, ip : Addresses \cup {None}]
<1>1. NoService.state = "absent" /\ Pending.state = "pending"
  BY DEF NoService, Pending
<1>2. ASSUME NEW service \in R, service.hostname # None \/ service.ip # None PROVE service \in Services
  BY <1>2 DEF Services
<1>3. ASSUME NEW service \in Services, service.state \notin {"absent", "pending"}
      PROVE  service \in R /\ (service.hostname # None \/ service.ip # None)
  BY <1>1, <1>3 DEF Services
<1>4. ASSUME NEW service \in Services
      PROVE  /\ service.state = "absent" => service = NoService
             /\ service.state = "pending" => service = Pending
  <2>1. service \in R => service.state \in {"up", "terminating"}
    OBVIOUS
  <2> QED
    BY <1>1, <2>1 DEF Services
<1>5. ASSUME NEW service \in Services, service.state = "up"
      PROVE  [service EXCEPT !.state = "terminating"] \in Services /\ getKorifiIngressHost(service) \in Addresses
  <2>1. service \in R /\ (service.hostname # None \/ service.ip # None)
    BY <1>3, <1>5
  <2>2. [service EXCEPT !.state = "terminating"] \in R
        /\ [service EXCEPT !.state = "terminating"].hostname = service.hostname
        /\ [service EXCEPT !.state = "terminating"].ip = service.ip
    BY <2>1
  <2>3. getKorifiIngressHost(service) \in Addresses
    BY <1>5, <2>1 DEF getKorifiIngressHost
  <2> QED
    BY <1>2, <2>1, <2>2, <2>3
<1>6. ASSUME NEW address \in Addresses
      PROVE  /\ [state |-> "up", hostname |-> address, ip |-> None] \in Services
             /\ [state |-> "up", hostname |-> None, ip |-> address] \in Services
  BY <1>2, MarksAssumption DEF IsValue
<1>7. NoService \in Services /\ Pending \in Services
  BY DEF Services
<1>8. ASSUME NEW service \in Services PROVE service.state \in {"absent", "pending", "up", "terminating"}
  BY <1>1, <1>3
<1> QED
  BY <1>1, <1>4, <1>5, <1>6, <1>7, <1>8

\* What each provider returns, if it returns anything.
LEMMA ValuesLemma ==
    ASSUME NEW c \in Specs, NEW v
    PROVE  /\ GetValues("korifiPrerequisites", c, v) \in {PrerequisitesMap(c), NotReady}
           /\ GetValues("korifiPrerequisites", c, v) # NotReady <=> v.issuer
           /\ GetValues("korifi", c, v) \in {KorifiMap(c), NotReady}
           /\ GetValues("korifi", c, v) # NotReady <=> CertSecrets \subseteq v.issued
           /\ GetValues("cfAPIConfig", c, v) = CFAPIConfigValues(c, v)
           /\ GetValues("contour", c, v) = Override
           /\ GetValues("btpServiceBroker", c, v) = Override
<1>1. PrerequisitesMap(c) # NotReady /\ KorifiMap(c) # NotReady
  BY MarksAssumption DEF IsValue
<1> QED
  BY <1>1 DEF GetValues, PrerequisitesValues, KorifiValues

\* What is deployed is complete.
LEMMA CompleteLemma ==
    ASSUME NEW c \in Specs, NEW v, v.services \in [IngressServices -> Services], NEW chart \in HelmCharts,
           GetValues(chart, c, v) # NotReady
    PROVE  /\ GetValues(chart, c, v) # None
           /\ \A field \in DOMAIN GetValues(chart, c, v) \ {"propagateTo"} : GetValues(chart, c, v)[field] # None
<1>1. CASE chart \in {"contour", "btpServiceBroker"}
  <2>1. GetValues(chart, c, v) = Override
    BY <1>1, ValuesLemma
  <2>2. Override # None /\ TRUE # None
    BY MarksAssumption DEF IsValue
  <2>3. DOMAIN Override = {"static"} /\ Override["static"] = TRUE
    BY DEF Override
  <2> QED
    BY <2>1, <2>2, <2>3
<1>2. CASE chart = "korifiPrerequisites"
  <2>1. GetValues(chart, c, v) = PrerequisitesMap(c)
    BY <1>2, ValuesLemma
  <2>2. PrerequisitesMap(c) # None /\ c.gateway # None /\ c.secret # None
    BY MarksAssumption DEF IsValue
  <2> QED
    BY <2>1, <2>2 DEF PrerequisitesMap
<1>3. CASE chart = "korifi"
  <2>1. GetValues(chart, c, v) = KorifiMap(c)
    BY <1>3, ValuesLemma
  <2>2. KorifiMap(c) # None /\ c.gateway # None /\ c.secret # None /\ "cf" # None
    BY MarksAssumption DEF IsValue
  <2> QED
    BY <2>1, <2>2 DEF KorifiMap
<1>4. CASE chart = "cfAPIConfig"
  <2> DEFINE host == getKorifiIngressHost(v.services[KorifiIngressService(c)])
  <2>1. GetValues(chart, c, v) = CFAPIConfigMap(c, host) /\ host # NotReady
    BY <1>4, ValuesLemma DEF CFAPIConfigValues
  <2>2. host \in Addresses
    BY <2>1, HostLemma DEF KorifiIngressService, IngressServices
  <2> HIDE DEF host
  <2>3. /\ CFAPIConfigMap(c, host) # None /\ CFAPIConfigMap(c, host).admins # None
        /\ host # None /\ c.root # None
    BY <2>2, MarksAssumption DEF IsValue
  <2> QED
    BY <2>1, <2>3 DEF CFAPIConfigMap
<1> QED
  BY <1>1, <1>2, <1>3, <1>4 DEF HelmCharts

-----------------------------------------------------------------------------
(* Shape.                                                                  *)

\* No chart is deployed with incomplete values.
Complete(r) ==
    /\ DOMAIN r = HelmCharts
    /\ \A chart \in HelmCharts :
          r[chart] # None => \A field \in DOMAIN r[chart] \ {"propagateTo"} : r[chart][field] # None

\* A pass that is not at its end goes on by one, for the worse or not.
LEMMA StepLemma ==
    ASSUME TypeOK, NEW x, At(x), NEW r \in {"Success", "InProgress"}, Step(r)
    PROVE  /\ idx \in 1..10 /\ idx' = idx + 1 /\ idx' \in 0..(Len(installOrder) + 1)
           /\ worst' \in {"Success", "InProgress"}
           /\ worst' = "Success" => worst = "Success" /\ r = "Success"
           /\ UNCHANGED <<spec, queued, timer, config, status, view, edits>>
  BY AtLemma DEF Step, TypeOK

\* Every step keeps the shape of every variable.
LEMMA TypeStep ==
    ASSUME TypeOK, [Next]_vars
    PROVE  TypeOK'
<1> USE DEF cluster, worker, Surroundings
<1>0. TypeOK <=> /\ spec \in Specs /\ config \in Specs
                 /\ queued \in BOOLEAN /\ timer \in BOOLEAN
                 /\ idx \in 0..(Len(installOrder) + 1)
                 /\ worst \in {"Success", "InProgress"}
                 /\ status \in [state : {"Processing", "Ready"}, config : Specs \cup {None}]
                 /\ yamls \subseteq YamlInstallables
                 /\ issued \subseteq CertSecrets
                 /\ services \in [IngressServices -> Services]
                 /\ view \in [issuer : BOOLEAN, issued : SUBSET CertSecrets, services : [IngressServices -> Services]]
                 /\ Complete(released)
                 /\ edits \in 0..MaxEdits /\ faults \in 0..MaxFaults
  BY DEF TypeOK, Complete
<1>1. CASE Begin
  <2>1. 1 \in 0..(Len(installOrder) + 1)
    BY AtLemma
  <2> QED
    BY <1>1, <2>1 DEF Begin, TypeOK
<1>2. ASSUME NEW y \in YamlInstallables, InstallYaml(y) PROVE TypeOK'
  BY <1>2, StepLemma DEF InstallYaml, TypeOK
<1>3. ASSUME NEW chart \in HelmCharts, ChartWaits(chart) PROVE TypeOK'
  BY <1>3, StepLemma DEF ChartWaits, Applies, TypeOK
<1>4. ASSUME NEW chart \in HelmCharts, ChartRefused(chart) PROVE TypeOK'
  <2>1. faults' \in 0..MaxFaults
    BY <1>4, RolloutAssumption DEF ChartRefused, TypeOK
  <2> QED
    BY <1>4, <2>1, StepLemma DEF ChartRefused, Applies, TypeOK
<1>5. ASSUME NEW chart \in HelmCharts, ApplyChart(chart) PROVE TypeOK'
  <2> DEFINE values == GetValues(chart, config, view)
  <2>1. /\ At(chart) /\ Step("Success") /\ values # NotReady /\ UNCHANGED <<yamls, issued, faults>>
        /\ \/ released' = released
           \/ released' = [released EXCEPT ![chart] = values]
        /\ \/ services' = services
           \/ services' = [services EXCEPT !["contour-envoy"] = Pending]
    BY <1>5 DEF ApplyChart, Applies
  <2>2. values # None /\ \A field \in DOMAIN values \ {"propagateTo"} : values[field] # None
    BY <2>1, CompleteLemma DEF TypeOK
  <2> HIDE DEF values
  <2>3. Complete(released')
    BY <1>0, <2>1, <2>2 DEF Complete
  <2>4. services' \in [IngressServices -> Services]
    BY <1>0, <2>1, ServicesLemma
  <2> QED
    BY <1>0, <2>1, <2>3, <2>4, StepLemma DEF TypeOK, Complete
<1>6. CASE RemoveContour
  <2> DEFINE r == IF released["contour"] = None THEN "Success" ELSE "InProgress"
  <2>1. /\ At("contour") /\ Step(r) /\ UNCHANGED <<yamls, issued, faults>>
        /\ released' = [released EXCEPT !["contour"] = None]
    BY <1>6 DEF RemoveContour
  <2>2. services' \in [IngressServices -> Services]
    BY <1>0, <1>6, ServicesLemma DEF RemoveContour, IngressServices
  <2>3. Complete(released')
    BY <1>0, <2>1 DEF Complete
  <2>4. r \in {"Success", "InProgress"}
    OBVIOUS
  <2> HIDE DEF r
  <2> QED
    BY <1>0, <2>1, <2>2, <2>3, <2>4, StepLemma DEF TypeOK, Complete
<1>7. CASE InstallDone
  BY <1>7, AtLemma DEF InstallDone, TypeOK
<1>8. CASE EditSpec
  BY <1>8, RolloutAssumption DEF EditSpec, TypeOK
<1>9. CASE TimerFires
  BY <1>9 DEF TimerFires, TypeOK
<1>10. CASE IssueCertificates
  BY <1>10 DEF IssueCertificates, TypeOK, CertSecrets
<1>11. CASE IstioCreatesService
  BY <1>11, ServicesLemma DEF IstioCreatesService, TypeOK
<1>12. ASSUME NEW s \in DOMAIN services, AssignLoadBalancer(s) PROVE TypeOK'
  <2>1. <<s, edits>> \in Addresses
    BY DEF TypeOK, Addresses
  <2>2. services' \in [IngressServices -> Services]
    <3>1. PICK named \in BOOLEAN :
              services' = [services EXCEPT ![s] =
                  [state |-> "up", hostname |-> IF named THEN <<s, edits>> ELSE None,
                   ip |-> IF named THEN None ELSE <<s, edits>>]]
      BY <1>12 DEF AssignLoadBalancer
    <3>2. CASE named
      BY <1>0, <2>1, <3>1, <3>2, ServicesLemma
    <3>3. CASE ~named
      BY <1>0, <2>1, <3>1, <3>3, ServicesLemma
    <3> QED
      BY <3>2, <3>3
  <2> QED
    BY <1>12, <2>2 DEF AssignLoadBalancer, TypeOK
<1>13. ASSUME NEW s \in DOMAIN services, CleanUpLoadBalancer(s) PROVE TypeOK'
  BY <1>13, ServicesLemma DEF CleanUpLoadBalancer, TypeOK
<1>14. ASSUME NEW kind \in DOMAIN view, CacheSync(kind) PROVE TypeOK'
  <2>1. kind \in {"issuer", "issued", "services"}
    BY DEF TypeOK
  <2>2. view' \in [issuer : BOOLEAN, issued : SUBSET CertSecrets, services : [IngressServices -> Services]]
    <3>1. view' = [view EXCEPT ![kind] = InTheCluster[kind]]
      BY <1>14 DEF CacheSync
    <3>2. CASE kind = "issuer"
      <4> DEFINE b == InTheCluster["issuer"]
      <4>1. b \in BOOLEAN
        BY DEF InTheCluster
      <4>2. view' = [view EXCEPT !["issuer"] = b]
        BY <3>1, <3>2
      <4> HIDE DEF b
      <4> QED
        BY <1>0, <4>1, <4>2
    <3>3. CASE kind = "issued"
      BY <1>0, <3>1, <3>3 DEF InTheCluster
    <3>4. CASE kind = "services"
      BY <1>0, <3>1, <3>4 DEF InTheCluster
    <3> QED
      BY <2>1, <3>2, <3>3, <3>4
  <2> QED
    BY <1>14, <2>2 DEF CacheSync, TypeOK
<1>15. CASE UNCHANGED vars
  BY <1>15 DEF vars, TypeOK
<1> QED
  BY <1>1, <1>2, <1>3, <1>4, <1>5, <1>6, <1>7, <1>8, <1>9, <1>10, <1>11, <1>12, <1>13, <1>14, <1>15
     DEF Next, Reconcile

-----------------------------------------------------------------------------
(* What a pass has earned.                                                 *)

\* With one installable more the pass has earned what it had, and what this
\* installable adds.
LEMMA PassedStep ==
    ASSUME TypeOK, NEW x, At(x), NEW r \in {"Success", "InProgress"}, Step(r), NEW k \in 1..10, Passed(k)'
    PROVE  r = "Success" /\ worst = "Success" /\ idx \in 1..10 /\ (Passed(k) \/ idx = k)
<1>1. idx \in 1..10 /\ idx' = idx + 1 /\ worst = "Success" /\ r = "Success"
  BY StepLemma DEF Passed
<1>2. idx' > k
  BY <1>1 DEF Passed
<1> QED
  BY <1>1, <1>2 DEF Passed

\* An installable that changes its own release only, and reports Success only of
\* what the pass is meant to earn with it, keeps what was earned before.
LEMMA EarnedByStep ==
    ASSUME IndInv, NEW x, At(x), NEW r \in {"Success", "InProgress"}, Step(r),
           "certIssuers" \in yamls => "certIssuers" \in yamls',
           UNCHANGED issued,
           \A chart \in HelmCharts : chart # x => released'[chart] = released[chart],
           \A k \in 1..10 : idx = k /\ r = "Success" =>
               /\ k = 5 => (released'["contour"] # None) = ContourEnabled(config)
               /\ k = 7 => released'["korifiPrerequisites"] = PrerequisitesMap(config) /\ "certIssuers" \in yamls'
               /\ k = 8 => released'["korifi"] = KorifiMap(config) /\ CertSecrets \subseteq issued
               /\ k = 10 => released'["btpServiceBroker"] = Override
    PROVE  PassEarned' /\ ViewIsNotAhead'
<1>1. /\ idx \in 1..10 /\ idx' = idx + 1 /\ UNCHANGED <<spec, queued, config, status, view>>
  BY StepLemma DEF IndInv
<1>2. ViewIsNotAhead'
  BY <1>1 DEF IndInv, ViewIsNotAhead
<1>3. ~(idx = 0)' /\ (~queued => config = spec)'
  BY <1>1 DEF IndInv, PassEarned
<1>4. ASSUME NEW k \in 1..10, Passed(k)' PROVE r = "Success" /\ (idx = k \/ (idx > k /\ Passed(k)))
  BY <1>1, <1>4, PassedStep DEF IndInv, Passed
<1>5. /\ x = "contour" => idx = 5
      /\ x = "korifiPrerequisites" => idx = 7
      /\ x = "korifi" => idx = 8
      /\ x = "btpServiceBroker" => idx = 10
  BY AtLemma
<1>6. Passed(5)' => (released'["contour"] # None) = ContourEnabled(config)
  BY <1>1, <1>4, <1>5 DEF IndInv, PassEarned, HelmCharts
<1>7. Passed(7)' => released'["korifiPrerequisites"] = PrerequisitesMap(config) /\ "certIssuers" \in yamls'
  BY <1>1, <1>4, <1>5 DEF IndInv, PassEarned, HelmCharts
<1>8. Passed(8)' => released'["korifi"] = KorifiMap(config) /\ CertSecrets \subseteq issued
  BY <1>1, <1>4, <1>5 DEF IndInv, PassEarned, HelmCharts
<1>9. Passed(10)' => released'["btpServiceBroker"] = Override
  BY <1>1, <1>4, <1>5 DEF IndInv, PassEarned, HelmCharts
<1>10. config' = config /\ issued' = issued
  BY <1>1
<1> QED
  BY <1>2, <1>3, <1>6, <1>7, <1>8, <1>9, <1>10 DEF PassEarned, PrerequisitesMap, KorifiMap, propagationEnabled, ContourEnabled

\* Every step keeps what the pass has earned.
LEMMA EarnedStep ==
    ASSUME IndInv, [Next]_vars
    PROVE  PassEarned' /\ ViewIsNotAhead'
<1> USE DEF cluster, worker, Surroundings
<1>1. CASE Begin
  <2>1. \A k \in 5..10 : ~Passed(k)'
    BY <1>1 DEF Begin, Passed
  <2> QED
    BY <1>1, <2>1 DEF Begin, IndInv, PassEarned, ViewIsNotAhead
<1>2. ASSUME NEW y \in YamlInstallables, InstallYaml(y) PROVE PassEarned' /\ ViewIsNotAhead'
  <2>1. idx \in {1, 2, 3, 4, 6}
    BY <1>2, AtLemma DEF InstallYaml
  <2> QED
    BY <1>2, <2>1, EarnedByStep DEF InstallYaml
<1>3. ASSUME NEW chart \in HelmCharts, ChartWaits(chart) PROVE PassEarned' /\ ViewIsNotAhead'
  BY <1>3, EarnedByStep DEF ChartWaits, Applies
<1>4. ASSUME NEW chart \in HelmCharts, ChartRefused(chart) PROVE PassEarned' /\ ViewIsNotAhead'
  BY <1>4, EarnedByStep DEF ChartRefused, Applies
<1>5. ASSUME NEW chart \in HelmCharts, ApplyChart(chart) PROVE PassEarned' /\ ViewIsNotAhead'
  <2> DEFINE values == GetValues(chart, config, view)
  <2>1. /\ At(chart) /\ Step("Success") /\ values # NotReady /\ UNCHANGED <<yamls, issued, faults>>
        /\ (chart = "contour" => ContourEnabled(config))
    BY <1>5 DEF ApplyChart, Applies
  <2>2. \A d \in HelmCharts : d # chart => released'[d] = released[d]
    BY <1>5 DEF ApplyChart, IndInv, TypeOK
  <2>3. released'[chart] = values
    BY <1>5 DEF ApplyChart, UpToDate, IndInv, TypeOK
  <2>4. config \in Specs /\ view.issuer \in BOOLEAN
    BY DEF IndInv, TypeOK
  <2>5. chart = "contour" => released'["contour"] # None
    BY <2>3, <2>4, ValuesLemma, MarksAssumption DEF IsValue
  <2>6. chart = "korifiPrerequisites" =>
            released'["korifiPrerequisites"] = PrerequisitesMap(config) /\ "certIssuers" \in yamls
    BY <2>1, <2>3, <2>4, ValuesLemma DEF IndInv, ViewIsNotAhead
  <2>7. chart = "korifi" => released'["korifi"] = KorifiMap(config) /\ CertSecrets \subseteq issued
    BY <2>1, <2>3, <2>4, ValuesLemma DEF IndInv, ViewIsNotAhead
  <2>8. chart = "btpServiceBroker" => released'["btpServiceBroker"] = Override
    BY <2>3, <2>4, ValuesLemma
  <2>9. /\ idx = 5 => chart = "contour"
        /\ idx = 7 => chart = "korifiPrerequisites"
        /\ idx = 8 => chart = "korifi"
        /\ idx = 10 => chart = "btpServiceBroker"
    BY <2>1, AtLemma DEF HelmCharts
  <2> HIDE DEF values
  <2>10. \A k \in 1..10 : idx = k =>
               /\ k = 5 => (released'["contour"] # None) = ContourEnabled(config)
               /\ k = 7 => released'["korifiPrerequisites"] = PrerequisitesMap(config) /\ "certIssuers" \in yamls'
               /\ k = 8 => released'["korifi"] = KorifiMap(config) /\ CertSecrets \subseteq issued
               /\ k = 10 => released'["btpServiceBroker"] = Override
    BY <2>1, <2>5, <2>6, <2>7, <2>8, <2>9 DEF ContourEnabled
  <2> QED
    BY <2>1, <2>2, <2>10, EarnedByStep
<1>6. CASE RemoveContour
  <2> DEFINE r == IF released["contour"] = None THEN "Success" ELSE "InProgress"
  <2>1. /\ At("contour") /\ ~ContourEnabled(config) /\ Step(r) /\ UNCHANGED <<yamls, issued, faults>>
        /\ released' = [released EXCEPT !["contour"] = None]
    BY <1>6 DEF RemoveContour
  <2>2. idx = 5
    BY <2>1, AtLemma
  <2>3. \A d \in HelmCharts : d # "contour" => released'[d] = released[d]
    BY <2>1 DEF IndInv, TypeOK
  <2>4. released'["contour"] = None
    BY <2>1 DEF IndInv, TypeOK, HelmCharts
  <2>5. r \in {"Success", "InProgress"}
    OBVIOUS
  <2> HIDE DEF r
  <2> QED
    BY <2>1, <2>2, <2>3, <2>4, <2>5, EarnedByStep DEF ContourEnabled
<1>7. CASE InstallDone
  <2>1. idx = 11 /\ idx' = 0 /\ UNCHANGED <<spec, config, worst, yamls, released, issued, services, view>>
        /\ status'.state = (IF worst = "Success" THEN "Ready" ELSE "Processing")
    BY <1>7, AtLemma DEF InstallDone
  <2>2. ~queued' => ~queued
    BY <1>7 DEF InstallDone
  <2>3. \A k \in 5..10 : Passed(k)' => Passed(k)
    BY <2>1 DEF Passed
  <2> QED
    BY <2>1, <2>2, <2>3 DEF IndInv, PassEarned, ViewIsNotAhead
<1>8. CASE EditSpec
  BY <1>8 DEF EditSpec, IndInv, PassEarned, ViewIsNotAhead, Passed
<1>9. CASE TimerFires
  BY <1>9 DEF TimerFires, IndInv, PassEarned, ViewIsNotAhead, Passed
<1>10. CASE IssueCertificates
  <2>1. issued \subseteq issued'
    BY <1>10 DEF IssueCertificates
  <2> QED
    BY <1>10, <2>1 DEF IssueCertificates, IndInv, PassEarned, ViewIsNotAhead, Passed
<1>11. CASE IstioCreatesService
  BY <1>11 DEF IstioCreatesService, IndInv, PassEarned, ViewIsNotAhead, Passed
<1>12. ASSUME NEW s \in DOMAIN services, AssignLoadBalancer(s) \/ CleanUpLoadBalancer(s)
       PROVE  PassEarned' /\ ViewIsNotAhead'
  BY <1>12 DEF AssignLoadBalancer, CleanUpLoadBalancer, IndInv, PassEarned, ViewIsNotAhead, Passed
<1>13. ASSUME NEW kind \in DOMAIN view, CacheSync(kind) PROVE PassEarned' /\ ViewIsNotAhead'
  <2>1. (view'.issuer => view.issuer \/ "certIssuers" \in yamls) /\ view'.issued \in {view.issued, issued}
    BY <1>13 DEF CacheSync, InTheCluster, IndInv, TypeOK
  <2>2. ViewIsNotAhead'
    BY <1>13, <2>1 DEF CacheSync, IndInv, ViewIsNotAhead
  <2> QED
    BY <1>13, <2>2 DEF CacheSync, IndInv, PassEarned, Passed
<1>14. CASE UNCHANGED vars
  BY <1>14 DEF vars, IndInv, PassEarned, ViewIsNotAhead, Passed
<1> QED
  BY <1>1, <1>2, <1>3, <1>4, <1>5, <1>6, <1>7, <1>8, <1>9, <1>10, <1>11, <1>12, <1>13, <1>14 DEF Next, Reconcile

\* Nothing is installed and no pass has begun.
LEMMA InitIndInv == Init => IndInv
<1> SUFFICES ASSUME Init PROVE IndInv
  OBVIOUS
<1>1. 0 \in 0..(Len(installOrder) + 1)
  BY AtLemma
<1>2. services \in [IngressServices -> Services]
  BY ServicesLemma DEF Init
<1>3. view \in [issuer : BOOLEAN, issued : SUBSET CertSecrets, services : [IngressServices -> Services]]
  <2>1. issued \in SUBSET CertSecrets
    BY DEF Init
  <2>2. \A b \in BOOLEAN : [issuer |-> b, issued |-> issued, services |-> services]
            \in [issuer : BOOLEAN, issued : SUBSET CertSecrets, services : [IngressServices -> Services]]
    BY <1>2, <2>1
  <2>3. view = [issuer |-> "certIssuers" \in yamls, issued |-> issued, services |-> services]
        /\ ("certIssuers" \in yamls) \in BOOLEAN
    BY DEF Init, InTheCluster
  <2> QED
    BY <2>2, <2>3, Zenon
<1>4. TypeOK
  <2>1. status \in [state : {"Processing", "Ready"}, config : Specs \cup {None}]
    BY DEF Init
  <2>2. /\ DOMAIN released = HelmCharts
        /\ \A chart \in HelmCharts : released[chart] = None
    BY DEF Init
  <2>3. queued \in BOOLEAN /\ timer \in BOOLEAN
    BY Zenon DEF Init
  <2>4. /\ spec \in Specs /\ config \in Specs
        /\ idx = 0 /\ worst \in {"Success", "InProgress"} /\ yamls \subseteq YamlInstallables
        /\ issued \subseteq CertSecrets /\ edits \in 0..MaxEdits /\ faults \in 0..MaxFaults
    BY RolloutAssumption DEF Init
  <2> QED
    BY <1>1, <1>2, <1>3, <2>1, <2>2, <2>3, <2>4 DEF TypeOK
<1>5. PassEarned
  BY DEF Init, PassEarned, Passed
<1>6. ViewIsNotAhead
  BY DEF Init, InTheCluster, ViewIsNotAhead
<1> QED
  BY <1>4, <1>5, <1>6 DEF IndInv

\* A pass earns its result chart by chart, whatever comes late, is edited or is
\* refused meanwhile.
THEOREM Invariance == Spec => []IndInv
<1>1. IndInv /\ [Next]_vars => IndInv'
  BY TypeStep, EarnedStep DEF IndInv
<1> QED
  BY <1>1, InitIndInv, PTL DEF Spec

\* At rest and Ready, the last pass has worked with the spec as it is.
LEMMA AtRestLemma ==
    ASSUME IndInv, AtRest, status.state = "Ready"
    PROVE  config = spec /\ \A k \in 1..10 : Passed(k)
  BY DEF IndInv, AtRest, PassEarned, Passed

\* The registry secret is where Korifi looks for it, for any spec that keeps the
\* root namespace of the chart.
THEOREM SecretReaches == Spec => []SecretReachesKorifi
<1>1. IndInv => SecretReachesKorifi
  <2> SUFFICES ASSUME IndInv, spec.root = "cf", AtRest, status.state = "Ready",
                      spec.secret # KymaSecret, ~spec.disablePropagation
               PROVE  /\ released["korifi"].secret = spec.secret
                      /\ released["korifiPrerequisites"].secret = spec.secret
                      /\ released["korifiPrerequisites"].propagateTo = released["korifi"].root
    <3>1. ASSUME IndInv, AtRest, status.state = "Ready" PROVE released["korifi"].secret = spec.secret
      BY <3>1, AtRestLemma DEF IndInv, PassEarned, KorifiMap
    <3> QED
      BY <3>1 DEF SecretReachesKorifi, SecretInPlace
  <2>1. released["korifi"] = KorifiMap(spec) /\ released["korifiPrerequisites"] = PrerequisitesMap(spec)
    BY AtRestLemma DEF IndInv, PassEarned
  <2> QED
    BY <2>1 DEF KorifiMap, PrerequisitesMap, propagationEnabled
<1> QED
  BY <1>1, Invariance, PTL

-----------------------------------------------------------------------------
(* The address.                                                            *)

\* What keeps the services and what is known of them keeps HostIsTrue.
LEMMA HostUnchanged ==
    ASSUME HostIsTrue, UNCHANGED <<services, config, released>>, view'.services = view.services,
           Passed(9)' => Passed(9)
    PROVE  HostIsTrue'
  BY DEF HostIsTrue, Kept, KorifiIngressService, CFAPIConfigMap, withOIDCPrefix, getKorifiIngressHost

\* No step takes a service away that names lead to, as long as Contour is not
\* installed over the rest of an earlier one.
LEMMA HostStep ==
    ASSUME IndInv, HostIsTrue, ContourStartsClean, [Next]_vars
    PROVE  HostIsTrue'
<1> USE DEF cluster, worker, Surroundings
<1>1. CASE Begin
  <2>1. ~Passed(9)'
    BY <1>1 DEF Begin, Passed
  <2> QED
    BY <1>1, <2>1 DEF Begin, HostIsTrue, Kept
<1>2. ASSUME NEW y \in YamlInstallables, InstallYaml(y) PROVE HostIsTrue'
  <2>1. idx # 9
    BY <1>2, AtLemma DEF InstallYaml
  <2>2. Passed(9)' => Passed(9)
    BY <1>2, <2>1, PassedStep DEF InstallYaml, IndInv
  <2> QED
    BY <1>2, <2>2, HostUnchanged DEF InstallYaml, Step
<1>3. ASSUME NEW chart \in HelmCharts, ChartWaits(chart) \/ ChartRefused(chart) PROVE HostIsTrue'
  <2>1. ~Passed(9)'
    BY <1>3, PassedStep DEF ChartWaits, ChartRefused, Applies, IndInv
  <2> QED
    BY <1>3, <2>1, HostUnchanged DEF ChartWaits, ChartRefused, Step
<1>4. ASSUME NEW chart \in HelmCharts, ApplyChart(chart) PROVE HostIsTrue'
  <2>1. /\ At(chart) /\ Step("Success") /\ (chart = "contour" => ContourEnabled(config))
        /\ UNCHANGED <<config, view>> /\ config \in Specs
        /\ released' \in {released, [released EXCEPT ![chart] = GetValues(chart, config, view)]}
        /\ released'[chart] = GetValues(chart, config, view) /\ released'[chart] # NotReady
        /\ services \in [IngressServices -> Services]
    BY <1>4 DEF ApplyChart, Applies, Step, UpToDate, IndInv, TypeOK
  <2>2. CASE chart = "contour"
    <3>1. idx = 5 /\ ~Passed(9)'
      BY <2>1, <2>2, AtLemma, PassedStep DEF IndInv, Passed
    <3>2. CASE released["contour"] # None /\ released["contour"] = GetValues(chart, config, view)
      <4>1. services' = services
        BY <1>4, <2>2, <3>2 DEF ApplyChart, UpToDate
      <4> QED
        BY <2>1, <3>1, <3>2, <4>1 DEF HostIsTrue, Kept
    <3>3. CASE released["contour"] # None /\ released["contour"] # GetValues(chart, config, view)
      <4>1. Kept("contour-envoy") /\ Kept("korifi-istio")
        BY <3>3 DEF HostIsTrue
      <4>2. services' = services \/ (services["contour-envoy"].state = "absent" /\
                                      services' = [services EXCEPT !["contour-envoy"] = Pending])
        BY <1>4 DEF ApplyChart
      <4>3. Kept("contour-envoy")' /\ Kept("korifi-istio")'
        BY <2>1, <4>1, <4>2, ServicesLemma DEF Kept, IngressServices
      <4> QED
        BY <3>1, <4>3 DEF HostIsTrue
    <3>4. CASE released["contour"] = None
      <4>1. services["contour-envoy"] = NoService /\ view.services["contour-envoy"] = NoService
        BY <2>1, <2>2, <3>4 DEF ContourStartsClean
      <4>2. services' = services \/ services' = [services EXCEPT !["contour-envoy"] = Pending]
        BY <1>4 DEF ApplyChart
      <4>3. Kept("contour-envoy")' /\ Kept("korifi-istio")'
        BY <2>1, <4>1, <4>2, ServicesLemma DEF Kept, IngressServices, HostIsTrue
      <4> QED
        BY <3>1, <4>3 DEF HostIsTrue
    <3> QED
      BY <3>2, <3>3, <3>4
  <2>3. CASE chart # "contour" /\ chart # "cfAPIConfig"
    <3>1. services' = services
      BY <1>4, <2>3 DEF ApplyChart
    <3>2. released'["contour"] = released["contour"] /\ released'["cfAPIConfig"] = released["cfAPIConfig"]
      BY <2>1, <2>3 DEF IndInv, TypeOK, HelmCharts
    <3>3. idx # 9
      BY <2>1, <2>3, AtLemma DEF HelmCharts
    <3>4. Passed(9)' => Passed(9)
      BY <2>1, <3>3, PassedStep DEF IndInv
    <3> QED
      BY <2>1, <3>1, <3>2, <3>4 DEF HostIsTrue, Kept, KorifiIngressService
  <2>4. CASE chart = "cfAPIConfig"
    <3> DEFINE n == KorifiIngressService(config)
               host == getKorifiIngressHost(view.services[n])
    <3>1. services' = services /\ idx = 9
      BY <1>4, <2>1, <2>4, AtLemma DEF ApplyChart
    <3>2. released'["contour"] = released["contour"]
      BY <2>1, <2>4 DEF IndInv, TypeOK, HelmCharts
    <3>3. released'["cfAPIConfig"] = CFAPIConfigMap(config, host) /\ host # NotReady
      BY <2>1, <2>4, ValuesLemma DEF CFAPIConfigValues
    <3>4. ASSUME Passed(9)' PROVE services[n].state = "up" /\ host = getKorifiIngressHost(services[n])
      <4>1. Passed(5)
        BY <2>1, <3>1, <3>4, PassedStep DEF IndInv, Passed
      <4>2. Kept(n)
        BY <2>1, <4>1, RolloutAssumption DEF IndInv, PassEarned, ContourEnabled, KorifiIngressService, HostIsTrue
      <4>3. view.services[n] \in Services /\ services[n] \in Services
        BY DEF IndInv, TypeOK, IngressServices, KorifiIngressService
      <4>4. view.services[n].state \in {"up", "terminating"}
        BY <3>3, <4>3, HostLemma
      <4>5. view.services[n] = services[n]
        BY <4>2, <4>4, ServicesLemma DEF Kept
      <4> QED
        BY <4>2, <4>4, <4>5 DEF Kept
    <3> QED
      BY <2>1, <3>1, <3>2, <3>3, <3>4 DEF HostIsTrue, Kept, KorifiIngressService
  <2> QED
    BY <2>2, <2>3, <2>4
<1>5. CASE RemoveContour
  <2>1. /\ idx = 5 /\ released'["contour"] = None /\ ~Passed(9)' /\ view' = view
        /\ services'["korifi-istio"] = services["korifi-istio"]
    <3> DEFINE r == IF released["contour"] = None THEN "Success" ELSE "InProgress"
    <3>1. /\ At("contour") /\ Step(r) /\ r \in {"Success", "InProgress"} /\ view' = view
          /\ released' = [released EXCEPT !["contour"] = None]
      BY <1>5 DEF RemoveContour, Step
    <3>2. services'["korifi-istio"] = services["korifi-istio"]
      BY <1>5 DEF RemoveContour, IndInv, TypeOK, IngressServices
    <3>3. released'["contour"] = None
      BY <3>1 DEF IndInv, TypeOK, HelmCharts
    <3> HIDE DEF r
    <3>4. idx = 5 /\ ~Passed(9)'
      BY <3>1, AtLemma, PassedStep DEF IndInv, Passed
    <3> QED
      BY <3>1, <3>2, <3>3, <3>4
  <2> QED
    BY <2>1 DEF HostIsTrue, Kept
<1>6. CASE InstallDone
  <2>1. idx = 11 /\ idx' = 0 /\ UNCHANGED <<config, worst, released, services, view>>
    BY <1>6, AtLemma DEF InstallDone
  <2>2. Passed(9)' => Passed(9)
    BY <2>1 DEF Passed
  <2> QED
    BY <2>1, <2>2, HostUnchanged
<1>7. CASE EditSpec \/ TimerFires \/ IssueCertificates
  BY <1>7, HostUnchanged DEF EditSpec, TimerFires, IssueCertificates, Passed
<1>8. CASE IstioCreatesService
  <2>1. services["korifi-istio"] = NoService /\ services' = [services EXCEPT !["korifi-istio"] = Pending]
        /\ UNCHANGED <<config, released, view, idx, worst, status>>
    BY <1>8, ServicesLemma DEF IstioCreatesService, IndInv, TypeOK, IngressServices
  <2> QED
    BY <2>1, ServicesLemma DEF HostIsTrue, Kept, KorifiIngressService, IndInv, TypeOK, IngressServices, Passed
<1>9. ASSUME NEW s \in DOMAIN services, AssignLoadBalancer(s) PROVE HostIsTrue'
  <2>1. services[s] = Pending /\ UNCHANGED <<config, released, view, idx, worst, status>> /\ s \in IngressServices
    BY <1>9, ServicesLemma DEF AssignLoadBalancer, IndInv, TypeOK
  <2>2. \A t \in IngressServices : services'[t] = services[t] \/ (t = s /\ services'[t].state = "up")
    BY <1>9, <2>1 DEF AssignLoadBalancer, IndInv, TypeOK
  <2>3. \A t \in IngressServices : Kept(t) => Kept(t)'
    BY <2>1, <2>2, ServicesLemma DEF Kept
  <2>4. \A t \in IngressServices : services[t].state = "up" => services'[t] = services[t]
    BY <2>1, <2>2, ServicesLemma
  <2>5. KorifiIngressService(config) \in IngressServices
    BY DEF KorifiIngressService, IngressServices
  <2> QED
    BY <2>1, <2>3, <2>4, <2>5 DEF HostIsTrue, Passed, IngressServices, KorifiIngressService
<1>10. ASSUME NEW s \in DOMAIN services, CleanUpLoadBalancer(s) PROVE HostIsTrue'
  <2>1. services[s].state = "terminating" /\ UNCHANGED <<config, released, view, idx, worst, status>>
    BY <1>10 DEF CleanUpLoadBalancer
  <2>2. \A t \in IngressServices : services[t].state # "terminating" => services'[t] = services[t]
    BY <1>10, <2>1 DEF CleanUpLoadBalancer, IndInv, TypeOK
  <2>3. \A t \in IngressServices : Kept(t) => Kept(t)'
    BY <2>1, <2>2 DEF Kept
  <2>4. KorifiIngressService(config) \in IngressServices
    BY DEF KorifiIngressService, IngressServices
  <2> QED
    BY <2>1, <2>2, <2>3, <2>4 DEF HostIsTrue, Passed, IngressServices, KorifiIngressService
<1>11. ASSUME NEW kind \in DOMAIN view, CacheSync(kind) PROVE HostIsTrue'
  <2>1. view'.services \in {view.services, services} /\ UNCHANGED <<services, config, released, idx, worst, status>>
    BY <1>11 DEF CacheSync, InTheCluster, IndInv, TypeOK
  <2>2. \A t : Kept(t) => Kept(t)'
    BY <2>1 DEF Kept
  <2> QED
    BY <2>1, <2>2 DEF HostIsTrue, Passed, KorifiIngressService
<1>12. CASE UNCHANGED vars
  BY <1>12, HostUnchanged DEF vars, Passed
<1> QED
  BY <1>1, <1>2, <1>3, <1>4, <1>5, <1>6, <1>7, <1>8, <1>9, <1>10, <1>11, <1>12 DEF Next, Reconcile

\* No service is there yet.
LEMMA InitHost == Init => HostIsTrue
  BY DEF Init, InTheCluster, HostIsTrue, Kept, Passed, IngressServices, NoService, HelmCharts

\* Ready and at rest, and the address is right: then everything is.
LEMMA RolledOutLemma == IndInv /\ HostIsTrue => ReadyIsRolledOut
<1> SUFFICES ASSUME IndInv, HostIsTrue, AtRest, status.state = "Ready"
             PROVE  /\ \A chart \in HelmCharts \ {"contour"} :
                          released[chart] = GetValues(chart, spec, InTheCluster)
                    /\ (released["contour"] # None) = (spec.gateway = "contour")
                    /\ LET service == services[IF spec.gateway = "istio" THEN "korifi-istio" ELSE "contour-envoy"]
                       IN service.state = "up" /\ released["cfAPIConfig"].host \in {service.hostname, service.ip}
  BY DEF ReadyIsRolledOut
<1> DEFINE n == KorifiIngressService(spec)
           host == getKorifiIngressHost(services[n])
<1>1. config = spec /\ spec \in Specs /\ \A k \in 1..10 : Passed(k)
  BY AtRestLemma DEF IndInv, TypeOK
<1>2. services[n] \in Services /\ services[n].state = "up" /\ released["cfAPIConfig"] = CFAPIConfigMap(spec, host)
  BY <1>1 DEF HostIsTrue, IndInv, TypeOK, KorifiIngressService, IngressServices
<1>3. host \in Addresses
  BY <1>2, ServicesLemma
<1>4. host # NotReady
  BY <1>3, MarksAssumption DEF IsValue
<1>5. host \in {services[n].hostname, services[n].ip}
  BY <1>2, <1>4, HostLemma
<1>6. InTheCluster.services = services /\ InTheCluster.issued = issued
      /\ (InTheCluster.issuer <=> "certIssuers" \in yamls)
  BY DEF InTheCluster
<1>7. released["cfAPIConfig"] = GetValues("cfAPIConfig", spec, InTheCluster)
  BY <1>1, <1>2, <1>4, <1>6, ValuesLemma DEF CFAPIConfigValues
<1>8. released["korifiPrerequisites"] = GetValues("korifiPrerequisites", spec, InTheCluster)
  BY <1>1, <1>6, ValuesLemma DEF IndInv, PassEarned
<1>9. released["korifi"] = GetValues("korifi", spec, InTheCluster)
  BY <1>1, <1>6, ValuesLemma DEF IndInv, PassEarned
<1>10. released["btpServiceBroker"] = GetValues("btpServiceBroker", spec, InTheCluster)
  BY <1>1, ValuesLemma DEF IndInv, PassEarned
<1>11. (released["contour"] # None) = (spec.gateway = "contour")
  BY <1>1 DEF IndInv, PassEarned, ContourEnabled
<1>12. released["cfAPIConfig"].host = host
  BY <1>2 DEF CFAPIConfigMap
<1>13. n = IF spec.gateway = "istio" THEN "korifi-istio" ELSE "contour-envoy"
  BY DEF KorifiIngressService
<1> HIDE DEF n, host
<1> QED
  BY <1>2, <1>5, <1>7, <1>8, <1>9, <1>10, <1>11, <1>12, <1>13 DEF HelmCharts

\* Ready is true however often the spec is edited, as long as Contour is never
\* installed over the rest of an earlier one: that is the only way to be wrong.
THEOREM RolledOutUnlessAdopted == Spec /\ []ContourStartsClean => []ReadyIsRolledOut
<1>1. IndInv /\ HostIsTrue /\ ContourStartsClean /\ [Next]_vars => HostIsTrue'
  BY HostStep
<1> QED
  BY <1>1, InitHost, RolledOutLemma, Invariance, PTL DEF Spec

\* Every step of a behaviour with at most one edit keeps NoWayBack.
LEMMA NoWayBackStep ==
    ASSUME MaxEdits <= 1, IndInv, NoWayBack, [Next]_vars
    PROVE  NoWayBack'
<1> USE DEF cluster, worker, Surroundings
<1>0. edits \in 0..MaxEdits /\ services \in [IngressServices -> Services] /\ DOMAIN released = HelmCharts
  BY DEF IndInv, TypeOK
<1>1. CASE Begin
  BY <1>0, <1>1, RolloutAssumption DEF Begin, NoWayBack
<1>2. ASSUME NEW y \in YamlInstallables, InstallYaml(y) PROVE NoWayBack'
  BY <1>2 DEF InstallYaml, Step, NoWayBack
<1>3. ASSUME NEW chart \in HelmCharts, ChartWaits(chart) \/ ChartRefused(chart) PROVE NoWayBack'
  BY <1>3 DEF ChartWaits, ChartRefused, Step, NoWayBack
<1>4. ASSUME NEW chart \in HelmCharts, ApplyChart(chart) PROVE NoWayBack'
  <2>1. UNCHANGED <<spec, config, edits, view>>
    BY <1>4 DEF ApplyChart, Step
  <2>2. CASE chart # "contour"
    <3>1. services' = services /\ released'["contour"] = released["contour"]
      BY <1>0, <1>4, <2>2 DEF ApplyChart, HelmCharts
    <3> QED
      BY <2>1, <3>1 DEF NoWayBack
  <2>3. CASE chart = "contour"
    <3>1. ContourEnabled(config) /\ released'["contour"] = Override
      BY <1>0, <1>4, <2>3, ValuesLemma DEF ApplyChart, Applies, UpToDate, IndInv, TypeOK
    <3>2. Override # None
      BY MarksAssumption DEF IsValue
    <3> QED
      BY <2>1, <3>1, <3>2 DEF NoWayBack
  <2> QED
    BY <2>2, <2>3
<1>5. CASE RemoveContour
  <2>1. /\ UNCHANGED <<spec, config, edits, view>> /\ ~ContourEnabled(config)
        /\ released' = [released EXCEPT !["contour"] = None]
    BY <1>5 DEF RemoveContour, Step
  <2>2. released'["contour"] = None
    BY <1>0, <2>1 DEF HelmCharts
  <2>3. CASE edits >= 1 /\ ~ContourEnabled(spec)
    BY <2>1, <2>2, <2>3 DEF NoWayBack
  <2>4. CASE ~(edits >= 1 /\ ~ContourEnabled(spec))
    <3>1. released["contour"] = None /\ services["contour-envoy"] = NoService
          /\ view.services["contour-envoy"] = NoService
      BY <2>1, <2>4 DEF NoWayBack
    <3>2. services'["contour-envoy"] = NoService
      BY <1>0, <1>5, <3>1, ServicesLemma DEF RemoveContour, IngressServices
    <3> QED
      BY <2>1, <2>2, <3>1, <3>2 DEF NoWayBack
  <2> QED
    BY <2>3, <2>4
<1>6. CASE InstallDone
  BY <1>6 DEF InstallDone, NoWayBack
<1>7. CASE EditSpec
  <2>1. edits = 0 /\ edits' = 1 /\ UNCHANGED <<config, released, services, view>>
    BY <1>0, <1>7, RolloutAssumption DEF EditSpec
  <2> QED
    BY <2>1 DEF NoWayBack
<1>8. CASE TimerFires \/ IssueCertificates
  BY <1>8 DEF TimerFires, IssueCertificates, NoWayBack
<1>9. CASE IstioCreatesService
  <2>1. services'["contour-envoy"] = services["contour-envoy"]
    BY <1>0, <1>9 DEF IstioCreatesService, IngressServices
  <2> QED
    BY <1>9, <2>1 DEF IstioCreatesService, NoWayBack
<1>10. ASSUME NEW s \in DOMAIN services, AssignLoadBalancer(s) \/ CleanUpLoadBalancer(s) PROVE NoWayBack'
  <2>1. services["contour-envoy"] = NoService => services'["contour-envoy"] = NoService
    BY <1>0, <1>10, ServicesLemma DEF AssignLoadBalancer, CleanUpLoadBalancer, IngressServices
  <2> QED
    BY <1>10, <2>1 DEF AssignLoadBalancer, CleanUpLoadBalancer, NoWayBack
<1>11. ASSUME NEW kind \in DOMAIN view, CacheSync(kind) PROVE NoWayBack'
  <2>1. view'.services \in {view.services, services} /\ UNCHANGED <<services, config, released, spec, edits>>
    BY <1>11 DEF CacheSync, InTheCluster, IndInv, TypeOK
  <2> QED
    BY <2>1 DEF NoWayBack
<1>12. CASE UNCHANGED vars
  BY <1>12 DEF vars, NoWayBack
<1> QED
  BY <1>1, <1>2, <1>3, <1>4, <1>5, <1>6, <1>7, <1>8, <1>9, <1>10, <1>11, <1>12 DEF Next, Reconcile

\* With at most one edit of the spec Ready is true: there is no earlier Contour.
THEOREM RolledOutOnce ==
    ASSUME MaxEdits <= 1
    PROVE  Spec => []ReadyIsRolledOut
<1>1. Init => NoWayBack
  BY DEF Init, NoWayBack, InTheCluster, IngressServices, HelmCharts
<1>2. IndInv /\ NoWayBack /\ [Next]_vars => NoWayBack'
  BY NoWayBackStep
<1>3. NoWayBack => ContourStartsClean
  BY DEF NoWayBack, ContourStartsClean
<1> QED
  BY <1>1, <1>2, <1>3, RolledOutUnlessAdopted, Invariance, PTL DEF Spec
=============================================================================

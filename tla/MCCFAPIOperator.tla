-------------------------- MODULE MCCFAPIOperator --------------------------
(***************************************************************************)
(* Small instances of CFAPIOperator: one Yaml installable (the root        *)
(* namespace), Contour, Korifi and the orgs, in the relative order main.go *)
(* gives them.                                                             *)
(***************************************************************************)
EXTENDS CFAPIOperator

MCYaml == {"cfRootNs"}
MCHelm == {"contour", "korifi"}
MCInstallOrder == <<"cfRootNs", "contour", "korifi">>
MCUninstallOrder == <<"orgs", "cfRootNs", "korifi", "contour">>

MCNames == {"", "contour", "istio", "bogus", "cf", "custom"}

DefaultSpec == [gatewayType |-> "", rootNamespace |-> ""]
IstioSpec == [gatewayType |-> "istio", rootNamespace |-> ""]
BogusSpec == [gatewayType |-> "bogus", rootNamespace |-> ""]
CustomRootSpec == [gatewayType |-> "", rootNamespace |-> "custom"]

DefaultOnly == {DefaultSpec}
TwoGateways == {DefaultSpec, IstioSpec}
AllGateways == {DefaultSpec, IstioSpec, BogusSpec}
CustomRoot == {CustomRootSpec}
=============================================================================

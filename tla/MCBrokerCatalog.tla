--------------------------- MODULE MCBrokerCatalog --------------------------
(***************************************************************************)
(* Two offerings, one of them with two plans.                              *)
(***************************************************************************)
EXTENDS BrokerCatalog, TLC

MCOfferings == {"xsuaa", "hana"}
MCPlans == {"application", "broker", "cloud"}
MCOfferingOf == "application" :> "xsuaa" @@ "broker" :> "xsuaa" @@ "cloud" :> "hana"
=============================================================================

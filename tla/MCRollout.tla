----------------------------- MODULE MCRollout ------------------------------
(***************************************************************************)
(* Small instances of Rollout: both gateway types, the registry of Kyma, a *)
(* custom one and one the user propagates, another root namespace, admins  *)
(* with and without prefix.                                                *)
(***************************************************************************)
EXTENDS Rollout

Contour ==
    [gateway |-> "contour", secret |-> KymaSecret, disablePropagation |-> FALSE, root |-> "cf",
     admins |-> << <<"ann">>, <<"sap.ids:", "bob">> >>]

Istio == [Contour EXCEPT !.gateway = "istio", !.secret = "mine"]

OtherRoot == {[Contour EXCEPT !.secret = "mine", !.root = "custom"]}

MCSpecs == {Contour, Istio, [Istio EXCEPT !.disablePropagation = TRUE]} \cup OtherRoot

SwitchSpecs == {Contour, [Contour EXCEPT !.gateway = "istio"]}
=============================================================================

---------------------------- MODULE MCKymaConfig ----------------------------
(***************************************************************************)
(* Small instances of KymaConfig: CRs with defaults, with everything set,  *)
(* for Istio and with an unknown gateway type; a sound Kyma and one thing  *)
(* wrong with it at a time, or more than one of what Go maps keep without  *)
(* an order.                                                               *)
(***************************************************************************)
EXTENDS KymaConfig

MCTexts == STRING

Defaults == [gateway |-> Nil, secret |-> Nil, prefix |-> Nil, builder |-> Nil, uaa |-> Nil, admins |-> <<>>]

MCSpecs ==
    { Defaults,
      [Defaults EXCEPT !.gateway = "istio", !.secret = "mine"],
      [Defaults EXCEPT !.secret = "mine", !.prefix = <<"p">>, !.uaa = <<"u">>, !.admins = <<"amy">>],
      [Defaults EXCEPT !.gateway = "nginx", !.builder = <<"b">>] }

Binding(role, names) ==
    [role |-> role, subjects |-> [i \in DOMAIN names |-> [kind |-> "User", name |-> names[i]]]]

Sound ==
    [istio |-> "alpha", gateway |-> << << <<"*", ".", "kyma">> >> >>, crds |-> {"DockerRegistry"},
     kymaSecret |-> "reg", userSecret |-> {"hub"}, btpSecret |-> <<"https://w", "authentication", "eu12">>,
     bindings |-> {Binding("cluster-admin", <<"ann", "bob">>), Binding("view", <<"eve">>)}]

Unsound ==
    { [Sound EXCEPT !.istio = "off", !.userSecret = Garbled],
      [Sound EXCEPT !.gateway = <<>>, !.userSecret = {}],
      [Sound EXCEPT !.gateway = << <<>> >>],
      [Sound EXCEPT !.crds = {}, !.userSecret = Absent],
      [Sound EXCEPT !.kymaSecret = Nil, !.btpSecret = Nil],
      [Sound EXCEPT !.btpSecret = <<"https://w">>] }

Renamed == [Sound EXCEPT !.gateway = << << <<"*", ".", "new">> >> >>, !.kymaSecret = "reg2"]

Unordered ==
    { [Sound EXCEPT !.userSecret = {"hub", "quay"}],
      [Sound EXCEPT !.bindings = {Binding("cluster-admin", <<"ann">>), Binding("cluster-admin", <<"bob">>),
                                  Binding("cluster-admin", <<>>)}] }

MCWorlds == {Sound, Renamed} \cup Unsound \cup Unordered
=============================================================================

------------------------ MODULE MCBindingCredentials ------------------------
(***************************************************************************)
(* Two credentials; texts that are and that are not JSON.                  *)
(***************************************************************************)
EXTENDS BindingCredentials, TLC

MCStrings == {"abc", "123"}
MCJson == "123" :> "number 123" @@ "{}" :> "object"
=============================================================================

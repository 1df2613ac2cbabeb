--------------------------- MODULE MCHelmRelease ---------------------------
(***************************************************************************)
(* Small instances of HelmRelease: two sets of values.                     *)
(***************************************************************************)
EXTENDS HelmRelease

CONSTANTS v1, v2

MCValues == {v1, v2}
=============================================================================

---------------------------- MODULE MCBTPBroker ----------------------------
(***************************************************************************)
(* Small instances of BTPBroker.                                           *)
(***************************************************************************)
EXTENDS BTPBroker

CONSTANTS r1, r2, p1, p2

TwoRequests == {r1, r2}
TwoParams == {p1, p2}
=============================================================================

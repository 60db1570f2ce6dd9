--------------------------- MODULE MCRelaySubscriber ---------------------------
(***************************************************************************)
(* Instances of RelaySubscriber for TLC.                                   *)
(***************************************************************************)
EXTENDS RelaySubscriber

CONSTANTS h1, h2, h3, h4, d1, d2
================================================================================

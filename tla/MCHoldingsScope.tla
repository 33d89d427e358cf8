---------------------------- MODULE MCHoldingsScope ----------------------------
(***************************************************************************)
(* Crawls and scopes over the sample, for TLC.                             *)
(***************************************************************************)
EXTENDS HoldingsScope, HoldingsSample
=============================================================================

---------------------------- MODULE MCHoldingsCrawl ----------------------------
(***************************************************************************)
(* Crawls alone over the sample, for TLC.                                  *)
(***************************************************************************)
EXTENDS HoldingsCrawl, HoldingsSample
=============================================================================

---------------------------- MODULE MC_Enrichment ----------------------------
(***************************************************************************)
(* A small instance of Enrichment: two issues, so that one message waits   *)
(* while the worker has the other in hand, and one drawer.                 *)
(***************************************************************************)
EXTENDS Enrichment

CONSTANTS i1, i2

MCIssues == {i1, i2}

=============================================================================

----------------------------- MODULE MC_Upvotes -----------------------------
(***************************************************************************)
(* A small instance of Upvotes: two users with a tab each, and one issue,  *)
(* whose counter seed.sql set one too high.                                *)
(***************************************************************************)
EXTENDS Upvotes

CONSTANTS ama, kofi, phone, desk, i1

MCUsers == {ama, kofi}
MCTabs == {phone, desk}
MCIssues == {i1}
MCOwner == [b \in MCTabs |-> IF b = desk THEN kofi ELSE ama]
MCSurplus == [i \in MCIssues |-> 1]

=============================================================================

----------------------------- MODULE MC_Accounts -----------------------------
(***************************************************************************)
(* A small instance of Accounts: one user, whom nothing whitelists.  The   *)
(* transactions of different users have no row in common.                  *)
(***************************************************************************)
EXTENDS Accounts

CONSTANT esi

MCUsers == {esi}

=============================================================================

----------------------------- MODULE MC_Sessions -----------------------------
(***************************************************************************)
(* A small instance of Sessions: two users who may be citizens or MPs, one *)
(* session for either of them, a request that overlaps with role changes,  *)
(* suspensions and a logout, and a clock that outlives the session and the *)
(* tokens of it.                                                           *)
(***************************************************************************)
EXTENDS Sessions

=============================================================================

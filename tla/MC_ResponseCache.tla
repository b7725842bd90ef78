--------------------------- MODULE MC_ResponseCache ---------------------------
(***************************************************************************)
(* A small instance of ResponseCache: the list of issues, which lives a    *)
(* tick, and an ML answer, which lives two.  A status change deletes both  *)
(* of them and the worker's update neither.                                *)
(***************************************************************************)
EXTENDS ResponseCache

CONSTANTS all, trend

MCKeys == {all, trend}
MCFamily == [k \in MCKeys |-> IF k = trend THEN "ml" ELSE "issues:list"]
MCTTL == [k \in MCKeys |-> IF k = trend THEN 2 ELSE 1]

=============================================================================

----------------------------- MODULE MC_Browser -----------------------------
(***************************************************************************)
(* A small instance of every view.  The model values a1, a2 and b1, b2     *)
(* stand for different things in different views (slots, tabs, issues,     *)
(* zones); they are interchangeable in all of them.                        *)
(***************************************************************************)
EXTENDS Browser, TLC

CONSTANTS a1, a2, b1, b2

\* Two regions, one with one district and one with two.
MCRegionOf == ("d1" :> "r1") @@ ("d2" :> "r2") @@ ("d3" :> "r2")
MCDistrictOf == ("c1" :> "d2") @@ ("c2" :> "d3")

MCRoleOf == ("kofi" :> "citizen") @@ ("esi" :> "mp")

MCPatterns == {[zone |-> "za", sector |-> "s1"], [zone |-> "za", sector |-> "s2"]}

Interchangeable == Permutations({a1, a2}) \cup Permutations({b1, b2})
=============================================================================

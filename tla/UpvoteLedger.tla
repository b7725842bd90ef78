---------------------------- MODULE UpvoteLedger ----------------------------
(***************************************************************************)
(* What the upvote button promises: who has voted for what, and a counter  *)
(* on each issue that moves with the votes, one vote at a time.            *)
(***************************************************************************)
EXTENDS Integers

CONSTANTS Users, Issues

VARIABLES
    rows,    \* the table issue_upvotes: pairs <<i, u>>
    upvotes  \* upvotes[i]: issues.upvotes

ledger == <<rows, upvotes>>

\* seed.sql fills the counters and the table independently.
Init ==
    /\ rows \in SUBSET (Issues \X Users)
    /\ upvotes \in [Issues -> Nat]

Vote(i, u) ==
    /\ <<i, u>> \notin rows
    /\ rows' = rows \cup {<<i, u>>}
    /\ upvotes' = [upvotes EXCEPT ![i] = @ + 1]

Withdraw(i, u) ==
    /\ <<i, u>> \in rows
    /\ rows' = rows \ {<<i, u>>}
    /\ upvotes' = [upvotes EXCEPT ![i] = @ - 1]

Next == \E i \in Issues, u \in Users : Vote(i, u) \/ Withdraw(i, u)

Spec == Init /\ [][Next]_ledger

=============================================================================

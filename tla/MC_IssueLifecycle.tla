-------------------------- MODULE MC_IssueLifecycle --------------------------
(***************************************************************************)
(* A small instance of IssueLifecycle: one issue, its reporter, the MP of  *)
(* its constituency, an MP of another one who has just been made a citizen *)
(* and still holds the older token, and an admin.                          *)
(***************************************************************************)
EXTENDS IssueLifecycle

CONSTANTS ama, mensah, boateng, root, i1

MCUsers == {ama, mensah, boateng, root}
MCIssues == {i1}
MCReporter == [i \in MCIssues |-> ama]
MCTokenRoles ==
    [u \in MCUsers |->
       CASE u = ama -> {"citizen"}
         [] u = mensah -> {"mp"}
         [] u = boateng -> {"mp", "citizen"}
         [] u = root -> {"admin"}]
MCInConstituency == {<<mensah, i>> : i \in MCIssues}

=============================================================================

-------------------------- MODULE AssistedSeverity --------------------------
(***************************************************************************)
(* What Enrichment promises to whoever looks at an issue's severity.  The  *)
(* citizen chooses one, the classifier replaces it while its message waits *)
(* in the queue, as often as it is delivered, and not before or after; a   *)
(* message is settled only when the classifier's choice has been stored;   *)
(* and a save of the office's puts back its own choice, or one that was    *)
(* made for that issue.  There is no worker, batch, drawer or connection.  *)
(***************************************************************************)
CONSTANT Issues

VARIABLES
    severity,   \* severity[i]: who chose it, "none" before the issue exists
    assisted,   \* issues that the classifier has looked at
    stage       \* stage[i]: "none", "filed", "queued", "dropped" or "settled"

aidVars == <<severity, assisted, stage>>

Init ==
    /\ severity = [i \in Issues |-> "none"]
    /\ assisted = {}
    /\ stage = [i \in Issues |-> "none"]

-----------------------------------------------------------------------------
File(i) ==
    /\ stage[i] = "none"
    /\ severity' = [severity EXCEPT ![i] = "citizen"]
    /\ stage' = [stage EXCEPT ![i] = "filed"]
    /\ UNCHANGED assisted

Queue(i) ==
    /\ stage[i] = "filed"
    /\ stage' = [stage EXCEPT ![i] = "queued"]
    /\ UNCHANGED <<severity, assisted>>

\* Issues that the queue never hears of.
Drop(lost) ==
    /\ lost \subseteq {i \in Issues : stage[i] = "filed"}
    /\ stage' = [i \in Issues |-> IF i \in lost THEN "dropped" ELSE stage[i]]
    /\ UNCHANGED <<severity, assisted>>

\* The classifier's choice is stored, once or again.
Assist(i) ==
    /\ stage[i] = "queued"
    /\ severity' = [severity EXCEPT ![i] = "ml"]
    /\ assisted' = assisted \cup {i}
    /\ UNCHANGED stage

Settle(i) ==
    /\ stage[i] = "queued" /\ i \in assisted
    /\ stage' = [stage EXCEPT ![i] = "settled"]
    /\ UNCHANGED <<severity, assisted>>

\* Choices that have been made for i, any of which the office may have loaded.
Made(i) == {"citizen", "office"} \cup {a \in {"ml"} : i \in assisted}

Decide(i) ==
    /\ stage[i] # "none"
    /\ \E a \in Made(i) : severity' = [severity EXCEPT ![i] = a]
    /\ UNCHANGED <<assisted, stage>>

Next ==
    \/ \E i \in Issues : File(i) \/ Queue(i) \/ Assist(i) \/ Settle(i) \/ Decide(i)
    \/ \E lost \in SUBSET Issues : Drop(lost)

Spec == Init /\ [][Next]_aidVars

=============================================================================

----------------------------- MODULE Enrichment -----------------------------
(***************************************************************************)
(* How an issue gets its sector, severity and sentiment: the citizen files *)
(* it with a severity, handleCreateIssue publishes it to NATS JetStream,   *)
(* the worker of the ML sidecar (worker.py) classifies it and overwrites   *)
(* those columns, and an MP's office saves a severity of its own through   *)
(* handleManageIssue.                                                      *)
(*                                                                         *)
(* JetStream delivers at least once: a message that is neither acked nor   *)
(* naked within the ack wait is delivered again, also to a worker that is  *)
(* only slow.  The worker is one task that handles its messages one after  *)
(* the other; the task may fail to start, and the process may crash.  The  *)
(* API holds its connection to NATS, or the lack of one, until it restarts.*)
(***************************************************************************)
EXTENDS Naturals

CONSTANTS
    Issues,     \* issue ids
    Clerks,     \* browser tabs with an issue in the drawer
    None,       \* no issue, no draft
    MaxFaults   \* bound on failures, crashes and restarts

ASSUME EnrichmentAssumption == MaxFaults \in Nat /\ None \notin Issues

VARIABLES
    severity,   \* severity[i]: who chose issues.severity, "none" without a row
    sentiment,  \* issues whose sentiment_score is set
    msg,        \* msg[i]: where the message about issue i is
    stream,     \* the stream ISSUES exists
    linked,     \* the API's s.Queue is not nil
    worker,     \* what the worker does next
    batch,      \* issues of the messages that were fetched and are not begun
    current,    \* the issue of the message being processed
    draft,      \* draft[c]: the issue and severity that tab c has loaded
    faults

vars == <<severity, sentiment, msg, stream, linked, worker, batch, current, draft, faults>>

-----------------------------------------------------------------------------
Authors == {"citizen", "ml", "office"}

\* A message is "publishing" between the INSERT and the publish, then "ready"
\* to be delivered, "out" at a consumer or "acked"; "lost" if never stored.
MessageStates == {"unsent", "publishing", "ready", "out", "acked", "lost"}
Undelivered == {"ready", "out"}

\* "dead" is a task that raised while it started, in a process that runs on.
WorkerStates == {"down", "dead", "fetch", "update", "ack"}
WorkerRuns == worker \in {"fetch", "update", "ack"}

Draft == [issue : Issues, severity : Authors]

Init ==
    /\ severity = [i \in Issues |-> "none"]
    /\ sentiment = {}
    /\ msg = [i \in Issues |-> "unsent"]
    /\ stream \in BOOLEAN
    /\ linked \in BOOLEAN
    /\ worker = "down"
    /\ batch = {}
    /\ current = None
    /\ draft = [c \in Clerks |-> None]
    /\ faults = 0

Fault == faults < MaxFaults /\ faults' = faults + 1
NoFault == faults' = faults

-----------------------------------------------------------------------------
\* POST /issues: the INSERT.  The citizen has seen the classifier's proposal
\* and chosen.
CreateIssue(i) ==
    /\ severity[i] = "none"
    /\ severity' = [severity EXCEPT ![i] = "citizen"]
    /\ msg' = [msg EXCEPT ![i] = "publishing"]
    /\ UNCHANGED <<sentiment, stream, linked, worker, batch, current, draft, faults>>

\* The handler then publishes, if there is a connection and a stream.
Publish(i) ==
    /\ msg[i] = "publishing"
    /\ linked /\ stream
    /\ msg' = [msg EXCEPT ![i] = "ready"]
    /\ UNCHANGED <<severity, sentiment, stream, linked, worker, batch, current, draft, faults>>

\* Without them, or when the publish fails, the handler logs that and answers
\* 201 all the same; nobody publishes the issue later.
LosePublish(i) ==
    /\ msg[i] = "publishing"
    /\ IF linked /\ stream THEN Fault ELSE NoFault
    /\ msg' = [msg EXCEPT ![i] = "lost"]
    /\ UNCHANGED <<severity, sentiment, stream, linked, worker, batch, current, draft>>

\* The API restarts: requests are cut off, and it connects to NATS or, after
\* five attempts, goes without.
RestartAPI ==
    /\ Fault
    /\ linked' \in BOOLEAN
    /\ msg' = [i \in Issues |-> IF msg[i] = "publishing" THEN "lost" ELSE msg[i]]
    /\ UNCHANGED <<severity, sentiment, stream, worker, batch, current, draft>>

-----------------------------------------------------------------------------
\* start_worker: connect, make sure that the stream exists and subscribe.
StartWorker ==
    /\ worker = "down"
    /\ worker' = "fetch"
    /\ stream' = TRUE
    /\ UNCHANGED <<severity, sentiment, msg, linked, batch, current, draft, faults>>

\* PostgreSQL or NATS cannot be reached for too long: the task ends with an
\* exception that nobody awaits before the shutdown.
FailStart ==
    /\ worker = "down"
    /\ Fault
    /\ worker' = "dead"
    /\ UNCHANGED <<severity, sentiment, msg, stream, linked, batch, current, draft>>

\* fetch: some of the messages that wait.  The order among them is JetStream's.
Fetch ==
    /\ worker = "fetch" /\ batch = {} /\ current = None
    /\ \E got \in SUBSET {i \in Issues : msg[i] = "ready"} :
         /\ got # {}
         /\ batch' = got
         /\ msg' = [i \in Issues |-> IF i \in got THEN "out" ELSE msg[i]]
    /\ UNCHANGED <<severity, sentiment, stream, linked, worker, current, draft, faults>>

\* process_issue begins with the next message.
Begin(i) ==
    /\ worker = "fetch" /\ current = None
    /\ i \in batch
    /\ current' = i
    /\ batch' = batch \ {i}
    /\ worker' = "update"
    /\ UNCHANGED <<severity, sentiment, msg, stream, linked, draft, faults>>

\* The UPDATE names the issue only: it overwrites whoever chose before.
Enrich ==
    /\ severity' = [severity EXCEPT ![current] = "ml"]
    /\ sentiment' = sentiment \cup {current}

Update ==
    /\ worker = "update"
    /\ Enrich
    /\ worker' = "ack"
    /\ UNCHANGED <<msg, stream, linked, batch, current, draft, faults>>

\* process_issue returns and the worker takes its next message.
Return_Repeats == worker' = "update" /\ UNCHANGED current
Return == worker' = "fetch" /\ current' = None

Ack ==
    /\ worker = "ack"
    /\ msg' = [msg EXCEPT ![current] = "acked"]
    /\ Return
    /\ UNCHANGED <<severity, sentiment, stream, linked, batch, draft, faults>>

\* What the except clause does to the message: a nak makes it ready at once,
\* a nak that fails too leaves it out.
AfterException_Acks(m) == {"acked", m}
AfterException(m) == {"ready", m}

\* classify, analyze or the UPDATE raises; the UPDATE may have been committed.
FailUpdate ==
    /\ worker = "update"
    /\ Fault
    /\ Enrich \/ UNCHANGED <<severity, sentiment>>
    /\ \E m \in AfterException(msg[current]) : msg' = [msg EXCEPT ![current] = m]
    /\ Return
    /\ UNCHANGED <<stream, linked, batch, draft>>

\* The ack raises.
FailAck ==
    /\ worker = "ack"
    /\ Fault
    /\ \E m \in AfterException(msg[current]) : msg' = [msg EXCEPT ![current] = m]
    /\ Return
    /\ UNCHANGED <<severity, sentiment, stream, linked, batch, draft>>

\* The sidecar's process ends, by a crash or a redeployment, and with it the
\* worker wherever it is; the container's restart policy starts it again.
StopWorker ==
    /\ worker # "down"
    /\ Fault
    /\ worker' = "down"
    /\ batch' = {}
    /\ current' = None
    /\ UNCHANGED <<severity, sentiment, msg, stream, linked, draft>>

\* The ack wait of a message ends.  The worker may still have it in hand.
Redelivery_Never(i) == "out"
Redelivery_GivesUp(i) == "lost"
Redelivery(i) == "ready"
AckWait(i) ==
    /\ msg[i] = "out"
    /\ msg' = [msg EXCEPT ![i] = Redelivery(i)]
    /\ UNCHANGED <<severity, sentiment, stream, linked, worker, batch, current, draft, faults>>

-----------------------------------------------------------------------------
\* The drawer copies the issue's columns into its form.
Load(c, i) ==
    /\ severity[i] # "none"
    /\ draft' = [draft EXCEPT ![c] = [issue |-> i, severity |-> severity[i]]]
    /\ UNCHANGED <<severity, sentiment, msg, stream, linked, worker, batch, current, faults>>

\* PATCH /issues/{id}/manage writes the whole form, whether or not the user
\* changed the severity in it.
ManageIssue(c) ==
    /\ draft[c] # None
    /\ \E v \in {draft[c].severity, "office"} :
         /\ severity' = [severity EXCEPT ![draft[c].issue] = v]
         /\ draft' = [draft EXCEPT ![c].severity = v]
    /\ UNCHANGED <<sentiment, msg, stream, linked, worker, batch, current, faults>>

-----------------------------------------------------------------------------
WorkerStep == StartWorker \/ Fetch \/ (\E i \in Issues : Begin(i)) \/ Update \/ Ack

Next ==
    \/ \E i \in Issues : CreateIssue(i) \/ Publish(i) \/ LosePublish(i) \/ AckWait(i)
    \/ RestartAPI
    \/ WorkerStep \/ FailStart \/ FailUpdate \/ FailAck \/ StopWorker
    \/ \E c \in Clerks : ManageIssue(c) \/ \E i \in Issues : Load(c, i)

\* The handler goes on after the INSERT, the worker's loop runs, and JetStream
\* serves its timers and the waiting messages in turn.
Fairness ==
    /\ WF_vars(WorkerStep)
    /\ \A i \in Issues :
         /\ WF_vars(Publish(i) \/ LosePublish(i))
         /\ WF_vars(AckWait(i))
         /\ SF_vars(Fetch /\ i \in batch')

Spec == Init /\ [][Next]_vars
FairSpec == Spec /\ Fairness

-----------------------------------------------------------------------------
\* Every variable keeps its shape; the worker has a message in hand exactly
\* while it processes one, and never that of an issue whose INSERT failed.
TypeOK ==
    /\ severity \in [Issues -> Authors \cup {"none"}]
    /\ sentiment \subseteq Issues
    /\ msg \in [Issues -> MessageStates]
    /\ stream \in BOOLEAN /\ linked \in BOOLEAN
    /\ worker \in WorkerStates
    /\ batch \subseteq Issues
    /\ current \in Issues \cup {None}
    /\ current # None <=> worker \in {"update", "ack"}
    /\ draft \in [Clerks -> Draft \cup {None}]
    /\ faults \in 0..MaxFaults

\* A message leaves the queue only when its issue has been enriched, whatever
\* raises, crashes or times out in between.
AckedIsEnriched == \A i \in Issues : msg[i] = "acked" => i \in sentiment

\* The worker has no message in hand that was acked: however often a message
\* was delivered, nothing of it is applied after its ack, so a severity that
\* the office saves from then on stays.
AckedIsFinal ==
    \A i \in batch \cup ({current} \ {None}) : msg[i] \in Undelivered /\ severity[i] # "none"

\* An issue that was published gets enriched and its message acked, unless the
\* worker's task died while it started: nobody watches that task.
PublishedIsEnriched ==
    \A i \in Issues : msg[i] = "ready" ~> (msg[i] = "acked" \/ worker = "dead")

-----------------------------------------------------------------------------
\* Where an issue is on its way through the queue, seen from outside.
Stage(m) ==
    CASE m = "unsent" -> "none"
      [] m = "publishing" -> "filed"
      [] m \in Undelivered -> "queued"
      [] m = "lost" -> "dropped"
      [] m = "acked" -> "settled"

Aid == INSTANCE AssistedSeverity
         WITH assisted <- sentiment, stage <- [i \in Issues |-> Stage(msg[i])]

\* Redeliveries, crashes, stale drawers and a worker that is merely slow change
\* nothing in who may choose a severity and when: the classifier only while the
\* message waits, the office at any time, and a message is settled only when
\* the classifier's choice has been stored.
AssistsAsPromised == Aid!Spec

\* "AI assists, humans decide ... the citizen always has override": the worker
\* leaves alone a severity that a citizen or the office has chosen.
HumanChoiceStands ==
    [][\A i \in Issues :
         severity[i] \in {"citizen", "office"} /\ worker = "update" /\ worker' = "ack"
         => severity'[i] = severity[i]]_vars

=============================================================================

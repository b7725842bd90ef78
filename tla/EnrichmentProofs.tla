-------------------------- MODULE EnrichmentProofs --------------------------
(***************************************************************************)
(* Proofs about Enrichment, for every number of issues and drawers and     *)
(* every bound on faults.                                                  *)
(***************************************************************************)
EXTENDS Enrichment, TLAPS

-----------------------------------------------------------------------------
\* The worker's place in its loop agrees with the queue: the message it will
\* ack has been applied, it has no message twice, and a message exists only
\* for an issue that was inserted.
WorkerInStep ==
    /\ worker = "ack" => current \in sentiment
    /\ current \notin batch
    /\ \A i \in Issues : msg[i] # "unsent" => severity[i] # "none"

DeliveryInv == WorkerInStep /\ AckedIsEnriched /\ AckedIsFinal

-----------------------------------------------------------------------------
\* The type invariant.
THEOREM TypeCorrect == Spec => []TypeOK
<1> USE EnrichmentAssumption
<1>1. Init => TypeOK
  BY DEF Init, TypeOK, MessageStates, WorkerStates, Authors
<1>2. TypeOK /\ [Next]_vars => TypeOK'
  <2> SUFFICES ASSUME TypeOK, [Next]_vars
               PROVE  TypeOK'
    OBVIOUS
  <2> USE DEF TypeOK, MessageStates, WorkerStates, Authors
  <2>1. ASSUME NEW i \in Issues, CreateIssue(i) \/ Publish(i) \/ LosePublish(i) \/ AckWait(i)
        PROVE  TypeOK'
    <3>1. CASE CreateIssue(i)
      BY <3>1 DEF CreateIssue
    <3>2. CASE Publish(i) \/ AckWait(i)
      BY <3>2 DEF Publish, AckWait, Redelivery
    <3>3. CASE LosePublish(i)
      <4>1. Fault \/ NoFault
        BY <3>3 DEF LosePublish
      <4>2. faults' \in 0..MaxFaults
        BY <4>1 DEF Fault, NoFault
      <4>3. msg' \in [Issues -> MessageStates]
        BY <3>3 DEF LosePublish
      <4>4. QED
        BY <3>3, <4>2, <4>3 DEF LosePublish
    <3>4. QED
      BY <2>1, <3>1, <3>2, <3>3
  <2>2. CASE RestartAPI
    BY <2>2 DEF RestartAPI, Fault
  <2>3. CASE StartWorker \/ FailStart \/ StopWorker
    <3>1. CASE StartWorker
      BY <3>1 DEF StartWorker
    <3>2. CASE FailStart
      BY <3>2 DEF FailStart, Fault
    <3>3. CASE StopWorker
      BY <3>3 DEF StopWorker, Fault
    <3>4. QED
      BY <2>3, <3>1, <3>2, <3>3
  <2>4. CASE Fetch
    BY <2>4 DEF Fetch
  <2>5. ASSUME NEW i \in Issues, Begin(i)
        PROVE  TypeOK'
    BY <2>5 DEF Begin
  <2>6. CASE Update \/ Ack
    BY <2>6 DEF Update, Ack, Enrich, Return
  <2>7. CASE FailUpdate \/ FailAck
    BY <2>7 DEF FailUpdate, FailAck, Enrich, Return, Fault, AfterException
  <2>8. ASSUME NEW c \in Clerks, NEW i \in Issues, Load(c, i)
        PROVE  TypeOK'
    BY <2>8 DEF Load, Draft
  <2>9. ASSUME NEW c \in Clerks, ManageIssue(c)
        PROVE  TypeOK'
    <3>1. draft[c] \in Draft
      BY <2>9 DEF ManageIssue
    <3>2. PICK v \in Authors :
            /\ severity' = [severity EXCEPT ![draft[c].issue] = v]
            /\ draft' = [draft EXCEPT ![c].severity = v]
      BY <2>9, <3>1 DEF ManageIssue, Draft
    <3>3. [draft[c] EXCEPT !.severity = v] \in Draft
      BY <3>1, <3>2 DEF Draft
    <3>4. QED
      BY <2>9, <3>2, <3>3 DEF ManageIssue
  <2>10. CASE UNCHANGED vars
    BY <2>10 DEF vars
  <2>11. QED
    BY <2>1, <2>2, <2>3, <2>4, <2>5, <2>6, <2>7, <2>8, <2>9, <2>10 DEF Next, WorkerStep
<1>3. QED
  BY <1>1, <1>2, PTL DEF Spec

-----------------------------------------------------------------------------
\* At-least-once delivery: a message is acked after its UPDATE and never in
\* the worker's hands after that.
LEMMA DeliveryStep ==
    ASSUME TypeOK, DeliveryInv, [Next]_vars
    PROVE  DeliveryInv'
<1> USE EnrichmentAssumption DEF DeliveryInv, WorkerInStep, AckedIsEnriched, AckedIsFinal, Undelivered
<1>1. ASSUME NEW i \in Issues, CreateIssue(i) \/ Publish(i) \/ LosePublish(i) \/ AckWait(i)
      PROVE  DeliveryInv'
  BY <1>1 DEF CreateIssue, Publish, LosePublish, AckWait, Redelivery, TypeOK
<1>2. CASE RestartAPI
  BY <1>2 DEF RestartAPI, TypeOK
<1>3. CASE StartWorker \/ FailStart \/ StopWorker
  BY <1>3 DEF StartWorker, FailStart, StopWorker, TypeOK
<1>4. CASE Fetch
  BY <1>4 DEF Fetch, TypeOK
<1>5. ASSUME NEW i \in Issues, Begin(i)
      PROVE  DeliveryInv'
  BY <1>5 DEF Begin, TypeOK
<1>6. ASSUME worker = "update", Enrich, UNCHANGED batch,
             \/ worker' = "ack" /\ UNCHANGED <<msg, current>>
             \/ /\ Return
                /\ \E m \in AfterException(msg[current]) : msg' = [msg EXCEPT ![current] = m]
      PROVE  DeliveryInv'
  <2>1. current \in Issues
    BY <1>6 DEF TypeOK
  <2>2. QED
    BY <1>6, <2>1 DEF Enrich, Return, AfterException, TypeOK
<1>7. CASE Update
  BY <1>6, <1>7 DEF Update
<1>8. CASE Ack
  BY <1>8 DEF Ack, Return, TypeOK
<1>9. CASE FailUpdate
  <2>1. CASE Enrich
    BY ONLY <1>6, <1>9, <2>1 DEF FailUpdate
  <2>2. CASE UNCHANGED <<severity, sentiment>>
    BY <1>9, <2>2 DEF FailUpdate, Return, AfterException, TypeOK
  <2>3. QED
    BY <1>9, <2>1, <2>2 DEF FailUpdate
<1>10. CASE FailAck
  BY <1>10 DEF FailAck, Return, AfterException, TypeOK
<1>11. ASSUME NEW c \in Clerks, NEW i \in Issues, Load(c, i)
       PROVE  DeliveryInv'
  BY <1>11 DEF Load
<1>12. ASSUME NEW c \in Clerks, ManageIssue(c)
       PROVE  DeliveryInv'
  <2>1. draft[c] \in Draft
    BY <1>12 DEF ManageIssue, TypeOK
  <2>2. PICK v \in Authors : severity' = [severity EXCEPT ![draft[c].issue] = v]
    BY <1>12, <2>1 DEF ManageIssue, Draft, Authors
  <2>3. \A i \in Issues : severity[i] # "none" => severity'[i] # "none"
    BY <2>2 DEF TypeOK, Authors
  <2>4. QED
    BY <1>12, <2>3 DEF ManageIssue, TypeOK
<1>13. CASE UNCHANGED vars
  BY <1>13 DEF vars
<1>14. QED
  BY <1>1, <1>2, <1>3, <1>4, <1>5, <1>7, <1>8, <1>9, <1>10, <1>11, <1>12, <1>13
  DEF Next, WorkerStep

THEOREM DeliveryInvariant == Spec => []DeliveryInv
<1>1. Init => DeliveryInv
  BY EnrichmentAssumption
  DEF Init, DeliveryInv, WorkerInStep, AckedIsEnriched, AckedIsFinal, Undelivered
<1>2. QED
  BY <1>1, DeliveryStep, TypeCorrect, PTL DEF Spec

\* No crash, timeout or failure lets a message go before its issue has been
\* enriched.
THEOREM NoMessageIsWasted == Spec => []AckedIsEnriched
  BY DeliveryInvariant, PTL DEF DeliveryInv

\* And after its ack nothing of it is applied any more.
THEOREM NoLateOverwrite == Spec => []AckedIsFinal
  BY DeliveryInvariant, PTL DEF DeliveryInv

-----------------------------------------------------------------------------
\* Where a severity can come from: the classifier's only stands where it was
\* stored, and a drawer holds a choice that was made for the issue in it.
ChoicesAreMade ==
    /\ \A i \in Issues : severity[i] = "ml" => i \in sentiment
    /\ \A i \in Issues : msg[i] = "unsent" => severity[i] = "none"
    /\ \A c \in Clerks : draft[c] # None =>
         /\ severity[draft[c].issue] # "none"
         /\ draft[c].severity = "ml" => draft[c].issue \in sentiment

LEMMA ChoicesStep ==
    ASSUME TypeOK, DeliveryInv, ChoicesAreMade, [Next]_vars
    PROVE  ChoicesAreMade'
<1> USE EnrichmentAssumption DEF ChoicesAreMade
<1>1. ASSUME NEW i \in Issues, CreateIssue(i) \/ Publish(i) \/ LosePublish(i) \/ AckWait(i)
      PROVE  ChoicesAreMade'
  <2>1. UNCHANGED <<sentiment, draft>>
    BY <1>1 DEF CreateIssue, Publish, LosePublish, AckWait
  <2>2. \/ severity' = [severity EXCEPT ![i] = "citizen"]
        \/ UNCHANGED severity
    BY <1>1 DEF CreateIssue, Publish, LosePublish, AckWait
  <2>3. \A j \in Issues : msg'[j] = "unsent" => msg[j] = "unsent" /\ severity'[j] = severity[j]
    BY <1>1 DEF CreateIssue, Publish, LosePublish, AckWait, Redelivery, TypeOK
  <2>4. \A j \in Issues : /\ severity[j] # "none" => severity'[j] # "none"
                          /\ severity'[j] = "ml" => severity[j] = "ml"
    BY <2>2 DEF TypeOK
  <2>5. \A c \in Clerks : draft[c] # None => draft[c].issue \in Issues
    BY DEF TypeOK, Draft
  <2>6. QED
    BY <2>1, <2>3, <2>4, <2>5
<1>2. ASSUME UNCHANGED <<severity, sentiment, draft>>,
             \A i \in Issues : msg'[i] = "unsent" => msg[i] = "unsent"
      PROVE  ChoicesAreMade'
  BY <1>2
<1>3. CASE RestartAPI \/ StartWorker \/ FailStart \/ StopWorker \/ Fetch
  BY <1>2, <1>3 DEF RestartAPI, StartWorker, FailStart, StopWorker, Fetch, TypeOK
<1>4. ASSUME NEW i \in Issues, Begin(i)
      PROVE  ChoicesAreMade'
  BY <1>2, <1>4 DEF Begin
<1>5. ASSUME current \in Issues, severity[current] # "none", Enrich, UNCHANGED draft,
             \A i \in Issues : msg'[i] = "unsent" => msg[i] = "unsent"
      PROVE  ChoicesAreMade'
  <2>1. /\ severity' = [severity EXCEPT ![current] = "ml"]
        /\ sentiment' = sentiment \cup {current}
    BY <1>5 DEF Enrich
  <2>2. \A c \in Clerks : draft[c] # None => draft[c].issue \in Issues
    BY DEF TypeOK, Draft
  <2>3. QED
    BY <1>5, <2>1, <2>2 DEF TypeOK
<1>6. ASSUME worker \in {"update", "ack"}
      PROVE  current \in Issues /\ severity[current] # "none" /\ msg[current] \in Undelivered
  BY <1>6 DEF DeliveryInv, AckedIsFinal, TypeOK
<1>7. CASE Update
  <2>1. Enrich /\ worker = "update" /\ UNCHANGED <<msg, draft>>
    BY <1>7 DEF Update
  <2>2. QED
    BY <1>5, <1>6, <2>1
<1>8. CASE Ack
  BY <1>2, <1>6, <1>8 DEF Ack, TypeOK
<1>9. CASE FailUpdate \/ FailAck
  <2>1. PICK m \in AfterException(msg[current]) : msg' = [msg EXCEPT ![current] = m]
    BY <1>9 DEF FailUpdate, FailAck
  <2>2. worker \in {"update", "ack"} /\ UNCHANGED draft
    BY <1>9 DEF FailUpdate, FailAck
  <2>3. \A i \in Issues : msg'[i] = "unsent" => msg[i] = "unsent"
    BY <1>6, <2>1, <2>2 DEF AfterException, Undelivered, TypeOK
  <2>4. Enrich \/ UNCHANGED <<severity, sentiment>>
    BY <1>9 DEF FailUpdate, FailAck
  <2>5. QED
    BY <1>2, <1>5, <1>6, <2>2, <2>3, <2>4
<1>10. ASSUME NEW c \in Clerks, NEW i \in Issues, Load(c, i)
       PROVE  ChoicesAreMade'
  BY <1>10 DEF Load, TypeOK
<1>11. ASSUME NEW c \in Clerks, ManageIssue(c)
       PROVE  ChoicesAreMade'
  <2>1. draft[c] \in Draft /\ draft[c].issue \in Issues /\ draft[c].severity \in Authors
    BY <1>11 DEF ManageIssue, TypeOK, Draft
  <2>2. PICK v \in {draft[c].severity, "office"} :
          /\ severity' = [severity EXCEPT ![draft[c].issue] = v]
          /\ draft' = [draft EXCEPT ![c].severity = v]
    BY <1>11 DEF ManageIssue
  <2>3. /\ UNCHANGED <<sentiment, msg>>
        /\ severity[draft[c].issue] # "none"
        /\ v # "none" /\ (v = "ml" => draft[c].issue \in sentiment)
    BY <1>11, <2>1, <2>2 DEF ManageIssue, Authors
  <2>4. /\ \A i \in Issues : severity'[i] = "ml" => i \in sentiment
        /\ \A i \in Issues : severity[i] # "none" => severity'[i] # "none"
        /\ \A i \in Issues : severity[i] = "none" => severity'[i] = "none"
    BY <2>1, <2>2, <2>3 DEF TypeOK
  <2>5. /\ draft'[c].issue = draft[c].issue /\ draft'[c].severity = v
        /\ \A d \in Clerks : d # c => draft'[d] = draft[d]
    BY <2>1, <2>2 DEF TypeOK, Draft
  <2>6. \A d \in Clerks : draft[d] # None => draft[d].issue \in Issues
    BY DEF TypeOK, Draft
  <2>7. QED
    BY <2>1, <2>3, <2>4, <2>5, <2>6
<1>12. CASE UNCHANGED vars
  BY <1>2, <1>12 DEF vars
<1>13. QED
  BY <1>1, <1>3, <1>4, <1>7, <1>8, <1>9, <1>10, <1>11, <1>12 DEF Next, WorkerStep

THEOREM ChoicesInvariant == Spec => [](TypeOK /\ DeliveryInv /\ ChoicesAreMade)
<1>1. Init => ChoicesAreMade
  BY DEF Init, ChoicesAreMade
<1>2. QED
  BY <1>1, ChoicesStep, TypeCorrect, DeliveryInvariant, PTL DEF Spec

-----------------------------------------------------------------------------
StageOf == [i \in Issues |-> Stage(msg[i])]

\* A step that moves one message moves one stage.
LEMMA StageMoves ==
    ASSUME TypeOK, NEW i \in Issues, NEW m \in MessageStates, msg' = [msg EXCEPT ![i] = m]
    PROVE  StageOf' = [StageOf EXCEPT ![i] = Stage(m)]
  BY DEF TypeOK, StageOf

\* A step that leaves every message in its stage leaves the stages as they are.
LEMMA StageStays ==
    ASSUME \A i \in Issues : Stage(msg'[i]) = Stage(msg[i])
    PROVE  StageOf' = StageOf
  BY DEF StageOf

LEMMA StageValues ==
    /\ Stage("unsent") = "none" /\ Stage("publishing") = "filed"
    /\ Stage("ready") = "queued" /\ Stage("out") = "queued"
    /\ Stage("lost") = "dropped" /\ Stage("acked") = "settled"
  BY DEF Stage, Undelivered

\* The steps that touch neither a severity nor the outcome of a message.
LEMMA HiddenStep ==
    ASSUME UNCHANGED <<severity, sentiment>>,
           \A i \in Issues : Stage(msg'[i]) = Stage(msg[i])
    PROVE  UNCHANGED Aid!aidVars
  BY StageStays DEF Aid!aidVars, StageOf

\* The classifier's choice is stored, and the message is still in the queue
\* afterwards, however the step ends.
LEMMA EnrichAssists ==
    ASSUME TypeOK, DeliveryInv, worker = "update", Enrich,
           \A i \in Issues : Stage(msg'[i]) = Stage(msg[i])
    PROVE  Aid!Next
<1>1. current \in Issues /\ msg[current] \in Undelivered
  BY EnrichmentAssumption DEF TypeOK, DeliveryInv, AckedIsFinal
<1>2. StageOf[current] = "queued" /\ StageOf' = StageOf
  BY <1>1, StageValues, StageStays DEF StageOf, Undelivered
<1>3. Aid!Assist(current)
  BY <1>2 DEF Enrich, Aid!Assist, StageOf
<1>4. QED
  BY <1>1, <1>3 DEF Aid!Next

\* Deliveries, redeliveries, crashes and stale drawers implement the promise in
\* which a choice is made in one step by somebody whose turn it is.
THEOREM AssistanceIsBounded == Spec => AssistsAsPromised
<1> USE EnrichmentAssumption
<1>1. Init => Aid!Init
  BY StageValues DEF Init, Aid!Init
<1>2. TypeOK /\ DeliveryInv /\ ChoicesAreMade /\ [Next]_vars => [Aid!Next]_(Aid!aidVars)
  <2> SUFFICES ASSUME TypeOK, DeliveryInv, ChoicesAreMade, [Next]_vars
               PROVE  Aid!Next \/ UNCHANGED Aid!aidVars
    OBVIOUS
  <2>1. ASSUME NEW i \in Issues, CreateIssue(i)
        PROVE  Aid!Next
    <3>1. msg' = [msg EXCEPT ![i] = "publishing"] /\ msg[i] = "unsent"
      BY <2>1 DEF CreateIssue, DeliveryInv, WorkerInStep
    <3>2. StageOf' = [StageOf EXCEPT ![i] = "filed"] /\ StageOf[i] = "none"
      BY <3>1, StageMoves, StageValues DEF MessageStates, StageOf
    <3>3. Aid!File(i)
      BY <2>1, <3>2 DEF CreateIssue, Aid!File, StageOf
    <3>4. QED
      BY <3>3 DEF Aid!Next
  <2>2. ASSUME NEW i \in Issues, Publish(i)
        PROVE  Aid!Next
    <3>1. StageOf' = [StageOf EXCEPT ![i] = "queued"] /\ StageOf[i] = "filed"
      BY <2>2, StageMoves, StageValues DEF Publish, MessageStates, StageOf
    <3>2. Aid!Queue(i)
      BY <2>2, <3>1 DEF Publish, Aid!Queue, StageOf
    <3>3. QED
      BY <3>2 DEF Aid!Next
  <2>3. ASSUME NEW lost \in SUBSET {i \in Issues : msg[i] = "publishing"},
               msg' = [i \in Issues |-> IF i \in lost THEN "lost" ELSE msg[i]],
               UNCHANGED <<severity, sentiment>>
        PROVE  Aid!Next
    <3>1. lost \subseteq {i \in Issues : StageOf[i] = "filed"}
      BY StageValues DEF StageOf
    <3>2. StageOf' = [i \in Issues |-> IF i \in lost THEN "dropped" ELSE StageOf[i]]
      BY <2>3, StageValues DEF StageOf
    <3>3. Aid!Drop(lost)
      BY <2>3, <3>1, <3>2 DEF Aid!Drop, StageOf
    <3>4. QED
      BY <3>3 DEF Aid!Next
  <2>4. ASSUME NEW i \in Issues, LosePublish(i)
        PROVE  Aid!Next
    <3> DEFINE lost == {i}
    <3>1. msg' = [j \in Issues |-> IF j \in lost THEN "lost" ELSE msg[j]]
      BY <2>4 DEF LosePublish, TypeOK
    <3>2. lost \in SUBSET {j \in Issues : msg[j] = "publishing"}
      BY <2>4 DEF LosePublish
    <3>3. UNCHANGED <<severity, sentiment>>
      BY <2>4 DEF LosePublish
    <3> HIDE DEF lost
    <3>4. QED
      BY <2>3, <3>1, <3>2, <3>3
  <2>5. CASE RestartAPI
    <3> DEFINE lost == {j \in Issues : msg[j] = "publishing"}
    <3>1. msg' = [j \in Issues |-> IF j \in lost THEN "lost" ELSE msg[j]]
      BY <2>5 DEF RestartAPI
    <3>2. lost \in SUBSET {j \in Issues : msg[j] = "publishing"}
      OBVIOUS
    <3>3. UNCHANGED <<severity, sentiment>>
      BY <2>5 DEF RestartAPI
    <3> HIDE DEF lost
    <3>4. QED
      BY <2>3, <3>1, <3>2, <3>3
  <2>6. ASSUME NEW i \in Issues, AckWait(i)
        PROVE  UNCHANGED Aid!aidVars
    <3>1. \A j \in Issues : Stage(msg'[j]) = Stage(msg[j])
      BY <2>6, StageValues DEF AckWait, Redelivery, TypeOK
    <3>2. QED
      BY <2>6, <3>1, HiddenStep DEF AckWait
  <2>7. CASE Fetch
    <3>1. \A j \in Issues : Stage(msg'[j]) = Stage(msg[j])
      BY <2>7, StageValues DEF Fetch
    <3>2. QED
      BY <2>7, <3>1, HiddenStep DEF Fetch
  <2>8. CASE Update
    BY <2>8, EnrichAssists DEF Update
  <2>9. CASE Ack
    <3>1. current \in Issues /\ current \in sentiment /\ msg[current] \in Undelivered
      BY <2>9 DEF Ack, TypeOK, DeliveryInv, WorkerInStep, AckedIsFinal
    <3>2. StageOf' = [StageOf EXCEPT ![current] = "settled"] /\ StageOf[current] = "queued"
      BY <2>9, <3>1, StageMoves, StageValues DEF Ack, MessageStates, Undelivered, StageOf
    <3>3. Aid!Settle(current)
      BY <2>9, <3>1, <3>2 DEF Ack, Aid!Settle, StageOf
    <3>4. QED
      BY <3>1, <3>3 DEF Aid!Next
  <2>10. CASE FailUpdate \/ FailAck
    <3>1. current \in Issues /\ msg[current] \in Undelivered
      BY <2>10 DEF FailUpdate, FailAck, TypeOK, DeliveryInv, AckedIsFinal
    <3>2. PICK m \in AfterException(msg[current]) : msg' = [msg EXCEPT ![current] = m]
      BY <2>10 DEF FailUpdate, FailAck
    <3>3. \A j \in Issues : Stage(msg'[j]) = Stage(msg[j])
      BY <3>1, <3>2, StageValues DEF AfterException, Undelivered, TypeOK
    <3>4. \/ worker = "update" /\ Enrich
          \/ UNCHANGED <<severity, sentiment>>
      BY <2>10 DEF FailUpdate, FailAck
    <3>5. QED
      BY <3>3, <3>4, EnrichAssists, HiddenStep
  <2>11. ASSUME NEW c \in Clerks, ManageIssue(c)
         PROVE  Aid!Next
    <3>1. draft[c] \in Draft /\ draft[c] # None
      BY <2>11 DEF ManageIssue, TypeOK
    <3>2. PICK i \in Issues : draft[c].issue = i
      BY <3>1 DEF Draft
    <3>3. PICK v \in {draft[c].severity, "office"} : severity' = [severity EXCEPT ![i] = v]
      BY <2>11, <3>2 DEF ManageIssue
    <3>4. v \in Aid!Made(i)
      BY <3>1, <3>2, <3>3 DEF ChoicesAreMade, Draft, Authors, Aid!Made
    <3>5. StageOf[i] # "none"
      BY <3>1, <3>2, StageValues DEF ChoicesAreMade, StageOf, TypeOK, MessageStates
    <3>6. StageOf' = StageOf /\ UNCHANGED sentiment
      BY <2>11 DEF ManageIssue, StageOf
    <3>7. Aid!Decide(i)
      BY <3>3, <3>4, <3>5, <3>6 DEF Aid!Decide, StageOf
    <3>8. QED
      BY <3>7 DEF Aid!Next
  <2>12. CASE UNCHANGED <<severity, sentiment, msg>>
    BY <2>12, HiddenStep
  <2>13. QED
    BY <2>1, <2>2, <2>4, <2>5, <2>6, <2>7, <2>8, <2>9, <2>10, <2>11, <2>12
    DEF Next, WorkerStep, StartWorker, FailStart, StopWorker, Begin, Load, vars
<1>3. QED
  BY <1>1, <1>2, ChoicesInvariant, PTL DEF Spec, AssistsAsPromised, Aid!Spec

=============================================================================

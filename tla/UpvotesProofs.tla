---------------------------- MODULE UpvotesProofs ----------------------------
(***************************************************************************)
(* Theorems about Upvotes: the counter of an issue is the number of its    *)
(* votes, and the statements implement a ledger in which votes change one  *)
(* at a time.                                                              *)
(***************************************************************************)
EXTENDS Upvotes, FiniteSetTheorems, TLAPS

\* A shown counter includes the own vote that is shown with it.
Counted(view) == \A i \in view.upvotedIds : view.votes[i] >= 1
ViewsCounted == \A b \in Tabs : shown[b] # Nothing => Counted(shown[b])

\* A row that a statement has found, and that it has not been told is gone, is
\* there.
FoundIsThere ==
    \A t \in Toggles : toggle[t] # Nothing /\ toggle[t].step = "present" =>
      TheRow(toggle[t]) \in rows

\* A tab with a click in flight shows a list.
ClickedIsShown == \A t \in Toggles : toggle[t] # Nothing => shown[toggle[t].tab] # Nothing

VotesInv == TypeOK /\ CounterIsVotes /\ FoundIsThere /\ ViewsCounted /\ ClickedIsShown

-----------------------------------------------------------------------------
LEMMA VotersFinite ==
    ASSUME NEW i
    PROVE  IsFiniteSet(Voters(i)) /\ Cardinality(Voters(i)) \in Nat
<1>1. IsFiniteSet(Voters(i))
  BY UpvotesAssumption, FS_Subset DEF Voters
<1>2. QED
  BY <1>1, FS_CardinalityType

\* The optimistic update keeps a view's shape, and its counters above 0.
LEMMA FlipKeeps ==
    ASSUME NEW view \in View, Counted(view), NEW i \in Issues
    PROVE  Flip(view, i) \in View /\ Counted(Flip(view, i))
<1>1. view.votes \in [Issues -> Nat] /\ view.upvotedIds \subseteq Issues
  BY DEF View
<1>2. CASE i \in view.upvotedIds
  <2>1. Flip(view, i) = [votes |-> [view.votes EXCEPT ![i] = @ - 1],
                         upvotedIds |-> view.upvotedIds \ {i}]
    BY <1>2 DEF Flip
  <2>2. view.votes[i] \in Nat /\ view.votes[i] >= 1
    BY <1>1, <1>2 DEF Counted
  <2>3. [view.votes EXCEPT ![i] = @ - 1] \in [Issues -> Nat]
    BY <1>1, <2>2
  <2>4. \A j \in view.upvotedIds \ {i} : [view.votes EXCEPT ![i] = @ - 1][j] >= 1
    BY <1>1 DEF Counted
  <2>5. QED
    BY <1>1, <2>1, <2>3, <2>4 DEF View, Counted
<1>3. CASE i \notin view.upvotedIds
  <2>1. Flip(view, i) = [votes |-> [view.votes EXCEPT ![i] = @ + 1],
                         upvotedIds |-> view.upvotedIds \cup {i}]
    BY <1>3 DEF Flip
  <2>2. [view.votes EXCEPT ![i] = @ + 1] \in [Issues -> Nat]
    BY <1>1
  <2>3. \A j \in view.upvotedIds \cup {i} : [view.votes EXCEPT ![i] = @ + 1][j] >= 1
    BY <1>1 DEF Counted
  <2>4. QED
    BY <1>1, <2>1, <2>2, <2>3 DEF View, Counted
<1>4. QED
  BY <1>2, <1>3

-----------------------------------------------------------------------------
\* A step that starts no request, moves none to another tab and empties no tab.
LEMMA ClickedStaysShown ==
    ASSUME ClickedIsShown,
           \A x \in Toggles : toggle'[x] # Nothing =>
             toggle[x] # Nothing /\ toggle'[x].tab = toggle[x].tab,
           \A x \in Toggles : toggle[x] # Nothing /\ shown[toggle[x].tab] # Nothing =>
             shown'[toggle[x].tab] # Nothing
    PROVE  ClickedIsShown'
BY DEF ClickedIsShown

\* What a statement does is one vote, one withdrawal or nothing at all.
LEMMA EffectIsOneVote ==
    ASSUME VotesInv, NEW t \in Toggles, toggle[t] # Nothing,
           toggle[t].step \in {"absent", "present", "gone"},
           Outcome(toggle[t]) # "conflict", NEW step, Effect(t, step)
    PROVE  \/ UNCHANGED ledger
           \/ OneVoteAtATime!Vote(toggle[t].issue, Owner[toggle[t].tab])
           \/ OneVoteAtATime!Withdraw(toggle[t].issue, Owner[toggle[t].tab])
<1> DEFINE r == toggle[t]
<1>1. r \in Toggle /\ upvotes \in [Issues -> Nat] /\ r.issue \in Issues
  BY DEF VotesInv, TypeOK, Toggle
<1>2. CASE r.step = "absent"
  <2>1. Outcome(r) = "inserted" /\ Delta(r) = 1 /\ TheRow(r) \notin rows
    BY <1>2 DEF Outcome, Delta
  <2>2. QED
    BY <2>1 DEF Effect, OneVoteAtATime!Vote, TheRow
<1>3. CASE r.step = "present"
  <2>1. Outcome(r) = "deleted" /\ Delta(r) = -1 /\ TheRow(r) \in rows
    BY <1>3 DEF Outcome, Delta, VotesInv, FoundIsThere
  <2>2. rows' = rows \ {TheRow(r)} /\ upvotes' = [upvotes EXCEPT ![r.issue] = @ + (-1)]
    BY <2>1 DEF Effect
  <2>3. upvotes[r.issue] + (-1) = upvotes[r.issue] - 1
    BY <1>1
  <2>4. QED
    BY <2>1, <2>2, <2>3 DEF OneVoteAtATime!Withdraw, TheRow
<1>4. CASE r.step = "gone"
  <2>1. Outcome(r) = "none" /\ Delta(r) = 0
    BY <1>4 DEF Outcome, Delta
  <2>2. rows' = rows /\ upvotes' = [upvotes EXCEPT ![r.issue] = @ + 0]
    BY <2>1 DEF Effect
  <2>3. upvotes[r.issue] + 0 = upvotes[r.issue]
    BY <1>1
  <2>4. upvotes' = upvotes
    BY <1>1, <2>2, <2>3
  <2>5. QED
    BY <2>2, <2>4 DEF ledger
<1>5. QED
  BY <1>2, <1>3, <1>4

\* A vote and a withdrawal keep the counter right.
LEMMA OneVoteKeepsCounter ==
    ASSUME TypeOK, CounterIsVotes, NEW i \in Issues, NEW u \in Users,
           OneVoteAtATime!Vote(i, u) \/ OneVoteAtATime!Withdraw(i, u)
    PROVE  rows' \subseteq Issues \X Users /\ upvotes' \in [Issues -> Nat] /\ CounterIsVotes'
<1> USE UpvotesAssumption
<1>1. upvotes \in [Issues -> Nat] /\ rows \subseteq Issues \X Users
  BY DEF TypeOK
<1>2. CASE OneVoteAtATime!Vote(i, u)
  <2>1. <<i, u>> \notin rows /\ rows' = rows \cup {<<i, u>>}
        /\ upvotes' = [upvotes EXCEPT ![i] = @ + 1]
    BY <1>2 DEF OneVoteAtATime!Vote
  <2>2. \A j \in Issues : j # i => Voters(j)' = Voters(j)
    BY <2>1 DEF Voters
  <2>3. Voters(i)' = Voters(i) \cup {u} /\ u \notin Voters(i)
    BY <2>1 DEF Voters
  <2>4. Cardinality(Voters(i) \cup {u}) = Cardinality(Voters(i)) + 1
    BY <2>3, VotersFinite, FS_AddElement
  <2>5. ASSUME NEW j \in Issues
        PROVE  upvotes'[j] = Surplus[j] + Cardinality(Voters(j)')
    <3>1. Surplus[j] \in Nat /\ Cardinality(Voters(j)) \in Nat
          /\ upvotes[j] = Surplus[j] + Cardinality(Voters(j))
      BY VotersFinite DEF CounterIsVotes
    <3>2. CASE j = i
      <4>1. upvotes'[j] = upvotes[j] + 1
        BY <1>1, <2>1, <3>2
      <4>2. Cardinality(Voters(j)') = Cardinality(Voters(j)) + 1
        BY <2>3, <2>4, <3>2
      <4>3. QED
        BY <3>1, <4>1, <4>2
    <3>3. CASE j # i
      BY <1>1, <2>1, <2>2, <3>1, <3>3
    <3>4. QED
      BY <3>2, <3>3
  <2>6. QED
    BY <1>1, <2>1, <2>5 DEF CounterIsVotes
<1>3. CASE OneVoteAtATime!Withdraw(i, u)
  <2>1. <<i, u>> \in rows /\ rows' = rows \ {<<i, u>>}
        /\ upvotes' = [upvotes EXCEPT ![i] = @ - 1]
    BY <1>3 DEF OneVoteAtATime!Withdraw
  <2>2. \A j \in Issues : j # i => Voters(j)' = Voters(j)
    BY <2>1 DEF Voters
  <2>3. Voters(i)' = Voters(i) \ {u} /\ u \in Voters(i)
    BY <2>1 DEF Voters
  <2>4. Cardinality(Voters(i) \ {u}) = Cardinality(Voters(i)) - 1
    BY <2>3, VotersFinite, FS_RemoveElement
  <2>5. IsFiniteSet(Voters(i) \ {u})
    BY VotersFinite, FS_RemoveElement
  <2>6. Cardinality(Voters(i) \ {u}) \in Nat
    BY <2>5, FS_CardinalityType
  <2>7. ASSUME NEW j \in Issues
        PROVE  upvotes'[j] = Surplus[j] + Cardinality(Voters(j)') /\ upvotes'[j] \in Nat
    <3>1. Surplus[j] \in Nat /\ Cardinality(Voters(j)) \in Nat
          /\ upvotes[j] = Surplus[j] + Cardinality(Voters(j))
      BY VotersFinite DEF CounterIsVotes
    <3>2. CASE j = i
      <4>1. upvotes'[j] = upvotes[j] - 1
        BY <1>1, <2>1, <3>2
      <4>2. Cardinality(Voters(j)') = Cardinality(Voters(j)) - 1 /\ Cardinality(Voters(j)') \in Nat
        BY <2>3, <2>4, <2>6, <3>2
      <4>3. QED
        BY <3>1, <4>1, <4>2
    <3>3. CASE j # i
      BY <1>1, <2>1, <2>2, <3>1, <3>3
    <3>4. QED
      BY <3>2, <3>3
  <2>8. upvotes' \in [Issues -> Nat]
    BY <1>1, <2>1, <2>7
  <2>9. QED
    BY <1>1, <2>1, <2>7, <2>8 DEF CounterIsVotes
<1>4. QED
  BY <1>2, <1>3

\* A statement's effect keeps the database, and its requests, in order.
LEMMA EffectKeeps ==
    ASSUME VotesInv, NEW t \in Toggles, toggle[t] # Nothing,
           toggle[t].step \in {"absent", "present", "gone"},
           Outcome(toggle[t]) # "conflict", NEW step \in {"ok", "failed"}, Effect(t, step)
    PROVE  /\ rows' \subseteq Issues \X Users /\ upvotes' \in [Issues -> Nat]
           /\ toggle' \in [Toggles -> Toggle \cup {Nothing}]
           /\ CounterIsVotes' /\ FoundIsThere'
           /\ \A x \in Toggles : toggle'[x] # Nothing =>
                toggle[x] # Nothing /\ toggle'[x].tab = toggle[x].tab
<1> DEFINE r == toggle[t]
<1>1. r \in Toggle /\ toggle \in [Toggles -> Toggle \cup {Nothing}]
      /\ r.issue \in Issues /\ r.tab \in Tabs /\ Owner[r.tab] \in Users
  BY UpvotesAssumption DEF VotesInv, TypeOK, Toggle
<1>2. rows' \subseteq Issues \X Users /\ upvotes' \in [Issues -> Nat] /\ CounterIsVotes'
  <2>1. CASE UNCHANGED ledger
    <3>1. rows' = rows /\ upvotes' = upvotes
      BY <2>1 DEF ledger
    <3>2. QED
      BY <3>1 DEF VotesInv, TypeOK, CounterIsVotes, Voters
  <2>2. CASE \/ OneVoteAtATime!Vote(r.issue, Owner[r.tab])
             \/ OneVoteAtATime!Withdraw(r.issue, Owner[r.tab])
    BY <1>1, <2>2, OneVoteKeepsCounter DEF VotesInv
  <2>3. QED
    BY <2>1, <2>2, EffectIsOneVote
<1>3. ASSUME NEW x \in Toggles
      PROVE  /\ toggle'[x] \in Toggle \cup {Nothing}
             /\ toggle'[x] # Nothing => toggle[x] # Nothing /\ toggle'[x].tab = toggle[x].tab
             /\ toggle'[x] # Nothing /\ toggle'[x].step = "present" =>
                  /\ toggle[x] = toggle'[x]
                  /\ Outcome(r) = "deleted" => TheRow(toggle[x]) # TheRow(r)
  <2>1. CASE x = t
    <3>1. toggle'[x] = [r EXCEPT !.step = step]
      BY <2>1 DEF Effect
    <3>2. toggle'[x] \in Toggle /\ toggle'[x].step = step /\ toggle'[x].tab = toggle[x].tab
      BY <1>1, <2>1, <3>1 DEF Toggle
    <3>3. QED
      BY <2>1, <3>2
  <2>2. CASE x # t /\ toggle'[x] # toggle[x]
    <3>1. toggle[x] # Nothing /\ toggle'[x] = [toggle[x] EXCEPT !.step = "gone"]
      BY <2>2 DEF Effect
    <3>2. toggle'[x] \in Toggle /\ toggle'[x].step = "gone" /\ toggle'[x].tab = toggle[x].tab
      BY <1>1, <3>1 DEF Toggle
    <3>3. QED
      BY <3>1, <3>2
  <2>3. CASE x # t /\ toggle'[x] = toggle[x]
    <3>1. toggle'[x] \in Toggle \cup {Nothing}
      BY <1>1, <2>3
    <3>2. ASSUME toggle[x] # Nothing, toggle[x].step = "present", Outcome(r) = "deleted",
                 TheRow(toggle[x]) = TheRow(r)
          PROVE  FALSE
      <4>1. toggle'[x] = [toggle[x] EXCEPT !.step = "gone"]
        BY <2>3, <3>2 DEF Effect
      <4>2. toggle'[x].step = "gone"
        BY <1>1, <3>2, <4>1 DEF Toggle
      <4>3. QED
        BY <2>3, <3>2, <4>2
    <3>3. QED
      BY <2>3, <3>1, <3>2
  <2>4. QED
    BY <2>1, <2>2, <2>3
<1>4. FoundIsThere'
  <2>1. ASSUME NEW x \in Toggles, toggle'[x] # Nothing, toggle'[x].step = "present"
        PROVE  TheRow(toggle'[x]) \in rows'
    <3>1. toggle'[x] = toggle[x] /\ TheRow(toggle[x]) \in rows
      BY <1>3, <2>1 DEF VotesInv, FoundIsThere
    <3>2. rows \ {TheRow(r)} \subseteq rows' /\ (Outcome(r) # "deleted" => rows \subseteq rows')
      BY DEF Effect
    <3>3. QED
      BY <1>3, <2>1, <3>1, <3>2
  <2>2. QED
    BY <2>1 DEF FoundIsThere, TheRow
<1>5. toggle' \in [Toggles -> Toggle \cup {Nothing}]
  <2>1. toggle' = [x \in Toggles |-> toggle'[x]]
    BY DEF Effect
  <2>2. QED
    BY <1>3, <2>1
<1>6. QED
  BY <1>2, <1>3, <1>4, <1>5

-----------------------------------------------------------------------------
LEMMA VotesInit == Init => VotesInv
<1> SUFFICES ASSUME Init PROVE VotesInv
  OBVIOUS
<1> USE UpvotesAssumption
<1>1. \A i \in Issues : Surplus[i] + Cardinality(Voters(i)) \in Nat
  BY VotersFinite
<1>2. upvotes \in [Issues -> Nat]
  BY <1>1 DEF Init
<1>3. TypeOK
  BY <1>2 DEF Init, TypeOK
<1>4. CounterIsVotes
  BY DEF Init, CounterIsVotes
<1>5. FoundIsThere /\ ViewsCounted /\ ClickedIsShown
  BY DEF Init, FoundIsThere, ViewsCounted, ClickedIsShown
<1>6. QED
  BY <1>3, <1>4, <1>5 DEF VotesInv

LEMMA VotesStep ==
    ASSUME VotesInv, [Next]_vars
    PROVE  VotesInv'
<1> USE UpvotesAssumption, NothingAssumption
<1>1. /\ rows \subseteq Issues \X Users /\ upvotes \in [Issues -> Nat]
      /\ toggle \in [Toggles -> Toggle \cup {Nothing}]
      /\ get \in [Gets -> Get \cup {Nothing}]
      /\ shown \in [Tabs -> View \cup {Nothing}]
      /\ clicks \in 0..MaxClicks /\ faults \in 0..MaxFaults
      /\ calm \subseteq Tabs /\ had \in [Tabs -> SUBSET Issues]
      /\ CounterIsVotes /\ FoundIsThere /\ ViewsCounted /\ ClickedIsShown
  BY DEF VotesInv, TypeOK
<1>2. ASSUME UNCHANGED ledger
      PROVE  rows' = rows /\ upvotes' = upvotes /\ CounterIsVotes'
  BY <1>1, <1>2 DEF ledger, CounterIsVotes, Voters
<1>3. ASSUME UNCHANGED tabs
      PROVE  /\ shown' = shown /\ calm' = calm /\ had' = had
             /\ ViewsCounted'
  BY <1>1, <1>3 DEF tabs, ViewsCounted, Counted
<1>4. ASSUME NEW b \in Tabs, NEW i \in Issues, NEW t \in Toggles, Click(b, i, t)
      PROVE  VotesInv'
  <2>1. /\ UNCHANGED <<ledger, had, faults>> /\ clicks < MaxClicks /\ clicks' = clicks + 1
        /\ shown[b] # Nothing /\ shown' = [shown EXCEPT ![b] = Flip(shown[b], i)]
        /\ toggle' = [toggle EXCEPT ![t] = [tab |-> b, issue |-> i, step |-> "sent"]]
        /\ calm' = IF Idle THEN calm \cap {b} ELSE {}
    BY <1>4 DEF Click
  <2>2. shown[b] \in View /\ Counted(shown[b])
    BY <1>1, <2>1 DEF ViewsCounted
  <2>3. Flip(shown[b], i) \in View /\ Counted(Flip(shown[b], i))
    BY <2>2, FlipKeeps
  <2>4. shown' \in [Tabs -> View \cup {Nothing}] /\ ViewsCounted'
    BY <1>1, <2>1, <2>3 DEF ViewsCounted, Counted
  <2>5. get' \in [Gets -> Get \cup {Nothing}]
    <3>1. get' = [g \in Gets |-> IF get[g] = Nothing THEN Nothing
                                 ELSE [get[g] EXCEPT !.alone = FALSE]]
      BY <1>4 DEF Click
    <3>2. \A g \in Gets : get[g] # Nothing => [get[g] EXCEPT !.alone = FALSE] \in Get
      BY <1>1 DEF Get
    <3>3. QED
      BY <3>1, <3>2
  <2>6. [tab |-> b, issue |-> i, step |-> "sent"] \in Toggle
    BY DEF Toggle
  <2>7. toggle' \in [Toggles -> Toggle \cup {Nothing}]
    BY <1>1, <2>1, <2>6
  <2>8. FoundIsThere'
    <3>1. \A x \in Toggles : toggle'[x] # Nothing /\ toggle'[x].step = "present" =>
            toggle'[x] = toggle[x]
      BY <1>1, <2>1
    <3>2. QED
      BY <1>1, <1>2, <2>1, <3>1 DEF FoundIsThere, TheRow
  <2>9. ClickedIsShown'
    <3>1. ASSUME NEW x \in Toggles, toggle'[x] # Nothing
          PROVE  shown'[toggle'[x].tab] # Nothing
      <4>1. CASE x = t
        <5>1. toggle'[x].tab = b
          BY <1>1, <2>1, <4>1
        <5>2. shown'[b] = Flip(shown[b], i)
          BY <1>1, <2>1
        <5>3. QED
          BY <2>3, <5>1, <5>2
      <4>2. CASE x # t
        <5>1. toggle'[x] = toggle[x] /\ shown[toggle[x].tab] # Nothing
          BY <1>1, <2>1, <3>1, <4>2 DEF ClickedIsShown
        <5>2. CASE toggle[x].tab = b
          BY <1>1, <2>1, <2>3, <5>1, <5>2
        <5>3. CASE toggle[x].tab # b
          BY <1>1, <2>1, <5>1, <5>3
        <5>4. QED
          BY <5>2, <5>3
      <4>3. QED
        BY <4>1, <4>2
    <3>2. QED
      BY <3>1 DEF ClickedIsShown
  <2>10. QED
    BY <1>1, <1>2, <2>1, <2>4, <2>5, <2>7, <2>8, <2>9 DEF VotesInv, TypeOK
<1>5. ASSUME NEW t \in Toggles, Snapshot(t)
      PROVE  VotesInv'
  <2>1. toggle[t] \in Toggle /\ UNCHANGED <<ledger, get, tabs, clicks, faults>>
    BY <1>1, <1>5 DEF Snapshot
  <2>2. PICK step \in {"present", "absent"} :
          /\ step = "present" => TheRow(toggle[t]) \in rows
          /\ toggle' = [toggle EXCEPT ![t] = [toggle[t] EXCEPT !.step = step]]
    BY <1>5 DEF Snapshot
  <2>3. [toggle[t] EXCEPT !.step = step] \in Toggle
        /\ TheRow([toggle[t] EXCEPT !.step = step]) = TheRow(toggle[t])
        /\ [toggle[t] EXCEPT !.step = step].step = step
        /\ [toggle[t] EXCEPT !.step = step].tab = toggle[t].tab
    BY <2>1 DEF Toggle, TheRow
  <2>4. toggle' \in [Toggles -> Toggle \cup {Nothing}]
    BY <1>1, <2>2, <2>3
  <2>5. FoundIsThere'
    <3>1. ASSUME NEW x \in Toggles, toggle'[x] # Nothing, toggle'[x].step = "present"
          PROVE  TheRow(toggle'[x]) \in rows
      <4>1. CASE x = t
        BY <1>1, <2>2, <2>3, <3>1, <4>1
      <4>2. CASE x # t
        BY <1>1, <2>2, <3>1, <4>2 DEF FoundIsThere
      <4>3. QED
        BY <4>1, <4>2
    <3>2. QED
      BY <1>2, <2>1, <3>1 DEF FoundIsThere, TheRow
  <2>6. \A x \in Toggles : toggle'[x] # Nothing =>
          toggle[x] # Nothing /\ toggle'[x].tab = toggle[x].tab
    BY <1>1, <2>1, <2>2, <2>3
  <2>7. ClickedIsShown'
    BY <1>1, <1>3, <2>1, <2>6, ClickedStaysShown
  <2>8. QED
    BY <1>1, <1>2, <1>3, <2>1, <2>4, <2>5, <2>7 DEF VotesInv, TypeOK
<1>6. ASSUME NEW t \in Toggles, Execute(t)
      PROVE  VotesInv'
  <2>1. /\ toggle[t] # Nothing /\ toggle[t].step \in {"absent", "present", "gone"}
        /\ UNCHANGED <<get, tabs, clicks, faults>>
    BY <1>6 DEF Execute
  <2>2. CASE Outcome(toggle[t]) = "conflict"
    <3>1. UNCHANGED ledger /\ toggle' = [toggle EXCEPT ![t] = [toggle[t] EXCEPT !.step = "failed"]]
      BY <1>6, <2>2 DEF Execute
    <3>2. [toggle[t] EXCEPT !.step = "failed"] \in Toggle
          /\ [toggle[t] EXCEPT !.step = "failed"].step = "failed"
          /\ [toggle[t] EXCEPT !.step = "failed"].tab = toggle[t].tab
      BY <1>1, <2>1 DEF Toggle
    <3>3. toggle' \in [Toggles -> Toggle \cup {Nothing}]
      BY <1>1, <3>1, <3>2
    <3>4. \A x \in Toggles : toggle'[x] # Nothing /\ toggle'[x].step = "present" =>
            toggle'[x] = toggle[x]
      BY <1>1, <3>1, <3>2
    <3>5. FoundIsThere'
      BY <1>1, <1>2, <3>1, <3>4 DEF FoundIsThere, TheRow
    <3>6. \A x \in Toggles : toggle'[x] # Nothing =>
            toggle[x] # Nothing /\ toggle'[x].tab = toggle[x].tab
      BY <1>1, <2>1, <3>1, <3>2
    <3>7. ClickedIsShown'
      BY <1>1, <1>3, <2>1, <3>6, ClickedStaysShown
    <3>8. QED
      BY <1>1, <1>2, <1>3, <2>1, <3>1, <3>3, <3>5, <3>7 DEF VotesInv, TypeOK
  <2>3. CASE Outcome(toggle[t]) # "conflict"
    <3>1. Effect(t, "ok")
      BY <1>6, <2>3 DEF Execute
    <3>2. /\ rows' \subseteq Issues \X Users /\ upvotes' \in [Issues -> Nat]
          /\ toggle' \in [Toggles -> Toggle \cup {Nothing}]
          /\ CounterIsVotes' /\ FoundIsThere'
          /\ \A x \in Toggles : toggle'[x] # Nothing =>
               toggle[x] # Nothing /\ toggle'[x].tab = toggle[x].tab
      BY <2>1, <2>3, <3>1, EffectKeeps
    <3>3. ClickedIsShown'
      BY <1>1, <1>3, <2>1, <3>2, ClickedStaysShown
    <3>4. QED
      BY <1>1, <1>3, <2>1, <3>2, <3>3 DEF VotesInv, TypeOK
  <2>4. QED
    BY <2>2, <2>3
<1>7. ASSUME NEW t \in Toggles, FailToggle(t)
      PROVE  VotesInv'
  <2>1. /\ toggle[t] # Nothing /\ toggle[t] \in Toggle
        /\ faults' \in 0..MaxFaults /\ UNCHANGED <<get, shown, had, clicks>>
    BY <1>1, <1>7 DEF FailToggle, Fault
  <2>2. ViewsCounted'
    BY <1>1, <2>1 DEF ViewsCounted, Counted
  <2>3. CASE /\ toggle' = [toggle EXCEPT ![t] = [toggle[t] EXCEPT !.step = "failed"]]
             /\ UNCHANGED <<ledger, calm>>
    <3>1. [toggle[t] EXCEPT !.step = "failed"] \in Toggle
          /\ [toggle[t] EXCEPT !.step = "failed"].step = "failed"
          /\ [toggle[t] EXCEPT !.step = "failed"].tab = toggle[t].tab
      BY <2>1 DEF Toggle
    <3>2. toggle' \in [Toggles -> Toggle \cup {Nothing}]
      BY <1>1, <2>3, <3>1
    <3>3. \A x \in Toggles : toggle'[x] # Nothing /\ toggle'[x].step = "present" =>
            toggle'[x] = toggle[x]
      BY <1>1, <2>3, <3>1
    <3>4. FoundIsThere'
      BY <1>1, <1>2, <2>3, <3>3 DEF FoundIsThere, TheRow
    <3>5. \A x \in Toggles : toggle'[x] # Nothing =>
            toggle[x] # Nothing /\ toggle'[x].tab = toggle[x].tab
      BY <1>1, <2>1, <2>3, <3>1
    <3>6. ClickedIsShown'
      BY <1>1, <2>1, <3>5, ClickedStaysShown
    <3>7. QED
      BY <1>1, <1>2, <2>1, <2>2, <2>3, <3>2, <3>4, <3>6 DEF VotesInv, TypeOK
  <2>4. CASE /\ toggle[t].step \in {"absent", "present", "gone"}
             /\ Outcome(toggle[t]) # "conflict" /\ Effect(t, "failed") /\ calm' = {}
    <3>1. /\ rows' \subseteq Issues \X Users /\ upvotes' \in [Issues -> Nat]
          /\ toggle' \in [Toggles -> Toggle \cup {Nothing}]
          /\ CounterIsVotes' /\ FoundIsThere'
          /\ \A x \in Toggles : toggle'[x] # Nothing =>
               toggle[x] # Nothing /\ toggle'[x].tab = toggle[x].tab
      BY <2>1, <2>4, EffectKeeps
    <3>2. ClickedIsShown'
      BY <1>1, <2>1, <3>1, ClickedStaysShown
    <3>3. QED
      BY <1>1, <2>1, <2>2, <2>4, <3>1, <3>2 DEF VotesInv, TypeOK
  <2>5. QED
    BY <1>7, <2>3, <2>4 DEF FailToggle
<1>8. ASSUME NEW t \in Toggles, Answer(t)
      PROVE  VotesInv'
  <2> DEFINE r == toggle[t]
  <2>1. /\ r \in Toggle /\ r.tab \in Tabs /\ r.issue \in Issues
        /\ toggle' = [toggle EXCEPT ![t] = Nothing]
        /\ UNCHANGED <<ledger, get, calm, had, clicks, faults>>
    BY <1>1, <1>8 DEF Answer, Toggle
  <2>2. toggle' \in [Toggles -> Toggle \cup {Nothing}]
    BY <1>1, <2>1
  <2>3. \A x \in Toggles : toggle'[x] # Nothing => toggle'[x] = toggle[x]
    BY <1>1, <2>1
  <2>4. FoundIsThere'
    BY <1>1, <1>2, <2>1, <2>3 DEF FoundIsThere, TheRow
  <2>5. /\ shown' \in [Tabs -> View \cup {Nothing}] /\ ViewsCounted'
        /\ \A b \in Tabs : shown[b] # Nothing => shown'[b] # Nothing
    <3>1. CASE r.step = "failed"
      <4>1. shown' = [shown EXCEPT ![r.tab] = Flip(shown[r.tab], r.issue)]
        BY <1>8, <3>1 DEF Answer, Revert
      <4>2. shown[r.tab] \in View /\ Counted(shown[r.tab])
        BY <1>1, <1>8, <2>1 DEF Answer, ClickedIsShown, ViewsCounted
      <4>3. Flip(shown[r.tab], r.issue) \in View /\ Counted(Flip(shown[r.tab], r.issue))
        BY <2>1, <4>2, FlipKeeps
      <4>4. QED
        BY <1>1, <2>1, <4>1, <4>3 DEF ViewsCounted, Counted
    <3>2. CASE r.step # "failed"
      <4>1. shown' = shown
        BY <1>8, <3>2 DEF Answer
      <4>2. QED
        BY <1>1, <4>1 DEF ViewsCounted, Counted
    <3>3. QED
      BY <3>1, <3>2
  <2>6. ClickedIsShown'
    <3>1. \A x \in Toggles : toggle[x] # Nothing => toggle[x].tab \in Tabs
      BY <1>1 DEF Toggle
    <3>2. QED
      BY <1>1, <2>3, <2>5, <3>1, ClickedStaysShown
  <2>7. QED
    BY <1>1, <1>2, <2>1, <2>2, <2>4, <2>5, <2>6 DEF VotesInv, TypeOK
<1>9. ASSUME UNCHANGED <<ledger, toggle, clicks>>, faults' \in 0..MaxFaults,
             get' \in [Gets -> Get \cup {Nothing}],
             shown' \in [Tabs -> View \cup {Nothing}], ViewsCounted',
             \A b \in Tabs : shown[b] # Nothing => shown'[b] # Nothing,
             calm' \subseteq Tabs, had' \in [Tabs -> SUBSET Issues]
      PROVE  VotesInv'
  <2>1. ClickedIsShown'
    <3>1. \A x \in Toggles : toggle[x] # Nothing => toggle[x].tab \in Tabs
      BY <1>1 DEF Toggle
    <3>2. QED
      BY <1>1, <1>9, <3>1, ClickedStaysShown
  <2>2. FoundIsThere'
    BY <1>1, <1>2, <1>9 DEF FoundIsThere, TheRow
  <2>3. QED
    BY <1>1, <1>2, <1>9, <2>1, <2>2 DEF VotesInv, TypeOK
<1>10. ASSUME NEW b \in Tabs, NEW g \in Gets, AskList(b, g)
       PROVE  VotesInv'
  <2>1. [tab |-> b, alone |-> Idle, list |-> Nothing] \in Get
    BY DEF Get, Idle
  <2>2. get' \in [Gets -> Get \cup {Nothing}] /\ UNCHANGED <<ledger, toggle, tabs, clicks, faults>>
    BY <1>1, <1>10, <2>1 DEF AskList
  <2>3. QED
    BY <1>1, <1>3, <1>9, <2>2
<1>11. ASSUME NEW g \in Gets, ReadList(g)
       PROVE  VotesInv'
  <2> DEFINE list == [votes |-> upvotes, is_upvoted |-> VotesOf(Owner[get[g].tab])]
  <2>1. get[g] \in Get /\ UNCHANGED <<ledger, toggle, tabs, clicks, faults>>
        /\ get' = [get EXCEPT ![g] = [get[g] EXCEPT !.list = list]]
    BY <1>1, <1>11 DEF ReadList
  <2>2. list \in List
    BY <1>1 DEF List, VotesOf
  <2>3. [get[g] EXCEPT !.list = list] \in Get
    BY <2>1, <2>2 DEF Get
  <2>4. get' \in [Gets -> Get \cup {Nothing}]
    BY <1>1, <2>1, <2>3
  <2>5. QED
    BY <1>1, <1>3, <1>9, <2>1, <2>4
<1>12. ASSUME NEW g \in Gets, ShowList(g)
       PROVE  VotesInv'
  <2> DEFINE r == get[g]
  <2>1. /\ r \in Get /\ r.tab \in Tabs /\ r.list \in List
        /\ get' = [get EXCEPT ![g] = Nothing]
        /\ shown' = [shown EXCEPT ![r.tab] = Mapped(r.list)]
        /\ calm' = IF r.alone THEN calm \cup {r.tab} ELSE calm \ {r.tab}
        /\ had' = [had EXCEPT ![r.tab] = r.list.is_upvoted]
        /\ UNCHANGED <<ledger, toggle, clicks, faults>>
    BY <1>1, <1>12 DEF ShowList, Get
  <2>2. Mapped(r.list) \in View /\ Counted(Mapped(r.list)) /\ r.list.is_upvoted \in SUBSET Issues
    BY <2>1 DEF Mapped, has_upvoted, List, View, Counted
  <2>3. shown' \in [Tabs -> View \cup {Nothing}] /\ ViewsCounted'
        /\ \A b \in Tabs : shown[b] # Nothing => shown'[b] # Nothing
    BY <1>1, <2>1, <2>2 DEF ViewsCounted, Counted
  <2>4. get' \in [Gets -> Get \cup {Nothing}] /\ calm' \subseteq Tabs
        /\ had' \in [Tabs -> SUBSET Issues]
    BY <1>1, <2>1, <2>2
  <2>5. QED
    BY <1>1, <1>9, <2>1, <2>3, <2>4
<1>13. ASSUME NEW g \in Gets, FailList(g)
       PROVE  VotesInv'
  <2>1. /\ get' = [get EXCEPT ![g] = Nothing] /\ faults' \in 0..MaxFaults
        /\ UNCHANGED <<ledger, toggle, tabs, clicks>>
    BY <1>1, <1>13 DEF FailList, Fault
  <2>2. get' \in [Gets -> Get \cup {Nothing}]
    BY <1>1, <2>1
  <2>3. QED
    BY <1>1, <1>3, <1>9, <2>1, <2>2
<1>14. ASSUME UNCHANGED vars
       PROVE  VotesInv'
  BY <1>1, <1>3, <1>9, <1>14 DEF vars
<1>15. QED
  BY <1>4, <1>5, <1>6, <1>7, <1>8, <1>10, <1>11, <1>12, <1>13, <1>14 DEF Next

\* The type invariant.  That no counter drops below zero rests on the other
\* parts of VotesInv.
THEOREM TypeCorrect == Spec => []TypeOK
<1>1. VotesInv => TypeOK
  BY DEF VotesInv
<1>2. QED
  BY <1>1, VotesInit, VotesStep, PTL DEF Spec

\* The counter is the number of votes, however statements overlap and fail.
THEOREM CountersAreVotes == Spec => []CounterIsVotes
<1>1. VotesInv => CounterIsVotes
  BY DEF VotesInv
<1>2. QED
  BY <1>1, VotesInit, VotesStep, PTL DEF Spec

-----------------------------------------------------------------------------
\* Every step of the requests is a step of the ledger, or none.
LEMMA LedgerStep ==
    ASSUME VotesInv, [Next]_vars
    PROVE  [OneVoteAtATime!Next]_(OneVoteAtATime!ledger)
<1> USE UpvotesAssumption, NothingAssumption
<1>1. CASE UNCHANGED ledger
  BY <1>1 DEF ledger, OneVoteAtATime!ledger
<1>2. ASSUME NEW t \in Toggles, NEW step, toggle[t] # Nothing, Effect(t, step),
             toggle[t].step \in {"absent", "present", "gone"},
             Outcome(toggle[t]) # "conflict"
      PROVE  [OneVoteAtATime!Next]_(OneVoteAtATime!ledger)
  <2>1. toggle[t].issue \in Issues /\ Owner[toggle[t].tab] \in Users
    BY <1>2 DEF VotesInv, TypeOK, Toggle
  <2>2. \/ UNCHANGED ledger
        \/ OneVoteAtATime!Vote(toggle[t].issue, Owner[toggle[t].tab])
        \/ OneVoteAtATime!Withdraw(toggle[t].issue, Owner[toggle[t].tab])
    BY <1>2, EffectIsOneVote
  <2>3. QED
    BY <1>1, <2>1, <2>2 DEF OneVoteAtATime!Next
<1>3. ASSUME NEW t \in Toggles, Execute(t)
      PROVE  [OneVoteAtATime!Next]_(OneVoteAtATime!ledger)
  BY <1>1, <1>2, <1>3 DEF Execute
<1>4. ASSUME NEW t \in Toggles, FailToggle(t)
      PROVE  [OneVoteAtATime!Next]_(OneVoteAtATime!ledger)
  BY <1>1, <1>2, <1>4 DEF FailToggle
<1>5. CASE \/ \E b \in Tabs, i \in Issues, t \in Toggles : Click(b, i, t)
           \/ \E t \in Toggles : Snapshot(t) \/ Answer(t)
           \/ \E b \in Tabs, g \in Gets : AskList(b, g)
           \/ \E g \in Gets : ReadList(g) \/ ShowList(g) \/ FailList(g)
           \/ UNCHANGED vars
  <2>1. UNCHANGED ledger
    BY <1>5 DEF Click, Snapshot, Answer, AskList, ReadList, ShowList, FailList, vars
  <2>2. QED
    BY <1>1, <2>1
<1>6. QED
  BY <1>3, <1>4, <1>5 DEF Next

\* The statements implement the ledger: seen from the database, votes are cast
\* and withdrawn one at a time.
THEOREM ImplementsLedger == Spec => Ledger
<1>1. Init => OneVoteAtATime!Init
  BY VotesInit DEF Init, VotesInv, TypeOK, OneVoteAtATime!Init
<1>2. VotesInv /\ [Next]_vars => [OneVoteAtATime!Next]_(OneVoteAtATime!ledger)
  BY LedgerStep
<1>3. QED
  BY <1>1, <1>2, VotesInit, VotesStep, PTL DEF Spec, Ledger, OneVoteAtATime!Spec

-----------------------------------------------------------------------------
\* Why a quiet tab ends up right: while its click is under way, the tab is one
\* toggle ahead of the database, and the statement or the revert closes the gap.

\* A click on an issue is in flight that the database and the tab see apart.
Pending(i) ==
    \E t \in Toggles : toggle[t] # Nothing /\ toggle[t].issue = i /\ toggle[t].step # "ok"

Agrees(b, i) ==
    /\ shown[b].votes[i] = upvotes[i]
    /\ i \in shown[b].upvotedIds <=> i \in VotesOf(Owner[b])
Ahead(b, i) ==
    /\ shown[b].votes[i] = IF i \in VotesOf(Owner[b]) THEN upvotes[i] - 1 ELSE upvotes[i] + 1
    /\ i \in shown[b].upvotedIds <=> i \notin VotesOf(Owner[b])

\* A list that no click has overlapped with is what the database holds.
AloneIsCurrent ==
    \A g \in Gets : get[g] # Nothing /\ get[g].alone =>
      /\ Idle
      /\ get[g].list # Nothing =>
           get[g].list = [votes |-> upvotes, is_upvoted |-> VotesOf(Owner[get[g].tab])]

\* A click in flight beside a quiet tab is that tab's, the only one, and its
\* snapshot is still true.
CalmIsAlone ==
    \A b \in calm, t \in Toggles : toggle[t] # Nothing =>
      /\ toggle[t].tab = b /\ toggle[t].step # "gone"
      /\ toggle[t].step = "absent" => TheRow(toggle[t]) \notin rows
      /\ \A s \in Toggles : toggle[s] # Nothing => s = t

CalmFollows ==
    \A b \in calm :
      /\ shown[b] # Nothing
      /\ \A i \in Issues \ had[b] : IF Pending(i) THEN Ahead(b, i) ELSE Agrees(b, i)

QuietInv == AloneIsCurrent /\ CalmIsAlone /\ CalmFollows

\* The optimistic update takes a tab that agrees one toggle ahead, its revert
\* takes it back, and neither touches the other issues.
LEMMA FlipMoves ==
    ASSUME NEW b \in Tabs, NEW i \in Issues, shown \in [Tabs -> View \cup {Nothing}],
           shown[b] \in View, upvotes \in [Issues -> Nat], UNCHANGED ledger,
           shown' = [shown EXCEPT ![b] = Flip(shown[b], i)]
    PROVE  /\ Agrees(b, i) => Ahead(b, i)'
           /\ Ahead(b, i) => Agrees(b, i)'
           /\ \A j \in Issues : j # i => (Agrees(b, j) => Agrees(b, j)')
<1> DEFINE v == shown[b]
<1>1. v.votes \in [Issues -> Nat] /\ v.upvotedIds \subseteq Issues
  BY DEF View
<1>2. rows' = rows /\ upvotes' = upvotes /\ \A u : VotesOf(u)' = VotesOf(u)
  BY DEF ledger, VotesOf
<1>3. shown'[b] = Flip(v, i)
  OBVIOUS
<1>4. v.votes[i] \in Nat /\ upvotes[i] \in Nat
  BY <1>1
<1>5. CASE i \in v.upvotedIds
  <2>1. /\ shown'[b].votes = [v.votes EXCEPT ![i] = @ - 1]
        /\ shown'[b].upvotedIds = v.upvotedIds \ {i}
    BY <1>3, <1>5 DEF Flip
  <2>2. shown'[b].votes[i] = v.votes[i] - 1 /\ i \notin shown'[b].upvotedIds
    BY <1>1, <2>1
  <2>3. \A j \in Issues : j # i => /\ shown'[b].votes[j] = v.votes[j]
                                   /\ j \in shown'[b].upvotedIds <=> j \in v.upvotedIds
    BY <1>1, <2>1
  <2>4. \A j \in Issues : j # i => (Agrees(b, j) => Agrees(b, j)')
    BY <1>2, <2>3 DEF Agrees
  <2>5. Agrees(b, i) => Ahead(b, i)'
    BY <1>2, <1>4, <1>5, <2>2 DEF Agrees, Ahead
  <2>6. Ahead(b, i) => Agrees(b, i)'
    BY <1>2, <1>4, <1>5, <2>2 DEF Agrees, Ahead
  <2>7. QED
    BY <2>4, <2>5, <2>6
<1>6. CASE i \notin v.upvotedIds
  <2>1. /\ shown'[b].votes = [v.votes EXCEPT ![i] = @ + 1]
        /\ shown'[b].upvotedIds = v.upvotedIds \cup {i}
    BY <1>3, <1>6 DEF Flip
  <2>2. shown'[b].votes[i] = v.votes[i] + 1 /\ i \in shown'[b].upvotedIds
    BY <1>1, <2>1
  <2>3. \A j \in Issues : j # i => /\ shown'[b].votes[j] = v.votes[j]
                                   /\ j \in shown'[b].upvotedIds <=> j \in v.upvotedIds
    BY <1>1, <2>1
  <2>4. \A j \in Issues : j # i => (Agrees(b, j) => Agrees(b, j)')
    BY <1>2, <2>3 DEF Agrees
  <2>5. Agrees(b, i) => Ahead(b, i)'
    BY <1>2, <1>4, <1>6, <2>2 DEF Agrees, Ahead
  <2>6. Ahead(b, i) => Agrees(b, i)'
    BY <1>2, <1>4, <1>6, <2>2 DEF Agrees, Ahead
  <2>7. QED
    BY <2>4, <2>5, <2>6
<1>7. QED
  BY <1>5, <1>6

\* A vote of a tab's owner, or its withdrawal, brings the database level with a
\* tab that is ahead on that issue, and keeps it level on the others.
LEMMA EffectCatchesUp ==
    ASSUME VotesInv, NEW b \in Tabs, NEW i \in Issues, shown' = shown,
           \/ OneVoteAtATime!Vote(i, Owner[b]) \/ OneVoteAtATime!Withdraw(i, Owner[b])
    PROVE  /\ Ahead(b, i) => Agrees(b, i)'
           /\ \A j \in Issues : j # i => (Agrees(b, j) => Agrees(b, j)')
<1>1. upvotes \in [Issues -> Nat]
  BY DEF VotesInv, TypeOK
<1>2. CASE OneVoteAtATime!Vote(i, Owner[b])
  <2>1. /\ <<i, Owner[b]>> \notin rows /\ rows' = rows \cup {<<i, Owner[b]>>}
        /\ upvotes' = [upvotes EXCEPT ![i] = @ + 1]
    BY <1>2 DEF OneVoteAtATime!Vote
  <2>2. /\ i \notin VotesOf(Owner[b]) /\ i \in VotesOf(Owner[b])'
        /\ \A j \in Issues : j # i => (j \in VotesOf(Owner[b])' <=> j \in VotesOf(Owner[b]))
    BY <2>1 DEF VotesOf
  <2>3. upvotes'[i] = upvotes[i] + 1 /\ \A j \in Issues : j # i => upvotes'[j] = upvotes[j]
    BY <1>1, <2>1
  <2>4. QED
    BY <2>2, <2>3 DEF Ahead, Agrees
<1>3. CASE OneVoteAtATime!Withdraw(i, Owner[b])
  <2>1. /\ <<i, Owner[b]>> \in rows /\ rows' = rows \ {<<i, Owner[b]>>}
        /\ upvotes' = [upvotes EXCEPT ![i] = @ - 1]
    BY <1>3 DEF OneVoteAtATime!Withdraw
  <2>2. /\ i \in VotesOf(Owner[b]) /\ i \notin VotesOf(Owner[b])'
        /\ \A j \in Issues : j # i => (j \in VotesOf(Owner[b])' <=> j \in VotesOf(Owner[b]))
    BY <2>1 DEF VotesOf
  <2>3. upvotes'[i] = upvotes[i] - 1 /\ \A j \in Issues : j # i => upvotes'[j] = upvotes[j]
    BY <1>1, <2>1
  <2>4. QED
    BY <2>2, <2>3 DEF Ahead, Agrees
<1>4. QED
  BY <1>2, <1>3

\* A step that leaves the database, the tabs and which clicks are pending alone
\* keeps the tabs where they are.
LEMMA FollowsStays ==
    ASSUME CalmFollows, UNCHANGED ledger, shown' = shown, had' = had, calm' \subseteq calm,
           \A i : Pending(i)' <=> Pending(i)
    PROVE  CalmFollows'
<1>1. rows' = rows /\ upvotes' = upvotes
  BY DEF ledger
<1>2. \A b, i : (Agrees(b, i)' <=> Agrees(b, i)) /\ (Ahead(b, i)' <=> Ahead(b, i))
  BY <1>1 DEF Agrees, Ahead, VotesOf
<1>3. QED
  BY <1>2 DEF CalmFollows

\* With a click in flight, no list under way is alone.
LEMMA BusyIsNotAlone ==
    ASSUME AloneIsCurrent, NEW t \in Toggles, toggle[t] # Nothing, get' = get
    PROVE  AloneIsCurrent'
BY DEF AloneIsCurrent, Idle

LEMMA QuietStep ==
    ASSUME VotesInv, VotesInv', QuietInv, [Next]_vars
    PROVE  QuietInv'
<1> USE UpvotesAssumption, NothingAssumption
<1>1. /\ upvotes \in [Issues -> Nat] /\ toggle \in [Toggles -> Toggle \cup {Nothing}]
      /\ get \in [Gets -> Get \cup {Nothing}] /\ shown \in [Tabs -> View \cup {Nothing}]
      /\ calm \subseteq Tabs /\ had \in [Tabs -> SUBSET Issues]
      /\ ClickedIsShown /\ AloneIsCurrent /\ CalmIsAlone /\ CalmFollows
  BY DEF VotesInv, TypeOK, QuietInv
<1>2. \A x \in Toggles : toggle[x] # Nothing =>
        toggle[x] \in Toggle /\ toggle[x].tab \in Tabs /\ toggle[x].issue \in Issues
  BY <1>1 DEF Toggle
<1>3. ASSUME UNCHANGED tabs
      PROVE  shown' = shown /\ calm' = calm /\ had' = had
  BY <1>3 DEF tabs
<1>4. ASSUME NEW b \in Tabs, NEW i \in Issues, NEW t \in Toggles, Click(b, i, t)
      PROVE  QuietInv'
  <2>1. /\ shown[b] # Nothing /\ shown' = [shown EXCEPT ![b] = Flip(shown[b], i)]
        /\ toggle[t] = Nothing
        /\ toggle' = [toggle EXCEPT ![t] = [tab |-> b, issue |-> i, step |-> "sent"]]
        /\ calm' = IF Idle THEN calm \cap {b} ELSE {}
        /\ UNCHANGED <<ledger, had>>
    BY <1>4 DEF Click
  <2>2. AloneIsCurrent'
    <3>1. get' = [g \in Gets |-> IF get[g] = Nothing THEN Nothing
                                 ELSE [get[g] EXCEPT !.alone = FALSE]]
      BY <1>4 DEF Click
    <3>2. \A g \in Gets : get[g] # Nothing => ~[get[g] EXCEPT !.alone = FALSE].alone
      BY <1>1 DEF Get
    <3>3. \A g \in Gets : get'[g] # Nothing => ~get'[g].alone
      BY <3>1, <3>2
    <3>4. QED
      BY <3>3 DEF AloneIsCurrent
  <2>3. CASE ~Idle
    BY <2>1, <2>2, <2>3 DEF QuietInv, CalmIsAlone, CalmFollows
  <2>4. CASE Idle
    <3>1. \A x \in Toggles : toggle'[x] # Nothing =>
            x = t /\ toggle'[x] = [tab |-> b, issue |-> i, step |-> "sent"]
      BY <1>1, <2>1, <2>4 DEF Idle
    <3>2. calm' \subseteq {b} /\ calm' \subseteq calm
      BY <2>1
    <3>3. CalmIsAlone'
      BY <3>1, <3>2 DEF CalmIsAlone
    <3>4. \A j : ~Pending(j) /\ (Pending(j)' => j = i)
      BY <2>4, <3>1 DEF Pending, Idle
    <3>5. Pending(i)'
      <4>1. toggle'[t] = [tab |-> b, issue |-> i, step |-> "sent"]
        BY <1>1, <2>1
      <4>2. toggle'[t].issue = i /\ toggle'[t].step # "ok" /\ toggle'[t] \in Toggle
        BY <4>1 DEF Toggle
      <4>3. QED
        BY <4>2 DEF Pending
    <3>6. ASSUME b \in calm
          PROVE  /\ shown'[b] # Nothing
                 /\ \A j \in Issues \ had[b] : IF Pending(j)' THEN Ahead(b, j)' ELSE Agrees(b, j)'
      <4>1. shown[b] \in View /\ shown'[b] # Nothing
        BY <1>1, <2>1, FlipKeeps DEF VotesInv, ViewsCounted
      <4>2. \A j \in Issues \ had[b] : Agrees(b, j)
        BY <1>1, <3>4, <3>6 DEF CalmFollows
      <4>3. /\ Agrees(b, i) => Ahead(b, i)'
            /\ \A j \in Issues : j # i => (Agrees(b, j) => Agrees(b, j)')
        BY <1>1, <2>1, <4>1, FlipMoves
      <4>4. QED
        BY <3>4, <3>5, <4>1, <4>2, <4>3
    <3>7. CalmFollows'
      BY <2>1, <3>2, <3>6 DEF CalmFollows
    <3>8. QED
      BY <2>2, <3>3, <3>7 DEF QuietInv
  <2>5. QED
    BY <2>3, <2>4
<1>5. ASSUME NEW t \in Toggles, Snapshot(t)
      PROVE  QuietInv'
  <2>1. toggle[t] # Nothing /\ toggle[t].step = "sent" /\ rows' = rows
        /\ UNCHANGED ledger /\ get' = get /\ UNCHANGED tabs
    BY <1>5 DEF Snapshot, ledger
  <2>2. PICK step \in {"present", "absent"} :
          /\ step = "absent" => TheRow(toggle[t]) \notin rows
          /\ toggle' = [toggle EXCEPT ![t] = [toggle[t] EXCEPT !.step = step]]
    BY <1>5 DEF Snapshot
  <2>3. \A x \in Toggles :
          /\ toggle'[x] # Nothing <=> toggle[x] # Nothing
          /\ toggle[x] # Nothing => /\ toggle'[x].tab = toggle[x].tab
                                    /\ toggle'[x].issue = toggle[x].issue
          /\ x # t => toggle'[x] = toggle[x]
          /\ x = t => toggle'[x].step = step
    BY <1>1, <1>2, <2>1, <2>2 DEF Toggle
  <2>4. \A j : Pending(j)' <=> Pending(j)
    BY <2>1, <2>2, <2>3 DEF Pending
  <2>5. CalmIsAlone'
    BY <1>1, <1>3, <2>1, <2>2, <2>3 DEF CalmIsAlone, TheRow
  <2>6. QED
    BY <1>1, <1>3, <2>1, <2>4, <2>5, FollowsStays, BusyIsNotAlone DEF QuietInv
<1>6. ASSUME NEW t \in Toggles, Execute(t)
      PROVE  QuietInv'
  <2>1. /\ toggle[t] # Nothing /\ toggle[t].step \in {"absent", "present", "gone"}
        /\ get' = get /\ UNCHANGED tabs /\ shown' = shown /\ calm' = calm /\ had' = had
    BY <1>6 DEF Execute, tabs
  <2>2. AloneIsCurrent'
    BY <1>1, <2>1, BusyIsNotAlone
  <2>3. ASSUME NEW b \in calm
        PROVE  /\ toggle[t].tab = b /\ \A s \in Toggles : toggle[s] # Nothing => s = t
               /\ Effect(t, "ok") /\ Outcome(toggle[t]) # "conflict"
               /\ \/ OneVoteAtATime!Vote(toggle[t].issue, Owner[b])
                  \/ OneVoteAtATime!Withdraw(toggle[t].issue, Owner[b])
    <3>1. /\ toggle[t].tab = b /\ \A s \in Toggles : toggle[s] # Nothing => s = t
          /\ toggle[t].step # "gone"
          /\ toggle[t].step = "absent" => TheRow(toggle[t]) \notin rows
      BY <1>1, <2>1 DEF CalmIsAlone
    <3>2. Outcome(toggle[t]) \in {"inserted", "deleted"}
      BY <2>1, <3>1 DEF Outcome
    <3>3. Effect(t, "ok")
      BY <1>6, <3>2 DEF Execute
    <3>4. \/ UNCHANGED ledger
          \/ OneVoteAtATime!Vote(toggle[t].issue, Owner[b])
          \/ OneVoteAtATime!Withdraw(toggle[t].issue, Owner[b])
      BY <2>1, <3>1, <3>2, <3>3, EffectIsOneVote
    <3>5. rows' # rows
      <4>1. toggle[t].step = "present" => TheRow(toggle[t]) \in rows
        BY <2>1 DEF VotesInv, FoundIsThere
      <4>2. QED
        BY <2>1, <3>1, <3>3, <4>1 DEF Effect, Outcome
    <3>6. QED
      BY <3>1, <3>2, <3>3, <3>4, <3>5 DEF ledger
  <2>4. ASSUME NEW b \in calm
        PROVE  \A x \in Toggles : toggle'[x] # Nothing =>
                 x = t /\ toggle'[x].tab = b /\ toggle'[x].step = "ok"
    <3>1. \A x \in Toggles : toggle'[x] # Nothing =>
            toggle[x] # Nothing /\ toggle'[x].tab = toggle[x].tab
      BY <2>1, <2>3, EffectKeeps
    <3>2. toggle'[t] = [toggle[t] EXCEPT !.step = "ok"]
      BY <2>3 DEF Effect
    <3>3. toggle'[t].step = "ok"
      BY <1>2, <2>1, <3>2 DEF Toggle
    <3>4. QED
      BY <2>3, <3>1, <3>3
  <2>5. CalmIsAlone'
    BY <2>1, <2>4 DEF CalmIsAlone
  <2>6. CalmFollows'
    <3>1. ASSUME NEW b \in calm
          PROVE  /\ shown'[b] # Nothing
                 /\ \A j \in Issues \ had[b] : ~Pending(j)' /\ Agrees(b, j)'
      <4>1. PICK i \in Issues : i = toggle[t].issue
        BY <1>2, <2>1
      <4>2. Pending(i) /\ \A j : Pending(j) => j = i
        BY <2>1, <2>3, <4>1 DEF Pending
      <4>3. /\ Ahead(b, i) => Agrees(b, i)'
            /\ \A j \in Issues : j # i => (Agrees(b, j) => Agrees(b, j)')
        BY <1>1, <2>1, <2>3, <4>1, EffectCatchesUp
      <4>4. \A j : ~Pending(j)'
        BY <2>4 DEF Pending
      <4>5. \A j \in Issues \ had[b] : IF j = i THEN Ahead(b, j) ELSE Agrees(b, j)
        BY <1>1, <4>2 DEF CalmFollows
      <4>6. shown'[b] # Nothing
        BY <1>1, <2>1 DEF CalmFollows
      <4>7. QED
        BY <4>3, <4>4, <4>5, <4>6
    <3>2. QED
      BY <2>1, <3>1 DEF CalmFollows
  <2>7. QED
    BY <2>2, <2>5, <2>6 DEF QuietInv
<1>7. ASSUME NEW t \in Toggles, FailToggle(t)
      PROVE  QuietInv'
  <2>1. toggle[t] # Nothing /\ get' = get /\ shown' = shown /\ had' = had
    BY <1>7 DEF FailToggle
  <2>2. AloneIsCurrent'
    BY <1>1, <2>1, BusyIsNotAlone
  <2>3. CASE calm' = {}
    BY <2>2, <2>3 DEF QuietInv, CalmIsAlone, CalmFollows
  <2>4. CASE /\ toggle[t].step \in {"sent", "absent", "present", "gone"}
             /\ toggle' = [toggle EXCEPT ![t] = [toggle[t] EXCEPT !.step = "failed"]]
             /\ UNCHANGED <<ledger, calm>>
    <3>1. \A x \in Toggles :
            /\ toggle'[x] # Nothing <=> toggle[x] # Nothing
            /\ toggle[x] # Nothing => /\ toggle'[x].tab = toggle[x].tab
                                      /\ toggle'[x].issue = toggle[x].issue
            /\ x # t => toggle'[x] = toggle[x]
            /\ x = t => toggle'[x].step = "failed"
      BY <1>1, <1>2, <2>1, <2>4 DEF Toggle
    <3>2. \A j : Pending(j)' <=> Pending(j)
      BY <2>1, <2>4, <3>1 DEF Pending
    <3>3. CalmIsAlone'
      BY <1>1, <2>1, <2>4, <3>1 DEF CalmIsAlone, TheRow, ledger
    <3>4. QED
      BY <1>1, <2>1, <2>2, <2>4, <3>2, <3>3, FollowsStays DEF QuietInv
  <2>5. QED
    BY <1>7, <2>3, <2>4 DEF FailToggle
<1>8. ASSUME NEW t \in Toggles, Answer(t)
      PROVE  QuietInv'
  <2>1. /\ toggle[t] # Nothing /\ toggle[t].step \in {"ok", "failed"}
        /\ toggle' = [toggle EXCEPT ![t] = Nothing]
        /\ UNCHANGED ledger /\ get' = get /\ calm' = calm /\ had' = had
    BY <1>8 DEF Answer
  <2>2. AloneIsCurrent'
    BY <1>1, <2>1, BusyIsNotAlone
  <2>3. \A x \in Toggles : toggle'[x] # Nothing => x # t /\ toggle[x] # Nothing
    BY <1>1, <2>1
  <2>4. ASSUME NEW b \in calm
        PROVE  /\ toggle[t].tab = b
               /\ \A s \in Toggles : toggle[s] # Nothing => s = t
               /\ \A s \in Toggles : toggle'[s] = Nothing
    BY <1>1, <2>1, <2>3 DEF CalmIsAlone
  <2>5. CalmIsAlone'
    BY <2>1, <2>4 DEF CalmIsAlone
  <2>6. CalmFollows'
    <3>1. ASSUME NEW b \in calm
          PROVE  /\ shown'[b] # Nothing
                 /\ \A j \in Issues \ had[b] : ~Pending(j)' /\ Agrees(b, j)'
      <4>1. PICK i \in Issues : i = toggle[t].issue
        BY <1>2, <2>1
      <4>2. \A j : ~Pending(j)'
        BY <2>4 DEF Pending
      <4>3. shown[b] # Nothing /\ shown[b] \in View
        BY <1>1 DEF CalmFollows
      <4>4. CASE toggle[t].step = "ok"
        <5>1. shown' = shown /\ \A j : ~Pending(j)
          BY <1>8, <2>4, <4>4 DEF Answer, Pending
        <5>2. \A j \in Issues \ had[b] : Agrees(b, j)
          BY <1>1, <5>1 DEF CalmFollows
        <5>3. \A j : Agrees(b, j)' <=> Agrees(b, j)
          BY <2>1, <5>1 DEF Agrees, VotesOf, ledger
        <5>4. QED
          BY <4>2, <4>3, <5>1, <5>2, <5>3
      <4>5. CASE toggle[t].step = "failed"
        <5>1. shown' = [shown EXCEPT ![b] = Flip(shown[b], i)]
          BY <1>8, <2>4, <4>1, <4>5 DEF Answer, Revert
        <5>2. \A j : Pending(j) <=> j = i
          BY <2>1, <2>4, <4>1, <4>5 DEF Pending
        <5>3. \A j \in Issues \ had[b] : IF j = i THEN Ahead(b, j) ELSE Agrees(b, j)
          BY <1>1, <5>2 DEF CalmFollows
        <5>4. /\ Ahead(b, i) => Agrees(b, i)'
              /\ \A j \in Issues : j # i => (Agrees(b, j) => Agrees(b, j)')
          BY <1>1, <2>1, <4>3, <5>1, FlipMoves
        <5>5. shown'[b] # Nothing
          BY <1>1, <4>3, <5>1, FlipKeeps DEF VotesInv, ViewsCounted
        <5>6. QED
          BY <4>2, <5>3, <5>4, <5>5
      <4>6. QED
        BY <2>1, <4>4, <4>5
    <3>2. QED
      BY <2>1, <3>1 DEF CalmFollows
  <2>7. QED
    BY <2>2, <2>5, <2>6 DEF QuietInv
\* The steps that leave the clicks and the database alone.
<1>9. ASSUME UNCHANGED <<ledger, toggle>>
      PROVE  /\ rows' = rows /\ upvotes' = upvotes /\ toggle' = toggle
             /\ Idle' <=> Idle
             /\ \A u : VotesOf(u)' = VotesOf(u)
             /\ \A j : Pending(j)' <=> Pending(j)
             /\ calm' \subseteq calm => CalmIsAlone'
             /\ UNCHANGED <<shown, had>> /\ calm' \subseteq calm => CalmFollows'
  <2>1. rows' = rows /\ upvotes' = upvotes /\ toggle' = toggle
    BY <1>9 DEF ledger
  <2>2. \A j : Pending(j)' <=> Pending(j)
    BY <2>1 DEF Pending
  <2>3. calm' \subseteq calm => CalmIsAlone'
    BY <1>1, <2>1 DEF CalmIsAlone, TheRow
  <2>4. UNCHANGED <<shown, had>> /\ calm' \subseteq calm => CalmFollows'
    BY <1>1, <1>9, <2>2, FollowsStays
  <2>5. QED
    BY <2>1, <2>2, <2>3, <2>4 DEF Idle, VotesOf
<1>10. ASSUME NEW b \in Tabs, NEW g \in Gets, AskList(b, g)
       PROVE  QuietInv'
  <2>1. /\ get' = [get EXCEPT ![g] = [tab |-> b, alone |-> Idle, list |-> Nothing]]
        /\ UNCHANGED <<ledger, toggle>> /\ UNCHANGED tabs
    BY <1>10 DEF AskList
  <2>2. CalmIsAlone' /\ CalmFollows'
    BY <1>3, <1>9, <2>1
  <2>3. AloneIsCurrent'
    <3>1. ASSUME NEW h \in Gets, get'[h] # Nothing, get'[h].alone
          PROVE  /\ Idle
                 /\ get'[h].list # Nothing => get'[h] = get[h]
      <4>1. CASE h = g
        <5>1. get'[h] = [tab |-> b, alone |-> Idle, list |-> Nothing]
          BY <1>1, <2>1, <4>1
        <5>2. QED
          BY <3>1, <5>1
      <4>2. CASE h # g
        BY <1>1, <2>1, <3>1, <4>2 DEF AloneIsCurrent
      <4>3. QED
        BY <4>1, <4>2
    <3>2. QED
      BY <1>1, <1>9, <2>1, <3>1 DEF AloneIsCurrent
  <2>4. QED
    BY <2>2, <2>3 DEF QuietInv
<1>11. ASSUME NEW g \in Gets, ReadList(g)
       PROVE  QuietInv'
  <2> DEFINE list == [votes |-> upvotes, is_upvoted |-> VotesOf(Owner[get[g].tab])]
  <2>1. get[g] # Nothing /\ UNCHANGED <<ledger, toggle>> /\ UNCHANGED tabs
        /\ get' = [get EXCEPT ![g] = [get[g] EXCEPT !.list = list]]
    BY <1>11 DEF ReadList
  <2>2. CalmIsAlone' /\ CalmFollows'
    BY <1>3, <1>9, <2>1
  <2>3. get'[g].tab = get[g].tab /\ get'[g].alone = get[g].alone /\ get'[g].list = list
    <3>1. get'[g] = [get[g] EXCEPT !.list = list] /\ get[g] \in Get
      BY <1>1, <2>1
    <3>2. QED
      BY <3>1 DEF Get
  <2>4. \A h \in Gets : h # g => get'[h] = get[h]
    BY <1>1, <2>1
  <2>5. AloneIsCurrent'
    <3>1. ASSUME NEW h \in Gets, get'[h] # Nothing, get'[h].alone
          PROVE  /\ Idle
                 /\ get'[h].list # Nothing =>
                      get'[h].list = [votes |-> upvotes,
                                      is_upvoted |-> VotesOf(Owner[get'[h].tab])]
      BY <1>1, <2>1, <2>3, <2>4, <3>1 DEF AloneIsCurrent
    <3>2. QED
      BY <1>9, <2>1, <3>1 DEF AloneIsCurrent
  <2>6. QED
    BY <2>2, <2>5 DEF QuietInv
<1>12. ASSUME NEW g \in Gets, get' = [get EXCEPT ![g] = Nothing], UNCHANGED <<ledger, toggle>>
       PROVE  AloneIsCurrent'
  <2>1. \A h \in Gets : get'[h] # Nothing => get'[h] = get[h]
    BY <1>1, <1>12
  <2>2. QED
    BY <1>1, <1>9, <1>12, <2>1 DEF AloneIsCurrent
<1>13. ASSUME NEW g \in Gets, ShowList(g)
       PROVE  QuietInv'
  <2>1. /\ get[g] # Nothing /\ get[g].list # Nothing /\ get[g] \in Get
        /\ get' = [get EXCEPT ![g] = Nothing]
        /\ UNCHANGED <<ledger, toggle>>
    BY <1>1, <1>13 DEF ShowList
  <2>2. PICK b \in Tabs : b = get[g].tab
    BY <2>1 DEF Get
  <2>3. /\ shown' = [shown EXCEPT ![b] = Mapped(get[g].list)]
        /\ calm' = IF get[g].alone THEN calm \cup {b} ELSE calm \ {b}
        /\ had' = [had EXCEPT ![b] = get[g].list.is_upvoted]
    BY <1>13, <2>2 DEF ShowList
  <2>4. AloneIsCurrent'
    BY <1>12, <2>1
  <2>5. CalmIsAlone'
    <3>1. CASE get[g].alone
      BY <1>1, <1>9, <2>1, <3>1 DEF AloneIsCurrent, CalmIsAlone, Idle
    <3>2. CASE ~get[g].alone
      BY <1>9, <2>1, <2>3, <3>2
    <3>3. QED
      BY <3>1, <3>2
  <2>6. ASSUME NEW c \in calm', c # b
        PROVE  /\ shown'[c] # Nothing
               /\ \A j \in Issues \ had'[c] : IF Pending(j)' THEN Ahead(c, j)' ELSE Agrees(c, j)'
    <3>1. c \in calm /\ c \in Tabs /\ shown'[c] = shown[c] /\ had'[c] = had[c]
      BY <1>1, <2>3, <2>6
    <3>2. \A j : (Ahead(c, j)' <=> Ahead(c, j)) /\ (Agrees(c, j)' <=> Agrees(c, j))
      BY <1>9, <2>1, <3>1 DEF Ahead, Agrees
    <3>3. QED
      BY <1>1, <1>9, <2>1, <3>1, <3>2 DEF CalmFollows
  <2>7. ASSUME b \in calm'
        PROVE  /\ shown'[b] # Nothing
               /\ \A j \in Issues \ had'[b] : IF Pending(j)' THEN Ahead(b, j)' ELSE Agrees(b, j)'
    <3>1. /\ get[g].alone /\ Idle
          /\ get[g].list = [votes |-> upvotes, is_upvoted |-> VotesOf(Owner[b])]
      BY <1>1, <2>1, <2>2, <2>3, <2>7 DEF AloneIsCurrent
    <3>2. shown'[b] = [votes |-> upvotes, upvotedIds |-> {}] /\ had'[b] = VotesOf(Owner[b])
      BY <1>1, <2>3, <3>1 DEF Mapped, has_upvoted
    <3>3. shown'[b] # Nothing
      BY <1>1, <3>2 DEF View
    <3>4. \A j : ~Pending(j)'
      BY <1>9, <2>1, <3>1 DEF Pending, Idle
    <3>5. \A j \in Issues \ had'[b] : Agrees(b, j)'
      BY <1>9, <2>1, <3>2 DEF Agrees
    <3>6. QED
      BY <3>3, <3>4, <3>5
  <2>8. CalmFollows'
    BY <2>6, <2>7 DEF CalmFollows
  <2>9. QED
    BY <2>4, <2>5, <2>8 DEF QuietInv
<1>14. ASSUME NEW g \in Gets, FailList(g)
       PROVE  QuietInv'
  BY <1>3, <1>9, <1>12, <1>14 DEF FailList, QuietInv
<1>15. ASSUME UNCHANGED vars
       PROVE  QuietInv'
  <2>1. UNCHANGED <<ledger, toggle>> /\ get' = get /\ UNCHANGED tabs
    BY <1>15 DEF vars
  <2>2. AloneIsCurrent'
    BY <1>1, <1>9, <2>1 DEF AloneIsCurrent
  <2>3. QED
    BY <1>3, <1>9, <2>1, <2>2 DEF QuietInv
<1>16. QED
  BY <1>4, <1>5, <1>6, <1>7, <1>8, <1>10, <1>11, <1>13, <1>14, <1>15 DEF Next

\* A tab whose clicks met nobody else's ends up agreeing with the database,
\* whether its requests succeeded or failed, for the issues that its user had
\* not voted for when its list was read.
THEOREM QuietTabsAgree == Spec => []QuietTabAgrees
<1>1. Init => QuietInv
  BY DEF Init, QuietInv, AloneIsCurrent, CalmIsAlone, CalmFollows
<1>2. QuietInv => QuietTabAgrees
  BY DEF QuietInv, CalmFollows, QuietTabAgrees, Pending, Idle, Agrees
<1>3. QED
  BY <1>1, <1>2, VotesInit, VotesStep, QuietStep, PTL DEF Spec

=============================================================================

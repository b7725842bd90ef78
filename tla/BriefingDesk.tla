---------------------------- MODULE BriefingDesk ----------------------------
(***************************************************************************)
(* The page on which the MP's office writes briefings,                     *)
(* app/mp/briefings/page.tsx, and the clusters of lib/issueIntelligence.ts *)
(* that it drafts them from.                                               *)
(*                                                                         *)
(* A draft generated from a cluster is locked until somebody confirms its  *)
(* review.  The lock is kept as the key of the cluster, and the page lets  *)
(* go of it when a refresh of the issues leaves that cluster with fewer    *)
(* than two reports; the text stays.                                       *)
(*                                                                         *)
(* Of a text the model keeps whether it is empty, the office's own or holds*)
(* text of a draft.  Of the issues it keeps how many there are of every    *)
(* zone and sector; clusters with equal numbers come in any order, for     *)
(* severity and age are left out.  Type, sectors and pin are payload.      *)
(***************************************************************************)
EXTENDS Naturals, FiniteSets

CONSTANTS
    Topics,         \* the pairs of a zone and a sector
    NoTopic,        \* the empty key
    ReportLimit,    \* most reports of a topic
    PublishSlots,   \* publications that may be in flight together
    NoPost          \* the value of an unused slot

ASSUME BriefingAssumption ==
    ReportLimit \in Nat /\ NoTopic \notin Topics /\ NoPost # "nobody"

VARIABLES
    reports,      \* reports[k]: the issues in scope of topic k
    selectedKey,  \* selectedClusterKey
    draftKey,     \* aiDraftClusterKey
    confirmed,    \* aiReviewConfirmed
    heading,      \* title
    text,         \* body
    publishing    \* publishing[p]: a post in flight

\* What the properties remember; no handler reads these.
VARIABLES
    reviewed,     \* somebody confirmed the review after the last change of the text
    released,     \* who let go of the lock of this draft: "office", "page" or "nobody"
    published     \* how the post that the API stored last passed the gate

briefingVars == <<reports, selectedKey, draftKey, confirmed, heading, text, publishing,
                  reviewed, released, published>>

-----------------------------------------------------------------------------
Contents == {"empty", "own", "draft"}

\* How a post may pass: with no text of a draft, reviewed since its last change,
\* after the office or the page let go of the lock, or in none of these ways.
Passes == {"own", "reviewed", "office", "page", "nobody"}

PassOfForm == CASE "draft" \notin {heading, text} -> "own"
                [] "draft" \in {heading, text} /\ reviewed -> "reviewed"
                [] OTHER -> released

\* buildIssueClusters(issues, 2): the topics with at least two reports, and
\* those of them that may come first.
ClustersOf(r) == {k \in Topics : r[k] >= 2}
FirstOf(r) == {k \in ClustersOf(r) : \A l \in ClustersOf(r) : r[l] <= r[k]}

\* The effect on the clusters and the keys.
KeyHolds(k, r) == k \in ClustersOf(r)
Selected(r, k) == IF ClustersOf(r) = {} THEN {NoTopic}
                  ELSE IF k \in ClustersOf(r) THEN {k} ELSE FirstOf(r)

\* buildBriefingDraftFromCluster
Draft == [title |-> "draft", body |-> "draft"]

\* Is the review still confirmed after the text was edited?
ConfirmedAfterEdit_Kept == confirmed
ConfirmedAfterEdit == IF draftKey # NoTopic THEN FALSE ELSE confirmed

CanPublish == heading # "empty" /\ text # "empty" /\ (draftKey = NoTopic \/ confirmed)

-----------------------------------------------------------------------------
BriefingInit ==
    /\ reports \in [Topics -> 0 .. ReportLimit]
    /\ selectedKey \in Selected(reports, NoTopic)
    /\ draftKey = NoTopic /\ confirmed = FALSE
    /\ heading = "empty" /\ text = "empty"
    /\ publishing = [p \in PublishSlots |-> NoPost]
    /\ reviewed = FALSE /\ released = "nobody" /\ published = NoPost

\* A refresh shows other issues; the effect selects a cluster that exists and
\* lets go of the lock of one that does not.
IssuesChange ==
    \E r \in [Topics -> 0 .. ReportLimit] :
        /\ reports' = r
        /\ selectedKey' \in Selected(r, selectedKey)
        /\ draftKey' = IF KeyHolds(draftKey, r) THEN draftKey ELSE NoTopic
        /\ confirmed' = IF ClustersOf(r) = {} \/ (draftKey # NoTopic /\ ~KeyHolds(draftKey, r))
                        THEN FALSE ELSE confirmed
        /\ released' = IF draftKey # NoTopic /\ ~KeyHolds(draftKey, r) THEN "page" ELSE released
        /\ UNCHANGED <<heading, text, publishing, reviewed, published>>

SelectCluster(k) ==
    /\ k \in ClustersOf(reports) /\ k # selectedKey
    /\ selectedKey' = k
    /\ UNCHANGED <<reports, draftKey, confirmed, heading, text, publishing, reviewed,
                   released, published>>

\* handleGenerateDraft
GenerateDraft ==
    /\ selectedKey # NoTopic
    /\ heading' = Draft.title /\ text' = Draft.body
    /\ draftKey' = selectedKey /\ confirmed' = FALSE
    /\ reviewed' = FALSE /\ released' = "nobody"
    /\ UNCHANGED <<reports, selectedKey, publishing, published>>

\* A change of a field: cleared, written anew, or a draft that stays in part.
Rewritten(old) == {"empty", "own"} \cup ({old} \cap {"draft"})

EditPost ==
    /\ \/ heading' \in Rewritten(heading) /\ text' = text
       \/ text' \in Rewritten(text) /\ heading' = heading
    /\ confirmed' = ConfirmedAfterEdit
    /\ reviewed' = FALSE
    /\ UNCHANGED <<reports, selectedKey, draftKey, publishing, released, published>>

\* The checkbox of the review gate.
TickReview ==
    /\ draftKey # NoTopic
    /\ confirmed' = ~confirmed /\ reviewed' = confirmed'
    /\ UNCHANGED <<reports, selectedKey, draftKey, heading, text, publishing, released, published>>

\* "Discard AI draft lock and continue manually".
DiscardLock ==
    /\ draftKey # NoTopic
    /\ draftKey' = NoTopic /\ confirmed' = FALSE
    /\ released' = "office"
    /\ UNCHANGED <<reports, selectedKey, heading, text, publishing, reviewed, published>>

\* handlePublish, up to the answer of addBriefing.  The button stays enabled.
PublishPost(p) ==
    /\ CanPublish /\ publishing[p] = NoPost
    /\ publishing' = [publishing EXCEPT ![p] = PassOfForm]
    /\ UNCHANGED <<reports, selectedKey, draftKey, confirmed, heading, text, reviewed, released,
                   published>>

\* The answer: whatever the form holds by now is cleared.
Published(p) ==
    /\ publishing[p] # NoPost
    /\ published' = publishing[p]
    /\ publishing' = [publishing EXCEPT ![p] = NoPost]
    /\ heading' = "empty" /\ text' = "empty"
    /\ draftKey' = NoTopic /\ confirmed' = FALSE
    /\ reviewed' = FALSE /\ released' = "nobody"
    /\ UNCHANGED <<reports, selectedKey>>

\* addBriefing throws: the form stays.  The API may have stored the post.
PublishFails(p) ==
    /\ publishing[p] # NoPost
    /\ publishing' = [publishing EXCEPT ![p] = NoPost]
    /\ published' \in {published, publishing[p]}
    /\ UNCHANGED <<reports, selectedKey, draftKey, confirmed, heading, text, reviewed, released>>

BriefingNext ==
    \/ IssuesChange \/ GenerateDraft \/ EditPost \/ TickReview \/ DiscardLock
    \/ \E k \in Topics : SelectCluster(k)
    \/ \E p \in PublishSlots : PublishPost(p) \/ Published(p) \/ PublishFails(p)

BriefingSpec == BriefingInit /\ [][BriefingNext]_briefingVars

-----------------------------------------------------------------------------
\* The state of the page is well formed.
BriefingTypeOK ==
    /\ reports \in [Topics -> 0 .. ReportLimit]
    /\ selectedKey \in Topics \cup {NoTopic} /\ draftKey \in Topics \cup {NoTopic}
    /\ confirmed \in BOOLEAN /\ heading \in Contents /\ text \in Contents
    /\ publishing \in [PublishSlots -> Passes \cup {NoPost}]
    /\ reviewed \in BOOLEAN /\ released \in {"office", "page", "nobody"}
    /\ published \in Passes \cup {NoPost}

\* A post that holds text of a draft was reviewed after the last change of its
\* text, or its lock was discarded by somebody, or the page let go of it: no
\* other order of generating, editing, confirming and answers gets past the gate.
GateHoldsDrafts == published # "nobody"

\* What the page says: "Human review is required before anything can be
\* published", unless the office discards the lock.
NothingUnreviewedIsPublished == published \notin {"page", "nobody"}
=============================================================================

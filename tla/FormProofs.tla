----------------------------- MODULE FormProofs -----------------------------
(***************************************************************************)
(* Proofs about what is written into the web client, for every number of   *)
(* requests in flight, of rows, options and tabs: the report of an issue,  *)
(* the sign-up, the admin's list of users, the briefing with its review    *)
(* gate and the weekly list.                                               *)
(***************************************************************************)
EXTENDS ReportForm, Registration, AdminPage, BriefingDesk, WeeklyList, TLAPS

-----------------------------------------------------------------------------
(* The report of an issue.                                                 *)

\* The shape of the state, in four parts; each photo has its preview.
ReportNumbers == /\ step \in 1..4 /\ filings \in 0..2
                 /\ photos \in 0..PhotoLimit /\ previews = photos
ReportFlags == /\ isOpen \in BOOLEAN /\ title \in BOOLEAN /\ address \in BOOLEAN
               /\ chosen \in BOOLEAN /\ loading \in BOOLEAN /\ submitting \in BOOLEAN
               /\ smooth \in BOOLEAN
ReportAsks == /\ sector \in Sources \cup {"user"} /\ suggested \in Sources
              /\ asks \in [AskSlots -> Classification \cup {NoCall}]
ReportPosts == posts \in [PostSlots -> Post \cup {NoCall}]

ReportShape == ReportNumbers /\ ReportFlags /\ ReportAsks /\ ReportPosts

\* While the user has waited for every answer: at most one classification and
\* one report are in flight, each with its flag; a classification that leads on
\* finds the form in its first step; nothing comes from another draft, and the
\* second and third step have a title.
SmoothAsks ==
    \A c \in InFlight(asks) :
      /\ loading /\ step \in {1, 4} /\ asks[c].about # "stray"
      /\ asks[c].continues => step = 1 /\ title /\ InFlight(posts) = {}
      /\ \A d \in InFlight(asks) : d = c

SmoothPosts ==
    \A c \in InFlight(posts) :
      /\ submitting /\ step # 4
      /\ posts[c].own /\ posts[c].titled /\ posts[c].sector # "stray"
      /\ \A d \in InFlight(posts) : d = c

SmoothDraft ==
    /\ step \in {2, 3} => title
    /\ sector # "stray" /\ suggested # "stray"
    /\ filings = IF step = 4 THEN 1 ELSE 0

SmoothInv == smooth => SmoothAsks /\ SmoothPosts /\ SmoothDraft

-----------------------------------------------------------------------------
\* A classification that is in flight stays one when its text changes.
LEMMA AskWithOtherText ==
    ASSUME NEW a \in Classification, NEW t \in Texts
    PROVE  [a EXCEPT !.about = t] \in Classification
  BY DEF Classification

LEMMA EditedText ==
    ASSUME NEW t \in Sources \cup {"user"}
    PROVE  /\ Edited(t) \in Sources \cup {"user"}
           /\ t \in Sources => Edited(t) \in Sources
           /\ t \in Texts => Edited(t) \in Texts
           /\ t # "stray" => Edited(t) # "stray"
           /\ t = "user" => Edited(t) = "user"
  BY DEF Edited, Sources, Texts

LEMMA ReportNumbersStep == ASSUME ReportNumbers, ReportNext PROVE ReportNumbers'
<1> USE ReportAssumption DEF ReportNumbers
<1>1. CASE OpenReport \/ EditDetails \/ ChooseSector \/ EditPlace
  BY <1>1 DEF OpenReport, EditDetails, ChooseSector, EditPlace
<1>2. CASE ContinuePlace \/ Back \/ RemovePhoto \/ ResetAndClose
  BY <1>2 DEF ContinuePlace, Back, RemovePhoto, ResetAndClose, PreviewsLeft
<1>3. ASSUME NEW n \in 1..PhotoLimit + 1, AddPhotos(n)
      PROVE  ReportNumbers'
  BY <1>3 DEF AddPhotos, Surplus
<1>4. ASSUME NEW c \in AskSlots,
             RunAI(c) \/ ContinueDetails(c) \/ \E ok \in BOOLEAN : AnswerAsk(c, ok)
      PROVE  ReportNumbers'
  BY <1>4 DEF RunAI, ContinueDetails, Send, draftVars, AnswerAsk
<1>5. ASSUME NEW c \in PostSlots, Submit(c) \/ AnswerPost(c) \/ FailPost(c) \/ LosePost(c)
      PROVE  ReportNumbers'
  BY <1>5 DEF Submit, AnswerPost, FailPost, LosePost, Filed, EndPost, draftVars, StepAfterSend
<1>6. QED
  BY <1>1, <1>2, <1>3, <1>4, <1>5 DEF ReportNext

LEMMA ReportFlagsStep == ASSUME ReportFlags, ReportNext PROVE ReportFlags'
<1> USE DEF ReportFlags, callVars, draftVars
<1>1. CASE OpenReport \/ EditDetails \/ ChooseSector \/ EditPlace
  BY <1>1 DEF OpenReport, EditDetails, ChooseSector, EditPlace
<1>2. CASE ContinuePlace \/ Back \/ RemovePhoto \/ ResetAndClose
  BY <1>2 DEF ContinuePlace, Back, RemovePhoto, ResetAndClose
<1>3. ASSUME NEW n \in 1..PhotoLimit + 1, AddPhotos(n)
      PROVE  ReportFlags'
  BY <1>3 DEF AddPhotos
<1>4. ASSUME NEW c \in AskSlots,
             RunAI(c) \/ ContinueDetails(c) \/ \E ok \in BOOLEAN : AnswerAsk(c, ok)
      PROVE  ReportFlags'
  BY <1>4 DEF RunAI, ContinueDetails, Send, AnswerAsk
<1>5. ASSUME NEW c \in PostSlots, Submit(c) \/ AnswerPost(c) \/ FailPost(c) \/ LosePost(c)
      PROVE  ReportFlags'
  BY <1>5 DEF Submit, AnswerPost, FailPost, LosePost, Filed, EndPost
<1>6. QED
  BY <1>1, <1>2, <1>3, <1>4, <1>5 DEF ReportNext

LEMMA ReportAsksStep == ASSUME ReportAsks, ReportNext PROVE ReportAsks'
<1> USE DEF ReportAsks, callVars, draftVars
<1>1. CASE OpenReport \/ ChooseSector \/ EditPlace \/ ContinuePlace \/ Back \/ RemovePhoto
  BY <1>1 DEF OpenReport, ChooseSector, EditPlace, ContinuePlace, Back, RemovePhoto
<1>2. CASE EditDetails
  <2>1. ASSUME NEW c \in AskSlots, asks[c] # NoCall
        PROVE  [asks[c] EXCEPT !.about = Edited(@)] \in Classification
    <3>1. asks[c] \in Classification /\ asks[c].about \in Texts
      BY <2>1 DEF Classification
    <3>2. Edited(asks[c].about) \in Texts
      BY <3>1, EditedText DEF Sources
    <3>3. QED
      BY <3>1, <3>2, AskWithOtherText
  <2>2. asks' \in [AskSlots -> Classification \cup {NoCall}]
    BY <1>2, <2>1 DEF EditDetails
  <2>3. sector' \in Sources \cup {"user"} /\ suggested' \in Sources
    BY <1>2, EditedText DEF EditDetails
  <2>4. QED
    BY <2>2, <2>3
<1>3. CASE ResetAndClose
  <2>1. ASSUME NEW c \in AskSlots, asks[c] # NoCall
        PROVE  [asks[c] EXCEPT !.about = "stray"] \in Classification
    <3>1. asks[c] \in Classification /\ "stray" \in Texts
      BY <2>1 DEF Texts
    <3>2. QED
      BY <3>1, AskWithOtherText
  <2>2. asks' \in [AskSlots -> Classification \cup {NoCall}]
    BY <1>3, <2>1 DEF ResetAndClose
  <2>3. sector' = "none" /\ suggested' = "none"
    BY <1>3 DEF ResetAndClose
  <2>4. QED
    BY <2>2, <2>3 DEF Sources
<1>4. ASSUME NEW n \in 1..PhotoLimit + 1, AddPhotos(n)
      PROVE  ReportAsks'
  BY <1>4 DEF AddPhotos
<1>5. ASSUME NEW c \in AskSlots, RunAI(c) \/ ContinueDetails(c)
      PROVE  ReportAsks'
  <2>1. PICK continues \in BOOLEAN : Send(c, continues)
    BY <1>5 DEF RunAI, ContinueDetails
  <2>2. [about |-> "current", continues |-> continues] \in Classification
    BY DEF Classification, Texts
  <2>3. QED
    BY <2>1, <2>2 DEF Send
<1>6. ASSUME NEW c \in AskSlots, NEW ok \in BOOLEAN, AnswerAsk(c, ok)
      PROVE  ReportAsks'
  <2>1. asks[c].about \in Sources
    BY <1>6 DEF AnswerAsk, Classification, Sources
  <2>2. asks' \in [AskSlots -> Classification \cup {NoCall}]
    BY <1>6 DEF AnswerAsk
  <2>3. sector' \in Sources \cup {"user"} /\ suggested' \in Sources
    BY <1>6, <2>1 DEF AnswerAsk, SectorAfter, Sources
  <2>4. QED
    BY <2>2, <2>3
<1>7. ASSUME NEW c \in PostSlots, Submit(c) \/ AnswerPost(c) \/ FailPost(c) \/ LosePost(c)
      PROVE  ReportAsks'
  BY <1>7 DEF Submit, AnswerPost, FailPost, LosePost, EndPost
<1>8. QED
  BY <1>1, <1>2, <1>3, <1>4, <1>5, <1>6, <1>7 DEF ReportNext

LEMMA ReportPostsStep ==
    ASSUME ReportFlags, ReportAsks, ReportPosts, ReportNext PROVE ReportPosts'
<1> USE DEF ReportPosts, callVars, draftVars
<1>1. CASE OpenReport \/ EditDetails \/ ChooseSector \/ EditPlace
  BY <1>1 DEF OpenReport, EditDetails, ChooseSector, EditPlace
<1>2. CASE ContinuePlace \/ Back \/ RemovePhoto
  BY <1>2 DEF ContinuePlace, Back, RemovePhoto
<1>3. CASE ResetAndClose
  <2>1. ASSUME NEW c \in PostSlots, posts[c] # NoCall
        PROVE  [posts[c] EXCEPT !.own = FALSE] \in Post
    BY <2>1 DEF Post
  <2>2. QED
    BY <1>3, <2>1 DEF ResetAndClose
<1>4. ASSUME NEW n \in 1..PhotoLimit + 1, AddPhotos(n)
      PROVE  ReportPosts'
  BY <1>4 DEF AddPhotos
<1>5. ASSUME NEW c \in AskSlots,
             RunAI(c) \/ ContinueDetails(c) \/ \E ok \in BOOLEAN : AnswerAsk(c, ok)
      PROVE  ReportPosts'
  BY <1>5 DEF RunAI, ContinueDetails, Send, AnswerAsk
<1>6. ASSUME NEW c \in PostSlots, Submit(c)
      PROVE  ReportPosts'
  <2> DEFINE post == [own |-> TRUE, sector |-> IF sector = "none" THEN suggested ELSE sector,
                      chosen |-> chosen, titled |-> title]
  <2>1. post \in Post
    BY DEF Post, ReportFlags, ReportAsks
  <2>2. posts' = [posts EXCEPT ![c] = post]
    BY <1>6 DEF Submit
  <2> HIDE DEF post
  <2>3. QED
    BY <2>1, <2>2
<1>7. ASSUME NEW c \in PostSlots, AnswerPost(c) \/ FailPost(c) \/ LosePost(c)
      PROVE  ReportPosts'
  BY <1>7 DEF AnswerPost, FailPost, LosePost, EndPost
<1>8. QED
  BY <1>1, <1>2, <1>3, <1>4, <1>5, <1>6, <1>7 DEF ReportNext

LEMMA ReportShaped == ReportSpec => []ReportShape
<1>1. ReportInit => ReportShape
  <2> SUFFICES ASSUME ReportInit
               PROVE  ReportShape
    OBVIOUS
  <2>1. ReportNumbers
    BY ReportAssumption DEF ReportInit, ReportNumbers
  <2>2. ReportFlags
    BY DEF ReportInit, ReportFlags
  <2>3. ReportAsks /\ ReportPosts
    BY DEF ReportInit, ReportAsks, ReportPosts, Sources
  <2>4. QED
    BY <2>1, <2>2, <2>3 DEF ReportShape
<1>2. ReportShape /\ [ReportNext]_reportVars => ReportShape'
  <2>1. ASSUME ReportShape, ReportNext
        PROVE  ReportShape'
    BY <2>1, ReportNumbersStep, ReportFlagsStep, ReportAsksStep, ReportPostsStep DEF ReportShape
  <2>2. ASSUME ReportShape, UNCHANGED reportVars
        PROVE  ReportShape'
    BY <2>2 DEF ReportShape, ReportNumbers, ReportFlags, ReportAsks, ReportPosts, reportVars,
                draftVars, callVars
  <2>3. QED
    BY <2>1, <2>2
<1>3. QED
  BY <1>1, <1>2, PTL DEF ReportSpec

\* The variables of the form keep their shape, and each preview its photo,
\* whatever is answered after the dialog was closed.
THEOREM ReportTypeCorrect == ReportSpec => [](ReportTypeOK /\ PreviewsAreShown)
<1>1. ReportShape => ReportTypeOK /\ PreviewsAreShown
  BY DEF ReportShape, ReportNumbers, ReportFlags, ReportAsks, ReportPosts, ReportTypeOK,
         PreviewsAreShown
<1>2. QED
  BY <1>1, ReportShaped, PTL

-----------------------------------------------------------------------------
LEMMA OverrideStep ==
    ASSUME ReportFlags, ReportAsks, ReportPosts, OverrideStands, ReportNext
    PROVE  OverrideStands'
<1> USE DEF OverrideStands, InFlight, callVars, draftVars
<1>1. CASE OpenReport \/ ChooseSector \/ EditPlace
  BY <1>1 DEF OpenReport, ChooseSector, EditPlace
<1>2. CASE ContinuePlace \/ Back \/ RemovePhoto \/ \E n \in 1..PhotoLimit + 1 : AddPhotos(n)
  BY <1>2 DEF ContinuePlace, Back, RemovePhoto, AddPhotos
<1>3. CASE EditDetails
  BY <1>3 DEF EditDetails, Edited
<1>4. CASE ResetAndClose
  <2>1. ~chosen' /\ posts' = [c \in PostSlots |-> IF posts[c] = NoCall THEN NoCall
                                 ELSE [posts[c] EXCEPT !.own = FALSE]]
    BY <1>4 DEF ResetAndClose
  <2>2. ASSUME NEW c \in PostSlots, posts[c] # NoCall
        PROVE  LET p == [posts[c] EXCEPT !.own = FALSE]
               IN p.chosen = posts[c].chosen /\ p.sector = posts[c].sector
    BY <2>2 DEF ReportPosts, Post
  <2>3. QED
    BY <2>1, <2>2 DEF ReportPosts
<1>5. ASSUME NEW c \in AskSlots, RunAI(c) \/ ContinueDetails(c)
      PROVE  OverrideStands'
  BY <1>5 DEF RunAI, ContinueDetails, Send
<1>6. ASSUME NEW c \in AskSlots, NEW ok \in BOOLEAN, AnswerAsk(c, ok)
      PROVE  OverrideStands'
  <2>1. UNCHANGED <<chosen, posts>> /\ (chosen => sector' = sector)
    BY <1>6 DEF AnswerAsk, SectorAfter
  <2>2. QED
    BY <2>1
<1>7. ASSUME NEW c \in PostSlots, Submit(c)
      PROVE  OverrideStands'
  BY <1>7 DEF Submit, ReportPosts
<1>8. ASSUME NEW c \in PostSlots, AnswerPost(c) \/ FailPost(c) \/ LosePost(c)
      PROVE  OverrideStands'
  <2>1. UNCHANGED <<chosen, sector>> /\ posts' = [posts EXCEPT ![c] = NoCall]
    BY <1>8 DEF AnswerPost, FailPost, LosePost, EndPost
  <2>2. QED
    BY <2>1 DEF ReportPosts
<1>9. QED
  BY <1>1, <1>2, <1>3, <1>4, <1>5, <1>6, <1>7, <1>8 DEF ReportNext

\* A sector that the user has chosen stands, and is the one that is sent,
\* whatever classifications are answered before and after.
THEOREM OverrideHolds == ReportSpec => []OverrideStands
<1>1. ReportInit => OverrideStands
  BY DEF ReportInit, OverrideStands, InFlight
<1>2. /\ ReportNumbers /\ ReportFlags /\ ReportAsks /\ ReportPosts
      /\ OverrideStands /\ [ReportNext]_reportVars
      => OverrideStands'
  <2>1. CASE UNCHANGED reportVars
    BY <2>1 DEF OverrideStands, InFlight, reportVars, draftVars, callVars
  <2>2. QED
    BY <2>1, OverrideStep
<1>3. QED
  BY <1>1, <1>2, ReportShaped, PTL DEF ReportSpec, ReportShape

-----------------------------------------------------------------------------
LEMMA SmoothAnswers ==
    ASSUME ReportFlags, ReportAsks, ReportPosts, SmoothInv,
           NEW c \in AskSlots, NEW ok \in BOOLEAN, AnswerAsk(c, ok)
    PROVE  SmoothInv'
<1> SUFFICES ASSUME smooth
             PROVE  SmoothAsks' /\ SmoothPosts' /\ SmoothDraft'
  BY DEF SmoothInv, AnswerAsk
<1>1. c \in InFlight(asks) /\ asks' = [asks EXCEPT ![c] = NoCall]
  BY DEF AnswerAsk, InFlight, ReportAsks
<1>2. InFlight(asks)' = {}
  BY <1>1 DEF SmoothInv, SmoothAsks, InFlight, ReportAsks
<1>3. asks[c].about # "stray" /\ (asks[c].continues => step = 1 /\ title /\ InFlight(posts) = {})
  BY <1>1 DEF SmoothInv, SmoothAsks
<1>4. UNCHANGED <<posts, submitting, title, filings>>
      /\ step' = IF asks[c].continues THEN 2 ELSE step
  BY DEF AnswerAsk
<1>5. SmoothPosts'
  BY <1>3, <1>4 DEF SmoothInv, SmoothPosts, InFlight
<1>6. sector' # "stray" /\ suggested' # "stray"
  BY <1>3 DEF AnswerAsk, SectorAfter, SmoothInv, SmoothDraft
<1>7. SmoothDraft'
  BY <1>3, <1>4, <1>6 DEF SmoothInv, SmoothDraft
<1>8. QED
  BY <1>2, <1>5, <1>7 DEF SmoothAsks

LEMMA SmoothSend ==
    ASSUME ReportFlags, ReportAsks, ReportPosts, SmoothInv,
           NEW c \in AskSlots, RunAI(c) \/ ContinueDetails(c)
    PROVE  SmoothInv'
<1> SUFFICES ASSUME smooth'
             PROVE  SmoothAsks' /\ SmoothPosts' /\ SmoothDraft'
  BY DEF SmoothInv
<1>1. smooth /\ InFlight(asks) = {} /\ step = 1 /\ title
  <2>1. step = 1 /\ title
    BY DEF RunAI, ContinueDetails, Send
  <2>2. CASE RunAI(c)
    BY <2>1, <2>2 DEF RunAI, SmoothInv, SmoothAsks
  <2>3. CASE ContinueDetails(c)
    BY <2>1, <2>3 DEF ContinueDetails
  <2>4. QED
    BY <2>2, <2>3
<1>2. PICK continues \in BOOLEAN :
          /\ Send(c, continues)
          /\ continues => ~submitting
  BY DEF RunAI, ContinueDetails
<1>3. UNCHANGED <<step, title, sector, suggested, submitting, posts, filings>>
  BY <1>2 DEF Send, draftVars
<1>4. asks' = [asks EXCEPT ![c] = [about |-> "current", continues |-> continues]] /\ loading'
  BY <1>2 DEF Send
<1>5. continues => InFlight(posts) = {}
  BY <1>1, <1>2 DEF SmoothInv, SmoothPosts
<1>6. SmoothAsks'
  BY <1>1, <1>3, <1>4, <1>5 DEF SmoothAsks, InFlight, ReportAsks
<1>7. SmoothPosts' /\ SmoothDraft'
  BY <1>1, <1>3 DEF SmoothInv, SmoothPosts, SmoothDraft, InFlight
<1>8. QED
  BY <1>6, <1>7

LEMMA SmoothPosting ==
    ASSUME ReportNumbers, ReportFlags, ReportAsks, ReportPosts, SmoothInv,
           NEW c \in PostSlots, AnswerPost(c) \/ FailPost(c) \/ LosePost(c)
    PROVE  SmoothInv'
<1> SUFFICES ASSUME smooth, AnswerPost(c) \/ FailPost(c)
             PROVE  SmoothAsks' /\ SmoothPosts' /\ SmoothDraft'
  BY DEF SmoothInv, AnswerPost, FailPost, LosePost
<1>1. c \in InFlight(posts) /\ posts[c].own
  BY DEF AnswerPost, FailPost, Filed, InFlight, ReportPosts, SmoothInv, SmoothPosts
<1>2. posts' = [posts EXCEPT ![c] = NoCall] /\ UNCHANGED <<title, sector, suggested, loading, asks>>
  BY DEF AnswerPost, FailPost, EndPost
<1>3. InFlight(posts)' = {}
  BY <1>1, <1>2 DEF SmoothInv, SmoothPosts, InFlight, ReportPosts
<1>4. step # 4 /\ filings = 0
  BY <1>1 DEF SmoothInv, SmoothPosts, SmoothDraft
<1>5. \/ step' = 4 /\ filings' = 1
      \/ step' = step /\ filings' = filings
  <2>1. CASE AnswerPost(c)
    BY <2>1, <1>1, <1>4 DEF AnswerPost, Filed, StepAfterSend
  <2>2. CASE FailPost(c)
    BY <2>2 DEF FailPost, StepAfterSend
  <2>3. QED
    BY <2>1, <2>2
<1>6. SmoothAsks'
  <2>1. ASSUME NEW d \in InFlight(asks)
        PROVE  ~asks[d].continues /\ step' \in {1, 4}
    BY <1>1, <1>5 DEF SmoothInv, SmoothAsks
  <2>2. QED
    BY <1>2, <2>1 DEF SmoothInv, SmoothAsks, InFlight
<1>7. SmoothPosts'
  BY <1>3 DEF SmoothPosts
<1>8. SmoothDraft'
  BY <1>2, <1>4, <1>5 DEF SmoothInv, SmoothDraft
<1>9. QED
  BY <1>6, <1>7, <1>8

LEMMA SmoothKept ==
    ASSUME SmoothInv, UNCHANGED <<step, title, filings, smooth, callVars>>,
           sector' \in {sector, "user"}
    PROVE  SmoothInv'
  BY DEF SmoothInv, SmoothAsks, SmoothPosts, SmoothDraft, InFlight, callVars

LEMMA SmoothStep ==
    ASSUME ReportNumbers, ReportFlags, ReportAsks, ReportPosts, SmoothInv, ReportNext
    PROVE  SmoothInv'
<1> USE DEF callVars, draftVars
<1>1. CASE OpenReport \/ ChooseSector \/ EditPlace
  BY <1>1, SmoothKept DEF OpenReport, ChooseSector, EditPlace
<1>2. CASE ContinuePlace
  <2>1. InFlight(posts) = {} \/ ~smooth
    BY <1>2 DEF ContinuePlace, SmoothInv, SmoothPosts
  <2>2. InFlight(asks) = {} \/ ~smooth
    BY <1>2 DEF ContinuePlace, SmoothInv, SmoothAsks
  <2>3. QED
    BY <1>2, <2>1, <2>2 DEF ContinuePlace, SmoothInv, SmoothAsks, SmoothPosts, SmoothDraft, InFlight
<1>3. CASE Back
  <2>1. InFlight(asks) = {} \/ ~smooth
    BY <1>3 DEF Back, SmoothInv, SmoothAsks
  <2>2. step' \in {1, 2} /\ step \in {2, 3}
    BY <1>3 DEF Back
  <2>3. QED
    BY <1>3, <2>1, <2>2 DEF Back, SmoothInv, SmoothAsks, SmoothPosts, SmoothDraft, InFlight
<1>4. CASE RemovePhoto \/ \E n \in 1..PhotoLimit + 1 : AddPhotos(n)
  BY <1>4, SmoothKept DEF RemovePhoto, AddPhotos
<1>5. CASE EditDetails
  <2> SUFFICES ASSUME smooth, InFlight(asks) = {}
               PROVE  SmoothAsks' /\ SmoothPosts' /\ SmoothDraft'
    BY <1>5 DEF SmoothInv, EditDetails
  <2>1. InFlight(asks)' = {}
    BY <1>5 DEF EditDetails, InFlight, ReportAsks
  <2>2. SmoothPosts'
    BY <1>5 DEF EditDetails, SmoothInv, SmoothPosts, InFlight
  <2>3. SmoothDraft'
    BY <1>5 DEF EditDetails, SmoothInv, SmoothDraft, Edited
  <2>4. QED
    BY <2>1, <2>2, <2>3 DEF SmoothAsks
<1>6. CASE ResetAndClose
  <2> SUFFICES ASSUME InFlight(asks) = {}, InFlight(posts) = {}
               PROVE  SmoothAsks' /\ SmoothPosts' /\ SmoothDraft'
    BY <1>6 DEF SmoothInv, ResetAndClose
  <2>1. InFlight(asks)' = {}
    BY <1>6 DEF ResetAndClose, InFlight, ReportAsks
  <2>2. InFlight(posts)' = {}
    BY <1>6 DEF ResetAndClose, InFlight, ReportPosts
  <2>3. SmoothDraft'
    BY <1>6 DEF ResetAndClose, SmoothDraft
  <2>4. QED
    BY <2>1, <2>2, <2>3 DEF SmoothAsks, SmoothPosts
<1>7. ASSUME NEW c \in PostSlots, Submit(c)
      PROVE  SmoothInv'
  <2> SUFFICES ASSUME smooth
               PROVE  SmoothAsks' /\ SmoothPosts' /\ SmoothDraft'
    BY <1>7 DEF SmoothInv, Submit
  <2>1. InFlight(asks) = {} /\ InFlight(posts) = {}
    BY <1>7 DEF Submit, MaySubmit, SmoothInv, SmoothAsks, SmoothPosts
  <2>2. UNCHANGED <<step, title, sector, suggested, filings, asks, chosen>> /\ submitting'
    BY <1>7 DEF Submit
  <2>3. step = 3 /\ title /\ sector # "stray" /\ suggested # "stray"
    BY <1>7 DEF Submit, SmoothInv, SmoothDraft
  <2>4. SmoothPosts'
    BY <1>7, <2>1, <2>2, <2>3 DEF Submit, SmoothPosts, InFlight, ReportPosts
  <2>5. QED
    BY <2>1, <2>2, <2>4 DEF SmoothInv, SmoothAsks, SmoothDraft, InFlight
<1>8. QED
  BY <1>1, <1>2, <1>3, <1>4, <1>5, <1>6, <1>7, SmoothAnswers, SmoothSend, SmoothPosting
     DEF ReportNext

\* A user who waits for each answer has stored the report exactly once when the
\* form says so, with a title and with no sector of another draft.
THEOREM SmoothReportHolds == ReportSpec => []SmoothReportIsFiled
<1>1. ReportInit => SmoothInv
  BY DEF ReportInit, SmoothInv, SmoothAsks, SmoothPosts, SmoothDraft, InFlight
<1>2. ReportShape /\ SmoothInv /\ [ReportNext]_reportVars => SmoothInv'
  <2>1. ASSUME SmoothInv, UNCHANGED reportVars
        PROVE  SmoothInv'
    BY <2>1 DEF SmoothInv, SmoothAsks, SmoothPosts, SmoothDraft, InFlight, reportVars,
                draftVars, callVars
  <2>2. QED
    BY <2>1, SmoothStep DEF ReportShape
<1>3. SmoothInv => SmoothReportIsFiled
  BY DEF SmoothInv, SmoothPosts, SmoothDraft, SmoothReportIsFiled
<1>4. QED
  BY <1>1, <1>2, <1>3, ReportShaped, PTL DEF ReportSpec

-----------------------------------------------------------------------------
(* The sign-up.                                                            *)

RegistrationFields ==
    /\ as \in {"citizen", "mp"} /\ party \in BOOLEAN
    /\ region \in Regions \cup {Nothing} /\ districtsOf \in Regions \cup {Nothing}
    /\ district \in Districts \cup {Nothing} /\ constituenciesOf \in Districts \cup {Nothing}
    /\ constituency \in Constituencies \cup {Nothing}
    /\ sending \in {"no", "register", "login"}
    /\ account \in BOOLEAN /\ inOrder \in BOOLEAN

RegistrationLoads ==
    /\ districtLoads \in [LoadSlots -> ListLoad(Regions)]
    /\ constituencyLoads \in [LoadSlots -> ListLoad(Districts)]

\* Of the requests in flight, the newest is the one for the selection x above;
\* when it is answered, the list on offer is that of the selection.
Follows(loads, offered, x) ==
    /\ \A s \in Pending(loads) : loads[s].newest => loads[s].of = x
    /\ (\A s \in Pending(loads) : ~loads[s].newest) => offered = x

ListsFollow ==
    /\ Follows(districtLoads, districtsOf, region)
    /\ district # Nothing => Follows(constituencyLoads, constituenciesOf, district)

ChoicesInv == ChoicesFit /\ (inOrder => ListsFollow)

LEMMA RequestedLoads ==
    ASSUME NEW X \in {Regions, Districts}, NEW loads \in [LoadSlots -> ListLoad(X)],
           NEW s \in LoadSlots, NEW x \in X
    PROVE  /\ Requested(loads, s, x) \in [LoadSlots -> ListLoad(X)]
           /\ \A offered : Follows(Requested(loads, s, x), offered, x)
<1>1. [of |-> x, newest |-> TRUE] \in [of : X, newest : BOOLEAN]
      /\ [of |-> x, newest |-> TRUE] # Nothing
  <2>1. [of |-> x, newest |-> TRUE] \in [of : Regions \cup Districts, newest : BOOLEAN]
    OBVIOUS
  <2>2. QED
    BY <2>1, RegistrationAssumption
<1>2. ASSUME NEW z \in LoadSlots, loads[z] # Nothing
      PROVE  /\ [loads[z] EXCEPT !.newest = FALSE] \in [of : X, newest : BOOLEAN]
             /\ ~[loads[z] EXCEPT !.newest = FALSE].newest
  BY <1>2 DEF ListLoad
<1>3. QED
  BY <1>1, <1>2 DEF Requested, Pending, ListLoad, Follows

LEMMA RegistrationFieldsStep ==
    ASSUME RegistrationFields, RegistrationLoads, RegistrationNext
    PROVE  RegistrationFields'
<1> USE DEF RegistrationFields, choices, lists, submission
<1>1. ASSUME NEW s \in LoadSlots, NEW r \in Regions, ChooseRegion(r, s)
      PROVE  RegistrationFields'
  BY <1>1 DEF ChooseRegion, Below
<1>2. ASSUME NEW s \in LoadSlots, NEW d \in Districts, ChooseDistrict(d, s)
      PROVE  RegistrationFields'
  BY <1>2 DEF ChooseDistrict, Below, Pending
<1>3. ASSUME NEW s \in LoadSlots, AnswerDistricts(s) \/ AnswerConstituencies(s)
      PROVE  RegistrationFields'
  BY <1>3 DEF AnswerDistricts, AnswerConstituencies, RegistrationLoads, ListLoad, Overtaken, Pending
<1>4. ASSUME NEW s \in LoadSlots, FailDistricts(s) \/ FailConstituencies(s)
      PROVE  RegistrationFields'
  BY <1>4 DEF FailDistricts, FailConstituencies
<1>5. ASSUME NEW c \in Constituencies, ChooseConstituency(c)
      PROVE  RegistrationFields'
  BY <1>5 DEF ChooseConstituency
<1>6. ASSUME NEW r \in {"citizen", "mp"}, ChooseRole(r)
      PROVE  RegistrationFields'
  BY <1>6 DEF ChooseRole
<1>7. CASE ChooseParty \/ Register \/ AnswerRegister \/ RefuseRegister \/ FailLogin
  BY <1>7 DEF ChooseParty, Register, AnswerRegister, Registered, RefuseRegister, FailLogin
<1>8. CASE LogInAndLeave
  BY <1>8 DEF LogInAndLeave
<1>9. QED
  BY <1>1, <1>2, <1>3, <1>4, <1>5, <1>6, <1>7, <1>8 DEF RegistrationNext

LEMMA RegistrationLoadsStep ==
    ASSUME RegistrationLoads, RegistrationNext
    PROVE  RegistrationLoads'
<1> USE DEF RegistrationLoads, choices, lists, submission
<1>1. ASSUME NEW s \in LoadSlots, NEW r \in Regions, ChooseRegion(r, s)
      PROVE  RegistrationLoads'
  BY <1>1, RequestedLoads DEF ChooseRegion
<1>2. ASSUME NEW s \in LoadSlots, NEW d \in Districts, ChooseDistrict(d, s)
      PROVE  RegistrationLoads'
  BY <1>2, RequestedLoads DEF ChooseDistrict
<1>3. ASSUME NEW s \in LoadSlots, AnswerDistricts(s) \/ FailDistricts(s)
      PROVE  RegistrationLoads'
  BY <1>3 DEF AnswerDistricts, FailDistricts, ListLoad
<1>4. ASSUME NEW s \in LoadSlots, AnswerConstituencies(s) \/ FailConstituencies(s)
      PROVE  RegistrationLoads'
  BY <1>4 DEF AnswerConstituencies, FailConstituencies, ListLoad
<1>5. CASE (\E c \in Constituencies : ChooseConstituency(c)) \/ \E r \in {"citizen", "mp"} : ChooseRole(r)
  BY <1>5 DEF ChooseConstituency, ChooseRole
<1>6. CASE ChooseParty \/ Register \/ AnswerRegister \/ RefuseRegister \/ FailLogin
  BY <1>6 DEF ChooseParty, Register, AnswerRegister, RefuseRegister, FailLogin
<1>7. CASE LogInAndLeave
  BY <1>7 DEF LogInAndLeave, ListLoad
<1>8. QED
  BY <1>1, <1>2, <1>3, <1>4, <1>5, <1>6, <1>7 DEF RegistrationNext

LEMMA RegistrationShaped == RegistrationSpec => [](RegistrationFields /\ RegistrationLoads)
<1>1. RegistrationInit => RegistrationFields /\ RegistrationLoads
  BY DEF RegistrationInit, RegistrationFields, RegistrationLoads, ListLoad
<1>2. RegistrationFields /\ RegistrationLoads /\ [RegistrationNext]_registrationVars
      => RegistrationFields' /\ RegistrationLoads'
  <2>1. ASSUME RegistrationFields, RegistrationLoads, UNCHANGED registrationVars
        PROVE  RegistrationFields' /\ RegistrationLoads'
    BY <2>1 DEF RegistrationFields, RegistrationLoads, registrationVars
  <2>2. QED
    BY <2>1, RegistrationFieldsStep, RegistrationLoadsStep
<1>3. QED
  BY <1>1, <1>2, PTL DEF RegistrationSpec

\* The selects, the lists on offer and the requests of the sign-up keep their
\* shape in whatever order answers come.
THEOREM RegistrationTypeCorrect == RegistrationSpec => []RegistrationTypeOK
<1>1. RegistrationFields /\ RegistrationLoads => RegistrationTypeOK
  BY DEF RegistrationFields, RegistrationLoads, RegistrationTypeOK
<1>2. QED
  BY <1>1, RegistrationShaped, PTL

LEMMA AnsweredLoads ==
    ASSUME NEW X \in {Regions, Districts}, NEW loads \in [LoadSlots -> ListLoad(X)],
           NEW s \in Pending(loads), NEW x, NEW offered,
           ~Overtaken(loads, s), Follows(loads, offered, x)
    PROVE  Follows([loads EXCEPT ![s] = Nothing], loads[s].of, x)
  BY DEF Pending, Overtaken, Follows

LEMMA ChoicesStep ==
    ASSUME RegistrationFields, RegistrationLoads, ChoicesInv, RegistrationNext
    PROVE  ChoicesInv'
<1> USE DEF choices, lists, submission
<1> DEFINE Fit == /\ district # Nothing => RegionOf[district] = region
                  /\ constituency # Nothing => DistrictOf[constituency] = district
<1>1. SUFFICES ASSUME inOrder'
               PROVE  Fit' /\ ListsFollow'
  BY DEF ChoicesInv, ChoicesFit
<1>2. ASSUME NEW s \in LoadSlots, NEW r \in Regions, ChooseRegion(r, s)
      PROVE  Fit' /\ ListsFollow'
  <2>1. ListsFollow /\ region' = r /\ district' = Nothing /\ constituency' = Nothing
    BY <1>1, <1>2 DEF ChooseRegion, ChoicesInv, Below
  <2>2. districtLoads' = Requested(districtLoads, s, r) /\ UNCHANGED districtsOf
    BY <1>2 DEF ChooseRegion
  <2>3. QED
    BY <2>1, <2>2, RequestedLoads DEF ListsFollow, RegistrationLoads
<1>3. ASSUME NEW s \in LoadSlots, NEW d \in Districts, ChooseDistrict(d, s)
      PROVE  Fit' /\ ListsFollow'
  <2>1. ListsFollow /\ Pending(districtLoads) = {}
    BY <1>1, <1>3 DEF ChooseDistrict, ChoicesInv
  <2>2. RegionOf[d] = region
    BY <1>3, <2>1 DEF ChooseDistrict, ListsFollow, Follows
  <2>3. district' = d /\ constituency' = Nothing /\ UNCHANGED <<region, districtsOf, districtLoads>>
    BY <1>3 DEF ChooseDistrict, Below
  <2>4. constituencyLoads' = Requested(constituencyLoads, s, d)
    BY <1>3 DEF ChooseDistrict
  <2>5. QED
    BY <2>1, <2>2, <2>3, <2>4, RequestedLoads DEF ListsFollow, RegistrationLoads
<1>4. ASSUME NEW s \in LoadSlots, AnswerDistricts(s)
      PROVE  Fit' /\ ListsFollow'
  <2>1. ListsFollow /\ Fit /\ ~Overtaken(districtLoads, s) /\ s \in Pending(districtLoads)
    BY <1>1, <1>4 DEF AnswerDistricts, ChoicesInv, ChoicesFit, Pending
  <2>2. UNCHANGED <<region, district, constituency, constituenciesOf, constituencyLoads>>
    BY <1>4 DEF AnswerDistricts
  <2>3. districtLoads' = [districtLoads EXCEPT ![s] = Nothing] /\ districtsOf' = districtLoads[s].of
    BY <1>4 DEF AnswerDistricts
  <2>4. QED
    BY <2>1, <2>2, <2>3, AnsweredLoads DEF ListsFollow, RegistrationLoads
<1>5. ASSUME NEW s \in LoadSlots, AnswerConstituencies(s)
      PROVE  Fit' /\ ListsFollow'
  <2>1. ListsFollow /\ Fit /\ ~Overtaken(constituencyLoads, s) /\ s \in Pending(constituencyLoads)
    BY <1>1, <1>5 DEF AnswerConstituencies, ChoicesInv, ChoicesFit, Pending
  <2>2. UNCHANGED <<region, district, constituency, districtsOf, districtLoads>>
    BY <1>5 DEF AnswerConstituencies
  <2>3. constituencyLoads' = [constituencyLoads EXCEPT ![s] = Nothing]
        /\ constituenciesOf' = constituencyLoads[s].of
    BY <1>5 DEF AnswerConstituencies
  <2>4. QED
    BY <2>1, <2>2, <2>3, AnsweredLoads DEF ListsFollow, RegistrationLoads
<1>6. ASSUME NEW s \in LoadSlots, FailDistricts(s) \/ FailConstituencies(s)
      PROVE  Fit' /\ ListsFollow'
  BY <1>1, <1>6 DEF FailDistricts, FailConstituencies
<1>7. ASSUME NEW c \in Constituencies, ChooseConstituency(c)
      PROVE  Fit' /\ ListsFollow'
  <2>1. ListsFollow /\ Fit /\ Pending(constituencyLoads) = {}
    BY <1>1, <1>7 DEF ChooseConstituency, ChoicesInv, ChoicesFit
  <2>2. DistrictOf[c] = district /\ constituency' = c
    BY <1>7, <2>1 DEF ChooseConstituency, ListsFollow, Follows
  <2>3. UNCHANGED <<region, district, districtsOf, constituenciesOf, districtLoads,
                    constituencyLoads>>
    BY <1>7 DEF ChooseConstituency
  <2>4. QED
    BY <2>1, <2>2, <2>3 DEF ListsFollow
<1>8. CASE \/ \E r \in {"citizen", "mp"} : ChooseRole(r)
           \/ ChooseParty \/ Register \/ AnswerRegister \/ RefuseRegister \/ FailLogin
  <2>1. UNCHANGED <<region, district, constituency, lists, inOrder>>
    BY <1>8 DEF ChooseRole, ChooseParty, Register, AnswerRegister, RefuseRegister, FailLogin
  <2>2. QED
    BY <1>1, <2>1 DEF ChoicesInv, ChoicesFit, ListsFollow, Follows, Pending
<1>9. CASE LogInAndLeave
  BY <1>9 DEF LogInAndLeave, ListsFollow, Follows, Pending
<1>10. QED
  BY <1>2, <1>3, <1>4, <1>5, <1>6, <1>7, <1>8, <1>9 DEF RegistrationNext

\* Who chooses only from lists that have come, and gets them in order, sends a
\* constituency of the district and the region that the page shows.
THEOREM ChoicesHold == RegistrationSpec => []ChoicesFit
<1>1. RegistrationInit => ChoicesInv
  BY DEF RegistrationInit, ChoicesInv, ChoicesFit, ListsFollow, Follows, Pending
<1>2. RegistrationFields /\ RegistrationLoads /\ ChoicesInv
      /\ [RegistrationNext]_registrationVars => ChoicesInv'
  <2>1. ASSUME ChoicesInv, UNCHANGED registrationVars
        PROVE  ChoicesInv'
    BY <2>1 DEF ChoicesInv, ChoicesFit, ListsFollow, Follows, Pending, registrationVars
  <2>2. QED
    BY <2>1, ChoicesStep
<1>3. QED
  BY <1>1, <1>2, RegistrationShaped, PTL DEF RegistrationSpec, ChoicesInv

-----------------------------------------------------------------------------
(* The admin's list of users.                                              *)

AdminRows == rows \in Rows /\ listed \in Rows
             /\ IF fetch = "read" THEN answer \in Rows ELSE answer = Nobody
AdminDialog == /\ dialog \in [user : Members, flags : Flags] \cup {Nobody}
               /\ opened \in Flags \cup {Nobody} /\ (opened = Nobody <=> dialog = Nobody)
AdminPatches == patches \in [PatchSlots -> Patch \cup {Nobody}]
AdminRest == /\ fetch \in {"idle", "asked", "read"} /\ patient \in BOOLEAN
             /\ importModal \in {"closed", "empty", "file"} /\ importing \in BOOLEAN

AdminShape == AdminRows /\ AdminDialog /\ AdminPatches /\ AdminRest

FlagPatches == {s \in PatchSlots : patches[s] # Nobody /\ patches[s].sets = "flags"}

\* An admin who waits sees a list that is the database's, or about to be; at
\* most one suspension is in flight; and nobody has changed the row of the dialog.
PatientInv ==
    patient =>
      /\ fetch = "idle" => listed = rows
      /\ fetch = "read" => answer = rows
      /\ dialog # Nobody => rows[dialog.user] = opened
      /\ \A s \in FlagPatches : /\ rows[patches[s].user] = patches[s].seen
                               /\ \A t \in FlagPatches : t = s

LEMMA FlippedFlag ==
    ASSUME NEW d \in [user : Members, flags : Flags],
           NEW flag \in {"login_suspended", "content_hidden"}
    PROVE  /\ [d EXCEPT !.flags[flag] = ~@] \in [user : Members, flags : Flags]
           /\ [d EXCEPT !.flags[flag] = ~@].user = d.user
  BY DEF Flags

LEMMA PatchedRows ==
    ASSUME AdminRows, NEW p \in Patch
    PROVE  [rows EXCEPT ![p.user] = Patched(p, @)] \in Rows
<1>1. p.user \in Members /\ (p.sets # "role" => p.flags \in Flags)
  BY DEF Patch
<1>2. QED
  BY <1>1 DEF Patched, AdminRows, Rows

LEMMA AdminRestStep == ASSUME AdminRest, AdminNext PROVE AdminRest'
<1> USE DEF AdminRest, importVars, Refetch
<1>1. CASE FocusPage \/ ReadUsers \/ ShowUsers \/ FailUsers \/ CloseSuspendModal
  BY <1>1 DEF FocusPage, ReadUsers, ShowUsers, FailUsers, CloseSuspendModal
<1>2. CASE OpenImport \/ PickFile \/ CancelImport \/ SubmitImport \/ AnswerImport \/ FailImport
  BY <1>2 DEF OpenImport, PickFile, CancelImport, SubmitImport, AnswerImport, FailImport
<1>3. ASSUME NEW u \in Members,
             OpenSuspendModal(u) \/ OtherAdmin(u) \/ \E s \in PatchSlots : ChangeRoleOf(u, s)
      PROVE  AdminRest'
  BY <1>3 DEF OpenSuspendModal, OtherAdmin, ChangeRoleOf
<1>4. ASSUME NEW flag \in {"login_suspended", "content_hidden"}, Toggle(flag)
      PROVE  AdminRest'
  BY <1>4 DEF Toggle
<1>5. ASSUME NEW s \in PatchSlots, ApplySuspension(s) \/ AnswerPatch(s) \/ FailPatch(s)
      PROVE  AdminRest'
  BY <1>5 DEF ApplySuspension, AnswerPatch, FailPatch
<1>6. QED
  BY <1>1, <1>2, <1>3, <1>4, <1>5 DEF AdminNext

LEMMA AdminRowsStep == ASSUME AdminRows, AdminPatches, AdminNext PROVE AdminRows'
<1>1. CASE FocusPage \/ ReadUsers \/ ShowUsers \/ FailUsers \/ CloseSuspendModal
  BY <1>1 DEF AdminRows, FocusPage, ReadUsers, ShowUsers, FailUsers, CloseSuspendModal
<1>2. CASE OpenImport \/ PickFile \/ CancelImport \/ SubmitImport \/ AnswerImport \/ FailImport
  BY <1>2 DEF AdminRows, Refetch, OpenImport, PickFile, CancelImport, SubmitImport, AnswerImport,
              FailImport
<1>3. ASSUME NEW u \in Members, OpenSuspendModal(u) \/ \E s \in PatchSlots : ChangeRoleOf(u, s)
      PROVE  AdminRows'
  BY <1>3 DEF AdminRows, OpenSuspendModal, ChangeRoleOf
<1>4. ASSUME NEW u \in Members, OtherAdmin(u)
      PROVE  AdminRows'
  BY <1>4 DEF AdminRows, OtherAdmin, Rows
<1>5. ASSUME NEW flag \in {"login_suspended", "content_hidden"}, Toggle(flag)
      PROVE  AdminRows'
  BY <1>5 DEF AdminRows, Toggle
<1>6. ASSUME NEW s \in PatchSlots, ApplySuspension(s)
      PROVE  AdminRows'
  BY <1>6 DEF AdminRows, ApplySuspension
<1>7. ASSUME NEW s \in PatchSlots, AnswerPatch(s) \/ FailPatch(s)
      PROVE  AdminRows'
  <2>1. patches[s] \in Patch
    BY <1>7 DEF AnswerPatch, FailPatch, AdminPatches
  <2>2. [rows EXCEPT ![patches[s].user] = Patched(patches[s], @)] \in Rows
    BY <2>1, PatchedRows
  <2>3. QED
    BY <1>7, <2>2 DEF AdminRows, AnswerPatch, FailPatch, Refetch
<1>8. QED
  BY <1>1, <1>2, <1>3, <1>4, <1>5, <1>6, <1>7 DEF AdminNext

LEMMA AdminDialogStep == ASSUME AdminRows, AdminDialog, AdminNext PROVE AdminDialog'
<1>1. CASE FocusPage \/ ReadUsers \/ ShowUsers \/ FailUsers \/ CloseSuspendModal
  BY <1>1 DEF AdminDialog, FocusPage, ReadUsers, ShowUsers, FailUsers, CloseSuspendModal
<1>2. CASE OpenImport \/ PickFile \/ CancelImport \/ SubmitImport \/ AnswerImport \/ FailImport
  BY <1>2 DEF AdminDialog, OpenImport, PickFile, CancelImport, SubmitImport, AnswerImport,
              FailImport
<1>3. ASSUME NEW u \in Members, OtherAdmin(u) \/ \E s \in PatchSlots : ChangeRoleOf(u, s)
      PROVE  AdminDialog'
  BY <1>3 DEF AdminDialog, OtherAdmin, ChangeRoleOf
<1>4. ASSUME NEW u \in Members, OpenSuspendModal(u)
      PROVE  AdminDialog'
  <2>1. listed[u] \in Flags /\ listed[u] # Nobody
    BY AdminAssumption DEF AdminRows, Rows
  <2> DEFINE d == [user |-> u, flags |-> listed[u]]
  <2>2. d \in [user : Members, flags : Flags] /\ d # Nobody
    BY <2>1, AdminAssumption
  <2>3. dialog' = d /\ opened' = listed[u]
    BY <1>4 DEF OpenSuspendModal
  <2> HIDE DEF d
  <2>4. QED
    BY <2>1, <2>2, <2>3 DEF AdminDialog
<1>5. ASSUME NEW flag \in {"login_suspended", "content_hidden"}, Toggle(flag)
      PROVE  AdminDialog'
  <2>1. dialog' \in [user : Members, flags : Flags] /\ opened' = opened /\ opened # Nobody
    BY <1>5, FlippedFlag DEF Toggle, AdminDialog
  <2>2. QED
    BY <2>1, AdminAssumption DEF AdminDialog
<1>6. ASSUME NEW s \in PatchSlots, ApplySuspension(s) \/ AnswerPatch(s) \/ FailPatch(s)
      PROVE  AdminDialog'
  <2>1. UNCHANGED <<dialog, opened>> \/ (dialog' = Nobody /\ opened' = Nobody)
    BY <1>6 DEF ApplySuspension, AnswerPatch, FailPatch
  <2>2. QED
    BY <2>1 DEF AdminDialog
<1>7. QED
  BY <1>1, <1>2, <1>3, <1>4, <1>5, <1>6 DEF AdminNext

LEMMA AdminPatchesStep == ASSUME AdminDialog, AdminPatches, AdminNext PROVE AdminPatches'
<1>1. CASE FocusPage \/ ReadUsers \/ ShowUsers \/ FailUsers \/ CloseSuspendModal
  BY <1>1 DEF AdminPatches, FocusPage, ReadUsers, ShowUsers, FailUsers, CloseSuspendModal
<1>2. CASE OpenImport \/ PickFile \/ CancelImport \/ SubmitImport \/ AnswerImport \/ FailImport
  BY <1>2 DEF AdminPatches, OpenImport, PickFile, CancelImport, SubmitImport, AnswerImport,
              FailImport
<1>3. ASSUME NEW u \in Members, OtherAdmin(u) \/ OpenSuspendModal(u)
      PROVE  AdminPatches'
  BY <1>3 DEF AdminPatches, OtherAdmin, OpenSuspendModal
<1>4. ASSUME NEW u \in Members, NEW s \in PatchSlots, ChangeRoleOf(u, s)
      PROVE  AdminPatches'
  <2>1. [user |-> u, sets |-> "role"] \in Patch
    BY DEF Patch
  <2>2. QED
    BY <1>4, <2>1 DEF AdminPatches, ChangeRoleOf
<1>5. ASSUME NEW flag \in {"login_suspended", "content_hidden"}, Toggle(flag)
      PROVE  AdminPatches'
  BY <1>5 DEF AdminPatches, Toggle
<1>6. ASSUME NEW s \in PatchSlots, ApplySuspension(s)
      PROVE  AdminPatches'
  <2>1. [user |-> dialog.user, sets |-> "flags", flags |-> dialog.flags, seen |-> opened] \in Patch
    BY <1>6 DEF ApplySuspension, AdminDialog, Patch
  <2>2. QED
    BY <1>6, <2>1 DEF AdminPatches, ApplySuspension
<1>7. ASSUME NEW s \in PatchSlots, AnswerPatch(s) \/ FailPatch(s)
      PROVE  AdminPatches'
  BY <1>7 DEF AdminPatches, AnswerPatch, FailPatch
<1>8. QED
  BY <1>1, <1>2, <1>3, <1>4, <1>5, <1>6, <1>7 DEF AdminNext

LEMMA AdminShaped == AdminSpec => []AdminShape
<1>1. AdminInit => AdminShape
  <2> SUFFICES ASSUME AdminInit
               PROVE  AdminShape
    OBVIOUS
  <2>1. NoFlags \in Flags
    BY DEF NoFlags, Flags
  <2>2. AdminRows /\ AdminDialog
    BY <2>1 DEF AdminInit, AdminRows, AdminDialog, Rows
  <2>3. AdminPatches /\ AdminRest
    BY DEF AdminInit, AdminPatches, AdminRest
  <2>4. QED
    BY <2>2, <2>3 DEF AdminShape
<1>2. AdminShape /\ [AdminNext]_adminVars => AdminShape'
  <2>1. ASSUME AdminShape, UNCHANGED adminVars
        PROVE  AdminShape'
    BY <2>1 DEF AdminShape, AdminRows, AdminDialog, AdminPatches, AdminRest, adminVars, importVars
  <2>2. QED
    BY <2>1, AdminRowsStep, AdminDialogStep, AdminPatchesStep, AdminRestStep DEF AdminShape
<1>3. QED
  BY <1>1, <1>2, PTL DEF AdminSpec

\* The rows, the dialogs and the requests of the admin's page keep their shape,
\* also when an answer closes a dialog that was opened after it was asked for.
THEOREM AdminTypeCorrect == AdminSpec => []AdminTypeOK
<1>1. AdminShape => AdminTypeOK
  BY DEF AdminShape, AdminRows, AdminDialog, AdminPatches, AdminRest, AdminTypeOK
<1>2. QED
  BY <1>1, AdminShaped, PTL

-----------------------------------------------------------------------------
LEMMA PatientStep ==
    ASSUME AdminShape, PatientInv, AdminNext
    PROVE  PatientInv'
<1> USE DEF PatientInv, FlagPatches
<1>1. CASE FocusPage \/ ReadUsers \/ ShowUsers \/ FailUsers \/ CloseSuspendModal
  BY <1>1 DEF FocusPage, ReadUsers, ShowUsers, FailUsers, CloseSuspendModal
<1>2. CASE OpenImport \/ PickFile \/ CancelImport \/ SubmitImport \/ AnswerImport \/ FailImport
  BY <1>2 DEF OpenImport, PickFile, CancelImport, SubmitImport, AnswerImport, FailImport, Refetch
<1>3. ASSUME NEW u \in Members, OtherAdmin(u)
      PROVE  PatientInv'
  BY <1>3 DEF OtherAdmin
<1>4. ASSUME NEW u \in Members, NEW s \in PatchSlots, ChangeRoleOf(u, s)
      PROVE  PatientInv'
  BY <1>4 DEF ChangeRoleOf, AdminShape, AdminPatches
<1>5. ASSUME NEW u \in Members, OpenSuspendModal(u)
      PROVE  PatientInv'
  BY <1>5 DEF OpenSuspendModal
<1>6. ASSUME NEW flag \in {"login_suspended", "content_hidden"}, Toggle(flag)
      PROVE  PatientInv'
  <2>1. dialog'.user = dialog.user
    BY <1>6, FlippedFlag DEF Toggle, AdminShape, AdminDialog
  <2>2. QED
    BY <1>6, <2>1 DEF Toggle
<1>7. ASSUME NEW s \in PatchSlots, ApplySuspension(s)
      PROVE  PatientInv'
  BY <1>7 DEF ApplySuspension, Idle, AdminShape, AdminPatches
<1>8. ASSUME NEW s \in PatchSlots, AnswerPatch(s)
      PROVE  PatientInv'
  <2>1. patches' = [patches EXCEPT ![s] = Nobody] /\ fetch' = "asked" /\ patches[s] \in Patch
    BY <1>8 DEF AnswerPatch, Refetch, AdminShape, AdminPatches
  <2>2. CASE patches[s].sets = "flags"
    <3>1. patient => FlagPatches' = {}
      BY <1>8, <2>1, <2>2 DEF AnswerPatch, AdminShape, AdminPatches
    <3>2. QED
      BY <1>8, <2>1, <2>2, <3>1 DEF AnswerPatch
  <2>3. CASE patches[s].sets = "role"
    <3>1. rows' = rows
      BY <1>8, <2>3 DEF AnswerPatch, Patched, AdminShape, AdminRows, Rows
    <3>2. UNCHANGED <<dialog, opened, patient>>
      BY <1>8, <2>3 DEF AnswerPatch
    <3>3. QED
      BY <2>1, <3>1, <3>2 DEF AdminShape, AdminPatches
  <2>4. QED
    BY <2>1, <2>2, <2>3 DEF Patch
<1>9. ASSUME NEW s \in PatchSlots, FailPatch(s)
      PROVE  PatientInv'
  BY <1>9 DEF FailPatch, AdminShape, AdminPatches
<1>10. QED
  BY <1>1, <1>2, <1>3, <1>4, <1>5, <1>6, <1>7, <1>8, <1>9 DEF AdminNext

\* A suspension that is applied leaves the flag that was not touched as it is
\* in the database, if the admin waits for the list and works alone.
THEOREM FlagsStand == AdminSpec => []UntouchedFlagsStand
<1>1. AdminInit => PatientInv
  BY DEF AdminInit, PatientInv, FlagPatches
<1>2. AdminShape /\ PatientInv /\ [AdminNext]_adminVars => PatientInv'
  <2>1. ASSUME PatientInv, UNCHANGED adminVars
        PROVE  PatientInv'
    BY <2>1 DEF PatientInv, FlagPatches, adminVars
  <2>2. QED
    BY <2>1, PatientStep
<1>3. PatientInv => UntouchedFlagsStand
  BY DEF PatientInv, FlagPatches, UntouchedFlagsStand
<1>4. QED
  BY <1>1, <1>2, <1>3, AdminShaped, PTL DEF AdminSpec

-----------------------------------------------------------------------------
(* The briefing and its review gate.                                       *)

LEMMA BriefingTypeStep ==
    ASSUME BriefingTypeOK, BriefingNext
    PROVE  BriefingTypeOK'
<1> USE DEF BriefingTypeOK
<1>1. CASE IssuesChange
  <2>1. PICK r \in [Topics -> 0 .. ReportLimit] :
            /\ reports' = r
            /\ selectedKey' \in Selected(r, selectedKey)
            /\ draftKey' = IF KeyHolds(draftKey, r) THEN draftKey ELSE NoTopic
            /\ confirmed' \in BOOLEAN
            /\ released' \in {"page", released}
    BY <1>1 DEF IssuesChange
  <2>2. selectedKey' \in Topics \cup {NoTopic}
    BY <2>1 DEF Selected, FirstOf, ClustersOf
  <2>3. QED
    BY <1>1, <2>1, <2>2 DEF IssuesChange
<1>2. CASE GenerateDraft \/ TickReview \/ DiscardLock
  BY <1>2 DEF GenerateDraft, Draft, TickReview, DiscardLock, Contents
<1>3. CASE EditPost
  BY <1>3 DEF EditPost, Rewritten, ConfirmedAfterEdit, Contents
<1>4. ASSUME NEW k \in Topics, SelectCluster(k)
      PROVE  BriefingTypeOK'
  BY <1>4 DEF SelectCluster
<1>5. ASSUME NEW p \in PublishSlots, PublishPost(p)
      PROVE  BriefingTypeOK'
  <2>1. PassOfForm \in Passes
    BY DEF PassOfForm, Passes
  <2>2. QED
    BY <1>5, <2>1 DEF PublishPost
<1>6. ASSUME NEW p \in PublishSlots, Published(p) \/ PublishFails(p)
      PROVE  BriefingTypeOK'
  BY <1>6 DEF Published, PublishFails, Contents
<1>7. QED
  BY <1>1, <1>2, <1>3, <1>4, <1>5, <1>6 DEF BriefingNext

LEMMA BriefingShaped == BriefingSpec => []BriefingTypeOK
<1>1. BriefingInit => BriefingTypeOK
  BY DEF BriefingInit, BriefingTypeOK, Selected, FirstOf, ClustersOf, Contents
<1>2. BriefingTypeOK /\ [BriefingNext]_briefingVars => BriefingTypeOK'
  <2>1. ASSUME BriefingTypeOK, UNCHANGED briefingVars
        PROVE  BriefingTypeOK'
    BY <2>1 DEF BriefingTypeOK, briefingVars
  <2>2. QED
    BY <2>1, BriefingTypeStep
<1>3. QED
  BY <1>1, <1>2, PTL DEF BriefingSpec

\* A text that holds some of a draft is locked, or somebody let go of the lock;
\* a lock that is confirmed was reviewed; and so of every post on its way.
GateInv ==
    /\ "draft" \in {heading, text} /\ draftKey = NoTopic => released # "nobody"
    /\ confirmed /\ draftKey # NoTopic => reviewed
    /\ \A p \in PublishSlots : publishing[p] # "nobody"
    /\ published # "nobody"

LEMMA GateStep ==
    ASSUME BriefingTypeOK, GateInv, BriefingNext
    PROVE  GateInv'
<1> USE BriefingAssumption DEF GateInv
<1>1. CASE IssuesChange
  BY <1>1 DEF IssuesChange, KeyHolds
<1>2. CASE GenerateDraft \/ TickReview \/ DiscardLock
  BY <1>2 DEF GenerateDraft, Draft, TickReview, DiscardLock, BriefingTypeOK
<1>3. CASE EditPost
  BY <1>3 DEF EditPost, Rewritten, ConfirmedAfterEdit
<1>4. ASSUME NEW k \in Topics, SelectCluster(k)
      PROVE  GateInv'
  BY <1>4 DEF SelectCluster
<1>5. ASSUME NEW p \in PublishSlots, PublishPost(p)
      PROVE  GateInv'
  <2>1. PassOfForm # "nobody"
    BY <1>5 DEF PublishPost, CanPublish, PassOfForm
  <2>2. QED
    BY <1>5, <2>1 DEF PublishPost, BriefingTypeOK
<1>6. ASSUME NEW p \in PublishSlots, Published(p) \/ PublishFails(p)
      PROVE  GateInv'
  BY <1>6 DEF Published, PublishFails, BriefingTypeOK
<1>7. QED
  BY <1>1, <1>2, <1>3, <1>4, <1>5, <1>6 DEF BriefingNext

\* Text of a draft is published only after a review, or after the office or a
\* refresh of the page let go of its lock.
THEOREM ReviewGateHolds == BriefingSpec => [](BriefingTypeOK /\ GateHoldsDrafts)
<1>1. BriefingInit => GateInv
  BY BriefingAssumption DEF BriefingInit, GateInv
<1>2. BriefingTypeOK /\ GateInv /\ [BriefingNext]_briefingVars => GateInv'
  <2>1. ASSUME GateInv, UNCHANGED briefingVars
        PROVE  GateInv'
    BY <2>1 DEF GateInv, briefingVars
  <2>2. QED
    BY <2>1, GateStep
<1>3. GateInv => GateHoldsDrafts
  BY DEF GateInv, GateHoldsDrafts
<1>4. QED
  BY <1>1, <1>2, <1>3, BriefingShaped, PTL DEF BriefingSpec

-----------------------------------------------------------------------------
(* The weekly list.                                                        *)

\* A list of the MP who opened the page, and the one that was left.
IsHis(list) == list.names \in {listOwner, NoSeat} /\ listKept \in {NoList, list}

\* What is stored is his list, if there is one.
StoreIsHis == IF weekStored = NoList THEN listKept = NoList ELSE IsHis(weekStored)

\* Before the effects have run, before they have run for the user's own
\* constituency or after a logout, before the last save, and afterwards.
Opened(w) ==
    /\ ~w.isMounted /\ w.due = {"load", "save"} /\ w.user # NoSeat /\ StoreIsHis
Loading(w) ==
    /\ w.isMounted /\ w.seat = seatOf(w.user) /\ StoreIsHis
    /\ \/ w.due = {"load", "save"} /\ w.user # NoSeat
       \/ w.due = {"load"} /\ weekStored # NoList
Saving(w) ==
    /\ w.isMounted /\ w.seat = seatOf(w.user) /\ w.due = {"save"}
    /\ w.tasks # NoList /\ IsHis(w.tasks)
Settled(w) ==
    /\ w.isMounted /\ w.seat = seatOf(w.user) /\ w.due = {}
    /\ w.tasks # NoList /\ w.tasks = weekStored /\ IsHis(w.tasks)

InPhase(w) == Opened(w) \/ Loading(w) \/ Saving(w) \/ Settled(w)

WeekInv ==
    solitary =>
      /\ \A t, u \in OpenWeeks : t = u
      /\ OpenWeeks = {} => StoreIsHis
      /\ \A t \in OpenWeeks : weeks[t].user \in {listOwner, NoSeat} /\ InPhase(weeks[t])

LEMMA WeekShape ==
    ASSUME WeeklyTypeOK, NEW t \in OpenWeeks
    PROVE  /\ t \in WeekTabs /\ weeks[t] \in FocusList
           /\ weeks[t] = [user |-> weeks[t].user, seat |-> weeks[t].seat, tasks |-> weeks[t].tasks,
                          isMounted |-> weeks[t].isMounted, due |-> weeks[t].due]
           /\ weeks[t].user \in Seats \cup {NoSeat} /\ weeks[t].seat \in Seats
           /\ weeks[t].tasks \in Agenda \cup {NoList} /\ weeks[t].due \subseteq {"load", "save"}
           /\ seatOf(weeks[t].user) \in Seats
  BY WeeklyAssumption DEF WeeklyTypeOK, OpenWeeks, FocusList, seatOf

LEMMA EffectsShape ==
    ASSUME WeeklyTypeOK, NEW t \in OpenWeeks
    PROVE  /\ AfterEffects(weeks[t]) \in FocusList
           /\ AfterEffects(weeks[t]).tasks = NoList
                => "load" \notin weeks[t].due /\ weeks[t].tasks = NoList
<1>1. \A seat \in Seats : getDefaultTasks(seat) \in Agenda
  BY DEF getDefaultTasks, Agenda
<1>2. AfterEffects(weeks[t]) \in FocusList
  BY <1>1, WeekShape DEF AfterEffects, FocusList, Found, WeeklyTypeOK
<1>3. NoList \notin Agenda
  BY WeeklyAssumption
<1>4. AfterEffects(weeks[t]).tasks = NoList => "load" \notin weeks[t].due /\ weeks[t].tasks = NoList
  BY <1>1, <1>3, WeekShape DEF AfterEffects
<1>5. QED
  BY <1>2, <1>4

\* A tab whose list is not loaded has the load before it.
LoadsFirst == \A t \in OpenWeeks : weeks[t].tasks = NoList => "load" \in weeks[t].due

LEMMA WeekTypeStep ==
    ASSUME WeeklyTypeOK, LoadsFirst, WeeklyNext
    PROVE  WeeklyTypeOK' /\ LoadsFirst'
<1> USE WeeklyAssumption
<1>1. ASSUME NEW t \in WeekTabs, RunEffects(t)
      PROVE  WeeklyTypeOK' /\ LoadsFirst'
  <2>1. Saved(weeks[t]) \in Agenda \cup {NoList}
    BY <1>1, WeekShape DEF RunEffects, Saved, WeeklyTypeOK
  <2>2. WeeklyTypeOK'
    BY <1>1, <2>1, EffectsShape DEF RunEffects, WeeklyTypeOK
  <2>3. AfterEffects(weeks[t]).tasks # NoList
    BY <1>1, EffectsShape DEF RunEffects, LoadsFirst
  <2>4. LoadsFirst'
    BY <1>1, <2>3 DEF RunEffects, LoadsFirst, OpenWeeks, WeeklyTypeOK
  <2>5. QED
    BY <2>2, <2>4
<1>2. ASSUME NEW t \in OpenWeeks, NEW tasks \in Agenda, SetTasks(t, tasks), solitary' \in BOOLEAN
      PROVE  WeeklyTypeOK' /\ LoadsFirst'
  <2> DEFINE after == [weeks[t] EXCEPT !.tasks = tasks, !.due = {"save"}]
  <2>1. after \in FocusList /\ after.tasks # NoList
    BY WeekShape DEF FocusList, Agenda
  <2>2. weeks' = [weeks EXCEPT ![t] = after]
    BY <1>2, WeekShape DEF SetTasks, WeeklyTypeOK
  <2> HIDE DEF after
  <2>3. weeks' \in [WeekTabs -> FocusList \cup {NoList}]
    BY <2>1, <2>2 DEF WeeklyTypeOK
  <2>4. WeeklyTypeOK'
    BY <1>2, <2>3 DEF SetTasks, WeeklyTypeOK
  <2>5. LoadsFirst'
    BY <2>1, <2>2 DEF LoadsFirst, OpenWeeks, WeeklyTypeOK
  <2>6. QED
    BY <2>4, <2>5
<1>3. ASSUME NEW t \in WeekTabs, NEW chore \in Chores, TurnChore(t, chore)
      PROVE  WeeklyTypeOK' /\ LoadsFirst'
  <2>1. weeks[t].tasks \in Agenda
    BY <1>3, WeekShape DEF TurnChore, AtRest, LoadsFirst
  <2>2. [weeks[t].tasks EXCEPT !.chores =
           IF chore \in @ THEN @ \ {chore} ELSE @ \cup {chore}] \in Agenda
    BY <2>1 DEF Agenda
  <2>3. QED
    BY <1>2, <1>3, <2>2 DEF TurnChore, WeeklyTypeOK
<1>4. ASSUME NEW t \in WeekTabs, DeleteFirst(t)
      PROVE  WeeklyTypeOK' /\ LoadsFirst'
  <2>1. weeks[t].tasks \in Agenda
    BY <1>4, WeekShape DEF DeleteFirst, AtRest, LoadsFirst
  <2>2. [weeks[t].tasks EXCEPT !.names = NoSeat] \in Agenda
    BY <2>1 DEF Agenda
  <2>3. QED
    BY <1>2, <1>4, <2>2 DEF DeleteFirst, WeeklyTypeOK
<1>5. ASSUME NEW t \in WeekTabs, ResetTasks(t)
      PROVE  WeeklyTypeOK' /\ LoadsFirst'
  <2>1. getDefaultTasks(weeks[t].seat) \in Agenda
    BY <1>5, WeekShape DEF ResetTasks, getDefaultTasks, Agenda
  <2>2. QED
    BY <1>2, <1>5, <2>1 DEF ResetTasks, WeeklyTypeOK
<1>6. ASSUME NEW t \in WeekTabs, EndSession(t)
      PROVE  WeeklyTypeOK' /\ LoadsFirst'
  <2> DEFINE after == [weeks[t] EXCEPT !.user = NoSeat, !.seat = HomeSeat,
                                       !.due = {e \in {"load"} : weeks[t].seat # HomeSeat}]
  <2>1. after \in FocusList /\ after.tasks = weeks[t].tasks
    BY <1>6, WeekShape DEF EndSession, FocusList
  <2>2. weeks' = [weeks EXCEPT ![t] = after]
    BY <1>6, WeekShape DEF EndSession, WeeklyTypeOK
  <2>3. weeks[t].tasks # NoList
    BY <1>6 DEF EndSession, AtRest, LoadsFirst
  <2> HIDE DEF after
  <2>4. weeks' \in [WeekTabs -> FocusList \cup {NoList}]
    BY <2>1, <2>2 DEF WeeklyTypeOK
  <2>5. WeeklyTypeOK'
    BY <1>6, <2>4 DEF EndSession, WeeklyTypeOK
  <2>6. LoadsFirst'
    BY <2>1, <2>2, <2>3 DEF LoadsFirst, OpenWeeks, WeeklyTypeOK
  <2>7. QED
    BY <2>5, <2>6
<1>7. ASSUME NEW t \in WeekTabs, CloseWeek(t)
      PROVE  WeeklyTypeOK' /\ LoadsFirst'
  BY <1>7 DEF CloseWeek, WeeklyTypeOK, LoadsFirst, OpenWeeks
<1>8. ASSUME NEW t \in WeekTabs, NEW who \in Seats \cup {NoSeat}, NEW direct \in BOOLEAN,
             OpenWeek(t, who, direct)
      PROVE  WeeklyTypeOK' /\ LoadsFirst'
  <2>1. seatOf(who) \in Seats
    BY DEF seatOf
  <2>2. QED
    BY <1>8, <2>1 DEF OpenWeek, WeeklyTypeOK, LoadsFirst, OpenWeeks, FocusList
<1>9. QED
  BY <1>1, <1>3, <1>4, <1>5, <1>6, <1>7, <1>8 DEF WeeklyNext

\* The only tab that is open goes on in some phase.
LEMMA TabGoesOn ==
    ASSUME WeeklyTypeOK, WeekInv, solitary, NEW t \in OpenWeeks, NEW after \in FocusList,
           weeks' = [weeks EXCEPT ![t] = after], UNCHANGED listOwner,
           after.user \in {listOwner, NoSeat}, InPhase(after)'
    PROVE  WeekInv'
<1>1. t \in WeekTabs /\ weeks'[t] = after
  BY DEF OpenWeeks, WeeklyTypeOK
<1>2. \A u \in OpenWeeks' : u = t
  BY DEF WeekInv, OpenWeeks, WeeklyTypeOK
<1>3. t \in OpenWeeks'
  BY <1>1, WeeklyAssumption DEF OpenWeeks
<1>4. \A u \in OpenWeeks' : weeks'[u] = after
  BY <1>1, <1>2
<1>5. QED
  BY <1>2, <1>3, <1>4 DEF WeekInv, InPhase, Opened, Loading, Saving, Settled

LEMMA EffectsKeepList ==
    ASSUME WeeklyTypeOK, WeekInv, solitary, NEW t \in WeekTabs, RunEffects(t)
    PROVE  WeekInv'
<1> DEFINE w == weeks[t]
<1>1. t \in OpenWeeks /\ w.user \in {listOwner, NoSeat} /\ InPhase(w) /\ w.due # {}
  BY DEF RunEffects, WeekInv
<1>2. PICK after \in FocusList : after = AfterEffects(w)
  BY <1>1, EffectsShape
<1>3. weekStored' = Saved(w) /\ UNCHANGED <<listOwner, listKept>>
  BY DEF RunEffects
<1>4. /\ after.user = w.user /\ after.seat = seatOf(w.user) /\ after.isMounted
      /\ after.due = (IF "load" \in w.due THEN {"save"} ELSE {})
                     \cup (IF seatOf(w.user) # w.seat THEN {"load"} ELSE {})
  BY <1>2 DEF AfterEffects
<1>5. /\ "load" \notin w.due => after.tasks = w.tasks
      /\ "load" \in w.due /\ weekStored # NoList => after.tasks = weekStored
      /\ "load" \in w.due /\ weekStored = NoList => after.tasks = getDefaultTasks(w.seat)
  BY <1>2 DEF AfterEffects, Found
<1>6. \A seat \in Seats : getDefaultTasks(seat) \in Agenda /\ getDefaultTasks(seat) # NoList
                         /\ getDefaultTasks(seat).names = seat
  BY WeeklyAssumption DEF getDefaultTasks, Agenda
<1>7. w.seat \in Seats /\ (w.user # NoSeat => seatOf(w.user) = listOwner)
  BY <1>1, WeekShape DEF seatOf
<1> HIDE DEF w
<1>8. ASSUME Opened(w)
      PROVE  InPhase(after)'
  <2>1. weekStored' = weekStored /\ w.due = {"load", "save"} /\ StoreIsHis /\ w.user # NoSeat
    BY <1>3, <1>8 DEF Opened, Saved
  <2>2. CASE seatOf(w.user) = w.seat
    <3>1. after.tasks # NoList /\ IsHis(after.tasks)'
      BY <1>3, <1>5, <1>6, <1>7, <2>1, <2>2 DEF StoreIsHis, IsHis
    <3>2. QED
      BY <1>4, <2>1, <2>2, <3>1 DEF InPhase, Saving
  <2>3. CASE seatOf(w.user) # w.seat
    BY <1>3, <1>4, <2>1, <2>3 DEF InPhase, Loading, StoreIsHis, IsHis
  <2>4. QED
    BY <2>2, <2>3
<1>9. ASSUME Loading(w)
      PROVE  InPhase(after)'
  <2>1. seatOf(w.user) = w.seat /\ "load" \in w.due /\ StoreIsHis
        /\ (weekStored = NoList => w.user # NoSeat)
    BY <1>9 DEF Loading
  <2>2. after.tasks # NoList /\ IsHis(after.tasks)'
    BY <1>3, <1>5, <1>6, <1>7, <2>1 DEF StoreIsHis, IsHis
  <2>3. QED
    BY <1>4, <2>1, <2>2 DEF InPhase, Saving
<1>10. ASSUME Saving(w)
      PROVE  InPhase(after)'
  BY <1>3, <1>4, <1>5, <1>10 DEF Saving, Saved, InPhase, Settled, IsHis
<1>11. InPhase(after)'
  BY <1>1, <1>8, <1>9, <1>10 DEF InPhase, Settled
<1>12. weeks' = [weeks EXCEPT ![t] = after]
  BY <1>2 DEF RunEffects, w
<1>13. QED
  BY <1>1, <1>4, <1>11, <1>12, <1>3, TabGoesOn

\* What is his in the list remains his in one that he has changed.
LEMMA ChangeKeepsList ==
    ASSUME WeeklyTypeOK, WeekInv, solitary, NEW t \in OpenWeeks, AtRest(t),
           NEW tasks \in Agenda, SetTasks(t, tasks), tasks.names \in {listOwner, NoSeat}
    PROVE  WeekInv'
<1>1. weeks[t].user \in {listOwner, NoSeat} /\ Settled(weeks[t])
  BY DEF WeekInv, AtRest, InPhase, Opened, Loading, Saving
<1>2. PICK after \in FocusList : after = [weeks[t] EXCEPT !.tasks = tasks, !.due = {"save"}]
  BY WeekShape DEF FocusList
<1>3. weeks' = [weeks EXCEPT ![t] = after]
  BY <1>2, WeekShape DEF SetTasks, WeeklyTypeOK
<1>4. /\ after.user = weeks[t].user /\ after.seat = weeks[t].seat /\ after.isMounted
      /\ after.tasks = tasks /\ after.due = {"save"}
  BY <1>1, <1>2, WeekShape DEF Settled
<1>5. tasks # NoList /\ IsHis(tasks)'
  BY WeeklyAssumption DEF SetTasks, IsHis
<1>6. Saving(after)'
  BY <1>1, <1>4, <1>5 DEF Saving, Settled
<1>7. QED
  BY <1>1, <1>3, <1>4, <1>6, TabGoesOn DEF InPhase, SetTasks

LEMMA WeekInvStep ==
    ASSUME WeeklyTypeOK, LoadsFirst, WeekInv, WeeklyNext
    PROVE  WeekInv'
<1> SUFFICES ASSUME solitary'
             PROVE  WeekInv'
  BY DEF WeekInv
<1>0. solitary
  BY DEF WeeklyTypeOK, WeeklyNext, RunEffects, DeleteFirst, ResetTasks, EndSession, CloseWeek,
         OpenWeek, TurnChore
<1>1. ASSUME NEW t \in WeekTabs, RunEffects(t)
      PROVE  WeekInv'
  BY <1>0, <1>1, EffectsKeepList
<1>2. ASSUME NEW t \in OpenWeeks, AtRest(t)
      PROVE  /\ weeks[t].user \in {listOwner, NoSeat} /\ Settled(weeks[t])
             /\ weeks[t].tasks \in Agenda /\ weeks[t].tasks.names \in {listOwner, NoSeat}
  <2>1. weeks[t].user \in {listOwner, NoSeat} /\ Settled(weeks[t])
    BY <1>0, <1>2 DEF WeekInv, AtRest, InPhase, Opened, Loading, Saving
  <2>2. QED
    BY <2>1, WeekShape DEF Settled, IsHis
<1>3. ASSUME NEW t \in WeekTabs, NEW chore \in Chores, TurnChore(t, chore)
      PROVE  WeekInv'
  <2>1. PICK tasks \in Agenda : SetTasks(t, tasks) /\ tasks.names = weeks[t].tasks.names
    BY <1>2, <1>3 DEF TurnChore, Agenda
  <2>2. QED
    BY <1>0, <1>2, <1>3, <2>1, ChangeKeepsList DEF TurnChore
<1>4. ASSUME NEW t \in WeekTabs, DeleteFirst(t)
      PROVE  WeekInv'
  <2>1. PICK tasks \in Agenda : SetTasks(t, tasks) /\ tasks.names = NoSeat
    BY <1>2, <1>4 DEF DeleteFirst, Agenda
  <2>2. QED
    BY <1>0, <1>4, <2>1, ChangeKeepsList DEF DeleteFirst
<1>5. ASSUME NEW t \in WeekTabs, ResetTasks(t)
      PROVE  WeekInv'
  <2>1. weeks[t].seat = listOwner
    BY <1>2, <1>5 DEF ResetTasks, Settled, seatOf
  <2>2. /\ getDefaultTasks(weeks[t].seat) \in Agenda
        /\ getDefaultTasks(weeks[t].seat).names = listOwner
    BY <1>5, <2>1, WeekShape DEF ResetTasks, getDefaultTasks, Agenda
  <2>3. QED
    BY <1>0, <1>5, <2>2, ChangeKeepsList DEF ResetTasks
<1>6. ASSUME NEW t \in WeekTabs, EndSession(t)
      PROVE  WeekInv'
  <2>1. t \in OpenWeeks /\ AtRest(t) /\ UNCHANGED <<weekStored, listOwner, listKept>>
    BY <1>6 DEF EndSession
  <2>2. PICK after \in FocusList :
            after = [weeks[t] EXCEPT !.user = NoSeat, !.seat = HomeSeat,
                                     !.due = {e \in {"load"} : weeks[t].seat # HomeSeat}]
    BY <2>1, WeekShape, WeeklyAssumption DEF FocusList
  <2>3. weeks' = [weeks EXCEPT ![t] = after]
    BY <1>6, <2>2, WeekShape DEF EndSession, WeeklyTypeOK
  <2>4. /\ after.user = NoSeat /\ after.seat = seatOf(NoSeat)
        /\ after.isMounted = weeks[t].isMounted /\ after.tasks = weeks[t].tasks
        /\ after.due = {} \/ after.due = {"load"}
    BY <2>1, <2>2, WeekShape DEF seatOf
  <2>5. Settled(weeks[t])
    BY <1>2, <2>1
  <2>6. CASE after.due = {}
    <3>1. Settled(after)'
      BY <2>1, <2>4, <2>5, <2>6 DEF Settled, IsHis
    <3>2. QED
      BY <1>0, <2>1, <2>3, <2>4, <3>1, TabGoesOn DEF InPhase
  <2>7. CASE after.due = {"load"}
    <3>1. Loading(after)'
      BY <2>1, <2>4, <2>5, <2>7 DEF Settled, Loading, StoreIsHis, IsHis
    <3>2. QED
      BY <1>0, <2>1, <2>3, <2>4, <3>1, TabGoesOn DEF InPhase
  <2>8. QED
    BY <2>4, <2>6, <2>7
<1>7. ASSUME NEW t \in WeekTabs, CloseWeek(t)
      PROVE  WeekInv'
  <2>1. t \in OpenWeeks /\ Settled(weeks[t]) /\ UNCHANGED <<weekStored, listOwner, listKept>>
    BY <1>2, <1>7 DEF CloseWeek
  <2>2. OpenWeeks' = {}
    BY <1>0, <1>7, <2>1 DEF CloseWeek, WeekInv, OpenWeeks, WeeklyTypeOK
  <2>3. StoreIsHis'
    BY <2>1 DEF Settled, StoreIsHis, IsHis
  <2>4. QED
    BY <2>2, <2>3 DEF WeekInv
<1>8. ASSUME NEW t \in WeekTabs, NEW who \in Seats \cup {NoSeat}, NEW direct \in BOOLEAN,
             OpenWeek(t, who, direct)
      PROVE  WeekInv'
  <2>1. /\ OpenWeeks = {} /\ who # NoSeat /\ listOwner' = who /\ listOwner \in {NoSeat, who}
        /\ UNCHANGED <<weekStored, listKept>>
    BY <1>8 DEF OpenWeek
  <2>2. StoreIsHis'
    BY <1>0, <2>1 DEF WeekInv, StoreIsHis, IsHis
  <2>3. PICK seat \in Seats :
            weeks' = [weeks EXCEPT ![t] =
                        [user |-> who, seat |-> seat, tasks |-> NoList, isMounted |-> FALSE,
                         due |-> {"load", "save"}]]
    BY <1>8, WeeklyAssumption DEF OpenWeek, seatOf
  <2>4. OpenWeeks' \subseteq {t} /\ weeks'[t].user = who /\ Opened(weeks[t])'
    BY <2>1, <2>2, <2>3 DEF OpenWeeks, WeeklyTypeOK, Opened
  <2>5. QED
    BY <2>1, <2>2, <2>4 DEF WeekInv, InPhase
<1>9. QED
  BY <1>1, <1>3, <1>4, <1>5, <1>6, <1>7, <1>8 DEF WeeklyNext

\* An MP with one tab at a time finds the weekly list as he left it, and no
\* constituency in it but his, however often the effects load and save it.
THEOREM WeekIsKept == WeeklySpec => [](WeeklyTypeOK /\ WeeklyListIsKept)
<1>1. WeeklyInit => WeeklyTypeOK /\ LoadsFirst /\ WeekInv
  BY DEF WeeklyInit, WeeklyTypeOK, LoadsFirst, WeekInv, OpenWeeks, StoreIsHis
<1>2. WeeklyTypeOK /\ LoadsFirst /\ WeekInv /\ [WeeklyNext]_weeklyVars
      => WeeklyTypeOK' /\ LoadsFirst' /\ WeekInv'
  <2>1. ASSUME WeeklyTypeOK, LoadsFirst, WeekInv, UNCHANGED weeklyVars
        PROVE  WeeklyTypeOK' /\ LoadsFirst' /\ WeekInv'
    BY <2>1 DEF weeklyVars, WeeklyTypeOK, LoadsFirst, WeekInv, OpenWeeks, InPhase, Opened, Loading,
                Saving, Settled, StoreIsHis, IsHis
  <2>2. QED
    BY <2>1, WeekTypeStep, WeekInvStep
<1>3. WeekInv => WeeklyListIsKept
  <2> SUFFICES ASSUME WeekInv, solitary, \A t \in OpenWeeks : AtRest(t)
               PROVE  /\ \A t \in OpenWeeks : weeks[t].tasks = weekStored
                      /\ weekStored # NoList => weekStored.names \in {listOwner, NoSeat}
                      /\ listKept # NoList => weekStored = listKept
    BY DEF WeeklyListIsKept
  <2>1. \A t \in OpenWeeks : Settled(weeks[t])
    BY DEF WeekInv, AtRest, InPhase, Opened, Loading, Saving
  <2>2. StoreIsHis
    BY <2>1 DEF WeekInv, Settled, StoreIsHis, IsHis
  <2>3. QED
    BY <2>1, <2>2 DEF Settled, StoreIsHis, IsHis
<1>4. QED
  BY <1>1, <1>2, <1>3, PTL DEF WeeklySpec
=============================================================================

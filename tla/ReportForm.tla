----------------------------- MODULE ReportForm -----------------------------
(***************************************************************************)
(* The form with which a citizen reports an issue:                         *)
(* frontend/src/components/ReportModal.tsx.  It has four steps: details,   *)
(* location, photos, confirmation.  Leaving the first step asks the        *)
(* classifier for a sector, leaving the third sends the report.            *)
(*                                                                         *)
(* The component stays mounted while the dialog is closed, and its         *)
(* handlers are asynchronous functions that nothing cancels: an answer     *)
(* that comes after the dialog was closed changes the state of the draft   *)
(* that is there by then.  What the user types is abstracted to whether    *)
(* the field is empty, a sector to where it comes from.                    *)
(***************************************************************************)
EXTENDS Naturals

CONSTANTS
    AskSlots,    \* classifications that may be in flight together
    PostSlots,   \* reports that may be in flight together
    NoCall,      \* the value of an unused slot
    PhotoLimit   \* most photos of a report: 6

ASSUME ReportAssumption == PhotoLimit \in Nat

VARIABLES
    isOpen,      \* the dialog is shown
    step,        \* the step of the form, 1 to 4
    title,       \* the title is filled in
    address,     \* the address is filled in
    sector,      \* where the sector of the draft comes from
    suggested,   \* where the suggestion that is shown comes from
    loading,     \* classificationLoading
    submitting,  \* the report is being sent
    photos,      \* how many photos the draft has
    previews,    \* how many object URLs exist
    asks,        \* asks[c]: a classification in flight
    posts        \* posts[c]: a report in flight

\* What the properties remember; no handler reads these.
VARIABLES
    chosen,      \* the user has chosen a sector for this draft
    filings,     \* how often this draft was stored, up to 2
    smooth       \* no overlap of one request with the next step, no lost answer

draftVars == <<isOpen, step, title, address, sector, photos, previews>>
callVars == <<suggested, loading, submitting, asks, posts>>
reportVars == <<draftVars, callVars, chosen, filings, smooth>>

-----------------------------------------------------------------------------
\* A classification of the draft's text as it is, as it was before an edit,
\* or of the text of an earlier draft.
Texts == {"current", "outdated", "stray"}
Sources == Texts \cup {"none"}

\* A classification in flight: of what text, and whether the user pressed
\* Continue for it.
Classification == [about : Texts, continues : BOOLEAN]

\* A report in flight: of this draft or an earlier one, with which sector,
\* with a title or without.
Post == [own : BOOLEAN, sector : Sources \cup {"user"}, chosen : BOOLEAN, titled : BOOLEAN]

InFlight(calls) == {c \in DOMAIN calls : calls[c] # NoCall}

\* What an edit, or the end of the draft, makes of a text.
Edited(text) == IF text = "current" THEN "outdated" ELSE text

\* canProceed
CanProceed ==
    /\ step = 1 => title
    /\ step = 2 => address

\* The sector after a classification: the one there was, or else the new one.
SectorAfter_Overrides(about) == about
SectorAfter(about) == IF sector = "none" THEN about ELSE sector

\* The object URLs after the form was cleared.
PreviewsLeft == previews - photos

\* How many of n more files go beyond the limit.
Surplus_None(n) == 0
Surplus(n) == IF photos + n > PhotoLimit THEN photos + n - PhotoLimit ELSE 0

\* Whether the button of the third step sends the report.
MaySubmit == CanProceed /\ ~submitting

\* The step after an attempt to send the report: only an answer confirms it.
StepAfterSend_Always(ok) == 4
StepAfterSend(ok) == IF ok THEN 4 ELSE step

-----------------------------------------------------------------------------
ReportInit ==
    /\ isOpen = FALSE /\ step = 1 /\ title = FALSE /\ address = FALSE
    /\ sector = "none" /\ suggested = "none" /\ chosen = FALSE
    /\ loading = FALSE /\ submitting = FALSE
    /\ photos = 0 /\ previews = 0
    /\ asks = [c \in AskSlots |-> NoCall] /\ posts = [c \in PostSlots |-> NoCall]
    /\ filings = 0 /\ smooth = TRUE

\* The page sets showReportModal.
OpenReport ==
    /\ ~isOpen /\ isOpen' = TRUE
    /\ UNCHANGED <<step, title, address, sector, photos, previews, callVars, chosen,
                   filings, smooth>>

\* The first step: the title and the description, which are what is classified.
EditDetails ==
    /\ isOpen /\ step = 1
    /\ title' \in BOOLEAN
    /\ sector' = Edited(sector) /\ suggested' = Edited(suggested)
    /\ asks' = [c \in AskSlots |-> IF asks[c] = NoCall THEN NoCall
                                ELSE [asks[c] EXCEPT !.about = Edited(@)]]
    /\ smooth' = (smooth /\ InFlight(asks) = {})
    /\ UNCHANGED <<isOpen, step, address, photos, previews, loading, submitting, posts,
                   chosen, filings>>

\* The first step: a sector is chosen by hand.
ChooseSector ==
    /\ isOpen /\ step = 1
    /\ sector' = "user" /\ chosen' = TRUE
    /\ UNCHANGED <<isOpen, step, title, address, photos, previews, callVars, filings, smooth>>

\* classifyDraft sends the text.
Send(c, continues) ==
    /\ title
    /\ asks[c] = NoCall
    /\ asks' = [asks EXCEPT ![c] = [about |-> "current", continues |-> continues]]
    /\ loading' = TRUE
    /\ UNCHANGED <<draftVars, suggested, submitting, posts, chosen, filings>>

\* The first step: "Run AI now" or "Refresh AI", which a running
\* classification hides.
RunAI(c) ==
    /\ isOpen /\ step = 1 /\ ~loading
    /\ Send(c, FALSE)
    /\ UNCHANGED smooth

\* handleContinue in the first step.
ContinueDetails(c) ==
    /\ isOpen /\ step = 1 /\ CanProceed /\ ~submitting
    /\ Send(c, TRUE)
    /\ smooth' = (smooth /\ InFlight(asks) = {})

\* The classification is answered, or fails.  Then handleContinue goes on to
\* the second step, wherever the form is by now.
AnswerAsk(c, ok) ==
    /\ asks[c] # NoCall
    /\ suggested' = IF ok THEN asks[c].about ELSE "none"
    /\ sector' = IF ok THEN SectorAfter(asks[c].about) ELSE sector
    /\ loading' = FALSE
    /\ step' = IF asks[c].continues THEN 2 ELSE step
    /\ asks' = [asks EXCEPT ![c] = NoCall]
    /\ UNCHANGED <<isOpen, title, address, photos, previews, submitting, posts, chosen,
                   filings, smooth>>

\* The second step: the address.  Zone and pin are payload.
EditPlace ==
    /\ isOpen /\ step = 2
    /\ address' \in BOOLEAN
    /\ UNCHANGED <<isOpen, step, title, sector, photos, previews, callVars, chosen, filings,
                   smooth>>

\* handleContinue in the second step.
ContinuePlace ==
    /\ isOpen /\ step = 2 /\ CanProceed /\ ~submitting
    /\ step' = 3
    /\ UNCHANGED <<isOpen, title, address, sector, photos, previews, callVars, chosen,
                   filings, smooth>>

\* The third step: some files pass the checks of type and size, get a preview
\* each, and those beyond the limit lose it again.
AddPhotos(n) ==
    /\ isOpen /\ step = 3
    /\ photos' = photos + n - Surplus(n)
    /\ previews' = previews + n - Surplus(n)
    /\ UNCHANGED <<isOpen, step, title, address, sector, callVars, chosen, filings, smooth>>

RemovePhoto ==
    /\ isOpen /\ step = 3 /\ photos > 0
    /\ photos' = photos - 1 /\ previews' = previews - 1
    /\ UNCHANGED <<isOpen, step, title, address, sector, callVars, chosen, filings, smooth>>

Back ==
    /\ isOpen /\ step \in {2, 3}
    /\ step' = step - 1
    /\ UNCHANGED <<isOpen, title, address, sector, photos, previews, callVars, chosen,
                   filings, smooth>>

\* handleContinue in the third step: addIssue sends the report, with the
\* sector of the draft or else the suggested one.
Submit(c) ==
    /\ isOpen /\ step = 3 /\ MaySubmit
    /\ posts[c] = NoCall
    /\ posts' = [posts EXCEPT ![c] =
                   [own |-> TRUE, sector |-> IF sector = "none" THEN suggested ELSE sector,
                    chosen |-> chosen, titled |-> title]]
    /\ submitting' = TRUE
    /\ UNCHANGED <<draftVars, suggested, loading, asks, chosen, filings, smooth>>

\* The API stores the report, unless it has no title, and answers.
Filed(c) ==
    /\ posts[c] # NoCall /\ posts[c].titled
    /\ filings' = IF posts[c].own /\ filings < 2 THEN filings + 1 ELSE filings

EndPost(c) ==
    /\ submitting' = FALSE
    /\ posts' = [posts EXCEPT ![c] = NoCall]
    /\ UNCHANGED <<isOpen, title, address, sector, photos, previews, suggested, loading, asks,
                   chosen>>

\* The answer shows the confirmation, whatever draft the form holds by now.
AnswerPost(c) ==
    /\ Filed(c) /\ EndPost(c)
    /\ step' = StepAfterSend(TRUE)
    /\ UNCHANGED smooth

\* The request is refused or does not arrive, or its answer is lost: the form
\* shows an error and stays where it is.
FailPost(c) ==
    /\ posts[c] # NoCall
    /\ EndPost(c)
    /\ step' = StepAfterSend(FALSE)
    /\ UNCHANGED <<filings, smooth>>

LosePost(c) ==
    /\ Filed(c) /\ EndPost(c)
    /\ smooth' = FALSE
    /\ step' = StepAfterSend(FALSE)

\* resetAndClose: the cross, the overlay, and "Done" of the last step.
ResetAndClose ==
    /\ isOpen
    /\ isOpen' = FALSE /\ step' = 1 /\ title' = FALSE /\ address' = FALSE
    /\ sector' = "none" /\ suggested' = "none" /\ chosen' = FALSE
    /\ photos' = 0 /\ previews' = PreviewsLeft
    /\ loading' = FALSE /\ submitting' = FALSE
    /\ asks' = [c \in AskSlots |-> IF asks[c] = NoCall THEN NoCall
                                ELSE [asks[c] EXCEPT !.about = "stray"]]
    /\ posts' = [c \in PostSlots |-> IF posts[c] = NoCall THEN NoCall
                                 ELSE [posts[c] EXCEPT !.own = FALSE]]
    /\ filings' = 0
    /\ smooth' = (smooth /\ InFlight(asks) = {} /\ InFlight(posts) = {})

ReportNext ==
    \/ OpenReport \/ EditDetails \/ ChooseSector \/ EditPlace \/ ContinuePlace
    \/ Back \/ RemovePhoto \/ ResetAndClose
    \/ \E n \in 1..PhotoLimit + 1 : AddPhotos(n)
    \/ \E c \in AskSlots :
         RunAI(c) \/ ContinueDetails(c) \/ \E ok \in BOOLEAN : AnswerAsk(c, ok)
    \/ \E c \in PostSlots : Submit(c) \/ AnswerPost(c) \/ FailPost(c) \/ LosePost(c)

ReportSpec == ReportInit /\ [][ReportNext]_reportVars

-----------------------------------------------------------------------------
\* Every variable keeps its shape.
ReportTypeOK ==
    /\ step \in 1..4 /\ photos \in 0..PhotoLimit /\ previews \in 0..PhotoLimit
    /\ isOpen \in BOOLEAN /\ title \in BOOLEAN /\ address \in BOOLEAN /\ chosen \in BOOLEAN
    /\ loading \in BOOLEAN /\ submitting \in BOOLEAN /\ smooth \in BOOLEAN
    /\ sector \in Sources \cup {"user"} /\ suggested \in Sources
    /\ asks \in [AskSlots -> Classification \cup {NoCall}] /\ posts \in [PostSlots -> Post \cup {NoCall}]
    /\ filings \in 0..2

\* "the citizen always has override": a sector that the user has chosen is the
\* one that is sent, whatever classifications are answered before and after.
OverrideStands ==
    /\ chosen => sector = "user"
    /\ \A c \in InFlight(posts) : posts[c].chosen => posts[c].sector = "user"

\* Nobody revokes the object URL of a photo that is shown, and none outlives
\* its photo.
PreviewsAreShown == previews = photos

\* A user who waits for each answer before the next step, and loses none, has
\* stored the draft exactly once when the form says so and never before, and
\* sends a title, and no sector that comes from the text of another draft.
SmoothReportIsFiled ==
    smooth =>
      /\ filings = IF step = 4 THEN 1 ELSE 0
      /\ \A c \in InFlight(posts) : posts[c].titled /\ posts[c].sector # "stray"

=============================================================================

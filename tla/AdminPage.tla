------------------------------ MODULE AdminPage ------------------------------
(***************************************************************************)
(* The admin's page, frontend/src/app/admin/page.tsx: the list of users,   *)
(* which SWR fetches and keeps, the select that changes a role and the     *)
(* dialog that suspends.  The dialog copies both flags of the row when it  *)
(* opens and saves both when it is applied.  A second dialog imports users *)
(* from a file.  The list is fetched again after a change, and when the    *)
(* page gets the focus; until it comes, the page and its handlers go by    *)
(* the old rows.  Other admins work on the same rows.                      *)
(*                                                                         *)
(* Of a row only the flags are kept: the role is payload, but a change of  *)
(* it is a patch like any other and fetches the list again.  An import     *)
(* adds rows and leaves those that are there as they are, so of an import  *)
(* the model keeps that it is in flight.                                   *)
(***************************************************************************)
CONSTANTS
    Members,    \* the rows of users
    Nobody,      \* no dialog, no patch, no fetch
    PatchSlots   \* patches that may be in flight together

VARIABLES
    rows,        \* rows[u]: the flags of u in the database
    listed,      \* the rows as the page shows them
    dialog,      \* the dialog: of whom, with which flags
    patches,     \* the patches in flight
    fetch,       \* the fetch of the list: "idle", "asked" or "read"
    answer,      \* the rows that it has read
    importModal, \* the dialog of the import: "closed", "empty" or with a "file"
    importing,   \* an import is in flight

    \* What the properties remember; no handler reads these.
    opened,      \* the flags that the dialog was opened with
    patient      \* the dialog was only opened on a list that had come, nobody else interfered

importVars == <<importModal, importing>>
adminVars == <<rows, listed, dialog, patches, fetch, answer, importVars, opened, patient>>

-----------------------------------------------------------------------------
Flags == [login_suspended : BOOLEAN, content_hidden : BOOLEAN]
Rows == [Members -> Flags]
NoFlags == [login_suspended |-> FALSE, content_hidden |-> FALSE]

ASSUME AdminAssumption == Nobody \notin Flags \cup [user : Members, flags : Flags]

\* A patch in flight: what it sets, and the flags that its user had last seen.
Patch == [user : Members, sets : {"flags"}, flags : Flags, seen : Flags]
         \cup [user : Members, sets : {"role"}]

Idle == \A s \in PatchSlots : patches[s] = Nobody

\* mutate: a fetch begins, and one that began before the change is of no use.
Refetch_Never == "idle"
Refetch == "asked"

\* What the API makes of the flags of a row.
Patched(p, flags) == IF p.sets = "role" THEN flags ELSE p.flags

-----------------------------------------------------------------------------
AdminInit ==
    /\ rows = [u \in Members |-> NoFlags]
    /\ listed = rows
    /\ dialog = Nobody /\ opened = Nobody
    /\ patches = [s \in PatchSlots |-> Nobody]
    /\ fetch = "idle" /\ answer = Nobody /\ patient = TRUE
    /\ importModal = "closed" /\ importing = FALSE

\* The page gets the focus and SWR fetches, unless it does already.
FocusPage ==
    /\ fetch = "idle" /\ fetch' = "asked"
    /\ UNCHANGED <<rows, listed, dialog, patches, answer, opened, patient, importVars>>

\* handleAdminListUsers reads, the page shows; or the fetch fails.
ReadUsers ==
    /\ fetch = "asked" /\ fetch' = "read" /\ answer' = rows
    /\ UNCHANGED <<rows, listed, dialog, patches, opened, patient, importVars>>

ShowUsers ==
    /\ fetch = "read" /\ fetch' = "idle"
    /\ listed' = answer /\ answer' = Nobody
    /\ UNCHANGED <<rows, dialog, patches, opened, patient, importVars>>

FailUsers ==
    /\ fetch # "idle" /\ fetch' = "idle" /\ answer' = Nobody
    /\ patient' = FALSE
    /\ UNCHANGED <<rows, listed, dialog, patches, opened, importVars>>

\* updateRole, from the select in the row.
ChangeRoleOf(u, s) ==
    /\ dialog = Nobody /\ importModal = "closed" /\ patches[s] = Nobody
    /\ patches' = [patches EXCEPT ![s] = [user |-> u, sets |-> "role"]]
    /\ UNCHANGED <<rows, listed, dialog, fetch, answer, opened, patient, importVars>>

\* openSuspendModal copies the flags of the row as it is shown.
OpenSuspendModal(u) ==
    /\ dialog = Nobody /\ importModal = "closed"
    /\ dialog' = [user |-> u, flags |-> listed[u]]
    /\ opened' = listed[u]
    /\ patient' = (patient /\ Idle /\ fetch = "idle")
    /\ UNCHANGED <<rows, listed, patches, fetch, answer, importVars>>

Toggle(flag) ==
    /\ dialog # Nobody
    /\ dialog' = [dialog EXCEPT !.flags[flag] = ~@]
    /\ UNCHANGED <<rows, listed, patches, fetch, answer, opened, patient, importVars>>

CloseSuspendModal ==
    /\ dialog # Nobody
    /\ dialog' = Nobody /\ opened' = Nobody
    /\ UNCHANGED <<rows, listed, patches, fetch, answer, patient, importVars>>

\* applySuspension sends both flags.  The dialog stays until the answer comes.
ApplySuspension(s) ==
    /\ dialog # Nobody /\ patches[s] = Nobody
    /\ patches' = [patches EXCEPT ![s] = [user |-> dialog.user, sets |-> "flags",
                                          flags |-> dialog.flags, seen |-> opened]]
    /\ patient' = (patient /\ Idle)
    /\ UNCHANGED <<rows, listed, dialog, fetch, answer, opened, importVars>>

\* The API writes the row and answers: the list is fetched again, and a
\* suspension closes the dialog, whosever it is by now.
AnswerPatch(s) ==
    LET p == patches[s] IN
    /\ p # Nobody
    /\ rows' = [rows EXCEPT ![p.user] = Patched(p, @)]
    /\ patches' = [patches EXCEPT ![s] = Nobody]
    /\ fetch' = Refetch /\ answer' = Nobody
    /\ dialog' = IF p.sets = "flags" THEN Nobody ELSE dialog
    /\ opened' = IF p.sets = "flags" THEN Nobody ELSE opened
    /\ UNCHANGED <<listed, patient, importVars>>

\* An error, or an expired token, which this page does not refresh: it is
\* logged, and nothing else happens.  The API may have written all the same.
FailPatch(s) ==
    LET p == patches[s] IN
    /\ p # Nobody
    /\ \/ UNCHANGED <<rows, patient>>
       \/ rows' = [rows EXCEPT ![p.user] = Patched(p, @)] /\ patient' = FALSE
    /\ patches' = [patches EXCEPT ![s] = Nobody]
    /\ UNCHANGED <<listed, dialog, fetch, answer, opened, importVars>>

\* "Bulk Import Users" opens its dialog.  No file of an earlier time is in it:
\* the form requires one.
OpenImport ==
    /\ dialog = Nobody /\ importModal = "closed"
    /\ importModal' = "empty"
    /\ UNCHANGED <<rows, listed, dialog, patches, fetch, answer, importing, opened, patient>>

\* The input of the dialog, and its Cancel.
PickFile ==
    /\ importModal # "closed"
    /\ importModal' \in {"empty", "file"}
    /\ UNCHANGED <<rows, listed, dialog, patches, fetch, answer, importing, opened, patient>>

CancelImport ==
    /\ importModal # "closed"
    /\ importModal' = "closed"
    /\ UNCHANGED <<rows, listed, dialog, patches, fetch, answer, importing, opened, patient>>

\* handleImportSubmit; the button is disabled while an import is in flight.
SubmitImport ==
    /\ importModal = "file" /\ ~importing
    /\ importing' = TRUE
    /\ UNCHANGED <<rows, listed, dialog, patches, fetch, answer, importModal, opened, patient>>

\* The import is done: its dialog closes, also one that was opened again
\* meanwhile, and the list is fetched.
AnswerImport ==
    /\ importing /\ importing' = FALSE
    /\ importModal' = "closed"
    /\ fetch' = Refetch /\ answer' = Nobody
    /\ UNCHANGED <<rows, listed, dialog, patches, opened, patient>>

\* An alert; the dialog stays as it is.
FailImport ==
    /\ importing /\ importing' = FALSE
    /\ UNCHANGED <<rows, listed, dialog, patches, fetch, answer, importModal, opened, patient>>

\* Another admin, or another tab, changes a row.
OtherAdmin(u) ==
    /\ \E flags \in Flags : rows' = [rows EXCEPT ![u] = flags]
    /\ patient' = FALSE
    /\ UNCHANGED <<listed, dialog, patches, fetch, answer, opened, importVars>>

AdminNext ==
    \/ FocusPage \/ ReadUsers \/ ShowUsers \/ FailUsers \/ CloseSuspendModal
    \/ OpenImport \/ PickFile \/ CancelImport \/ SubmitImport \/ AnswerImport \/ FailImport
    \/ \E u \in Members :
         \/ OpenSuspendModal(u) \/ OtherAdmin(u)
         \/ \E s \in PatchSlots : ChangeRoleOf(u, s)
    \/ \E flag \in {"login_suspended", "content_hidden"} : Toggle(flag)
    \/ \E s \in PatchSlots : ApplySuspension(s) \/ AnswerPatch(s) \/ FailPatch(s)

AdminSpec == AdminInit /\ [][AdminNext]_adminVars

-----------------------------------------------------------------------------
\* Every variable keeps its shape.
AdminTypeOK ==
    /\ rows \in Rows /\ listed \in Rows
    /\ dialog \in [user : Members, flags : Flags] \cup {Nobody}
    /\ opened \in Flags \cup {Nobody} /\ (opened = Nobody <=> dialog = Nobody)
    /\ patches \in [PatchSlots -> Patch \cup {Nobody}]
    /\ fetch \in {"idle", "asked", "read"}
    /\ IF fetch = "read" THEN answer \in Rows ELSE answer = Nobody
    /\ importModal \in {"closed", "empty", "file"} /\ importing \in BOOLEAN
    /\ patient \in BOOLEAN

\* "granular suspension overrides": a suspension that an admin applies leaves
\* a flag that he did not touch as it is in the database, if he waits for the
\* list before he opens the dialog, no fetch fails, and nobody else works on
\* the accounts.
UntouchedFlagsStand ==
    patient =>
      \A s \in PatchSlots :
        patches[s] # Nobody /\ patches[s].sets = "flags"
          => rows[patches[s].user] = patches[s].seen

=============================================================================

---------------------------- MODULE Registration ----------------------------
(***************************************************************************)
(* The sign-up page, frontend/src/app/register/page.tsx: three selects that *)
(* depend on each other, whose options are fetched when the one above       *)
(* changes, and a submission that registers, logs in and leaves the page.   *)
(*                                                                         *)
(* The effects reset the selections below at once, but the options only     *)
(* when an answer comes; requests are not cancelled, so that answers may     *)
(* come in another order than the requests, or not at all.  Only the         *)
(* constituency is sent; region and district are what the user went by.      *)
(***************************************************************************)
CONSTANTS
    Regions, Districts, Constituencies,
    RegionOf,        \* RegionOf[d]: the region of a district
    DistrictOf,      \* DistrictOf[c]: the district of a constituency
    LoadSlots,       \* requests of each of the two kinds in flight
    Nothing          \* the empty selection; a list that is empty; an unused slot

ASSUME RegistrationAssumption ==
    /\ RegionOf \in [Districts -> Regions] /\ DistrictOf \in [Constituencies -> Districts]
    /\ Nothing \notin Regions \cup Districts \cup Constituencies
    /\ Nothing \notin [of : Regions \cup Districts, newest : BOOLEAN]

VARIABLES
    as,              \* the role that is chosen, "citizen" or "mp"
    region, district, constituency,   \* the selections
    districtsOf,     \* the region whose districts are offered
    constituenciesOf,\* the district whose constituencies are offered
    districtLoads,   \* requests for districts: of which region, the newest or not
    constituencyLoads, \* requests for constituencies
    party,           \* a party is chosen
    sending,         \* what handleSubmit waits for: "no", "register", "login"
    account,         \* the API holds an account of the address that is typed in

    \* What the property remembers; no handler reads it.
    inOrder          \* choices waited for answers, and answers came, in order

registrationVars == <<as, region, district, constituency, districtsOf, constituenciesOf,
    districtLoads, constituencyLoads, party, sending, account, inOrder>>
choices == <<as, region, district, constituency, party>>
lists == <<districtsOf, constituenciesOf, districtLoads, constituencyLoads>>
submission == <<sending, account>>

-----------------------------------------------------------------------------
Pending(loads) == {s \in LoadSlots : loads[s] # Nothing}

\* A request is sent in slot s; those sent before are not the newest any more.
Requested(loads, s, x) ==
    [z \in LoadSlots |->
      IF z = s THEN [of |-> x, newest |-> TRUE]
      ELSE IF loads[z] = Nothing THEN Nothing ELSE [loads[z] EXCEPT !.newest = FALSE]]

\* The answer of slot s is out of order: a newer one has been there.
Overtaken(loads, s) ==
    ~loads[s].newest /\ \A z \in Pending(loads) : ~loads[z].newest

\* What a new region leaves of the selections below it.
Below_Keeps(x) == x
Below(x) == Nothing

-----------------------------------------------------------------------------
RegistrationInit ==
    /\ as = "citizen"
    /\ region = Nothing /\ district = Nothing /\ constituency = Nothing
    /\ districtsOf = Nothing /\ constituenciesOf = Nothing
    /\ districtLoads = [s \in LoadSlots |-> Nothing]
    /\ constituencyLoads = [s \in LoadSlots |-> Nothing]
    /\ party = FALSE /\ sending = "no" /\ account = FALSE
    /\ inOrder = TRUE

\* The role buttons, which a submission does not disable.  The photo that an
\* effect drops when the role is not "mp" any more is payload.
ChooseRole(r) ==
    /\ r # as /\ as' = r
    /\ UNCHANGED <<region, district, constituency, party, lists, submission, inOrder>>

\* A region is chosen: the effect on regionId.  Emptying districtId triggers
\* the effect on districtId, which empties the list of constituencies.
ChooseRegion(r, s) ==
    /\ sending = "no" /\ r # region
    /\ districtLoads[s] = Nothing
    /\ region' = r /\ district' = Below(district) /\ constituency' = Below(constituency)
    /\ districtLoads' = Requested(districtLoads, s, r)
    /\ constituenciesOf' = IF district = Nothing THEN constituenciesOf ELSE Nothing
    /\ UNCHANGED <<as, party, districtsOf, constituencyLoads, submission, inOrder>>

\* The answer to a request for districts replaces the options, an error leaves
\* them.
AnswerDistricts(s) ==
    /\ districtLoads[s] # Nothing
    /\ districtsOf' = districtLoads[s].of
    /\ inOrder' = (inOrder /\ ~Overtaken(districtLoads, s))
    /\ districtLoads' = [districtLoads EXCEPT ![s] = Nothing]
    /\ UNCHANGED <<choices, constituenciesOf, constituencyLoads, submission>>

FailDistricts(s) ==
    /\ districtLoads[s] # Nothing
    /\ inOrder' = FALSE
    /\ districtLoads' = [districtLoads EXCEPT ![s] = Nothing]
    /\ UNCHANGED <<choices, districtsOf, constituenciesOf, constituencyLoads, submission>>

\* One of the districts that are offered is chosen: the effect on districtId.
ChooseDistrict(d, s) ==
    /\ sending = "no" /\ region # Nothing /\ d # district
    /\ RegionOf[d] = districtsOf
    /\ constituencyLoads[s] = Nothing
    /\ district' = d /\ constituency' = Below(constituency)
    /\ constituencyLoads' = Requested(constituencyLoads, s, d)
    /\ inOrder' = (inOrder /\ Pending(districtLoads) = {})
    /\ UNCHANGED <<as, region, party, districtsOf, constituenciesOf, districtLoads,
                   submission>>

AnswerConstituencies(s) ==
    /\ constituencyLoads[s] # Nothing
    /\ constituenciesOf' = constituencyLoads[s].of
    /\ inOrder' = (inOrder /\ ~Overtaken(constituencyLoads, s))
    /\ constituencyLoads' = [constituencyLoads EXCEPT ![s] = Nothing]
    /\ UNCHANGED <<choices, districtsOf, districtLoads, submission>>

FailConstituencies(s) ==
    /\ constituencyLoads[s] # Nothing
    /\ inOrder' = FALSE
    /\ constituencyLoads' = [constituencyLoads EXCEPT ![s] = Nothing]
    /\ UNCHANGED <<choices, districtsOf, constituenciesOf, districtLoads, submission>>

\* One of the constituencies that are offered is chosen.
ChooseConstituency(c) ==
    /\ sending = "no" /\ district # Nothing /\ c # constituency
    /\ DistrictOf[c] = constituenciesOf
    /\ constituency' = c
    /\ inOrder' = (inOrder /\ Pending(constituencyLoads) = {} /\ Pending(districtLoads) = {})
    /\ UNCHANGED <<as, region, district, party, lists, submission>>

\* Of the fields that only an MP fills in, the one that is required.
ChooseParty ==
    /\ as = "mp" /\ sending = "no"
    /\ party' = TRUE
    /\ UNCHANGED <<as, region, district, constituency, lists, submission, inOrder>>

\* handleSubmit: a constituency is required, and of an MP a party; the selects
\* are required by the browser.
Submittable ==
    /\ region # Nothing /\ district # Nothing /\ constituency # Nothing
    /\ as = "mp" => party

Register ==
    /\ sending = "no" /\ Submittable
    /\ sending' = "register"
    /\ UNCHANGED <<choices, lists, account, inOrder>>

\* The API creates the account, unless the address has one.
Registered ==
    /\ sending = "register" /\ ~account
    /\ account' = TRUE

\* It answers, and the page logs in with the same credentials; or the answer
\* is lost and the page shows an error.
AnswerRegister ==
    /\ Registered /\ sending' \in {"login", "no"}
    /\ UNCHANGED <<choices, lists, inOrder>>

\* The API refuses, because the address has an account or for another reason,
\* or the request does not arrive.
RefuseRegister ==
    /\ sending = "register" /\ sending' = "no"
    /\ UNCHANGED <<choices, lists, account, inOrder>>

\* The login fails and the page stays, showing an error.  When it succeeds the
\* user leaves for the home page, and another one may use the form.
FailLogin ==
    /\ sending = "login" /\ sending' = "no"
    /\ UNCHANGED <<choices, lists, account, inOrder>>

LogInAndLeave ==
    /\ sending = "login"
    /\ sending' = "no" /\ account' = FALSE
    /\ as' = "citizen" /\ region' = Nothing /\ district' = Nothing /\ constituency' = Nothing
    /\ districtsOf' = Nothing /\ constituenciesOf' = Nothing
    /\ districtLoads' = [s \in LoadSlots |-> Nothing]
    /\ constituencyLoads' = [s \in LoadSlots |-> Nothing]
    /\ party' = FALSE /\ inOrder' = TRUE

RegistrationNext ==
    \/ \E r \in {"citizen", "mp"} : ChooseRole(r)
    \/ \E s \in LoadSlots :
         \/ \E r \in Regions : ChooseRegion(r, s)
         \/ \E d \in Districts : ChooseDistrict(d, s)
         \/ AnswerDistricts(s) \/ FailDistricts(s)
         \/ AnswerConstituencies(s) \/ FailConstituencies(s)
    \/ \E c \in Constituencies : ChooseConstituency(c)
    \/ ChooseParty \/ Register \/ AnswerRegister \/ RefuseRegister \/ FailLogin \/ LogInAndLeave

RegistrationSpec == RegistrationInit /\ [][RegistrationNext]_registrationVars

-----------------------------------------------------------------------------
ListLoad(X) == [of : X, newest : BOOLEAN] \cup {Nothing}

\* Every variable keeps its shape.
RegistrationTypeOK ==
    /\ as \in {"citizen", "mp"} /\ party \in BOOLEAN
    /\ region \in Regions \cup {Nothing} /\ districtsOf \in Regions \cup {Nothing}
    /\ district \in Districts \cup {Nothing} /\ constituenciesOf \in Districts \cup {Nothing}
    /\ constituency \in Constituencies \cup {Nothing}
    /\ districtLoads \in [LoadSlots -> ListLoad(Regions)]
    /\ constituencyLoads \in [LoadSlots -> ListLoad(Districts)]
    /\ sending \in {"no", "register", "login"}
    /\ account \in BOOLEAN /\ inOrder \in BOOLEAN

\* The chosen constituency lies in the chosen district, and that in the chosen
\* region, of a user who chooses from a list only when no list is on its way,
\* if the lists arrive in order; changing one's mind about the region or the
\* district at any time is fine.
ChoicesFit ==
    inOrder =>
      /\ district # Nothing => RegionOf[district] = region
      /\ constituency # Nothing => DistrictOf[constituency] = district

=============================================================================

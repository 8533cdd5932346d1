------------------------------- MODULE Server -------------------------------
(***************************************************************************)
(* The parts of the server that are checked by one run.                    *)
(*                                                                         *)
(* A behaviour is one of a single part, which its first state chooses; the *)
(* variables of the others do not change.  Two instances of one module     *)
(* share its variables; OidcLogin is one of the parts, and is extended.    *)
(***************************************************************************)
EXTENDS OidcLogin

CONSTANTS
    Unborn, Gone, Default,    \* no row yet, no row any more, a fixed row
    Users, UserNames, Passwords, UserChanges,                   \* of Acc
    Keys,
    Profiles, Values, NewProfiles, ProfileChanges,              \* of Prof
    Sites, SiteProfiles, SiteValues, NewSiteProfiles, SiteProfileChanges, \* of Conf
    EnrolTokens, AccessTokens,                                  \* of Enrol
    Source, Priority1, Keys1, Like1, Rows1, SelImages, SelOpen, \* of Sel
    Sources, Priority, Like, Rows2,                             \* of TwoSources
    Images, Folder, Similar, Assets, Items, Base,               \* of Up
    IndexSources, Priorities, Version, Versions, Request        \* of the index

VARIABLES
    part,
    user, session, accReq, stale,
    profile, asked, confCrossed, site, state, maas, pending, confReq,
    row, upstream, lapsed, catalogue, selAsset, due, run, selReq, wanted, selCrossed, missed,
    upAsset, item, object, parts, deleting, upReq, offered, fetched, last, upCrossed, misfiled,
    priority, idxAsset, view, idxReq, unlisted, idxCrossed,
    siteRow, accepted, approval, token, owner, enrolReq, waiting, using, held

-----------------------------------------------------------------------------
(* Users, logins and sites.                                                 *)

accVars == <<user, session, accReq, stale>>

Acc == INSTANCE Accounts WITH
    Names <- UserNames, Changes <- UserChanges, req <- accReq

confVars == <<profile, asked, confCrossed, site, state, maas, pending, confReq>>

\* Profiles, which no site needs to have.
Prof == INSTANCE SiteConfig WITH
    Sites <- {}, NewRows <- NewProfiles, Changes <- ProfileChanges,
    crossed <- confCrossed, req <- confReq

\* Sites, with what their requests read of profiles.
Conf == INSTANCE SiteConfig WITH
    Profiles <- SiteProfiles, Values <- SiteValues,
    NewRows <- NewSiteProfiles, Changes <- SiteProfileChanges,
    crossed <- confCrossed, req <- confReq

enrolVars == <<siteRow, accepted, approval, token, owner, enrolReq, waiting, using, held>>

\* No call outlives its client.
Enrol == INSTANCE SiteEnrolment WITH
    LateCalls <- FALSE, row <- siteRow, req <- enrolReq

-----------------------------------------------------------------------------
(* Images.                                                                  *)

selVars == <<row, upstream, lapsed, catalogue, selAsset, due, run, selReq, wanted, selCrossed, missed>>

\* What becomes of the selections of a source.
Sel == INSTANCE Selections WITH
    Sources <- Source, Priority <- Priority1, Keys <- Keys1, Like <- Like1, Rows <- Rows1,
    asset <- selAsset, req <- selReq, crossed <- selCrossed

SelParts == {"one image", "two images"}

\* The bounds of these parts: the images upstream may have, and how many
\* requests may be open.
SelBounds ==
    /\ \A s \in Source : upstream[s] \subseteq SelImages[part]
    /\ Cardinality({r \in Requests : selReq[r] # Sel!Idle}) <= SelOpen[part]

\* What the queries find in the rows of several.
TwoSources == INSTANCE Selections WITH
    Rows <- Rows2, asset <- selAsset, req <- selReq, crossed <- selCrossed

\* Whatever rows there may be, to be queried.
AnyRows == row \in [Rows2 -> TwoSources!SelectionRows \cup {None, Gone}]

upVars == <<upAsset, item, object, parts, deleting, upReq, offered, fetched, last, upCrossed, misfiled>>

Up == INSTANCE Uploads WITH
    asset <- upAsset, req <- upReq, crossed <- upCrossed

idxVars == <<priority, idxAsset, view, idxReq, unlisted, idxCrossed>>

\* Many requests at a time, ...
OneVersion == INSTANCE ImageIndex WITH
    Sources <- IndexSources, Versions <- Version,
    asset <- idxAsset, req <- idxReq, crossed <- idxCrossed

\* ... and many versions.
TwoVersions == INSTANCE ImageIndex WITH
    Sources <- IndexSources, Requests <- Request,
    asset <- idxAsset, req <- idxReq, crossed <- idxCrossed

ASSUME ServerAssumption ==
    /\ OidcLoginAssumption
    /\ Acc!AccountsAssumption
    /\ Prof!SiteConfigAssumption
    /\ Conf!SiteConfigAssumption
    /\ EnrolTokens \cap AccessTokens = {}
    /\ None \notin Sites \cup EnrolTokens \cup AccessTokens \cup Requests
    /\ Sel!SelectionsAssumption
    /\ TwoSources!SelectionsAssumption
    /\ Up!UploadsAssumption
    /\ OneVersion!ImageIndexAssumption
    /\ TwoVersions!ImageIndexAssumption

-----------------------------------------------------------------------------
NoAcc ==
    user = None /\ session = None /\ accReq = None /\ stale = None
NoConf ==
    profile = None /\ asked = None /\ confCrossed = None /\ site = None /\
    state = None /\ maas = None /\ pending = None /\ confReq = None
NoEnrol ==
    siteRow = None /\ accepted = None /\ approval = None /\ token = None /\
    owner = None /\ enrolReq = None /\ waiting = None /\ using = None /\
    held = None
NoSel ==
    upstream = None /\ lapsed = None /\ catalogue = None /\
    selAsset = None /\ due = None /\ run = None /\ selReq = None /\
    wanted = None /\ selCrossed = None /\ missed = None
NoUp ==
    upAsset = None /\ item = None /\ object = None /\ parts = None /\
    deleting = None /\ upReq = None /\ offered = None /\ fetched = None /\
    last = None /\ upCrossed = None /\ misfiled = None
NoIdx ==
    priority = None /\ idxAsset = None /\ view = None /\ idxReq = None /\
    unlisted = None /\ idxCrossed = None

PartsInit ==
    \/ /\ part = "accounts" /\ Acc!Init
       /\ Init /\ NoConf /\ NoEnrol /\ row = None /\ NoSel /\ NoUp /\ NoIdx
    \/ /\ part = "oidc" /\ Init
       /\ NoAcc /\ NoConf /\ NoEnrol /\ row = None /\ NoSel /\ NoUp /\ NoIdx
    \/ /\ part = "profiles" /\ Prof!Init
       /\ NoAcc /\ Init /\ NoEnrol /\ row = None /\ NoSel /\ NoUp /\ NoIdx
    \/ /\ part = "sites" /\ Conf!Init
       /\ NoAcc /\ Init /\ NoEnrol /\ row = None /\ NoSel /\ NoUp /\ NoIdx
    \/ /\ part = "enrol" /\ Enrol!Init
       /\ NoAcc /\ Init /\ NoConf /\ row = None /\ NoSel /\ NoUp /\ NoIdx
    \/ /\ part \in SelParts /\ Sel!Init /\ SelBounds
       /\ NoAcc /\ Init /\ NoConf /\ NoEnrol /\ NoUp /\ NoIdx
    \/ /\ part = "two sources" /\ AnyRows /\ NoSel
       /\ NoAcc /\ Init /\ NoConf /\ NoEnrol /\ NoUp /\ NoIdx
    \/ /\ part = "uploads" /\ Up!Init
       /\ NoAcc /\ Init /\ NoConf /\ NoEnrol /\ row = None /\ NoSel /\ NoIdx
    \/ /\ part = "one version" /\ OneVersion!Init
       /\ NoAcc /\ Init /\ NoConf /\ NoEnrol /\ row = None /\ NoSel /\ NoUp
    \/ /\ part = "two versions" /\ TwoVersions!Init
       /\ NoAcc /\ Init /\ NoConf /\ NoEnrol /\ row = None /\ NoSel /\ NoUp

AccStep ==
    /\ part = "accounts" /\ Acc!Next
    /\ UNCHANGED <<part, vars, confVars, enrolVars, selVars, upVars,
                    idxVars>>

OidcStep ==
    /\ part = "oidc" /\ Next
    /\ UNCHANGED <<part, accVars, confVars, enrolVars, selVars, upVars,
                    idxVars>>

ConfStep ==
    /\ \/ part = "profiles" /\ Prof!Next
       \/ part = "sites" /\ Conf!Next
    /\ UNCHANGED <<part, accVars, vars, enrolVars, selVars, upVars,
                    idxVars>>

EnrolStep ==
    /\ part = "enrol" /\ Enrol!Next
    /\ UNCHANGED <<part, accVars, vars, confVars, selVars, upVars,
                    idxVars>>

SelStep ==
    /\ part \in SelParts /\ Sel!Next
    /\ UNCHANGED <<part, accVars, vars, confVars, enrolVars, upVars,
                    idxVars>>
    /\ SelBounds'

UpStep ==
    /\ part = "uploads" /\ Up!Next
    /\ UNCHANGED <<part, accVars, vars, confVars, enrolVars, selVars,
                    idxVars>>

IdxStep ==
    /\ \/ part = "one version" /\ OneVersion!Next
       \/ part = "two versions" /\ TwoVersions!Next
    /\ UNCHANGED <<part, accVars, vars, confVars, enrolVars, selVars,
                    upVars>>

PartsNext ==
    \/ AccStep \/ OidcStep \/ ConfStep \/ EnrolStep
    \/ SelStep \/ UpStep \/ IdxStep

allVars == <<part, accVars, vars, confVars, enrolVars, selVars, upVars,
          idxVars>>

PartsSpec == PartsInit /\ [][PartsNext]_allVars

-----------------------------------------------------------------------------
PartsTypeOK ==
    /\ TypeOK
    /\ part = "accounts" => Acc!TypeOK
    /\ part = "profiles" => Prof!TypeOK
    /\ part = "sites" => Conf!TypeOK
    /\ part = "enrol" => Enrol!TypeOK
    /\ part \in SelParts => Sel!TypeOK
    /\ part = "uploads" => Up!TypeOK
    /\ part = "one version" => OneVersion!TypeOK
    /\ part = "two versions" => TwoVersions!TypeOK

OwnPasswordOnly == part = "accounts" => Acc!OwnPasswordOnly
ChangeIsKept == part = "profiles" => Prof!ChangeIsKept
TriggerReachesSite == part = "sites" => Conf!TriggerReachesSite
StateCreatedOnce == part = "sites" => Conf!StateCreatedOnce
StoredTokenIsKept == part = "enrol" => Enrol!StoredTokenIsKept
SelectionIsKept == part \in SelParts => Sel!SelectionIsKept
ListedOnce == part \in SelParts => Sel!ListedOnce
NoDuplicateProduct == part \in SelParts => Sel!NoDuplicateProduct
SelectedIsFetched == part \in SelParts => Sel!SelectedIsFetched
EachImageListedOnce == part = "two sources" => TwoSources!EachImageListedOnce
LastUploadIsServed == part = "uploads" => Up!LastUploadIsServed
OfferedIsSent == part = "uploads" => Up!OfferedIsSent
IndexIsCurrent ==
    /\ part = "one version" => OneVersion!IndexIsCurrent
    /\ part = "two versions" => TwoVersions!IndexIsCurrent
OfferedIsStored ==
    /\ part = "one version" => OneVersion!OfferedIsStored
    /\ part = "two versions" => TwoVersions!OfferedIsStored
AdminRemains == [][part = "accounts" => Acc!KeepsAdmin]_accVars
=============================================================================

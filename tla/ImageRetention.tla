--------------------------- MODULE ImageRetention ---------------------------
(***************************************************************************)
(* The versions of one product (boot asset) of one boot source: what       *)
(* upstream offers, what the syncs record, what RemoveStaleImages removes  *)
(* and what the index serves to the sites.                                 *)
(*                                                                         *)
(* A sync records in one PUT the versions it has listed, and then starts   *)
(* RemoveStaleImages as an abandoned child that reads the versions, reads  *)
(* the source's last_sync and posts a removal: three activities with       *)
(* anything in between.  Downloads are one step here; ItemDownload takes   *)
(* them apart.                                                             *)
(***************************************************************************)
EXTENDS Integers, FiniteSets

CONSTANTS
    Versions,        \* version names; their order is that of the strings
    UpstreamKeep,    \* versions_to_keep of LoadProductMapParams
    VersionsToKeep,  \* versions_to_keep of RemoveStaleImagesParams
    Like,            \* version -> the versions whose name contains its name
    Overlap          \* may a sync run while the cleanup of the last one does?

ASSUME ImageRetentionAssumption ==
    /\ Versions \subseteq Nat
    /\ IsFiniteSet(Versions)
    /\ UpstreamKeep \in Nat \ {0}
    /\ VersionsToKeep \in Nat \ {0}
    /\ Like \in [Versions -> SUBSET Versions]
    /\ \A v \in Versions : v \in Like[v]
    /\ Overlap \in BOOLEAN

VARIABLES
    upstream,   \* the versions upstream offers of the product, if selected
    source,     \* is there a boot_source row?
    have,       \* versions with a boot_asset_version row
    fresh,      \* those whose last_seen is the last_sync of the source
    complete,   \* those whose items are all fully synced
    index,      \* the version images_index serves, if any, as a set
    syncPc,     \* the sync workflow: "idle", "fetched", "put"
    syncList,   \* the versions it has listed
    stalePc,    \* RemoveStaleImages: "idle", "start", "versions", "last_sync"
    snap,       \* its answer from GET versions
    putSince    \* has a PUT moved last_sync between its two reads?

rowVars   == <<have, fresh, complete, index>>
syncVars  == <<syncPc, syncList>>
staleVars == <<stalePc, snap, putSince>>
vars == <<upstream, source, have, fresh, complete, index, syncPc, syncList,
          stalePc, snap, putSince>>

NoSnap == [have |-> {}, fresh |-> {}, complete |-> {}]

TypeOK ==
    /\ upstream \in SUBSET Versions
    /\ source \in BOOLEAN
    /\ have \in SUBSET Versions
    /\ fresh \in SUBSET have
    /\ complete \in SUBSET have
    /\ index \in SUBSET Versions
    /\ syncPc \in {"idle", "fetched", "put"}
    /\ syncList \in SUBSET Versions
    /\ stalePc \in {"idle", "start", "versions", "last_sync"}
    /\ snap \in [have : SUBSET Versions, fresh : SUBSET Versions,
                 complete : SUBSET Versions]
    /\ putSince \in BOOLEAN

Init ==
    /\ upstream \in SUBSET Versions
    /\ source = TRUE
    /\ have = {} /\ fresh = {} /\ complete = {} /\ index = {}
    /\ syncPc = "idle" /\ syncList = {}
    /\ stalePc = "idle" /\ snap = NoSnap /\ putSince = FALSE

-----------------------------------------------------------------------------
(* What upstream and the download workflows do.                            *)

\* Upstream publishes or withdraws a version.
UpstreamChanges ==
    /\ \E v \in Versions : upstream' \in {upstream \cup {v}, upstream \ {v}}
    /\ UNCHANGED <<source, rowVars, syncVars, staleVars>>

\* The n greatest of a set of versions.
Greatest(S, n) == {v \in S : Cardinality({w \in S : w > v}) < n}

\* REFRESH MATERIALIZED VIEW: of a product the view holds its greatest
\* version, and a site is served it when all of its items are synced.
Served(rows, whole) == Greatest(rows, 1) \cap whole

\* The downloads of a version come to their end; each PATCH refreshes the view.
DownloadVersion(v) ==
    /\ v \in have \ complete
    /\ complete' = complete \cup {v}
    /\ index' = Served(have, complete')
    /\ UNCHANGED <<upstream, source, have, fresh, syncVars, staleVars>>

\* The PATCH of an item that is still downloading, and any request about
\* another product, refresh the view as it stands.
RefreshIndex ==
    /\ index' = Served(have, complete)
    /\ UNCHANGED <<upstream, source, have, fresh, complete, syncVars, staleVars>>

-----------------------------------------------------------------------------
(* The sync workflow.                                                      *)

\* Read the source and the product map, cut to its first UpstreamKeep versions.
SyncFetch ==
    /\ syncPc = "idle"
    /\ source
    /\ Overlap \/ stalePc = "idle"
    /\ syncPc' = "fetched"
    /\ syncList' = Greatest(upstream, UpstreamKeep)
    /\ UNCHANGED <<upstream, source, rowVars, staleVars>>

\* Mutant of SyncPut: last_sync stays, so what was seen before looks fresh.
SyncPutSameLastSync ==
    /\ syncPc = "fetched"
    /\ source
    /\ have' = have \cup syncList
    /\ fresh' = fresh \cup syncList
    /\ putSince' = (putSince \/ stalePc = "versions")
    /\ syncPc' = "put"
    /\ UNCHANGED <<upstream, source, complete, index, syncList, stalePc, snap>>

\* The PUT: last_sync and the last_seen of what was listed take one timestamp.
\* Versions without a row get one, with items yet to download.  The view is
\* not refreshed.
SyncPut ==
    /\ syncPc = "fetched"
    /\ source
    /\ have' = have \cup syncList
    /\ fresh' = syncList
    /\ putSince' = (putSince \/ stalePc = "versions")
    /\ syncPc' = "put"
    /\ UNCHANGED <<upstream, source, complete, index, syncList, stalePc, snap>>

\* Start RemoveStaleImages.  While the last one runs its id is taken: the
\* error is not caught, the sync fails and is started over.
SyncEnd ==
    /\ syncPc = "put"
    /\ stalePc' = IF stalePc = "idle" THEN "start" ELSE stalePc
    /\ syncPc' = "idle"
    /\ syncList' = {}
    /\ UNCHANGED <<upstream, source, rowVars, snap, putSince>>

\* The sync reaches its execution timeout: upstream or the source is gone.
SyncGivesUp ==
    /\ syncPc # "idle"
    /\ syncPc' = "idle"
    /\ syncList' = {}
    /\ UNCHANGED <<upstream, source, rowVars, staleVars>>

-----------------------------------------------------------------------------
(* RemoveStaleImages.                                                      *)

GetVersions ==
    /\ stalePc = "start"
    /\ source
    /\ snap' = [have |-> have, fresh |-> fresh, complete |-> complete]
    /\ stalePc' = "versions"
    /\ putSince' = FALSE
    /\ UNCHANGED <<upstream, source, rowVars, syncVars>>

GetLastSync ==
    /\ stalePc = "versions"
    /\ source
    /\ stalePc' = "last_sync"
    /\ UNCHANGED <<upstream, source, rowVars, syncVars, snap, putSince>>

\* Mutant of RemovedFromUpstream: last_seen <= source_last_sync.
RemovedFromUpstreamOrEqual == snap.have

\* Phase 1: the versions with last_seen < source_last_sync.
RemovedFromUpstream == IF putSince THEN snap.have ELSE snap.have \ snap.fresh

\* Phase 2: complete versions beyond the limit.  The query has no ORDER BY, so
\* which ones come first, and go, is not determined.
BeyondLimit ==
    LET whole == snap.complete \ RemovedFromUpstream
    IN  {S \in SUBSET whole :
            Cardinality(S) = IF Cardinality(whole) > VersionsToKeep
                             THEN Cardinality(whole) - VersionsToKeep ELSE 0}

\* remove_versions looks each version up with a filter that is an ILIKE
\* '%name%', and deletes the first row it gets.  The rows that a successful
\* request for the versions in req may delete:
Removable(req) ==
    {S \in SUBSET have :
        \E pick \in [req -> S] :
            /\ \A v \in req : pick[v] \in Like[v]
            /\ \A v, w \in req : pick[v] = pick[w] => v = w
            /\ S = {pick[v] : v \in req}}

\* Mutant of DeleteRows: the view is not refreshed.
DeleteRowsNoRefresh(gone) ==
    /\ have' = have \ gone
    /\ fresh' = fresh \ gone
    /\ complete' = complete \ gone
    /\ UNCHANGED index

\* Mutant of DeleteRows: the items stay behind without their version.
DeleteRowsNotItems(gone) ==
    /\ have' = have \ gone
    /\ index' = Served(have', complete)
    /\ UNCHANGED <<fresh, complete>>

\* The rows of gone are deleted and the view is refreshed, in one transaction.
DeleteRows(gone) ==
    /\ have' = have \ gone
    /\ fresh' = fresh \ gone
    /\ complete' = complete \ gone
    /\ index' = Served(have', complete')

StaleDone ==
    /\ stalePc' = "idle"
    /\ snap' = NoSnap
    /\ putSince' = FALSE

\* Can the removal succeed?
CanRemove ==
    \E excess \in BeyondLimit :
        LET req == RemovedFromUpstream \cup excess
        IN  req = {} \/ Removable(req) # {}

\* The removal succeeds as a whole; the POST is not made for an empty list.
\* When a version is missing it fails as a whole, with 404, and is tried again
\* until the workflow gives up.
RemoveStale ==
    /\ stalePc = "last_sync"
    /\ \E excess \in BeyondLimit :
         LET req == RemovedFromUpstream \cup excess
         IN  IF req = {} THEN UNCHANGED rowVars
             ELSE \E gone \in Removable(req) : DeleteRows(gone)
    /\ StaleDone
    /\ UNCHANGED <<upstream, source, syncVars>>

\* The execution timeout of one hour.
StaleGivesUp ==
    /\ stalePc # "idle"
    /\ StaleDone
    /\ UNCHANGED <<upstream, source, rowVars, syncVars>>

-----------------------------------------------------------------------------
(* API requests of users.                                                  *)

RemoveVersion(v) ==
    /\ \E gone \in Removable({v}) : DeleteRows(gone)
    /\ UNCHANGED <<upstream, source, syncVars, staleVars>>

\* remove_selections: the product is no longer selected, its rows are purged.
\* A sync that has listed its versions before goes on with them.
Deselect ==
    /\ upstream' = {}
    /\ DeleteRows(have)
    /\ UNCHANGED <<source, syncVars, staleVars>>

\* delete_boot_source: the rows of all versions, then the source.
PurgeSource ==
    /\ source
    /\ source' = FALSE
    /\ DeleteRows(have)
    /\ UNCHANGED <<upstream, syncVars, staleVars>>

System ==
    \/ \E v \in Versions : DownloadVersion(v)
    \/ RefreshIndex
    \/ SyncFetch \/ SyncPut \/ SyncEnd \/ SyncGivesUp
    \/ GetVersions \/ GetLastSync \/ RemoveStale \/ StaleGivesUp

Next ==
    \/ System
    \/ UpstreamChanges
    \/ \E v \in Versions : RemoveVersion(v)
    \/ Deselect
    \/ PurgeSource

Spec == Init /\ [][Next]_vars

\* Temporal runs every workflow to its end, and the schedule starts a sync
\* again and again.  Only a cleanup whose removal cannot succeed has to give up.
Fairness ==
    /\ \A v \in Versions : WF_vars(DownloadVersion(v))
    /\ WF_vars(SyncFetch) /\ SF_vars(SyncPut) /\ WF_vars(SyncEnd)
    /\ WF_vars(GetVersions) /\ WF_vars(GetLastSync) /\ SF_vars(RemoveStale)
    /\ WF_vars(StaleGivesUp /\ stalePc = "last_sync" /\ ~CanRemove)

FairSpec == Spec /\ Fairness

-----------------------------------------------------------------------------
(* Properties.                                                             *)

\* A site is never served a version that has been removed or is not whole: a
\* removal refreshes the view in its own transaction, and the PUT, which does
\* not, takes nothing away that the view serves.
IndexServesStored == index \subseteq complete

\* A cleanup that no PUT falls into keeps every version of the sync it cleans
\* up after, as long as that lists no more versions than the limit keeps, but
\* for those whose name contains the name of a version that is withdrawn: the
\* lookup of the latter may find them instead.
CleanupKeepsLatest ==
    [][RemoveStale /\ ~putSince /\ fresh = snap.fresh
        => \A v \in fresh \ have' : \E w \in snap.have \ fresh : v \in Like[w]]_vars

\* "Removes versions that no longer exist upstream (last_seen <
\* source_last_sync)": a cleanup leaves what the last PUT has listed.
RemovesOnlyUnlisted == [][RemoveStale => fresh \subseteq have']_vars

\* When upstream, the users and the source settle, so does the index: on the
\* greatest version upstream offers, or on nothing when it offers none; provided
\* that no workflow is cut off which could go on (a cleanup with nothing to remove
\* looks like one), and that a cleanup does not take, by the lookup of another,
\* what is listed.
Quiet == [][UNCHANGED <<upstream, source>>
            /\ (SyncGivesUp => SyncEnd)
            /\ (StaleGivesUp => RemoveStale \/ ~CanRemove)
            /\ ~(RemoveStale /\ fresh \ have' # {})
            /\ \A v \in Versions : ~RemoveVersion(v)]_vars
EventuallyCurrent ==
    <>Quiet => <>[](source => index = Greatest(upstream, 1) /\ have = index)
=============================================================================

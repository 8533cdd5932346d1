----------------------------- MODULE ImageIndex -----------------------------
(***************************************************************************)
(* The index of images: a materialized view over all boot sources.         *)
(*                                                                         *)
(* Several sources may have an asset of one image (os, release and arch);  *)
(* the view takes the one of the source with the highest priority, and of  *)
(* that its greatest version, with what is stored of it.  The requests     *)
(* that change rows refresh the view before they commit.  REFRESH ...      *)
(* CONCURRENTLY takes its snapshot of the rows first and then waits for    *)
(* the lock of the view, which is held until the commit.                   *)
(***************************************************************************)
EXTENDS Naturals, FiniteSets

CONSTANTS
    Sources,     \* ids of boot sources
    Priorities,  \* their priorities, which need not be distinct
    Versions,    \* names of versions, numbered in their order as strings
    Requests,    \* API requests that may be open at once
    None         \* no asset, no entry, no value

AssetRows == [versions : SUBSET Versions, synced : SUBSET Versions]

ImageIndexAssumption ==
    /\ Priorities \subseteq Nat
    /\ Versions \subseteq Nat
    /\ None \notin Sources \cup Nat \cup AssetRows

VARIABLES
    priority,  \* source -> its priority
    asset,     \* source -> the asset of the image: its versions, and those all
               \* items of which are synced; None when there is none
    view,      \* the entry of the image in the view, or None
    req,       \* request -> what it does, with the entry it has computed
    unlisted,  \* history: rows were committed without a refresh
    crossed    \* history: the view lacks what was committed between the
               \* snapshot and the commit of the refresh that has made it

vars == <<priority, asset, view, req, unlisted, crossed>>

Entries == [source : Sources, version : Versions, synced : BOOLEAN]

Ops == {"prioritise", "sync", "unsync", "remove", "purge", "refresh"}

\* A change of rows: what, of which source, and of which version (or priority).
Changes ==
    [op : {"prioritise"}, source : Sources, arg : Priorities]
    \cup [op : {"sync", "unsync", "remove"}, source : Sources, arg : Versions]
    \cup [op : {"purge"}, source : Sources, arg : {None}]
    \cup {[op |-> "refresh", source |-> None, arg |-> None]}

RequestStates ==
    [change : Changes \cup {None}, entry : Entries \cup {None}, stale : BOOLEAN]

Idle == [change |-> None, entry |-> None, stale |-> FALSE]

TypeOK ==
    /\ priority \in [Sources -> Priorities]
    /\ asset \in [Sources -> AssetRows \cup {None}]
    /\ view \in Entries \cup {None}
    /\ req \in [Requests -> RequestStates]
    /\ unlisted \in BOOLEAN
    /\ crossed \in BOOLEAN

Init ==
    /\ priority \in [Sources -> Priorities]
    /\ asset = [s \in Sources |-> None]
    /\ view = None
    /\ req = [r \in Requests |-> Idle]
    /\ unlisted = FALSE
    /\ crossed = FALSE

-----------------------------------------------------------------------------
(* The view, as a function of the rows.                                     *)

\* DISTINCT ON (os, release, arch), by descending priority: an asset counts
\* even when it has no version; of two with one priority it may be either.
Top(pr, as) ==
    {s \in Sources : as[s] # None /\ \A t \in Sources : as[t] # None => pr[t] <= pr[s]}

\* DISTINCT ON (boot_asset_id), by descending version.
Greatest(row) == {v \in row.versions : \A w \in row.versions : w <= v}

Entry(s, v, row) == [source |-> s, version |-> v, synced |-> v \in row.synced]

\* What the view may come to hold: its joins leave nothing of an asset that
\* has no version.
Views(pr, as) ==
    {e \in Entries : /\ e.source \in Top(pr, as)
                     /\ e.version \in Greatest(as[e.source])
                     /\ e = Entry(e.source, e.version, as[e.source])}
    \cup {n \in {None} : Top(pr, as) = {} \/ \E s \in Top(pr, as) : as[s].versions = {}}

\* Mutant of Served: an image that is not all there is not left out.
ServedAll == IF view # None THEN {view} ELSE {}

\* IndexService.get: the image is left out unless all of its items are synced.
Served == IF view # None /\ view.synced THEN {view} ELSE {}

-----------------------------------------------------------------------------
(* The rows, once change c is made to them.                                 *)

PriorityAfter(c) ==
    IF c.op = "prioritise" THEN [priority EXCEPT ![c.source] = c.arg] ELSE priority

RowAfter(row, c) ==
    IF row = None \/ c.op = "purge" THEN None ELSE
    CASE c.op = "sync" -> [row EXCEPT !.synced = @ \cup ({c.arg} \cap row.versions)]
      [] c.op = "unsync" -> [row EXCEPT !.synced = @ \ {c.arg}]
      [] c.op = "remove" -> [versions |-> row.versions \ {c.arg},
                             synced |-> row.synced \ {c.arg}]
      [] OTHER -> row

AssetAfter(c) ==
    IF c.op \in {"prioritise", "refresh"} THEN asset
    ELSE [asset EXCEPT ![c.source] = RowAfter(@, c)]

-----------------------------------------------------------------------------
(* Requests.                                                                *)

Listed(s) == IF asset[s] = None THEN {} ELSE asset[s].versions

\* What request r has changed is locked until its commit: the priority of a
\* source, an asset with all its versions, or one version.
Locks(r, c) ==
    LET d == req[r].change IN
    /\ d # None
    /\ d.source = c.source
    /\ \/ d.op = "prioritise" /\ c.op = "prioritise"
       \/ "prioritise" \notin {c.op, d.op} /\ ("purge" \in {c.op, d.op} \/ c.arg = d.arg)

\* PUT assets of the source: a new version, and the asset if need be.  It does
\* not refresh the view.
PutAsset(s, v) ==
    /\ v \notin Listed(s)
    /\ ~\E r \in Requests : Locks(r, [op |-> "put", source |-> s, arg |-> v])
    /\ asset' = [asset EXCEPT ![s] =
                    IF @ = None THEN [versions |-> {v}, synced |-> {}]
                    ELSE [versions |-> @.versions \cup {v}, synced |-> @.synced]]
    /\ unlisted' = TRUE
    /\ req' = [r \in Requests |-> IF req[r] # Idle THEN [req[r] EXCEPT !.stale = TRUE]
                                                 ELSE Idle]
    /\ UNCHANGED <<priority, view, crossed>>

\* PATCH of a source, PATCH of bytes_synced, removal of a version, removal of
\* the asset (with its source, its selection or alone), GET /refresh-index:
\* the row is there, or 404.
Possible(c) ==
    /\ c.op \in {"sync", "unsync", "remove"} => c.arg \in Listed(c.source)
    /\ c.op = "purge" => asset[c.source] # None

Refreshing(r, c, pr, as) ==
    /\ req[r] = Idle
    /\ Possible(c)
    /\ c.op # "refresh" => ~\E x \in Requests : Locks(x, c)
    /\ \E e \in Views(pr, as) : req' = [req EXCEPT ![r] = [change |-> c, entry |-> e,
                                                         stale |-> FALSE]]
    /\ UNCHANGED <<priority, asset, view, unlisted, crossed>>

\* Mutant of Refresh: the view is refreshed before the rows are changed.
RefreshBefore(r, c) == Refreshing(r, c, priority, asset)

\* The rows are changed, and REFRESH computes the view of all that has been
\* committed and of what this transaction has changed.
Refresh(r, c) == Refreshing(r, c, PriorityAfter(c), AssetAfter(c))

\* It gets the lock of the view, writes it, and commits.
Commit(r) ==
    LET q == req[r] IN
    /\ q # Idle
    /\ priority' = PriorityAfter(q.change)
    /\ asset' = AssetAfter(q.change)
    /\ view' = q.entry
    /\ req' = [x \in Requests |->
                  CASE x = r -> Idle
                    [] x # r /\ req[x] # Idle -> [req[x] EXCEPT !.stale = TRUE]
                    [] OTHER -> req[x]]
    /\ crossed' = q.stale
    /\ unlisted' = (unlisted /\ q.stale)

\* The transaction is rolled back, and the view is as it was.
Abort(r) ==
    /\ req[r] # Idle
    /\ req' = [req EXCEPT ![r] = Idle]
    /\ UNCHANGED <<priority, asset, view, unlisted, crossed>>

-----------------------------------------------------------------------------
Next ==
    \/ \E s \in Sources, v \in Versions : PutAsset(s, v)
    \/ \E r \in Requests :
         (\E c \in Changes : Refresh(r, c)) \/ Commit(r) \/ Abort(r)

Spec == Init /\ [][Next]_vars

-----------------------------------------------------------------------------
(* Properties.                                                              *)

\* The index is that of the rows, but for new versions, of which nothing is
\* stored yet, and for what was committed while the last refresh waited: the
\* one that comes next puts an end to both.
IndexIsCurrent == unlisted \/ crossed \/ view \in Views(priority, asset)

\* What the index offers is there: no version that was removed, and none that
\* is not all synced, also while new versions are listed or assets of better
\* sources appear.
OfferedIsStored ==
    crossed \/ \A e \in Served : asset[e.source] # None /\ e.version \in asset[e.source].synced
=============================================================================

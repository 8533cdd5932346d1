----------------------------- MODULE Selections -----------------------------
(***************************************************************************)
(* Which images of the boot sources are offered, selected and fetched.     *)
(*                                                                         *)
(* A refresh downloads what upstream has and stores it as rows of          *)
(* boot_source_selection, users select rows and remove selections, and a   *)
(* sync reads what is selected and stores the products upstream has of it  *)
(* as assets.  Each request reads, writes and commits; a sync reads with   *)
(* one request and writes with another; and the triggers of syncs that     *)
(* requests send are sent before they commit.                              *)
(***************************************************************************)
EXTENDS Naturals, FiniteSets, Sequences, SequencesExt

CONSTANTS
    Sources,   \* ids of boot sources that are synchronised
    Priority,  \* source -> its priority
    Keys,      \* images: os, release and arch
    Like,      \* image -> the images whose names contain its names
    Rows,      \* ids of boot_source_selection rows: a serial key
    Requests,  \* API requests that may be open at once
    None,      \* no row yet, no value
    Gone       \* the row was deleted

SelectionRows == [source : Sources, key : Keys, selected : BOOLEAN]

SelectionsAssumption ==
    /\ Priority \in [Sources -> Nat]
    /\ Like \in [Keys -> SUBSET Keys]
    /\ \A k \in Keys : k \in Like[k]
    /\ None # Gone
    /\ None \notin Sources \cup Rows \cup SelectionRows
    /\ \A keys \in SUBSET Keys : keys # None
    /\ Gone \notin SelectionRows

VARIABLES
    row,       \* id -> its row, None or Gone
    upstream,  \* source -> the images it has (external)
    lapsed,    \* history: <<source, image>> that upstream has not had all the
               \* time since the last sync began
    catalogue, \* source -> the images its refresh has found upstream, or None
               \* when no refresh is under way
    asset,     \* source -> image -> how many boot_asset rows there are of it
    due,       \* sources a sync of which was triggered and has not begun
    run,       \* source -> the images that the sync under way has read as
               \* selected, or None
    req,       \* request -> what it does, with what it has read
    wanted,    \* history: <<source, image>> the last request on which selected it
    crossed,   \* history: sources a request on whose rows was committed with
               \* what it had read before another one was committed
    missed     \* history: sources whose last sync has given up, or has read the
               \* selections before a change that triggered it was committed

vars == <<row, upstream, lapsed, catalogue, asset, due, run, req, wanted, crossed, missed>>

\* seen, selected: the rows that were read, and which were selected then.
\* keys: what upstream had, the image of the row, or the images that are stored;
\* found: the images whose assets these are stored with.  stale: history, others
\* have changed rows of the source since.  passed: history, a sync has read the
\* rows since.
RequestStates ==
    [op : {"idle", "available", "select", "remove", "assets"},
     step : {"check", "lock", "find", "write"},
     source : Sources \cup {None}, id : Rows \cup {None},
     seen : SUBSET Rows, selected : SUBSET Rows,
     keys : SUBSET Keys, found : SUBSET Keys,
     stale : BOOLEAN, passed : BOOLEAN]

Idle == [op |-> "idle", step |-> "check", source |-> None, id |-> None,
         seen |-> {}, selected |-> {}, keys |-> {}, found |-> {},
         stale |-> FALSE, passed |-> FALSE]

TypeOK ==
    /\ row \in [Rows -> SelectionRows \cup {None, Gone}]
    /\ upstream \in [Sources -> SUBSET Keys]
    /\ lapsed \subseteq Sources \X Keys
    /\ catalogue \in [Sources -> {None} \cup (SUBSET Keys)]
    /\ asset \in [Sources -> [Keys -> Nat]]
    /\ due \subseteq Sources
    /\ run \in [Sources -> {None} \cup (SUBSET Keys)]
    /\ req \in [Requests -> RequestStates]
    /\ wanted \subseteq Sources \X Keys
    /\ crossed \subseteq Sources
    /\ missed \subseteq Sources

Init ==
    /\ row = [i \in Rows |-> None]
    /\ upstream \in [Sources -> SUBSET Keys]
    /\ lapsed = {x \in Sources \X Keys : x[2] \notin upstream[x[1]]}
    /\ catalogue = [s \in Sources |-> None]
    /\ asset = [s \in Sources |-> [k \in Keys |-> 0]]
    /\ due = {}
    /\ run = [s \in Sources |-> None]
    /\ req = [r \in Requests |-> Idle]
    /\ wanted = {}
    /\ crossed = {}
    /\ missed = {}

-----------------------------------------------------------------------------
Live == {i \in Rows : row[i] \notin {None, Gone}}
RowsOf(s) == {i \in Live : row[i].source = s}
SelectedRows == {i \in Live : row[i].selected}
Selected(s) == {row[i].key : i \in RowsOf(s) \cap SelectedRows}

At(r, op, step) == req[r].op = op /\ req[r].step = step

Move(r, step) == req' = [req EXCEPT ![r].step = step]

\* Request r is over, and what others have read of the rows of s is out of date.
Overtake(r, s) ==
    req' = [x \in Requests |->
               IF x = r THEN Idle
               ELSE IF req[x].source = s /\ req[x].op \in {"available", "select", "remove"}
               THEN [req[x] EXCEPT !.stale = TRUE]
               ELSE req[x]]

Crossed(r) == crossed' = IF req[r].stale THEN crossed \cup {req[r].source} ELSE crossed

\* The UPDATE of another request has locked row i.
Locked(i) == \E r \in Requests : /\ req[r].op \in {"select", "remove"}
                                 /\ req[r].step = "write"
                                 /\ req[r].id = i

\* An exception, a failure of the database or the end of the server: the
\* transaction is rolled back.  A trigger that was sent stays sent.
Abort(r) ==
    /\ req[r].op # "idle"
    /\ req' = [req EXCEPT ![r] = Idle]
    /\ UNCHANGED <<row, upstream, lapsed, catalogue, asset, due, run, wanted, crossed, missed>>

\* Upstream gets or loses an image (external).
UpstreamChanges(s, k) ==
    /\ upstream' = [upstream EXCEPT ![s] = IF k \in @ THEN @ \ {k} ELSE @ \cup {k}]
    /\ lapsed' = lapsed \cup ({<<s, k>>} \cap {s} \X upstream[s])
    /\ UNCHANGED <<row, catalogue, asset, due, run, req, wanted, crossed, missed>>

-----------------------------------------------------------------------------
(* A refresh, and its PUT available-selections.                             *)

\* What fetch_ss_asset_list collects from the product files: bootloaders are
\* not among it.
Listed(s) == upstream[s]

\* The refresh of a source has downloaded its index and product files.  Its
\* schedule runs one at a time.
FetchCatalogue(s) ==
    /\ catalogue[s] = None
    /\ catalogue' = [catalogue EXCEPT ![s] = Listed(s)]
    /\ UNCHANGED <<row, upstream, lapsed, asset, due, run, req, wanted, crossed, missed>>

\* Its PUT is answered, or its time is over, whatever becomes of the request.
EndRefresh(s) ==
    /\ catalogue[s] # None
    /\ catalogue' = [catalogue EXCEPT ![s] = None]
    /\ UNCHANGED <<row, upstream, lapsed, asset, due, run, req, wanted, crossed, missed>>

\* The request reads the rows of the source.  The activity may be run again
\* while this request goes on.
OpenAvailable(r, s) ==
    /\ req[r] = Idle
    /\ catalogue[s] # None
    /\ req' = [req EXCEPT ![r] =
                  [Idle EXCEPT !.op = "available", !.step = "write", !.source = s,
                               !.keys = catalogue[s], !.seen = RowsOf(s),
                               !.selected = RowsOf(s) \cap SelectedRows]]
    /\ UNCHANGED <<row, upstream, lapsed, catalogue, asset, due, run, wanted, crossed, missed>>

\* existing_map keeps one row of a key: keys of rows are compared as read.
KeysSeen(q) == {row[i].key : i \in {j \in q.seen : row[j] # Gone}}

\* Mutant of NewKeys: what is there is not looked at.
NewKeysAll(q) == q.keys

NewKeys(q) == q.keys \ KeysSeen(q)

\* Mutant of StaleRows: those that are selected go too.
StaleRowsAll(q) == {i \in q.seen : row[i] # Gone /\ row[i].key \notin q.keys}

\* Rows of keys that upstream has no more, unless they were selected when read.
StaleRows(q) == {i \in q.seen \ q.selected : row[i] # Gone /\ row[i].key \notin q.keys}

\* The INSERTs take the next ids; the DELETEs name ids, and wait for locks.
\* The rows that were seen can only have gone since: their keys are the same.
StoreAvailable(r) ==
    LET q == req[r]
        stale == StaleRows(q)
    IN  /\ At(r, "available", "write")
        /\ ~\E i \in stale : Locked(i)
        /\ \E new \in [NewKeys(q) -> {i \in Rows : row[i] = None}] :
             /\ IsInjective(new)
             /\ row' = [i \in Rows |->
                   IF i \in stale THEN Gone
                   ELSE IF \E k \in NewKeys(q) : new[k] = i
                   THEN [source |-> q.source, selected |-> FALSE,
                         key |-> CHOOSE k \in NewKeys(q) : new[k] = i]
                   ELSE row[i]]
        /\ Overtake(r, q.source)
        /\ Crossed(r)
        /\ UNCHANGED <<upstream, lapsed, catalogue, asset, due, run, wanted, missed>>

-----------------------------------------------------------------------------
(* Users select images and remove selections; here, one at a time.          *)

\* get_selections: 404 when the row is not there.
OpenChange(r, op, i) ==
    /\ op \in {"select", "remove"}
    /\ req[r] = Idle
    /\ i \in Live
    /\ req' = [req EXCEPT ![r] = [Idle EXCEPT !.op = op, !.source = row[i].source,
                                              !.id = i, !.seen = {i},
                                              !.keys = {row[i].key}]]
    /\ UNCHANGED <<row, upstream, lapsed, catalogue, asset, due, run, wanted, crossed, missed>>

\* Mutant of Trigger: nothing is triggered.
TriggerNothing(i) == UNCHANGED due

\* trigger_sync of the sources that UPDATE ... RETURNING has named.
Trigger(i) == due' = IF i \in Live THEN due \cup {row[i].source} ELSE due

\* update_many: no error when the row is gone.  It is locked until the commit.
UpdateSelection(r) ==
    LET q == req[r] IN
    /\ q.op \in {"select", "remove"}
    /\ q.step = "check"
    /\ ~Locked(q.id)
    /\ Trigger(q.id)
    /\ Move(r, "write")
    /\ UNCHANGED <<row, upstream, lapsed, catalogue, asset, run, wanted, crossed, missed>>

Write(i, selected) ==
    row' = IF i \in Live THEN [row EXCEPT ![i].selected = selected] ELSE row

\* A sync has read the rows since the change has triggered one.
Missed(r) == missed' = IF req[r].passed THEN missed \cup {req[r].source} ELSE missed

CommitSelect(r) ==
    LET q == req[r] IN
    /\ At(r, "select", "write")
    /\ Write(q.id, TRUE)
    /\ wanted' = IF q.id \in Live THEN wanted \cup {q.source} \X q.keys ELSE wanted
    /\ Missed(r)
    /\ Overtake(r, q.source)
    /\ Crossed(r)
    /\ UNCHANGED <<upstream, lapsed, catalogue, asset, due, run>>

\* The assets that the filter on os, release and arch finds, an ILIKE '%name%',
\* are deleted with their versions and items.
Purge(s, keys) ==
    asset' = [asset EXCEPT ![s] =
                 [k \in Keys |-> IF \E asked \in keys : k \in Like[asked] THEN 0 ELSE @[k]]]

\* The image is no more selected, and its assets go, also when the row is no
\* more there.  (An asset committed after they were looked for is left alone,
\* as if it came after the commit.)
CommitRemove(r) ==
    LET q == req[r] IN
    /\ At(r, "remove", "write")
    /\ Write(q.id, FALSE)
    /\ Purge(q.source, q.keys)
    /\ wanted' = wanted \ ({q.source} \X q.keys)
    /\ Missed(r)
    /\ Overtake(r, q.source)
    /\ Crossed(r)
    /\ UNCHANGED <<upstream, lapsed, catalogue, due, run>>

-----------------------------------------------------------------------------
(* A sync.                                                                  *)

\* Triggered, or by the interval of the schedule: get_boot_source reads which
\* images are selected.  A trigger during a run is kept (BUFFER_ONE).  PUTs of
\* the sync before may still be open.
SyncRead(s) ==
    /\ run[s] = None
    /\ run' = [run EXCEPT ![s] = Selected(s)]
    /\ due' = due \ {s}
    /\ missed' = missed \ {s}
    /\ lapsed' = lapsed \ ({s} \X upstream[s])
    /\ req' = [x \in Requests |->
                  IF /\ req[x].source = s
                     /\ \/ req[x].op = "assets"
                        \/ req[x].op \in {"select", "remove"} /\ req[x].step = "write"
                  THEN [req[x] EXCEPT !.passed = TRUE]
                  ELSE req[x]]
    /\ UNCHANGED <<row, upstream, catalogue, asset, wanted, crossed>>

\* The sync ends and has stored nothing: it has reached the execution timeout
\* of twice the interval, as an activity is retried until then whatever has
\* failed it, a token that is refused included.  (Its workflow may also fail and
\* be started over by Temporal: then SyncRead follows.)  The next sync is the
\* one of the interval.
SyncGivesUp(s) ==
    /\ run[s] # None
    /\ run' = [run EXCEPT ![s] = None]
    /\ missed' = missed \cup {s}
    /\ UNCHANGED <<row, upstream, lapsed, catalogue, asset, due, req, wanted, crossed>>

\* load_product_map keeps what is selected of what upstream has, then PUT
\* assets, which may be sent again while this one goes on.
OpenAssets(r, s) ==
    /\ req[r] = Idle
    /\ run[s] # None
    /\ req' = [req EXCEPT ![r] =
                  [Idle EXCEPT !.op = "assets", !.step = "lock", !.source = s,
                               !.keys = run[s] \cap upstream[s]]]
    /\ UNCHANGED <<row, upstream, lapsed, catalogue, asset, due, run, wanted, crossed, missed>>

\* Mutant of LockSource: last_sync is not written first.
LockNothing(r) ==
    /\ At(r, "assets", "lock")
    /\ Move(r, "find")
    /\ UNCHANGED <<row, upstream, lapsed, catalogue, asset, due, run, wanted, crossed, missed>>

\* UPDATE of last_sync: the source is locked until the commit.
LockSource(r) ==
    /\ At(r, "assets", "lock")
    /\ ~\E x \in Requests : /\ req[x].op = "assets"
                            /\ req[x].source = req[r].source
                            /\ req[x].step \in {"find", "write"}
    /\ Move(r, "find")
    /\ UNCHANGED <<row, upstream, lapsed, catalogue, asset, due, run, wanted, crossed, missed>>

\* get_or_create of each product takes the first asset that its lookup finds,
\* an ILIKE '%name%' as well: one of its own, or of an image whose names contain
\* its own.
FindAssets(r) ==
    LET q == req[r]
        Stored(k) == {l \in Like[k] : asset[q.source][l] > 0}
    IN  /\ At(r, "assets", "find")
        /\ \E first \in [{k \in q.keys : Stored(k) # {}} -> Keys] :
             /\ \A k \in DOMAIN first : first[k] \in Stored(k)
             /\ req' = [req EXCEPT ![r].step = "write",
                                    ![r].found = {first[k] : k \in DOMAIN first}]
        /\ UNCHANGED <<row, upstream, lapsed, catalogue, asset, due, run, wanted, crossed, missed>>

\* The images that none of these assets is for.
Missing(q) == {k \in q.keys : Like[k] \cap q.found = {}}

\* ... or an INSERT, unless the lookup finds what the same request has inserted
\* before, in whatever order it names its products.  Versions of an asset that
\* is gone violate the foreign key.
StoreAssets(r) ==
    LET q == req[r] IN
    /\ At(r, "assets", "write")
    /\ \A k \in q.found : asset[q.source][k] > 0
    /\ \E new \in SUBSET Missing(q) :
         /\ \A k \in Missing(q) : Like[k] \cap new # {}
         /\ asset' = [asset EXCEPT ![q.source] =
                         [k \in Keys |-> IF k \in new THEN @[k] + 1 ELSE @[k]]]
    /\ req' = [req EXCEPT ![r] = Idle]
    /\ \/ ~q.passed /\ run' = [run EXCEPT ![q.source] = None]  \* the sync ends,
       \/ UNCHANGED run                                        \* or gets no answer
    /\ UNCHANGED <<row, upstream, lapsed, catalogue, due, wanted, crossed, missed>>

-----------------------------------------------------------------------------
(* Queries.                                                                 *)

\* The rows in an order in which a query may read them: source by source, by
\* priority, where two sources may have the same, and those of one in any order.
ReadOrders ==
    {q \in SetToSeqs(Live) :
        LET source(n) == row[q[n]].source IN
        \A i, j \in DOMAIN q :
            i < j => /\ Priority[source(i)] >= Priority[source(j)]
                     /\ source(i) = source(j) => \A n \in i..j : source(n) = source(i)}

\* Mutant of Selectable: a row that is selected later does not withdraw the offer.
SelectableAll(order) ==
    {order[n] : n \in {m \in DOMAIN order :
        /\ ~row[order[m]].selected
        /\ \A l \in 1..(m - 1) : row[order[l]].key # row[order[m]].key}}

\* The loop of get_selectable_images: the first row of an image that no source
\* has selected.
Selectable(order) ==
    {order[n] : n \in {m \in DOMAIN order :
        /\ \A l \in 1..(m - 1) : row[order[l]].key # row[order[m]].key
        /\ \A l \in DOMAIN order :
             row[order[l]].selected => row[order[l]].key # row[order[m]].key}}

\* The loop of get_selected_images: the first row of an image that is selected.
Chosen(order) ==
    {order[n] : n \in {m \in DOMAIN order :
        /\ row[order[m]].selected
        /\ \A l \in 1..(m - 1) :
             row[order[l]].selected => row[order[l]].key # row[order[m]].key}}

-----------------------------------------------------------------------------
Step(r) ==
    \/ \E s \in Sources : OpenAvailable(r, s) \/ OpenAssets(r, s)
    \/ \E i \in Rows, op \in {"select", "remove"} : OpenChange(r, op, i)
    \/ StoreAvailable(r) \/ UpdateSelection(r) \/ CommitSelect(r) \/ CommitRemove(r)
    \/ LockSource(r) \/ FindAssets(r) \/ StoreAssets(r)
    \/ Abort(r)

Next ==
    \/ \E r \in Requests : Step(r)
    \/ \E s \in Sources :
         \/ FetchCatalogue(s) \/ EndRefresh(s) \/ SyncRead(s) \/ SyncGivesUp(s)
         \/ \E k \in Keys : UpstreamChanges(s, k)

Spec == Init /\ [][Next]_vars

-----------------------------------------------------------------------------
(* Properties.                                                              *)

\* A selection outlives every refresh, also when upstream has dropped the
\* image and when others are changed at the same time; only a request that
\* crosses the very change of the rows it has read may undo it.
SelectionIsKept ==
    \A s \in Sources \ crossed, k \in Keys : <<s, k>> \in wanted => k \in Selected(s)

\* No image is listed twice in a source, though nothing in the schema forbids
\* it: only two refreshes at a time may bring that about.
ListedOnce ==
    \A s \in Sources \ crossed : \A i, j \in RowsOf(s) : row[i].key = row[j].key => i = j

\* No image has two assets in a source, of which later syncs and removals would
\* take either one: the lock on the source serialises the PUTs of its syncs.
NoDuplicateProduct == \A s \in Sources, k \in Keys : asset[s][k] <= 1

\* An image that is selected is going to be fetched: a sync is due or has read
\* it, or it is stored, under its own name or one that contains it; unless
\* upstream had dropped it when the last sync asked, or that sync has failed or
\* has come too early for it, and it waits for the next one of the interval.
SelectedIsFetched ==
    \A s \in Sources \ (crossed \cup missed) : \A k \in Selected(s) :
        \/ <<s, k>> \in lapsed \/ s \in due
        \/ \E l \in Like[k] : asset[s][l] > 0
        \/ run[s] # None /\ k \in run[s]

\* Of the images that are known, the lists of what can be selected and of what
\* is selected each name every image once, and between them every image; and
\* what they name is the row of the best source it can be.
EachImageListedOnce ==
    \A order \in ReadOrders :
        LET rows == Selectable(order) \cup Chosen(order) IN
        /\ {row[i].key : i \in rows} = {row[i].key : i \in Live}
        /\ \A i, j \in rows : row[i].key = row[j].key => i = j
        /\ \A i \in rows, j \in Live :
             /\ row[i].key = row[j].key
             /\ row[i].selected = row[j].selected
             => Priority[row[i].source] >= Priority[row[j].source]
=============================================================================

------------------------------ MODULE Uploads ------------------------------
(***************************************************************************)
(* Custom images: files that users upload through the API and sites        *)
(* download.                                                               *)
(*                                                                         *)
(* An upload is one request and one transaction.  It takes the id of a new *)
(* item, which names the object in S3, streams the file into a multipart   *)
(* upload, finds or creates the asset of the image, gives it the next      *)
(* revision of the day, completes the upload, and commits.  The object is  *)
(* there whatever becomes of the transaction.  An asset is removed with    *)
(* all its revisions, and their objects are deleted after the commit.      *)
(* A site reads the index, which names the path of a file, asks for that   *)
(* path, and gets the object of the item that is found by it.              *)
(***************************************************************************)
EXTENDS Naturals, FiniteSets

CONSTANTS
    Images,    \* images that are uploaded: os, release and arch
    Folder,    \* image -> its release and arch, which begin its path
    Similar,   \* image -> those whose stored name its own is found in (ILIKE)
    Assets,    \* ids of boot_asset rows of the custom source: a serial key
    Items,     \* ids of boot_asset_item rows: a serial key
    Requests,  \* API requests that may be open at once
    Base,      \* revisions below it are written with one digit
    None,      \* no row yet, no value
    Gone       \* the row was deleted, or its INSERT rolled back

\* Each revision of an asset has one item, which is created and deleted with it.
ItemRows == [asset : Assets, revision : Nat]

UploadsAssumption ==
    /\ DOMAIN Folder = Images
    /\ Similar \in [Images -> SUBSET Images]
    /\ \A m \in Images : m \in Similar[m]
    /\ Base \in Nat \ {0}
    /\ None # Gone
    /\ None \notin Images \cup Assets \cup Items \cup Nat \cup ItemRows
    /\ Gone \notin Images \cup ItemRows

VARIABLES
    asset,     \* id -> the image of the row, None or Gone
    item,      \* id -> its row with that of its revision, None or Gone
    object,    \* items with an object in S3
    parts,     \* items with a multipart upload that is open in S3
    deleting,  \* items that DeleteItems was given
    req,       \* request -> where its upload is, with what it has read
    offered,   \* what a site has read in the index: an item and its path
    fetched,   \* the item whose object the site is being sent, or None
    last,      \* history: image -> the item of the last upload of it, or None
    crossed,   \* history: images an asset of which was created at a time
    misfiled   \* history: images one of which was put into the asset of the other

vars == <<asset, item, object, parts, deleting, req, offered, fetched, last,
          crossed, misfiled>>
s3Vars == <<object, parts, deleting>>
siteVars == <<offered, fetched>>
histories == <<last, crossed, misfiled>>

RequestStates ==
    [step : {"idle", "stream", "find", "revise", "update", "complete", "commit"},
     item : Items \cup {None}, image : Images \cup {None},
     asset : Assets \cup {None}, new : BOOLEAN,
     revision : Nat, whole : BOOLEAN]

Idle == [step |-> "idle", item |-> None, image |-> None, asset |-> None,
         new |-> FALSE, revision |-> 0, whole |-> TRUE]

\* release/arch/version/filename: the name of the file does not matter here.
Paths == {Folder[m] : m \in Images} \X Nat

TypeOK ==
    /\ asset \in [Assets -> Images \cup {None, Gone}]
    /\ item \in [Items -> ItemRows \cup {None, Gone}]
    /\ object \subseteq Items
    /\ parts \subseteq Items
    /\ deleting \subseteq Items
    /\ req \in [Requests -> RequestStates]
    /\ offered \in [item : Items, path : Paths] \cup {None}
    /\ fetched \in Items \cup {None}
    /\ last \in [Images -> Items \cup {None}]
    /\ crossed \subseteq Images
    /\ misfiled \subseteq Images

Init ==
    /\ asset = [a \in Assets |-> None]
    /\ item = [i \in Items |-> None]
    /\ object = {}
    /\ parts = {}
    /\ deleting = {}
    /\ req = [r \in Requests |-> Idle]
    /\ offered = None
    /\ fetched = None
    /\ last = [m \in Images |-> None]
    /\ crossed = {}
    /\ misfiled = {}

-----------------------------------------------------------------------------
LiveAssets == {a \in Assets : asset[a] \notin {None, Gone}}
LiveItems == {i \in Items : item[i] \notin {None, Gone}}
ItemsOf(a) == {i \in LiveItems : item[i].asset = a}
Revisions(a) == {item[i].revision : i \in ItemsOf(a)}

\* Ids that transactions have taken are not given out again.
TakenItems == {req[r].item : r \in Requests}
NewAssets == {req[r].asset : r \in {x \in Requests : req[x].new}}
FreeItems == {i \in Items : item[i] = None} \ TakenItems
FreeAssets == {a \in Assets : asset[a] = None} \ NewAssets

\* Which one the sequence gives next does not matter.
NextOf(ids) == CHOOSE id \in ids : TRUE

\* The transaction is rolled back: the ids it has taken are lost.
Rollback(r) ==
    LET q == req[r] IN
    /\ req' = [req EXCEPT ![r] = Idle]
    /\ item' = [item EXCEPT ![q.item] = Gone]
    /\ asset' = IF q.new THEN [asset EXCEPT ![q.asset] = Gone] ELSE asset
    /\ UNCHANGED <<siteVars, histories>>

\* The client goes, a field is not valid, S3 or the database fails, the server
\* ends: the multipart upload stays open, and an object that is complete stays.
Abort(r) == req[r] # Idle /\ Rollback(r) /\ UNCHANGED s3Vars

CreateMultipart(i) == parts' = parts \cup {i}
AbortMultipart(i) == parts' = parts \ {i}

-----------------------------------------------------------------------------
(* POST /images.                                                            *)

\* create_temporary and create_multipart_upload.
OpenUpload(r, m) ==
    LET i == NextOf(FreeItems) IN
    /\ req[r] = Idle
    /\ FreeItems # {}
    /\ req' = [req EXCEPT ![r] = [Idle EXCEPT !.step = "stream", !.item = i, !.image = m]]
    /\ CreateMultipart(i)
    /\ UNCHANGED <<asset, item, object, deleting, siteVars, histories>>

\* All parts are uploaded: as many bytes as file_size says, or not.
Stream(r, whole) ==
    /\ req[r].step = "stream"
    /\ req' = [req EXCEPT ![r].step = "find", ![r].whole = whole]
    /\ UNCHANGED <<asset, item, s3Vars, siteVars, histories>>

\* Too many bytes: 413, and the multipart upload is aborted.
TooLarge(r) ==
    /\ req[r].step = "stream"
    /\ AbortMultipart(req[r].item)
    /\ Rollback(r)
    /\ UNCHANGED <<object, deleting>>

\* Mutant of Found: the subarch, which is NULL, is compared.
FoundNone(m) == {}

\* The assets the query of get_or_create returns.
Found(m) == {a \in LiveAssets : asset[a] \in Similar[m]}

\* get_or_create: the first one found, in no order.
FindAsset(r) ==
    /\ req[r].step = "find"
    /\ \E a \in Found(req[r].image) :
         req' = [req EXCEPT ![r].step = "revise", ![r].asset = a]
    /\ UNCHANGED <<asset, item, s3Vars, siteVars, histories>>

\* ... or an INSERT.  subarch is NULL, which the unique constraint lets pass.
CreateAsset(r) ==
    /\ req[r].step = "find"
    /\ Found(req[r].image) = {}
    /\ FreeAssets # {}
    /\ req' = [req EXCEPT ![r].step = "revise", ![r].new = TRUE,
                          ![r].asset = NextOf(FreeAssets)]
    /\ UNCHANGED <<asset, item, s3Vars, siteVars, histories>>

NextRevision(a) ==
    IF Revisions(a) = {} THEN 1
    ELSE 1 + CHOOSE n \in Revisions(a) : \A o \in Revisions(a) : o <= n

\* create_next_revision reads the revisions ...
Revise(r) ==
    /\ req[r].step = "revise"
    /\ req' = [req EXCEPT ![r].step = "update",
                          ![r].revision = NextRevision(req[r].asset)]
    /\ UNCHANGED <<asset, item, s3Vars, siteVars, histories>>

Inserted(q) == q.step \in {"complete", "commit"}

\* ... and inserts the next one, which locks the asset.  It waits for another
\* transaction that has inserted the same one; if it is there already, or the
\* asset is gone, this one fails (Abort).  When the sizes differ the request
\* fails too, and the multipart upload is aborted.
InsertRevision(r) ==
    LET q == req[r] IN
    /\ q.step = "update"
    /\ q.new \/ asset[q.asset] # Gone
    /\ q.revision \notin Revisions(q.asset)
    /\ ~\E x \in Requests : /\ Inserted(req[x])
                            /\ req[x].asset = q.asset
                            /\ req[x].revision = q.revision
    /\ IF q.whole
       THEN /\ req' = [req EXCEPT ![r].step = "complete"]
            /\ UNCHANGED <<asset, item, s3Vars, siteVars, histories>>
       ELSE /\ AbortMultipart(q.item)
            /\ Rollback(r)
            /\ UNCHANGED <<object, deleting>>

CompleteUpload(r) ==
    /\ req[r].step = "complete"
    /\ object' = object \cup {req[r].item}
    /\ parts' = parts \ {req[r].item}
    /\ req' = [req EXCEPT ![r].step = "commit"]
    /\ UNCHANGED <<asset, item, deleting, siteVars, histories>>

\* Another upload has not found the asset that r creates, and creates one too.
Doubled(r) ==
    \E x \in Requests \ {r} : req[r].new /\ req[x].new /\ req[x].image = req[r].image

Commit(r) ==
    LET q == req[r]
        owner == IF q.new THEN q.image ELSE asset[q.asset]
    IN  /\ q.step = "commit"
        /\ asset' = [asset EXCEPT ![q.asset] = owner]
        /\ item' = [item EXCEPT ![q.item] = [asset |-> q.asset, revision |-> q.revision]]
        /\ req' = [req EXCEPT ![r] = Idle]
        /\ last' = [last EXCEPT ![q.image] = q.item]
        /\ crossed' = IF Doubled(r) THEN crossed \cup {q.image} ELSE crossed
        /\ misfiled' = IF owner # q.image THEN misfiled \cup {q.image, owner} ELSE misfiled
        /\ UNCHANGED <<s3Vars, siteVars>>

-----------------------------------------------------------------------------
(* POST /images:remove, and DeleteItems.                                    *)

\* purge_assets; the foreign key of a revision that is inserted meanwhile
\* makes it fail.
RemoveImage(a) ==
    /\ a \in LiveAssets
    /\ ~\E r \in Requests : Inserted(req[r]) /\ req[r].asset = a
    /\ asset' = [asset EXCEPT ![a] = Gone]
    /\ item' = [i \in Items |-> IF i \in ItemsOf(a) THEN Gone ELSE item[i]]
    /\ deleting' = deleting \cup ItemsOf(a)
    /\ last' = [m \in Images |-> IF last[m] \in ItemsOf(a) THEN None ELSE last[m]]
    /\ UNCHANGED <<object, parts, req, siteVars, crossed, misfiled>>

DeleteObject(i) ==
    /\ i \in deleting
    /\ object' = object \ {i}
    /\ deleting' = deleting \ {i}
    /\ UNCHANGED <<asset, item, parts, req, siteVars, histories>>

-----------------------------------------------------------------------------
(* What sites see of it.                                                    *)

\* Versions are compared as strings: 10 comes before 2.
Later(n, m) ==
    CASE n >= Base /\ m < Base -> n \div Base >= m
      [] n < Base /\ m >= Base -> n > m \div Base
      [] OTHER -> n > m

\* The view takes an asset of the image, and the greatest of its revisions.
Served(m) ==
    {i \in LiveItems :
        /\ asset[item[i].asset] = m
        /\ \A j \in ItemsOf(item[i].asset) \ {i} : Later(item[i].revision, item[j].revision)}

Path(i) == <<Folder[asset[item[i].asset]], item[i].revision>>

-----------------------------------------------------------------------------
(* A site.                                                                  *)

storeVars == <<asset, item, s3Vars, req, histories>>

\* generate_download_json: the product of an image has one version with one
\* file, and names its path.
Offers(m) == {[item |-> i, path |-> Path(i)] : i \in Served(m)}

\* GET streams/v1/...
ReadIndex ==
    /\ fetched = None
    /\ \E m \in Images : \E offer \in Offers(m) : offered' = offer
    /\ UNCHANGED <<storeVars, fetched>>

\* Mutant of AtPath: any one of the rows is taken.
AtPathAny(path) == {i \in LiveItems : Path(i) = path}

\* get_by_path: one_or_none() raises when there are several rows.
AtPath(path) ==
    LET rows == {i \in LiveItems : Path(i) = path}
    IN  IF Cardinality(rows) = 1 THEN rows ELSE {}

\* GET of the path: 404 when there is no row.  The connection to the database
\* is given back, and the answer begins with 200.
AskFor ==
    /\ offered # None
    /\ fetched = None
    /\ \E i \in AtPath(offered.path) : fetched' = i
    /\ UNCHANGED <<storeVars, offered>>

\* The object is sent; or it is gone, or S3 fails, and the answer is cut short.
SendObject ==
    /\ fetched # None
    /\ fetched' = None
    /\ UNCHANGED <<storeVars, offered>>

-----------------------------------------------------------------------------
UploadStep(r) ==
    \/ \E m \in Images : OpenUpload(r, m)
    \/ \E whole \in BOOLEAN : Stream(r, whole)
    \/ TooLarge(r) \/ FindAsset(r) \/ CreateAsset(r)
    \/ Revise(r) \/ InsertRevision(r) \/ CompleteUpload(r) \/ Commit(r)
    \/ Abort(r)

Next ==
    \/ \E r \in Requests : UploadStep(r)
    \/ \E a \in Assets : RemoveImage(a)
    \/ \E i \in Items : DeleteObject(i)
    \/ ReadIndex \/ AskFor \/ SendObject

Spec == Init /\ [][Next]_vars

-----------------------------------------------------------------------------
(* Properties.                                                              *)

\* The index offers the last upload of an image, once it is refreshed, however
\* uploads and removals overlap.  That fails when two first uploads have each
\* created an asset, when an upload has been put under an image with a longer
\* name, and at the revision that is written with one more digit.
LastUploadIsServed ==
    \A m \in Images \ (crossed \cup misfiled) :
        (last[m] # None /\ item[last[m]].revision < Base) => Served(m) = {last[m]}

\* As long as the item a site was offered is there, what the site is sent under
\* its path is that item, though paths are used again on the day an image was
\* removed, and images share them.  An answer that has begun can be finished
\* unless the item was removed since.
OfferedIsSent ==
    /\ fetched # None /\ item[offered.item] # Gone => fetched = offered.item
    /\ fetched # None => fetched \in object \/ item[fetched] = Gone
=============================================================================

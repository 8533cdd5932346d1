---------------------------- MODULE ItemDownload ----------------------------
(***************************************************************************)
(* The life of a boot asset item, between the three stores that know it:   *)
(* its row in the database, its object in S3, and the workflows that       *)
(* Temporal remembers under its id.                                        *)
(*                                                                         *)
(* An item is created by the PUT that a sync of its boot source makes,     *)
(* downloaded by a child workflow that streams it from upstream into a     *)
(* multipart upload and reports its progress with a PATCH after each part, *)
(* and removed by an API request whose transaction deletes the row; once   *)
(* the transaction has committed, the S3 middleware starts the workflow    *)
(* that deletes the object.  Each store is written by its own step.        *)
(***************************************************************************)
EXTENDS Integers, FiniteSets

CONSTANTS
    Items,       \* ids of boot asset items: a serial key, never used twice
    Attempts,    \* runs of the download activity that may exist at once
    Requests,    \* API requests that remove an item and may be open at once
    None,        \* no attempt, no item
    FileSize,    \* file_size of an item, in parts of MIN_S3_PART_SIZE bytes
    StreamLens,  \* the lengths, in parts, that upstream may serve
    FaultKinds,  \* the faults that may happen
    MaxFaults    \* bound: how many of them

AllFaults == {"error", "worker_crash", "workflow_timeout", "sync_timeout",
              "api_crash", "delete_ack_lost", "delete_timeout", "forget"}

ASSUME ItemDownloadAssumption ==
    /\ None \notin Items \cup Attempts
    /\ FileSize \in Nat \ {0}
    /\ StreamLens \subseteq Nat \ {0}
    /\ FaultKinds \subseteq AllFaults
    /\ MaxFaults \in Nat

VARIABLES
    row,         \* item -> "unborn", "live" or "removed": its boot_asset_item row
    synced,      \* item -> its bytes_synced column
    stored,      \* item -> length of its S3 object, 0 when there is none
    toDownload,  \* ids the running sync has still to start a download for
    wf,          \* item -> what Temporal knows of workflow download-item-<id>
    current,     \* item -> the attempt its download activity runs as
    pc,          \* attempt -> where it is
    target,      \* attempt -> the item it downloads
    len,         \* attempt -> how many parts its stream will give
    sent,        \* attempt -> how many parts it has uploaded
    reqState,    \* request -> "idle", "open" (uncommitted) or "committed"
    reqItem,     \* request -> the item it removes
    deleting,    \* items a running DeleteItems workflow has still to delete
    faults       \* how many faults have happened

dbVars  == <<row, synced>>
attVars == <<current, pc, target, len, sent>>
reqVars == <<reqState, reqItem>>
vars == <<row, synced, stored, toDownload, wf, current, pc, target, len, sent,
          reqState, reqItem, deleting, faults>>

Running == {"get_item", "download"}
Closed  == {"returned_true", "returned_false", "timed_out"}

TypeOK ==
    /\ row \in [Items -> {"unborn", "live", "removed"}]
    /\ synced \in [Items -> Nat]
    /\ stored \in [Items -> Nat]
    /\ toDownload \in SUBSET Items
    /\ wf \in [Items -> {"none"} \cup Running \cup Closed]
    /\ current \in [Items -> Attempts \cup {None}]
    /\ pc \in [Attempts -> {"idle", "stream", "patch", "report", "gone"}]
    /\ target \in [Attempts -> Items \cup {None}]
    /\ len \in [Attempts -> Nat]
    /\ sent \in [Attempts -> Nat]
    /\ reqState \in [Requests -> {"idle", "open", "committed"}]
    /\ reqItem \in [Requests -> Items \cup {None}]
    /\ deleting \in SUBSET Items
    /\ faults \in 0..MaxFaults

Init ==
    /\ row = [i \in Items |-> "unborn"]
    /\ synced = [i \in Items |-> 0]
    /\ stored = [i \in Items |-> 0]
    /\ toDownload = {}
    /\ wf = [i \in Items |-> "none"]
    /\ current = [i \in Items |-> None]
    /\ pc = [a \in Attempts |-> "idle"]
    /\ target = [a \in Attempts |-> None]
    /\ len = [a \in Attempts |-> 0]
    /\ sent = [a \in Attempts |-> 0]
    /\ reqState = [r \in Requests |-> "idle"]
    /\ reqItem = [r \in Requests |-> None]
    /\ deleting = {}
    /\ faults = 0

\* A fault of this kind happens; MaxFaults bounds how many do.
Fault(kind) ==
    /\ kind \in FaultKinds
    /\ faults < MaxFaults
    /\ faults' = faults + 1

-----------------------------------------------------------------------------
(* The sync of a boot source.  Its schedule buffers overlapping runs, so    *)
(* one PUT is never made before the downloads of the last were started.     *)

\* Mutant of SyncPut: only the items it has created are to be downloaded.
SyncPutOnlyCreated(listed) ==
    /\ toDownload = {}
    /\ listed \subseteq {i \in Items : row[i] # "removed"}
    /\ row' = [i \in Items |-> IF i \in listed THEN "live" ELSE row[i]]
    /\ toDownload' = {i \in listed : row[i] = "unborn"}
    /\ UNCHANGED <<synced, stored, wf, attVars, reqVars, deleting, faults>>

\* The PUT creates the rows of the listed items that have none, and answers
\* with the listed items that are not fully synced.
SyncPut(listed) ==
    /\ toDownload = {}
    /\ listed \subseteq {i \in Items : row[i] # "removed"}
    /\ row' = [i \in Items |-> IF i \in listed THEN "live" ELSE row[i]]
    /\ toDownload' = {i \in listed : FileSize > synced[i]}
    /\ UNCHANGED <<synced, stored, wf, attVars, reqVars, deleting, faults>>

\* start_child_workflow with ALLOW_DUPLICATE_FAILED_ONLY: an id can be used
\* again only when its last workflow failed.
CanStart(i) == wf[i] \in {"none", "timed_out"}

StartDownload(i) ==
    /\ i \in toDownload
    /\ CanStart(i)
    /\ toDownload' = toDownload \ {i}
    /\ wf' = [wf EXCEPT ![i] = "get_item"]
    /\ UNCHANGED <<dbVars, stored, attVars, reqVars, deleting, faults>>

\* WorkflowAlreadyStartedError: the sync goes on with the next item.
SkipStarted(i) ==
    /\ i \in toDownload
    /\ ~CanStart(i)
    /\ toDownload' = toDownload \ {i}
    /\ UNCHANGED <<dbVars, stored, wf, attVars, reqVars, deleting, faults>>

\* The sync workflow dies before it has started every download.
SyncTimeout ==
    /\ Fault("sync_timeout")
    /\ toDownload # {}
    /\ toDownload' = {}
    /\ UNCHANGED <<dbVars, stored, wf, attVars, reqVars, deleting>>

-----------------------------------------------------------------------------
(* The download workflow and its activity.                                  *)

\* get_boot_asset_item: it raises, and is run again, for as long as the API
\* answers 404.
ItemAnswered(i) == row[i] = "live"

\* The workflow reads the item.  It has nothing to do for one that is fully
\* synced.
GetItem(i) ==
    /\ wf[i] = "get_item"
    /\ ItemAnswered(i)
    /\ wf' = [wf EXCEPT ![i] = IF synced[i] = FileSize THEN "returned_true"
                                                       ELSE "download"]
    /\ UNCHANGED <<dbVars, stored, toDownload, attVars, reqVars, deleting, faults>>

\* A worker takes the download activity: it creates a multipart upload and
\* opens the stream.
BeginAttempt(i, a, n) ==
    /\ wf[i] = "download"
    /\ current[i] = None
    /\ pc[a] = "idle"
    /\ current' = [current EXCEPT ![i] = a]
    /\ pc' = [pc EXCEPT ![a] = "stream"]
    /\ target' = [target EXCEPT ![a] = i]
    /\ len' = [len EXCEPT ![a] = n]
    /\ sent' = [sent EXCEPT ![a] = 0]
    /\ UNCHANGED <<dbVars, stored, toDownload, wf, reqVars, deleting, faults>>

UploadPart(a) ==
    /\ pc[a] = "stream"
    /\ sent[a] < len[a]
    /\ sent' = [sent EXCEPT ![a] = @ + 1]
    /\ pc' = [pc EXCEPT ![a] = "patch"]
    /\ UNCHANGED <<dbVars, stored, toDownload, wf, current, target, len,
                   reqVars, deleting, faults>>

\* The PATCH of bytes_synced.  It answers 404 once the row is gone, and the
\* activity then aborts the upload and returns -1.
PatchSynced(a) ==
    /\ pc[a] = "patch"
    /\ \/ /\ row[target[a]] = "live"
          /\ synced' = [synced EXCEPT ![target[a]] = sent[a]]
          /\ pc' = [pc EXCEPT ![a] = "stream"]
       \/ /\ row[target[a]] # "live"
          /\ pc' = [pc EXCEPT ![a] = "gone"]
          /\ UNCHANGED synced
    /\ UNCHANGED <<row, stored, toDownload, wf, current, target, len, sent,
                   reqVars, deleting, faults>>

\* Mutant of CompleteUpload: the parts are never made into an object.
CompleteUploadForgotten(a) ==
    /\ pc[a] = "stream"
    /\ sent[a] = len[a]
    /\ pc' = [pc EXCEPT ![a] = "report"]
    /\ UNCHANGED <<dbVars, stored, toDownload, wf, current, target, len, sent,
                   reqVars, deleting, faults>>

\* The stream has ended: complete_upload makes the object.
CompleteUpload(a) ==
    /\ pc[a] = "stream"
    /\ sent[a] = len[a]
    /\ stored' = [stored EXCEPT ![target[a]] = sent[a]]
    /\ pc' = [pc EXCEPT ![a] = "report"]
    /\ UNCHANGED <<dbVars, toDownload, wf, current, target, len, sent,
                   reqVars, deleting, faults>>

\* Attempt a is over.
Release(a) ==
    /\ pc' = [pc EXCEPT ![a] = "idle"]
    /\ target' = [target EXCEPT ![a] = None]
    /\ len' = [len EXCEPT ![a] = 0]
    /\ sent' = [sent EXCEPT ![a] = 0]

\* The activity returns.  The workflow compares the result with the file_size
\* it read and returns; Temporal ignores a run it has timed out.
Report(a) ==
    /\ pc[a] \in {"report", "gone"}
    /\ Release(a)
    /\ \/ /\ current[target[a]] = a
          /\ current' = [current EXCEPT ![target[a]] = None]
          /\ wf' = [wf EXCEPT ![target[a]] =
                        IF pc[a] = "report" /\ sent[a] = FileSize
                        THEN "returned_true" ELSE "returned_false"]
       \/ /\ current[target[a]] # a
          /\ UNCHANGED <<current, wf>>
    /\ UNCHANGED <<dbVars, stored, toDownload, reqVars, deleting, faults>>

\* The attempt is no longer what its workflow waits for.
Detach(a) ==
    current' = [current EXCEPT ![target[a]] = IF @ = a THEN None ELSE @]

\* Mutant of AttemptFails: the activity returns instead of raising again.
AttemptFailsSwallowed(a) ==
    /\ pc[a] \in {"stream", "patch"}
    /\ current[target[a]] = a
    /\ Fault("error")
    /\ wf' = [wf EXCEPT ![target[a]] = "returned_false"]
    /\ Release(a)
    /\ Detach(a)
    /\ UNCHANGED <<dbVars, stored, toDownload, reqVars, deleting>>

\* Mutant of AttemptFails: the cleanup deletes the object, not the upload.
AttemptFailsDeleting(a) ==
    /\ pc[a] \in {"stream", "patch"}
    /\ Fault("error")
    /\ stored' = [stored EXCEPT ![target[a]] = 0]
    /\ Release(a)
    /\ Detach(a)
    /\ UNCHANGED <<dbVars, toDownload, wf, reqVars, deleting>>

\* An exception in the activity (or its cancellation): the upload is aborted,
\* the exception raised again, and the server retries the activity.  When it
\* is the answer of a call that was lost, the call has had its effect.
AttemptFails(a) ==
    /\ pc[a] \in {"stream", "patch"}
    /\ \/ Fault("error")
       \/ \* a heartbeat tells a run that was timed out that it is cancelled
          current[target[a]] # a /\ UNCHANGED faults
    /\ \/ UNCHANGED <<stored, synced>>
       \/ /\ pc[a] = "stream" /\ sent[a] = len[a]
          /\ stored' = [stored EXCEPT ![target[a]] = sent[a]]
          /\ UNCHANGED synced
       \/ /\ pc[a] = "patch" /\ row[target[a]] = "live"
          /\ synced' = [synced EXCEPT ![target[a]] = sent[a]]
          /\ UNCHANGED stored
    /\ Release(a)
    /\ Detach(a)
    /\ UNCHANGED <<row, toDownload, wf, reqVars, deleting>>

\* The worker dies.  The activity has no heartbeat timeout and a
\* start-to-close timeout no shorter than the execution timeout of its
\* workflow, so the server only learns of it when the workflow times out.
WorkerCrash(a) ==
    /\ Fault("worker_crash")
    /\ pc[a] # "idle"
    /\ Release(a)
    /\ UNCHANGED <<dbVars, stored, toDownload, wf, current, reqVars, deleting>>

\* The workflow reaches its execution timeout; a run of its activity goes on
\* until it hears of it.
WorkflowTimeout(i) ==
    /\ Fault("workflow_timeout")
    /\ wf[i] \in Running
    /\ wf' = [wf EXCEPT ![i] = "timed_out"]
    /\ current' = [current EXCEPT ![i] = None]
    /\ UNCHANGED <<dbVars, stored, toDownload, pc, target, len, sent,
                   reqVars, deleting>>

\* Temporal drops closed workflows when the retention period is over.
Forget(i) ==
    /\ Fault("forget")
    /\ wf[i] \in Closed
    /\ wf' = [wf EXCEPT ![i] = "none"]
    /\ UNCHANGED <<dbVars, stored, toDownload, attVars, reqVars, deleting>>

-----------------------------------------------------------------------------
(* Removing an item: remove_versions, delete_boot_source.  The handler runs *)
(* in a transaction; ids_to_delete leaves the process after the commit.     *)

\* The handler finds the row and notes the id in request.state.
RemoveOpen(r, i) ==
    /\ reqState[r] = "idle"
    /\ row[i] = "live"
    /\ reqState' = [reqState EXCEPT ![r] = "open"]
    /\ reqItem' = [reqItem EXCEPT ![r] = i]
    /\ UNCHANGED <<dbVars, stored, toDownload, wf, attVars, deleting, faults>>

\* The transaction commits: the row is gone.  When another request has removed
\* it meanwhile, a purge deletes nothing and commits all the same.
RemoveCommit(r) ==
    /\ reqState[r] = "open"
    /\ row' = [row EXCEPT ![reqItem[r]] = "removed"]
    /\ reqState' = [reqState EXCEPT ![r] = "committed"]
    /\ UNCHANGED <<synced, stored, toDownload, wf, attVars, reqItem, deleting,
                   faults>>

\* Mutant of RemoveRollback: S3Middleware does its work after a failure too.
RemoveRollbackSent(r) ==
    /\ reqState[r] = "open"
    /\ reqState' = [reqState EXCEPT ![r] = "committed"]
    /\ UNCHANGED <<dbVars, stored, toDownload, wf, attVars, reqItem, deleting,
                   faults>>

\* The handler raises and the transaction is rolled back: a later version of
\* the request does not exist, or remove_versions finds the row gone.
RemoveRollback(r) ==
    /\ reqState[r] = "open"
    /\ reqState' = [reqState EXCEPT ![r] = "idle"]
    /\ reqItem' = [reqItem EXCEPT ![r] = None]
    /\ UNCHANGED <<dbVars, stored, toDownload, wf, attVars, deleting, faults>>

\* S3Middleware starts DeleteItems.
StartDelete(r) ==
    /\ reqState[r] = "committed"
    /\ deleting' = deleting \cup {reqItem[r]}
    /\ reqState' = [reqState EXCEPT ![r] = "idle"]
    /\ reqItem' = [reqItem EXCEPT ![r] = None]
    /\ UNCHANGED <<dbVars, stored, toDownload, wf, attVars, faults>>

\* The API server dies with the request: an open transaction is rolled back,
\* and the ids of a committed one are lost.
ApiCrash(r) ==
    /\ Fault("api_crash")
    /\ reqState[r] # "idle"
    /\ reqState' = [reqState EXCEPT ![r] = "idle"]
    /\ reqItem' = [reqItem EXCEPT ![r] = None]
    /\ UNCHANGED <<dbVars, stored, toDownload, wf, attVars, deleting>>

\* Mutant of DeleteObject: it asks the database first, where the row is gone.
DeleteObjectOfRow(i) ==
    /\ i \in deleting
    /\ stored' = [stored EXCEPT ![i] = IF row[i] = "live" THEN 0 ELSE @]
    /\ deleting' = deleting \ {i}
    /\ UNCHANGED <<dbVars, toDownload, wf, attVars, reqVars, faults>>

\* The delete activity; it runs again when its answer is lost.
DeleteObject(i) ==
    /\ i \in deleting
    /\ stored' = [stored EXCEPT ![i] = 0]
    /\ \/ deleting' = deleting \ {i} /\ UNCHANGED faults
       \/ Fault("delete_ack_lost") /\ UNCHANGED deleting
    /\ UNCHANGED <<dbVars, toDownload, wf, attVars, reqVars>>

\* DeleteItems reaches its execution timeout of two minutes.
DeleteTimeout(i) ==
    /\ Fault("delete_timeout")
    /\ i \in deleting
    /\ deleting' = deleting \ {i}
    /\ UNCHANGED <<dbVars, stored, toDownload, wf, attVars, reqVars>>

-----------------------------------------------------------------------------
ItemStep(i) ==
    \/ StartDownload(i) \/ SkipStarted(i) \/ GetItem(i)
    \/ \E a \in Attempts, n \in StreamLens : BeginAttempt(i, a, n)
    \/ WorkflowTimeout(i) \/ Forget(i)
    \/ DeleteObject(i) \/ DeleteTimeout(i)

AttemptStep(a) ==
    \/ UploadPart(a) \/ PatchSynced(a) \/ CompleteUpload(a) \/ Report(a)
    \/ AttemptFails(a) \/ WorkerCrash(a)

RequestStep(r) ==
    \/ \E i \in Items : RemoveOpen(r, i)
    \/ RemoveCommit(r) \/ RemoveRollback(r) \/ StartDelete(r) \/ ApiCrash(r)

Next ==
    \/ \E listed \in SUBSET Items : SyncPut(listed)
    \/ SyncTimeout
    \/ \E i \in Items : ItemStep(i)
    \/ \E a \in Attempts : AttemptStep(a)
    \/ \E r \in Requests : RequestStep(r)

Spec == Init /\ [][Next]_vars

-----------------------------------------------------------------------------
(* Fairness.  Temporal runs every workflow and retries every activity, the  *)
(* API server finishes its requests, and the schedule of a source starts a  *)
(* sync again and again while upstream goes on listing its items.           *)

Fairness ==
    /\ SF_vars(SyncPut({i \in Items : row[i] # "removed"}))
    /\ \A i \in Items :
         /\ WF_vars(StartDownload(i) \/ SkipStarted(i))
         /\ WF_vars(GetItem(i))
         /\ WF_vars(\E a \in Attempts, n \in StreamLens : BeginAttempt(i, a, n))
         /\ WF_vars(DeleteObject(i))
    /\ \A a \in Attempts :
         /\ WF_vars(UploadPart(a)) /\ WF_vars(PatchSynced(a))
         /\ WF_vars(CompleteUpload(a)) /\ WF_vars(Report(a))
    /\ \A r \in Requests :
         /\ WF_vars(RemoveCommit(r) \/ RemoveRollback(r))
         /\ WF_vars(StartDelete(r))

FairSpec == Spec /\ Fairness

-----------------------------------------------------------------------------
(* Properties.                                                              *)

FullySynced(i) == row[i] = "live" /\ synced[i] = FileSize

\* An object may be deleted only for a row that is gone for good: a request
\* that loses a race, fails or is rolled back sends nothing to DeleteItems
\* (S3Middleware runs around TransactionMiddleware and only on success).
OnlyRemovedAreDeleted ==
    /\ \A i \in deleting : row[i] = "removed"
    /\ \A r \in Requests :
         reqState[r] = "committed" => row[reqItem[r]] = "removed"

\* No step takes the object of an item away while its row is there, and a
\* removed item never comes back to a row.
ListedObjectKept ==
    [][\A i \in Items :
        /\ stored[i] # 0 /\ stored'[i] = 0 => row[i] = "removed"
        /\ row[i] = "removed" => row'[i] = "removed"]_vars

\* Rows, objects and orders to delete, seen from outside.
Store == INSTANCE ItemStore WITH
    listed <- {i \in Items : row[i] = "live"},
    gone   <- {i \in Items : row[i] = "removed"},
    object <- {i \in Items : stored[i] # 0},
    doomed <- deleting \cup
              {reqItem[r] : r \in {x \in Requests : reqState[x] = "committed"}}

\* The requests, the S3 middleware and the workflows implement the store: the
\* row goes and its object is condemned in one step, though the transaction,
\* the middleware and the workflow each do their part at a time of their own.
ImplementsStore == Store!Spec

\* What the index and the retention policy rest on: an item whose
\* bytes_synced equals its file_size has its whole object, or a download that
\* is still at work on it (the last PATCH comes before complete_upload).
FullySyncedIsStored ==
    \A i \in Items :
        FullySynced(i) => stored[i] = FileSize \/ wf[i] = "download"

\* DownloadUpstreamImageWorkflow returns True for an item that was downloaded
\* or was already complete: its object is there as long as its row is.
TrueMeansStored ==
    \A i \in Items :
        wf[i] = "returned_true" /\ row[i] = "live" => stored[i] = FileSize

\* A sync that is told that the download of an item was already started skips
\* an item whose download is in progress, or has been done since the PUT.
SkippedIsInProgress ==
    [][\A i \in Items :
        SkipStarted(i) => wf[i] \in Running \/ synced[i] = FileSize
                                            \/ row[i] = "removed"]_vars

\* An item that upstream goes on listing is downloaded, unless it is removed.
EventuallyStored ==
    \A i \in Items :
        (row[i] = "live") ~>
            (row[i] = "removed" \/ (FullySynced(i) /\ stored[i] = FileSize))

\* The object of a removed item is deleted.
EventuallyDeleted ==
    \A i \in Items : (i \in deleting) ~> (stored[i] = 0)
=============================================================================

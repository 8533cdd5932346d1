------------------------ MODULE ItemDownload_proofs -------------------------
(***************************************************************************)
(* Theorems about ItemDownload, for every set of items, workers and        *)
(* requests, every file size, and any number of faults.                    *)
(***************************************************************************)
EXTENDS ItemDownload, TLAPS

-----------------------------------------------------------------------------
(* The invariant behind the deletions.                                     *)

\* A request or an attempt that is under way has an item, and an attempt has a
\* stream of at least one part.
Targets ==
    /\ \A r \in Requests : reqState[r] # "idle" => reqItem[r] \in Items
    /\ \A a \in Attempts : pc[a] # "idle" => target[a] \in Items /\ len[a] # 0

\* TypeOK is inductive together with Targets.
TypeInv == TypeOK /\ Targets

DeleteInv == TypeInv /\ OnlyRemovedAreDeleted

-----------------------------------------------------------------------------
(* The invariant behind the bookkeeping, without workflow timeouts.        *)

\* An attempt that is under way is the one its workflow waits for.
Owned == \A a \in Attempts : pc[a] # "idle" => current[target[a]] = a

\* A workflow that waits for an attempt is in its download activity.
Waiting == \A i \in Items : current[i] # None => wf[i] = "download"

\* Only an item with a row is listed for download or has had a workflow.
Born ==
    \A i \in Items :
        row[i] = "unborn" => wf[i] = "none" /\ i \notin toDownload

\* What an attempt has sent is what the row and the object say.
Progress ==
    \A a \in Attempts :
        /\ pc[a] = "gone" => row[target[a]] = "removed"
        /\ pc[a] = "stream" /\ row[target[a]] = "live" =>
             sent[a] = 0 \/ sent[a] = synced[target[a]]
        /\ pc[a] = "report" /\ row[target[a]] = "live" =>
             sent[a] = synced[target[a]] /\ stored[target[a]] = synced[target[a]]
        /\ pc[a] # "idle" => row[target[a]] # "unborn"

\* When no download is at work on an item, its row tells what its object is.
Settled ==
    \A i \in Items :
        row[i] # "removed" /\ wf[i] # "download" => stored[i] = synced[i]

TrueIsWhole ==
    \A i \in Items :
        row[i] # "removed" /\ wf[i] = "returned_true" => synced[i] = FileSize

StoredInv ==
    DeleteInv /\ Owned /\ Waiting /\ Born /\ Progress /\ Settled /\ TrueIsWhole

-----------------------------------------------------------------------------
(* Types.                                                                  *)

LEMMA InitTypeInv == Init => TypeInv
BY ItemDownloadAssumption DEF Init, TypeInv, TypeOK, Targets, Running, Closed

\* Every step keeps the types.
LEMMA NextTypeInv == TypeInv /\ [Next]_vars => TypeInv'
<1>. SUFFICES ASSUME TypeInv, [Next]_vars PROVE TypeInv'
  OBVIOUS
<1>. USE ItemDownloadAssumption DEF TypeInv, TypeOK, Targets, Running, Closed, dbVars, attVars, reqVars
<1>1. ASSUME NEW listed \in SUBSET Items, SyncPut(listed) PROVE TypeInv'
  BY <1>1 DEF SyncPut
<1>2. CASE SyncTimeout
  BY <1>2 DEF SyncTimeout, Fault
<1>3. ASSUME NEW i \in Items, StartDownload(i) PROVE TypeInv'
  BY <1>3 DEF StartDownload
<1>4. ASSUME NEW i \in Items, SkipStarted(i) PROVE TypeInv'
  BY <1>4 DEF SkipStarted
<1>5. ASSUME NEW i \in Items, GetItem(i) PROVE TypeInv'
  BY <1>5 DEF GetItem, ItemAnswered
<1>6. ASSUME NEW i \in Items, NEW a \in Attempts, NEW n \in StreamLens, BeginAttempt(i, a, n) PROVE TypeInv'
  BY <1>6 DEF BeginAttempt
<1>7. ASSUME NEW i \in Items, WorkflowTimeout(i) PROVE TypeInv'
  BY <1>7 DEF WorkflowTimeout, Fault
<1>8. ASSUME NEW i \in Items, Forget(i) PROVE TypeInv'
  BY <1>8 DEF Forget, Fault
<1>9. ASSUME NEW i \in Items, DeleteObject(i) PROVE TypeInv'
  BY <1>9 DEF DeleteObject, Fault
<1>10. ASSUME NEW i \in Items, DeleteTimeout(i) PROVE TypeInv'
  BY <1>10 DEF DeleteTimeout, Fault
<1>11. ASSUME NEW a \in Attempts, UploadPart(a) PROVE TypeInv'
  BY <1>11 DEF UploadPart
<1>12. ASSUME NEW a \in Attempts, PatchSynced(a) PROVE TypeInv'
  BY <1>12 DEF PatchSynced
<1>13. ASSUME NEW a \in Attempts, CompleteUpload(a) PROVE TypeInv'
  BY <1>13 DEF CompleteUpload
<1>14. ASSUME NEW a \in Attempts, Report(a) PROVE TypeInv'
  BY <1>14 DEF Report, Release
<1>15. ASSUME NEW a \in Attempts, AttemptFails(a) PROVE TypeInv'
  BY <1>15 DEF AttemptFails, Fault, Release, Detach
<1>16. ASSUME NEW a \in Attempts, WorkerCrash(a) PROVE TypeInv'
  BY <1>16 DEF WorkerCrash, Fault, Release
<1>17. ASSUME NEW r \in Requests, NEW i \in Items, RemoveOpen(r, i) PROVE TypeInv'
  BY <1>17 DEF RemoveOpen
<1>18. ASSUME NEW r \in Requests, RemoveCommit(r) PROVE TypeInv'
  BY <1>18 DEF RemoveCommit
<1>19. ASSUME NEW r \in Requests, RemoveRollback(r) PROVE TypeInv'
  BY <1>19 DEF RemoveRollback
<1>20. ASSUME NEW r \in Requests, StartDelete(r) PROVE TypeInv'
  BY <1>20 DEF StartDelete
<1>21. ASSUME NEW r \in Requests, ApiCrash(r) PROVE TypeInv'
  BY <1>21 DEF ApiCrash, Fault
<1>22. CASE UNCHANGED vars
  BY <1>22 DEF vars
<1>23. QED
  BY <1>1, <1>2, <1>3, <1>4, <1>5, <1>6, <1>7, <1>8, <1>9, <1>10, <1>11, <1>12, <1>13, <1>14, <1>15, <1>16, <1>17, <1>18, <1>19, <1>20, <1>21, <1>22 DEF Next, ItemStep, AttemptStep, RequestStep

\* Type correctness of the rows, the objects, Temporal's records, the attempts
\* and the requests.
THEOREM TypeCorrect == Spec => []TypeOK
<1>1. TypeInv => TypeOK
  BY DEF TypeInv
<1>. QED
  BY <1>1, InitTypeInv, NextTypeInv, PTL DEF Spec

-----------------------------------------------------------------------------
(* Deletions.                                                              *)

LEMMA InitDeleteInv == Init => DeleteInv
BY InitTypeInv DEF Init, DeleteInv, OnlyRemovedAreDeleted

\* Only four actions write a row, a request or the list of deletions in a way
\* that matters: the commit removes the row first, and DeleteItems is started
\* only from a committed request.
LEMMA NextDeleteInv == DeleteInv /\ [Next]_vars => DeleteInv'
<1>. SUFFICES ASSUME DeleteInv, [Next]_vars PROVE OnlyRemovedAreDeleted'
  BY NextTypeInv DEF DeleteInv
<1>. USE DEF DeleteInv, TypeInv, TypeOK, Targets, OnlyRemovedAreDeleted,
             dbVars, attVars, reqVars
<1>1. ASSUME NEW listed \in SUBSET Items, SyncPut(listed)
      PROVE OnlyRemovedAreDeleted'
  <2>1. \A i \in Items : row[i] = "removed" => row'[i] = "removed"
    BY <1>1 DEF SyncPut
  <2>. QED
    BY <1>1, <2>1 DEF SyncPut
<1>2. ASSUME NEW r \in Requests, RemoveCommit(r) PROVE OnlyRemovedAreDeleted'
  BY <1>2 DEF RemoveCommit
<1>3. ASSUME NEW r \in Requests, StartDelete(r) PROVE OnlyRemovedAreDeleted'
  BY <1>3 DEF StartDelete
<1>4. ASSUME NEW r \in Requests,
             \/ \E i \in Items : RemoveOpen(r, i)
             \/ RemoveRollback(r) \/ ApiCrash(r)
      PROVE OnlyRemovedAreDeleted'
  BY <1>4 DEF RemoveOpen, RemoveRollback, ApiCrash
<1>5. ASSUME NEW i \in Items, DeleteObject(i) \/ DeleteTimeout(i)
      PROVE OnlyRemovedAreDeleted'
  BY <1>5 DEF DeleteObject, DeleteTimeout
<1>6. CASE UNCHANGED <<row, reqVars, deleting>>
  BY <1>6
<1>7. ASSUME NEW i \in Items, ItemStep(i), ~DeleteObject(i), ~DeleteTimeout(i)
      PROVE UNCHANGED <<row, reqVars, deleting>>
  BY <1>7 DEF ItemStep, StartDownload, SkipStarted, GetItem, ItemAnswered, BeginAttempt,
              WorkflowTimeout, Forget
<1>8. ASSUME NEW a \in Attempts, AttemptStep(a)
      PROVE UNCHANGED <<row, reqVars, deleting>>
  BY <1>8 DEF AttemptStep, UploadPart, PatchSynced, CompleteUpload, Report,
              AttemptFails, WorkerCrash
<1>9. SyncTimeout \/ UNCHANGED vars => UNCHANGED <<row, reqVars, deleting>>
  BY DEF SyncTimeout, vars
<1>. QED
  BY <1>1, <1>2, <1>3, <1>4, <1>5, <1>6, <1>7, <1>8, <1>9 DEF Next, RequestStep

\* Whatever requests race, fail or are cut short, and however often DeleteItems
\* runs: an object is deleted only when its row is gone.
THEOREM DeletesAreSafe == Spec => []OnlyRemovedAreDeleted
<1>1. DeleteInv => OnlyRemovedAreDeleted
  BY DEF DeleteInv
<1>. QED
  BY <1>1, InitDeleteInv, NextDeleteInv, PTL DEF Spec

\* No step takes the object of an item that has its row, and a removed item
\* stays removed: ids are never used twice.
THEOREM ObjectsAreKept == Spec => ListedObjectKept
<1>. DEFINE Kept == \A i \in Items :
                /\ stored[i] # 0 /\ stored'[i] = 0 => row[i] = "removed"
                /\ row[i] = "removed" => row'[i] = "removed"
<1>1. DeleteInv /\ [Next]_vars => Kept
  <2>. SUFFICES ASSUME DeleteInv, [Next]_vars PROVE Kept
    OBVIOUS
  <2>. USE DEF DeleteInv, TypeInv, TypeOK, Targets, OnlyRemovedAreDeleted,
               dbVars, attVars, reqVars
  <2>1. ASSUME NEW listed \in SUBSET Items, SyncPut(listed) PROVE Kept
    BY <2>1 DEF SyncPut
  <2>2. ASSUME NEW i \in Items, DeleteObject(i) PROVE Kept
    BY <2>2 DEF DeleteObject
  <2>3. ASSUME NEW r \in Requests, RemoveCommit(r) PROVE Kept
    BY <2>3 DEF RemoveCommit
  <2>4. ASSUME NEW a \in Attempts, CompleteUpload(a) \/ AttemptFails(a)
        PROVE Kept
    <3>1. \/ UNCHANGED stored
          \/ stored' = [stored EXCEPT ![target[a]] = sent[a]] /\ sent[a] # 0
      BY <2>4 DEF CompleteUpload, AttemptFails
    <3>2. UNCHANGED row
      BY <2>4 DEF CompleteUpload, AttemptFails
    <3>. QED
      BY <3>1, <3>2
  <2>5. ASSUME NEW i \in Items, ItemStep(i), ~DeleteObject(i)
        PROVE UNCHANGED <<row, stored>>
    BY <2>5 DEF ItemStep, StartDownload, SkipStarted, GetItem, ItemAnswered, BeginAttempt,
                WorkflowTimeout, Forget, DeleteTimeout
  <2>6. ASSUME NEW a \in Attempts, AttemptStep(a), ~CompleteUpload(a),
               ~AttemptFails(a)
        PROVE UNCHANGED <<row, stored>>
    BY <2>6 DEF AttemptStep, UploadPart, PatchSynced, Report, WorkerCrash
  <2>7. ASSUME NEW r \in Requests, RequestStep(r), ~RemoveCommit(r)
        PROVE UNCHANGED <<row, stored>>
    BY <2>7 DEF RequestStep, RemoveOpen, RemoveRollback, StartDelete, ApiCrash
  <2>8. SyncTimeout \/ UNCHANGED vars => UNCHANGED <<row, stored>>
    BY DEF SyncTimeout, vars
  <2>9. UNCHANGED <<row, stored>> => Kept
    OBVIOUS
  <2>. QED
    BY <2>1, <2>2, <2>3, <2>4, <2>5, <2>6, <2>7, <2>8, <2>9 DEF Next
<1>2. DeleteInv /\ [Next]_vars => [Kept]_vars
  BY <1>1
<1>. QED
  BY <1>2, InitDeleteInv, NextDeleteInv, PTL DEF Spec, ListedObjectKept

-----------------------------------------------------------------------------
(* The bookkeeping.                                                        *)

LEMMA InitStoredInv == Init => StoredInv
BY InitDeleteInv DEF Init, StoredInv, Owned, Waiting, Born, Progress, Settled,
                     TrueIsWhole

\* The part of StoredInv that the next steps have to show.
Bookkeeping == Owned /\ Waiting /\ Born /\ Progress /\ Settled /\ TrueIsWhole

LEMMA NextStoredInv ==
    ASSUME "workflow_timeout" \notin FaultKinds
    PROVE  StoredInv /\ [Next]_vars => StoredInv'
<1>. SUFFICES ASSUME StoredInv, [Next]_vars PROVE Bookkeeping'
  BY NextDeleteInv DEF StoredInv, Bookkeeping
<1>. USE ItemDownloadAssumption
     DEF StoredInv, DeleteInv, TypeInv, TypeOK, Targets, OnlyRemovedAreDeleted,
         Owned, Waiting, Born, Progress, Settled, TrueIsWhole, Running, Closed,
         Bookkeeping, dbVars, attVars, reqVars
<1>1. ASSUME NEW listed \in SUBSET Items, SyncPut(listed)
      PROVE Bookkeeping'
  <2>1. Owned'
    BY <1>1 DEF SyncPut
  <2>2. Waiting'
    BY <1>1 DEF SyncPut
  <2>3. Born'
    BY <1>1 DEF SyncPut
  <2>4. Progress'
    BY <1>1 DEF SyncPut
  <2>5. Settled'
    BY <1>1 DEF SyncPut
  <2>6. TrueIsWhole'
    BY <1>1 DEF SyncPut
  <2>. QED
    BY <2>1, <2>2, <2>3, <2>4, <2>5, <2>6
<1>2. ASSUME NEW i \in Items, StartDownload(i)
      PROVE Bookkeeping'
  <2>1. Owned'
    BY <1>2 DEF StartDownload, CanStart
  <2>2. Waiting'
    BY <1>2 DEF StartDownload, CanStart
  <2>3. Born'
    BY <1>2 DEF StartDownload, CanStart
  <2>4. Progress'
    BY <1>2 DEF StartDownload, CanStart
  <2>5. Settled'
    BY <1>2 DEF StartDownload, CanStart
  <2>6. TrueIsWhole'
    BY <1>2 DEF StartDownload, CanStart
  <2>. QED
    BY <2>1, <2>2, <2>3, <2>4, <2>5, <2>6
<1>3. ASSUME NEW i \in Items, SkipStarted(i)
      PROVE Bookkeeping'
  <2>1. Owned'
    BY <1>3 DEF SkipStarted
  <2>2. Waiting'
    BY <1>3 DEF SkipStarted
  <2>3. Born'
    BY <1>3 DEF SkipStarted
  <2>4. Progress'
    BY <1>3 DEF SkipStarted
  <2>5. Settled'
    BY <1>3 DEF SkipStarted
  <2>6. TrueIsWhole'
    BY <1>3 DEF SkipStarted
  <2>. QED
    BY <2>1, <2>2, <2>3, <2>4, <2>5, <2>6
<1>4. ASSUME NEW i \in Items, GetItem(i)
      PROVE Bookkeeping'
  <2>1. Owned'
    BY <1>4 DEF GetItem, ItemAnswered
  <2>2. Waiting'
    BY <1>4 DEF GetItem, ItemAnswered
  <2>3. Born'
    BY <1>4 DEF GetItem, ItemAnswered
  <2>4. Progress'
    BY <1>4 DEF GetItem, ItemAnswered
  <2>5. Settled'
    BY <1>4 DEF GetItem, ItemAnswered
  <2>6. TrueIsWhole'
    BY <1>4 DEF GetItem, ItemAnswered
  <2>. QED
    BY <2>1, <2>2, <2>3, <2>4, <2>5, <2>6
<1>5. ASSUME NEW i \in Items, NEW a \in Attempts, NEW n \in StreamLens, BeginAttempt(i, a, n)
      PROVE Bookkeeping'
  <2>1. Owned'
    BY <1>5 DEF BeginAttempt
  <2>2. Waiting'
    BY <1>5 DEF BeginAttempt
  <2>3. Born'
    BY <1>5 DEF BeginAttempt
  <2>4. Progress'
    BY <1>5 DEF BeginAttempt
  <2>5. Settled'
    BY <1>5 DEF BeginAttempt
  <2>6. TrueIsWhole'
    BY <1>5 DEF BeginAttempt
  <2>. QED
    BY <2>1, <2>2, <2>3, <2>4, <2>5, <2>6
<1>6. ASSUME NEW a \in Attempts, UploadPart(a)
      PROVE Bookkeeping'
  <2>1. Owned'
    BY <1>6 DEF UploadPart
  <2>2. Waiting'
    BY <1>6 DEF UploadPart
  <2>3. Born'
    BY <1>6 DEF UploadPart
  <2>4. Progress'
    BY <1>6 DEF UploadPart
  <2>5. Settled'
    BY <1>6 DEF UploadPart
  <2>6. TrueIsWhole'
    BY <1>6 DEF UploadPart
  <2>. QED
    BY <2>1, <2>2, <2>3, <2>4, <2>5, <2>6
<1>7. ASSUME NEW a \in Attempts, PatchSynced(a)
      PROVE Bookkeeping'
  <2>1. Owned'
    BY <1>7 DEF PatchSynced
  <2>2. Waiting'
    BY <1>7 DEF PatchSynced
  <2>3. Born'
    BY <1>7 DEF PatchSynced
  <2>4. Progress'
    BY <1>7 DEF PatchSynced
  <2>5. Settled'
    BY <1>7 DEF PatchSynced
  <2>6. TrueIsWhole'
    BY <1>7 DEF PatchSynced
  <2>. QED
    BY <2>1, <2>2, <2>3, <2>4, <2>5, <2>6
<1>8. ASSUME NEW a \in Attempts, CompleteUpload(a)
      PROVE Bookkeeping'
  <2>1. Owned'
    BY <1>8 DEF CompleteUpload
  <2>2. Waiting'
    BY <1>8 DEF CompleteUpload
  <2>3. Born'
    BY <1>8 DEF CompleteUpload
  <2>4. Progress'
    BY <1>8 DEF CompleteUpload
  <2>5. Settled'
    BY <1>8 DEF CompleteUpload
  <2>6. TrueIsWhole'
    BY <1>8 DEF CompleteUpload
  <2>. QED
    BY <2>1, <2>2, <2>3, <2>4, <2>5, <2>6
<1>9. ASSUME NEW a \in Attempts, Report(a)
      PROVE Bookkeeping'
  <2>1. Owned'
    BY <1>9 DEF Report, Release
  <2>2. Waiting'
    BY <1>9 DEF Report, Release
  <2>3. Born'
    BY <1>9 DEF Report, Release
  <2>4. Progress'
    BY <1>9 DEF Report, Release
  <2>5. Settled'
    BY <1>9 DEF Report, Release
  <2>6. TrueIsWhole'
    BY <1>9 DEF Report, Release
  <2>. QED
    BY <2>1, <2>2, <2>3, <2>4, <2>5, <2>6
<1>10. ASSUME NEW a \in Attempts, AttemptFails(a)
      PROVE Bookkeeping'
  <2>1. Owned'
    BY <1>10 DEF AttemptFails, Release, Detach
  <2>2. Waiting'
    BY <1>10 DEF AttemptFails, Release, Detach
  <2>3. Born'
    BY <1>10 DEF AttemptFails, Release, Detach
  <2>4. Progress'
    BY <1>10 DEF AttemptFails, Release, Detach
  <2>5. Settled'
    BY <1>10 DEF AttemptFails, Release, Detach
  <2>6. TrueIsWhole'
    BY <1>10 DEF AttemptFails, Release, Detach
  <2>. QED
    BY <2>1, <2>2, <2>3, <2>4, <2>5, <2>6
<1>11. ASSUME NEW a \in Attempts, WorkerCrash(a)
      PROVE Bookkeeping'
  <2>1. Owned'
    BY <1>11 DEF WorkerCrash, Release
  <2>2. Waiting'
    BY <1>11 DEF WorkerCrash, Release
  <2>3. Born'
    BY <1>11 DEF WorkerCrash, Release
  <2>4. Progress'
    BY <1>11 DEF WorkerCrash, Release
  <2>5. Settled'
    BY <1>11 DEF WorkerCrash, Release
  <2>6. TrueIsWhole'
    BY <1>11 DEF WorkerCrash, Release
  <2>. QED
    BY <2>1, <2>2, <2>3, <2>4, <2>5, <2>6
<1>12. ASSUME NEW i \in Items, Forget(i)
      PROVE Bookkeeping'
  <2>1. Owned'
    BY <1>12 DEF Forget
  <2>2. Waiting'
    BY <1>12 DEF Forget
  <2>3. Born'
    BY <1>12 DEF Forget
  <2>4. Progress'
    BY <1>12 DEF Forget
  <2>5. Settled'
    BY <1>12 DEF Forget
  <2>6. TrueIsWhole'
    BY <1>12 DEF Forget
  <2>. QED
    BY <2>1, <2>2, <2>3, <2>4, <2>5, <2>6
<1>13. ASSUME NEW r \in Requests, RemoveCommit(r)
      PROVE Bookkeeping'
  <2>1. Owned'
    BY <1>13 DEF RemoveCommit
  <2>2. Waiting'
    BY <1>13 DEF RemoveCommit
  <2>3. Born'
    BY <1>13 DEF RemoveCommit
  <2>4. Progress'
    BY <1>13 DEF RemoveCommit
  <2>5. Settled'
    BY <1>13 DEF RemoveCommit
  <2>6. TrueIsWhole'
    BY <1>13 DEF RemoveCommit
  <2>. QED
    BY <2>1, <2>2, <2>3, <2>4, <2>5, <2>6
<1>14. ASSUME NEW i \in Items, DeleteObject(i)
      PROVE Bookkeeping'
  <2>1. Owned'
    BY <1>14 DEF DeleteObject
  <2>2. Waiting'
    BY <1>14 DEF DeleteObject
  <2>3. Born'
    BY <1>14 DEF DeleteObject
  <2>4. Progress'
    BY <1>14 DEF DeleteObject
  <2>5. Settled'
    BY <1>14 DEF DeleteObject
  <2>6. TrueIsWhole'
    BY <1>14 DEF DeleteObject
  <2>. QED
    BY <2>1, <2>2, <2>3, <2>4, <2>5, <2>6
<1>15. CASE SyncTimeout
  BY <1>15 DEF SyncTimeout
<1>16. ASSUME NEW i \in Items, WorkflowTimeout(i) PROVE Bookkeeping'
  BY <1>16 DEF WorkflowTimeout, Fault
<1>17. ASSUME UNCHANGED <<row, synced, stored, toDownload, wf, attVars>>
       PROVE Bookkeeping'
  BY <1>17
<1>18. ASSUME NEW i \in Items, DeleteTimeout(i) PROVE Bookkeeping'
  BY <1>17, <1>18 DEF DeleteTimeout
<1>19. ASSUME NEW r \in Requests, RequestStep(r), ~RemoveCommit(r)
       PROVE Bookkeeping'
  BY <1>17, <1>19 DEF RequestStep, RemoveOpen, RemoveRollback, StartDelete, ApiCrash
<1>20. CASE UNCHANGED vars
  BY <1>17, <1>20 DEF vars
<1>21. ASSUME NEW i \in Items, ItemStep(i) PROVE Bookkeeping'
  BY <1>2, <1>3, <1>4, <1>5, <1>12, <1>14, <1>16, <1>18, <1>21 DEF ItemStep
<1>22. ASSUME NEW a \in Attempts, AttemptStep(a) PROVE Bookkeeping'
  BY <1>6, <1>7, <1>8, <1>9, <1>10, <1>11, <1>22 DEF AttemptStep
<1>. QED
  BY <1>1, <1>13, <1>15, <1>19, <1>20, <1>21, <1>22 DEF Next

LEMMA StoredAlways ==
    ASSUME "workflow_timeout" \notin FaultKinds
    PROVE  Spec => []StoredInv
<1>1. StoredInv /\ [Next]_vars => StoredInv'
  BY NextStoredInv
<1>. QED
  BY <1>1, InitStoredInv, PTL DEF Spec

LEMMA StoredBooks == StoredInv => FullySyncedIsStored /\ TrueMeansStored
BY DEF StoredInv, DeleteInv, TypeInv, TypeOK, Settled, TrueIsWhole,
       FullySyncedIsStored, TrueMeansStored, FullySynced

\* Unless a download workflow reaches its execution timeout, an item that its
\* row calls fully synced has its whole object or a download still at work.
THEOREM BookkeepingIsSound ==
    ASSUME "workflow_timeout" \notin FaultKinds
    PROVE  Spec => []FullySyncedIsStored
<1>1. StoredInv => FullySyncedIsStored
  BY StoredBooks
<1>. QED
  BY <1>1, StoredAlways, PTL

\* Under the same condition, a workflow that returned True left the object of
\* its item behind.
THEOREM TrueIsSound ==
    ASSUME "workflow_timeout" \notin FaultKinds
    PROVE  Spec => []TrueMeansStored
<1>1. StoredInv => TrueMeansStored
  BY StoredBooks
<1>. QED
  BY <1>1, StoredAlways, PTL

-----------------------------------------------------------------------------
(* What a sync may skip.                                                   *)

\* With an upstream that serves what it lists, every upload is whole, and a
\* workflow returned False only for an item that was removed under it.
FalseIsRemoved ==
    /\ \A a \in Attempts :
         /\ pc[a] # "idle" => len[a] = FileSize
         /\ pc[a] = "report" => sent[a] = FileSize
    /\ \A i \in Items : wf[i] = "returned_false" => row[i] = "removed"

SkipInv == StoredInv /\ FalseIsRemoved

LEMMA InitSkipInv == Init => SkipInv
BY InitStoredInv DEF Init, SkipInv, FalseIsRemoved

LEMMA NextSkipInv ==
    ASSUME "workflow_timeout" \notin FaultKinds, StreamLens = {FileSize}
    PROVE  SkipInv /\ [Next]_vars => SkipInv'
<1>. SUFFICES ASSUME SkipInv, [Next]_vars PROVE FalseIsRemoved'
  BY NextStoredInv DEF SkipInv
<1>. USE DEF SkipInv, FalseIsRemoved, StoredInv, DeleteInv, TypeInv, TypeOK,
             Targets, dbVars, attVars, reqVars
<1>1. ASSUME NEW listed \in SUBSET Items, SyncPut(listed)
      PROVE  FalseIsRemoved'
  BY <1>1 DEF SyncPut
<1>2. ASSUME NEW i \in Items, StartDownload(i) \/ GetItem(i)
      PROVE  FalseIsRemoved'
  BY <1>2 DEF StartDownload, GetItem
<1>3. ASSUME NEW i \in Items, NEW a \in Attempts, NEW n \in StreamLens,
             BeginAttempt(i, a, n)
      PROVE  FalseIsRemoved'
  BY <1>3 DEF BeginAttempt
<1>4. ASSUME NEW i \in Items, WorkflowTimeout(i) \/ Forget(i)
      PROVE  FalseIsRemoved'
  BY <1>4 DEF WorkflowTimeout, Forget
<1>5. ASSUME NEW a \in Attempts, UploadPart(a) PROVE FalseIsRemoved'
  BY <1>5 DEF UploadPart
<1>6. ASSUME NEW a \in Attempts, PatchSynced(a) PROVE FalseIsRemoved'
  BY <1>6 DEF PatchSynced
<1>7. ASSUME NEW a \in Attempts, CompleteUpload(a) PROVE FalseIsRemoved'
  BY <1>7 DEF CompleteUpload
<1>8. ASSUME NEW a \in Attempts, Report(a) PROVE FalseIsRemoved'
  <2>1. pc[a] = "gone" => row[target[a]] = "removed"
    BY DEF Progress
  <2>. QED
    BY <1>8, <2>1 DEF Report, Release
<1>9. ASSUME NEW a \in Attempts, AttemptFails(a) \/ WorkerCrash(a)
      PROVE  FalseIsRemoved'
  BY <1>9 DEF AttemptFails, WorkerCrash, Release
<1>10. ASSUME NEW r \in Requests, RemoveCommit(r) PROVE FalseIsRemoved'
  BY <1>10 DEF RemoveCommit
<1>11. ASSUME \/ SyncTimeout \/ UNCHANGED vars
              \/ \E i \in Items :
                   SkipStarted(i) \/ DeleteObject(i) \/ DeleteTimeout(i)
              \/ \E r \in Requests :
                   \/ \E i \in Items : RemoveOpen(r, i)
                   \/ RemoveRollback(r) \/ StartDelete(r) \/ ApiCrash(r)
       PROVE  FalseIsRemoved'
  <2>1. UNCHANGED <<row, wf, attVars>>
    BY <1>11 DEF SyncTimeout, vars, SkipStarted, DeleteObject, DeleteTimeout,
                 RemoveOpen, RemoveRollback, StartDelete, ApiCrash
  <2>. QED
    BY <2>1
<1>. QED
  BY <1>1, <1>2, <1>3, <1>4, <1>5, <1>6, <1>7, <1>8, <1>9, <1>10, <1>11
     DEF Next, ItemStep, AttemptStep, RequestStep

\* When no download workflow is timed out and upstream serves what it lists, a
\* sync that takes WorkflowAlreadyStartedError for an answer skips nothing that
\* still had to be downloaded.
THEOREM SkipsAreSafe ==
    ASSUME "workflow_timeout" \notin FaultKinds, StreamLens = {FileSize}
    PROVE  Spec => SkippedIsInProgress
<1>. DEFINE Skips ==
       \A i \in Items :
         SkipStarted(i) => wf[i] \in Running \/ synced[i] = FileSize
                                             \/ row[i] = "removed"
<1>1. SkipInv => Skips
  <2>. SUFFICES ASSUME SkipInv, NEW i \in Items, SkipStarted(i),
                       wf[i] \notin Running, row[i] # "removed"
                PROVE  synced[i] = FileSize
    OBVIOUS
  <2>1. wf[i] \in Closed \ {"timed_out"}
    BY DEF SkipStarted, CanStart, Closed, SkipInv, StoredInv, DeleteInv,
           TypeInv, TypeOK
  <2>2. wf[i] # "returned_false"
    BY DEF SkipInv, FalseIsRemoved
  <2>. QED
    BY <2>1, <2>2 DEF Closed, SkipInv, StoredInv, TrueIsWhole
<1>2. SkipInv /\ [Next]_vars => [Skips]_vars
  BY <1>1
<1>3. SkipInv /\ [Next]_vars => SkipInv'
  BY NextSkipInv
<1>. QED
  BY <1>2, <1>3, InitSkipInv, PTL DEF Spec, SkippedIsInProgress

-----------------------------------------------------------------------------
(* The store that rows, objects and orders to delete implement.            *)

\* Only an item that has had a row is downloaded or removed.
Known ==
    /\ \A i \in Items : wf[i] = "download" => row[i] # "unborn"
    /\ \A a \in Attempts : pc[a] # "idle" => row[target[a]] # "unborn"
    /\ \A r \in Requests : reqState[r] # "idle" => row[reqItem[r]] # "unborn"

KnownInv == DeleteInv /\ Known

LEMMA InitKnownInv == Init => KnownInv
BY InitDeleteInv DEF Init, KnownInv, Known

\* No row goes back to being unborn.
LEMMA BornRemains ==
    TypeInv /\ [Next]_vars => \A i \in Items : row[i] # "unborn" => row'[i] # "unborn"
<1>. SUFFICES ASSUME TypeInv, [Next]_vars
              PROVE \A i \in Items : row[i] # "unborn" => row'[i] # "unborn"
  OBVIOUS
<1>. USE DEF TypeInv, TypeOK, Targets, dbVars, attVars, reqVars
<1>1. ASSUME NEW listed \in SUBSET Items, SyncPut(listed)
      PROVE \A i \in Items : row[i] # "unborn" => row'[i] # "unborn"
  BY <1>1 DEF SyncPut
<1>2. ASSUME NEW r \in Requests, RequestStep(r)
      PROVE \A i \in Items : row[i] # "unborn" => row'[i] # "unborn"
  BY <1>2 DEF RequestStep, RemoveOpen, RemoveCommit, RemoveRollback, StartDelete, ApiCrash
<1>3. ASSUME \/ SyncTimeout \/ UNCHANGED vars
             \/ \E i \in Items : ItemStep(i)
             \/ \E a \in Attempts : AttemptStep(a)
      PROVE UNCHANGED row
  BY <1>3 DEF SyncTimeout, vars, ItemStep, StartDownload, SkipStarted, GetItem,
                 ItemAnswered, BeginAttempt,
              WorkflowTimeout, Forget, DeleteObject, DeleteTimeout, AttemptStep, UploadPart,
              PatchSynced, CompleteUpload, Report, AttemptFails, WorkerCrash
<1>. QED
  BY <1>1, <1>2, <1>3 DEF Next

LEMMA NextKnownInv == KnownInv /\ [Next]_vars => KnownInv'
<1>. SUFFICES ASSUME KnownInv, [Next]_vars PROVE Known'
  BY NextDeleteInv DEF KnownInv
<1>1. DeleteInv /\ TypeInv /\ TypeInv'
  BY NextTypeInv DEF KnownInv, DeleteInv
<1>2. \A i \in Items : row[i] # "unborn" => row'[i] # "unborn"
  BY <1>1, BornRemains
<1>. USE <1>1, <1>2 DEF KnownInv, Known, TypeInv, TypeOK, Targets, dbVars, attVars, reqVars
<1>3. ASSUME NEW i \in Items, GetItem(i) PROVE Known'
  BY <1>3 DEF GetItem, ItemAnswered
<1>4. ASSUME NEW i \in Items, NEW a \in Attempts, NEW n \in StreamLens, BeginAttempt(i, a, n)
      PROVE Known'
  BY <1>4 DEF BeginAttempt
<1>5. ASSUME NEW i \in Items, StartDownload(i) \/ WorkflowTimeout(i) \/ Forget(i)
      PROVE Known'
  BY <1>5 DEF StartDownload, WorkflowTimeout, Forget
<1>6. ASSUME NEW a \in Attempts, AttemptStep(a) PROVE Known'
  <2>1. \A b \in Attempts : pc'[b] # "idle" => pc[b] # "idle" /\ target'[b] = target[b]
    BY <1>6 DEF AttemptStep, UploadPart, PatchSynced, CompleteUpload, Report, Release,
                AttemptFails, WorkerCrash
  <2>2. \A i \in Items : wf'[i] = "download" => wf[i] = "download"
    BY <1>6 DEF AttemptStep, UploadPart, PatchSynced, CompleteUpload, Report, Release,
                AttemptFails, WorkerCrash
  <2>3. UNCHANGED reqVars
    BY <1>6 DEF AttemptStep, UploadPart, PatchSynced, CompleteUpload, Report, Release,
                AttemptFails, WorkerCrash
  <2>. QED
    BY <2>1, <2>2, <2>3
<1>7. ASSUME NEW r \in Requests, RequestStep(r) PROVE Known'
  <2>1. \A x \in Requests : reqState'[x] # "idle" =>
          reqItem'[x] \in Items /\ row[reqItem'[x]] # "unborn"
    BY <1>7 DEF RequestStep, RemoveOpen, RemoveCommit, RemoveRollback, StartDelete, ApiCrash
  <2>2. UNCHANGED <<wf, pc, target>>
    BY <1>7 DEF RequestStep, RemoveOpen, RemoveCommit, RemoveRollback, StartDelete, ApiCrash
  <2>. QED
    BY <2>1, <2>2
<1>8. CASE UNCHANGED <<wf, pc, target, reqVars>>
  BY <1>8
<1>9. ASSUME \/ \E listed \in SUBSET Items : SyncPut(listed)
             \/ SyncTimeout \/ UNCHANGED vars
             \/ \E i \in Items : SkipStarted(i) \/ DeleteObject(i) \/ DeleteTimeout(i)
      PROVE UNCHANGED <<wf, pc, target, reqVars>>
  BY <1>9 DEF SyncPut, SyncTimeout, vars, SkipStarted, DeleteObject, DeleteTimeout
<1>. QED
  BY <1>3, <1>4, <1>5, <1>6, <1>7, <1>8, <1>9 DEF Next, ItemStep

LEMMA StoreStep == KnownInv /\ [Next]_vars => [Store!Next]_(Store!vars)
<1>. SUFFICES ASSUME KnownInv, [Next]_vars PROVE [Store!Next]_(Store!vars)
  OBVIOUS
<1>. DEFINE live   == {i \in Items : row[i] = "live"}
            gone   == {i \in Items : row[i] = "removed"}
            object == {i \in Items : stored[i] # 0}
            orders == {reqItem[r] : r \in {x \in Requests : reqState[x] = "committed"}}
            doomed == deleting \cup orders
<1>0. TypeOK /\ Targets /\ OnlyRemovedAreDeleted /\ Known
  BY DEF KnownInv, DeleteInv, TypeInv
<1>. USE DEF TypeOK, Targets, dbVars, attVars, reqVars
<1>1. ASSUME NEW listed \in SUBSET Items, SyncPut(listed) PROVE Store!Next
  <2>1. listed \subseteq Items \ gone /\ live' = live \cup listed
    BY <1>0, <1>1 DEF SyncPut
  <2>2. gone' = gone /\ object' = object /\ doomed' = doomed
    BY <1>0, <1>1 DEF SyncPut
  <2>3. Store!List(listed)
    BY <2>1, <2>2 DEF Store!List
  <2>. QED
    BY <2>3 DEF Store!Next
<1>2. ASSUME NEW a \in Attempts, stored' = [stored EXCEPT ![target[a]] = sent[a]],
             sent[a] = len[a], pc[a] # "idle", UNCHANGED <<row, reqVars, deleting>>
      PROVE Store!Next
  <2>1. target[a] \in Items
    BY <1>0, <1>2
  <2>2. PICK i \in Items : i = target[a]
    BY <2>1
  <2>3. i \in live \cup gone
    BY <1>0, <1>2, <2>2 DEF Known
  <2>4. object' = object \cup {i}
    BY <1>0, <1>2, <2>2
  <2>5. live' = live /\ gone' = gone /\ doomed' = doomed
    BY <1>2
  <2>6. Store!Upload(i)
    BY <2>3, <2>4, <2>5 DEF Store!Upload
  <2>. QED
    BY <2>6 DEF Store!Next
<1>3. ASSUME NEW r \in Requests, RemoveCommit(r) PROVE Store!Next
  <2>1. reqItem[r] \in Items
    BY <1>0, <1>3 DEF RemoveCommit
  <2>2. PICK i \in Items : i = reqItem[r]
    BY <2>1
  <2>3. i \in live \cup gone
    BY <1>0, <1>3, <2>2 DEF Known, RemoveCommit
  <2>4. live' = live \ {i} /\ gone' = gone \cup {i} /\ object' = object
    BY <1>0, <1>3, <2>2 DEF RemoveCommit
  <2>5. doomed' = doomed \cup {i}
    BY <1>0, <1>3, <2>2 DEF RemoveCommit
  <2>6. Store!Remove(i)
    BY <2>3, <2>4, <2>5 DEF Store!Remove
  <2>. QED
    BY <2>6 DEF Store!Next
<1>4. ASSUME NEW i \in Items, DeleteObject(i) PROVE Store!Next
  <2>1. live' = live /\ gone' = gone /\ orders' = orders
    BY <1>4 DEF DeleteObject
  <2>2. object' = object \ {i}
    BY <1>0, <1>4 DEF DeleteObject
  <2>3. i \in doomed /\ doomed' \in {doomed, doomed \ {i}}
    <3>1. i \in deleting /\ (deleting' = deleting \/ deleting' = deleting \ {i})
      BY <1>4 DEF DeleteObject
    <3>. QED
      BY <2>1, <3>1
  <2>4. Store!Delete(i)
    BY <2>1, <2>2, <2>3 DEF Store!Delete
  <2>. QED
    BY <2>4 DEF Store!Next
<1>5. ASSUME NEW i \in Items, UNCHANGED <<row, stored>>, i \in doomed, doomed' = doomed \ {i}
      PROVE Store!Next
  <2>1. Store!Lose(i)
    BY <1>5 DEF Store!Lose
  <2>. QED
    BY <2>1 DEF Store!Next
<1>6. ASSUME UNCHANGED <<row, stored>>, doomed' = doomed PROVE UNCHANGED Store!vars
  BY <1>6 DEF Store!vars
<1>7. ASSUME NEW i \in Items, DeleteTimeout(i) PROVE [Store!Next]_(Store!vars)
  <2>1. UNCHANGED <<row, stored>> /\ orders' = orders /\ i \in deleting /\ deleting' = deleting \ {i}
    BY <1>7 DEF DeleteTimeout
  <2>2. doomed' = doomed \/ doomed' = doomed \ {i}
    BY <2>1
  <2>. QED
    BY <1>5, <1>6, <2>1, <2>2
<1>8. ASSUME NEW r \in Requests, StartDelete(r) PROVE [Store!Next]_(Store!vars)
  <2>1. UNCHANGED <<row, stored>>
    BY <1>8 DEF StartDelete
  <2>2. doomed' = doomed
    BY <1>0, <1>8 DEF StartDelete
  <2>. QED
    BY <1>6, <2>1, <2>2
<1>9. ASSUME NEW r \in Requests, ApiCrash(r) PROVE [Store!Next]_(Store!vars)
  <2>1. UNCHANGED <<row, stored>> /\ deleting' = deleting
    BY <1>9 DEF ApiCrash
  <2>2. CASE reqState[r] = "open"
    <3>1. orders' = orders
      BY <1>0, <1>9, <2>2 DEF ApiCrash
    <3>. QED
      BY <1>6, <2>1, <3>1
  <2>3. CASE reqState[r] = "committed"
    <3>1. reqItem[r] \in Items /\ reqItem[r] \in doomed
      BY <1>0, <2>3
    <3>2. orders' = orders \/ orders' = orders \ {reqItem[r]}
      BY <1>0, <1>9, <2>3 DEF ApiCrash
    <3>3. doomed' = doomed \/ doomed' = doomed \ {reqItem[r]}
      BY <2>1, <3>1, <3>2
    <3>. QED
      BY <1>5, <1>6, <2>1, <3>1, <3>3
  <2>. QED
    BY <1>0, <1>9, <2>2, <2>3 DEF ApiCrash
<1>10. ASSUME NEW r \in Requests, (\E i \in Items : RemoveOpen(r, i)) \/ RemoveRollback(r)
       PROVE UNCHANGED Store!vars
  <2>1. UNCHANGED <<row, stored>> /\ deleting' = deleting
    BY <1>10 DEF RemoveOpen, RemoveRollback
  <2>2. orders' = orders
    BY <1>0, <1>10 DEF RemoveOpen, RemoveRollback
  <2>. QED
    BY <1>6, <2>1, <2>2
<1>11. ASSUME NEW a \in Attempts, CompleteUpload(a) \/ AttemptFails(a)
       PROVE [Store!Next]_(Store!vars)
  <2>1. \/ UNCHANGED <<row, stored, reqVars, deleting>>
        \/ /\ stored' = [stored EXCEPT ![target[a]] = sent[a]]
           /\ sent[a] = len[a] /\ pc[a] # "idle"
           /\ UNCHANGED <<row, reqVars, deleting>>
    BY <1>11 DEF CompleteUpload, AttemptFails
  <2>. QED
    BY <1>2, <1>6, <2>1
<1>12. ASSUME \/ SyncTimeout \/ UNCHANGED vars
              \/ \E i \in Items :
                   \/ StartDownload(i) \/ SkipStarted(i) \/ GetItem(i)
                   \/ \E a \in Attempts, n \in StreamLens : BeginAttempt(i, a, n)
                   \/ WorkflowTimeout(i) \/ Forget(i)
              \/ \E a \in Attempts :
                   UploadPart(a) \/ PatchSynced(a) \/ Report(a) \/ WorkerCrash(a)
       PROVE UNCHANGED Store!vars
  <2>1. UNCHANGED <<row, stored, reqVars, deleting>>
    BY <1>12 DEF SyncTimeout, vars, StartDownload, SkipStarted, GetItem,
                  ItemAnswered, BeginAttempt,
                 WorkflowTimeout, Forget, UploadPart, PatchSynced, Report, WorkerCrash
  <2>. QED
    BY <1>6, <2>1
<1>. QED
  BY <1>1, <1>3, <1>4, <1>7, <1>8, <1>9, <1>10, <1>11, <1>12
     DEF Next, ItemStep, AttemptStep, RequestStep

\* Requests, S3 middleware and workflows implement the store, whatever races,
\* fails or is cut short: an object is condemned by the very step that removes
\* its row, and only a condemned object is deleted.
THEOREM StoreImplemented == Spec => ImplementsStore
<1>1. Init => Store!Init
  BY ItemDownloadAssumption DEF Init, Store!Init
<1>. QED
  BY <1>1, InitKnownInv, NextKnownInv, StoreStep, PTL DEF Spec, ImplementsStore, Store!Spec
=============================================================================

--------------------------- MODULE SyncSchedules ---------------------------
(***************************************************************************)
(* The two schedules that Temporal keeps for a boot source (one refreshes  *)
(* its selections, one syncs its images) and the sync_interval of its row. *)
(*                                                                         *)
(* The API server writes both: the row in the transaction of the request,  *)
(* the schedules by calls to Temporal that take effect at once, whatever   *)
(* becomes of the transaction.  A PATCH holds the lock of the row while it *)
(* calls; a purge calls first and locks after.  When it starts, the server *)
(* enables the schedules of all active sources before it takes requests.   *)
(* There is one API server process.                                        *)
(***************************************************************************)
EXTENDS Integers, FiniteSets

CONSTANTS
    Sources,     \* ids of boot sources: a serial key, never used twice
    Requests,    \* requests that may be open at once
    Intervals,   \* sync_interval of a request, in minutes; 0 disables the sync
    Off,         \* no row, no schedule
    Keep,        \* a PATCH that leaves the interval alone
    FaultKinds,  \* the faults that may happen
    MaxFaults    \* bound: how many of them

AllFaults == {"crash", "rollback", "rpc_error"}

ASSUME SyncSchedulesAssumption ==
    /\ Intervals \subseteq Nat
    /\ Off \notin Nat
    /\ Keep \notin Nat \cup {Off}
    /\ Off \notin Requests
    /\ FaultKinds \subseteq AllFaults
    /\ MaxFaults \in Nat

VARIABLES
    unused,    \* ids that no INSERT has taken yet
    row,       \* source -> sync_interval of its committed row, or Off
    lock,      \* source -> the request that has locked its row, or Off
    refresh,   \* source -> interval of schedule sched-boot-select-<id>, or Off
    sync,      \* source -> interval of schedule sched-boot-source-<id>, or Off
    req,       \* request -> what it does, and where it is
    starting,  \* is the API server starting?
    todo,      \* active sources whose schedules it has still to enable
    hurt,      \* history: sources a request on which failed halfway
    faults     \* how many faults have happened

rowVars   == <<unused, row, lock>>
schedVars == <<refresh, sync>>
bootVars  == <<starting, todo>>
vars == <<unused, row, lock, refresh, sync, req, starting, todo, hurt, faults>>

Ops == {"create", "patch", "purge", "select", "ensure"}
Pcs == {"update_row", "update_refresh", "update_sync", "create_refresh",
        "create_sync", "trigger", "delete_refresh", "delete_sync",
        "delete_row", "commit"}

Idle == [op |-> "none"]
Job  == [op : Ops, source : Sources, interval : Intervals \cup {Keep}, pc : Pcs]

TypeOK ==
    /\ unused \in SUBSET Sources
    /\ row \in [Sources -> Intervals \cup {Off}]
    /\ lock \in [Sources -> Requests \cup {Off}]
    /\ refresh \in [Sources -> Nat \cup {Off}]
    /\ sync \in [Sources -> Intervals \cup {Off}]
    /\ req \in [Requests -> Job \cup {Idle}]
    /\ starting \in BOOLEAN
    /\ todo \in SUBSET Sources
    /\ hurt \in SUBSET Sources
    /\ faults \in 0..MaxFaults

Init ==
    /\ unused = Sources
    /\ row = [s \in Sources |-> Off]
    /\ lock = [s \in Sources |-> Off]
    /\ refresh = [s \in Sources |-> Off]
    /\ sync = [s \in Sources |-> Off]
    /\ req = [r \in Requests |-> Idle]
    /\ starting = FALSE /\ todo = {}
    /\ hurt = {}
    /\ faults = 0

\* max(sync_interval // 2, BOOT_SELECTION_REFRESH_INTVAL)
RefreshEvery(n) == IF n \div 2 > 5 THEN n \div 2 ELSE 5

Active == {s \in Sources : row[s] \notin {Off, 0}}

\* The requests that are about source s.
On(s) == {r \in Requests : req[r] # Idle /\ req[r].source = s}

At(r, pc) == req[r] # Idle /\ req[r].pc = pc

Goto(r, pc) == req' = [req EXCEPT ![r].pc = pc]

Fault(kind) ==
    /\ kind \in FaultKinds
    /\ faults < MaxFaults
    /\ faults' = faults + 1

-----------------------------------------------------------------------------
(* How a request begins and ends.                                           *)

Open(r, op, s, n, pc) ==
    /\ req[r] = Idle
    /\ req' = [req EXCEPT ![r] = [op |-> op, source |-> s, interval |-> n,
                                  pc |-> pc]]
    /\ UNCHANGED <<row, lock, schedVars, starting, todo, hurt, faults>>

\* POST /bootasset-sources: the INSERT takes an id for good, and no one else
\* sees the row before the commit.
OpenCreate(r) ==
    /\ ~starting
    /\ \E s \in unused, n \in Intervals :
         /\ unused' = unused \ {s}
         /\ Open(r, "create", s, n, IF n = 0 THEN "commit" ELSE "update_refresh")

\* PATCH /bootasset-sources/{id} has found the row.
OpenPatch(r) ==
    /\ ~starting
    /\ \E s \in Sources, n \in Intervals \cup {Keep} :
         row[s] # Off /\ Open(r, "patch", s, n, "update_row")
    /\ UNCHANGED unused

\* DELETE /bootasset-sources/{id} has found the row: purge_source.
OpenPurge(r) ==
    /\ ~starting
    /\ \E s \in Sources :
         row[s] # Off /\ Open(r, "purge", s, Keep, "delete_refresh")
    /\ UNCHANGED unused

\* Images of the source are selected or deselected: a sync is triggered.
OpenSelect(r) ==
    /\ ~starting
    /\ \E s \in Sources :
         row[s] # Off /\ Open(r, "select", s, Keep, "trigger")
    /\ UNCHANGED unused

\* _ensure_sync, source by source, while nothing else runs.
OpenEnsure(r) ==
    /\ starting
    /\ \A q \in Requests : req[q] = Idle
    /\ \E s \in todo : Open(r, "ensure", s, row[s], "update_refresh")
    /\ UNCHANGED unused

\* Mutant of Release: the transaction is left open.
ReleaseNotLock(r) ==
    /\ req' = [req EXCEPT ![r] = Idle]
    /\ UNCHANGED lock

\* The transaction is over.
Release(r) ==
    /\ req' = [req EXCEPT ![r] = Idle]
    /\ lock' = [s \in Sources |-> IF lock[s] = r THEN Off ELSE lock[s]]

\* An exception: the transaction is rolled back.  What was done in Temporal
\* stays.  A server that cannot start is started again.
Fails(r) ==
    /\ Release(r)
    /\ todo' = IF req[r].op = "ensure" THEN Active ELSE todo
    /\ UNCHANGED <<unused, row, starting>>

Commit(r) ==
    /\ At(r, "commit")
    /\ Release(r)
    /\ LET s == req[r].source
           n == req[r].interval
       IN  /\ row' = [row EXCEPT ![s] = CASE req[r].op = "purge" -> Off
                                          [] n # Keep -> n
                                          [] OTHER -> @]
           /\ IF req[r].op = "ensure"
              THEN todo' = todo \ {s} /\ hurt' = hurt \ {s}
              ELSE UNCHANGED <<todo, hurt>>
    /\ UNCHANGED <<unused, schedVars, starting, faults>>

\* Steps of a request that go on to pc, or fail.
GoesOn(r, pc) ==
    /\ Goto(r, pc)
    /\ UNCHANGED <<rowVars, bootVars, hurt, faults>>

GivesUp(r) ==
    /\ Fails(r)
    /\ UNCHANGED <<schedVars, hurt, faults>>

-----------------------------------------------------------------------------
(* Steps in the database.                                                   *)

\* Where a PATCH goes on: enable_sync, disable_sync or neither.
AfterUpdate(n) ==
    CASE n = Keep -> "commit" [] n = 0 -> "delete_refresh"
      [] OTHER -> "update_refresh"

\* Mutant of UpdateRow: the row is not locked while Temporal is called.
UpdateRowUnlocked(r) ==
    /\ At(r, "update_row")
    /\ LET s == req[r].source
       IN  IF row[s] = Off THEN GivesUp(r)
           ELSE GoesOn(r, AfterUpdate(req[r].interval)) /\ UNCHANGED schedVars

\* The UPDATE of a PATCH waits for the lock of the row; one() raises when the
\* row has been deleted meanwhile.
UpdateRow(r) ==
    /\ At(r, "update_row")
    /\ LET s == req[r].source
       IN  /\ lock[s] = Off
           /\ IF row[s] = Off
              THEN GivesUp(r)
              ELSE /\ lock' = [lock EXCEPT ![s] = r]
                   /\ Goto(r, AfterUpdate(req[r].interval))
                   /\ UNCHANGED <<unused, row, schedVars, bootVars, hurt, faults>>

\* The DELETE at the end of a purge waits for the lock, and deletes what is there.
DeleteRow(r) ==
    /\ At(r, "delete_row")
    /\ lock[req[r].source] = Off
    /\ lock' = [lock EXCEPT ![req[r].source] = r]
    /\ Goto(r, "commit")
    /\ UNCHANGED <<unused, row, schedVars, bootVars, hurt, faults>>

-----------------------------------------------------------------------------
(* enable_sync.  It updates both schedules; when one is not found it goes   *)
(* on to create both, which fails when the other one is there.              *)

UpdateRefresh(r) ==
    /\ At(r, "update_refresh")
    /\ LET s == req[r].source
       IN  IF refresh[s] = Off
           THEN GoesOn(r, "create_refresh") /\ UNCHANGED schedVars
           ELSE /\ refresh' = [refresh EXCEPT ![s] = RefreshEvery(req[r].interval)]
                /\ UNCHANGED sync
                /\ GoesOn(r, "update_sync")

\* Mutant of UpdateSync: the images are synced at the pace of the selections.
UpdateSyncHalf(r) ==
    /\ At(r, "update_sync")
    /\ LET s == req[r].source
       IN  IF sync[s] = Off
           THEN GoesOn(r, "create_refresh") /\ UNCHANGED schedVars
           ELSE /\ sync' = [sync EXCEPT ![s] = RefreshEvery(req[r].interval)]
                /\ UNCHANGED refresh
                /\ GoesOn(r, "commit")

UpdateSync(r) ==
    /\ At(r, "update_sync")
    /\ LET s == req[r].source
       IN  IF sync[s] = Off
           THEN GoesOn(r, "create_refresh") /\ UNCHANGED schedVars
           ELSE /\ sync' = [sync EXCEPT ![s] = req[r].interval]
                /\ UNCHANGED refresh
                /\ GoesOn(r, "commit")

\* ScheduleAlreadyRunningError is not an RPCError, and is not caught.
CreateRefresh(r) ==
    /\ At(r, "create_refresh")
    /\ LET s == req[r].source
       IN  IF refresh[s] # Off
           THEN GivesUp(r)
           ELSE /\ refresh' = [refresh EXCEPT ![s] = RefreshEvery(req[r].interval)]
                /\ UNCHANGED sync
                /\ GoesOn(r, "create_sync")

\* A new source is synced at once.
CreateSync(r) ==
    /\ At(r, "create_sync")
    /\ LET s == req[r].source
       IN  IF sync[s] # Off
           THEN GivesUp(r)
           ELSE /\ sync' = [sync EXCEPT ![s] = req[r].interval]
                /\ UNCHANGED refresh
                /\ GoesOn(r, IF req[r].op = "create" THEN "trigger" ELSE "commit")

\* trigger_sync: both schedules fire, or the request fails.
Trigger(r) ==
    /\ At(r, "trigger")
    /\ LET s == req[r].source
       IN  IF Off \in {sync[s], refresh[s]}
           THEN GivesUp(r)
           ELSE GoesOn(r, "commit") /\ UNCHANGED schedVars

-----------------------------------------------------------------------------
(* disable_sync.  A PATCH goes on after the first RPCError, a purge fails.  *)

\* A purge that fails at the second schedule has taken the first.
NotDisabled(r) ==
    IF req[r].op = "patch"
    THEN GoesOn(r, "commit") /\ UNCHANGED schedVars
    ELSE /\ Fails(r)
         /\ hurt' = IF req[r].pc = "delete_sync" THEN hurt \cup {req[r].source}
                                                 ELSE hurt
         /\ UNCHANGED <<schedVars, faults>>

DeleteRefresh(r) ==
    /\ At(r, "delete_refresh")
    /\ LET s == req[r].source
       IN  IF refresh[s] = Off
           THEN NotDisabled(r)
           ELSE /\ refresh' = [refresh EXCEPT ![s] = Off]
                /\ UNCHANGED sync
                /\ GoesOn(r, "delete_sync")

DeleteSync(r) ==
    /\ At(r, "delete_sync")
    /\ LET s == req[r].source
       IN  IF sync[s] = Off
           THEN NotDisabled(r)
           ELSE /\ sync' = [sync EXCEPT ![s] = Off]
                /\ UNCHANGED refresh
                /\ GoesOn(r, IF req[r].op = "patch" THEN "commit" ELSE "delete_row")

-----------------------------------------------------------------------------
(* Faults, and the start of the API server.                                 *)

\* What a call to Temporal does when it is carried out.
Effect(s, n, pc) ==
    /\ refresh' = CASE pc \in {"update_refresh", "create_refresh"} ->
                         [refresh EXCEPT ![s] = RefreshEvery(n)]
                    [] pc = "delete_refresh" -> [refresh EXCEPT ![s] = Off]
                    [] OTHER -> refresh
    /\ sync' = CASE pc \in {"update_sync", "create_sync"} ->
                         [sync EXCEPT ![s] = n]
                 [] pc = "delete_sync" -> [sync EXCEPT ![s] = Off]
                 [] OTHER -> sync

\* A call to Temporal raises an RPCError: it was not carried out, or its answer
\* was lost.  enable_sync takes it for a schedule that was not found, a PATCH
\* that disables goes on to its commit, and everything else fails.
RpcError(r) ==
    /\ req[r] # Idle
    /\ req[r].pc \notin {"update_row", "delete_row", "commit"}
    /\ Fault("rpc_error")
    /\ LET s  == req[r].source
           pc == req[r].pc
           carriedOut == CASE pc \in {"update_refresh", "delete_refresh"} ->
                                  refresh[s] # Off
                           [] pc \in {"update_sync", "delete_sync"} -> sync[s] # Off
                           [] pc = "create_refresh" -> refresh[s] = Off
                           [] pc = "create_sync" -> sync[s] = Off
                           [] OTHER -> FALSE
       IN  /\ \/ UNCHANGED schedVars
              \/ carriedOut /\ Effect(s, req[r].interval, pc)
           /\ hurt' = hurt \cup {s}
           /\ CASE pc \in {"update_refresh", "update_sync"} ->
                     Goto(r, "create_refresh") /\ UNCHANGED <<rowVars, bootVars>>
                [] pc \in {"delete_refresh", "delete_sync"} /\ req[r].op = "patch" ->
                     Goto(r, "commit") /\ UNCHANGED <<rowVars, bootVars>>
                [] OTHER -> Fails(r)

\* The database or the refresh of the index fails after Temporal was called.
Rollback(r) ==
    /\ At(r, "commit")
    /\ Fault("rollback")
    /\ hurt' = hurt \cup {req[r].source}
    /\ Fails(r)
    /\ UNCHANGED schedVars

\* The API server dies, with all its requests, and is started again.
Crash ==
    /\ Fault("crash")
    /\ hurt' = hurt \cup {req[r].source : r \in {q \in Requests : req[q] # Idle}}
    /\ req' = [r \in Requests |-> Idle]
    /\ lock' = [s \in Sources |-> Off]
    /\ starting' = TRUE
    /\ todo' = Active
    /\ UNCHANGED <<unused, row, schedVars>>

Started ==
    /\ starting
    /\ todo = {}
    /\ starting' = FALSE
    /\ UNCHANGED <<rowVars, schedVars, req, todo, hurt, faults>>

-----------------------------------------------------------------------------
OpenStep(r) ==
    OpenCreate(r) \/ OpenPatch(r) \/ OpenPurge(r) \/ OpenSelect(r) \/ OpenEnsure(r)

RequestStep(r) ==
    \/ UpdateRow(r) \/ DeleteRow(r) \/ Commit(r)
    \/ UpdateRefresh(r) \/ UpdateSync(r) \/ CreateRefresh(r) \/ CreateSync(r)
    \/ Trigger(r) \/ DeleteRefresh(r) \/ DeleteSync(r)

Next ==
    \/ \E r \in Requests : OpenStep(r) \/ RequestStep(r) \/ RpcError(r) \/ Rollback(r)
    \/ Crash
    \/ Started

Spec == Init /\ [][Next]_vars

\* A request goes on to its end (the database hands a lock to the one that has
\* waited longest for it), and a server that is not up is started.
Fairness ==
    /\ \A r \in Requests : SF_vars(RequestStep(r))
    /\ WF_vars(\E r \in Requests : OpenEnsure(r))
    /\ WF_vars(Started)

FairSpec == Spec /\ Fairness

-----------------------------------------------------------------------------
(* Properties.                                                              *)

Scheduled(s, n) == refresh[s] = RefreshEvery(n) /\ sync[s] = n

NotScheduled(s) == refresh[s] = Off /\ sync[s] = Off

\* The schedules follow the row: however requests overlap, once the last one
\* on a source has ended both schedules of an active source run at the interval
\* of its row, and a disabled one has none.  A fault, or a purge that another
\* request makes fail, spoils its own source and no other, until the server has
\* started again.
SchedulesFollowRow ==
    \A s \in Sources \ hurt :
        row[s] # Off /\ On(s) = {} =>
            IF row[s] = 0 THEN NotScheduled(s) ELSE Scheduled(s, row[s])

\* "completely removes a boot source and all its associated data, including
\* disabling synchronization": a source that has been purged has no schedules.
PurgedIsNotScheduled ==
    \A s \in Sources \ (unused \cup hurt) :
        row[s] = Off /\ On(s) = {} => NotScheduled(s)

\* However requests wait for the lock of a row, each of them ends.
EveryRequestEnds == \A r \in Requests : (req[r] # Idle) ~> (req[r] = Idle)

\* "Ensure that the boot source service is properly initialized": the API
\* server comes up again, with every active source enabled.
EventuallyStarted == starting ~> ~starting
=============================================================================

------------------------ MODULE SyncSchedules_proofs ------------------------
(***************************************************************************)
(* Theorems about SyncSchedules, for any number of sources and requests,   *)
(* any intervals, and any number of faults.                                *)
(***************************************************************************)
EXTENDS SyncSchedules, TLAPS

-----------------------------------------------------------------------------
(* The invariant.                                                          *)

Enabling  == {"update_refresh", "update_sync", "create_refresh", "create_sync"}
Disabling == {"delete_refresh", "delete_sync"}

\* The steps that a request of each kind goes through.
Path(op) ==
    CASE op = "create" -> Enabling \cup {"trigger", "commit"}
      [] op = "patch"  -> Enabling \cup Disabling \cup {"update_row", "commit"}
      [] op = "purge"  -> Disabling \cup {"delete_row", "commit"}
      [] op = "select" -> {"trigger", "commit"}
      [] op = "ensure" -> Enabling \cup {"commit"}

Doing(r, op) == req[r] # Idle /\ req[r].op = op

\* A request is on its path, and has an interval when it needs one.
OnPath ==
    \A r \in Requests : req[r] # Idle =>
        /\ req[r].pc \in Path(req[r].op)
        /\ req[r].pc \in Enabling => req[r].interval \notin {0, Keep}
        /\ req[r].op = "patch" /\ req[r].pc \in Disabling => req[r].interval = 0
        /\ req[r].op \in {"purge", "select"} => req[r].interval = Keep
        /\ req[r].op \in {"create", "ensure"} => req[r].interval # Keep
        /\ req[r].op = "create" /\ req[r].pc = "trigger" => req[r].interval # 0

\* A server that starts enables one active source after the other and does
\* nothing else.
Boot ==
    /\ starting => \A r \in Requests : req[r] # Idle => req[r].op = "ensure"
    /\ ~starting => todo = {}
    /\ todo \subseteq Active
    /\ \A r \in Requests : Doing(r, "ensure") =>
         /\ starting
         /\ req[r].source \in todo
         /\ req[r].interval = row[req[r].source]
         /\ \A q \in Requests \ {r} : req[q] = Idle

TypeInv == TypeOK /\ OnPath /\ Boot

\* A row is locked by a PATCH from its UPDATE on, and by a purge that has
\* deleted it; a PATCH that holds the lock has a row.
Locks ==
    /\ \A s \in Sources : lock[s] # Off =>
         /\ lock[s] \in Requests
         /\ req[lock[s]] # Idle
         /\ req[lock[s]].source = s
         /\ \/ req[lock[s]].op = "patch" /\ req[lock[s]].pc # "update_row"
            \/ req[lock[s]].op = "purge" /\ req[lock[s]].pc = "commit"
    /\ \A r \in Requests :
         /\ Doing(r, "patch") /\ req[r].pc # "update_row" =>
              lock[req[r].source] = r /\ row[req[r].source] # Off
         /\ Doing(r, "purge") /\ req[r].pc = "commit" => lock[req[r].source] = r

\* No one has heard of an id that is not used yet, and none but the request
\* that creates it of a source that is not committed yet.
Fresh ==
    /\ \A s \in unused :
         /\ row[s] = Off
         /\ NotScheduled(s)
         /\ \A r \in Requests : req[r] # Idle => req[r].source # s
    /\ \A r \in Requests : Doing(r, "create") =>
         /\ req[r].source \notin unused
         /\ row[req[r].source] = Off
         /\ \A q \in Requests \ {r} :
              req[q] # Idle => req[q].source # req[r].source

\* A purge has touched the schedules: the row will go, or the source be hurt.
Purging(s) ==
    \E r \in Requests :
        /\ Doing(r, "purge")
        /\ req[r].source = s
        /\ req[r].pc # "delete_refresh"

Follows(s, n) == IF n = 0 THEN NotScheduled(s) ELSE Scheduled(s, n)

\* What the PATCH r, which holds the lock of s, has made of the schedules.
Patched(r, s) ==
    LET n == req[r].interval
    IN  /\ req[r].pc \in {"update_refresh", "delete_refresh"} => Follows(s, row[s])
        /\ req[r].pc = "update_sync" => refresh[s] = RefreshEvery(n) /\ sync[s] # Off
        /\ req[r].pc = "create_refresh" => NotScheduled(s)
        /\ req[r].pc = "create_sync" => refresh[s] = RefreshEvery(n) /\ sync[s] = Off
        /\ req[r].pc = "delete_sync" => refresh[s] = Off /\ sync[s] # Off
        /\ req[r].pc = "commit" => Follows(s, IF n = Keep THEN row[s] ELSE n)

\* What the creation r of s has made of them.
Created(r, s) ==
    LET n == req[r].interval
    IN  /\ req[r].pc # "update_sync"
        /\ req[r].pc \in {"update_refresh", "create_refresh"} => NotScheduled(s)
        /\ req[r].pc = "create_sync" => refresh[s] = RefreshEvery(n) /\ sync[s] = Off
        /\ req[r].pc \in {"trigger", "commit"} => Follows(s, n)

\* What the start r of the server has made of them, hurt or not.
Ensured(r, s) ==
    /\ req[r].pc \in {"update_sync", "create_sync"} =>
         refresh[s] = RefreshEvery(req[r].interval)
    /\ req[r].pc = "commit" => Scheduled(s, req[r].interval)

\* The schedules of s follow its row, or a PATCH is changing both.
Kept(s) ==
    row[s] # Off /\ ~Purging(s) =>
        /\ lock[s] = Off => Follows(s, row[s])
        /\ lock[s] # Off => Patched(lock[s], s)

SchedInv ==
    /\ \A s \in Sources \ hurt : Kept(s)
    /\ \A r \in Requests :
         /\ Doing(r, "create") /\ req[r].source \notin hurt =>
              Created(r, req[r].source)
         /\ Doing(r, "ensure") => Ensured(r, req[r].source)

IInv == TypeInv /\ Locks /\ Fresh /\ SchedInv

-----------------------------------------------------------------------------
(* Types.                                                                  *)

LEMMA RefreshEveryType == \A n \in Nat : RefreshEvery(n) \in Nat
BY DEF RefreshEvery

LEMMA InitTypeInv == Init => TypeInv
<1>. SUFFICES ASSUME Init PROVE TypeInv
  OBVIOUS
<1>. USE SyncSchedulesAssumption DEF Init
<1>1. TypeOK
  <2>1. /\ unused \in SUBSET Sources
        /\ row \in [Sources -> Intervals \cup {Off}]
        /\ lock \in [Sources -> Requests \cup {Off}]
    OBVIOUS
  <2>2. /\ refresh \in [Sources -> Nat \cup {Off}]
        /\ sync \in [Sources -> Intervals \cup {Off}]
    OBVIOUS
  <2>3. req \in [Requests -> Job \cup {Idle}]
    OBVIOUS
  <2>4. /\ starting \in BOOLEAN
        /\ todo \in SUBSET Sources
        /\ hurt \in SUBSET Sources
    OBVIOUS
  <2>5. faults \in 0..MaxFaults
    OBVIOUS
  <2>. QED
    BY <2>1, <2>2, <2>3, <2>4, <2>5 DEF TypeOK
<1>2. OnPath
  BY DEF OnPath
<1>3. Boot
  BY DEF Boot, Doing
<1>. QED
  BY <1>1, <1>2, <1>3 DEF TypeInv

\* What a request becomes that goes on to another step.
LEMMA GotoType ==
    ASSUME TypeOK, NEW r \in Requests, NEW pc \in Pcs, req[r] # Idle, Goto(r, pc)
    PROVE  /\ req[r] \in Job
           /\ req' \in [Requests -> Job \cup {Idle}]
           /\ req'[r] # Idle
           /\ req'[r].op = req[r].op
           /\ req'[r].source = req[r].source
           /\ req'[r].interval = req[r].interval
           /\ req'[r].pc = pc
           /\ \A q \in Requests \ {r} : req'[q] = req[q]
<1>1. req[r] \in Job
  BY DEF TypeOK
<1>2. req'[r] = [req[r] EXCEPT !.pc = pc]
  BY DEF TypeOK, Goto
<1>3. req'[r] \in Job
  BY <1>1, <1>2 DEF Job
<1>4. \A j \in Job : j # Idle
  BY DEF Job, Idle, Ops
<1>. QED
  BY <1>1, <1>2, <1>3, <1>4 DEF TypeOK, Goto, Job

LEMMA OpenType ==
    ASSUME TypeOK, NEW r \in Requests, NEW op \in Ops, NEW s \in Sources,
           NEW n \in Intervals \cup {Keep}, NEW pc \in Pcs, Open(r, op, s, n, pc)
    PROVE  /\ req' \in [Requests -> Job \cup {Idle}]
           /\ req'[r] # Idle
           /\ req'[r].op = op /\ req'[r].source = s
           /\ req'[r].interval = n /\ req'[r].pc = pc
           /\ \A q \in Requests \ {r} : req'[q] = req[q]
<1>1. req'[r] = [op |-> op, source |-> s, interval |-> n, pc |-> pc]
  BY DEF TypeOK, Open
<1>2. req'[r] \in Job
  BY <1>1 DEF Job
<1>3. \A j \in Job : j # Idle
  BY DEF Job, Idle, Ops
<1>. QED
  BY <1>1, <1>2, <1>3 DEF TypeOK, Open

LEMMA ReleaseType ==
    ASSUME TypeOK, NEW r \in Requests, Release(r)
    PROVE  /\ req' \in [Requests -> Job \cup {Idle}]
           /\ req'[r] = Idle
           /\ \A q \in Requests \ {r} : req'[q] = req[q]
           /\ lock' \in [Sources -> Requests \cup {Off}]
           /\ \A s \in Sources : lock'[s] = IF lock[s] = r THEN Off ELSE lock[s]
BY DEF TypeOK, Release

\* A step along the path keeps the invariant.
LEMMA GotoKeeps ==
    ASSUME TypeInv, NEW r \in Requests, NEW pc \in Pcs, req[r] # Idle, Goto(r, pc),
           pc \in Path(req[r].op),
           pc \in Enabling => req[r].interval \notin {0, Keep},
           req[r].op = "patch" /\ pc \in Disabling => req[r].interval = 0,
           req[r].op = "create" /\ pc = "trigger" => req[r].interval # 0,
           UNCHANGED <<row, starting, todo>>
    PROVE  OnPath' /\ Boot'
<1>. USE DEF TypeInv
<1>1. OnPath'
  BY GotoType DEF OnPath
<1>2. Boot'
  BY GotoType DEF Boot, Doing, Active
<1>. QED
  BY <1>1, <1>2

\* So does the end of a request that leaves the row alone.
LEMMA FailsKeeps ==
    ASSUME TypeInv, NEW r \in Requests, req[r] # Idle, Fails(r)
    PROVE  OnPath' /\ Boot' /\ todo' \in SUBSET Sources
<1>. USE DEF TypeInv, Fails
<1>1. OnPath'
  BY ReleaseType DEF OnPath
<1>2. Boot'
  BY ReleaseType DEF Boot, Doing, Active
<1>. QED
  BY <1>1, <1>2 DEF TypeOK, Active

\* And the opening of one, while the server is up.
LEMMA OpenKeeps ==
    ASSUME TypeInv, NEW r \in Requests, NEW op \in Ops \ {"ensure"}, NEW s \in Sources,
           NEW n \in Intervals \cup {Keep}, NEW pc \in Pcs, Open(r, op, s, n, pc),
           ~starting, pc \in Path(op),
           pc \in Enabling => n \notin {0, Keep},
           op = "patch" /\ pc \in Disabling => n = 0,
           op \in {"purge", "select"} => n = Keep,
           op = "create" => n # Keep,
           op = "create" /\ pc = "trigger" => n # 0
    PROVE  OnPath' /\ Boot'
<1>. USE DEF TypeInv
<1>1. OnPath'
  BY OpenType DEF OnPath
<1>2. Boot'
  BY OpenType DEF Boot, Doing, Active, Open
<1>. QED
  BY <1>1, <1>2

\* Steps that end a request, or go on, whatever they make of the schedules.
SchedTyped ==
    /\ refresh' \in [Sources -> Nat \cup {Off}]
    /\ sync' \in [Sources -> Intervals \cup {Off}]
    /\ hurt' \in SUBSET Sources
    /\ faults' \in 0..MaxFaults

LEMMA FailsTypeInv ==
    ASSUME TypeInv, NEW r \in Requests, req[r] # Idle, Fails(r), SchedTyped
    PROVE  TypeInv'
<1>1. OnPath' /\ Boot' /\ todo' \in SUBSET Sources
  BY FailsKeeps
<1>. QED
  BY <1>1, ReleaseType DEF TypeInv, TypeOK, Fails, SchedTyped

LEMMA GotoTypeInv ==
    ASSUME TypeInv, NEW r \in Requests, NEW pc \in Pcs, req[r] # Idle, Goto(r, pc),
           pc \in Path(req[r].op),
           pc \in Enabling => req[r].interval \notin {0, Keep},
           req[r].op = "patch" /\ pc \in Disabling => req[r].interval = 0,
           req[r].op = "create" /\ pc = "trigger" => req[r].interval # 0,
           UNCHANGED <<rowVars, bootVars>>, SchedTyped
    PROVE  TypeInv'
<1>1. OnPath' /\ Boot'
  BY GotoKeeps DEF rowVars, bootVars
<1>. QED
  BY <1>1, GotoType DEF TypeInv, TypeOK, SchedTyped, rowVars, bootVars

\* TypeInv is inductive.
LEMMA NextTypeInv == TypeInv /\ [Next]_vars => TypeInv'
<1>. SUFFICES ASSUME TypeInv, [Next]_vars PROVE TypeInv'
  OBVIOUS
<1>. USE SyncSchedulesAssumption
     DEF TypeInv, Ops, Pcs, Enabling, Disabling, At, GoesOn, GivesUp, Fault,
         rowVars, schedVars, bootVars
<1>j. \A r \in Requests : req[r] # Idle =>
        /\ req[r] \in Job
        /\ req[r].op \in Ops /\ req[r].pc \in Pcs /\ req[r].source \in Sources
        /\ req[r].interval \in Intervals \cup {Keep}
        /\ req[r].pc \in Path(req[r].op)
  BY DEF TypeOK, Job, OnPath
<1>n. \A r \in Requests : req[r] # Idle /\ req[r].pc \in Enabling =>
        /\ req[r].interval \in Intervals
        /\ req[r].interval # 0
        /\ RefreshEvery(req[r].interval) \in Nat
  BY <1>j, RefreshEveryType DEF OnPath
<1>1. ASSUME NEW r \in Requests, OpenCreate(r) PROVE TypeInv'
  <2>1. PICK s \in unused, n \in Intervals :
          /\ unused' = unused \ {s}
          /\ Open(r, "create", s, n, IF n = 0 THEN "commit" ELSE "update_refresh")
    BY <1>1 DEF OpenCreate
  <2>2. s \in Sources /\ ~starting
    BY <1>1 DEF OpenCreate, TypeOK
  <2>3. OnPath' /\ Boot'
    BY <2>1, <2>2, OpenKeeps DEF Path
  <2>4. TypeOK'
    BY <2>1, <2>2, OpenType DEF TypeOK, Open
  <2>. QED
    BY <2>3, <2>4
<1>2. ASSUME NEW r \in Requests, OpenPatch(r) PROVE TypeInv'
  <2>1. PICK s \in Sources, n \in Intervals \cup {Keep} :
          row[s] # Off /\ Open(r, "patch", s, n, "update_row")
    BY <1>2 DEF OpenPatch
  <2>3. OnPath' /\ Boot'
    BY <1>2, <2>1, OpenKeeps DEF Path, OpenPatch
  <2>4. TypeOK'
    BY <1>2, <2>1, OpenType DEF TypeOK, Open, OpenPatch
  <2>. QED
    BY <2>3, <2>4
<1>3. ASSUME NEW r \in Requests, OpenPurge(r) PROVE TypeInv'
  <2>1. PICK s \in Sources : row[s] # Off /\ Open(r, "purge", s, Keep, "delete_refresh")
    BY <1>3 DEF OpenPurge
  <2>3. OnPath' /\ Boot'
    BY <1>3, <2>1, OpenKeeps DEF Path, OpenPurge
  <2>4. TypeOK'
    BY <1>3, <2>1, OpenType DEF TypeOK, Open, OpenPurge
  <2>. QED
    BY <2>3, <2>4
<1>4. ASSUME NEW r \in Requests, OpenSelect(r) PROVE TypeInv'
  <2>1. PICK s \in Sources : row[s] # Off /\ Open(r, "select", s, Keep, "trigger")
    BY <1>4 DEF OpenSelect
  <2>3. OnPath' /\ Boot'
    BY <1>4, <2>1, OpenKeeps DEF Path, OpenSelect
  <2>4. TypeOK'
    BY <1>4, <2>1, OpenType DEF TypeOK, Open, OpenSelect
  <2>. QED
    BY <2>3, <2>4
<1>5. ASSUME NEW r \in Requests, OpenEnsure(r) PROVE TypeInv'
  <2>1. PICK s \in todo : Open(r, "ensure", s, row[s], "update_refresh")
    BY <1>5 DEF OpenEnsure
  <2>2. s \in Sources /\ row[s] \in Intervals /\ row[s] \notin {0, Keep}
    BY DEF TypeOK, Boot, Active
  <2>a. /\ req' \in [Requests -> Job \cup {Idle}]
        /\ req'[r] # Idle
        /\ req'[r].op = "ensure" /\ req'[r].source = s
        /\ req'[r].interval = row[s] /\ req'[r].pc = "update_refresh"
        /\ \A q \in Requests \ {r} : req'[q] = req[q]
    BY <2>1, <2>2, OpenType
  <2>b. "update_refresh" \in Path("ensure") \ Disabling
    BY DEF Path, Disabling
  <2>3. OnPath'
    BY <2>2, <2>a, <2>b DEF OnPath
  <2>4. Boot'
    BY <1>5, <2>1, <2>2, <2>a DEF Boot, Doing, Active, Open, OpenEnsure
  <2>5. TypeOK'
    BY <1>5, <2>1, <2>a DEF TypeOK, Open, OpenEnsure
  <2>. QED
    BY <2>3, <2>4, <2>5
<1>6. ASSUME NEW r \in Requests, Commit(r) PROVE TypeInv'
  <2>. DEFINE s == req[r].source
              n == req[r].interval
  <2>1. /\ req[r] # Idle /\ Release(r) /\ UNCHANGED starting
        /\ \A x \in Sources : row'[x] = IF x # s THEN row[x]
             ELSE IF req[r].op = "purge" THEN Off ELSE IF n # Keep THEN n ELSE row[s]
        /\ todo' = IF req[r].op = "ensure" THEN todo \ {s} ELSE todo
        /\ hurt' = IF req[r].op = "ensure" THEN hurt \ {s} ELSE hurt
    <3>1. s \in Sources
      BY <1>6, <1>j DEF Commit
    <3>2. row' = [row EXCEPT ![s] = CASE req[r].op = "purge" -> Off
                                      [] n # Keep -> n
                                      [] OTHER -> @]
      BY <1>6 DEF Commit
    <3>3. req[r].op = "purge" => n = Keep
      BY <1>6 DEF Commit, OnPath
    <3>4. \A x \in Sources : row'[x] = IF x # s THEN row[x]
             ELSE IF req[r].op = "purge" THEN Off ELSE IF n # Keep THEN n ELSE row[s]
      BY <3>1, <3>2, <3>3 DEF TypeOK
    <3>. QED
      BY <1>6, <3>4 DEF Commit
  <2>2. row' \in [Sources -> Intervals \cup {Off}]
    BY <1>6, <1>j DEF Commit, TypeOK
  <2>3. OnPath'
    BY <2>1, ReleaseType DEF OnPath
  <2>4. Boot'
    <3>1. CASE req[r].op = "ensure"
      <4>1. \A q \in Requests : req'[q] = Idle
        BY <2>1, <3>1, ReleaseType DEF Boot, Doing
      <4>2. \A x \in Sources : row'[x] = row[x]
        BY <2>1, <3>1, <1>j DEF Boot, Doing, OnPath
      <4>. QED
        BY <2>1, <3>1, <4>1, <4>2, <1>j DEF Boot, Doing, Active
    <3>2. CASE req[r].op # "ensure"
      <4>1. ~starting /\ todo = {}
        BY <2>1, <3>2 DEF Boot
      <4>2. \A q \in Requests : ~Doing(q, "ensure")
        BY <4>1 DEF Boot
      <4>. QED
        BY <2>1, <3>2, <4>1, <4>2, ReleaseType DEF Boot, Doing
    <3>. QED
      BY <3>1, <3>2
  <2>5. TypeOK'
    BY <1>6, <2>1, <2>2, <1>j, ReleaseType DEF TypeOK, Commit
  <2>. QED
    BY <2>3, <2>4, <2>5
<1>7. ASSUME NEW r \in Requests, UpdateRow(r) PROVE TypeInv'
  <2>. DEFINE n == req[r].interval
  <2>1. CASE Fails(r) /\ UNCHANGED <<schedVars, hurt, faults>>
    <3>1. OnPath' /\ Boot' /\ todo' \in SUBSET Sources
      BY <1>7, <2>1, FailsKeeps DEF UpdateRow
    <3>. QED
      BY <2>1, <3>1, ReleaseType DEF TypeOK, Fails
  <2>2. CASE /\ lock' = [lock EXCEPT ![req[r].source] = r]
             /\ Goto(r, AfterUpdate(n))
             /\ UNCHANGED <<unused, row, schedVars, bootVars, hurt, faults>>
    <3>1. req[r] # Idle /\ req[r].op = "patch"
      BY <1>7, <1>j DEF UpdateRow, Path
    <3>2. /\ AfterUpdate(n) \in {"commit", "delete_refresh", "update_refresh"}
          /\ AfterUpdate(n) = "delete_refresh" => n = 0
          /\ AfterUpdate(n) = "update_refresh" => n \notin {0, Keep}
      BY DEF AfterUpdate
    <3>3. OnPath' /\ Boot'
      BY <2>2, <3>1, <3>2, GotoKeeps DEF Path
    <3>4. AfterUpdate(n) \in Pcs
      BY <3>2 DEF Pcs
    <3>5. req' \in [Requests -> Job \cup {Idle}]
      BY <2>2, <3>1, <3>4, GotoType
    <3>. QED
      BY <2>2, <3>1, <3>3, <3>5, <1>j DEF TypeOK
  <2>. QED
    BY <1>7, <2>1, <2>2 DEF UpdateRow
<1>8. ASSUME NEW r \in Requests, DeleteRow(r) PROVE TypeInv'
  <2>1. req[r] # Idle /\ req[r].op = "purge"
    BY <1>8, <1>j DEF DeleteRow, Path
  <2>2. OnPath' /\ Boot'
    BY <1>8, <2>1, GotoKeeps DEF DeleteRow, Path
  <2>. QED
    BY <1>8, <2>1, <2>2, <1>j, GotoType DEF DeleteRow, TypeOK
<1>9. ASSUME NEW r \in Requests, UpdateRefresh(r) PROVE TypeInv'
  <2>1. req[r] # Idle /\ req[r].op \in {"create", "patch", "ensure"}
    BY <1>9, <1>j DEF UpdateRefresh, Path
  <2>2. SchedTyped
    BY <1>9, <2>1, <1>j, <1>n DEF UpdateRefresh, SchedTyped, TypeOK
  <2>3. \/ Goto(r, "create_refresh")
        \/ Goto(r, "update_sync")
    BY <1>9 DEF UpdateRefresh
  <2>. QED
    BY <1>9, <2>1, <2>2, <2>3, <1>n, GotoTypeInv DEF UpdateRefresh, Path, OnPath
<1>10. ASSUME NEW r \in Requests, UpdateSync(r) PROVE TypeInv'
  <2>1. req[r] # Idle /\ req[r].op \in {"create", "patch", "ensure"}
    BY <1>10, <1>j DEF UpdateSync, Path
  <2>2. SchedTyped
    BY <1>10, <2>1, <1>j, <1>n DEF UpdateSync, SchedTyped, TypeOK
  <2>3. \/ Goto(r, "create_refresh")
        \/ Goto(r, "commit")
    BY <1>10 DEF UpdateSync
  <2>. QED
    BY <1>10, <2>1, <2>2, <2>3, <1>n, GotoTypeInv DEF UpdateSync, Path, OnPath
<1>11. ASSUME NEW r \in Requests, CreateRefresh(r) PROVE TypeInv'
  <2>1. req[r] # Idle /\ req[r].op \in {"create", "patch", "ensure"}
    BY <1>11, <1>j DEF CreateRefresh, Path
  <2>2. SchedTyped
    BY <1>11, <2>1, <1>j, <1>n DEF CreateRefresh, SchedTyped, TypeOK
  <2>3. CASE Fails(r)
    BY <2>1, <2>2, <2>3, FailsTypeInv
  <2>4. CASE Goto(r, "create_sync") /\ UNCHANGED <<rowVars, bootVars>>
    BY <1>11, <2>1, <2>2, <2>4, <1>n, GotoTypeInv DEF CreateRefresh, Path, OnPath
  <2>. QED
    BY <1>11, <2>3, <2>4 DEF CreateRefresh
<1>12. ASSUME NEW r \in Requests, CreateSync(r) PROVE TypeInv'
  <2>1. req[r] # Idle /\ req[r].op \in {"create", "patch", "ensure"}
    BY <1>12, <1>j DEF CreateSync, Path
  <2>2. SchedTyped
    BY <1>12, <2>1, <1>j, <1>n DEF CreateSync, SchedTyped, TypeOK
  <2>3. CASE Fails(r)
    BY <2>1, <2>2, <2>3, FailsTypeInv
  <2>4. CASE /\ Goto(r, IF req[r].op = "create" THEN "trigger" ELSE "commit")
             /\ UNCHANGED <<rowVars, bootVars>>
    BY <1>12, <2>1, <2>2, <2>4, <1>n, GotoTypeInv DEF CreateSync, Path, OnPath
  <2>. QED
    BY <1>12, <2>3, <2>4 DEF CreateSync
<1>13. ASSUME NEW r \in Requests, Trigger(r) PROVE TypeInv'
  <2>1. req[r] # Idle /\ req[r].op \in {"create", "select"}
    BY <1>13, <1>j DEF Trigger, Path
  <2>2. SchedTyped
    BY <1>13 DEF Trigger, SchedTyped, TypeOK, Fails
  <2>3. CASE Fails(r)
    BY <2>1, <2>2, <2>3, FailsTypeInv
  <2>4. CASE Goto(r, "commit") /\ UNCHANGED <<rowVars, bootVars>>
    BY <2>1, <2>2, <2>4, GotoTypeInv DEF Path
  <2>. QED
    BY <1>13, <2>3, <2>4 DEF Trigger
<1>d. ASSUME NEW r \in Requests, req[r] # Idle, NotDisabled(r),
             req[r].pc \in {"delete_refresh", "delete_sync"}
      PROVE  TypeInv'
  <2>1. req[r].op \in {"patch", "purge"} /\ req[r].source \in Sources
    BY <1>d, <1>j DEF Path
  <2>2. SchedTyped
    BY <1>d, <2>1 DEF NotDisabled, SchedTyped, TypeOK
  <2>3. CASE Fails(r)
    BY <1>d, <2>2, <2>3, FailsTypeInv
  <2>4. CASE req[r].op = "patch" /\ Goto(r, "commit") /\ UNCHANGED <<rowVars, bootVars>>
    BY <1>d, <2>2, <2>4, GotoTypeInv DEF Path
  <2>. QED
    BY <1>d, <2>3, <2>4 DEF NotDisabled
<1>14. ASSUME NEW r \in Requests, DeleteRefresh(r) PROVE TypeInv'
  <2>1. req[r] # Idle /\ req[r].op \in {"patch", "purge"}
    BY <1>14, <1>j DEF DeleteRefresh, Path
  <2>2. CASE NotDisabled(r)
    BY <1>14, <2>1, <2>2, <1>d DEF DeleteRefresh
  <2>3. CASE /\ refresh' = [refresh EXCEPT ![req[r].source] = Off]
             /\ UNCHANGED sync
             /\ GoesOn(r, "delete_sync")
    <3>1. SchedTyped
      BY <2>3 DEF SchedTyped, TypeOK
    <3>. QED
      BY <1>14, <2>1, <2>3, <3>1, GotoTypeInv DEF Path, OnPath, DeleteRefresh
  <2>. QED
    BY <1>14, <2>2, <2>3 DEF DeleteRefresh
<1>15. ASSUME NEW r \in Requests, DeleteSync(r) PROVE TypeInv'
  <2>1. req[r] # Idle /\ req[r].op \in {"patch", "purge"}
    BY <1>15, <1>j DEF DeleteSync, Path
  <2>2. CASE NotDisabled(r)
    BY <1>15, <2>1, <2>2, <1>d DEF DeleteSync
  <2>3. CASE /\ sync' = [sync EXCEPT ![req[r].source] = Off]
             /\ UNCHANGED refresh
             /\ GoesOn(r, IF req[r].op = "patch" THEN "commit" ELSE "delete_row")
    <3>1. SchedTyped
      BY <2>3 DEF SchedTyped, TypeOK
    <3>. QED
      BY <2>1, <2>3, <3>1, GotoTypeInv DEF Path
  <2>. QED
    BY <1>15, <2>2, <2>3 DEF DeleteSync
<1>16. ASSUME NEW r \in Requests, RpcError(r) PROVE TypeInv'
  <2>. DEFINE s == req[r].source
              pc == req[r].pc
  <2>1. req[r] # Idle /\ s \in Sources
    BY <1>16, <1>j DEF RpcError
  <2>2. UNCHANGED schedVars \/ Effect(s, req[r].interval, pc)
    BY <1>16 DEF RpcError
  <2>3. /\ refresh' \in [Sources -> Nat \cup {Off}]
        /\ sync' \in [Sources -> Intervals \cup {Off}]
    <3>1. CASE UNCHANGED schedVars
      BY <3>1 DEF TypeOK
    <3>2. CASE Effect(s, req[r].interval, pc)
      BY <3>2, <2>1, <1>j, <1>n DEF TypeOK, Effect
    <3>. QED
      BY <2>2, <3>1, <3>2
  <2>4. SchedTyped
    BY <1>16, <2>1, <2>3 DEF SchedTyped, TypeOK, RpcError
  <2>5. \/ /\ pc \in {"update_refresh", "update_sync"}
           /\ Goto(r, "create_refresh") /\ UNCHANGED <<rowVars, bootVars>>
        \/ /\ req[r].op = "patch"
           /\ Goto(r, "commit") /\ UNCHANGED <<rowVars, bootVars>>
        \/ Fails(r)
    BY <1>16 DEF RpcError
  <2>6. CASE /\ pc \in {"update_refresh", "update_sync"}
             /\ Goto(r, "create_refresh") /\ UNCHANGED <<rowVars, bootVars>>
    <3>1. req[r].op \in {"create", "patch", "ensure"}
      BY <2>1, <2>6, <1>j DEF Path
    <3>. QED
      BY <2>1, <2>4, <2>6, <3>1, <1>n, GotoTypeInv DEF Path, OnPath
  <2>7. CASE /\ req[r].op = "patch"
             /\ Goto(r, "commit") /\ UNCHANGED <<rowVars, bootVars>>
    BY <2>1, <2>4, <2>7, GotoTypeInv DEF Path
  <2>8. CASE Fails(r)
    BY <2>1, <2>4, <2>8, FailsTypeInv
  <2>. QED
    BY <2>5, <2>6, <2>7, <2>8
<1>17. ASSUME NEW r \in Requests, Rollback(r) PROVE TypeInv'
  <2>1. req[r] # Idle /\ SchedTyped
    BY <1>17, <1>j DEF Rollback, SchedTyped, TypeOK
  <2>. QED
    BY <1>17, <2>1, FailsTypeInv DEF Rollback
<1>18. CASE Crash
  <2>1. hurt' \in SUBSET Sources
    BY <1>18, <1>j DEF Crash, TypeOK
  <2>2. TypeOK'
    BY <1>18, <2>1 DEF Crash, TypeOK, Active
  <2>3. OnPath'
    BY <1>18 DEF Crash, OnPath
  <2>4. Boot'
    BY <1>18 DEF Crash, Boot, Doing, Active
  <2>. QED
    BY <2>2, <2>3, <2>4
<1>19. CASE Started
  BY <1>19 DEF Started, TypeOK, OnPath, Boot, Doing, Active
<1>20. CASE UNCHANGED vars
  BY <1>20 DEF vars, TypeOK, OnPath, Boot, Doing, Active
<1>. HIDE DEF TypeInv, Ops, Pcs, Enabling, Disabling, At, GoesOn, GivesUp, Fault,
              rowVars, schedVars, bootVars
<1>. QED
  BY <1>1, <1>2, <1>3, <1>4, <1>5, <1>6, <1>7, <1>8, <1>9, <1>10, <1>11, <1>12,
     <1>13, <1>14, <1>15, <1>16, <1>17, <1>18, <1>19, <1>20
     DEF Next, OpenStep, RequestStep

\* Type correctness of the rows, the schedules and the requests.
THEOREM SchedulesTypeCorrect == Spec => []TypeOK
<1>1. TypeInv => TypeOK
  BY DEF TypeInv
<1>. QED
  BY <1>1, InitTypeInv, NextTypeInv, PTL DEF Spec

-----------------------------------------------------------------------------
(* Locks.                                                                  *)

LEMMA InitLocks == Init => Locks /\ Fresh /\ SchedInv
BY DEF Init, Locks, Fresh, SchedInv, Kept, Doing, NotScheduled

\* A step that locks nothing and ends no request.
LEMMA GotoLocks ==
    ASSUME TypeInv, Locks, NEW r \in Requests, NEW pc \in Pcs, req[r] # Idle,
           Goto(r, pc), req[r].pc \notin {"update_row", "commit"}, pc # "update_row",
           req[r].op = "purge" => pc # "commit",
           UNCHANGED <<row, lock>>
    PROVE  Locks'
BY GotoType DEF TypeInv, Locks, Doing

\* A step that takes the lock of the row.
LEMMA TakeLocks ==
    ASSUME TypeInv, Locks, NEW r \in Requests, NEW pc \in Pcs, NEW s \in Sources,
           req[r] # Idle, req[r].source = s, Goto(r, pc), row' = row,
           lock[s] = Off, lock' = [lock EXCEPT ![s] = r],
           \/ req[r].op = "patch" /\ pc # "update_row" /\ row[s] # Off
           \/ req[r].op = "purge" /\ pc = "commit"
    PROVE  Locks'
<1>1. /\ req'[r] # Idle /\ req'[r].op = req[r].op
      /\ req'[r].source = s /\ req'[r].pc = pc
      /\ \A q \in Requests \ {r} : req'[q] = req[q]
  BY GotoType DEF TypeInv
<1>2. \A x \in Sources : lock'[x] = IF x = s THEN r ELSE lock[x]
  BY DEF TypeInv, TypeOK
<1>3. \A q \in Requests : req[q] # Idle => req[q].source \in Sources
  BY DEF TypeInv, TypeOK, Job
<1>4. \A x \in Sources \ {s} : lock[x] # r
  BY SyncSchedulesAssumption DEF Locks
<1>5. \A x \in Sources : lock'[x] # Off =>
        /\ lock'[x] \in Requests
        /\ req'[lock'[x]] # Idle
        /\ req'[lock'[x]].source = x
        /\ \/ req'[lock'[x]].op = "patch" /\ req'[lock'[x]].pc # "update_row"
           \/ req'[lock'[x]].op = "purge" /\ req'[lock'[x]].pc = "commit"
  BY <1>1, <1>2, <1>4 DEF Locks
<1>6. ASSUME NEW q \in Requests \ {r}, req'[q] # Idle
      PROVE  /\ req'[q].op = "patch" /\ req'[q].pc # "update_row" =>
                  lock'[req'[q].source] = q /\ row'[req'[q].source] # Off
             /\ req'[q].op = "purge" /\ req'[q].pc = "commit" =>
                  lock'[req'[q].source] = q
  <2>1. req[q] # Idle /\ req'[q] = req[q] /\ req[q].source \in Sources
    BY <1>1, <1>3, <1>6
  <2>2. lock[req[q].source] = q => req[q].source # s
    BY SyncSchedulesAssumption
  <2>. QED
    BY <1>2, <2>1, <2>2 DEF Locks, Doing
<1>7. /\ req'[r].op = "patch" => lock'[req'[r].source] = r /\ row'[req'[r].source] # Off
      /\ req'[r].op = "purge" => lock'[req'[r].source] = r
  BY <1>1, <1>2
<1>. QED
  BY <1>5, <1>6, <1>7 DEF Locks, Doing

LEMMA ReleaseLocks ==
    ASSUME TypeInv, Locks, NEW r \in Requests, req[r] # Idle, Release(r),
           \A s \in Sources : row'[s] = Off => row[s] = Off \/ lock[s] = r
    PROVE  Locks'
<1>. USE DEF TypeInv
<1>1. \A q \in Requests : req'[q] # Idle => q # r /\ req'[q] = req[q]
  BY ReleaseType
<1>2. \A q \in Requests : req[q] # Idle => req[q].source \in Sources
  BY DEF TypeOK, Job
<1>3. Off \notin Requests
  BY SyncSchedulesAssumption
<1>4. \A s \in Sources : lock'[s] # Off => lock'[s] = lock[s] /\ lock[s] # r
  BY ReleaseType
<1>5. \A s \in Sources : lock[s] # r => lock'[s] = lock[s]
  BY ReleaseType
<1>6. \A s \in Sources : lock'[s] # Off =>
        /\ lock'[s] \in Requests
        /\ req'[lock'[s]] # Idle
        /\ req'[lock'[s]].source = s
        /\ \/ req'[lock'[s]].op = "patch" /\ req'[lock'[s]].pc # "update_row"
           \/ req'[lock'[s]].op = "purge" /\ req'[lock'[s]].pc = "commit"
  BY <1>4, ReleaseType DEF Locks
<1>7. ASSUME NEW q \in Requests, req'[q] # Idle
      PROVE  /\ req'[q].op = "patch" /\ req'[q].pc # "update_row" =>
                  lock'[req'[q].source] = q /\ row'[req'[q].source] # Off
             /\ req'[q].op = "purge" /\ req'[q].pc = "commit" =>
                  lock'[req'[q].source] = q
  BY <1>1, <1>2, <1>5, <1>7 DEF Locks, Doing
<1>. QED
  BY <1>6, <1>7 DEF Locks, Doing

LEMMA OpenLocks ==
    ASSUME TypeInv, Locks, NEW r \in Requests, NEW op \in Ops, NEW s \in Sources,
           NEW n \in Intervals \cup {Keep}, NEW pc \in Pcs, Open(r, op, s, n, pc),
           op = "patch" => pc = "update_row",
           op = "purge" => pc # "commit"
    PROVE  Locks'
<1>1. req[r] = Idle /\ UNCHANGED <<row, lock>>
  BY DEF Open
<1>2. /\ req'[r] # Idle /\ req'[r].op = op /\ req'[r].pc = pc
      /\ \A q \in Requests \ {r} : req'[q] = req[q]
  BY OpenType DEF TypeInv
<1>. QED
  BY <1>1, <1>2 DEF Locks, Doing

-----------------------------------------------------------------------------
(* What a step of a request leaves alone.                                  *)

\* A step of request r on source s: other requests, and other sources, stay as
\* they are, and the row changes only when r ends.
StepOn(r, s) ==
    /\ req[r] # Idle /\ req[r].source = s
    /\ \A q \in Requests \ {r} : req'[q] = req[q]
    /\ \/ req'[r] = Idle
       \/ /\ req'[r] # Idle
          /\ req'[r].op = req[r].op
          /\ req'[r].source = s
          /\ row' = row
    /\ \A x \in Sources \ {s} :
         /\ row'[x] = row[x] /\ lock'[x] = lock[x]
         /\ refresh'[x] = refresh[x] /\ sync'[x] = sync[x]
         /\ x \in hurt => x \in hurt'
    /\ unused' = unused

\* Schedules change only at s.
OnlyAt(s) ==
    \A x \in Sources \ {s} :
        /\ refresh'[x] = refresh[x] /\ sync'[x] = sync[x]
        /\ x \in hurt => x \in hurt'

LEMMA GotoStepOn ==
    ASSUME TypeInv, NEW r \in Requests, NEW s \in Sources, NEW pc \in Pcs,
           req[r] # Idle, req[r].source = s, Goto(r, pc),
           UNCHANGED <<unused, row, lock>>, OnlyAt(s)
    PROVE  StepOn(r, s)
BY GotoType DEF TypeInv, StepOn, OnlyAt

LEMMA ReleaseStepOn ==
    ASSUME TypeInv, Locks, NEW r \in Requests, NEW s \in Sources,
           req[r] # Idle, req[r].source = s, Release(r), unused' = unused,
           \A x \in Sources \ {s} : row'[x] = row[x], OnlyAt(s)
    PROVE  StepOn(r, s)
<1>1. \A x \in Sources \ {s} : lock[x] # r
  BY SyncSchedulesAssumption DEF Locks
<1>. QED
  BY <1>1, ReleaseType DEF TypeInv, StepOn, OnlyAt

\* Every step of an open request is of that kind.
LEMMA RequestStepOn ==
    ASSUME TypeInv, Locks, NEW r \in Requests,
           RequestStep(r) \/ RpcError(r) \/ Rollback(r)
    PROVE  req[r].source \in Sources /\ StepOn(r, req[r].source)
<1>. DEFINE s == req[r].source
<1>. USE DEF Pcs, At, GoesOn, GivesUp, rowVars, schedVars, bootVars
<1>1. req[r] # Idle
  BY DEF RequestStep, UpdateRow, DeleteRow, Commit, UpdateRefresh, UpdateSync,
         CreateRefresh, CreateSync, Trigger, DeleteRefresh, DeleteSync, RpcError,
         Rollback
<1>2. s \in Sources
  BY <1>1 DEF TypeInv, TypeOK, Job
<1>. SUFFICES StepOn(r, s)
  BY <1>2
<1>f. ASSUME Fails(r), OnlyAt(s) PROVE StepOn(r, s)
  BY <1>f, <1>1, <1>2, ReleaseStepOn DEF Fails
<1>g. ASSUME NEW pc \in Pcs, Goto(r, pc), UNCHANGED <<unused, row, lock>>, OnlyAt(s)
      PROVE  StepOn(r, s)
  BY <1>g, <1>1, <1>2, GotoStepOn
<1>3. CASE UpdateRow(r)
  <2>1. OnlyAt(s)
    BY <1>3 DEF UpdateRow, OnlyAt
  <2>2. CASE Fails(r)
    BY <1>f, <2>1, <2>2
  <2>3. CASE /\ lock' = [lock EXCEPT ![s] = r]
             /\ Goto(r, AfterUpdate(req[r].interval))
             /\ UNCHANGED <<unused, row, schedVars, bootVars, hurt, faults>>
    <3>1. AfterUpdate(req[r].interval) \in Pcs
      BY DEF AfterUpdate
    <3>. QED
      BY <1>1, <1>2, <2>3, <3>1, GotoType DEF TypeInv, TypeOK, StepOn
  <2>. QED
    BY <1>3, <2>2, <2>3 DEF UpdateRow
<1>4. CASE DeleteRow(r)
  BY <1>1, <1>2, <1>4, GotoType DEF DeleteRow, TypeInv, TypeOK, StepOn
<1>5. CASE Commit(r)
  <2>1. \A x \in Sources \ {s} : row'[x] = row[x]
    BY <1>5, <1>2 DEF Commit, TypeInv, TypeOK
  <2>2. OnlyAt(s)
    BY <1>5, <1>2 DEF Commit, OnlyAt
  <2>. QED
    BY <1>1, <1>2, <1>5, <2>1, <2>2, ReleaseStepOn DEF Commit
<1>6. CASE UpdateRefresh(r)
  <2>1. OnlyAt(s)
    BY <1>2, <1>6 DEF UpdateRefresh, OnlyAt, TypeInv, TypeOK
  <2>. QED
    BY <1>g, <1>6, <2>1 DEF UpdateRefresh
<1>7. CASE UpdateSync(r)
  <2>1. OnlyAt(s)
    BY <1>2, <1>7 DEF UpdateSync, OnlyAt, TypeInv, TypeOK
  <2>. QED
    BY <1>g, <1>7, <2>1 DEF UpdateSync
<1>8. CASE CreateRefresh(r)
  <2>1. OnlyAt(s)
    BY <1>2, <1>8 DEF CreateRefresh, OnlyAt, TypeInv, TypeOK
  <2>. QED
    BY <1>f, <1>g, <1>8, <2>1 DEF CreateRefresh
<1>9. CASE CreateSync(r)
  <2>1. OnlyAt(s)
    BY <1>2, <1>9 DEF CreateSync, OnlyAt, TypeInv, TypeOK
  <2>. QED
    BY <1>f, <1>g, <1>9, <2>1 DEF CreateSync
<1>10. CASE Trigger(r)
  <2>1. OnlyAt(s)
    BY <1>10 DEF Trigger, OnlyAt
  <2>. QED
    BY <1>f, <1>g, <1>10, <2>1 DEF Trigger
<1>11. CASE DeleteRefresh(r)
  <2>1. OnlyAt(s)
    BY <1>2, <1>11 DEF DeleteRefresh, NotDisabled, OnlyAt, TypeInv, TypeOK
  <2>. QED
    BY <1>f, <1>g, <1>11, <2>1 DEF DeleteRefresh, NotDisabled
<1>12. CASE DeleteSync(r)
  <2>1. OnlyAt(s)
    BY <1>2, <1>12 DEF DeleteSync, NotDisabled, OnlyAt, TypeInv, TypeOK
  <2>. QED
    BY <1>f, <1>g, <1>12, <2>1 DEF DeleteSync, NotDisabled
<1>13. CASE RpcError(r)
  <2>1. hurt' = hurt \cup {s} /\ (UNCHANGED schedVars \/ Effect(s, req[r].interval, req[r].pc))
    BY <1>13 DEF RpcError
  <2>2. OnlyAt(s)
    <3>1. CASE UNCHANGED schedVars
      BY <2>1, <3>1 DEF OnlyAt
    <3>2. CASE Effect(s, req[r].interval, req[r].pc)
      BY <1>2, <2>1, <3>2 DEF OnlyAt, Effect, TypeInv, TypeOK
    <3>. QED
      BY <2>1, <3>1, <3>2
  <2>3. \/ Goto(r, "create_refresh") /\ UNCHANGED <<rowVars, bootVars>>
        \/ Goto(r, "commit") /\ UNCHANGED <<rowVars, bootVars>>
        \/ Fails(r)
    BY <1>13 DEF RpcError
  <2>. QED
    BY <1>f, <1>g, <2>2, <2>3
<1>14. CASE Rollback(r)
  <2>1. OnlyAt(s)
    BY <1>14 DEF Rollback, OnlyAt
  <2>. QED
    BY <1>f, <1>14, <2>1 DEF Rollback
<1>. QED
  BY <1>2, <1>3, <1>4, <1>5, <1>6, <1>7, <1>8, <1>9, <1>10, <1>11, <1>12, <1>13,
     <1>14 DEF RequestStep

\* Such a step hears of no unused id.
LEMMA StepFresh ==
    ASSUME TypeInv, Fresh, NEW r \in Requests, NEW s \in Sources, StepOn(r, s)
    PROVE  Fresh'
<1>1. \A x \in unused : x \in Sources /\ x # s
  BY DEF TypeInv, TypeOK, Fresh, StepOn
<1>2. \A q \in Requests : req'[q] # Idle =>
        /\ req[q] # Idle
        /\ req'[q].op = req[q].op /\ req'[q].source = req[q].source
  BY DEF StepOn
<1>3. \A q \in Requests : req[q] # Idle => req[q].source \in Sources
  BY DEF TypeInv, TypeOK, Job
<1>4. \A x \in unused' :
        /\ row'[x] = Off
        /\ refresh'[x] = Off /\ sync'[x] = Off
        /\ \A q \in Requests : req'[q] # Idle => req'[q].source # x
  BY <1>1, <1>2 DEF Fresh, StepOn, NotScheduled
<1>5. ASSUME NEW q \in Requests, req'[q] # Idle, req'[q].op = "create"
      PROVE  /\ req'[q].source \notin unused'
             /\ row'[req'[q].source] = Off
             /\ \A p \in Requests \ {q} :
                  req'[p] # Idle => req'[p].source # req'[q].source
  <2>1. Doing(q, "create")
    BY <1>2, <1>5 DEF Doing
  <2>2. row'[req[q].source] = row[req[q].source]
    BY <1>3, <1>5, <2>1 DEF StepOn, Fresh, Doing
  <2>. QED
    BY <1>2, <1>5, <2>1, <2>2 DEF Fresh, StepOn
<1>. QED
  BY <1>4, <1>5 DEF Fresh, Doing, NotScheduled

-----------------------------------------------------------------------------
(* The locks, and the unused ids.                                          *)

LEMMA NextLocks == TypeInv /\ Locks /\ [Next]_vars => Locks'
<1>. SUFFICES ASSUME TypeInv, Locks, [Next]_vars PROVE Locks'
  OBVIOUS
<1>. USE DEF Pcs, Ops, At, GoesOn, GivesUp, rowVars, schedVars, bootVars
<1>j. \A r \in Requests : req[r] # Idle =>
        /\ req[r].source \in Sources
        /\ req[r].op \in Ops
        /\ req[r].pc \in Path(req[r].op)
  BY DEF TypeInv, TypeOK, Job, OnPath
<1>f. ASSUME NEW r \in Requests, req[r] # Idle, Fails(r) PROVE Locks'
  BY <1>f, ReleaseLocks DEF Fails
<1>g. ASSUME NEW r \in Requests, NEW pc \in Pcs \ {"update_row"}, req[r] # Idle,
             Goto(r, pc), req[r].pc \notin {"update_row", "commit"},
             req[r].op = "purge" => pc # "commit", UNCHANGED <<row, lock>>
      PROVE  Locks'
  BY <1>g, GotoLocks
<1>1. ASSUME NEW r \in Requests, OpenStep(r) PROVE Locks'
  <2>1. PICK op \in Ops, s \in Sources, n \in Intervals \cup {Keep}, pc \in Pcs :
          /\ Open(r, op, s, n, pc)
          /\ op = "patch" => pc = "update_row"
          /\ op = "purge" => pc # "commit"
    <3>1. CASE OpenCreate(r)
      BY <3>1 DEF OpenCreate, TypeInv, TypeOK
    <3>2. CASE OpenPatch(r)
      BY <3>2 DEF OpenPatch
    <3>3. CASE OpenPurge(r)
      BY <3>3 DEF OpenPurge
    <3>4. CASE OpenSelect(r)
      BY <3>4 DEF OpenSelect
    <3>5. CASE OpenEnsure(r)
      <4>1. PICK s \in todo : Open(r, "ensure", s, row[s], "update_refresh")
        BY <3>5 DEF OpenEnsure
      <4>2. s \in Sources /\ row[s] \in Intervals
        BY DEF TypeInv, TypeOK, Boot, Active
      <4>. QED
        BY <4>1, <4>2
    <3>. QED
      BY <1>1, <3>1, <3>2, <3>3, <3>4, <3>5 DEF OpenStep
  <2>. QED
    BY <2>1, OpenLocks
<1>2. ASSUME NEW r \in Requests, UpdateRow(r) PROVE Locks'
  <2>1. /\ req[r] # Idle /\ req[r].op = "patch" /\ lock[req[r].source] = Off
        /\ AfterUpdate(req[r].interval) \in Pcs \ {"update_row"}
    BY <1>2, <1>j DEF UpdateRow, Path, Enabling, Disabling, AfterUpdate
  <2>2. CASE row[req[r].source] = Off
    BY <1>2, <2>1, <2>2, <1>f DEF UpdateRow
  <2>3. CASE row[req[r].source] # Off
    BY <1>2, <2>1, <2>3, <1>j, TakeLocks DEF UpdateRow
  <2>. QED
    BY <2>2, <2>3
<1>3. ASSUME NEW r \in Requests, DeleteRow(r) PROVE Locks'
  <2>1. req[r] # Idle /\ req[r].op = "purge"
    BY <1>3, <1>j DEF DeleteRow, Path, Enabling, Disabling
  <2>. QED
    BY <1>3, <2>1, <1>j, TakeLocks DEF DeleteRow
<1>4. ASSUME NEW r \in Requests, Commit(r) PROVE Locks'
  <2>1. req[r] # Idle /\ Release(r)
    BY <1>4 DEF Commit
  <2>2. \A x \in Sources : row'[x] = Off => row[x] = Off \/ lock[x] = r
    <3>1. CASE req[r].op = "purge"
      <4>1. lock[req[r].source] = r
        BY <1>4, <3>1 DEF Commit, Locks, Doing
      <4>. QED
        BY <1>4, <4>1, <1>j DEF Commit, TypeInv, TypeOK
    <3>2. CASE req[r].op # "purge"
      <4>1. req[r].interval # Off
        BY <2>1, SyncSchedulesAssumption DEF TypeInv, TypeOK, Job
      <4>2. row' = [row EXCEPT ![req[r].source] =
                      IF req[r].interval # Keep THEN req[r].interval ELSE @]
        BY <1>4, <3>2 DEF Commit
      <4>. QED
        BY <4>1, <4>2, <1>j DEF TypeInv, TypeOK
    <3>. QED
      BY <3>1, <3>2
  <2>. QED
    BY <2>1, <2>2, ReleaseLocks
<1>5. ASSUME NEW r \in Requests,
             \/ UpdateRefresh(r) \/ UpdateSync(r) \/ CreateRefresh(r)
             \/ CreateSync(r) \/ Trigger(r)
      PROVE  Locks'
  <2>1. /\ req[r] # Idle /\ req[r].op # "purge"
        /\ req[r].pc \notin {"update_row", "commit"}
    BY <1>5, <1>j DEF UpdateRefresh, UpdateSync, CreateRefresh, CreateSync, Trigger,
                      Path, Disabling
  <2>2. \/ Fails(r)
        \/ /\ \E pc \in Pcs \ {"update_row"} : Goto(r, pc)
           /\ UNCHANGED <<row, lock>>
    BY <1>5 DEF UpdateRefresh, UpdateSync, CreateRefresh, CreateSync, Trigger
  <2>. QED
    BY <2>1, <2>2, <1>f, <1>g
<1>6. ASSUME NEW r \in Requests, DeleteRefresh(r) \/ DeleteSync(r) PROVE Locks'
  <2>1. /\ req[r] # Idle
        /\ req[r].pc \notin {"update_row", "commit"}
    BY <1>6 DEF DeleteRefresh, DeleteSync
  <2>2. \/ Fails(r)
        \/ /\ \/ Goto(r, "delete_sync")
              \/ req[r].op = "patch" /\ Goto(r, "commit")
              \/ Goto(r, "delete_row")
           /\ UNCHANGED <<row, lock>>
    BY <1>6 DEF DeleteRefresh, DeleteSync, NotDisabled
  <2>. QED
    BY <2>1, <2>2, <1>f, <1>g
<1>7. ASSUME NEW r \in Requests, RpcError(r) PROVE Locks'
  <2>1. /\ req[r] # Idle
        /\ req[r].pc \notin {"update_row", "commit"}
    BY <1>7 DEF RpcError
  <2>2. \/ Fails(r)
        \/ /\ \/ Goto(r, "create_refresh")
              \/ req[r].op = "patch" /\ Goto(r, "commit")
           /\ UNCHANGED <<row, lock>>
    BY <1>7 DEF RpcError
  <2>. QED
    BY <2>1, <2>2, <1>f, <1>g
<1>8. ASSUME NEW r \in Requests, Rollback(r) PROVE Locks'
  BY <1>8, <1>f DEF Rollback
<1>9. CASE Crash
  BY <1>9 DEF Crash, Locks, Doing
<1>10. CASE Started
  BY <1>10 DEF Started, Locks, Doing
<1>11. CASE UNCHANGED vars
  BY <1>11 DEF vars, Locks, Doing
<1>. HIDE DEF Pcs, Ops, At, GoesOn, GivesUp, rowVars, schedVars, bootVars
<1>. QED
  BY <1>1, <1>2, <1>3, <1>4, <1>5, <1>6, <1>7, <1>8, <1>9, <1>10, <1>11
     DEF Next, RequestStep

LEMMA NextFresh == TypeInv /\ Locks /\ Fresh /\ [Next]_vars => Fresh'
<1>. SUFFICES ASSUME TypeInv, Locks, Fresh, [Next]_vars PROVE Fresh'
  OBVIOUS
<1>1. ASSUME NEW r \in Requests, RequestStep(r) \/ RpcError(r) \/ Rollback(r)
      PROVE  Fresh'
  BY <1>1, RequestStepOn, StepFresh
<1>2. ASSUME NEW r \in Requests, OpenCreate(r) PROVE Fresh'
  <2>1. PICK s \in unused, n \in Intervals :
          /\ unused' = unused \ {s}
          /\ Open(r, "create", s, n, IF n = 0 THEN "commit" ELSE "update_refresh")
    BY <1>2 DEF OpenCreate
  <2>2. /\ req'[r] # Idle /\ req'[r].op = "create" /\ req'[r].source = s
        /\ \A q \in Requests \ {r} : req'[q] = req[q]
    BY <2>1, OpenType DEF TypeInv, TypeOK, Ops, Pcs
  <2>3. \A q \in Requests \ {r} : req[q] # Idle => req[q].source # s
    BY DEF Fresh
  <2>4. UNCHANGED <<row, refresh, sync>>
    BY <2>1 DEF Open, schedVars
  <2>. QED
    BY <2>1, <2>2, <2>3, <2>4 DEF Fresh, Doing, NotScheduled
<1>3. ASSUME NEW r \in Requests,
             OpenPatch(r) \/ OpenPurge(r) \/ OpenSelect(r) \/ OpenEnsure(r)
      PROVE  Fresh'
  <2>1. PICK op \in Ops \ {"create"}, s \in Sources, n \in Intervals \cup {Keep},
             pc \in Pcs : Open(r, op, s, n, pc) /\ row[s] # Off
    <3>1. CASE OpenPatch(r)
      BY <3>1 DEF OpenPatch, Ops, Pcs
    <3>2. CASE OpenPurge(r)
      BY <3>2 DEF OpenPurge, Ops, Pcs
    <3>3. CASE OpenSelect(r)
      BY <3>3 DEF OpenSelect, Ops, Pcs
    <3>4. CASE OpenEnsure(r)
      <4>1. PICK s \in todo : Open(r, "ensure", s, row[s], "update_refresh")
        BY <3>4 DEF OpenEnsure
      <4>2. s \in Sources /\ row[s] \in Intervals /\ row[s] # Off
        BY DEF TypeInv, TypeOK, Boot, Active
      <4>. QED
        BY <4>1, <4>2 DEF Ops, Pcs
    <3>. QED
      BY <1>3, <3>1, <3>2, <3>3, <3>4
  <2>2. /\ req'[r] # Idle /\ req'[r].op = op /\ req'[r].source = s
        /\ \A q \in Requests \ {r} : req'[q] = req[q]
    BY <2>1, OpenType DEF TypeInv
  <2>3. UNCHANGED <<unused, row, refresh, sync>>
    BY <1>3, <2>1 DEF Open, schedVars, OpenPatch, OpenPurge, OpenSelect, OpenEnsure
  <2>. QED
    BY <2>1, <2>2, <2>3 DEF Fresh, Doing, NotScheduled
<1>4. CASE Crash
  BY <1>4 DEF Crash, Fresh, Doing, NotScheduled, schedVars
<1>5. CASE Started
  BY <1>5 DEF Started, Fresh, Doing, NotScheduled, rowVars, schedVars
<1>6. CASE UNCHANGED vars
  BY <1>6 DEF vars, Fresh, Doing, NotScheduled
<1>. QED
  BY <1>1, <1>2, <1>3, <1>4, <1>5, <1>6 DEF Next, OpenStep

-----------------------------------------------------------------------------
(* The schedules.                                                          *)

LEMMA RefreshEveryOn == \A n \in Intervals : n \in Nat /\ n # Off /\ RefreshEvery(n) # Off
BY RefreshEveryType, SyncSchedulesAssumption

\* A step of a request on s leaves the other sources as they were: what it has
\* to show is about s.
LEMMA StepSched ==
    ASSUME TypeInv, Locks, Fresh, SchedInv, NEW r \in Requests, NEW s \in Sources,
           StepOn(r, s),
           s \notin hurt' => Kept(s)',
           Doing(r, "create")' /\ s \notin hurt' => Created(r, s)',
           Doing(r, "ensure")' => Ensured(r, s)'
    PROVE  SchedInv'
<1>1. \A q \in Requests : req[q] # Idle => req[q].source \in Sources
  BY DEF TypeInv, TypeOK, Job
<1>2. ASSUME NEW x \in Sources \ hurt' PROVE Kept(x)'
  <2>1. CASE x = s
    BY <1>2, <2>1
  <2>2. CASE x # s
    <3>1. Kept(x)
      BY <2>2 DEF SchedInv, StepOn
    <3>2. Purging(x) => Purging(x)'
      BY <2>2 DEF Purging, Doing, StepOn
    <3>3. UNCHANGED <<row[x], lock[x], refresh[x], sync[x]>>
      BY <2>2 DEF StepOn
    <3>4. lock[x] # Off => req'[lock[x]] = req[lock[x]]
      BY <2>2 DEF Locks, StepOn
    <3>. QED
      BY <3>1, <3>2, <3>3, <3>4
         DEF Kept, Patched, Follows, Scheduled, NotScheduled
  <2>. QED
    BY <2>1, <2>2
<1>3. ASSUME NEW q \in Requests, Doing(q, "create")', req'[q].source \notin hurt'
      PROVE  /\ req'[q].source \in Sources
             /\ q = r \/ /\ req'[q] = req[q] /\ req[q].source # s
                         /\ Created(q, req[q].source)
             /\ q = r => req'[q].source = s
  BY <1>1, <1>3 DEF SchedInv, StepOn, Fresh, Doing
<1>4. ASSUME NEW q \in Requests, Doing(q, "create")', req'[q].source \notin hurt'
      PROVE  Created(q, req[q].source)'
  <2>1. CASE q = r
    BY <1>3, <1>4, <2>1 DEF Created, Follows, Scheduled, NotScheduled
  <2>2. CASE q # r
    <3>1. /\ req'[q] = req[q] /\ req[q].source # s /\ req[q].source \in Sources
          /\ Created(q, req[q].source)
      BY <1>3, <1>4, <2>2
    <3>. QED
      BY <3>1 DEF Created, Follows, Scheduled, NotScheduled, StepOn
  <2>. QED
    BY <2>1, <2>2
<1>5. ASSUME NEW q \in Requests, Doing(q, "ensure")'
      PROVE  Ensured(q, req[q].source)'
  <2>1. q = r /\ req'[q].source = s
    BY <1>5 DEF StepOn, TypeInv, Boot, Doing
  <2>. QED
    BY <1>5, <2>1 DEF Ensured, Scheduled
<1>. QED
  BY <1>2, <1>4, <1>5 DEF SchedInv

\* What else is known of the source of a request, by what the request does.
LEMMA CreatesAlone ==
    ASSUME TypeInv, Locks, Fresh, NEW r \in Requests, Doing(r, "create")
    PROVE  /\ row[req[r].source] = Off
           /\ lock[req[r].source] = Off
           /\ ~Purging(req[r].source)
<1>1. req[r].source \in Sources
  BY DEF TypeInv, TypeOK, Job, Doing
<1>. QED
  BY <1>1 DEF Fresh, Locks, Doing, Purging

LEMMA EnsuresAlone ==
    ASSUME TypeInv, Locks, NEW r \in Requests, Doing(r, "ensure")
    PROVE  /\ row[req[r].source] \in Intervals \ {0, Off}
           /\ req[r].interval = row[req[r].source]
           /\ lock[req[r].source] = Off
           /\ ~Purging(req[r].source)
<1>1. req[r].source \in Sources
  BY DEF TypeInv, TypeOK, Job, Doing
<1>. QED
  BY <1>1 DEF TypeInv, TypeOK, Boot, Active, Locks, Doing, Purging

LEMMA PurgingStays ==
    ASSUME NEW r \in Requests, NEW s \in Sources, StepOn(r, s),
           req[r].op = "purge" => req[r].pc = "delete_refresh"
    PROVE  Purging(s) => Purging(s)'
BY DEF Purging, Doing, StepOn

\* A PATCH that holds the lock goes from one stage to the next.
LEMMA PatchSched ==
    ASSUME TypeInv, Locks, Fresh, SchedInv, NEW r \in Requests, NEW s \in Sources,
           StepOn(r, s), Doing(r, "patch"), req[r].pc # "update_row",
           row' = row, lock' = lock, hurt' = hurt,
           s \notin hurt /\ row[s] \in Intervals /\ Patched(r, s) => Patched(r, s)'
    PROVE  SchedInv'
<1>1. lock[s] = r /\ row[s] # Off /\ row[s] \in Intervals
  BY DEF Locks, Doing, StepOn, TypeInv, TypeOK
<1>2. Purging(s) => Purging(s)'
  BY PurgingStays DEF Doing
<1>3. lock[s] # Off
  BY <1>1, SyncSchedulesAssumption
<1>4. ASSUME s \notin hurt', ~Purging(s)' PROVE Patched(r, s)'
  <2>1. Kept(s)
    BY <1>4 DEF SchedInv
  <2>. QED
    BY <1>1, <1>2, <1>3, <1>4, <2>1 DEF Kept
<1>5. s \notin hurt' => Kept(s)'
  <2>. SUFFICES ASSUME s \notin hurt', ~Purging(s)'
                PROVE  (lock[s] = Off => Follows(s, row[s])') /\ Patched(lock[s], s)'
    BY DEF Kept
  <2>. QED
    BY <1>1, <1>3, <1>4
<1>6. ~Doing(r, "create")' /\ ~Doing(r, "ensure")'
  BY DEF Doing, StepOn
<1>. QED
  BY <1>5, <1>6, StepSched

\* So does a creation, whose source no one else knows.
LEMMA CreateSched ==
    ASSUME TypeInv, Locks, Fresh, SchedInv, NEW r \in Requests, NEW s \in Sources,
           StepOn(r, s), Doing(r, "create"), row' = row, hurt' = hurt,
           s \notin hurt /\ Created(r, s) => req'[r] = Idle \/ Created(r, s)'
    PROVE  SchedInv'
<1>1. row[s] = Off
  BY CreatesAlone DEF StepOn
<1>2. Kept(s)'
  BY <1>1 DEF Kept
<1>3. s \notin hurt => Created(r, s)
  BY DEF SchedInv, Doing, StepOn
<1>4. Doing(r, "create")' /\ s \notin hurt' => Created(r, s)'
  BY <1>3 DEF Doing
<1>5. ~Doing(r, "ensure")'
  BY DEF Doing, StepOn
<1>. QED
  BY <1>2, <1>4, <1>5, StepSched

\* And the start of the server, whatever it finds.
LEMMA EnsureSched ==
    ASSUME TypeInv, Locks, Fresh, SchedInv, NEW r \in Requests, NEW s \in Sources,
           StepOn(r, s), Doing(r, "ensure"), row' = row, lock'[s] = Off, hurt' = hurt,
           Ensured(r, s) => req'[r] = Idle \/ Ensured(r, s)',
           Scheduled(s, row[s]) => Scheduled(s, row[s])'
    PROVE  SchedInv'
<1>1. /\ row[s] \in Intervals \ {0, Off} /\ lock[s] = Off /\ ~Purging(s)
      /\ req[r].interval = row[s]
  BY EnsuresAlone DEF StepOn
<1>2. ASSUME s \notin hurt' PROVE Kept(s)'
  <2>1. Kept(s)
    BY <1>2 DEF SchedInv
  <2>2. Scheduled(s, row[s])
    BY <1>1, <2>1 DEF Kept, Follows
  <2>. QED
    BY <1>1, <2>2 DEF Kept, Follows
<1>3. Doing(r, "ensure")' => Ensured(r, s)'
  BY DEF SchedInv, Doing, StepOn
<1>4. ~Doing(r, "create")'
  BY DEF Doing, StepOn
<1>. QED
  BY <1>2, <1>3, <1>4, StepSched

\* A request that touches nothing, and a purge that has touched something.
LEMMA OtherSched ==
    ASSUME TypeInv, Locks, Fresh, SchedInv, NEW r \in Requests, NEW s \in Sources,
           StepOn(r, s), req[r].op \in {"patch", "purge", "select"},
           \/ s \in hurt'
           \/ row'[s] = Off
           \/ Purging(s)'
           \/ /\ req[r].op = "purge" => req[r].pc = "delete_refresh"
              /\ lock[s] # r
              /\ UNCHANGED <<row[s], lock[s], refresh[s], sync[s], hurt>>
    PROVE  SchedInv'
<1>1. ASSUME /\ req[r].op = "purge" => req[r].pc = "delete_refresh"
             /\ lock[s] # r
             /\ UNCHANGED <<row[s], lock[s], refresh[s], sync[s], hurt>>
             /\ s \notin hurt'
      PROVE  Kept(s)'
  <2>1. Kept(s)
    BY <1>1 DEF SchedInv
  <2>2. Purging(s) => Purging(s)'
    BY <1>1, PurgingStays
  <2>3. lock[s] # Off => req'[lock[s]] = req[lock[s]]
    BY <1>1 DEF Locks, StepOn
  <2>. QED
    BY <1>1, <2>1, <2>2, <2>3 DEF Kept, Patched, Follows, Scheduled, NotScheduled
<1>2. s \notin hurt' => Kept(s)'
  BY <1>1 DEF Kept
<1>3. ~Doing(r, "create")' /\ ~Doing(r, "ensure")'
  BY DEF Doing, StepOn
<1>. QED
  BY <1>2, <1>3, StepSched

\* A PATCH that holds the lock finds the schedules as it left them, unless the
\* source is hurt or being purged.
LEMMA HurtOrPurged ==
    ASSUME TypeInv, Locks, SchedInv, NEW r \in Requests, NEW s \in Sources,
           StepOn(r, s), Doing(r, "patch"), req[r].pc # "update_row",
           hurt' = hurt, ~Patched(r, s)
    PROVE  s \in hurt' \/ Purging(s)'
<1>1. lock[s] = r /\ row[s] # Off /\ lock[s] # Off
  BY SyncSchedulesAssumption DEF Locks, Doing, StepOn
<1>2. Purging(s) => Purging(s)'
  BY PurgingStays DEF Doing
<1>. QED
  BY <1>1, <1>2 DEF SchedInv, Kept

\* The steps of enable_sync.
LEMMA EnableSched ==
    ASSUME TypeInv, Locks, Fresh, SchedInv, NEW r \in Requests,
           NEW s \in Sources, req[r].source = s,
           \/ UpdateRefresh(r) \/ UpdateSync(r) \/ CreateRefresh(r)
           \/ CreateSync(r)
    PROVE  SchedInv'
<1>. DEFINE n == req[r].interval
<1>1. s \in Sources /\ StepOn(r, s)
  BY RequestStepOn DEF RequestStep
<1>2. req[r] # Idle /\ req[r].pc \in Enabling /\ UNCHANGED <<row, hurt>>
  BY DEF UpdateRefresh, UpdateSync, CreateRefresh, CreateSync, At, GoesOn, GivesUp,
         Fails, rowVars, Enabling
<1>3. /\ req[r].op \in {"create", "patch", "ensure"}
      /\ n \in Intervals /\ n # 0
      /\ RefreshEvery(n) # Off /\ n # Off
      /\ 0 \notin {n} /\ Keep # n
  <2>1. req[r] \in Job
    BY <1>2 DEF TypeInv, TypeOK
  <2>. QED
    BY <1>2, <2>1, RefreshEveryOn DEF TypeInv, OnPath, Path, Job, Ops, Enabling, Disabling
<1>4. /\ refresh[s] # Off /\ refresh'[s] = RefreshEvery(n) => refresh'[s] # Off
      /\ refresh \in [Sources -> Nat \cup {Off}]
      /\ sync \in [Sources -> Intervals \cup {Off}]
  BY <1>3 DEF TypeInv, TypeOK
\* What the step is, seen from s.
<1>g. ASSUME NEW pc \in Pcs, GoesOn(r, pc)
      PROVE  /\ req'[r] # Idle /\ req'[r].pc = pc
             /\ req'[r].op = req[r].op /\ req'[r].interval = n
             /\ UNCHANGED <<row, lock, hurt>>
  BY <1>2, <1>g, GotoType DEF TypeInv, GoesOn, rowVars
<1>f. ASSUME GivesUp(r)
      PROVE  /\ req'[r] = Idle
             /\ lock[s] # r => lock'[s] = lock[s]
             /\ UNCHANGED <<row, hurt, refresh, sync>>
  BY <1>1, <1>f, ReleaseType DEF TypeInv, GivesUp, Fails, schedVars
<1>5. CASE UpdateRefresh(r)
  <2>1. req[r].pc = "update_refresh"
    BY <1>5 DEF UpdateRefresh, At
  <2>2. \/ /\ refresh[s] = Off /\ GoesOn(r, "create_refresh")
           /\ UNCHANGED <<refresh, sync>>
        \/ /\ refresh[s] # Off /\ GoesOn(r, "update_sync")
           /\ refresh'[s] = RefreshEvery(n) /\ UNCHANGED sync
    BY <1>1, <1>4, <1>5 DEF UpdateRefresh, schedVars
  <2>3. CASE req[r].op = "create"
    <3>1. s \notin hurt /\ Created(r, s) => Created(r, s)'
      BY <2>1, <2>2, <1>g DEF Created, NotScheduled, Follows, Scheduled, Pcs
    <3>. QED
      BY <1>1, <1>2, <2>3, <3>1, CreateSched DEF Doing
  <2>4. CASE req[r].op = "patch"
    <3>1. s \notin hurt /\ row[s] \in Intervals /\ Patched(r, s) => Patched(r, s)'
      BY <1>3, <2>1, <2>2, <1>g, RefreshEveryOn
         DEF Patched, NotScheduled, Follows, Scheduled, Pcs
    <3>2. lock' = lock
      BY <2>2, <1>g DEF Pcs
    <3>. QED
      BY <1>1, <1>2, <2>1, <2>4, <3>1, <3>2, PatchSched DEF Doing
  <2>5. CASE req[r].op = "ensure"
    <3>1. lock[s] = Off /\ row[s] = n
      BY <1>2, <2>5, EnsuresAlone DEF Doing
    <3>2. Ensured(r, s) => Ensured(r, s)'
      BY <2>2, <1>g DEF Ensured, Scheduled, Pcs
    <3>3. Scheduled(s, row[s]) => Scheduled(s, row[s])'
      BY <2>2, <1>g, <3>1 DEF Scheduled, Pcs
    <3>4. lock'[s] = Off
      BY <2>2, <1>g, <3>1 DEF Pcs
    <3>. QED
      BY <1>1, <1>2, <2>5, <3>2, <3>3, <3>4, EnsureSched DEF Doing
  <2>. QED
    BY <1>3, <2>3, <2>4, <2>5
<1>6. CASE UpdateSync(r)
  <2>1. req[r].pc = "update_sync"
    BY <1>6 DEF UpdateSync, At
  <2>2. \/ /\ sync[s] = Off /\ GoesOn(r, "create_refresh")
           /\ UNCHANGED <<refresh, sync>>
        \/ /\ sync[s] # Off /\ GoesOn(r, "commit")
           /\ sync'[s] = n /\ UNCHANGED refresh
    BY <1>1, <1>4, <1>6 DEF UpdateSync, schedVars
  <2>3. CASE req[r].op = "create"
    <3>1. ~Created(r, s)
      BY <2>1 DEF Created
    <3>. QED
      BY <1>1, <1>2, <2>3, <3>1, CreateSched DEF Doing
  <2>4. CASE req[r].op = "patch"
    <3>1. s \notin hurt /\ row[s] \in Intervals /\ Patched(r, s) => Patched(r, s)'
      BY <1>3, <2>1, <2>2, <1>g
         DEF Patched, NotScheduled, Follows, Scheduled, Pcs
    <3>2. lock' = lock
      BY <2>2, <1>g DEF Pcs
    <3>. QED
      BY <1>1, <1>2, <2>1, <2>4, <3>1, <3>2, PatchSched DEF Doing
  <2>5. CASE req[r].op = "ensure"
    <3>1. lock[s] = Off /\ row[s] = n
      BY <1>2, <2>5, EnsuresAlone DEF Doing
    <3>2. Ensured(r, s) => Ensured(r, s)'
      BY <2>1, <2>2, <1>g DEF Ensured, Scheduled, Pcs
    <3>3. Scheduled(s, row[s]) => Scheduled(s, row[s])'
      BY <2>2, <1>g, <3>1 DEF Scheduled, Pcs
    <3>4. lock'[s] = Off
      BY <2>2, <1>g, <3>1 DEF Pcs
    <3>. QED
      BY <1>1, <1>2, <2>5, <3>2, <3>3, <3>4, EnsureSched DEF Doing
  <2>. QED
    BY <1>3, <2>3, <2>4, <2>5
<1>7. CASE CreateRefresh(r)
  <2>1. req[r].pc = "create_refresh"
    BY <1>7 DEF CreateRefresh, At
  <2>2. \/ refresh[s] # Off /\ GivesUp(r)
        \/ /\ refresh[s] = Off /\ GoesOn(r, "create_sync")
           /\ refresh'[s] = RefreshEvery(n) /\ UNCHANGED sync
    BY <1>1, <1>4, <1>7 DEF CreateRefresh
  <2>3. CASE req[r].op = "create"
    <3>1. s \notin hurt /\ Created(r, s) => req'[r] = Idle \/ Created(r, s)'
      BY <2>1, <2>2, <1>f, <1>g DEF Created, NotScheduled, Follows, Scheduled, Pcs
    <3>. QED
      BY <1>1, <1>2, <2>3, <3>1, CreateSched DEF Doing
  <2>4. CASE req[r].op = "patch" /\ GoesOn(r, "create_sync")
    <3>1. s \notin hurt /\ row[s] \in Intervals /\ Patched(r, s) => Patched(r, s)'
      BY <2>1, <2>2, <2>4, <1>g DEF Patched, NotScheduled, Pcs
    <3>2. lock' = lock
      BY <2>4, <1>g DEF Pcs
    <3>. QED
      BY <1>1, <1>2, <2>1, <2>4, <3>1, <3>2, PatchSched DEF Doing
  <2>5. CASE req[r].op = "patch" /\ refresh[s] # Off /\ GivesUp(r)
    BY <1>1, <1>2, <2>1, <2>5, HurtOrPurged, OtherSched, <1>f DEF Doing, Patched, NotScheduled
  <2>6. CASE req[r].op = "ensure"
    <3>1. lock[s] = Off /\ row[s] = n
      BY <1>2, <2>6, EnsuresAlone DEF Doing
    <3>2. Ensured(r, s) => req'[r] = Idle \/ Ensured(r, s)'
      BY <2>2, <1>f, <1>g DEF Ensured, Scheduled, Pcs
    <3>3. Scheduled(s, row[s]) => Scheduled(s, row[s])'
      BY <2>2, <1>f, <1>g, <3>1 DEF Scheduled, Pcs
    <3>4. lock'[s] = Off
      BY <2>2, <1>f, <1>g, <3>1, SyncSchedulesAssumption DEF Pcs
    <3>. QED
      BY <1>1, <1>2, <2>6, <3>2, <3>3, <3>4, EnsureSched DEF Doing
  <2>. QED
    BY <1>3, <2>2, <2>3, <2>4, <2>5, <2>6
<1>8. CASE CreateSync(r)
  <2>. DEFINE next == IF req[r].op = "create" THEN "trigger" ELSE "commit"
  <2>1. req[r].pc = "create_sync"
    BY <1>8 DEF CreateSync, At
  <2>2. \/ sync[s] # Off /\ GivesUp(r)
        \/ /\ sync[s] = Off /\ GoesOn(r, next)
           /\ sync'[s] = n /\ UNCHANGED refresh
    BY <1>1, <1>4, <1>8 DEF CreateSync
  <2>3. CASE req[r].op = "create"
    <3>1. s \notin hurt /\ Created(r, s) => req'[r] = Idle \/ Created(r, s)'
      BY <1>3, <2>1, <2>2, <2>3, <1>f, <1>g
         DEF Created, NotScheduled, Follows, Scheduled, Pcs
    <3>. QED
      BY <1>1, <1>2, <2>3, <3>1, CreateSched DEF Doing
  <2>4. CASE req[r].op = "patch" /\ GoesOn(r, "commit")
    <3>1. s \notin hurt /\ row[s] \in Intervals /\ Patched(r, s) => Patched(r, s)'
      BY <1>3, <2>1, <2>2, <2>4, <1>g, <1>f DEF Patched, Follows, Scheduled, Pcs
    <3>2. lock' = lock
      BY <2>4, <1>g DEF Pcs
    <3>. QED
      BY <1>1, <1>2, <2>1, <2>4, <3>1, <3>2, PatchSched DEF Doing
  <2>5. CASE req[r].op = "patch" /\ sync[s] # Off /\ GivesUp(r)
    BY <1>1, <1>2, <2>1, <2>5, HurtOrPurged, OtherSched, <1>f DEF Doing, Patched
  <2>6. CASE req[r].op = "ensure"
    <3>1. lock[s] = Off /\ row[s] = n
      BY <1>2, <2>6, EnsuresAlone DEF Doing
    <3>2. Ensured(r, s) => req'[r] = Idle \/ Ensured(r, s)'
      BY <2>1, <2>2, <2>6, <1>f, <1>g DEF Ensured, Scheduled, Pcs
    <3>3. Scheduled(s, row[s]) => Scheduled(s, row[s])'
      BY <2>2, <2>6, <1>f, <1>g, <3>1 DEF Scheduled, Pcs
    <3>4. lock'[s] = Off
      BY <2>2, <2>6, <1>f, <1>g, <3>1, SyncSchedulesAssumption DEF Pcs
    <3>. QED
      BY <1>1, <1>2, <2>6, <3>2, <3>3, <3>4, EnsureSched DEF Doing
  <2>. QED
    BY <1>3, <2>2, <2>3, <2>4, <2>5, <2>6
<1>. QED
  BY <1>5, <1>6, <1>7, <1>8

\* The steps of disable_sync.
LEMMA DisableSched ==
    ASSUME TypeInv, Locks, Fresh, SchedInv, NEW r \in Requests,
           NEW s \in Sources, req[r].source = s,
           DeleteRefresh(r) \/ DeleteSync(r)
    PROVE  SchedInv'
<1>1. StepOn(r, s)
  BY RequestStepOn DEF RequestStep
<1>2. /\ req[r] # Idle
      /\ req[r].op \in {"patch", "purge"}
      /\ req[r].op = "patch" => req[r].interval = 0
      /\ row' = row
  BY DEF DeleteRefresh, DeleteSync, NotDisabled, Fails, At, GoesOn, rowVars, TypeInv,
         OnPath, Path, Enabling, Disabling, Job, Ops, TypeOK
<1>3. /\ refresh \in [Sources -> Nat \cup {Off}]
      /\ sync \in [Sources -> Intervals \cup {Off}]
  BY DEF TypeInv, TypeOK
<1>g. ASSUME NEW pc \in Pcs, GoesOn(r, pc)
      PROVE  /\ req'[r] # Idle /\ req'[r].pc = pc
             /\ req'[r].op = req[r].op /\ req'[r].interval = req[r].interval
             /\ req'[r].source = s
             /\ UNCHANGED <<row, lock, hurt>>
  BY <1>2, <1>g, GotoType DEF TypeInv, GoesOn, rowVars
<1>4. CASE req[r].op = "patch"
  <2>1. \/ /\ req[r].pc = "delete_refresh" /\ refresh[s] = Off
           /\ GoesOn(r, "commit") /\ UNCHANGED <<refresh, sync>>
        \/ /\ req[r].pc = "delete_refresh" /\ refresh[s] # Off
           /\ GoesOn(r, "delete_sync") /\ refresh'[s] = Off /\ UNCHANGED sync
        \/ /\ req[r].pc = "delete_sync" /\ sync[s] = Off
           /\ GoesOn(r, "commit") /\ UNCHANGED <<refresh, sync>>
        \/ /\ req[r].pc = "delete_sync" /\ sync[s] # Off
           /\ GoesOn(r, "commit") /\ sync'[s] = Off /\ UNCHANGED refresh
    BY <1>3, <1>4 DEF DeleteRefresh, DeleteSync, NotDisabled, At, schedVars
  <2>2. s \notin hurt /\ row[s] \in Intervals /\ Patched(r, s) => Patched(r, s)'
    <3>. SUFFICES ASSUME row[s] \in Intervals, Patched(r, s) PROVE Patched(r, s)'
      OBVIOUS
    <3>1. /\ row[s] # Off /\ RefreshEvery(row[s]) # Off
          /\ Keep # 0
          /\ req[r].interval = 0
      <4>1. row[s] # Off /\ RefreshEvery(row[s]) # Off
        BY RefreshEveryOn
      <4>2. Keep # 0
        BY SyncSchedulesAssumption
      <4>. QED
        BY <1>2, <1>4, <4>1, <4>2
    <3>2. req[r].pc = "delete_refresh" =>
            \/ refresh[s] = Off /\ sync[s] = Off
            \/ refresh[s] # Off /\ sync[s] # Off
      BY <3>1 DEF Patched, Follows, Scheduled, NotScheduled
    <3>3. req[r].pc = "delete_sync" => refresh[s] = Off /\ sync[s] # Off
      BY DEF Patched
    <3>4. UNCHANGED <<row[s], lock[s]>> /\ req'[r].interval = 0
      BY <1>g, <2>1, <3>1 DEF Pcs
    <3>. QED
      BY <1>g, <2>1, <3>1, <3>2, <3>3, <3>4
         DEF Patched, Follows, Scheduled, NotScheduled, Pcs
  <2>3. lock' = lock /\ hurt' = hurt
    BY <1>g, <2>1 DEF Pcs
  <2>. QED
    BY <1>1, <1>2, <1>4, <2>1, <2>2, <2>3, PatchSched DEF Doing
<1>5. CASE req[r].op = "purge"
  <2>1. lock[s] # r \/ req[r].pc = "commit"
    BY <1>5, SyncSchedulesAssumption DEF Locks
  <2>2. CASE NotDisabled(r) /\ req[r].pc = "delete_sync"
    <3>1. s \in hurt'
      BY <1>5, <2>2 DEF NotDisabled
    <3>. QED
      BY <1>1, <1>5, <3>1, OtherSched
  <2>3. CASE NotDisabled(r) /\ req[r].pc = "delete_refresh"
    <3>1. Fails(r) /\ UNCHANGED <<refresh, sync, hurt>>
      BY <1>5, <2>3 DEF NotDisabled, schedVars
    <3>2. lock'[s] = lock[s] /\ lock[s] # r
      BY <2>1, <2>3, <3>1, ReleaseType DEF Fails, TypeInv
    <3>. QED
      BY <1>1, <1>2, <1>5, <2>3, <3>1, <3>2, OtherSched
  <2>4. CASE ~NotDisabled(r)
    <3>1. GoesOn(r, "delete_sync") \/ GoesOn(r, "delete_row")
      BY <1>5, <2>4 DEF DeleteRefresh, DeleteSync
    <3>2. Purging(s)'
      BY <1>5, <1>g, <3>1 DEF Purging, Doing, Pcs
    <3>. QED
      BY <1>1, <1>5, <3>2, OtherSched
  <2>. QED
    BY <2>2, <2>3, <2>4 DEF DeleteRefresh, DeleteSync, At
<1>. QED
  BY <1>2, <1>4, <1>5

LEMMA CommitSched ==
    ASSUME TypeInv, Locks, Fresh, SchedInv, NEW r \in Requests,
           NEW s \in Sources, req[r].source = s, Commit(r)
    PROVE  SchedInv'
<1>. DEFINE n == req[r].interval
<1>1. StepOn(r, s)
  BY RequestStepOn DEF RequestStep
<1>2. /\ req[r] # Idle /\ req[r].pc = "commit" /\ req'[r] = Idle
      /\ req[r].op \in {"create", "patch", "purge", "select", "ensure"}
      /\ n \in Intervals \cup {Keep}
      /\ UNCHANGED <<refresh, sync>>
      /\ lock'[s] = IF lock[s] = r THEN Off ELSE lock[s]
  <2>1. req[r] # Idle /\ Release(r)
    BY DEF Commit, At
  <2>2. req[r] \in Job
    BY <2>1 DEF TypeInv, TypeOK
  <2>. QED
    BY <2>1, <2>2, ReleaseType DEF Commit, At, schedVars, Job, Ops, TypeInv
<1>3. /\ req[r].op = "purge" => row'[s] = Off
      /\ req[r].op # "purge" => row'[s] = IF n # Keep THEN n ELSE row[s]
      /\ req[r].op # "ensure" => hurt' = hurt
  <2>1. row' = [row EXCEPT ![s] = CASE req[r].op = "purge" -> Off
                                    [] n # Keep -> n
                                    [] OTHER -> @]
    BY DEF Commit
  <2>2. req[r].op = "purge" => n = Keep
    BY <1>2 DEF TypeInv, OnPath
  <2>. QED
    BY <2>1, <2>2 DEF Commit, TypeInv, TypeOK
<1>4. CASE req[r].op = "create"
  <2>1. lock[s] = Off /\ n # Keep /\ ~Doing(r, "ensure")'
    BY <1>2, <1>4, CreatesAlone DEF Doing, TypeInv, OnPath
  <2>2. s \notin hurt' => Follows(s, n)
    BY <1>2, <1>3, <1>4 DEF SchedInv, Doing, Created
  <2>3. s \notin hurt' => Kept(s)'
    BY <1>2, <1>3, <1>4, <2>1, <2>2, SyncSchedulesAssumption
       DEF Kept, Follows, Scheduled, NotScheduled
  <2>. QED
    BY <1>1, <1>2, <2>1, <2>3, StepSched DEF Doing
<1>5. CASE req[r].op = "patch"
  <2>1. lock[s] = r /\ lock'[s] = Off /\ hurt' = hurt
    BY <1>2, <1>3, <1>5 DEF Locks, Doing
  <2>2. CASE Patched(r, s)
    <3>1. Kept(s)'
      BY <1>2, <1>3, <1>5, <2>1, <2>2
         DEF Patched, Kept, Follows, Scheduled, NotScheduled
    <3>. QED
      BY <1>1, <1>2, <3>1, StepSched DEF Doing
  <2>3. CASE ~Patched(r, s)
    BY <1>1, <1>2, <1>5, <2>1, <2>3, HurtOrPurged, OtherSched DEF Doing
  <2>. QED
    BY <2>2, <2>3
<1>6. CASE req[r].op = "purge"
  BY <1>1, <1>3, <1>6, OtherSched
<1>7. CASE req[r].op = "select"
  <2>1. n = Keep /\ lock[s] # r
    BY <1>2, <1>7, SyncSchedulesAssumption DEF TypeInv, OnPath, Locks
  <2>. QED
    BY <1>1, <1>2, <1>3, <1>7, <2>1, OtherSched
<1>8. CASE req[r].op = "ensure"
  <2>1. /\ row[s] \in Intervals \ {0, Off} /\ n = row[s] /\ lock[s] = Off
    BY <1>2, <1>8, EnsuresAlone DEF Doing
  <2>2. Scheduled(s, n)
    BY <1>2, <1>8 DEF SchedInv, Doing, Ensured
  <2>3. Kept(s)'
    BY <1>2, <1>3, <1>8, <2>1, <2>2, SyncSchedulesAssumption
       DEF Kept, Follows, Scheduled
  <2>. QED
    BY <1>1, <1>2, <2>3, StepSched DEF Doing
<1>. QED
  BY <1>2, <1>4, <1>5, <1>6, <1>7, <1>8

\* A request that begins changes nothing.
LEMMA OpenSched ==
    ASSUME TypeInv, Locks, Fresh, SchedInv, NEW r \in Requests, OpenStep(r)
    PROVE  SchedInv'
<1>1. PICK op \in Ops, s \in Sources, n \in Intervals \cup {Keep}, pc \in Pcs :
        /\ Open(r, op, s, n, pc)
        /\ op = "purge" => pc = "delete_refresh"
        /\ op = "ensure" => pc = "update_refresh"
        /\ op = "create" => /\ s \in unused
                           /\ pc = IF n = 0 THEN "commit" ELSE "update_refresh"
  <2>1. CASE OpenCreate(r)
    BY <2>1 DEF OpenCreate, TypeInv, TypeOK, Ops, Pcs
  <2>2. CASE OpenPatch(r)
    BY <2>2 DEF OpenPatch, Ops, Pcs
  <2>3. CASE OpenPurge(r)
    BY <2>3 DEF OpenPurge, Ops, Pcs
  <2>4. CASE OpenSelect(r)
    BY <2>4 DEF OpenSelect, Ops, Pcs
  <2>5. CASE OpenEnsure(r)
    <3>1. PICK s \in todo : Open(r, "ensure", s, row[s], "update_refresh")
      BY <2>5 DEF OpenEnsure
    <3>2. s \in Sources /\ row[s] \in Intervals
      BY DEF TypeInv, TypeOK, Boot, Active
    <3>. QED
      BY <3>1, <3>2 DEF Ops, Pcs
  <2>. QED
    BY <2>1, <2>2, <2>3, <2>4, <2>5 DEF OpenStep
<1>2. req[r] = Idle /\ UNCHANGED <<row, lock, refresh, sync, hurt>>
  BY <1>1 DEF Open, schedVars
<1>3. /\ req'[r] # Idle /\ req'[r].op = op /\ req'[r].source = s
      /\ req'[r].interval = n /\ req'[r].pc = pc
      /\ \A q \in Requests \ {r} : req'[q] = req[q]
  BY <1>1, OpenType DEF TypeInv
<1>4. ASSUME NEW x \in Sources \ hurt' PROVE Kept(x)'
  <2>1. Kept(x)
    BY <1>2, <1>4 DEF SchedInv
  <2>2. Purging(x) => Purging(x)'
    BY <1>2, <1>3 DEF Purging, Doing
  <2>3. lock[x] # Off => req'[lock[x]] = req[lock[x]]
    BY <1>2, <1>3 DEF Locks
  <2>. QED
    BY <1>2, <2>1, <2>2, <2>3 DEF Kept, Patched, Follows, Scheduled, NotScheduled
<1>5. ASSUME NEW q \in Requests, Doing(q, "create")', req'[q].source \notin hurt'
      PROVE  Created(q, req[q].source)'
  <2>1. CASE q = r
    BY <1>1, <1>2, <1>3, <1>5, <2>1
       DEF Created, Follows, Scheduled, NotScheduled, Doing, Fresh
  <2>2. CASE q # r
    BY <1>2, <1>3, <1>5, <2>2
       DEF SchedInv, Created, Follows, Scheduled, NotScheduled, Doing
  <2>. QED
    BY <2>1, <2>2
<1>6. ASSUME NEW q \in Requests, Doing(q, "ensure")'
      PROVE  Ensured(q, req[q].source)'
  BY <1>1, <1>2, <1>3, <1>6 DEF SchedInv, Ensured, Scheduled, Doing
<1>. QED
  BY <1>4, <1>5, <1>6 DEF SchedInv

LEMMA NextSchedInv ==
    TypeInv /\ Locks /\ Fresh /\ SchedInv /\ [Next]_vars => SchedInv'
<1>. SUFFICES ASSUME TypeInv, Locks, Fresh, SchedInv, [Next]_vars PROVE SchedInv'
  OBVIOUS
<1>j. \A r \in Requests : req[r] # Idle =>
        /\ req[r] \in Job
        /\ req[r].source \in Sources
        /\ req[r].pc \in Path(req[r].op)
        /\ req[r].op \in Ops
  BY DEF TypeInv, TypeOK, Job, OnPath
<1>1. ASSUME NEW r \in Requests, OpenStep(r) PROVE SchedInv'
  BY <1>1, OpenSched
<1>2. ASSUME NEW r \in Requests, UpdateRow(r) PROVE SchedInv'
  <2>1. PICK s \in Sources : req[r].source = s
    BY <1>2, <1>j DEF UpdateRow, At
  <2>2. /\ req[r] # Idle /\ req[r].op = "patch" /\ StepOn(r, s) /\ lock[s] = Off
        /\ UNCHANGED <<row, refresh, sync, hurt>>
        /\ AfterUpdate(req[r].interval) \in {"commit", "delete_refresh", "update_refresh"}
    <3>1. StepOn(r, s)
      BY <1>2, <2>1, RequestStepOn DEF RequestStep
    <3>2. req[r] # Idle /\ req[r].op = "patch" /\ lock[s] = Off
      BY <1>2, <1>j, <2>1 DEF UpdateRow, At, Ops, Path, Enabling, Disabling
    <3>3. UNCHANGED <<row, refresh, sync, hurt>>
      BY <1>2 DEF UpdateRow, GivesUp, Fails, schedVars
    <3>. QED
      BY <3>1, <3>2, <3>3 DEF AfterUpdate
  <2>3. CASE row[s] = Off
    BY <2>2, <2>3, OtherSched
  <2>4. CASE row[s] # Off
    <3>1. Goto(r, AfterUpdate(req[r].interval)) /\ lock' = [lock EXCEPT ![s] = r]
      BY <1>2, <2>1, <2>4 DEF UpdateRow
    <3>2. lock'[s] = r /\ r # Off
      BY <3>1, SyncSchedulesAssumption DEF TypeInv, TypeOK
    <3>3. /\ req'[r] # Idle /\ req'[r].op = "patch"
          /\ req'[r].interval = req[r].interval
          /\ req'[r].pc = AfterUpdate(req[r].interval)
      BY <2>2, <3>1, GotoType DEF TypeInv, Pcs
    <3>4. Purging(s) => Purging(s)'
      BY <2>2, PurgingStays
    <3>5. s \notin hurt' /\ ~Purging(s)' => Follows(s, row[s])
      BY <2>2, <2>4, <3>4 DEF SchedInv, Kept
    <3>6. Follows(s, row[s]) => Patched(r, s)'
      BY <2>2, <3>3 DEF Patched, Follows, Scheduled, NotScheduled, AfterUpdate
    <3>7. s \notin hurt' => Kept(s)'
      BY <3>2, <3>5, <3>6 DEF Kept
    <3>. QED
      BY <2>2, <3>3, <3>7, StepSched DEF Doing
  <2>. QED
    BY <2>3, <2>4
<1>3. ASSUME NEW r \in Requests, DeleteRow(r) PROVE SchedInv'
  <2>1. PICK s \in Sources : req[r].source = s
    BY <1>3, <1>j DEF DeleteRow, At
  <2>2. req[r] # Idle /\ req[r].op = "purge" /\ StepOn(r, s)
    <3>1. StepOn(r, s)
      BY <1>3, <2>1, RequestStepOn DEF RequestStep
    <3>2. req[r] # Idle /\ req[r].op = "purge"
      BY <1>3, <1>j DEF DeleteRow, At, Ops, Path, Enabling, Disabling
    <3>. QED
      BY <3>1, <3>2
  <2>3. req'[r] # Idle /\ req'[r].pc = "commit"
    BY <1>3, <2>2, GotoType DEF DeleteRow, TypeInv, Pcs
  <2>4. Purging(s)'
    BY <2>2, <2>3 DEF Purging, Doing, StepOn
  <2>. QED
    BY <2>2, <2>4, OtherSched
<1>4. ASSUME NEW r \in Requests, Commit(r) PROVE SchedInv'
  BY <1>4, <1>j, CommitSched DEF Commit, At
<1>5. ASSUME NEW r \in Requests,
             \/ UpdateRefresh(r) \/ UpdateSync(r) \/ CreateRefresh(r)
             \/ CreateSync(r)
      PROVE  SchedInv'
  BY <1>5, <1>j, EnableSched
     DEF UpdateRefresh, UpdateSync, CreateRefresh, CreateSync, At
<1>6. ASSUME NEW r \in Requests, Trigger(r) PROVE SchedInv'
  <2>1. PICK s \in Sources : req[r].source = s
    BY <1>6, <1>j DEF Trigger, At
  <2>2. /\ req[r] # Idle /\ req[r].pc = "trigger" /\ req[r].op \in {"create", "select"}
        /\ StepOn(r, s) /\ UNCHANGED <<row, refresh, sync, hurt>>
    BY <1>6, <1>j, <2>1, RequestStepOn
       DEF RequestStep, Trigger, At, Path, Enabling, Disabling, GivesUp, GoesOn, Fails,
           schedVars, rowVars, Ops
  <2>3. GivesUp(r) \/ GoesOn(r, "commit")
    BY <1>6 DEF Trigger
  <2>4. CASE req[r].op = "create"
    <3>1. \/ req'[r] = Idle
          \/ /\ req'[r].pc = "commit" /\ req'[r].interval = req[r].interval
      BY <2>2, <2>3, ReleaseType, GotoType DEF GivesUp, Fails, GoesOn, TypeInv, Pcs
    <3>2. Created(r, s) => req'[r] = Idle \/ Created(r, s)'
      BY <2>2, <3>1 DEF Created, Follows, Scheduled, NotScheduled
    <3>. QED
      BY <2>2, <2>4, <3>2, CreateSched DEF Doing
  <2>5. CASE req[r].op = "select"
    <3>1. lock[s] # r
      BY <2>2, <2>5, SyncSchedulesAssumption DEF Locks
    <3>2. lock'[s] = lock[s]
      BY <2>3, <3>1, ReleaseType DEF GivesUp, Fails, GoesOn, rowVars, TypeInv
    <3>. QED
      BY <2>2, <2>5, <3>1, <3>2, OtherSched
  <2>. QED
    BY <2>2, <2>4, <2>5
<1>7. ASSUME NEW r \in Requests, DeleteRefresh(r) \/ DeleteSync(r) PROVE SchedInv'
  BY <1>7, <1>j, DisableSched DEF DeleteRefresh, DeleteSync, At
<1>8. ASSUME NEW r \in Requests, RpcError(r) \/ Rollback(r) PROVE SchedInv'
  <2>1. PICK s \in Sources : req[r].source = s
    BY <1>8, <1>j DEF RpcError, Rollback, At
  <2>2. StepOn(r, s) /\ s \in hurt' /\ req[r] # Idle
    BY <1>8, <2>1, RequestStepOn DEF RpcError, Rollback, At
  <2>3. \/ req'[r] = Idle
        \/ req'[r].pc \in {"create_refresh", "commit"} /\ req[r].op = "patch"
        \/ req'[r].pc = "create_refresh"
    <3>1. \/ Fails(r)
          \/ Goto(r, "commit") /\ req[r].op = "patch"
          \/ Goto(r, "create_refresh")
      BY <1>8 DEF RpcError, Rollback
    <3>. QED
      BY <2>2, <3>1, ReleaseType, GotoType DEF Fails, TypeInv, Pcs
  <2>4. Doing(r, "ensure")' => Ensured(r, s)'
    BY <2>2, <2>3 DEF Doing, Ensured, StepOn
  <2>. QED
    BY <2>2, <2>4, StepSched
<1>9. CASE Crash
  <2>1. /\ UNCHANGED <<row, refresh, sync>> /\ \A x \in Sources : lock'[x] = Off
        /\ \A r \in Requests : req'[r] = Idle
        /\ \A x \in Sources \ hurt' : /\ x \notin hurt
                                     /\ \A r \in Requests :
                                          req[r] # Idle => req[r].source # x
    BY <1>9 DEF Crash, schedVars
  <2>2. ASSUME NEW x \in Sources \ hurt' PROVE Kept(x)'
    <3>1. Kept(x) /\ lock[x] = Off /\ ~Purging(x)
      BY <2>1, <2>2 DEF SchedInv, Locks, Purging, Doing
    <3>. QED
      BY <2>1, <2>2, <3>1 DEF Kept, Follows, Scheduled, NotScheduled
  <2>. QED
    BY <2>1, <2>2 DEF SchedInv, Doing
<1>10. CASE Started
  BY <1>10 DEF Started, SchedInv, Kept, Purging, Patched, Created, Ensured, Follows,
               Scheduled, NotScheduled, Doing, rowVars, schedVars
<1>11. CASE UNCHANGED vars
  BY <1>11 DEF vars, SchedInv, Kept, Purging, Patched, Created, Ensured, Follows,
               Scheduled, NotScheduled, Doing
<1>. QED
  BY <1>1, <1>2, <1>3, <1>4, <1>5, <1>6, <1>7, <1>8, <1>9, <1>10, <1>11
     DEF Next, RequestStep

LEMMA IInvFollows == IInv => SchedulesFollowRow
<1>. SUFFICES ASSUME IInv, NEW s \in Sources \ hurt, row[s] # Off, On(s) = {}
              PROVE  IF row[s] = 0 THEN NotScheduled(s) ELSE Scheduled(s, row[s])
  BY DEF SchedulesFollowRow
<1>1. \A r \in Requests : req[r] # Idle => req[r].source # s
  BY DEF On
<1>2. lock[s] = Off /\ ~Purging(s)
  BY <1>1 DEF IInv, Locks, Purging, Doing
<1>. QED
  BY <1>2 DEF IInv, SchedInv, Kept, Follows

\* However requests on a source overlap, and whichever of them fail, its
\* schedules follow its row again when the last one has ended, unless a fault or
\* an overtaken purge has spoilt the source (bootassets and temporal handlers).
THEOREM SchedulesFollow == Spec => []SchedulesFollowRow
<1>1. Init => IInv
  BY InitTypeInv, InitLocks DEF IInv
<1>2. IInv /\ [Next]_vars => IInv'
  BY NextTypeInv, NextLocks, NextFresh, NextSchedInv DEF IInv
<1>. QED
  BY <1>1, <1>2, IInvFollows, PTL DEF Spec
=============================================================================

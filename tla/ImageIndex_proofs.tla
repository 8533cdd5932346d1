-------------------------- MODULE ImageIndex_proofs --------------------------
(***************************************************************************)
(* Theorems about ImageIndex, for every set of sources, priorities,        *)
(* versions and requests.                                                  *)
(***************************************************************************)
EXTENDS ImageIndex, TLAPS

-----------------------------------------------------------------------------
(* Types.                                                                  *)

\* A request that is open changes something.
Carries == \A r \in Requests : req[r] # Idle => req[r].change \in Changes

TypeInv == TypeOK /\ Carries

LEMMA ViewsType ==
  ASSUME NEW pr, NEW as PROVE Views(pr, as) \subseteq Entries \cup {None}
  BY DEF Views

LEMMA RowType ==
  ASSUME NEW row \in AssetRows \cup {None}, NEW c
  PROVE  RowAfter(row, c) \in AssetRows \cup {None}
<1>1. CASE row = None \/ c.op = "purge"
  BY <1>1 DEF RowAfter
<1>2. CASE ~(row = None \/ c.op = "purge")
  <2>1. row.versions \subseteq Versions /\ row.synced \subseteq Versions
    BY <1>2 DEF AssetRows
  <2>2. CASE c.op = "sync"
    BY <1>2, <2>1, <2>2 DEF RowAfter, AssetRows
  <2>3. CASE c.op = "unsync"
    BY <1>2, <2>1, <2>3 DEF RowAfter, AssetRows
  <2>4. CASE c.op = "remove"
    BY <1>2, <2>1, <2>4 DEF RowAfter, AssetRows
  <2>5. CASE c.op \notin {"sync", "unsync", "remove"}
    BY <1>2, <2>5 DEF RowAfter
  <2>6. QED
    BY <2>2, <2>3, <2>4, <2>5
<1>3. QED
  BY <1>1, <1>2

LEMMA ChangeType ==
  ASSUME ImageIndexAssumption, TypeOK, NEW c \in Changes
  PROVE  /\ PriorityAfter(c) \in [Sources -> Priorities]
         /\ AssetAfter(c) \in [Sources -> AssetRows \cup {None}]
<1>1. PriorityAfter(c) \in [Sources -> Priorities]
  <2>1. CASE c.op = "prioritise"
    <3>1. c.arg \in Priorities
      BY <2>1 DEF Changes
    <3>2. QED
      BY <2>1, <3>1 DEF PriorityAfter, TypeOK
  <2>2. QED
    BY <2>1 DEF PriorityAfter, TypeOK
<1>2. CASE c.op \in {"prioritise", "refresh"}
  BY <1>1, <1>2 DEF AssetAfter, TypeOK
<1>3. CASE c.op \notin {"prioritise", "refresh"}
  <2>1. c.source \in Sources
    BY <1>3 DEF Changes
  <2>2. RowAfter(asset[c.source], c) \in AssetRows \cup {None}
    BY <2>1, RowType DEF TypeOK
  <2>3. AssetAfter(c) = [asset EXCEPT ![c.source] = RowAfter(asset[c.source], c)]
    BY <1>3 DEF AssetAfter
  <2>4. QED
    BY <1>1, <2>2, <2>3 DEF TypeOK
<1>4. QED
  BY <1>2, <1>3

LEMMA InitType == ASSUME Init PROVE TypeInv
  BY DEF Init, TypeInv, TypeOK, Carries, Idle, RequestStates

LEMMA StaleType ==
  ASSUME NEW q \in RequestStates PROVE [q EXCEPT !.stale = TRUE] \in RequestStates
  BY DEF RequestStates

LEMMA StepType ==
  ASSUME ImageIndexAssumption, TypeInv, [Next]_vars PROVE TypeInv'
<1> USE DEF TypeInv
<1>1. CASE UNCHANGED vars
  BY <1>1 DEF vars, TypeOK, Carries
<1>2. Idle \in RequestStates
  BY DEF Idle, RequestStates
<1>3. ASSUME NEW s \in Sources, NEW v \in Versions, PutAsset(s, v) PROVE TypeInv'
  <2>1. req' \in [Requests -> RequestStates]
    BY <1>2, <1>3, StaleType DEF PutAsset, TypeOK
  <2>2. (IF asset[s] = None THEN [versions |-> {v}, synced |-> {}]
         ELSE [versions |-> asset[s].versions \cup {v}, synced |-> asset[s].synced])
            \in AssetRows \cup {None}
    BY DEF TypeOK, AssetRows
  <2>3. asset' \in [Sources -> AssetRows \cup {None}]
    BY <1>3, <2>2 DEF PutAsset, TypeOK
  <2>4. Carries'
    BY <1>3 DEF PutAsset, Carries, Idle, RequestStates, TypeOK
  <2>5. QED
    BY <1>3, <2>1, <2>3, <2>4 DEF PutAsset, TypeOK
<1>4. ASSUME NEW r \in Requests, NEW c \in Changes, Refresh(r, c) PROVE TypeInv'
  <2>1. PICK e \in Views(PriorityAfter(c), AssetAfter(c)) :
           req' = [req EXCEPT ![r] = [change |-> c, entry |-> e, stale |-> FALSE]]
    BY <1>4 DEF Refresh, Refreshing
  <2>2. [change |-> c, entry |-> e, stale |-> FALSE] \in RequestStates
    BY ViewsType DEF RequestStates
  <2>3. Carries'
    BY <2>1 DEF Carries, TypeOK
  <2>4. QED
    BY <1>4, <2>1, <2>2, <2>3 DEF Refresh, Refreshing, TypeOK
<1>5. ASSUME NEW r \in Requests, Commit(r) PROVE TypeInv'
  <2>1. req[r].change \in Changes
    BY <1>5 DEF Commit, Carries
  <2>2. req' \in [Requests -> RequestStates]
    BY <1>2, <1>5, StaleType DEF Commit, TypeOK
  <2>3. /\ req[r].entry \in Entries \cup {None}
        /\ req[r].stale \in BOOLEAN
    BY DEF TypeOK, RequestStates
  <2>4. Carries'
    BY <1>5 DEF Commit, Carries, Idle, RequestStates, TypeOK
  <2>5. QED
    BY <1>5, <2>1, <2>2, <2>3, <2>4, ChangeType DEF Commit, TypeOK
<1>6. ASSUME NEW r \in Requests, Abort(r) PROVE TypeInv'
  BY <1>2, <1>6 DEF Abort, TypeOK, Carries
<1>7. QED
  BY <1>1, <1>3, <1>4, <1>5, <1>6 DEF Next

-----------------------------------------------------------------------------
(* The index follows the rows.                                             *)

\* A request that nothing has been committed beside has computed the view of
\* the rows as its own commit will leave them.
Computed ==
    \A r \in Requests :
        req[r] # Idle /\ ~req[r].stale =>
            req[r].entry \in Views(PriorityAfter(req[r].change),
                                   AssetAfter(req[r].change))

IndexInv == TypeInv /\ Computed /\ IndexIsCurrent /\ OfferedIsStored

\* What an entry says of a version is what the rows say.
LEMMA EntryIsTrue ==
  ASSUME NEW pr, NEW as, NEW e \in Views(pr, as), e # None
  PROVE  as[e.source] # None /\ (e.synced <=> e.version \in as[e.source].synced)
<1>1. /\ e.source \in Top(pr, as)
      /\ e = Entry(e.source, e.version, as[e.source])
  BY DEF Views
<1>2. as[e.source] # None
  BY <1>1 DEF Top
<1>3. Entry(e.source, e.version, as[e.source]).synced
        <=> e.version \in as[e.source].synced
  BY DEF Entry
<1>4. QED
  BY <1>1, <1>2, <1>3, Zenon

LEMMA IndexStep ==
  ASSUME ImageIndexAssumption, IndexInv, [Next]_vars PROVE IndexInv'
<1> USE DEF IndexInv, TypeInv
<1>1. TypeInv'
  BY StepType
<1>2. CASE UNCHANGED vars
  BY <1>1, <1>2 DEF vars, Computed, IndexIsCurrent, OfferedIsStored, Served,
                    PriorityAfter, AssetAfter
<1>3. ASSUME NEW s \in Sources, NEW v \in Versions, PutAsset(s, v) PROVE IndexInv'
  <2>1. UNCHANGED <<priority, view, crossed>> /\ unlisted'
    BY <1>3 DEF PutAsset
  <2>2. Computed'
    BY <1>3 DEF PutAsset, Computed, Idle, RequestStates, TypeOK
  <2> DEFINE listed == IF asset[s] = None THEN [versions |-> {v}, synced |-> {}]
                       ELSE [versions |-> asset[s].versions \cup {v},
                             synced |-> asset[s].synced]
  <2>3. \A t \in Sources : asset[t] # None =>
            asset'[t] # None /\ asset'[t].synced = asset[t].synced
    <3>1. asset' = [asset EXCEPT ![s] = listed]
      BY <1>3 DEF PutAsset
    <3>2. listed \in AssetRows
      BY DEF TypeOK, AssetRows
    <3>3. None \notin AssetRows
      BY DEF ImageIndexAssumption
    <3>4. asset[s] # None => listed.synced = asset[s].synced
      OBVIOUS
    <3>5. QED
      BY <3>1, <3>2, <3>3, <3>4 DEF TypeOK
  <2>4. OfferedIsStored'
    BY <2>1, <2>3 DEF OfferedIsStored, Served, TypeOK, Entries
  <2>5. QED
    BY <1>1, <2>1, <2>2, <2>4 DEF IndexIsCurrent
<1>4. ASSUME NEW r \in Requests, NEW c \in Changes, Refresh(r, c) PROVE IndexInv'
  <2>1. UNCHANGED <<priority, asset, view, unlisted, crossed>>
    BY <1>4 DEF Refresh, Refreshing
  <2>2. PICK e \in Views(PriorityAfter(c), AssetAfter(c)) :
           req' = [req EXCEPT ![r] = [change |-> c, entry |-> e, stale |-> FALSE]]
    BY <1>4 DEF Refresh, Refreshing
  <2>3. \A d : PriorityAfter(d)' = PriorityAfter(d) /\ AssetAfter(d)' = AssetAfter(d)
    BY <2>1 DEF PriorityAfter, AssetAfter
  <2>4. Computed'
    BY <2>2, <2>3 DEF Computed, TypeOK
  <2>5. IndexIsCurrent' /\ OfferedIsStored'
    BY <2>1 DEF IndexIsCurrent, OfferedIsStored, Served
  <2>6. QED
    BY <1>1, <2>4, <2>5
<1>5. ASSUME NEW r \in Requests, Commit(r) PROVE IndexInv'
  <2> DEFINE q == req[r]
  <2>1. /\ q # Idle
        /\ priority' = PriorityAfter(q.change) /\ asset' = AssetAfter(q.change)
        /\ view' = q.entry /\ crossed' = q.stale /\ unlisted' = (unlisted /\ q.stale)
    BY <1>5 DEF Commit
  <2>2. Computed'
    BY <1>5 DEF Commit, Computed, Idle, RequestStates, TypeOK
  <2>3. ~q.stale => view' \in Views(priority', asset')
    BY <2>1 DEF Computed
  <2>4. IndexIsCurrent'
    BY <2>1, <2>3 DEF IndexIsCurrent
  <2>5. ~q.stale => \A e \in Served' : asset'[e.source] # None
                                     /\ e.version \in asset'[e.source].synced
    BY <2>3, EntryIsTrue DEF Served
  <2>6. OfferedIsStored'
    BY <2>1, <2>5 DEF OfferedIsStored
  <2>7. QED
    BY <1>1, <2>2, <2>4, <2>6
<1>6. ASSUME NEW r \in Requests, Abort(r) PROVE IndexInv'
  <2>1. UNCHANGED <<priority, asset, view, unlisted, crossed>>
    BY <1>6 DEF Abort
  <2>2. \A d : PriorityAfter(d)' = PriorityAfter(d) /\ AssetAfter(d)' = AssetAfter(d)
    BY <2>1 DEF PriorityAfter, AssetAfter
  <2>3. Computed'
    BY <1>6, <2>2 DEF Abort, Computed, TypeOK
  <2>4. IndexIsCurrent' /\ OfferedIsStored'
    BY <2>1 DEF IndexIsCurrent, OfferedIsStored, Served
  <2>5. QED
    BY <1>1, <2>3, <2>4
<1>7. QED
  BY <1>2, <1>3, <1>4, <1>5, <1>6 DEF Next

LEMMA IndexInit == ASSUME Init PROVE IndexInv
<1>1. Top(priority, asset) = {}
  BY DEF Init, Top
<1>2. IndexIsCurrent /\ OfferedIsStored
  BY <1>1 DEF Init, IndexIsCurrent, OfferedIsStored, Views, Served
<1>3. QED
  BY <1>2, InitType DEF Init, IndexInv, Computed

\* Rows, view and requests are well typed.
THEOREM IndexTypeCorrect == ASSUME ImageIndexAssumption PROVE Spec => []TypeOK
<1>1. TypeInv => TypeOK
  BY DEF TypeInv
<1>2. QED
  BY <1>1, InitType, StepType, PTL DEF Spec

\* The view is that of the rows, but for what was listed without a refresh or
\* committed while the last refresh waited.
THEOREM IndexFollowsRows == ASSUME ImageIndexAssumption PROVE Spec => []IndexIsCurrent
<1>1. IndexInv => IndexIsCurrent
  BY DEF IndexInv
<1>2. QED
  BY <1>1, IndexInit, IndexStep, PTL DEF Spec

\* What the view offers is stored, with the same exception.
THEOREM OfferedExists == ASSUME ImageIndexAssumption PROVE Spec => []OfferedIsStored
<1>1. IndexInv => OfferedIsStored
  BY DEF IndexInv
<1>2. QED
  BY <1>1, IndexInit, IndexStep, PTL DEF Spec
=============================================================================

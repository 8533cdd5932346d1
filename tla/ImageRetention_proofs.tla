----------------------- MODULE ImageRetention_proofs -----------------------
(***************************************************************************)
(* Theorems about ImageRetention, for every set of versions, every pair of *)
(* limits, and whatever upstream and the users do.                         *)
(***************************************************************************)
EXTENDS ImageRetention, FiniteSetTheorems, TLAPS

-----------------------------------------------------------------------------
(* Types, and what the index serves.                                       *)

RetentionInv == TypeOK /\ IndexServesStored

LEMMA InitRetentionInv == Init => RetentionInv
<1>. SUFFICES ASSUME Init PROVE RetentionInv
  OBVIOUS
<1>1. snap \in [have : SUBSET Versions, fresh : SUBSET Versions,
                complete : SUBSET Versions]
  BY DEF Init, NoSnap
<1>. QED
  BY <1>1 DEF Init, RetentionInv, TypeOK, IndexServesStored

\* Deleting rows refreshes the view in the same transaction.
LEMMA DeleteRowsKeeps ==
    ASSUME TypeOK, NEW gone, DeleteRows(gone)
    PROVE  /\ have' \in SUBSET Versions
           /\ fresh' \in SUBSET have'
           /\ complete' \in SUBSET have'
           /\ index' \in SUBSET complete'
BY DEF TypeOK, DeleteRows, Served, Greatest

LEMMA NextRetentionInv == RetentionInv /\ [Next]_vars => RetentionInv'
<1>. SUFFICES ASSUME RetentionInv, [Next]_vars PROVE RetentionInv'
  OBVIOUS
<1>. USE ImageRetentionAssumption
     DEF RetentionInv, TypeOK, IndexServesStored, rowVars, syncVars, staleVars
<1>1. CASE UpstreamChanges
  BY <1>1 DEF UpstreamChanges
<1>2. ASSUME NEW v \in Versions, DownloadVersion(v) PROVE RetentionInv'
  BY <1>2 DEF DownloadVersion, Served, Greatest
<1>3. CASE SyncFetch
  BY <1>3 DEF SyncFetch, Greatest
<1>4. CASE SyncPut
  BY <1>4 DEF SyncPut
<1>5. CASE SyncEnd
  BY <1>5 DEF SyncEnd
<1>6. CASE SyncGivesUp
  BY <1>6 DEF SyncGivesUp
<1>7. CASE GetVersions
  BY <1>7 DEF GetVersions
<1>8. CASE GetLastSync
  BY <1>8 DEF GetLastSync
<1>9. CASE RemoveStale
  <2>1. UNCHANGED rowVars \/ \E gone : DeleteRows(gone)
    BY <1>9 DEF RemoveStale
  <2>2. /\ have' \in SUBSET Versions
        /\ fresh' \in SUBSET have'
        /\ complete' \in SUBSET have'
        /\ index' \in SUBSET complete'
    BY <2>1, DeleteRowsKeeps
  <2>. QED
    BY <1>9, <2>2 DEF RemoveStale, StaleDone, NoSnap
<1>10. CASE StaleGivesUp
  BY <1>10 DEF StaleGivesUp, StaleDone, NoSnap
<1>11. ASSUME NEW v \in Versions, RemoveVersion(v) PROVE RetentionInv'
  <2>1. \E gone : DeleteRows(gone)
    BY <1>11 DEF RemoveVersion
  <2>. QED
    BY <1>11, <2>1, DeleteRowsKeeps DEF RemoveVersion
<1>12. CASE PurgeSource
  BY <1>12, DeleteRowsKeeps DEF PurgeSource
<1>13. CASE RefreshIndex
  BY <1>13 DEF RefreshIndex, Served, Greatest
<1>14. CASE Deselect
  BY <1>14, DeleteRowsKeeps DEF Deselect
<1>15. CASE UNCHANGED vars
  BY <1>15 DEF vars
<1>. QED
  BY <1>1, <1>2, <1>3, <1>4, <1>5, <1>6, <1>7, <1>8, <1>9, <1>10, <1>11,
     <1>12, <1>13, <1>14, <1>15 DEF Next, System

\* Type correctness; the fresh and the complete versions have rows.
THEOREM RetentionTypeCorrect == Spec => []TypeOK
<1>1. RetentionInv => TypeOK
  BY DEF RetentionInv
<1>. QED
  BY <1>1, InitRetentionInv, NextRetentionInv, PTL DEF Spec

\* Whatever syncs, cleanups, downloads and users do at once, the index never
\* serves a version that was removed or has items to download.
THEOREM IndexIsSound == Spec => []IndexServesStored
<1>1. RetentionInv => IndexServesStored
  BY DEF RetentionInv
<1>. QED
  BY <1>1, InitRetentionInv, NextRetentionInv, PTL DEF Spec

-----------------------------------------------------------------------------
(* The cleanup.                                                            *)

\* Sorting and cutting leaves no more than n versions: each has a number of
\* its own of greater ones, below n.
LEMMA GreatestBound ==
    ASSUME NEW S \in SUBSET Versions, NEW n \in Nat
    PROVE  IsFiniteSet(Greatest(S, n)) /\ Cardinality(Greatest(S, n)) <= n
<1>. DEFINE Above(v) == {w \in S : w > v}
            G == Greatest(S, n)
            f == [v \in G |-> Cardinality(Above(v))]
<1>1. IsFiniteSet(S) /\ S \subseteq Nat
  BY FS_Subset, ImageRetentionAssumption
<1>2. \A v \in G : IsFiniteSet(Above(v)) /\ Cardinality(Above(v)) \in 0..n-1
  <2>. SUFFICES ASSUME NEW v \in G
                PROVE  IsFiniteSet(Above(v)) /\ Cardinality(Above(v)) \in 0..n-1
    OBVIOUS
  <2>1. IsFiniteSet(Above(v))
    BY <1>1, FS_Subset
  <2>2. Cardinality(Above(v)) \in Nat
    BY <2>1, FS_CardinalityType
  <2>3. Cardinality(Above(v)) < n
    BY DEF Greatest
  <2>. QED
    BY <2>1, <2>2, <2>3
<1>3. ASSUME NEW v \in G, NEW w \in G, v < w
      PROVE  Cardinality(Above(v)) # Cardinality(Above(w))
  <2>1. v \in Nat /\ w \in S /\ w \in Nat
    BY <1>1 DEF Greatest
  <2>2. Above(w) \in SUBSET Above(v)
    <3>. SUFFICES ASSUME NEW x \in S, x > w PROVE x > v
      OBVIOUS
    <3>1. x \in Nat
      BY <1>1
    <3>. QED
      BY <1>3, <2>1, <3>1
  <2>3. w \in Above(v) /\ w \notin Above(w)
    BY <1>3, <2>1
  <2>. QED
    BY <1>2, <2>2, <2>3, FS_Subset
<1>4. f \in Injection(G, 0..n-1)
  <2>1. f \in [G -> 0..n-1]
    BY <1>2
  <2>2. ASSUME NEW v \in G, NEW w \in G, f[v] = f[w] PROVE v = w
    <3>1. v \in Nat /\ w \in Nat
      BY <1>1 DEF Greatest
    <3>2. ~(v < w) /\ ~(w < v)
      BY <1>3, <2>2
    <3>. QED
      BY <3>1, <3>2
  <2>. QED
    BY <2>1, <2>2 DEF Injection, IsInjective
<1>5. IsFiniteSet(0..n-1) /\ Cardinality(0..n-1) = n
  BY FS_Interval
<1>. QED
  BY <1>4, <1>5, FS_Injection

\* A set of versions that a sync may have listed.
Bounded(S) == S \in SUBSET Versions /\ Cardinality(S) <= UpstreamKeep

\* What was listed stays bounded in every place that it is copied to, and the
\* cleanup has read it together with the rows.
BoundInv ==
    /\ RetentionInv
    /\ Bounded(syncList) /\ Bounded(fresh) /\ Bounded(snap.fresh)
    /\ snap.complete \subseteq snap.have

LEMMA BoundedSubset ==
    ASSUME NEW S, Bounded(S), NEW T \in SUBSET S PROVE Bounded(T)
<1>1. IsFiniteSet(S)
  BY FS_Subset, ImageRetentionAssumption DEF Bounded
<1>2. IsFiniteSet(T) /\ Cardinality(T) <= Cardinality(S)
  BY <1>1, FS_Subset
<1>3. Cardinality(T) \in Nat /\ Cardinality(S) \in Nat
  BY <1>1, <1>2, FS_CardinalityType
<1>. QED
  BY <1>2, <1>3, ImageRetentionAssumption DEF Bounded

LEMMA EmptyBounded == Bounded({})
BY FS_EmptySet, ImageRetentionAssumption DEF Bounded

LEMMA InitBoundInv == Init => BoundInv
BY InitRetentionInv, EmptyBounded DEF Init, BoundInv, NoSnap

LEMMA NextBoundInv == BoundInv /\ [Next]_vars => BoundInv'
<1>. SUFFICES ASSUME BoundInv, [Next]_vars
              PROVE  /\ Bounded(syncList') /\ Bounded(fresh')
                     /\ Bounded(snap'.fresh)
                     /\ snap'.complete \subseteq snap'.have
  BY NextRetentionInv DEF BoundInv, Bounded
<1>. DEFINE P == /\ Bounded(syncList') /\ Bounded(fresh')
                 /\ Bounded(snap'.fresh)
                 /\ snap'.complete \subseteq snap'.have
<1>. USE DEF BoundInv, rowVars, syncVars, staleVars
<1>1. ASSUME UNCHANGED <<fresh, syncList, snap>> PROVE P
  BY <1>1
<1>2. ASSUME NEW gone, DeleteRows(gone) PROVE Bounded(fresh')
  BY <1>2, BoundedSubset DEF DeleteRows
<1>3. ASSUME NEW v \in Versions, DownloadVersion(v) PROVE P
  BY <1>1, <1>3 DEF DownloadVersion
<1>4. CASE SyncFetch
  <2>1. Bounded(syncList')
    BY <1>4, GreatestBound, ImageRetentionAssumption
       DEF SyncFetch, Bounded, Greatest, RetentionInv, TypeOK
  <2>. QED
    BY <1>4, <2>1 DEF SyncFetch
<1>5. CASE SyncPut
  BY <1>5 DEF SyncPut
<1>6. CASE SyncEnd \/ SyncGivesUp
  BY <1>6, EmptyBounded DEF SyncEnd, SyncGivesUp
<1>7. CASE GetVersions
  BY <1>7 DEF GetVersions, RetentionInv, TypeOK
<1>8. CASE GetLastSync \/ UpstreamChanges \/ RefreshIndex \/ UNCHANGED vars
  BY <1>1, <1>8 DEF GetLastSync, UpstreamChanges, RefreshIndex, vars
<1>9. CASE RemoveStale
  <2>1. Bounded(fresh')
    BY <1>2, <1>9 DEF RemoveStale
  <2>. QED
    BY <1>9, <2>1, EmptyBounded DEF RemoveStale, StaleDone, NoSnap
<1>10. CASE StaleGivesUp
  BY <1>10, EmptyBounded DEF StaleGivesUp, StaleDone, NoSnap
<1>11. ASSUME NEW v \in Versions, RemoveVersion(v) PROVE P
  BY <1>2, <1>11 DEF RemoveVersion
<1>12. CASE PurgeSource \/ Deselect
  BY <1>2, <1>12 DEF PurgeSource, Deselect
<1>. QED
  BY <1>3, <1>4, <1>5, <1>6, <1>7, <1>8, <1>9, <1>10, <1>11, <1>12 DEF Next, System

\* As long as a sync lists no more versions than a cleanup keeps, nothing that
\* is listed is beyond the limit.
LEMMA NothingBeyond ==
    ASSUME BoundInv, UpstreamKeep <= VersionsToKeep, ~putSince,
           NEW excess \in BeyondLimit
    PROVE  excess = {}
<1>. DEFINE whole == snap.complete \ RemovedFromUpstream
<1>1. whole \in SUBSET snap.fresh
  BY DEF BoundInv, RemovedFromUpstream
<1>2. Bounded(whole)
  BY <1>1, BoundedSubset DEF BoundInv
<1>3. IsFiniteSet(whole) /\ Cardinality(whole) \in Nat
  BY <1>2, FS_Subset, FS_CardinalityType, ImageRetentionAssumption DEF Bounded
<1>4. ~(Cardinality(whole) > VersionsToKeep)
  BY <1>2, <1>3, ImageRetentionAssumption DEF Bounded
<1>5. excess \in SUBSET whole /\ Cardinality(excess) = 0
  BY <1>4 DEF BeyondLimit
<1>6. IsFiniteSet(excess)
  BY <1>3, <1>5, FS_Subset
<1>. QED
  BY <1>5, <1>6, FS_EmptySet

\* When the limit of the cleanup is no less than that of the sync, a cleanup
\* that no sync falls into keeps all that the sync has listed, but for what the
\* lookup of a withdrawn version may find instead of it.
THEOREM CleanupIsSafe ==
    ASSUME UpstreamKeep <= VersionsToKeep
    PROVE  Spec => CleanupKeepsLatest
<1>. DEFINE Found(v) == \E w \in snap.have \ fresh : v \in Like[w]
<1>1. ASSUME BoundInv, RemoveStale, ~putSince, fresh = snap.fresh,
             NEW v \in fresh \ have'
      PROVE  Found(v)
  <2>1. v \in have
    BY <1>1 DEF BoundInv, RetentionInv, TypeOK
  <2>2. PICK excess \in BeyondLimit :
          LET req == RemovedFromUpstream \cup excess
          IN  IF req = {} THEN UNCHANGED rowVars
              ELSE \E gone \in Removable(req) : DeleteRows(gone)
    BY <1>1 DEF RemoveStale
  <2>. DEFINE req == RemovedFromUpstream \cup excess
  <2>3. req = snap.have \ fresh
    BY <1>1, <2>2, NothingBeyond DEF RemovedFromUpstream
  <2>4. PICK gone \in Removable(req) : DeleteRows(gone)
    BY <1>1, <2>1, <2>2 DEF rowVars
  <2>5. PICK pick \in [req -> gone] :
          /\ \A w \in req : pick[w] \in Like[w]
          /\ gone = {pick[w] : w \in req}
    BY <2>4 DEF Removable
  <2>6. v \in gone
    BY <1>1, <2>1, <2>4 DEF DeleteRows
  <2>7. PICK w \in req : v = pick[w]
    BY <2>5, <2>6
  <2>. QED
    BY <2>3, <2>5, <2>7
<1>2. BoundInv /\ [Next]_vars =>
        [RemoveStale /\ ~putSince /\ fresh = snap.fresh
           => \A v \in fresh \ have' : Found(v)]_vars
  BY <1>1
<1>. QED
  BY <1>2, InitBoundInv, NextBoundInv, PTL DEF Spec, CleanupKeepsLatest
=============================================================================

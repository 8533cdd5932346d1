---------------------- MODULE WorkerCredentials_proofs ----------------------
(***************************************************************************)
(* Theorems about WorkerCredentials, for every set of sources and tokens,  *)
(* any faults, and any durations for which the property can hold.          *)
(***************************************************************************)
EXTENDS WorkerCredentials, TLAPS

-----------------------------------------------------------------------------
(* Types.                                                                  *)

\* Only a token is ever written to the schedule of the refresh.
TypeInv == TypeOK /\ jwt[Own] # Blank

LEMMA InitType == Init => TypeInv
<1> SUFFICES ASSUME Init PROVE TypeInv
  OBVIOUS
<1> USE WorkerCredentialsAssumption DEF Init
<1>1. /\ now \in 0..MaxTime /\ faults \in 0..MaxFaults /\ known \in SUBSET Tokens
      /\ expiry \in [Tokens -> 0..(MaxTime + Duration)]
  OBVIOUS
<1>2. /\ jwt \in [Schedules -> Tokens \cup {None, Blank}]
      /\ jwt[Own] # Blank
      /\ setting \in [Sources -> Tokens \cup {None, Blank}]
  BY DEF Schedules
<1>3. tx \in [op : {"none", "rotate", "start"}, made : Tokens \cup {None},
              gone : SUBSET Tokens, left : SUBSET Schedules]
  BY DEF NoTx
<1>4. run \in [token : Tokens \cup {None}, left : 0..RunTime, newest : BOOLEAN]
  BY DEF NoRun
<1>5. QED
  BY <1>1, <1>2, <1>3, <1>4 DEF TypeInv, TypeOK

LEMMA WrittenType == TypeInv => \A s \in Schedules : Written(s) \subseteq Tokens
  BY DEF TypeInv, TypeOK, Written, Longest, Valid

LEMMA BeginType ==
  ASSUME TypeInv, NEW op \in {"rotate", "start"}, NEW S \in SUBSET Schedules,
         NEW needed \in BOOLEAN, Begin(op, S, needed)
  PROVE  TypeInv'
<1>1. Gone \in SUBSET Tokens
  BY DEF Gone, Expired, TypeInv, TypeOK
<1>2. now + Duration \in 0..(MaxTime + Duration)
  BY WorkerCredentialsAssumption DEF TypeInv, TypeOK
<1>3. CASE needed
  <2>1. PICK t \in Unheld :
          /\ expiry' = [u \in Tokens |-> IF u = t THEN now + Duration
                                          ELSE IF u \in Unheld THEN 0 ELSE expiry[u]]
          /\ tx' = [op |-> op, made |-> t, gone |-> Gone, left |-> S]
    BY <1>3 DEF Begin
  <2>2. t \in Tokens
    BY DEF Unheld
  <2>3. expiry' \in [Tokens -> 0..(MaxTime + Duration)]
    BY <2>1, <1>2, WorkerCredentialsAssumption DEF TypeInv, TypeOK
  <2>4. QED
    BY <2>1, <2>2, <2>3, <1>1 DEF Begin, TypeInv, TypeOK
<1>4. CASE ~needed
  <2>1. /\ tx' = [op |-> op, made |-> None, gone |-> Gone, left |-> S]
        /\ UNCHANGED expiry
    BY <1>4 DEF Begin
  <2>2. QED
    BY <2>1, <1>1 DEF Begin, TypeInv, TypeOK
<1>5. QED
  BY <1>3, <1>4

LEMMA StepType == TypeInv /\ [Next]_vars => TypeInv'
<1> SUFFICES ASSUME TypeInv, [Next]_vars PROVE TypeInv'
  OBVIOUS
<1> USE WorkerCredentialsAssumption
<1>1. CASE UNCHANGED vars
  BY <1>1 DEF vars, TypeInv, TypeOK
<1>2. CASE Tick
  <2>1. now' \in 0..MaxTime
    BY <1>2 DEF Tick, TypeInv, TypeOK
  <2>2. refresh' \in Tokens \cup {None}
    BY <1>2 DEF Tick, TypeInv, TypeOK, Schedules
  <2>3. run' \in [token : Tokens \cup {None}, left : 0..RunTime, newest : BOOLEAN]
    <3>1. CASE run = NoRun
      BY <1>2, <3>1 DEF Tick, TypeInv, TypeOK
    <3>2. CASE run # NoRun
      <4>1. run.left - 1 \in 0..RunTime /\ run' = [run EXCEPT !.left = run.left - 1]
        BY <1>2, <3>2 DEF Tick, TypeInv, TypeOK
      <4>2. QED
        BY <4>1 DEF TypeInv, TypeOK
    <3>3. QED
      BY <3>1, <3>2
  <2>4. QED
    BY <1>2, <2>1, <2>2, <2>3 DEF Tick, TypeInv, TypeOK
<1>3. CASE Rotate
  BY <1>3, BeginType DEF Rotate
<1>4. CASE Start
  <2>1. {s \in Schedules : jwt[s] # None} \cup {Own} \in SUBSET Schedules
    BY DEF Schedules
  <2>2. TokenNeeded \in BOOLEAN
    BY DEF TokenNeeded
  <2>3. QED
    BY <1>4, <2>1, <2>2, BeginType DEF Start
<1>5. CASE Refused
  BY <1>5 DEF Refused, TypeInv, TypeOK
<1>6. CASE Missed
  BY <1>6 DEF Missed, Fault, TypeInv, TypeOK
<1>7. CASE Crash
  <2>1. setting' \in [Sources -> Tokens \cup {None, Blank}]
    BY <1>7 DEF Crash
  <2>2. faults' \in 0..MaxFaults
    BY <1>7 DEF Crash, Fault, TypeInv, TypeOK
  <2>3. tx' \in [op : {"none", "rotate", "start"}, made : Tokens \cup {None},
                 gone : SUBSET Tokens, left : SUBSET Schedules]
    BY <1>7 DEF Crash, NoTx
  <2>4. QED
    BY <1>7, <2>1, <2>2, <2>3 DEF Crash, TypeInv, TypeOK
<1>8. ASSUME NEW s \in Schedules, Update(s) PROVE TypeInv'
  <2>1. PICK t \in Tokens : jwt' = [jwt EXCEPT ![s] = t]
    BY <1>8, WrittenType DEF Update
  <2>2. jwt' \in [Schedules -> Tokens \cup {None, Blank}] /\ jwt'[Own] # Blank
    BY <2>1 DEF TypeInv, TypeOK, Schedules
  <2>3. tx' = [tx EXCEPT !.left = tx.left \ {s}]
    BY <1>8 DEF Update
  <2>4. QED
    BY <1>8, <2>2, <2>3 DEF Update, TypeInv, TypeOK
<1>9. CASE Commit
  <2>1. known' \in SUBSET Tokens
    BY <1>9 DEF Commit, Made, TypeInv, TypeOK
  <2>2. late' \in {"no", "missed", "kept"}
    BY <1>9 DEF Commit, TypeInv, TypeOK
  <2>3. QED
    BY <1>9, <2>1, <2>2 DEF Commit, NoTx, TypeInv, TypeOK
<1>10. CASE Rollback
  BY <1>10 DEF Rollback, Fault, NoTx, TypeInv, TypeOK
<1>11. ASSUME NEW s \in Sources, EnableOpen(s) PROVE TypeInv'
  <2>1. PICK t \in Tokens \cup {Blank} : setting' = [setting EXCEPT ![s] = t]
    BY <1>11 DEF EnableOpen, Longest, Valid, TypeInv, TypeOK
  <2>2. QED
    BY <1>11, <2>1 DEF EnableOpen, TypeInv, TypeOK
<1>12. ASSUME NEW s \in Sources, EnableWrite(s) PROVE TypeInv'
  BY <1>12 DEF EnableWrite, TypeInv, TypeOK, Schedules
<1>13. ASSUME NEW s \in Sources, Disable(s) PROVE TypeInv'
  BY <1>13 DEF Disable, TypeInv, TypeOK, Schedules
<1>14. ASSUME NEW s \in Sources, RunStarts(s) PROVE TypeInv'
  <2>1. (late = "no" /\ jwt[s] \in Longest(Valid)) \in BOOLEAN
    OBVIOUS
  <2>2. run' \in [token : Tokens \cup {None}, left : 0..RunTime, newest : BOOLEAN]
    BY <1>14, <2>1 DEF RunStarts
  <2>3. QED
    BY <1>14, <2>2 DEF RunStarts, TypeInv, TypeOK
<1>15. CASE RunEnds
  BY <1>15 DEF RunEnds, NoRun, TypeInv, TypeOK
<1>16. QED
  BY <1>1, <1>2, <1>3, <1>4, <1>5, <1>6, <1>7, <1>8, <1>9, <1>10, <1>11, <1>12,
     <1>13, <1>14, <1>15 DEF Next

\* Tokens, schedules and workflows are well typed.
THEOREM CredentialsTypeCorrect == Spec => []TypeOK
<1>1. TypeInv => TypeOK
  BY DEF TypeInv
<1>2. QED
  BY <1>1, InitType, StepType, PTL DEF Spec

-----------------------------------------------------------------------------
(* The refresh goes on.                                                    *)

\* The row of token t is there until the next daily refresh has begun.
Lasts(t) ==
    /\ t \in known
    /\ \A d \in Nat :
         (\A u \in (now + 1)..(d - 1) : u % Interval # 0) => expiry[t] > d

\* A renewal makes a token that lasts, or keeps tokens that do, and writes one
\* to the schedule of the refresh.
Renewing ==
    /\ tx.made # None => tx.made \in Tokens /\ expiry[tx.made] = now + Duration
    /\ tx.op = "none" => tx = NoTx
    /\ tx.op = "rotate" =>
         /\ up /\ tx.made # None
         /\ refresh # None /\ Good(refresh)
    /\ tx.op = "start" =>
         /\ ~up /\ tx.gone = Expired
         /\ tx.made = None => \A t \in Valid : expiry[t] > now + Interval
    /\ tx.op # "none" /\ Own \notin tx.left =>
         IF tx.made # None THEN jwt[Own] = tx.made ELSE jwt[Own] \in Valid

\* Between two refreshes, the schedule of the refresh has a token that lasts.
OwnLasts ==
    up /\ tx = NoTx /\ late # "missed" /\ (refresh = None \/ ~Good(refresh))
        => Lasts(jwt[Own])

RefreshInv == Renewing /\ (up => jwt[Own] # None) /\ OwnLasts

LEMMA Division ==
  ASSUME NEW n \in Int, NEW k \in Int, k > 0
  PROVE  n = k * (n \div k) + (n % k)
  BY SMTT(60)

\* A day passes in every Interval units.
LEMMA DayComes ==
  ASSUME NEW n \in Nat, NEW k \in Nat, k > 0
  PROVE  \E u \in (n + 1)..(n + k) : u % k = 0
<1> DEFINE q == n \div k
           r == n % k
<1>1. q \in Nat /\ r \in 0..(k - 1)
  OBVIOUS
<1>2. n = k * q + r
  BY Division
<1> HIDE DEF q, r
<1>3. q + 1 \in Nat
  BY <1>1
<1>4. (k * (q + 1)) % k = 0
  <2>1. ASSUME NEW p \in Nat PROVE (k * p) % k = 0
    OBVIOUS
  <2>2. QED
    BY <2>1, <1>3
<1>5. k * (q + 1) = k * q + k
  BY <1>1
<1>6. k * (q + 1) \in (n + 1)..(n + k)
  BY <1>1, <1>2, <1>5
<1>7. QED
  BY <1>4, <1>6

LEMMA LongEnough ==
  ASSUME TypeInv, NEW t \in known, expiry[t] > now + Interval
  PROVE  Lasts(t)
<1> USE WorkerCredentialsAssumption
<1>1. now \in Nat /\ expiry[t] \in Nat /\ Interval \in Nat /\ Interval > 0
  BY DEF TypeInv, TypeOK
<1>2. ASSUME NEW d \in Nat, \A u \in (now + 1)..(d - 1) : u % Interval # 0
      PROVE  expiry[t] > d
  <2>1. PICK u \in (now + 1)..(now + Interval) : u % Interval = 0
    BY <1>1, DayComes
  <2>2. u \notin (now + 1)..(d - 1)
    BY <2>1, <1>2
  <2>3. QED
    BY <2>1, <2>2, <1>1
<1>3. QED
  BY <1>2 DEF Lasts

LEMMA LastsIsGood ==
  ASSUME TypeInv, NEW t, Lasts(t) PROVE Good(t) /\ expiry[t] > now + 1
<1>1. now \in Nat /\ now + 1 \in Nat
  BY WorkerCredentialsAssumption DEF TypeInv, TypeOK
<1>2. /\ (now + 1)..(now - 1) = {}
      /\ (now + 1)..((now + 1) - 1) = {}
  BY <1>1
<1>3. QED
  BY <1>1, <1>2 DEF Lasts, Good

\* What was begun is not changed by a step that leaves tokens, transaction and
\* server alone.
LEMMA SameRefresh ==
  ASSUME TypeInv, RefreshInv,
         UNCHANGED <<now, expiry, known, up, tx, late>>,
         jwt'[Own] = jwt[Own],
         refresh' = refresh \/ (tx = NoTx /\ ~Good(refresh))
  PROVE  RefreshInv'
<1>1. Valid' = Valid /\ Expired' = Expired /\ (\A t : Good(t)' <=> Good(t))
  BY DEF Valid, Expired, Good
<1>2. \A t : Lasts(t)' <=> Lasts(t)
  BY DEF Lasts
<1>3. Renewing'
  <2>1. CASE refresh' = refresh
    BY <1>1, <2>1 DEF RefreshInv, Renewing, Good
  <2>2. CASE tx = NoTx
    BY <1>1, <2>2 DEF RefreshInv, Renewing, NoTx
  <2>3. QED
    BY <2>1, <2>2
<1>4. OwnLasts'
  <2> SUFFICES ASSUME up, tx = NoTx, late # "missed" PROVE
          (refresh = None \/ ~Good(refresh))' => Lasts(jwt[Own])'
    BY DEF OwnLasts
  <2>1. (refresh = None \/ ~Good(refresh))' => refresh = None \/ ~Good(refresh)
    BY DEF Good
  <2>2. Lasts(jwt[Own])' <=> Lasts(jwt[Own])
    BY DEF Lasts
  <2>3. QED
    BY <2>1, <2>2 DEF RefreshInv, OwnLasts
<1>5. QED
  BY <1>3, <1>4 DEF RefreshInv

LEMMA BeginRefresh ==
  ASSUME TypeInv, RefreshInv, NEW op \in {"rotate", "start"},
         NEW S \in SUBSET Schedules, Own \in S, NEW needed \in BOOLEAN,
         Begin(op, S, needed),
         op = "rotate" => up /\ needed /\ refresh # None /\ Good(refresh),
         op = "start" => ~up /\ (~needed => \A t \in Valid : expiry[t] > now + Interval)
  PROVE  RefreshInv'
<1> USE WorkerCredentialsAssumption
<1>1. /\ UNCHANGED <<now, known, jwt, up, refresh, late>>
      /\ tx'.op = op /\ tx'.gone = Gone /\ tx'.left = S
      /\ needed => tx'.made \in Unheld /\ expiry'[tx'.made] = now + Duration
      /\ ~needed => tx'.made = None
  BY DEF Begin, Unheld
<1>2. \A t \in known \cup ({refresh} \cap Tokens) : expiry'[t] = expiry[t]
  <2>1. ASSUME NEW t \in known \cup ({refresh} \cap Tokens)
        PROVE  t \in Tokens /\ t \notin Unheld
    BY DEF Unheld, TypeInv, TypeOK
  <2>2. QED
    BY <2>1 DEF Begin
<1>3. Valid' = Valid /\ Expired' = Expired
  BY <1>1, <1>2 DEF Valid, Expired
<1>4. refresh # None /\ Good(refresh) => Good(refresh)'
  BY <1>1, <1>2 DEF Good
<1>5. None \notin Unheld /\ Unheld \subseteq Tokens
  BY DEF Unheld
<1>6. Renewing'
  <2>1. tx'.made # None => tx'.made \in Tokens /\ expiry'[tx'.made] = now' + Duration
    BY <1>1, <1>5
  <2>2. op = "rotate" => up' /\ tx'.made # None /\ refresh' # None /\ Good(refresh)'
    BY <1>1, <1>4, <1>5
  <2>3. op = "start" =>
          /\ ~up' /\ tx'.gone = Expired'
          /\ tx'.made = None => \A t \in Valid' : expiry'[t] > now' + Interval
    BY <1>1, <1>2, <1>3, <1>5 DEF Gone, Valid
  <2>4. QED
    BY <2>1, <2>2, <2>3, <1>1 DEF Renewing
<1>7. tx' # NoTx
  BY <1>1 DEF NoTx
<1>8. QED
  BY <1>1, <1>6, <1>7 DEF RefreshInv, OwnLasts

LEMMA UpdateRefresh ==
  ASSUME TypeInv, RefreshInv, NEW s \in Schedules, Update(s)
  PROVE  RefreshInv'
<1> USE WorkerCredentialsAssumption
<1>1. PICK t \in Written(s) : jwt' = [jwt EXCEPT ![s] = t]
  BY DEF Update
<1>2. /\ UNCHANGED <<now, expiry, known, up, refresh, late>>
      /\ tx' = [tx EXCEPT !.left = tx.left \ {s}]
      /\ s \in tx.left
  BY DEF Update
<1>3. /\ tx'.op = tx.op /\ tx'.made = tx.made /\ tx'.gone = tx.gone
      /\ tx'.left = tx.left \ {s}
  BY <1>2 DEF TypeInv, TypeOK
<1>4. tx.op # "none" /\ tx' # NoTx
  BY <1>2, <1>3 DEF RefreshInv, Renewing, NoTx
<1>5. Valid' = Valid /\ Expired' = Expired /\ (Good(refresh)' <=> Good(refresh))
  BY <1>2 DEF Valid, Expired, Good
<1>6. t \in Tokens
  BY WrittenType
<1>7. jwt'[Own] = IF s = Own THEN t ELSE jwt[Own]
  BY <1>1 DEF TypeInv, TypeOK, Schedules
<1>8. Own \notin tx'.left =>
          IF tx'.made # None THEN jwt'[Own] = tx'.made ELSE jwt'[Own] \in Valid'
  <2>1. CASE s = Own
    BY <2>1, <1>3, <1>5, <1>7 DEF Written, Longest
  <2>2. CASE s # Own
    BY <2>2, <1>3, <1>4, <1>5, <1>7 DEF RefreshInv, Renewing
  <2>3. QED
    BY <2>1, <2>2
<1>9. Renewing'
  BY <1>2, <1>3, <1>4, <1>5, <1>8 DEF RefreshInv, Renewing
<1>10. up' => jwt'[Own] # None
  BY <1>2, <1>6, <1>7 DEF RefreshInv
<1>11. QED
  BY <1>4, <1>9, <1>10 DEF RefreshInv, OwnLasts

LEMMA CommitRefresh ==
  ASSUME Duration > Interval, TypeInv, RefreshInv, Commit
  PROVE  RefreshInv'
<1> USE WorkerCredentialsAssumption
<1>1. /\ tx # NoTx /\ tx.left = {} /\ tx' = NoTx
      /\ known' = (known \ tx.gone) \cup Made
      /\ UNCHANGED <<now, expiry, jwt>>
  BY DEF Commit
<1>2. tx.op \in {"rotate", "start"}
  BY <1>1 DEF RefreshInv, Renewing, TypeInv, TypeOK
<1>3. jwt[Own] \in known' /\ expiry'[jwt[Own]] > now' + Interval
  <2>1. CASE tx.made # None
    <3>1. jwt[Own] = tx.made /\ expiry[tx.made] = now + Duration
      BY <2>1, <1>1, <1>2 DEF RefreshInv, Renewing
    <3>2. QED
      BY <3>1, <2>1, <1>1 DEF Made, TypeInv, TypeOK
  <2>2. CASE tx.made = None
    <3>1. tx.op = "start" /\ tx.gone = Expired /\ jwt[Own] \in Valid
      BY <2>2, <1>1, <1>2 DEF RefreshInv, Renewing
    <3>2. expiry[jwt[Own]] > now + Interval
      BY <3>1, <2>2 DEF RefreshInv, Renewing
    <3>3. jwt[Own] \in known \ tx.gone
      BY <3>1 DEF Valid, Expired
    <3>4. QED
      BY <3>2, <3>3, <1>1
  <2>3. QED
    BY <2>1, <2>2
<1>4. TypeInv'
  BY StepType DEF Next
<1>5. Lasts(jwt[Own])'
  <2>1. jwt'[Own] = jwt[Own]
    BY <1>1
  <2>2. \A d \in Nat : (\A u \in (now' + 1)..(d - 1) : u % Interval # 0)
                           => expiry'[jwt[Own]] > d
    <3> SUFFICES ASSUME NEW d \in Nat,
                        \A u \in (now' + 1)..(d - 1) : u % Interval # 0
                 PROVE  expiry'[jwt[Own]] > d
      OBVIOUS
    <3>1. now' \in Nat /\ expiry'[jwt[Own]] \in Nat /\ Interval \in Nat /\ Interval > 0
      BY <1>3, <1>4 DEF TypeInv, TypeOK
    <3>2. PICK u \in (now' + 1)..(now' + Interval) : u % Interval = 0
      BY <3>1, DayComes
    <3>3. u \notin (now' + 1)..(d - 1)
      BY <3>2
    <3> DEFINE n == now'
               e == expiry'[jwt[Own]]
    <3>4. e > n + Interval
      BY <1>3
    <3>5. n \in Nat /\ e \in Nat /\ u \in (n + 1)..(n + Interval) /\ u \notin (n + 1)..(d - 1)
      BY <3>1, <3>2, <3>3
    <3> HIDE DEF n, e
    <3>6. e > d
      BY <3>4, <3>5
    <3>7. QED
      BY <3>6 DEF e
  <2>3. QED
    BY <2>1, <2>2, <1>3 DEF Lasts
<1>6. Renewing'
  BY <1>1 DEF Renewing, NoTx
<1>7. jwt'[Own] # None
  BY <1>1, <1>3, <1>4 DEF TypeInv, TypeOK
<1>8. QED
  BY <1>5, <1>6, <1>7 DEF RefreshInv, OwnLasts

LEMMA TickRefresh ==
  ASSUME TypeInv, RefreshInv, Tick PROVE RefreshInv'
<1> USE WorkerCredentialsAssumption
<1>1. /\ now' = now + 1 /\ tx = NoTx /\ refresh = None
      /\ UNCHANGED <<expiry, known, jwt, up, tx, late>>
      /\ refresh' = IF now' % Interval = 0 THEN jwt[Own] ELSE None
  BY DEF Tick
<1>2. Renewing'
  BY <1>1 DEF Renewing, NoTx
<1>3. ASSUME up', late' # "missed", (refresh = None \/ ~Good(refresh))'
      PROVE  Lasts(jwt[Own])'
  <2>1. Lasts(jwt[Own])
    BY <1>1, <1>3 DEF RefreshInv, OwnLasts
  <2>2. jwt[Own] \in known /\ expiry[jwt[Own]] > now + 1
    BY <2>1, LastsIsGood DEF Good
  <2>3. now' % Interval # 0
    BY <2>2, <1>1, <1>3 DEF Good, TypeInv, TypeOK
  <2>4. ASSUME NEW d \in Nat, \A u \in (now' + 1)..(d - 1) : u % Interval # 0
        PROVE  expiry[jwt[Own]] > d
    <3>1. ASSUME NEW u \in (now + 1)..(d - 1) PROVE u % Interval # 0
      <4>1. now \in Nat
        BY DEF TypeInv, TypeOK
      <4>2. CASE u = now + 1
        BY <4>2, <2>3, <1>1
      <4>3. CASE u # now + 1
        <5>1. u \in (now' + 1)..(d - 1)
          BY <4>1, <4>3, <1>1
        <5>2. QED
          BY <5>1, <2>4
      <4>4. QED
        BY <4>2, <4>3
    <3>2. QED
      BY <3>1, <2>1 DEF Lasts
  <2>5. QED
    BY <2>2, <2>4, <1>1 DEF Lasts
<1>4. QED
  BY <1>1, <1>2, <1>3 DEF RefreshInv, OwnLasts

LEMMA RefreshStep ==
  ASSUME Duration > Interval, TypeInv, RefreshInv, [Next]_vars
  PROVE  RefreshInv'
<1> USE WorkerCredentialsAssumption
<1>1. CASE UNCHANGED vars
  BY <1>1, SameRefresh DEF vars
<1>2. CASE Tick
  BY <1>2, TickRefresh
<1>3. CASE Rotate
  <2>1. Own \in {s \in Schedules : jwt[s] # None}
    BY <1>3 DEF Rotate, RefreshInv, Schedules
  <2>2. QED
    BY <1>3, <2>1, BeginRefresh DEF Rotate
<1>4. CASE Start
  <2> DEFINE S == {s \in Schedules : jwt[s] # None} \cup {Own}
  <2>1. S \in SUBSET Schedules /\ Own \in S
    BY DEF Schedules
  <2>2. TokenNeeded \in BOOLEAN
    BY DEF TokenNeeded
  <2>3. ~TokenNeeded => \A t \in Valid : expiry[t] > now + Interval
    BY DEF TokenNeeded, Valid, TypeInv, TypeOK
  <2>4. QED
    BY <1>4, <2>1, <2>2, <2>3, BeginRefresh DEF Start
<1>5. CASE Refused
  BY <1>5, SameRefresh DEF Refused
<1>6. CASE Missed
  <2>1. late' = "missed" /\ tx = NoTx /\ UNCHANGED <<jwt, up, tx>>
    BY <1>6 DEF Missed
  <2>2. QED
    BY <2>1 DEF RefreshInv, Renewing, OwnLasts, NoTx
<1>7. CASE Crash
  BY <1>7 DEF Crash, RefreshInv, Renewing, OwnLasts, NoTx
<1>8. ASSUME NEW s \in Schedules, Update(s) PROVE RefreshInv'
  BY <1>8, UpdateRefresh
<1>9. CASE Commit
  BY <1>9, CommitRefresh
<1>10. CASE Rollback
  <2>1. /\ tx # NoTx /\ tx' = NoTx
        /\ UNCHANGED <<now, expiry, known, jwt, up, refresh, late>>
    BY <1>10 DEF Rollback
  <2>2. tx.op \in {"rotate", "start"}
    BY <2>1 DEF RefreshInv, Renewing, TypeInv, TypeOK
  <2>3. up => refresh # None /\ Good(refresh)
    BY <2>2 DEF RefreshInv, Renewing
  <2>4. OwnLasts'
    BY <2>1, <2>3 DEF OwnLasts, Good
  <2>5. QED
    BY <2>1, <2>4 DEF RefreshInv, Renewing, NoTx
<1>11. ASSUME NEW s \in Sources,
              EnableOpen(s) \/ EnableWrite(s) \/ Disable(s) \/ RunStarts(s)
       PROVE  RefreshInv'
  <2>1. /\ UNCHANGED <<now, expiry, known, up, tx, late, refresh>>
        /\ jwt'[Own] = jwt[Own]
    BY <1>11 DEF EnableOpen, EnableWrite, Disable, RunStarts, TypeInv, TypeOK, Schedules
  <2>2. QED
    BY <2>1, SameRefresh
<1>12. CASE RunEnds
  BY <1>12, SameRefresh DEF RunEnds
<1>13. QED
  BY <1>1, <1>2, <1>3, <1>4, <1>5, <1>6, <1>7, <1>8, <1>9, <1>10, <1>11, <1>12 DEF Next

\* A start of the server sets the refresh going, and one refresh the next, when
\* tokens last longer than the interval.
THEOREM RefreshNeverStops ==
  ASSUME Duration > Interval PROVE Spec => []RefreshGoesOn
<1>1. Init => TypeInv /\ RefreshInv
  <2>1. Init => RefreshInv
    BY DEF Init, RefreshInv, Renewing, OwnLasts, NoTx
  <2>2. QED
    BY <2>1, InitType
<1>2. TypeInv /\ RefreshInv /\ [Next]_vars => (TypeInv /\ RefreshInv)'
  BY RefreshStep, StepType
<1>3. TypeInv /\ RefreshInv => RefreshGoesOn
  BY LastsIsGood DEF RefreshInv, OwnLasts, RefreshGoesOn
<1>4. QED
  BY <1>1, <1>2, <1>3, PTL DEF Spec
-----------------------------------------------------------------------------
(* Every schedule has a token that is good, and runs keep theirs.          *)

\* The last day on which a refresh began, or will have begun.
Day == now - (now % Interval)

\* The token is good until the next refresh begins.
Fresh(t) == t \in known /\ expiry[t] >= Day + Interval

Pending == refresh # None /\ Good(refresh)

\* A renewal deletes what has expired, and a start makes a token when needed.
Starting ==
    /\ tx.op # "none" => tx.gone = Expired
    /\ tx.op = "start" => (tx.made # None <=> TokenNeeded)
    /\ up => known # {}
    /\ known # {} => jwt[Own] # None
    /\ ~up => \A s \in Sources : setting[s] = None

\* A token lasts beyond the next refresh, unless it is for the refresh that runs
\* or for the next start to make one.
Newest ==
    late = "no" /\ known # {} =>
        /\ \E t \in known : expiry[t] >= Day + Interval
        /\ \/ Pending
           \/ ~up /\ TokenNeeded /\ refresh # None
           \/ \E t \in known : expiry[t] >= Day + Interval + Interval

\* A server that is down and has left a bad token to the refresh makes a new one.
Needed == late = "no" /\ ~up /\ refresh = None /\ ~Good(jwt[Own]) => TokenNeeded

\* What the schedules have, and what is about to be written to them.
Scheduled ==
    \A s \in Sources :
        /\ late = "no" /\ setting[s] # None => Fresh(setting[s])
        /\ jwt[s] # None =>
             /\ tx.op = "start" /\ s \notin tx.left => jwt[s] \in Written(s)
             /\ late = "no" /\ tx.op = "rotate" /\ s \notin tx.left
                    => jwt[s] = tx.made \/ Fresh(jwt[s])
             /\ late = "no" /\ up /\ tx.op = "none" /\ ~Pending => Fresh(jwt[s])

TokensInv == Starting /\ Newest /\ Needed /\ Scheduled

LEMMA Remainder ==
  ASSUME NEW k \in Nat, k > 0, NEW p \in Nat, NEW r \in 0..(k - 1)
  PROVE  (k * p + r) % k = r
  BY SMTT(60)

\* The day changes when a refresh begins, and then by Interval.
LEMMA NextDay ==
  ASSUME NEW n \in Nat, NEW k \in Nat, k > 0
  PROVE  (n + 1) - ((n + 1) % k) =
           IF (n + 1) % k = 0 THEN n - (n % k) + k ELSE n - (n % k)
<1> DEFINE q == n \div k
           r == n % k
<1>1. q \in Nat /\ r \in 0..(k - 1)
  OBVIOUS
<1>2. n = k * q + r
  BY Division
<1> HIDE DEF q, r
<1>3. k * q \in Nat /\ k * (q + 1) = k * q + k
  BY <1>1
<1>4. CASE r < k - 1
  <2>1. n + 1 = k * q + (r + 1) /\ r + 1 \in 0..(k - 1)
    BY <1>1, <1>2, <1>3, <1>4
  <2>2. (n + 1) % k = r + 1
    BY <2>1, <1>1, Remainder
  <2>3. QED
    BY <2>1, <2>2, <1>1 DEF r
<1>5. CASE r = k - 1
  <2>1. n + 1 = k * (q + 1) + 0
    BY <1>1, <1>2, <1>3, <1>5
  <2>2. (n + 1) % k = 0
    BY <2>1, <1>1, Remainder
  <2>3. QED
    BY <2>2, <1>5 DEF r
<1>6. QED
  BY <1>1, <1>4, <1>5

LEMMA DayBounds ==
  TypeInv => Day \in Int /\ Day <= now /\ now < Day + Interval
<1> SUFFICES ASSUME TypeInv PROVE Day \in Int /\ Day <= now /\ now < Day + Interval
  OBVIOUS
<1>1. now \in Nat /\ Interval \in Nat /\ Interval > 0
  BY WorkerCredentialsAssumption DEF TypeInv, TypeOK
<1>2. now % Interval \in 0..(Interval - 1)
  BY <1>1
<1>3. QED
  BY <1>1, <1>2 DEF Day

\* A fresh token is good.
LEMMA FreshIsGood ==
  ASSUME TypeInv, NEW t, Fresh(t) PROVE Good(t) /\ t \in Valid
<1>1. t \in known /\ expiry[t] \in Nat /\ now \in Nat /\ Interval \in Nat
  BY WorkerCredentialsAssumption DEF Fresh, TypeInv, TypeOK
<1>2. expiry[t] > now
  BY <1>1, DayBounds DEF Fresh
<1>3. QED
  BY <1>1, <1>2 DEF Good, Valid

\* Nothing changes for the tokens that are known.
LEMMA SameTokens ==
  ASSUME now' = now, known' = known, \A t \in known : expiry'[t] = expiry[t]
  PROVE  /\ Valid' = Valid /\ Expired' = Expired /\ Gone' = Gone
         /\ Longest(Valid)' = Longest(Valid)
         /\ \A t : Good(t)' <=> Good(t)
         /\ \A t : Fresh(t)' <=> Fresh(t)
         /\ TokenNeeded' <=> TokenNeeded
         /\ Day' = Day
<1>1. Valid' = Valid
  BY DEF Valid
<1>2. Expired' = Expired /\ Gone' = Gone
  BY <1>1 DEF Expired, Gone
<1>3. Longest(Valid)' = Longest(Valid)
  BY <1>1 DEF Longest, Valid
<1>4. Day' = Day
  BY DEF Day
<1>5. \A t : (Good(t)' <=> Good(t)) /\ (Fresh(t)' <=> Fresh(t))
  BY <1>4 DEF Good, Fresh
<1>6. TokenNeeded' <=> TokenNeeded
  BY <1>1, <1>2 DEF TokenNeeded, Valid
<1>7. QED
  BY <1>1, <1>2, <1>3, <1>4, <1>5, <1>6

\* The token that lasts longest is fresh, if one is.
LEMMA LongestIsFresh ==
  ASSUME TypeInv, Newest, late = "no", known # {}, NEW t \in Longest(Valid)
  PROVE  Fresh(t)
<1>1. PICK u \in known : expiry[u] >= Day + Interval
  BY DEF Newest
<1>2. u \in Valid
  BY <1>1, FreshIsGood DEF Fresh
<1>3. t \in known /\ expiry[u] <= expiry[t]
  BY <1>2 DEF Longest, Valid
<1>4. expiry[t] \in Nat /\ expiry[u] \in Nat /\ Day \in Int /\ Interval \in Nat
  BY <1>3, DayBounds, WorkerCredentialsAssumption DEF TypeInv, TypeOK
<1>5. QED
  BY <1>1, <1>3, <1>4 DEF Fresh

LEMMA BeginTokens ==
  ASSUME TypeInv, RefreshInv, TokensInv, NEW op \in {"rotate", "start"},
         NEW S \in SUBSET Schedules, NEW needed \in BOOLEAN, Begin(op, S, needed),
         \A s \in Schedules : jwt[s] # None => s \in S,
         op = "start" => (needed <=> TokenNeeded)
  PROVE  TokensInv'
<1>1. /\ UNCHANGED <<now, known, jwt, up, setting, refresh, late>>
      /\ tx.op = "none"
      /\ tx'.op = op /\ tx'.gone = Gone /\ tx'.left = S
      /\ tx'.made # None <=> needed
  BY WorkerCredentialsAssumption DEF Begin, Unheld, NoTx
<1>2. \A t \in known : expiry'[t] = expiry[t]
  <2>1. ASSUME NEW t \in known PROVE t \in Tokens /\ t \notin Unheld
    BY DEF Unheld, TypeInv, TypeOK
  <2>2. QED
    BY <2>1 DEF Begin
<1>3. /\ Expired' = Expired /\ Day' = Day /\ (TokenNeeded' <=> TokenNeeded)
      /\ \A t : (Good(t)' <=> Good(t)) /\ (Fresh(t)' <=> Fresh(t))
  BY <1>1, <1>2, SameTokens
<1>4. Starting'
  BY <1>1, <1>3 DEF TokensInv, Starting, Gone
<1>5. Newest'
  <2>1. Pending' <=> Pending
    BY <1>1, <1>3 DEF Pending
  <2>2. QED
    BY <1>1, <1>2, <1>3, <2>1 DEF TokensInv, Newest
<1>6. Needed'
  <2>1. Good(jwt[Own])' <=> Good(jwt[Own])
    BY <1>1, <1>2 DEF Good
  <2>2. QED
    BY <1>1, <1>3, <2>1 DEF TokensInv, Needed
<1>7. Scheduled'
  <2>1. ASSUME NEW s \in Sources
        PROVE  /\ Fresh(setting[s])' <=> Fresh(setting[s])
               /\ jwt'[s] # None => s \in tx'.left
    BY <1>1, <1>2, <1>3 DEF Fresh, Schedules
  <2>2. QED
    BY <1>1, <2>1 DEF TokensInv, Scheduled
<1>8. QED
  BY <1>4, <1>5, <1>6, <1>7 DEF TokensInv

LEMMA UpdateTokens ==
  ASSUME TypeInv, RefreshInv, TokensInv, NEW s \in Schedules, Update(s)
  PROVE  TokensInv'
<1>1. PICK t \in Written(s) : jwt' = [jwt EXCEPT ![s] = t]
  BY DEF Update
<1>2. /\ UNCHANGED <<now, expiry, known, up, setting, refresh, late>>
      /\ tx' = [tx EXCEPT !.left = tx.left \ {s}]
      /\ s \in tx.left
  BY DEF Update
<1>3. /\ tx'.op = tx.op /\ tx'.made = tx.made /\ tx'.gone = tx.gone
      /\ tx'.left = tx.left \ {s}
  BY <1>2 DEF TypeInv, TypeOK
<1>4. tx.op # "none"
  BY <1>2 DEF RefreshInv, Renewing, NoTx
<1>5. /\ Expired' = Expired /\ Day' = Day /\ (TokenNeeded' <=> TokenNeeded)
      /\ Longest(Valid)' = Longest(Valid)
      /\ \A u : (Good(u)' <=> Good(u)) /\ (Fresh(u)' <=> Fresh(u))
  BY <1>2, SameTokens
<1>6. t \in Tokens /\ t # None
  BY WrittenType, WorkerCredentialsAssumption
<1>7. jwt'[s] = t /\ \A r \in Schedules : r # s => jwt'[r] = jwt[r]
  BY <1>1 DEF TypeInv, TypeOK
<1>8. \A r : Written(r)' = Written(r)
  BY <1>3, <1>5 DEF Written
<1>9. Starting'
  BY <1>2, <1>3, <1>5, <1>6, <1>7 DEF TokensInv, Starting, Schedules
<1>10. Newest'
  <2>1. Pending' <=> Pending
    BY <1>2, <1>5 DEF Pending
  <2>2. QED
    BY <1>2, <1>5, <2>1 DEF TokensInv, Newest
<1>11. Needed'
  <2>1. CASE s # Own
    <3>1. jwt'[Own] = jwt[Own]
      BY <2>1, <1>7 DEF Schedules
    <3>2. Good(jwt[Own])' <=> Good(jwt[Own])
      BY <3>1, <1>2 DEF Good
    <3>3. QED
      BY <1>2, <1>5, <3>2 DEF TokensInv, Needed
  <2>2. CASE s = Own /\ tx.made = None
    <3>1. jwt'[Own] \in Valid
      BY <2>2, <1>7 DEF Written, Longest
    <3>2. Good(jwt[Own])'
      BY <3>1, <1>2 DEF Good, Valid
    <3>3. QED
      BY <3>2 DEF Needed
  <2>3. CASE tx.made # None
    <3>1. tx.op = "start" => TokenNeeded
      BY <2>3 DEF TokensInv, Starting
    <3>2. tx.op = "rotate" => up
      BY DEF RefreshInv, Renewing
    <3>3. tx.op \in {"rotate", "start"}
      BY <1>4 DEF TypeInv, TypeOK
    <3>4. QED
      BY <1>2, <1>5, <3>1, <3>2, <3>3 DEF Needed
  <2>4. QED
    BY <2>1, <2>2, <2>3
<1>12. Scheduled'
  <2> SUFFICES ASSUME NEW r \in Sources
        PROVE (/\ late = "no" /\ setting[r] # None => Fresh(setting[r])
               /\ jwt[r] # None =>
                   /\ tx.op = "start" /\ r \notin tx.left => jwt[r] \in Written(r)
                   /\ late = "no" /\ tx.op = "rotate" /\ r \notin tx.left
                          => jwt[r] = tx.made \/ Fresh(jwt[r])
                   /\ late = "no" /\ up /\ tx.op = "none" /\ ~Pending
                          => Fresh(jwt[r]))'
    BY DEF Scheduled
  <2>1. Fresh(setting[r])' <=> Fresh(setting[r])
    BY <1>2, <1>5 DEF Fresh
  <2>2. CASE r = s
    <3>1. tx.op = "rotate" => tx.made # None
      BY DEF RefreshInv, Renewing
    <3>2. tx.op = "rotate" => jwt'[r] = tx'.made
      BY <3>1, <2>2, <1>3, <1>7 DEF Written
    <3>3. jwt'[r] \in Written(r)'
      BY <2>2, <1>7, <1>8
    <3>4. QED
      BY <1>2, <1>3, <1>4, <2>1, <3>2, <3>3 DEF TokensInv, Scheduled
  <2>3. CASE r # s
    <3>1. jwt'[r] = jwt[r] /\ (r \in tx'.left <=> r \in tx.left)
      BY <2>3, <1>3, <1>7 DEF Schedules
    <3>2. Fresh(jwt[r])' <=> Fresh(jwt[r])
      BY <3>1, <1>2, <1>5 DEF Fresh
    <3>3. Written(r)' = Written(r)
      BY <1>8
    <3>4. QED
      BY <1>2, <1>3, <1>4, <2>1, <3>1, <3>2, <3>3 DEF TokensInv, Scheduled
  <2>4. QED
    BY <2>2, <2>3
<1>13. QED
  BY <1>9, <1>10, <1>11, <1>12 DEF TokensInv

LEMMA CommitTokens ==
  ASSUME Duration >= Interval + Interval, TypeInv, RefreshInv, TokensInv, Commit
  PROVE  TokensInv'
<1> USE WorkerCredentialsAssumption
<1>1. /\ tx # NoTx /\ tx.left = {} /\ tx' = NoTx /\ tx'.op = "none"
      /\ known' = (known \ tx.gone) \cup Made
      /\ UNCHANGED <<now, expiry, jwt, setting>>
  BY DEF Commit, NoTx
<1>2. tx.op \in {"rotate", "start"}
  BY <1>1 DEF RefreshInv, Renewing, TypeInv, TypeOK
<1>3. known' = Valid \cup Made
  BY <1>1, <1>2 DEF TokensInv, Starting, Expired, Valid
<1>4. Day' = Day /\ Day \in Int /\ Day <= now
  BY <1>1, DayBounds DEF Day
<1>5. tx.op = "rotate" => up /\ tx.made # None
  BY DEF RefreshInv, Renewing
<1>6. tx.op = "start" => ~up
  BY DEF RefreshInv, Renewing
<1>7. up'
  BY <1>2, <1>5 DEF Commit
<1>8. late' = "no" => tx.made # None \/ late = "no"
  BY DEF Commit
<1>9. tx.made # None =>
        tx.made \in known' /\ expiry'[tx.made] >= Day' + Interval + Interval
  <2>1. tx.made # None => tx.made \in known' /\ expiry'[tx.made] = now + Duration
    BY <1>1, <1>3 DEF Made, RefreshInv, Renewing
  <2>2. now \in Nat
    BY DEF TypeInv, TypeOK
  <2>3. QED
    BY <2>1, <2>2, <1>4
<1>10. tx.made # None => expiry'[tx.made] >= Day' + Interval
  <2>1. tx.made # None => expiry[tx.made] \in Nat
    BY DEF TypeInv, TypeOK
  <2>2. QED
    BY <2>1, <1>1, <1>4, <1>9
<1>11. \A t : Fresh(t) => Fresh(t)'
  BY <1>1, <1>3, <1>4, FreshIsGood DEF Fresh
<1>12. ASSUME tx.made = None
       PROVE  /\ tx.op = "start" /\ ~TokenNeeded /\ known' = known
              /\ refresh' = refresh
  <2>1. tx.op = "start" /\ ~TokenNeeded
    BY <1>2, <1>5, <1>12 DEF TokensInv, Starting
  <2>2. known = Valid
    BY <2>1 DEF TokenNeeded, Gone, Expired, Valid
  <2>3. QED
    BY <2>1, <2>2, <1>3, <1>12 DEF Made, Commit
<1>13. jwt[Own] \in known' /\ jwt[Own] # None
  <2>1. IF tx.made # None THEN jwt[Own] = tx.made ELSE jwt[Own] \in Valid
    BY <1>1, <1>2 DEF RefreshInv, Renewing
  <2>2. QED
    BY <2>1, <1>3, <1>9 DEF Valid, TypeInv, TypeOK
<1>14. Starting'
  BY <1>1, <1>7, <1>13 DEF Starting
<1>15. Newest'
  <2>1. CASE tx.made # None
    <3>1. \E t \in known' : /\ expiry'[t] >= Day' + Interval
                            /\ expiry'[t] >= Day' + Interval + Interval
      BY <2>1, <1>9, <1>10
    <3>2. QED
      BY <3>1 DEF Newest
  <2>2. CASE tx.made = None
    <3>1. Pending => Pending'
      BY <2>2, <1>1, <1>12 DEF Pending, Good
    <3>2. QED
      BY <2>2, <3>1, <1>1, <1>4, <1>8, <1>12 DEF TokensInv, Newest
  <2>3. QED
    BY <2>1, <2>2
<1>16. Needed'
  BY <1>7 DEF Needed
<1>17. Scheduled'
  <2> SUFFICES ASSUME NEW s \in Sources, late' = "no"
        PROVE  /\ setting'[s] # None => Fresh(setting[s])'
               /\ jwt'[s] # None => Fresh(jwt[s])'
    BY <1>1 DEF Scheduled
  <2>1. ASSUME setting[s] # None PROVE Fresh(setting[s])'
    <3>1. tx.op = "rotate" /\ late = "no"
      BY <2>1, <1>2, <1>6, <1>8 DEF TokensInv, Starting, Commit
    <3>2. Fresh(setting[s])
      BY <2>1, <3>1 DEF TokensInv, Scheduled
    <3>3. QED
      BY <3>2, <1>1, <1>3, <1>4, FreshIsGood DEF Fresh
  <2>2. ASSUME jwt[s] # None PROVE Fresh(jwt[s])'
    <3>1. (jwt[s] = tx.made /\ tx.made # None) \/ Fresh(jwt[s])
      <4>1. CASE tx.op = "rotate"
        <5>1. late = "no"
          BY <4>1 DEF Commit
        <5>2. QED
          BY <4>1, <5>1, <2>2, <1>1, <1>5 DEF TokensInv, Scheduled
      <4>2. CASE tx.op = "start"
        <5>1. jwt[s] \in Written(s)
          BY <4>2, <2>2, <1>1 DEF TokensInv, Scheduled
        <5>2. CASE tx.made = None
          <6>1. jwt[s] \in Longest(Valid) /\ late = "no"
            BY <5>1, <5>2, <1>8 DEF Written
          <6>2. known # {}
            BY <6>1 DEF Longest, Valid
          <6>3. QED
            BY <6>1, <6>2, LongestIsFresh DEF TokensInv
        <5>3. QED
          BY <5>1, <5>2 DEF Written
      <4>3. QED
        BY <4>1, <4>2, <1>2
    <3>2. CASE jwt[s] = tx.made /\ tx.made # None
      BY <3>2, <1>1, <1>9, <1>10 DEF Fresh
    <3>3. CASE Fresh(jwt[s])
      BY <3>3, <1>1, <1>3, <1>4, FreshIsGood DEF Fresh
    <3>4. QED
      BY <3>1, <3>2, <3>3
  <2>3. QED
    BY <2>1, <2>2, <1>1
<1>18. QED
  BY <1>14, <1>15, <1>16, <1>17 DEF TokensInv

LEMMA TickTokens ==
  ASSUME TypeInv, RefreshInv, TokensInv, Tick PROVE TokensInv'
<1> USE WorkerCredentialsAssumption
<1>1. /\ now' = now + 1 /\ tx = NoTx /\ refresh = None
      /\ UNCHANGED <<expiry, known, jwt, up, tx, late, setting>>
      /\ refresh' = IF now' % Interval = 0 THEN jwt[Own] ELSE None
      /\ \A s \in Sources : setting[s] = None
  BY DEF Tick
<1>2. /\ now \in Nat /\ Interval \in Nat /\ Interval > 0
      /\ known \subseteq Tokens /\ \A t \in Tokens : expiry[t] \in Nat
      /\ Day \in Int /\ tx.op = "none"
  BY <1>1, DayBounds DEF TypeInv, TypeOK, NoTx
<1>3. Day' = IF now' % Interval = 0 THEN Day + Interval ELSE Day
  BY <1>1, <1>2, NextDay DEF Day
<1>4. TokenNeeded => TokenNeeded'
  BY <1>1, <1>2 DEF TokenNeeded, Gone, Expired, Valid
<1>5. ASSUME Good(jwt[Own]), ~Good(jwt[Own])' PROVE TokenNeeded'
  BY <1>1, <1>2, <1>5 DEF Good, TokenNeeded, Gone, Expired, Valid
<1>6. ASSUME up, late = "no" PROVE Good(jwt[Own])'
  <2>1. Lasts(jwt[Own])
    BY <1>1, <1>6 DEF RefreshInv, OwnLasts
  <2>2. QED
    BY <2>1, <1>1, LastsIsGood DEF Good
<1>7. Starting'
  BY <1>1, <1>2 DEF TokensInv, Starting
<1>8. late = "no" /\ known # {} =>
        \E t \in known : expiry[t] >= Day + Interval + Interval
  BY <1>1 DEF TokensInv, Newest, Pending
<1>9. Newest'
  <2> SUFFICES ASSUME late = "no", known # {}
      PROVE  /\ \E t \in known : expiry[t] >= Day' + Interval
             /\ \/ Pending'
                \/ ~up /\ TokenNeeded' /\ refresh' # None
                \/ \E t \in known : expiry[t] >= Day' + Interval + Interval
    BY <1>1 DEF Newest
  <2>1. PICK t \in known : expiry[t] >= Day + Interval + Interval
    BY <1>8
  <2>2. expiry[t] \in Nat
    BY <1>2
  <2>3. expiry[t] >= Day' + Interval
    BY <2>1, <2>2, <1>2, <1>3
  <2>4. CASE now' % Interval # 0
    BY <2>1, <2>3, <2>4, <1>3
  <2>5. CASE now' % Interval = 0
    <3>1. refresh' = jwt[Own] /\ jwt[Own] # None
      BY <2>5, <1>1 DEF TokensInv, Starting
    <3>2. CASE Good(jwt[Own])'
      <4>1. Good(refresh)'
        BY <3>1, <3>2, <1>1 DEF Good
      <4>2. QED
        BY <3>1, <4>1, <2>3 DEF Pending
    <3>3. CASE ~Good(jwt[Own])'
      <4>1. ~up /\ TokenNeeded'
        BY <3>3, <1>1, <1>4, <1>5, <1>6 DEF TokensInv, Needed
      <4>2. QED
        BY <4>1, <3>1, <2>3
    <3>4. QED
      BY <3>2, <3>3
  <2>6. QED
    BY <2>4, <2>5
<1>10. Needed'
  BY <1>1, <1>4, <1>5 DEF TokensInv, Needed
<1>11. Scheduled'
  <2> SUFFICES ASSUME NEW s \in Sources, jwt[s] # None, late = "no", up, ~Pending'
        PROVE  Fresh(jwt[s])'
    BY <1>1, <1>2 DEF Scheduled
  <2>1. now' % Interval # 0
    <3> SUFFICES ASSUME now' % Interval = 0 PROVE FALSE
      OBVIOUS
    <3>1. refresh' = jwt[Own] /\ jwt[Own] # None
      BY <1>1 DEF TokensInv, Starting
    <3>2. Good(refresh)'
      BY <3>1, <1>1, <1>6 DEF Good
    <3>3. QED
      BY <3>1, <3>2 DEF Pending
  <2>2. Fresh(jwt[s])
    BY <1>1, <1>2 DEF TokensInv, Scheduled, Pending
  <2>3. QED
    BY <2>1, <2>2, <1>1, <1>3 DEF Fresh
<1>12. QED
  BY <1>7, <1>9, <1>10, <1>11 DEF TokensInv

\* A request on a source leaves the refresh alone, and has fresh tokens to write.
LEMMA SourceTokens ==
  ASSUME TypeInv, RefreshInv, TokensInv, NEW s \in Sources,
         EnableOpen(s) \/ EnableWrite(s) \/ Disable(s)
  PROVE  TokensInv'
<1>1. /\ UNCHANGED <<now, expiry, known, up, tx, refresh, late>>
      /\ jwt'[Own] = jwt[Own]
      /\ jwt' \in [Schedules -> Tokens \cup {None, Blank}]
  BY StepType, WorkerCredentialsAssumption
     DEF EnableOpen, EnableWrite, Disable, Next, TypeInv, TypeOK, Schedules
<1>2. /\ Expired' = Expired /\ Day' = Day /\ (TokenNeeded' <=> TokenNeeded)
      /\ Longest(Valid)' = Longest(Valid)
      /\ \A t : (Good(t)' <=> Good(t)) /\ (Fresh(t)' <=> Fresh(t))
  BY <1>1, SameTokens
<1>3. up
  BY DEF EnableOpen, EnableWrite, Disable, TokensInv, Starting
<1>4. tx.op # "start"
  BY <1>3 DEF RefreshInv, Renewing
<1>5. Starting'
  BY <1>1, <1>2, <1>3 DEF TokensInv, Starting
<1>6. Pending' <=> Pending
  BY <1>1, <1>2 DEF Pending
<1>7. Newest'
  BY <1>1, <1>2, <1>6 DEF TokensInv, Newest
<1>8. Needed'
  BY <1>1, <1>3 DEF Needed
<1>9. ASSUME NEW r \in Sources, late = "no"
      PROVE  /\ setting'[r] # None => Fresh(setting[r])'
             /\ jwt'[r] # None => jwt'[r] = jwt[r] \/ Fresh(jwt[r])'
  <2>1. CASE EnableOpen(s)
    <3>1. jwt' = jwt
      BY <2>1 DEF EnableOpen
    <3>2. known # {} /\ Valid # {}
      <4>1. known # {}
        BY <1>3 DEF TokensInv, Starting
      <4>2. PICK t \in known : expiry[t] >= Day + Interval
        BY <4>1, <1>9 DEF TokensInv, Newest
      <4>3. QED
        BY <4>1, <4>2, FreshIsGood DEF Fresh
    <3>3. PICK t \in Longest(Valid) : setting' = [setting EXCEPT ![s] = t]
      BY <2>1, <3>2 DEF EnableOpen
    <3>4. Fresh(t)
      BY <3>2, <1>9, LongestIsFresh DEF TokensInv
    <3>5. CASE r = s
      <4>1. setting'[r] = t
        BY <3>3, <3>5 DEF TypeInv, TypeOK
      <4>2. Fresh(setting[r])'
        BY <4>1, <3>4, <1>1, <1>2 DEF Fresh
      <4>3. QED
        BY <4>2, <3>1
    <3>6. CASE r # s
      <4>1. setting'[r] = setting[r]
        BY <3>3, <3>6 DEF TypeInv, TypeOK
      <4>2. setting[r] # None => Fresh(setting[r])'
        BY <4>1, <1>1, <1>2, <1>9 DEF TokensInv, Scheduled, Fresh
      <4>3. QED
        BY <4>1, <4>2, <3>1
    <3>7. QED
      BY <3>5, <3>6
  <2>2. CASE EnableWrite(s)
    <3>1. jwt' = [jwt EXCEPT ![s] = setting[s]]
          /\ setting' = [setting EXCEPT ![s] = None] /\ setting[s] # None
      BY <2>2 DEF EnableWrite
    <3>2. Fresh(setting[s])
      BY <3>1, <1>9 DEF TokensInv, Scheduled
    <3>3. CASE r = s
      <4>1. jwt'[r] = setting[s] /\ setting'[r] = None
        BY <3>1, <3>3 DEF TypeInv, TypeOK, Schedules
      <4>2. Fresh(jwt[r])'
        BY <4>1, <3>2, <1>1, <1>2 DEF Fresh
      <4>3. QED
        BY <4>1, <4>2
    <3>4. CASE r # s
      <4>1. jwt'[r] = jwt[r] /\ setting'[r] = setting[r]
        BY <3>1, <3>4 DEF TypeInv, TypeOK, Schedules
      <4>2. setting[r] # None => Fresh(setting[r])'
        BY <4>1, <1>1, <1>2, <1>9 DEF TokensInv, Scheduled, Fresh
      <4>3. QED
        BY <4>1, <4>2
    <3>5. QED
      BY <3>3, <3>4
  <2>3. CASE Disable(s)
    <3>1. setting' = setting /\ jwt' = [jwt EXCEPT ![s] = None]
      BY <2>3 DEF Disable
    <3>2. jwt'[r] # None => jwt'[r] = jwt[r]
      BY <3>1 DEF TypeInv, TypeOK, Schedules
    <3>3. setting[r] # None => Fresh(setting[r])'
      BY <3>1, <1>1, <1>2, <1>9 DEF TokensInv, Scheduled, Fresh
    <3>4. QED
      BY <3>1, <3>2, <3>3
  <2>4. QED
    BY <2>1, <2>2, <2>3
<1>10. Scheduled'
  <2> SUFFICES ASSUME NEW r \in Sources, late = "no"
      PROVE  /\ setting'[r] # None => Fresh(setting[r])'
             /\ jwt'[r] # None =>
                  /\ tx.op = "rotate" /\ r \notin tx.left
                         => jwt'[r] = tx.made \/ Fresh(jwt[r])'
                  /\ up /\ tx.op = "none" /\ ~Pending => Fresh(jwt[r])'
    BY <1>1, <1>4, <1>6 DEF Scheduled
  <2>1. CASE jwt'[r] = jwt[r]
    <3>1. Fresh(jwt[r])' <=> Fresh(jwt[r])
      BY <2>1, <1>1, <1>2 DEF Fresh
    <3>2. setting'[r] # None => Fresh(setting[r])'
      BY <1>9
    <3>3. QED
      BY <2>1, <3>1, <3>2 DEF TokensInv, Scheduled
  <2>2. CASE jwt'[r] # jwt[r]
    BY <2>2, <1>9
  <2>3. QED
    BY <2>1, <2>2
<1>11. QED
  BY <1>5, <1>7, <1>8, <1>10 DEF TokensInv

\* The server dies, a renewal is rolled back or missed, or a refresh refused.
LEMMA FailTokens ==
  ASSUME TypeInv, RefreshInv, TokensInv, Crash \/ Rollback \/ Missed \/ Refused
  PROVE  TokensInv'
<1>1. /\ UNCHANGED <<now, expiry, known, jwt>>
      /\ tx'.op = "none" /\ (up' => up)
      /\ late' = "no" => late = "no" /\ ~Missed
  BY DEF Crash, Rollback, Missed, Refused, NoTx
<1>2. /\ Expired' = Expired /\ Day' = Day /\ (TokenNeeded' <=> TokenNeeded)
      /\ \A t : (Good(t)' <=> Good(t)) /\ (Fresh(t)' <=> Fresh(t))
  BY <1>1, SameTokens
<1>3. Good(jwt[Own])' <=> Good(jwt[Own])
  BY <1>1, <1>2 DEF Good
<1>4. late' = "no" => (Pending' <=> Pending)
  BY <1>1, <1>2 DEF Pending, Crash, Rollback, Refused
<1>5. \A s \in Sources : setting'[s] # None => setting'[s] = setting[s]
  BY DEF Crash, Rollback, Missed, Refused
<1>6. Starting'
  BY <1>1 DEF TokensInv, Starting, Crash, Rollback, Missed, Refused
<1>7. Newest'
  BY <1>1, <1>2, <1>4 DEF TokensInv, Newest, Crash, Rollback, Refused
<1>8. Needed'
  <2> SUFFICES ASSUME late' = "no", ~up', refresh' = None, ~Good(jwt[Own])
      PROVE  TokenNeeded
    BY <1>2, <1>3 DEF Needed
  <2>1. refresh = None
    BY <1>1 DEF Crash, Rollback, Refused
  <2>2. up => tx = NoTx
    BY <2>1 DEF RefreshInv, Renewing, TypeInv, TypeOK
  <2>3. up => Good(jwt[Own])
    BY <2>1, <2>2, <1>1, LastsIsGood DEF RefreshInv, OwnLasts
  <2>4. QED
    BY <2>1, <2>3, <1>1 DEF TokensInv, Needed
<1>9. Scheduled'
  <2> SUFFICES ASSUME NEW s \in Sources, late' = "no"
      PROVE  /\ setting'[s] # None => Fresh(setting[s])'
             /\ jwt[s] # None /\ up' /\ ~Pending => Fresh(jwt[s])'
    BY <1>1, <1>4 DEF Scheduled
  <2>1. setting'[s] # None => Fresh(setting[s])'
    BY <1>1, <1>2, <1>5 DEF TokensInv, Scheduled, Fresh
  <2>2. up' /\ ~Pending => tx.op = "none"
    BY <1>1 DEF RefreshInv, Renewing, Pending, TypeInv, TypeOK
  <2>3. jwt[s] # None /\ up' /\ ~Pending => Fresh(jwt[s])
    BY <2>2, <1>1 DEF TokensInv, Scheduled
  <2>4. Fresh(jwt[s])' <=> Fresh(jwt[s])
    BY <1>1, <1>2 DEF Fresh
  <2>5. QED
    BY <2>1, <2>3, <2>4
<1>10. QED
  BY <1>6, <1>7, <1>8, <1>9 DEF TokensInv

LEMMA TokensStep ==
  ASSUME Duration >= Interval + Interval, TypeInv, RefreshInv, TokensInv, [Next]_vars
  PROVE  TokensInv'
<1>1. ASSUME UNCHANGED <<now, expiry, known, jwt, up, tx, setting, refresh, late>>
      PROVE  TokensInv'
  BY <1>1 DEF TokensInv, Starting, Newest, Needed, Scheduled, Written, Longest,
              Pending, Fresh, Good, Day, TokenNeeded, Gone, Expired, Valid
<1>2. CASE UNCHANGED vars
  BY <1>1, <1>2 DEF vars
<1>3. CASE Tick
  BY <1>3, TickTokens
<1>4. CASE Rotate
  <2> DEFINE S == {s \in Schedules : jwt[s] # None}
  <2>1. S \in SUBSET Schedules /\ \A s \in Schedules : jwt[s] # None => s \in S
    OBVIOUS
  <2>2. Begin("rotate", S, TRUE)
    BY <1>4 DEF Rotate
  <2>3. QED
    BY <2>1, <2>2, BeginTokens
<1>5. CASE Start
  <2> DEFINE S == {s \in Schedules : jwt[s] # None} \cup {Own}
  <2>1. S \in SUBSET Schedules /\ \A s \in Schedules : jwt[s] # None => s \in S
    BY DEF Schedules
  <2>2. Begin("start", S, TokenNeeded) /\ TokenNeeded \in BOOLEAN
    BY <1>5 DEF Start, TokenNeeded
  <2>3. QED
    BY <2>1, <2>2, BeginTokens
<1>6. CASE Refused \/ Missed \/ Crash \/ Rollback
  BY <1>6, FailTokens
<1>7. ASSUME NEW s \in Schedules, Update(s) PROVE TokensInv'
  BY <1>7, UpdateTokens
<1>8. CASE Commit
  BY <1>8, CommitTokens
<1>9. ASSUME NEW s \in Sources, EnableOpen(s) \/ EnableWrite(s) \/ Disable(s)
      PROVE  TokensInv'
  BY <1>9, SourceTokens
<1>10. ASSUME NEW s \in Sources, RunStarts(s) PROVE TokensInv'
  BY <1>1, <1>10 DEF RunStarts
<1>11. CASE RunEnds
  BY <1>1, <1>11 DEF RunEnds
<1>12. QED
  BY <1>2, <1>3, <1>4, <1>5, <1>6, <1>7, <1>8, <1>9, <1>10, <1>11 DEF Next

LEMMA TokensInit == Init => RefreshInv /\ TokensInv
<1> SUFFICES ASSUME Init PROVE RefreshInv /\ TokensInv
  OBVIOUS
<1>1. RefreshInv
  BY DEF Init, RefreshInv, Renewing, OwnLasts, NoTx
<1>2. TokenNeeded
  BY DEF Init, TokenNeeded, Valid
<1>3. TokensInv
  BY <1>2, WorkerCredentialsAssumption
     DEF Init, TokensInv, Starting, Newest, Needed, Scheduled, NoTx, Schedules
<1>4. QED
  BY <1>1, <1>3

\* Once a refresh has ended, and none was missed, every schedule has a token
\* that the API accepts, when tokens last two intervals or more.
THEOREM SchedulesHaveGoodTokens ==
  ASSUME Duration >= Interval + Interval PROVE Spec => []ScheduledTokenIsGood
<1> DEFINE Inv == TypeInv /\ RefreshInv /\ TokensInv
<1>1. Init => Inv
  BY InitType, TokensInit
<1>2. Duration > Interval
  BY WorkerCredentialsAssumption
<1>3. Inv /\ [Next]_vars => Inv'
  BY <1>2, TokensStep, RefreshStep, StepType
<1>4. Inv => ScheduledTokenIsGood
  <2> SUFFICES ASSUME Inv, up, tx = NoTx, refresh = None, late = "no",
                      NEW s \in Schedules, jwt[s] # None
               PROVE  Good(jwt[s])
    BY DEF ScheduledTokenIsGood
  <2>1. CASE s = Own
    BY <2>1, LastsIsGood DEF RefreshInv, OwnLasts
  <2>2. CASE s \in Sources
    BY <2>2, FreshIsGood DEF TokensInv, Scheduled, Pending, NoTx
  <2>3. QED
    BY <2>1, <2>2 DEF Schedules
<1>5. QED
  BY <1>1, <1>3, <1>4, PTL DEF Spec

-----------------------------------------------------------------------------
(* Syncs that run keep their access.                                       *)

\* The token of a sync that started with the newest one lasts longer than it.
RunLasts ==
    run.newest => run.token \in known /\ expiry[run.token] > now + run.left

\* A refresh ends within the unit it starts in.
OnTime == refresh # None => now % Interval = 0

LEMMA OnTimeStep == ASSUME OnTime, [Next]_vars PROVE OnTime'
<1>1. CASE Tick
  BY <1>1 DEF Tick, OnTime
<1>2. ASSUME now' = now, refresh' \in {refresh, None} PROVE OnTime'
  BY <1>2 DEF OnTime
<1>3. CASE UNCHANGED vars
  BY <1>2, <1>3 DEF vars
<1>4. CASE Rotate \/ Start
  BY <1>2, <1>4 DEF Rotate, Start, Begin
<1>5. CASE Refused \/ Missed \/ Crash \/ Commit \/ Rollback \/ RunEnds
  BY <1>2, <1>5 DEF Refused, Missed, Crash, Commit, Rollback, RunEnds
<1>6. ASSUME NEW s \in Schedules, Update(s) PROVE OnTime'
  BY <1>2, <1>6 DEF Update
<1>7. ASSUME NEW s \in Sources,
             EnableOpen(s) \/ EnableWrite(s) \/ Disable(s) \/ RunStarts(s)
      PROVE  OnTime'
  BY <1>2, <1>7 DEF EnableOpen, EnableWrite, Disable, RunStarts
<1>8. QED
  BY <1>1, <1>3, <1>4, <1>5, <1>6, <1>7 DEF Next

LEMMA RunStep ==
  ASSUME Duration >= Interval + Interval, RunTime < Interval,
         TypeInv, RefreshInv, TokensInv, OnTime, RunLasts, [Next]_vars
  PROVE  RunLasts'
<1> USE WorkerCredentialsAssumption
<1>1. ASSUME UNCHANGED <<now, expiry, known, run>> PROVE RunLasts'
  BY <1>1 DEF RunLasts
<1>2. /\ now \in Nat /\ Interval \in Nat /\ RunTime \in Nat /\ run.left \in Nat
      /\ known \subseteq Tokens /\ \A t \in Tokens : expiry[t] \in Nat
  BY DEF TypeInv, TypeOK
<1>3. CASE UNCHANGED vars
  BY <1>1, <1>3 DEF vars
<1>4. CASE Tick
  <2>1. UNCHANGED <<expiry, known>> /\ now' = now + 1
    BY <1>4 DEF Tick
  <2>2. CASE run = NoRun
    BY <2>2, <1>4 DEF Tick, RunLasts, NoRun
  <2>3. CASE run # NoRun
    <3>1. run' = [run EXCEPT !.left = run.left - 1]
      BY <2>3, <1>4 DEF Tick
    <3>2. /\ run'.newest = run.newest /\ run'.token = run.token
          /\ run'.left = run.left - 1
      BY <3>1 DEF TypeInv, TypeOK
    <3>3. now' + run'.left = now + run.left
      BY <3>2, <2>1, <1>2
    <3>4. QED
      BY <3>2, <3>3, <2>1 DEF RunLasts
  <2>4. QED
    BY <2>2, <2>3
<1>5. ASSUME NEW op, NEW S, NEW needed \in BOOLEAN, Begin(op, S, needed)
      PROVE  RunLasts'
  <2>1. UNCHANGED <<now, known, run>>
    BY <1>5 DEF Begin
  <2>2. run.token \in known => expiry'[run.token] = expiry[run.token]
    <3>1. run.token \notin Unheld
      BY DEF Unheld
    <3>2. QED
      BY <3>1, <1>2, <1>5 DEF Begin
  <2>3. QED
    BY <2>1, <2>2 DEF RunLasts
<1>6. CASE Commit
  <2>1. UNCHANGED <<now, expiry, run>> /\ known' = (known \ tx.gone) \cup Made
    BY <1>6 DEF Commit
  <2>2. tx.gone = Expired
    BY <1>6 DEF Commit, TokensInv, Starting, RefreshInv, Renewing
  <2>3. run.newest => run.token \in Valid
    BY <1>2 DEF RunLasts, Valid
  <2>4. QED
    BY <2>1, <2>2, <2>3 DEF RunLasts, Expired
<1>7. ASSUME NEW s \in Sources, RunStarts(s) PROVE RunLasts'
  <2>1. /\ run' = [token |-> jwt[s], left |-> RunTime,
                   newest |-> late = "no" /\ jwt[s] \in Longest(Valid)]
        /\ UNCHANGED <<now, expiry, known>>
    BY <1>7 DEF RunStarts
  <2> SUFFICES ASSUME late = "no", jwt[s] \in Longest(Valid)
      PROVE  jwt[s] \in known /\ expiry[jwt[s]] > now + RunTime
    BY <2>1 DEF RunLasts
  <2>2. jwt[s] \in known /\ \A t \in Valid : expiry[t] <= expiry[jwt[s]]
    BY DEF Longest, Valid
  <2>3. Day \in Int /\ Day <= now /\ now < Day + Interval
    BY DayBounds
  <2>4. PICK t \in known : /\ expiry[t] >= Day + Interval
                           /\ refresh = None => expiry[t] >= Day + Interval + Interval
    <3>1. known # {}
      BY <2>2
    <3>2. CASE refresh = None
      <4>1. PICK t \in known : expiry[t] >= Day + Interval + Interval
        BY <3>1, <3>2 DEF TokensInv, Newest, Pending
      <4>2. expiry[t] \in Nat
        BY <1>2
      <4>3. QED
        BY <4>1, <4>2, <2>3, <1>2
    <3>3. CASE refresh # None
      BY <3>1, <3>3 DEF TokensInv, Newest
    <3>4. QED
      BY <3>2, <3>3
  <2>5. t \in Valid
    BY <2>4, FreshIsGood DEF Fresh
  <2>6. /\ expiry[t] <= expiry[jwt[s]] /\ expiry[t] \in Nat
        /\ expiry[jwt[s]] \in Nat
    BY <2>2, <2>5, <1>2 DEF Valid
  <2>7. refresh # None => now = Day
    BY <1>2 DEF OnTime, Day
  <2>8. expiry[t] > now + RunTime
    BY <2>3, <2>4, <2>6, <2>7, <1>2
  <2>9. QED
    BY <2>2, <2>6, <2>8, <1>2
<1>8. CASE RunEnds
  BY <1>8 DEF RunEnds, NoRun, RunLasts
<1>9. CASE Rotate \/ Start
  BY <1>5, <1>9 DEF Rotate, Start, TokenNeeded
<1>10. CASE Refused \/ Missed \/ Crash \/ Rollback
  BY <1>1, <1>10 DEF Refused, Missed, Crash, Rollback
<1>11. ASSUME NEW s \in Schedules, Update(s) PROVE RunLasts'
  BY <1>1, <1>11 DEF Update
<1>12. ASSUME NEW s \in Sources, EnableOpen(s) \/ EnableWrite(s) \/ Disable(s)
       PROVE  RunLasts'
  BY <1>1, <1>12 DEF EnableOpen, EnableWrite, Disable
<1>13. QED
  BY <1>3, <1>4, <1>6, <1>7, <1>8, <1>9, <1>10, <1>11, <1>12 DEF Next

\* When syncs run shorter than the interval and tokens last two of them or more,
\* a sync that has started with the newest token has access to its end.
THEOREM RunsKeepAccess ==
  ASSUME Duration >= Interval + Interval, RunTime < Interval
  PROVE  Spec => []RunKeepsAccess
<1> DEFINE Inv == TypeInv /\ RefreshInv /\ TokensInv /\ OnTime /\ RunLasts
<1>1. Init => Inv
  <2>1. Init => OnTime /\ RunLasts
    BY DEF Init, OnTime, RunLasts, NoRun
  <2>2. QED
    BY <2>1, InitType, TokensInit
<1>2. Duration > Interval
  BY WorkerCredentialsAssumption
<1>3. Inv /\ [Next]_vars => Inv'
  BY <1>2, TokensStep, RefreshStep, StepType, OnTimeStep, RunStep
<1>4. Inv => RunKeepsAccess
  <2> SUFFICES ASSUME Inv, run.newest PROVE Good(run.token)
    BY DEF RunKeepsAccess
  <2>1. /\ now \in Nat /\ run.left \in Nat
        /\ run.token \in known /\ expiry[run.token] \in Nat
    BY WorkerCredentialsAssumption DEF RunLasts, TypeInv, TypeOK
  <2>2. QED
    BY <2>1 DEF RunLasts, Good
<1>5. QED
  BY <1>1, <1>3, <1>4, PTL DEF Spec


=============================================================================

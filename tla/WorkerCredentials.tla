------------------------- MODULE WorkerCredentials -------------------------
(***************************************************************************)
(* The JWTs that workers call the API with.  A JWT is good while its row   *)
(* is in the token table and has not expired; workers get it from the      *)
(* arguments of the schedule that started their workflow.                  *)
(*                                                                         *)
(* A workflow that a schedule of its own starts every day asks the API     *)
(* for a new token, and the API writes it to all schedules before the      *)
(* transaction that holds its row commits.  Other requests write schedules *)
(* meanwhile, with the token that they see.  The API server does the same  *)
(* work when it starts.                                                    *)
(*                                                                         *)
(* Time passes in units; what is requested within a unit ends within it.   *)
(***************************************************************************)
EXTENDS Integers, FiniteSets

CONSTANTS
    Sources,     \* boot sources, each with one schedule here
    Own,         \* the schedule of the refresh itself
    Tokens,      \* tokens that may exist at once
    None,        \* no token
    Blank,       \* the empty string in place of a token
    RunTime,     \* bound: units that a sync runs
    Interval,    \* WORKER_JWT_REFRESH_INTERVAL, in units
    Duration,    \* WORKER_TOKEN_DURATION, in units
    MaxTime,     \* bound: units that pass
    FaultKinds,  \* the faults that may happen
    MaxFaults    \* bound: how many of them

AllFaults == {"crash", "rollback", "missed"}
Schedules == Sources \cup {Own}

ASSUME WorkerCredentialsAssumption ==
    /\ Own \notin Sources
    /\ {None, Blank} \cap Tokens = {}
    /\ None # Blank
    /\ RunTime \in Nat
    /\ Interval \in Nat \ {0}
    /\ Duration \in Nat \ {0}
    /\ MaxTime \in Nat
    /\ FaultKinds \subseteq AllFaults
    /\ MaxFaults \in Nat

VARIABLES
    now,      \* the time
    expiry,   \* token -> when it expires
    known,    \* tokens with a committed row
    jwt,      \* schedule -> the token in its arguments, None without schedule
    up,       \* is the API server up?
    tx,       \* the open transaction that renews the tokens
    setting,  \* source -> the token an open enable_sync is going to write
    refresh,  \* the refresh workflow: the token it has, None when not running
    run,      \* a sync workflow: its token, and whether that was the newest
    late,     \* history: "missed" since a daily refresh was, "kept" since the
              \* server started after that and kept its token, or "no"
    faults    \* how many faults have happened

vars == <<now, expiry, known, jwt, up, tx, setting, refresh, run, late, faults>>

NoTx  == [op |-> "none", made |-> None, gone |-> {}, left |-> {}]
NoRun == [token |-> None, left |-> 0, newest |-> FALSE]

TypeOK ==
    /\ now \in 0..MaxTime
    /\ expiry \in [Tokens -> 0..(MaxTime + Duration)]
    /\ known \in SUBSET Tokens
    /\ jwt \in [Schedules -> Tokens \cup {None, Blank}]
    /\ up \in BOOLEAN
    /\ tx \in [op : {"none", "rotate", "start"}, made : Tokens \cup {None},
               gone : SUBSET Tokens, left : SUBSET Schedules]
    /\ setting \in [Sources -> Tokens \cup {None, Blank}]
    /\ refresh \in Tokens \cup {None}
    /\ run \in [token : Tokens \cup {None}, left : 0..RunTime, newest : BOOLEAN]
    /\ late \in {"no", "missed", "kept"}
    /\ faults \in 0..MaxFaults

\* The server has not been started yet, and its database is empty.
Init ==
    /\ now = 0
    /\ expiry = [t \in Tokens |-> 0]
    /\ known = {}
    /\ jwt = [s \in Schedules |-> None]
    /\ up = FALSE
    /\ tx = NoTx
    /\ setting = [s \in Sources |-> None]
    /\ refresh = None
    /\ run = NoRun
    /\ late = "no"
    /\ faults = 0

Fault(kind) ==
    /\ kind \in FaultKinds
    /\ faults < MaxFaults
    /\ faults' = faults + 1

\* authenticated_worker: the row is there, and has not expired.
Good(t) == t \in known /\ expiry[t] > now

\* Rows that have not expired, and those that have.
Valid   == {t \in known : expiry[t] > now}
Expired == known \ Valid

\* get_worker_credentials: the token that lasts longest, if there is one.
Longest(S) == {t \in S : \A u \in S : expiry[u] <= expiry[t]}

-----------------------------------------------------------------------------
(* Making a token, in a transaction that is not committed yet.              *)

\* Mutant of Gone: "replaces the old one in the database".
GoneAll == known

\* delete_expired
Gone == Expired

\* Mutant of TokenNeeded: a token that is about to expire will do.
TokenNeededWhenExpired == Valid = {}

\* ensure: was a token deleted, is there none, or does one expire before the
\* next refresh (and five minutes, less than a unit)?
TokenNeeded ==
    \/ Gone # {}
    \/ Valid = {}
    \/ \E t \in Valid : expiry[t] <= now + Interval

\* Tokens that nothing holds any more may stand for new ones.
Unheld ==
    Tokens \ (known \cup {run.token, refresh} \cup {jwt[s] : s \in Schedules}
                  \cup {setting[s] : s \in Sources})

\* The transaction op begins, and will write its token to the schedules in S.
Begin(op, S, needed) ==
    /\ tx = NoTx
    /\ IF needed
       THEN \E t \in Unheld :
              /\ expiry' = [u \in Tokens |-> IF u = t THEN now + Duration
                                              ELSE IF u \in Unheld THEN 0
                                              ELSE expiry[u]]
              /\ tx' = [op |-> op, made |-> t, gone |-> Gone, left |-> S]
       ELSE /\ tx' = [op |-> op, made |-> None, gone |-> Gone, left |-> S]
            /\ UNCHANGED expiry
    /\ UNCHANGED <<now, known, jwt, up, setting, refresh, run, late, faults>>

\* The token a transaction writes to a schedule.
Written(s) == IF tx.made # None THEN {tx.made} ELSE Longest(Valid)

\* The schedule is updated; this takes effect at once.
Update(s) ==
    /\ s \in tx.left
    /\ jwt[s] # None \/ (s = Own /\ tx.op = "start")
    /\ \E t \in Written(s) : jwt' = [jwt EXCEPT ![s] = t]
    /\ tx' = [tx EXCEPT !.left = @ \ {s}]
    /\ UNCHANGED <<now, expiry, known, up, setting, refresh, run, late, faults>>

\* Mutant of Made: a row is inserted whether a token was made or not.
MadeAlways == {tx.made}

\* The row that the transaction inserts, if it makes a token.
Made == {tx.made} \ {None}

Commit ==
    /\ tx # NoTx
    /\ tx.left = {}
    /\ known' = (known \ tx.gone) \cup Made
    /\ tx' = NoTx
    /\ IF tx.op = "start"
       THEN /\ up' = TRUE
            /\ late' = IF tx.made # None THEN "no"
                       ELSE IF late = "missed" THEN "kept" ELSE late
            /\ UNCHANGED refresh
       ELSE refresh' = None /\ UNCHANGED <<up, late>>
    /\ UNCHANGED <<now, expiry, jwt, setting, run, faults>>

\* A schedule has vanished since it was listed, or the database fails: the rows
\* are rolled back, the schedules that were updated are not.
Rollback ==
    /\ tx # NoTx
    /\ \/ \E s \in tx.left : jwt[s] = None /\ s # Own /\ UNCHANGED faults
       \/ Fault("rollback")
    /\ tx' = NoTx
    /\ UNCHANGED <<now, expiry, known, jwt, up, setting, refresh, run, late>>

-----------------------------------------------------------------------------
(* The daily refresh.                                                       *)

\* A unit has passed.  When a day has, the refresh workflow starts, with the
\* token its schedule has.  It is given up, in five minutes, only by a fault.
Tick ==
    /\ now < MaxTime
    /\ tx = NoTx
    /\ refresh = None
    /\ \A s \in Sources : setting[s] = None
    /\ now' = now + 1
    /\ IF run = NoRun THEN UNCHANGED run
       ELSE run.left > 0 /\ run' = [run EXCEPT !.left = @ - 1]
    /\ refresh' = IF now' % Interval = 0 THEN jwt[Own] ELSE None
    /\ UNCHANGED <<expiry, known, jwt, up, tx, setting, late, faults>>

\* POST /worker-refresh.
Rotate ==
    /\ up
    /\ refresh # None
    /\ Good(refresh)
    /\ Begin("rotate", {s \in Schedules : jwt[s] # None}, TRUE)

\* 401 is not retried.
Refused ==
    /\ up
    /\ tx = NoTx
    /\ refresh # None
    /\ ~Good(refresh)
    /\ refresh' = None
    /\ UNCHANGED <<now, expiry, known, jwt, up, tx, setting, run, late, faults>>

\* The workflow reaches its execution timeout, with the API down or failing.
Missed ==
    /\ refresh # None
    /\ tx = NoTx
    /\ Fault("missed")
    /\ refresh' = None
    /\ late' = "missed"
    /\ UNCHANGED <<now, expiry, known, jwt, up, tx, setting, run>>

\* The API server starts: ensure of the tokens and of the boot sources.
Start ==
    /\ ~up
    /\ Begin("start", {s \in Schedules : jwt[s] # None} \cup {Own}, TokenNeeded)

\* The API server dies.
Crash ==
    /\ up \/ tx # NoTx
    /\ Fault("crash")
    /\ up' = FALSE
    /\ tx' = NoTx
    /\ setting' = [s \in Sources |-> None]
    /\ UNCHANGED <<now, expiry, known, jwt, refresh, run, late>>

-----------------------------------------------------------------------------
(* Other requests, and the workflows that use the tokens.                   *)

\* enable_sync reads the token that lasts longest, or "" when there is none ...
EnableOpen(s) ==
    /\ up
    /\ setting[s] = None
    /\ \E t \in IF Valid = {} THEN {Blank} ELSE Longest(Valid) :
         setting' = [setting EXCEPT ![s] = t]
    /\ UNCHANGED <<now, expiry, known, jwt, up, tx, refresh, run, late, faults>>

\* ... and writes it to the schedules of the source, which it may create.
EnableWrite(s) ==
    /\ setting[s] # None
    /\ jwt' = [jwt EXCEPT ![s] = setting[s]]
    /\ setting' = [setting EXCEPT ![s] = None]
    /\ UNCHANGED <<now, expiry, known, up, tx, refresh, run, late, faults>>

\* disable_sync
Disable(s) ==
    /\ up
    /\ jwt[s] # None
    /\ jwt' = [jwt EXCEPT ![s] = None]
    /\ UNCHANGED <<now, expiry, known, up, tx, setting, refresh, run, late, faults>>

\* A schedule starts a sync, which has the token of its arguments to its end.
RunStarts(s) ==
    /\ run = NoRun
    /\ jwt[s] \in Tokens
    /\ run' = [token |-> jwt[s], left |-> RunTime,
               newest |-> late = "no" /\ jwt[s] \in Longest(Valid)]
    /\ UNCHANGED <<now, expiry, known, jwt, up, tx, setting, refresh, late, faults>>

RunEnds ==
    /\ run # NoRun
    /\ run' = NoRun
    /\ UNCHANGED <<now, expiry, known, jwt, up, tx, setting, refresh, late, faults>>

Next ==
    \/ Tick
    \/ Rotate \/ Refused \/ Missed
    \/ Start \/ Crash
    \/ \E s \in Schedules : Update(s)
    \/ Commit \/ Rollback
    \/ \E s \in Sources : EnableOpen(s) \/ EnableWrite(s) \/ Disable(s) \/ RunStarts(s)
    \/ RunEnds

Spec == Init /\ [][Next]_vars

-----------------------------------------------------------------------------
(* Properties.                                                              *)

\* As long as no daily refresh is missed, and once one has ended, every schedule
\* starts its workflows with a token that the API accepts.  This is so however
\* requests that enable a source race the refresh, however often the refresh
\* fails and is tried again, and when the server dies in the middle of it.
ScheduledTokenIsGood ==
    up /\ tx = NoTx /\ refresh = None /\ late = "no" =>
        \A s \in Schedules : jwt[s] # None => Good(jwt[s])

\* A start of the server sets the refresh going again, whatever was missed
\* before: it keeps a token only if that lasts until the next refresh.
RefreshGoesOn ==
    up /\ tx = NoTx /\ refresh = None /\ late # "missed" => Good(jwt[Own])

\* A sync that starts with the newest token, when no refresh was missed, has
\* access to its end: a refresh leaves the token of the syncs that are running.
RunKeepsAccess == run.newest => Good(run.token)
=============================================================================

----------------------------- MODULE SiteConfig -----------------------------
(***************************************************************************)
(* Site profiles, and what the sites make of them.                         *)
(*                                                                         *)
(* Users keep profiles, give each site one, and ask sites to synchronise   *)
(* their images.  A site fetches its configuration and reports its status. *)
(* Every request of a site first updates the site's row of site_data, and  *)
(* holds the lock of that row until it commits: the requests of one site   *)
(* queue up, each with what it has read of the site before it had to wait. *)
(***************************************************************************)
EXTENDS FiniteSets

CONSTANTS
    Sites,      \* ids of accepted sites
    Profiles,   \* ids of site_profile rows: a sequence that starts at 2
    Default,    \* DEFAULT_SITE_PROFILE_ID, a row that cannot be changed
    Keys,       \* the options of a global configuration
    Values,     \* their values, the system's default among them
    NewRows,    \* the bodies of the POST requests to profiles that are made
    Changes,    \* those of the PATCH requests
    Requests,   \* API requests that may be open at once
    Gone,       \* the row was deleted: its id is not used again
    None        \* no row yet, no value

\* The stored JSON leaves out an option that has the default value, so that it
\* stands for a value of every option: merging two of them and filtering out
\* the defaults is to override one by the other.
Rows == [selections : Values, config : [Keys -> Values]]

\* A field that is None is left out of the request.
Bodies == [selections : Values \cup {None}, config : [Keys -> Values \cup {None}]]

SiteConfigAssumption ==
    /\ NewRows \subseteq Rows
    /\ Changes \subseteq Bodies
    /\ None \notin Values \cup Rows \cup Profiles \cup Sites \cup BOOLEAN
    /\ None \notin [Keys -> Values]
    /\ Gone \notin Rows \cup {None}
    /\ Default \notin Profiles
    /\ Default # None

VARIABLES
    profile,  \* id -> its row, None or Gone
    asked,    \* history: id -> each field as the last request to set it wanted
    crossed,  \* history: ids some change of which was computed from a row
              \* that another change was committed to meanwhile
    site,     \* site -> its row
    state,    \* site -> image_sync_status of its row of site_state_status, or None
    maas,     \* site -> how far the image synchronisation at the site is
    pending,  \* history: sites asked to synchronise that were at rest then and
              \* have not been told since
    req       \* request -> what it does, with what it has read

vars == <<profile, asked, crossed, site, state, maas, pending, req>>
profileVars == <<profile, asked, crossed>>
siteVars == <<site, state, maas, pending>>

SiteRows == [profile : Profiles \cup {Default, None}, trigger : BOOLEAN,
             known : BOOLEAN, deleted : BOOLEAN]

TaskStatus == {"UNKNOWN", "STARTED", "COMPLETE", "FAILED"}

ProfileOps == {"post", "patch", "delete"}
SiteOps == {"details", "config", "status"}

RequestStates ==
    [op : {"idle", "patch_site"} \cup ProfileOps \cup SiteOps,
     step : {"check", "read", "write", "lock", "run"},
     id : Profiles \cup {Default, None}, site : Sites \cup {None},
     body : Changes \cup {None}, config : [Keys -> Values] \cup {None},
     flag : BOOLEAN \cup {None}, status : TaskStatus \cup {None},
     stale : BOOLEAN, new : BOOLEAN]

Idle == [op |-> "idle", step |-> "check", id |-> None, site |-> None,
         body |-> None, config |-> None, flag |-> None, status |-> None,
         stale |-> FALSE, new |-> FALSE]

TypeOK ==
    /\ profile \in [Profiles -> Rows \cup {None, Gone}]
    /\ asked \in [Profiles -> Rows \cup {None, Gone}]
    /\ crossed \subseteq Profiles
    /\ site \in [Sites -> SiteRows]
    /\ state \in [Sites -> TaskStatus \cup {None}]
    /\ maas \in [Sites -> {"rest", "told", "syncing"}]
    /\ pending \subseteq Sites
    /\ req \in [Requests -> RequestStates]

Init ==
    /\ profile = [p \in Profiles |-> None]
    /\ asked = [p \in Profiles |-> None]
    /\ crossed = {}
    /\ site = [s \in Sites |-> [profile |-> None, trigger |-> FALSE,
                                known |-> FALSE, deleted |-> FALSE]]
    /\ state = [s \in Sites |-> None]
    /\ maas = [s \in Sites |-> "rest"]
    /\ pending = {}
    /\ req = [r \in Requests |-> Idle]

-----------------------------------------------------------------------------
At(r, op, step) == req[r].op = op /\ req[r].step = step

Open(r, request) ==
    /\ req[r] = Idle
    /\ req' = [req EXCEPT ![r] = request]
    /\ UNCHANGED <<profileVars, siteVars>>

Move(r, step) == req' = [req EXCEPT ![r].step = step]
Close(r) == req' = [req EXCEPT ![r] = Idle]

\* An exception, a failure of the database or the end of the server: the
\* transaction is rolled back.
Abort(r) == req[r] # Idle /\ Close(r) /\ UNCHANGED <<profileVars, siteVars>>

ProfileExists(p) == p # Default => profile[p] \notin {None, Gone}

-----------------------------------------------------------------------------
(* Profiles.                                                                *)

\* POST /profiles: a body with selections; options left out have a default.
CreateProfile(p, row) ==
    /\ profile[p] = None
    /\ profile' = [profile EXCEPT ![p] = row]
    /\ asked' = [asked EXCEPT ![p] = row]
    /\ UNCHANGED <<crossed, siteVars, req>>

\* id: Path(gt=DEFAULT_SITE_PROFILE_ID).
OpenPatch(r, p, body) ==
    Open(r, [Idle EXCEPT !.op = "patch", !.id = p, !.body = body])

OpenDelete(r, p) == Open(r, [Idle EXCEPT !.op = "delete", !.id = p])

HasConfig(body) == \E k \in Keys : body.config[k] # None

\* The profile exists, and so do the selections of the body (or else Abort).
CheckProfile(r) ==
    LET q == req[r] IN
    /\ q.op \in {"patch", "delete"}
    /\ q.step = "check"
    /\ ProfileExists(q.id)
    /\ Move(r, IF q.op = "patch" /\ HasConfig(q.body) THEN "read" ELSE "write")
    /\ UNCHANGED <<profileVars, siteVars>>

\* Mutant of Merged: the options replace the stored ones.
Replaced(stored, body) ==
    [k \in Keys |-> IF body[k] # None THEN body[k] ELSE CHOOSE v \in Values : TRUE]

\* stored_config | patch_request.global_config
Merged(stored, body) == [k \in Keys |-> IF body[k] # None THEN body[k] ELSE stored[k]]

\* get_stored_config_by_id; a row that is gone will make the UPDATE fail.
ReadConfig(r) ==
    LET q == req[r] IN
    /\ At(r, "patch", "read")
    /\ ProfileExists(q.id)
    /\ req' = [req EXCEPT ![r].step = "write",
                          ![r].config = Merged(profile[q.id].config, q.body.config)]
    /\ UNCHANGED <<profileVars, siteVars>>

\* What others have read of profile p is out of date.
Overtake(r, p) ==
    req' = [x \in Requests |->
               IF x = r THEN Idle
               ELSE IF req[x].id = p /\ req[x].config # None
               THEN [req[x] EXCEPT !.stale = TRUE]
               ELSE req[x]]

\* UPDATE of the columns that the request sets; .one() raises if no row is left.
WriteProfile(r) ==
    LET q == req[r]
        Selections(row) == IF q.body.selections # None THEN q.body.selections
                           ELSE row.selections
    IN  /\ At(r, "patch", "write")
        /\ ProfileExists(q.id)
        /\ profile' = [profile EXCEPT ![q.id] =
               [selections |-> Selections(@),
                config |-> IF q.config # None THEN q.config ELSE @.config]]
        /\ asked' = [asked EXCEPT ![q.id] =
               [selections |-> Selections(@),
                config |-> [k \in Keys |-> IF q.body.config[k] # None
                                           THEN q.body.config[k] ELSE @.config[k]]]]
        /\ crossed' = IF q.stale THEN crossed \cup {q.id} ELSE crossed
        /\ IF q.config # None THEN Overtake(r, q.id) ELSE Close(r)
        /\ UNCHANGED siteVars

\* ON DELETE RESTRICT, and a deleted site keeps its row.
Referenced(p) == \E s \in Sites : site[s].profile = p

DeleteProfile(r) ==
    LET p == req[r].id IN
    /\ At(r, "delete", "write")
    /\ ~Referenced(p)
    /\ profile' = [profile EXCEPT ![p] = Gone]
    /\ asked' = [asked EXCEPT ![p] = Gone]
    /\ crossed' = crossed \ {p}
    /\ Close(r)
    /\ UNCHANGED siteVars

-----------------------------------------------------------------------------
(* Users change sites.                                                      *)

\* PATCH /sites/{id} with a profile (or None) and trigger_image_sync (or None).
OpenPatchSite(r, s, p, trigger) ==
    /\ p # None \/ trigger # None
    /\ Open(r, [Idle EXCEPT !.op = "patch_site", !.site = s, !.id = p, !.flag = trigger])

\* The site exists, so does the profile, and the site knows its options.
CheckSite(r) ==
    LET q == req[r] IN
    /\ At(r, "patch_site", "check")
    /\ ~site[q.site].deleted
    /\ q.id # None => ProfileExists(q.id) /\ site[q.site].known
    /\ Move(r, "write")
    /\ UNCHANGED <<profileVars, siteVars>>

\* A report of site s on its images is on its way.
Reporting(s) ==
    \E r \in Requests : /\ req[r].op = "status"
                       /\ req[r].site = s
                       /\ req[r].status \in {"STARTED", "COMPLETE", "FAILED"}

\* The site has no synchronisation under way, nor been told to have one.
AtRest(s) == maas[s] = "rest" /\ ~Reporting(s)

\* UPDATE; the foreign key refuses a profile that is gone, and the row of the
\* site may be locked by a request of the site.
WriteSite(r) ==
    LET q == req[r]
        s == q.site
    IN  /\ At(r, "patch_site", "write")
        /\ q.id # None => ProfileExists(q.id)
        /\ site' = [site EXCEPT ![s].profile = IF q.id # None THEN q.id ELSE @,
                                ![s].trigger = IF q.flag # None THEN q.flag ELSE @]
        /\ pending' = CASE q.flag = TRUE /\ AtRest(s) -> pending \cup {s}
                        [] q.flag = FALSE -> pending \ {s}
                        [] OTHER -> pending
        /\ Close(r)
        /\ UNCHANGED <<profileVars, state, maas>>

DeleteSite(s) ==
    /\ ~site[s].deleted
    /\ site' = [site EXCEPT ![s].deleted = TRUE]
    /\ UNCHANGED <<profileVars, state, maas, pending, req>>

-----------------------------------------------------------------------------
(* Requests of sites.                                                       *)

\* authenticated_site reads the site: flag is trigger_image_sync as it is now.
OpenConfig(r, s) ==
    /\ ~site[s].deleted
    /\ Open(r, [Idle EXCEPT !.op = "config", !.step = "lock", !.site = s,
                            !.flag = site[s].trigger])

\* POST /details, where the site tells whether it knows the options.
OpenDetails(r, s, known) ==
    /\ ~site[s].deleted
    /\ Open(r, [Idle EXCEPT !.op = "details", !.step = "lock", !.site = s,
                            !.flag = known])

\* PATCH /site-status.  The report on the images is "UNKNOWN" unless a
\* synchronisation goes on, and None when it is on other tasks (external).
OpenStatus(r, s, status) ==
    /\ ~site[s].deleted
    /\ status = "STARTED" => maas[s] = "told" /\ ~Reporting(s)
    /\ status \in {"COMPLETE", "FAILED"} => maas[s] = "syncing" /\ ~Reporting(s)
    /\ Open(r, [Idle EXCEPT !.op = "status", !.step = "lock", !.site = s,
                            !.status = status])

\* The row of site_data is locked by a request of the site.
Locked(s) == \E r \in Requests : req[r].site = s /\ req[r].step \in {"read", "run"}

\* Mutant of Lock: authentication does not write.
LockNothing(r) ==
    /\ req[r].step = "lock"
    /\ Move(r, IF req[r].op = "status" THEN "read" ELSE "run")
    /\ UNCHANGED <<profileVars, siteVars>>

\* update_last_seen, INSERT ... ON CONFLICT DO UPDATE.
Lock(r) ==
    /\ req[r].step = "lock"
    /\ ~Locked(req[r].site)
    /\ Move(r, IF req[r].op = "status" THEN "read" ELSE "run")
    /\ UNCHANGED <<profileVars, siteVars>>

\* GET /site-config: the trigger as it was read with the site (and the profile
\* as it is now, or 404).  Told to synchronise, the site will; the answer may
\* also be lost.
AnswerConfig(r) ==
    LET q == req[r]
        s == q.site
    IN  /\ At(r, "config", "run")
        /\ site[s].profile # None
        /\ \/ /\ q.flag = TRUE
              /\ maas' = [maas EXCEPT ![s] = IF @ = "rest" THEN "told" ELSE @]
              /\ pending' = pending \ {s}
           \/ UNCHANGED <<maas, pending>>
        /\ Close(r)
        /\ UNCHANGED <<profileVars, site, state>>

\* POST /details: known_config_options are those of the site's version.
SaveDetails(r) ==
    LET q == req[r] IN
    /\ At(r, "details", "run")
    /\ site' = [site EXCEPT ![q.site].known = q.flag]
    /\ Close(r)
    /\ UNCHANGED <<profileVars, state, maas, pending>>

\* update_status looks for the state of the site: it is new when there is none yet.
ReadState(r) ==
    /\ At(r, "status", "read")
    /\ req' = [req EXCEPT ![r].step = "run", ![r].new = (state[req[r].site] = None)]
    /\ UNCHANGED <<profileVars, siteVars>>

\* Mutant of Resets: every report resets the trigger.
ResetsAlways(status) == TRUE

Resets(status) == status \in {"STARTED", "COMPLETE"}

\* ... creates it if there was none, which the unique index may refuse, updates
\* it, and resets the trigger.  Then the answer reaches the site or is lost,
\* and the site reports again.
SaveState(r) ==
    LET q == req[r]
        s == q.site
    IN  /\ At(r, "status", "run")
        /\ q.new => state[s] = None
        /\ state' = [state EXCEPT ![s] = IF q.status # None THEN q.status
                                           ELSE IF q.new THEN "UNKNOWN" ELSE @]
        /\ site' = [site EXCEPT ![s].trigger = @ /\ ~Resets(q.status)]
        /\ \/ maas' = [maas EXCEPT ![s] = CASE q.status = "STARTED" -> "syncing"
                                            [] q.status \in {"COMPLETE", "FAILED"} -> "rest"
                                            [] OTHER -> @]
           \/ UNCHANGED maas
        /\ Close(r)
        /\ UNCHANGED <<profileVars, pending>>

-----------------------------------------------------------------------------
UserStep(r) ==
    \/ \E p \in Profiles : OpenDelete(r, p) \/ \E body \in Changes : OpenPatch(r, p, body)
    \/ CheckProfile(r) \/ ReadConfig(r) \/ WriteProfile(r) \/ DeleteProfile(r)
    \/ \E s \in Sites, p \in Profiles \cup {Default, None}, t \in BOOLEAN \cup {None} :
         OpenPatchSite(r, s, p, t)
    \/ CheckSite(r) \/ WriteSite(r)

SiteStep(r) ==
    \/ \E s \in Sites :
         \/ OpenConfig(r, s)
         \/ \E known \in BOOLEAN : OpenDetails(r, s, known)
         \/ \E status \in TaskStatus \cup {None} : OpenStatus(r, s, status)
    \/ Lock(r) \/ AnswerConfig(r) \/ SaveDetails(r) \/ ReadState(r) \/ SaveState(r)

Next ==
    \/ \E p \in Profiles, row \in NewRows : CreateProfile(p, row)
    \/ \E s \in Sites : DeleteSite(s)
    \/ \E r \in Requests : UserStep(r) \/ SiteStep(r) \/ Abort(r)

Spec == Init /\ [][Next]_vars

-----------------------------------------------------------------------------
(* Properties.                                                              *)

\* A change of a profile sets what its body names and nothing else: each field
\* is what the last request to set it wanted.  Selections are written as such;
\* options are lost only when two changes of one profile have crossed.
ChangeIsKept ==
    \A p \in Profiles : ProfileExists(p) =>
        /\ profile[p].selections = asked[p].selections
        /\ p \in crossed \/ profile[p].config = asked[p].config

\* A site at rest that is asked to synchronise its images will see the request
\* in its configuration: no report on anything else, repeated or late, resets
\* trigger_image_sync before.  (A request made while the site synchronises may
\* be lost: the report of its completion resets it.)
TriggerReachesSite == \A s \in pending : site[s].trigger

\* The first two reports of a site cannot both create its state: the lock that
\* authentication takes lets the second one see what the first has created.
StateCreatedOnce ==
    \A r \in Requests : At(r, "status", "run") /\ req[r].new => state[req[r].site] = None
=============================================================================

-------------------------- MODULE SiteConfig_proofs --------------------------
(***************************************************************************)
(* Theorems about SiteConfig, for every set of sites, profiles, options,   *)
(* values and requests.                                                    *)
(***************************************************************************)
EXTENDS SiteConfig, TLAPS

-----------------------------------------------------------------------------
(* Types.                                                                  *)

\* What a request of each kind carries.
Carries ==
    \A r \in Requests :
        /\ req[r].op \in {"patch", "delete"} => req[r].id \in Profiles
        /\ req[r].op = "patch" => req[r].body \in Changes
        /\ req[r].op \in SiteOps \cup {"patch_site"} => req[r].site \in Sites
        /\ req[r].op = "patch_site" =>
             req[r].flag \in BOOLEAN \cup {None} /\ req[r].step \in {"check", "write"}
        /\ req[r].op = "details" => req[r].flag \in BOOLEAN
        /\ req[r].step = "lock" => req[r].op \in SiteOps
        /\ req[r].config # None => req[r].op = "patch" /\ req[r].step = "write"

\* The history of a profile is one of its row.
Remembered == \A p \in Profiles : ProfileExists(p) => asked[p] \in Rows

TypeInv == TypeOK /\ Carries /\ Remembered

LEMMA IdleType == ASSUME SiteConfigAssumption PROVE Idle \in RequestStates
  BY DEF Idle, RequestStates

LEMMA InitType == ASSUME SiteConfigAssumption, Init PROVE TypeInv
<1>1. Idle \in RequestStates
  BY IdleType
<1>2. Carries
  BY DEF Init, Carries, Idle, SiteOps
<1>3. site \in [Sites -> SiteRows]
  BY DEF Init, SiteRows
<1>4. Remembered
  BY DEF Init, Remembered, ProfileExists, SiteConfigAssumption
<1>5. QED
  BY <1>1, <1>2, <1>3, <1>4 DEF Init, TypeInv, TypeOK

LEMMA OpenType ==
  ASSUME TypeInv, NEW r \in Requests, NEW q \in RequestStates, Open(r, q),
         q.op \in {"patch", "delete"} => q.id \in Profiles,
         q.op = "patch" => q.body \in Changes,
         q.op \in SiteOps \cup {"patch_site"} => q.site \in Sites,
         q.op = "patch_site" => q.flag \in BOOLEAN \cup {None} /\ q.step \in {"check", "write"},
         q.op = "details" => q.flag \in BOOLEAN,
         q.step = "lock" => q.op \in SiteOps,
         q.config = None
  PROVE  TypeInv'
<1>1. Carries'
  BY DEF Open, TypeInv, TypeOK, Carries
<1>2. Remembered'
  BY DEF Open, TypeInv, Remembered, ProfileExists, profileVars
<1>3. QED
  BY <1>1, <1>2 DEF Open, TypeInv, TypeOK, profileVars, siteVars

LEMMA CloseType ==
  ASSUME SiteConfigAssumption, TypeInv, NEW r \in Requests, Close(r)
  PROVE  req' \in [Requests -> RequestStates] /\ Carries'
<1>1. Idle \in RequestStates
  BY IdleType
<1>2. Carries'
  BY DEF Close, TypeInv, TypeOK, Carries, Idle, SiteOps
<1>3. QED
  BY <1>1, <1>2 DEF Close, TypeInv, TypeOK

LEMMA MoveType ==
  ASSUME TypeInv, NEW r \in Requests, NEW step \in {"read", "write", "run"},
         Move(r, step), req[r].config = None,
         req[r].op = "patch_site" => step = "write"
  PROVE  req' \in [Requests -> RequestStates] /\ Carries'
<1>1. [req[r] EXCEPT !.step = step] \in RequestStates
  BY DEF TypeInv, TypeOK, RequestStates
<1>2. req' \in [Requests -> RequestStates]
  BY <1>1 DEF Move, TypeInv, TypeOK
<1>3. Carries'
  BY DEF Move, TypeInv, TypeOK, Carries, RequestStates
<1>4. QED
  BY <1>2, <1>3

LEMMA OvertakeType ==
  ASSUME SiteConfigAssumption, TypeInv, NEW r \in Requests, NEW p, Overtake(r, p)
  PROVE  req' \in [Requests -> RequestStates] /\ Carries'
<1>1. Idle \in RequestStates
  BY IdleType
<1>2. ASSUME NEW x \in Requests PROVE [req[x] EXCEPT !.stale = TRUE] \in RequestStates
  <2>1. req[x] \in RequestStates
    BY DEF TypeInv, TypeOK
  <2>2. QED
    BY <2>1 DEF RequestStates
<1>3. req' \in [Requests -> RequestStates]
  BY <1>1, <1>2 DEF Overtake, TypeInv, TypeOK
<1>4. Carries'
  <2>1. ASSUME NEW x \in Requests
        PROVE  \/ req'[x] = Idle
               \/ /\ req'[x].op = req[x].op /\ req'[x].id = req[x].id
                  /\ req'[x].body = req[x].body /\ req'[x].site = req[x].site
                  /\ req'[x].flag = req[x].flag /\ req'[x].step = req[x].step
                  /\ req'[x].config = req[x].config
    BY DEF Overtake, TypeInv, TypeOK, RequestStates
  <2>2. QED
    BY <2>1 DEF TypeInv, Carries, Idle, SiteOps
<1>5. QED
  BY <1>3, <1>4

LEMMA MergedType ==
  ASSUME SiteConfigAssumption, NEW row \in Rows, NEW body \in Changes
  PROVE  Merged(row.config, body.config) \in [Keys -> Values]
  BY DEF SiteConfigAssumption, Rows, Bodies, Merged

LEMMA ReadType ==
  ASSUME NEW q \in RequestStates, NEW config \in [Keys -> Values]
  PROVE  /\ [q EXCEPT !.step = "write", !.config = config] \in RequestStates
         /\ \A f \in {"op", "id", "body"} :
              [q EXCEPT !.step = "write", !.config = config][f] = q[f]
         /\ [q EXCEPT !.step = "write", !.config = config].step = "write"
  BY DEF RequestStates

LEMMA ProfileStepType ==
  ASSUME SiteConfigAssumption, TypeInv, NEW r \in Requests,
         CheckProfile(r) \/ ReadConfig(r) \/ WriteProfile(r) \/ DeleteProfile(r)
  PROVE  TypeInv'
<1> DEFINE q == req[r]
<1> USE DEF TypeInv
<1>1. CASE CheckProfile(r)
  <2>1. q.config = None /\ q.op # "patch_site"
    BY <1>1 DEF CheckProfile, Carries
  <2>2. PICK step \in {"read", "write"} : Move(r, step)
    BY <1>1 DEF CheckProfile
  <2>3. QED
    BY <1>1, <2>1, <2>2, MoveType
       DEF CheckProfile, TypeOK, profileVars, siteVars, Remembered, ProfileExists
<1>2. CASE ReadConfig(r)
  <2> DEFINE new == [q EXCEPT !.step = "write",
                              !.config = Merged(profile[q.id].config, q.body.config)]
  <2>1. q.op = "patch" /\ q.id \in Profiles /\ q.body \in Changes
    BY <1>2 DEF ReadConfig, At, Carries
  <2>2. profile[q.id] \in Rows
    BY <1>2, <2>1 DEF ReadConfig, ProfileExists, TypeOK, SiteConfigAssumption
  <2>3. Merged(profile[q.id].config, q.body.config) \in [Keys -> Values]
    BY <2>1, <2>2, MergedType
  <2>4. new \in RequestStates
    BY <2>3, ReadType DEF TypeOK
  <2>5. req' = [req EXCEPT ![r] = new]
    BY <1>2 DEF ReadConfig
  <2>6. new.op = q.op /\ new.id = q.id /\ new.body = q.body /\ new.step = "write"
    BY <2>3, ReadType DEF TypeOK
  <2>7. Carries' /\ Remembered'
    BY <1>2, <2>1, <2>5, <2>6
       DEF ReadConfig, Carries, TypeOK, SiteOps, Remembered, ProfileExists, profileVars
  <2>8. QED
    BY <1>2, <2>4, <2>5, <2>7 DEF ReadConfig, TypeOK, profileVars, siteVars
<1>3. CASE WriteProfile(r)
  <2>1. q.op = "patch" /\ q.id \in Profiles /\ q.body \in Changes
    BY <1>3 DEF WriteProfile, At, Carries
  <2>2. /\ q.body.selections \in Values \cup {None}
        /\ q.body.config \in [Keys -> Values \cup {None}]
    BY <2>1 DEF SiteConfigAssumption, Bodies
  <2>3. profile[q.id] \in Rows
    BY <1>3, <2>1 DEF WriteProfile, ProfileExists, TypeOK, SiteConfigAssumption
  <2>4. q.config \in [Keys -> Values] \cup {None}
    BY DEF TypeOK, RequestStates
  <2> DEFINE row == [selections |-> IF q.body.selections # None THEN q.body.selections
                                   ELSE profile[q.id].selections,
                    config |-> IF q.config # None THEN q.config
                               ELSE profile[q.id].config]
             old == asked[q.id]
             want == [selections |-> IF q.body.selections # None THEN q.body.selections
                                     ELSE old.selections,
                      config |-> [k \in Keys |-> IF q.body.config[k] # None
                                                 THEN q.body.config[k]
                                                 ELSE old.config[k]]]
  <2>5. row \in Rows
    BY <2>2, <2>3, <2>4 DEF Rows
  <2>6. want \in Rows
    <3>1. old \in Rows
      BY <1>3, <2>1 DEF WriteProfile, Remembered
    <3>2. QED
      BY <2>2, <3>1 DEF Rows
  <2>7. /\ profile' = [profile EXCEPT ![q.id] = row]
        /\ asked' = [asked EXCEPT ![q.id] = want]
    BY <1>3 DEF WriteProfile
  <2>8. req' \in [Requests -> RequestStates] /\ Carries'
    BY <1>3, OvertakeType, CloseType DEF WriteProfile
  <2>9. Remembered'
    BY <2>1, <2>6, <2>7 DEF Remembered, ProfileExists, TypeOK
  <2>10. profile' \in [Profiles -> Rows \cup {None, Gone}]
         /\ asked' \in [Profiles -> Rows \cup {None, Gone}]
    BY <2>5, <2>6, <2>7 DEF TypeOK
  <2>11. crossed' \subseteq Profiles /\ UNCHANGED siteVars
    BY <1>3, <2>1 DEF WriteProfile, TypeOK
  <2>12. QED
    BY <2>8, <2>9, <2>10, <2>11 DEF TypeOK, siteVars
<1>4. CASE DeleteProfile(r)
  <2>1. req' \in [Requests -> RequestStates] /\ Carries'
    BY <1>4, CloseType DEF DeleteProfile
  <2>2. q.id \in Profiles
    BY <1>4 DEF DeleteProfile, At, Carries
  <2>3. Remembered'
    BY <1>4, <2>2 DEF DeleteProfile, Remembered, ProfileExists, TypeOK, SiteConfigAssumption
  <2>4. QED
    BY <1>4, <2>1, <2>2, <2>3 DEF DeleteProfile, TypeOK, siteVars
<1>5. QED
  BY <1>1, <1>2, <1>3, <1>4

LEMMA RowType ==
  ASSUME NEW row \in SiteRows, NEW p \in Profiles \cup {Default, None},
         NEW t \in BOOLEAN
  PROVE  /\ [row EXCEPT !.profile = p, !.trigger = t] \in SiteRows
         /\ [row EXCEPT !.trigger = t] \in SiteRows
  BY DEF SiteRows

LEMMA UserStepType ==
  ASSUME SiteConfigAssumption, TypeInv, NEW r \in Requests, UserStep(r)
  PROVE  TypeInv'
<1> USE DEF TypeInv
<1>1. ASSUME NEW p \in Profiles, OpenDelete(r, p) PROVE TypeInv'
  <2> DEFINE q == [Idle EXCEPT !.op = "delete", !.id = p]
  <2>1. q \in RequestStates
    BY DEF Idle, RequestStates, ProfileOps
  <2>2. q.op = "delete" /\ q.id = p /\ q.step = "check" /\ q.config = None
    BY DEF Idle
  <2>3. Open(r, q)
    BY <1>1 DEF OpenDelete
  <2> HIDE DEF q
  <2>4. QED
    BY <2>1, <2>2, <2>3, OpenType DEF SiteOps
<1>2. ASSUME NEW p \in Profiles, NEW body \in Changes, OpenPatch(r, p, body)
      PROVE  TypeInv'
  <2> DEFINE q == [Idle EXCEPT !.op = "patch", !.id = p, !.body = body]
  <2>1. q \in RequestStates
    BY DEF Idle, RequestStates, ProfileOps
  <2>2. /\ q.op = "patch" /\ q.id = p /\ q.body = body /\ q.step = "check"
        /\ q.config = None
    BY DEF Idle
  <2>3. Open(r, q)
    BY <1>2 DEF OpenPatch
  <2> HIDE DEF q
  <2>4. QED
    BY <2>1, <2>2, <2>3, OpenType DEF SiteOps
<1>3. CASE CheckProfile(r) \/ ReadConfig(r) \/ WriteProfile(r) \/ DeleteProfile(r)
  BY <1>3, ProfileStepType
<1>4. ASSUME NEW s \in Sites, NEW p \in Profiles \cup {Default, None},
             NEW t \in BOOLEAN \cup {None}, OpenPatchSite(r, s, p, t)
      PROVE  TypeInv'
  <2> DEFINE q == [Idle EXCEPT !.op = "patch_site", !.site = s, !.id = p, !.flag = t]
  <2>1. q \in RequestStates
    BY DEF Idle, RequestStates
  <2>2. /\ q.op = "patch_site" /\ q.site = s /\ q.flag = t /\ q.step = "check"
        /\ q.config = None
    BY DEF Idle
  <2>3. Open(r, q)
    BY <1>4 DEF OpenPatchSite
  <2> HIDE DEF q
  <2>4. QED
    BY <2>1, <2>2, <2>3, OpenType
<1>5. CASE CheckSite(r)
  <2>1. req[r].config = None /\ Move(r, "write")
    BY <1>5 DEF CheckSite, At, Carries
  <2>2. QED
    BY <1>5, <2>1, MoveType
       DEF CheckSite, TypeOK, profileVars, siteVars, Remembered, ProfileExists
<1>6. CASE WriteSite(r)
  <2> DEFINE q == req[r]
  <2>1. /\ q.site \in Sites /\ q.flag \in BOOLEAN \cup {None}
        /\ q.id \in Profiles \cup {Default, None}
    BY <1>6 DEF WriteSite, At, Carries, TypeOK, RequestStates
  <2> DEFINE row == [site[q.site] EXCEPT
                       !.profile = IF q.id # None THEN q.id ELSE site[q.site].profile,
                       !.trigger = IF q.flag # None THEN q.flag ELSE site[q.site].trigger]
  <2>2. row \in SiteRows
    <3>1. site[q.site] \in SiteRows
      BY <2>1 DEF TypeOK
    <3>2. (IF q.id # None THEN q.id ELSE site[q.site].profile)
            \in Profiles \cup {Default, None}
      BY <2>1, <3>1 DEF SiteRows
    <3>3. (IF q.flag # None THEN q.flag ELSE site[q.site].trigger) \in BOOLEAN
      BY <2>1, <3>1 DEF SiteRows
    <3>4. QED
      BY <3>1, <3>2, <3>3, RowType
  <2>3. site' = [site EXCEPT ![q.site] = row]
    BY <1>6, <2>1 DEF WriteSite, TypeOK
  <2>4. pending' \subseteq Sites
    BY <1>6, <2>1 DEF WriteSite, TypeOK
  <2>5. req' \in [Requests -> RequestStates] /\ Carries'
    BY <1>6, CloseType DEF WriteSite
  <2>6. UNCHANGED <<profileVars, state, maas>>
    BY <1>6 DEF WriteSite
  <2>7. QED
    BY <2>1, <2>2, <2>3, <2>4, <2>5, <2>6
       DEF TypeOK, profileVars, Remembered, ProfileExists
<1>7. QED
  BY <1>1, <1>2, <1>3, <1>4, <1>5, <1>6 DEF UserStep

LEMMA NewType ==
  ASSUME NEW q \in RequestStates, NEW new \in BOOLEAN
  PROVE  [q EXCEPT !.step = "run", !.new = new] \in RequestStates
  BY DEF RequestStates

LEMMA SiteStepType ==
  ASSUME SiteConfigAssumption, TypeInv, NEW r \in Requests, SiteStep(r)
  PROVE  TypeInv'
<1> USE DEF TypeInv
<1>1. ASSUME NEW s \in Sites, OpenConfig(r, s) PROVE TypeInv'
  <2> DEFINE q == [Idle EXCEPT !.op = "config", !.step = "lock", !.site = s,
                               !.flag = site[s].trigger]
  <2>1. q \in RequestStates
    BY DEF Idle, RequestStates, SiteOps, TypeOK, SiteRows
  <2>2. q.op = "config" /\ q.site = s /\ q.step = "lock" /\ q.config = None
    BY DEF Idle
  <2>3. Carries' /\ Remembered'
    BY <1>1, <2>1, <2>2 DEF OpenConfig, Open, Carries, TypeOK, SiteOps, Remembered,
                            ProfileExists, profileVars
  <2>4. QED
    BY <1>1, <2>1, <2>3 DEF OpenConfig, Open, TypeOK, profileVars, siteVars
<1>2. ASSUME NEW s \in Sites, NEW known \in BOOLEAN, OpenDetails(r, s, known)
      PROVE  TypeInv'
  <2> DEFINE q == [Idle EXCEPT !.op = "details", !.step = "lock", !.site = s,
                               !.flag = known]
  <2>1. q \in RequestStates
    BY DEF Idle, RequestStates, SiteOps
  <2>2. /\ q.op = "details" /\ q.site = s /\ q.step = "lock" /\ q.config = None
        /\ q.flag = known
    BY DEF Idle
  <2>3. Open(r, q)
    BY <1>2 DEF OpenDetails
  <2> HIDE DEF q
  <2>4. QED
    BY <2>1, <2>2, <2>3, OpenType DEF SiteOps
<1>3. ASSUME NEW s \in Sites, NEW status \in TaskStatus \cup {None},
             OpenStatus(r, s, status)
      PROVE  TypeInv'
  <2> DEFINE q == [Idle EXCEPT !.op = "status", !.step = "lock", !.site = s,
                               !.status = status]
  <2>1. q \in RequestStates
    BY DEF Idle, RequestStates, SiteOps
  <2>2. q.op = "status" /\ q.site = s /\ q.step = "lock" /\ q.config = None
    BY DEF Idle
  <2>3. Open(r, q)
    BY <1>3 DEF OpenStatus
  <2> HIDE DEF q
  <2>4. QED
    BY <2>1, <2>2, <2>3, OpenType DEF SiteOps
<1>4. CASE Lock(r)
  <2>1. req[r].config = None /\ req[r].op # "patch_site"
    BY <1>4 DEF Lock, Carries, SiteOps
  <2>2. PICK step \in {"read", "run"} : Move(r, step)
    BY <1>4 DEF Lock
  <2>3. QED
    BY <1>4, <2>1, <2>2, MoveType
       DEF Lock, TypeOK, profileVars, siteVars, Remembered, ProfileExists
<1>5. CASE AnswerConfig(r)
  <2>1. req[r].site \in Sites
    BY <1>5 DEF AnswerConfig, At, Carries, SiteOps
  <2>2. maas' \in [Sites -> {"rest", "told", "syncing"}] /\ pending' \subseteq Sites
    BY <1>5, <2>1 DEF AnswerConfig, TypeOK
  <2>3. req' \in [Requests -> RequestStates] /\ Carries'
    BY <1>5, CloseType DEF AnswerConfig
  <2>4. QED
    BY <1>5, <2>2, <2>3 DEF AnswerConfig, TypeOK, profileVars, Remembered, ProfileExists
<1>6. CASE SaveDetails(r)
  <2>1. req[r].site \in Sites /\ req[r].flag \in BOOLEAN
    BY <1>6 DEF SaveDetails, At, Carries, SiteOps
  <2>2. [site[req[r].site] EXCEPT !.known = req[r].flag] \in SiteRows
    BY <2>1 DEF TypeOK, SiteRows
  <2>3. site' = [site EXCEPT ![req[r].site] = [site[req[r].site] EXCEPT
                                                 !.known = req[r].flag]]
    BY <1>6, <2>1 DEF SaveDetails, TypeOK
  <2>4. req' \in [Requests -> RequestStates] /\ Carries'
    BY <1>6, CloseType DEF SaveDetails
  <2>5. QED
    BY <1>6, <2>1, <2>2, <2>3, <2>4
       DEF SaveDetails, TypeOK, profileVars, Remembered, ProfileExists
<1>7. CASE ReadState(r)
  <2> DEFINE q == [req[r] EXCEPT !.step = "run", !.new = (state[req[r].site] = None)]
  <2>1. q \in RequestStates
    <3>1. (state[req[r].site] = None) \in BOOLEAN
      OBVIOUS
    <3>2. req[r] \in RequestStates
      BY DEF TypeOK
    <3>3. QED
      BY <3>1, <3>2, NewType
  <2>2. /\ req[r].op = "status" /\ q.op = "status" /\ q.site = req[r].site
        /\ q.step = "run" /\ q.config = req[r].config /\ req[r].config = None
    BY <1>7 DEF ReadState, At, TypeOK, RequestStates, Carries
  <2>3. req' = [req EXCEPT ![r] = q]
    BY <1>7 DEF ReadState, TypeOK
  <2>4. Carries'
    BY <2>2, <2>3 DEF Carries, TypeOK, SiteOps
  <2>5. QED
    BY <1>7, <2>1, <2>3, <2>4
       DEF ReadState, TypeOK, profileVars, siteVars, Remembered, ProfileExists
<1>8. CASE SaveState(r)
  <2> DEFINE q == req[r]
  <2>1. q.site \in Sites /\ q.status \in TaskStatus \cup {None}
    BY <1>8 DEF SaveState, At, Carries, TypeOK, RequestStates, SiteOps
  <2>2. state' \in [Sites -> TaskStatus \cup {None}]
    BY <1>8, <2>1 DEF SaveState, TypeOK, TaskStatus
  <2>3. [site[q.site] EXCEPT !.trigger = site[q.site].trigger /\ ~Resets(q.status)]
            \in SiteRows
    <3>1. site[q.site] \in SiteRows
      BY <2>1 DEF TypeOK
    <3>2. (site[q.site].trigger /\ ~Resets(q.status)) \in BOOLEAN
      OBVIOUS
    <3>3. QED
      BY <3>1, <3>2, RowType
  <2>4. site' = [site EXCEPT ![q.site] =
                   [site[q.site] EXCEPT !.trigger = site[q.site].trigger
                                                    /\ ~Resets(q.status)]]
    BY <1>8, <2>1 DEF SaveState, TypeOK
  <2>5. maas' \in [Sites -> {"rest", "told", "syncing"}]
    BY <1>8, <2>1 DEF SaveState, TypeOK
  <2>6. req' \in [Requests -> RequestStates] /\ Carries'
    BY <1>8, CloseType DEF SaveState
  <2>7. UNCHANGED <<profileVars, pending>>
    BY <1>8 DEF SaveState
  <2>8. QED
    BY <2>1, <2>2, <2>3, <2>4, <2>5, <2>6, <2>7
       DEF TypeOK, profileVars, Remembered, ProfileExists
<1>9. QED
  BY <1>1, <1>2, <1>3, <1>4, <1>5, <1>6, <1>7, <1>8 DEF SiteStep

LEMMA StepType ==
  ASSUME SiteConfigAssumption, TypeInv, [Next]_vars PROVE TypeInv'
<1>1. CASE UNCHANGED vars
  BY <1>1 DEF vars, TypeInv, TypeOK, Carries, Remembered, ProfileExists
<1>2. ASSUME NEW p \in Profiles, NEW row \in NewRows, CreateProfile(p, row)
      PROVE  TypeInv'
  BY <1>2 DEF CreateProfile, TypeInv, TypeOK, Carries, Remembered, ProfileExists,
              siteVars, SiteConfigAssumption
<1>3. ASSUME NEW s \in Sites, DeleteSite(s) PROVE TypeInv'
  <2>1. [site[s] EXCEPT !.deleted = TRUE] \in SiteRows
    BY DEF TypeInv, TypeOK, SiteRows
  <2>2. site' = [site EXCEPT ![s] = [site[s] EXCEPT !.deleted = TRUE]]
    BY <1>3 DEF DeleteSite, TypeInv, TypeOK
  <2>3. QED
    BY <1>3, <2>1, <2>2 DEF DeleteSite, TypeInv, TypeOK, Carries, Remembered,
                            ProfileExists, profileVars
<1>4. ASSUME NEW r \in Requests, Abort(r) PROVE TypeInv'
  BY <1>4, CloseType DEF Abort, TypeInv, TypeOK, Remembered, ProfileExists,
                         profileVars, siteVars
<1>5. QED
  BY <1>1, <1>2, <1>3, <1>4, UserStepType, SiteStepType DEF Next

\* Profiles, sites and requests are well typed.
THEOREM ConfigTypeCorrect == ASSUME SiteConfigAssumption PROVE Spec => []TypeOK
<1>1. TypeInv => TypeOK
  BY DEF TypeInv
<1>2. QED
  BY <1>1, InitType, StepType, PTL DEF Spec

-----------------------------------------------------------------------------
(* Changes of profiles.                                                    *)

\* A change about to be written has no options, or has merged its own into
\* those of the row, which no other change has been committed to meanwhile.
Computed(q) ==
    q.op = "patch" /\ q.step = "write" =>
        IF q.config = None THEN ~HasConfig(q.body)
        ELSE /\ profile[q.id] # None
             /\ ~q.stale /\ profile[q.id] # Gone =>
                  q.config = Merged(profile[q.id].config, q.body.config)

ChangesInv == ChangeIsKept /\ \A r \in Requests : Computed(req[r])

LEMMA InitChanges == ASSUME SiteConfigAssumption, Init PROVE ChangesInv
  BY DEF Init, Idle, ChangesInv, ChangeIsKept, Computed, ProfileExists,
         SiteConfigAssumption

LEMMA SameChanges ==
  ASSUME ChangesInv, UNCHANGED profileVars,
         \A x \in Requests : \/ req'[x] = req[x]
                             \/ ~(req'[x].op = "patch" /\ req'[x].step = "write")
  PROVE  ChangesInv'
  BY DEF ChangesInv, ChangeIsKept, Computed, ProfileExists, profileVars

LEMMA CloseChanges ==
  ASSUME TypeInv, ChangesInv, NEW r \in Requests, Close(r), UNCHANGED profileVars
  PROVE  ChangesInv'
  BY SameChanges DEF Close, Idle, TypeInv, TypeOK

LEMMA MoveChanges ==
  ASSUME TypeInv, ChangesInv, NEW r \in Requests, NEW step, Move(r, step),
         req[r].op # "patch", UNCHANGED profileVars
  PROVE  ChangesInv'
<1>1. ASSUME NEW x \in Requests
      PROVE  req'[x] = req[x] \/ req'[x].op # "patch"
  BY DEF Move, TypeInv, TypeOK, RequestStates
<1>2. QED
  BY <1>1, SameChanges

LEMMA OpenChanges ==
  ASSUME TypeInv, ChangesInv, NEW r \in Requests, NEW q, Open(r, q),
         q.op # "patch" \/ q.step = "check"
  PROVE  ChangesInv'
  BY SameChanges DEF Open, TypeInv, TypeOK

LEMMA CheckChanges ==
  ASSUME TypeInv, ChangesInv, NEW r \in Requests, CheckProfile(r)
  PROVE  ChangesInv'
<1> DEFINE step == IF req[r].op = "patch" /\ HasConfig(req[r].body) THEN "read" ELSE "write"
<1>1. Move(r, step) /\ UNCHANGED profileVars
  BY DEF CheckProfile
<1>2. req[r].config = None
  BY DEF CheckProfile, TypeInv, Carries
<1>3. /\ req' = [req EXCEPT ![r] = [req[r] EXCEPT !.step = step]]
      /\ req[r] \in RequestStates
  BY <1>1 DEF Move, TypeInv, TypeOK
<1>4. Computed(req[r])
  BY DEF ChangesInv
<1>5. Computed(req[r])'
  BY <1>1, <1>2, <1>3 DEF Computed, RequestStates, TypeInv, TypeOK
<1>6. ASSUME NEW x \in Requests, x # r PROVE Computed(req[x])'
  BY <1>1, <1>3, <1>6 DEF ChangesInv, Computed, profileVars, TypeInv, TypeOK
<1>7. QED
  BY <1>1, <1>5, <1>6 DEF ChangesInv, ChangeIsKept, ProfileExists, profileVars

LEMMA ReadChanges ==
  ASSUME SiteConfigAssumption, TypeInv, ChangesInv, NEW r \in Requests, ReadConfig(r)
  PROVE  ChangesInv'
<1> DEFINE q == req[r]
           merged == Merged(profile[q.id].config, q.body.config)
           new == [q EXCEPT !.step = "write", !.config = merged]
<1>1. q \in RequestStates /\ q.id \in Profiles /\ q.body \in Changes
  BY DEF ReadConfig, At, TypeInv, TypeOK, Carries
<1>2. profile[q.id] \in Rows
  BY <1>1 DEF ReadConfig, ProfileExists, TypeInv, TypeOK, SiteConfigAssumption
<1>3. /\ new.id = q.id /\ new.body = q.body /\ new.config = merged
  BY <1>1 DEF RequestStates
<1>4. req' = [req EXCEPT ![r] = new] /\ UNCHANGED profileVars
  BY DEF ReadConfig
<1>5. profile[q.id] # None
  BY <1>2 DEF SiteConfigAssumption
<1>6. merged # None
  BY <1>1, <1>2, MergedType DEF SiteConfigAssumption
<1>7. Computed(req[r])'
  BY <1>1, <1>3, <1>4, <1>5, <1>6 DEF Computed, profileVars, TypeInv, TypeOK
<1>8. ASSUME NEW x \in Requests, x # r PROVE Computed(req[x])'
  BY <1>4, <1>8 DEF ChangesInv, Computed, profileVars, TypeInv, TypeOK
<1>9. QED
  BY <1>4, <1>7, <1>8 DEF ChangesInv, ChangeIsKept, ProfileExists, profileVars

LEMMA WriteChanges ==
  ASSUME SiteConfigAssumption, TypeInv, ChangesInv, NEW r \in Requests, WriteProfile(r)
  PROVE  ChangesInv'
<1> DEFINE q == req[r]
           p == q.id
           options == IF q.config # None THEN q.config ELSE profile[p].config
           wanted == [k \in Keys |-> IF q.body.config[k] # None THEN q.body.config[k]
                                     ELSE asked[p].config[k]]
<1>1. /\ At(r, "patch", "write") /\ p \in Profiles /\ q.body \in Changes
      /\ p # Default /\ profile[p] \notin {None, Gone}
  BY DEF WriteProfile, At, TypeInv, TypeOK, Carries, ProfileExists, SiteConfigAssumption
<1>2. profile[p] \in Rows /\ asked[p] \in Rows
  BY <1>1 DEF TypeInv, TypeOK, Remembered, ProfileExists
<1>3. /\ profile' = [profile EXCEPT ![p] = profile'[p]]
      /\ asked' = [asked EXCEPT ![p] = asked'[p]]
      /\ profile'[p].config = options
      /\ asked'[p].config = wanted
  BY <1>1 DEF WriteProfile, TypeInv, TypeOK
<1>4. profile[p].selections = asked[p].selections
  BY <1>1 DEF ChangesInv, ChangeIsKept, ProfileExists
<1>5. profile'[p].selections = asked'[p].selections
  BY <1>1, <1>4 DEF WriteProfile, TypeInv, TypeOK
<1>6. crossed \subseteq crossed' /\ (q.stale => p \in crossed')
  BY DEF WriteProfile
<1>7. profile[p].config \in [Keys -> Values] /\ asked[p].config \in [Keys -> Values]
  BY <1>2 DEF Rows
<1>8. p \in crossed' \/ options = wanted
  <2>1. CASE p \in crossed \/ q.stale
    BY <1>6, <2>1
  <2>2. CASE p \notin crossed /\ ~q.stale
    <3>1. profile[p].config = asked[p].config
      BY <1>1, <2>2 DEF ChangesInv, ChangeIsKept, ProfileExists
    <3>2. CASE q.config = None
      <4>1. \A k \in Keys : q.body.config[k] = None
        BY <1>1, <3>2 DEF ChangesInv, Computed, At, HasConfig
      <4>2. QED
        BY <1>7, <3>1, <3>2, <4>1
    <3>3. CASE q.config # None
      <4>1. q.config = Merged(profile[p].config, q.body.config)
        BY <1>1, <2>2, <3>3 DEF ChangesInv, Computed, At
      <4>2. QED
        BY <3>1, <3>3, <4>1 DEF Merged
    <3>4. QED
      BY <3>2, <3>3
  <2>3. QED
    BY <2>1, <2>2
<1>9. ChangeIsKept'
  <2> SUFFICES ASSUME NEW x \in Profiles, ProfileExists(x)'
               PROVE  /\ profile'[x].selections = asked'[x].selections
                      /\ x \in crossed' \/ profile'[x].config = asked'[x].config
    BY DEF ChangeIsKept
  <2>1. CASE x = p
    BY <1>3, <1>5, <1>8, <2>1
  <2>2. CASE x # p
    BY <1>1, <1>3, <1>6, <2>2 DEF ChangesInv, ChangeIsKept, ProfileExists, TypeInv, TypeOK
  <2>3. QED
    BY <2>1, <2>2
<1>10. profile'[p] # None
  <2>1. q.body.selections \in Values \cup {None}
    BY <1>1 DEF SiteConfigAssumption, Bodies
  <2>2. options \in [Keys -> Values]
    BY <1>7 DEF TypeInv, TypeOK, RequestStates
  <2>3. profile'[p] = [selections |-> IF q.body.selections # None THEN q.body.selections
                                      ELSE profile[p].selections,
                       config |-> options]
    BY <1>1 DEF WriteProfile, TypeInv, TypeOK
  <2>4. profile'[p] \in Rows
    BY <1>2, <2>1, <2>2, <2>3 DEF Rows
  <2>5. QED
    BY <2>4 DEF SiteConfigAssumption
<1>11. ASSUME NEW x \in Requests PROVE Computed(req[x])'
  <2>1. Computed(req[x])
    BY DEF ChangesInv
  <2>2. CASE q.config = None
    <3>1. req'[x] = Idle \/ req'[x] = req[x]
      BY <2>2 DEF WriteProfile, Close, TypeInv, TypeOK
    <3>2. profile'[p].config = profile[p].config
      BY <1>3, <2>2
    <3>3. \A y \in Profiles : y # p => profile'[y] = profile[y]
      BY <1>3 DEF TypeInv, TypeOK
    <3>4. CASE req'[x] = Idle
      BY <3>4 DEF Computed, Idle
    <3>5. CASE req'[x] = req[x]
      <4>1. req[x].op = "patch" => req[x].id \in Profiles
        BY DEF TypeInv, Carries
      <4>2. QED
        BY <1>1, <1>10, <2>1, <3>2, <3>3, <3>5, <4>1 DEF Computed
    <3>6. QED
      BY <3>1, <3>4, <3>5
  <2>3. CASE q.config # None
    <3>1. Overtake(r, p)
      BY <2>3 DEF WriteProfile
    <3>2. CASE x = r
      BY <3>1, <3>2 DEF Overtake, Computed, Idle
    <3>3. CASE x # r /\ req[x].id = p /\ req[x].config # None
      <4>1. req'[x] = [req[x] EXCEPT !.stale = TRUE] /\ req[x] \in RequestStates
        BY <3>1, <3>3 DEF Overtake, TypeInv, TypeOK
      <4>2. req'[x].stale /\ req'[x].id = p /\ req'[x].config # None
        BY <3>3, <4>1 DEF RequestStates
      <4>3. QED
        BY <1>10, <4>2 DEF Computed
    <3>4. CASE x # r /\ ~(req[x].id = p /\ req[x].config # None)
      <4>1. req'[x] = req[x]
        BY <3>1, <3>4 DEF Overtake
      <4>2. req[x].op = "patch" /\ req[x].id # p =>
                profile'[req[x].id] = profile[req[x].id]
        BY <1>3 DEF TypeInv, TypeOK, Carries
      <4>3. QED
        BY <2>1, <3>4, <4>1, <4>2 DEF Computed
    <3>5. QED
      BY <3>2, <3>3, <3>4
  <2>4. QED
    BY <2>2, <2>3
<1>12. QED
  BY <1>9, <1>11 DEF ChangesInv

LEMMA ProfileStepChanges ==
  ASSUME SiteConfigAssumption, TypeInv, ChangesInv, NEW r \in Requests,
         CheckProfile(r) \/ ReadConfig(r) \/ WriteProfile(r) \/ DeleteProfile(r)
  PROVE  ChangesInv'
<1>1. CASE DeleteProfile(r)
  <2> DEFINE p == req[r].id
  <2>1. /\ p \in Profiles /\ Close(r)
        /\ profile' = [profile EXCEPT ![p] = Gone]
        /\ asked' = [asked EXCEPT ![p] = Gone]
        /\ crossed' = crossed \ {p}
    BY <1>1 DEF DeleteProfile, At, TypeInv, Carries
  <2>2. ChangeIsKept'
    BY <2>1 DEF ChangesInv, ChangeIsKept, ProfileExists, TypeInv, TypeOK,
                SiteConfigAssumption
  <2>3. ASSUME NEW x \in Requests PROVE Computed(req[x])'
    <3>1. CASE x = r
      BY <2>1, <3>1 DEF Close, Computed, Idle, TypeInv, TypeOK
    <3>2. CASE x # r
      <4>1. req'[x] = req[x] /\ Computed(req[x])
        BY <2>1, <3>2 DEF Close, ChangesInv, TypeInv, TypeOK
      <4>2. req[x].op = "patch" => req[x].id \in Profiles
        BY DEF TypeInv, Carries
      <4>3. QED
        BY <2>1, <4>1, <4>2 DEF Computed, TypeInv, TypeOK, SiteConfigAssumption
    <3>3. QED
      BY <3>1, <3>2
  <2>4. QED
    BY <2>2, <2>3 DEF ChangesInv
<1>2. QED
  BY <1>1, CheckChanges, ReadChanges, WriteChanges

LEMMA UserStepChanges ==
  ASSUME SiteConfigAssumption, TypeInv, ChangesInv, NEW r \in Requests, UserStep(r)
  PROVE  ChangesInv'
<1>1. ASSUME NEW p \in Profiles, OpenDelete(r, p) PROVE ChangesInv'
  <2> DEFINE q == [Idle EXCEPT !.op = "delete", !.id = p]
  <2>1. Open(r, q) /\ q.op = "delete"
    BY <1>1 DEF OpenDelete, Idle
  <2> HIDE DEF q
  <2>2. QED
    BY <2>1, OpenChanges
<1>2. ASSUME NEW p \in Profiles, NEW body \in Changes, OpenPatch(r, p, body)
      PROVE  ChangesInv'
  <2> DEFINE q == [Idle EXCEPT !.op = "patch", !.id = p, !.body = body]
  <2>1. Open(r, q) /\ q.step = "check"
    BY <1>2 DEF OpenPatch, Idle
  <2> HIDE DEF q
  <2>2. QED
    BY <2>1, OpenChanges
<1>3. CASE CheckProfile(r) \/ ReadConfig(r) \/ WriteProfile(r) \/ DeleteProfile(r)
  BY <1>3, ProfileStepChanges
<1>4. ASSUME NEW s \in Sites, NEW p \in Profiles \cup {Default, None},
             NEW t \in BOOLEAN \cup {None}, OpenPatchSite(r, s, p, t)
      PROVE  ChangesInv'
  <2> DEFINE q == [Idle EXCEPT !.op = "patch_site", !.site = s, !.id = p, !.flag = t]
  <2>1. Open(r, q) /\ q.step = "check"
    BY <1>4 DEF OpenPatchSite, Idle
  <2> HIDE DEF q
  <2>2. QED
    BY <2>1, OpenChanges
<1>5. CASE CheckSite(r)
  BY <1>5, MoveChanges DEF CheckSite, At
<1>6. CASE WriteSite(r)
  BY <1>6, CloseChanges DEF WriteSite
<1>7. QED
  BY <1>1, <1>2, <1>3, <1>4, <1>5, <1>6 DEF UserStep

LEMMA SiteStepChanges ==
  ASSUME TypeInv, ChangesInv, NEW r \in Requests, SiteStep(r)
  PROVE  ChangesInv'
<1>1. ASSUME NEW s \in Sites, OpenConfig(r, s) PROVE ChangesInv'
  <2> DEFINE q == [Idle EXCEPT !.op = "config", !.step = "lock", !.site = s,
                               !.flag = site[s].trigger]
  <2>1. Open(r, q) /\ q.op = "config"
    BY <1>1 DEF OpenConfig, Idle
  <2>2. QED
    BY <2>1, SameChanges DEF Open, TypeInv, TypeOK
<1>2. ASSUME NEW s \in Sites, NEW known \in BOOLEAN, OpenDetails(r, s, known)
      PROVE  ChangesInv'
  <2> DEFINE q == [Idle EXCEPT !.op = "details", !.step = "lock", !.site = s,
                               !.flag = known]
  <2>1. Open(r, q) /\ q.op = "details"
    BY <1>2 DEF OpenDetails, Idle
  <2> HIDE DEF q
  <2>2. QED
    BY <2>1, OpenChanges
<1>3. ASSUME NEW s \in Sites, NEW status \in TaskStatus \cup {None},
             OpenStatus(r, s, status)
      PROVE  ChangesInv'
  <2> DEFINE q == [Idle EXCEPT !.op = "status", !.step = "lock", !.site = s,
                               !.status = status]
  <2>1. Open(r, q) /\ q.op = "status"
    BY <1>3 DEF OpenStatus, Idle
  <2> HIDE DEF q
  <2>2. QED
    BY <2>1, OpenChanges
<1>4. CASE Lock(r)
  <2>1. req[r].op # "patch"
    BY <1>4 DEF Lock, TypeInv, Carries, SiteOps
  <2>2. PICK step : Move(r, step)
    BY <1>4 DEF Lock
  <2>3. QED
    BY <1>4, <2>1, <2>2, MoveChanges DEF Lock
<1>5. CASE AnswerConfig(r) \/ SaveDetails(r) \/ SaveState(r)
  BY <1>5, CloseChanges DEF AnswerConfig, SaveDetails, SaveState
<1>6. CASE ReadState(r)
  <2>1. ASSUME NEW x \in Requests PROVE req'[x] = req[x] \/ req'[x].op # "patch"
    BY <1>6 DEF ReadState, At, TypeInv, TypeOK, RequestStates
  <2>2. QED
    BY <1>6, <2>1, SameChanges DEF ReadState
<1>7. QED
  BY <1>1, <1>2, <1>3, <1>4, <1>5, <1>6 DEF SiteStep

LEMMA StepChanges ==
  ASSUME SiteConfigAssumption, TypeInv, ChangesInv, [Next]_vars PROVE ChangesInv'
<1>1. CASE UNCHANGED vars
  BY <1>1, SameChanges DEF vars, profileVars
<1>2. ASSUME NEW p \in Profiles, NEW row \in NewRows, CreateProfile(p, row)
      PROVE  ChangesInv'
  <2>1. ChangeIsKept'
    BY <1>2 DEF CreateProfile, ChangesInv, ChangeIsKept, ProfileExists, TypeInv, TypeOK
  <2>2. row \in Rows /\ row # None /\ row # Gone
    BY DEF SiteConfigAssumption
  <2>3. ASSUME NEW x \in Requests PROVE Computed(req[x])'
    <3>1. req' = req /\ Computed(req[x])
      BY <1>2 DEF CreateProfile, ChangesInv
    <3>2. req[x].op = "patch" => req[x].id \in Profiles
      BY DEF TypeInv, Carries
    <3>3. profile[p] = None /\ profile' = [profile EXCEPT ![p] = row]
      BY <1>2 DEF CreateProfile
    <3>4. QED
      BY <2>2, <3>1, <3>2, <3>3 DEF Computed, TypeInv, TypeOK
  <2>4. QED
    BY <2>1, <2>3 DEF ChangesInv
<1>3. ASSUME NEW s \in Sites, DeleteSite(s) PROVE ChangesInv'
  BY <1>3, SameChanges DEF DeleteSite
<1>4. ASSUME NEW r \in Requests, Abort(r) PROVE ChangesInv'
  BY <1>4, CloseChanges DEF Abort
<1>5. QED
  BY <1>1, <1>2, <1>3, <1>4, UserStepChanges, SiteStepChanges DEF Next

\* However many changes of a profile overlap, abort or are overtaken by its
\* removal, each field of its row is what the last request to set it wanted,
\* unless a change of its options was computed from options that another
\* change was committed to meanwhile.
THEOREM ChangesAreKept == ASSUME SiteConfigAssumption PROVE Spec => []ChangeIsKept
<1>1. ChangesInv => ChangeIsKept
  BY DEF ChangesInv
<1>2. QED
  BY <1>1, InitType, StepType, InitChanges, StepChanges, PTL DEF Spec

-----------------------------------------------------------------------------
(* Requests of sites.                                                      *)

\* The request holds the lock of its site's row of site_data.
Runs(r) == req[r].op \in SiteOps /\ req[r].step \in {"read", "run"}

\* One request of a site runs at a time.
Alone == \A a, b \in Requests : Runs(a) /\ Runs(b) /\ req[a].site = req[b].site => a = b

\* A site whose request is pending has nothing to report on its images.
Resting == \A s \in pending : site[s].trigger /\ AtRest(s)

SitesInv == Alone /\ Resting /\ StateCreatedOnce

LEMMA InitSites == ASSUME Init PROVE SitesInv
  BY DEF Init, Idle, SitesInv, Alone, Runs, Resting, StateCreatedOnce, At, SiteOps

\* What a step leaves alone when it opens or closes requests and neither runs
\* one nor touches the rows.
LEMMA SameSites ==
  ASSUME TypeInv, SitesInv, UNCHANGED <<state, maas, pending>>,
         \A s \in Sites : site'[s].trigger = site[s].trigger,
         \A x \in Requests :
            /\ req'[x].op \in SiteOps /\ req'[x].step \in {"read", "run"} =>
                 req'[x] = req[x]
            /\ req'[x].op = "status" /\ req'[x].status \in {"STARTED", "COMPLETE", "FAILED"} =>
                 req'[x] = req[x] \/ maas[req'[x].site] # "rest"
  PROVE  SitesInv'
<1>1. Alone' /\ StateCreatedOnce'
  BY DEF SitesInv, Alone, Runs, StateCreatedOnce, At, SiteOps
<1>2. Resting'
  BY DEF SitesInv, Resting, AtRest, Reporting, TypeInv, TypeOK
<1>3. QED
  BY <1>1, <1>2 DEF SitesInv

LEMMA CloseSites ==
  ASSUME TypeInv, SitesInv, NEW r \in Requests, Close(r),
         UNCHANGED <<state, maas, pending>>,
         \A s \in Sites : site'[s].trigger = site[s].trigger
  PROVE  SitesInv'
  BY SameSites DEF Close, Idle, SiteOps, TypeInv, TypeOK

LEMMA OpenSites ==
  ASSUME TypeInv, SitesInv, NEW r \in Requests, NEW q, Open(r, q),
         q.op \in SiteOps => q.step = "lock",
         q.op = "status" /\ q.status \in {"STARTED", "COMPLETE", "FAILED"} =>
            maas[q.site] # "rest"
  PROVE  SitesInv'
  BY SameSites DEF Open, siteVars, TypeInv, TypeOK

LEMMA UserStepSites ==
  ASSUME SiteConfigAssumption, TypeInv, SitesInv, NEW r \in Requests, UserStep(r)
  PROVE  SitesInv'
<1>1. ASSUME NEW p \in Profiles, OpenDelete(r, p) PROVE SitesInv'
  <2> DEFINE q == [Idle EXCEPT !.op = "delete", !.id = p]
  <2>1. Open(r, q) /\ q.op = "delete"
    BY <1>1 DEF OpenDelete, Idle
  <2> HIDE DEF q
  <2>2. QED
    BY <2>1, OpenSites DEF SiteOps
<1>2. ASSUME NEW p \in Profiles, NEW body \in Changes, OpenPatch(r, p, body)
      PROVE  SitesInv'
  <2> DEFINE q == [Idle EXCEPT !.op = "patch", !.id = p, !.body = body]
  <2>1. Open(r, q) /\ q.op = "patch"
    BY <1>2 DEF OpenPatch, Idle
  <2> HIDE DEF q
  <2>2. QED
    BY <2>1, OpenSites DEF SiteOps
<1>3. ASSUME NEW x \in Requests,
             CheckProfile(r) \/ ReadConfig(r) \/ WriteProfile(r)
             \/ DeleteProfile(r) \/ CheckSite(r) \/ WriteSite(r)
      PROVE  \/ req'[x] = req[x]
             \/ req'[x].op \notin SiteOps
  <2>1. CASE CheckProfile(r)
    BY <2>1 DEF CheckProfile, Move, SiteOps, TypeInv, TypeOK, RequestStates
  <2>2. CASE ReadConfig(r)
    BY <2>2 DEF ReadConfig, At, SiteOps, TypeInv, TypeOK, RequestStates
  <2>3. CASE WriteProfile(r)
    <3>1. CASE Close(r)
      BY <3>1 DEF Close, Idle, SiteOps, TypeInv, TypeOK
    <3>2. CASE Overtake(r, req[r].id)
      <4>1. CASE x = r
        BY <3>2, <4>1 DEF Overtake, Idle, SiteOps
      <4>2. CASE x # r /\ req[x].config # None
        BY <3>2, <4>2 DEF Overtake, SiteOps, TypeInv, TypeOK, RequestStates, Carries
      <4>3. CASE x # r /\ req[x].config = None
        BY <3>2, <4>3 DEF Overtake
      <4>4. QED
        BY <4>1, <4>2, <4>3
    <3>3. QED
      BY <2>3, <3>1, <3>2 DEF WriteProfile
  <2>4. CASE DeleteProfile(r) \/ WriteSite(r)
    BY <2>4 DEF DeleteProfile, WriteSite, Close, Idle, SiteOps, TypeInv, TypeOK
  <2>5. CASE CheckSite(r)
    BY <2>5 DEF CheckSite, At, Move, SiteOps, TypeInv, TypeOK, RequestStates
  <2>6. QED
    BY <1>3, <2>1, <2>2, <2>3, <2>4, <2>5
<1>4. CASE CheckProfile(r) \/ ReadConfig(r) \/ WriteProfile(r)
           \/ DeleteProfile(r) \/ CheckSite(r)
  <2>1. UNCHANGED siteVars
    BY <1>4 DEF CheckProfile, ReadConfig, WriteProfile, DeleteProfile, CheckSite
  <2>2. QED
    BY <1>3, <1>4, <2>1, SameSites DEF siteVars, SiteOps
<1>5. ASSUME NEW s \in Sites, NEW p \in Profiles \cup {Default, None},
             NEW t \in BOOLEAN \cup {None}, OpenPatchSite(r, s, p, t)
      PROVE  SitesInv'
  <2> DEFINE q == [Idle EXCEPT !.op = "patch_site", !.site = s, !.id = p, !.flag = t]
  <2>1. Open(r, q) /\ q.op = "patch_site"
    BY <1>5 DEF OpenPatchSite, Idle
  <2> HIDE DEF q
  <2>2. QED
    BY <2>1, OpenSites DEF SiteOps
<1>6. CASE WriteSite(r)
  <2> DEFINE q == req[r]
             s == q.site
  <2>1. /\ s \in Sites /\ q.flag \in BOOLEAN \cup {None}
        /\ UNCHANGED <<state, maas>>
    BY <1>6 DEF WriteSite, At, TypeInv, Carries
  <2>2. Alone' /\ StateCreatedOnce'
    BY <1>3, <1>6, <2>1 DEF SitesInv, Alone, Runs, StateCreatedOnce, At, SiteOps
  <2>3. \A x \in Sites : AtRest(x) => AtRest(x)'
    BY <1>3, <1>6, <2>1 DEF AtRest, Reporting, SiteOps
  <2>4. /\ site'[s].trigger = IF q.flag # None THEN q.flag ELSE site[s].trigger
        /\ \A x \in Sites : x # s => site'[x] = site[x]
    BY <1>6, <2>1 DEF WriteSite, TypeInv, TypeOK, SiteRows
  <2>5. ASSUME NEW x \in pending' PROVE site'[x].trigger /\ AtRest(x)'
    <3>1. x \in Sites
      BY <1>6, <2>1 DEF WriteSite, TypeInv, TypeOK
    <3>2. CASE x # s
      BY <1>6, <2>1, <2>3, <2>4, <3>1, <3>2 DEF WriteSite, SitesInv, Resting
    <3>3. CASE x = s
      BY <1>6, <2>1, <2>3, <2>4, <3>1, <3>3 DEF WriteSite, SitesInv, Resting,
                                                SiteConfigAssumption
    <3>4. QED
      BY <3>2, <3>3
  <2>6. QED
    BY <2>2, <2>5 DEF SitesInv, Resting
<1>7. QED
  BY <1>1, <1>2, <1>4, <1>5, <1>6 DEF UserStep

LEMMA LockSites ==
  ASSUME TypeInv, SitesInv, NEW r \in Requests, Lock(r)
  PROVE  SitesInv'
<1> DEFINE s == req[r].site
<1>1. PICK step \in {"read", "run"} :
        /\ req' = [req EXCEPT ![r] = [req[r] EXCEPT !.step = step]]
        /\ req[r].op = "status" => step = "read"
  BY DEF Lock, Move, TypeInv, TypeOK
<1>2. /\ req'[r].op = req[r].op /\ req'[r].site = s /\ req'[r].status = req[r].status
      /\ req'[r].step = step
      /\ \A x \in Requests : x # r => req'[x] = req[x]
  BY <1>1 DEF TypeInv, TypeOK, RequestStates
<1>3. Alone'
  BY <1>2 DEF Lock, Locked, SitesInv, Alone, Runs
<1>4. StateCreatedOnce'
  BY <1>1, <1>2 DEF Lock, siteVars, SitesInv, StateCreatedOnce, At
<1>5. Resting'
  BY <1>2 DEF Lock, siteVars, SitesInv, Resting, AtRest, Reporting
<1>6. QED
  BY <1>3, <1>4, <1>5 DEF SitesInv

LEMMA ReadSites ==
  ASSUME TypeInv, SitesInv, NEW r \in Requests, ReadState(r)
  PROVE  SitesInv'
<1> DEFINE new == [req[r] EXCEPT !.step = "run", !.new = (state[req[r].site] = None)]
<1>1. req' = [req EXCEPT ![r] = new] /\ At(r, "status", "read") /\ UNCHANGED siteVars
  BY DEF ReadState, TypeInv, TypeOK
<1>2. /\ req'[r].op = req[r].op /\ req'[r].site = req[r].site
      /\ req'[r].status = req[r].status
      /\ req'[r].step = "run" /\ req'[r].new = (state[req[r].site] = None)
      /\ \A x \in Requests : x # r => req'[x] = req[x]
  BY <1>1 DEF TypeInv, TypeOK, RequestStates
<1>3. Alone'
  BY <1>1, <1>2 DEF SitesInv, Alone, Runs, At, SiteOps
<1>4. StateCreatedOnce'
  <2>1. state' = state
    BY <1>1 DEF siteVars
  <2>2. ASSUME NEW x \in Requests, At(x, "status", "run")', req'[x].new
        PROVE  state[req'[x].site] = None
    <3>1. CASE x = r
      BY <1>2, <2>2, <3>1
    <3>2. CASE x # r
      BY <1>2, <2>2, <3>2 DEF At, SitesInv, StateCreatedOnce
    <3>3. QED
      BY <3>1, <3>2
  <2>3. QED
    BY <2>1, <2>2 DEF StateCreatedOnce
<1>5. Resting'
  BY <1>1, <1>2 DEF siteVars, SitesInv, Resting, AtRest, Reporting
<1>6. QED
  BY <1>3, <1>4, <1>5 DEF SitesInv

LEMMA SaveSites ==
  ASSUME TypeInv, SitesInv, NEW r \in Requests, SaveState(r)
  PROVE  SitesInv'
<1> DEFINE s == req[r].site
<1>1. /\ s \in Sites /\ Runs(r) /\ req[r].op = "status" /\ Close(r)
      /\ pending' = pending
  BY DEF SaveState, At, Runs, SiteOps, TypeInv, Carries
<1>2. req'[r] = Idle /\ \A x \in Requests : x # r => req'[x] = req[x]
  BY <1>1 DEF Close, TypeInv, TypeOK
<1>3. \A x \in Sites : x # s =>
        state'[x] = state[x] /\ site'[x] = site[x] /\ maas'[x] = maas[x]
  BY <1>1 DEF SaveState, TypeInv, TypeOK
<1>4. Alone'
  BY <1>2 DEF SitesInv, Alone, Runs, Idle, SiteOps
<1>5. StateCreatedOnce'
  <2> SUFFICES ASSUME NEW x \in Requests, At(x, "status", "run")', req'[x].new
               PROVE  state'[req'[x].site] = None
    BY DEF StateCreatedOnce
  <2>1. x # r /\ req'[x] = req[x] /\ req[x].site \in Sites
    BY <1>2 DEF At, Idle, TypeInv, Carries, SiteOps
  <2>2. req[x].site # s
    BY <1>1, <2>1 DEF SitesInv, Alone, Runs, At, SiteOps
  <2>3. QED
    BY <1>3, <2>1, <2>2 DEF SitesInv, StateCreatedOnce, At
<1>6. Resting'
  <2> SUFFICES ASSUME NEW x \in pending PROVE site'[x].trigger /\ AtRest(x)'
    BY <1>1 DEF Resting
  <2>1. x \in Sites /\ site[x].trigger /\ AtRest(x)
    BY DEF SitesInv, Resting, TypeInv, TypeOK
  <2>2. Reporting(x)' => Reporting(x)
    BY <1>2 DEF Reporting, Idle
  <2>3. CASE x # s
    BY <1>3, <2>1, <2>2, <2>3 DEF AtRest
  <2>4. CASE x = s
    <3>1. req[r].status \notin {"STARTED", "COMPLETE", "FAILED"}
      BY <1>1, <2>1, <2>4 DEF AtRest, Reporting
    <3>2. maas'[x] = maas[x]
      BY <1>1, <2>4, <3>1 DEF SaveState, TypeInv, TypeOK
    <3>3. site'[x].trigger = (site[x].trigger /\ ~Resets(req[r].status))
      BY <1>1, <2>4 DEF SaveState, TypeInv, TypeOK, SiteRows
    <3>4. ~Resets(req[r].status)
      BY <3>1 DEF Resets
    <3>5. QED
      BY <2>1, <2>2, <3>2, <3>3, <3>4 DEF AtRest
  <2>5. QED
    BY <2>3, <2>4
<1>7. QED
  BY <1>4, <1>5, <1>6 DEF SitesInv

LEMMA AnswerSites ==
  ASSUME TypeInv, SitesInv, NEW r \in Requests, AnswerConfig(r)
  PROVE  SitesInv'
<1> DEFINE s == req[r].site
<1>1. s \in Sites /\ Close(r) /\ UNCHANGED <<site, state>>
  BY DEF AnswerConfig, At, SiteOps, TypeInv, Carries
<1>2. req'[r] = Idle /\ \A x \in Requests : x # r => req'[x] = req[x]
  BY <1>1 DEF Close, TypeInv, TypeOK
<1>3. Alone' /\ StateCreatedOnce'
  BY <1>1, <1>2 DEF SitesInv, Alone, Runs, StateCreatedOnce, At, Idle, SiteOps
<1>4. ASSUME NEW x \in pending' PROVE x \in pending /\ maas'[x] = maas[x]
  BY <1>1 DEF AnswerConfig, TypeInv, TypeOK
<1>5. \A x : Reporting(x)' => Reporting(x)
  BY <1>2 DEF Reporting, Idle
<1>6. Resting'
  BY <1>1, <1>4, <1>5 DEF SitesInv, Resting, AtRest
<1>7. QED
  BY <1>3, <1>6 DEF SitesInv

LEMMA SiteStepSites ==
  ASSUME TypeInv, SitesInv, NEW r \in Requests, SiteStep(r)
  PROVE  SitesInv'
<1>1. ASSUME NEW s \in Sites, OpenConfig(r, s) PROVE SitesInv'
  <2> DEFINE q == [Idle EXCEPT !.op = "config", !.step = "lock", !.site = s,
                               !.flag = site[s].trigger]
  <2>1. /\ req' = [req EXCEPT ![r] = q] /\ UNCHANGED siteVars
        /\ q.op = "config" /\ q.step = "lock"
    BY <1>1 DEF OpenConfig, Open, Idle
  <2>2. QED
    BY <2>1, SameSites DEF siteVars, TypeInv, TypeOK
<1>2. ASSUME NEW s \in Sites, NEW known \in BOOLEAN, OpenDetails(r, s, known)
      PROVE  SitesInv'
  <2> DEFINE q == [Idle EXCEPT !.op = "details", !.step = "lock", !.site = s,
                               !.flag = known]
  <2>1. Open(r, q) /\ q.op = "details" /\ q.step = "lock"
    BY <1>2 DEF OpenDetails, Idle
  <2> HIDE DEF q
  <2>2. QED
    BY <2>1, OpenSites
<1>3. ASSUME NEW s \in Sites, NEW status \in TaskStatus \cup {None},
             OpenStatus(r, s, status)
      PROVE  SitesInv'
  <2> DEFINE q == [Idle EXCEPT !.op = "status", !.step = "lock", !.site = s,
                               !.status = status]
  <2>1. Open(r, q) /\ q.step = "lock" /\ q.site = s /\ q.status = status
    BY <1>3 DEF OpenStatus, Idle
  <2>2. status \in {"STARTED", "COMPLETE", "FAILED"} => maas[s] # "rest"
    BY <1>3 DEF OpenStatus
  <2> HIDE DEF q
  <2>3. QED
    BY <2>1, <2>2, OpenSites
<1>4. CASE SaveDetails(r)
  <2>1. req[r].site \in Sites
    BY <1>4 DEF SaveDetails, At, SiteOps, TypeInv, Carries
  <2>2. \A x \in Sites : site'[x].trigger = site[x].trigger
    BY <1>4, <2>1 DEF SaveDetails, TypeInv, TypeOK, SiteRows
  <2>3. QED
    BY <1>4, <2>2, CloseSites DEF SaveDetails
<1>5. QED
  BY <1>1, <1>2, <1>3, <1>4, LockSites, ReadSites, SaveSites, AnswerSites DEF SiteStep

LEMMA StepSites ==
  ASSUME SiteConfigAssumption, TypeInv, SitesInv, [Next]_vars PROVE SitesInv'
<1>1. CASE UNCHANGED vars
  BY <1>1, SameSites DEF vars
<1>2. ASSUME NEW p \in Profiles, NEW row \in NewRows, CreateProfile(p, row)
      PROVE  SitesInv'
  BY <1>2, SameSites DEF CreateProfile, siteVars
<1>3. ASSUME NEW s \in Sites, DeleteSite(s) PROVE SitesInv'
  <2>1. \A x \in Sites : site'[x].trigger = site[x].trigger
    BY <1>3 DEF DeleteSite, TypeInv, TypeOK, SiteRows
  <2>2. QED
    BY <1>3, <2>1, SameSites DEF DeleteSite
<1>4. ASSUME NEW r \in Requests, Abort(r) PROVE SitesInv'
  BY <1>4, CloseSites DEF Abort, siteVars
<1>5. QED
  BY <1>1, <1>2, <1>3, <1>4, UserStepSites, SiteStepSites DEF Next

\* However the requests of users and sites overlap, are repeated or end half
\* way, a site that was at rest when it was asked to synchronise still has
\* trigger_image_sync set, until it is told or the request is withdrawn.
THEOREM TriggersReachSites == ASSUME SiteConfigAssumption PROVE Spec => []TriggerReachesSite
<1>1. SitesInv => TriggerReachesSite
  BY DEF SitesInv, Resting, TriggerReachesSite
<1>2. QED
  BY <1>1, InitType, StepType, InitSites, StepSites, PTL DEF Spec

\* No two reports of a site both take its state for missing: the lock that
\* authentication takes keeps the requests of one site apart.
THEOREM StatesAreCreatedOnce == ASSUME SiteConfigAssumption PROVE Spec => []StateCreatedOnce
<1>1. SitesInv => StateCreatedOnce
  BY DEF SitesInv
<1>2. QED
  BY <1>1, InitType, StepType, InitSites, StepSites, PTL DEF Spec
=============================================================================

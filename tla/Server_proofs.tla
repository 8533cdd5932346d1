--------------------------- MODULE Server_proofs ----------------------------
(***************************************************************************)
(* Theorems about the parts of the server, for all values of the constants *)
(* of every part.                                                          *)
(*                                                                         *)
(* The parts whose modules have no proofs of their own come first, each    *)
(* with its inductive invariant: OidcLogin, Accounts (Acc), Uploads (Up)   *)
(* and Selections (Sel).  Of the others, the proofs are instantiated like  *)
(* the modules themselves are.  An invariant of all parts then gives the   *)
(* properties of Server.                                                   *)
(***************************************************************************)
EXTENDS Server, FiniteSetTheorems, WellFoundedInduction, TLAPS

-----------------------------------------------------------------------------
(* OidcLogin: the inductive invariant.                                     *)

\* What a request of each kind carries.
Carries ==
    \A r \in Requests :
        /\ req[r].op = "create" => req[r].provider = None /\ req[r].enable \in BOOLEAN
        /\ req[r].op \in {"update", "delete", "logout"} => req[r].provider \in Providers
        /\ req[r].op = "delete" => req[r].step = "write"
        /\ req[r].step = "fetch" => req[r].op \in {"create", "update"}
        /\ req[r].op \in {"login-info", "callback", "logout"} => req[r].who \in People

TypeInv == TypeOK /\ Carries

AtMostOne == \A p, q \in Enabled : p = q

\* What a change was checked for holds until another one is committed.
Checked ==
    \A r \in Requests :
        req[r].op \in AdminOps /\ ~req[r].stale
            => Allowed(req[r].op, req[r].provider, req[r].enable)

EnabledInv == raced \/ (AtMostOne /\ Checked)

\* A code comes from a provider at which the person has signed in, and so does
\* the user that a callback is about to insert.
Signed ==
    /\ \A s \in People : code[s] # None => <<s, code[s]>> \in signedIn
    /\ \A r \in Requests :
         req[r].op = "callback" /\ req[r].step # "start"
             => <<req[r].who, req[r].provider>> \in signedIn

SignedInv == TypeInv /\ Signed /\ BoundWhereSignedIn

-----------------------------------------------------------------------------
(* OidcLogin: types.                                                       *)

LEMMA InitType == ASSUME OidcLoginAssumption, Init PROVE TypeInv
  BY DEF OidcLoginAssumption, Init, TypeInv, TypeOK, Carries, Cookies, NoCookies,
         RequestStates, AdminOps, Idle

\* A request that is closed, or one whose others are made stale.
LEMMA ClosedType ==
  ASSUME TypeInv, NEW r \in Requests, Close(r)
  PROVE  req' \in [Requests -> RequestStates] /\ Carries'
  BY DEF TypeInv, TypeOK, Carries, Close, Idle, RequestStates

LEMMA ChangedType ==
  ASSUME TypeInv, NEW r \in Requests, Changed(r)
  PROVE  /\ req' \in [Requests -> RequestStates] /\ Carries'
         /\ raced' \in BOOLEAN
<1>1. ASSUME NEW x \in Requests
      PROVE  req'[x] \in {Idle, req[x], [req[x] EXCEPT !.stale = TRUE]}
  BY DEF Changed, TypeInv, TypeOK
<1>2. ASSUME NEW x \in Requests
      PROVE  /\ Idle \in RequestStates
             /\ req[x] \in RequestStates
             /\ [req[x] EXCEPT !.stale = TRUE] \in RequestStates
  BY DEF TypeInv, TypeOK, Idle, RequestStates
<1>3. req' \in [Requests -> RequestStates]
  BY <1>1, <1>2 DEF Changed
<1>4. ASSUME NEW x \in Requests
      PROVE  \/ req'[x] = Idle
             \/ /\ req'[x].op = req[x].op
                /\ req'[x].step = req[x].step
                /\ req'[x].who = req[x].who
                /\ req'[x].provider = req[x].provider
                /\ req'[x].enable = req[x].enable
  BY <1>1, <1>2 DEF RequestStates
<1>5. Carries'
  BY <1>4 DEF TypeInv, Carries, Idle
<1>6. QED
  BY <1>3, <1>5 DEF Changed, TypeInv, TypeOK, RequestStates

LEMMA OpenedType ==
  ASSUME TypeInv, NEW r \in Requests, NEW request \in RequestStates,
         Open(r, request),
         request.op = "create" => request.provider = None /\ request.enable \in BOOLEAN,
         request.op \in {"update", "delete", "logout"} => request.provider \in Providers,
         request.op = "delete" => request.step = "write",
         request.step = "fetch" => request.op \in {"create", "update"},
         request.op \in {"login-info", "callback", "logout"} => request.who \in People
  PROVE  TypeInv'
  BY DEF TypeInv, TypeOK, Carries, Open, rowVars, webVars

LEMMA RefusedType ==
  ASSUME TypeInv, NEW r \in Requests, Refuse(r)
  PROVE  TypeInv'
  BY ClosedType DEF TypeInv, TypeOK, Refuse, rowVars, webVars

LEMMA AdminType ==
  ASSUME OidcLoginAssumption, TypeInv, NEW r \in Requests, AdminStep(r)
  PROVE  TypeInv'
<1>1. ASSUME NEW op \in AdminOps, NEW p \in Providers \cup {None},
             NEW enable \in BOOLEAN \cup {None}, Check(r, op, p, enable),
             op = "create" => p = None /\ enable \in BOOLEAN,
             op # "create" => p \in Providers
      PROVE  TypeInv'
  <2>1. PICK step \in {"fetch", "write"} :
          /\ op = "delete" => step = "write"
          /\ Open(r, [Idle EXCEPT !.op = op, !.step = step, !.provider = p,
                                  !.enable = enable])
    BY <1>1 DEF Check
  <2> DEFINE request == [Idle EXCEPT !.op = op, !.step = step, !.provider = p,
                                     !.enable = enable]
  <2>3. /\ request \in RequestStates
        /\ request.op = op /\ request.step = step
        /\ request.provider = p /\ request.enable = enable
    BY DEF Idle, RequestStates, AdminOps
  <2> HIDE DEF request
  <2>4. op \in {"create", "update", "delete"}
    BY DEF AdminOps
  <2>5. op = "delete" => step = "write"
    BY <2>1
  <2>6. request.step = "fetch" => request.op \in {"create", "update"}
    BY <2>3, <2>4, <2>5
  <2>7. Open(r, request)
    BY <2>1 DEF request
  <2>8. QED
    BY <1>1, <2>3, <2>4, <2>5, <2>6, <2>7, OpenedType
<1>2. CASE \E enable \in BOOLEAN : CheckCreate(r, enable)
  BY <1>1, <1>2 DEF CheckCreate, AdminOps
<1>3. CASE \E p \in Providers, enable \in BOOLEAN \cup {None} : CheckUpdate(r, p, enable)
  BY <1>1, <1>3 DEF CheckUpdate, AdminOps
<1>4. CASE \E p \in Providers : CheckDelete(r, p)
  BY <1>1, <1>4 DEF CheckDelete, AdminOps
<1>5. CASE FetchMetadata(r)
  <2>1. ASSUME Move(r, "write"), UNCHANGED <<rowVars, webVars, raced>>
        PROVE  TypeInv'
    BY <1>5, <2>1 DEF Move, TypeInv, TypeOK, Carries, RequestStates, rowVars, webVars
  <2>2. QED
    BY <1>5, <2>1, RefusedType DEF FetchMetadata
<1>6. CASE WriteFails(r)
  BY <1>6, RefusedType DEF WriteFails
<1>7. CASE InsertProvider(r)
  <2>1. provider' \in [Providers -> {"none", "disabled", "enabled", "deleted"}]
    BY <1>7 DEF InsertProvider, TypeInv, TypeOK
  <2>2. QED
    BY <1>7, <2>1, ChangedType DEF InsertProvider, TypeInv, TypeOK, Changed, webVars
<1>8. CASE UpdateProvider(r)
  <2>1. req[r].provider \in Providers
    BY <1>8 DEF UpdateProvider, At, TypeInv, Carries
  <2>2. Status(req[r]) \in {"none", "disabled", "enabled", "deleted"}
    BY <2>1 DEF Status, TypeInv, TypeOK
  <2>3. provider' \in [Providers -> {"none", "disabled", "enabled", "deleted"}]
    BY <1>8, <2>1, <2>2 DEF UpdateProvider, TypeInv, TypeOK
  <2>4. QED
    BY <1>8, <2>3, ChangedType DEF UpdateProvider, TypeInv, TypeOK, Changed, webVars
<1>9. CASE DeleteProvider(r)
  BY <1>9, ChangedType DEF DeleteProvider, TypeInv, TypeOK, Changed, webVars
<1>10. QED
  BY <1>2, <1>3, <1>4, <1>5, <1>6, <1>7, <1>8, <1>9 DEF AdminStep

LEMMA OpenType ==
  ASSUME OidcLoginAssumption, TypeInv, NEW r \in Requests, OpenStep(r)
  PROVE  TypeInv'
<1>1. PICK s \in People : LoginInfo(r, s) \/ OpenCallback(r, s) \/ OpenLogout(r, s)
  BY DEF OpenStep
<1>2. CASE LoginInfo(r, s)
  <2> DEFINE request == [Idle EXCEPT !.op = "login-info", !.step = "url", !.who = s]
  <2>2. request \in RequestStates /\ request.op = "login-info" /\ request.step = "url"
        /\ request.who = s
    BY DEF Idle, RequestStates
  <2> HIDE DEF request
  <2>3. Open(r, request)
    BY <1>2 DEF LoginInfo, request
  <2>4. QED
    BY <2>2, <2>3, OpenedType
<1>3. CASE OpenCallback(r, s)
  <2> DEFINE request == [Idle EXCEPT !.op = "callback", !.who = s]
  <2>2. request \in RequestStates /\ request.op = "callback" /\ request.step = "start"
        /\ request.who = s
    BY DEF Idle, RequestStates
  <2> HIDE DEF request
  <2>3. Open(r, request)
    BY <1>3 DEF OpenCallback, request
  <2>4. QED
    BY <2>2, <2>3, OpenedType
<1>4. CASE OpenLogout(r, s)
  <2> DEFINE p == cookie[s].tokens
             request == [Idle EXCEPT !.op = "logout", !.who = s, !.provider = p]
  <2>2. p \in Providers
    BY <1>4 DEF OpenLogout, TypeInv, TypeOK, Cookies
  <2>3. request \in RequestStates /\ request.op = "logout" /\ request.step = "start"
        /\ request.who = s /\ request.provider = p
    BY <2>2 DEF Idle, RequestStates
  <2>4. Open(r, request)
    BY <1>4 DEF OpenLogout
  <2> HIDE DEF request, p
  <2>5. QED
    BY <2>2, <2>3, <2>4, OpenedType
<1>5. QED
  BY <1>1, <1>2, <1>3, <1>4

LEMMA WebType ==
  ASSUME OidcLoginAssumption, TypeInv, NEW r \in Requests, WebStep(r)
  PROVE  TypeInv'
<1> DEFINE s == req[r].who
<1>1. CASE AuthorizationUrl(r)
  <2>1. s \in People
    BY <1>1 DEF AuthorizationUrl, At, TypeInv, Carries
  <2>2. ASSUME NEW p \in Providers, cookie' = [cookie EXCEPT ![s].state = p]
        PROVE  cookie' \in [People -> Cookies]
    BY <2>1, <2>2 DEF TypeInv, TypeOK, Cookies
  <2>3. QED
    BY <1>1, <2>1, <2>2, ClosedType, RefusedType
       DEF AuthorizationUrl, TypeInv, TypeOK, rowVars
<1>2. CASE ExchangeCode(r)
  <2>1. s \in People /\ code[s] \in Providers /\ req[r].op = "callback"
    BY <1>2 DEF ExchangeCode, At, TypeInv, TypeOK, Carries
  <2>2. /\ req' = [req EXCEPT ![r].step = "account", ![r].provider = code[s]]
        /\ code' = [code EXCEPT ![s] = None]
    BY <1>2 DEF ExchangeCode
  <2> DEFINE q == [req[r] EXCEPT !.step = "account", !.provider = code[s]]
  <2>a. req' = [req EXCEPT ![r] = q]
    BY <2>2 DEF TypeInv, TypeOK
  <2>b. /\ q \in RequestStates /\ q.op = "callback" /\ q.step = "account"
        /\ q.who = s /\ q.provider = code[s]
    BY <2>1 DEF TypeInv, TypeOK, RequestStates
  <2> HIDE DEF q
  <2>3. req' \in [Requests -> RequestStates] /\ Carries'
    BY <2>1, <2>a, <2>b DEF TypeInv, TypeOK, Carries
  <2>4. QED
    BY <1>2, <2>2, <2>3 DEF ExchangeCode, TypeInv, TypeOK, rowVars
<1>3. CASE FindAccount(r)
  BY <1>3 DEF FindAccount, At, Move, TypeInv, TypeOK, Carries, RequestStates, rowVars, webVars
<1>4. CASE ExchangeFails(r) \/ RefuseAccount(r) \/ InsertFails(r) \/ RevokeFails(r)
  BY <1>4, RefusedType DEF ExchangeFails, RefuseAccount, InsertFails, RevokeFails
<1>5. CASE InsertAccount(r)
  <2>1. s \in People /\ req[r].provider \in Providers \cup {None}
    BY <1>5 DEF InsertAccount, At, TypeInv, TypeOK, Carries, RequestStates
  <2>2. cookie' \in [People -> Cookies]
    BY <1>5, <2>1 DEF InsertAccount, SetTokens, TypeInv, TypeOK, Cookies
  <2>3. account' \in [People -> Providers \cup {Local, None}]
    BY <1>5, <2>1 DEF InsertAccount, TypeInv, TypeOK
  <2>4. QED
    BY <1>5, <2>2, <2>3, ClosedType DEF InsertAccount, TypeInv, TypeOK
<1>6. CASE Revoke(r)
  <2>1. cookie' \in [People -> Cookies]
    BY <1>6 DEF Revoke, TypeInv, TypeOK, Cookies
  <2>2. QED
    BY <1>6, <2>1, ClosedType DEF Revoke, TypeInv, TypeOK, rowVars
<1>7. QED
  BY <1>1, <1>2, <1>3, <1>4, <1>5, <1>6 DEF WebStep

LEMMA PersonType ==
  ASSUME OidcLoginAssumption, TypeInv, NEW s \in People, PersonStep(s)
  PROVE  TypeInv'
<1>1. UNCHANGED <<provider, req, raced>>
  BY DEF PersonStep, CreateLocal, DeleteUser, SignIn, ExpireCookies, rowVars
<1>2. account' \in [People -> Providers \cup {Local, None}]
  BY DEF PersonStep, CreateLocal, DeleteUser, SignIn, ExpireCookies, rowVars, TypeInv, TypeOK
<1>3. cookie' \in [People -> Cookies]
  BY DEF PersonStep, CreateLocal, DeleteUser, SignIn, ExpireCookies, webVars, NoCookies,
         Cookies, TypeInv, TypeOK
<1>4. /\ code' \in [People -> Providers \cup {None}]
      /\ signedIn' \subseteq People \X Providers
  <2>1. CASE SignIn(s)
    BY <2>1 DEF SignIn, webVars, Cookies, TypeInv, TypeOK
  <2>2. CASE CreateLocal(s) \/ DeleteUser(s) \/ ExpireCookies(s)
    BY <2>2 DEF CreateLocal, DeleteUser, ExpireCookies, webVars, TypeInv, TypeOK
  <2>. QED
    BY <2>1, <2>2 DEF PersonStep
<1>5. QED
  BY <1>1, <1>2, <1>3, <1>4 DEF TypeInv, TypeOK, Carries

LEMMA StepType ==
  ASSUME OidcLoginAssumption, TypeInv, [Next]_vars PROVE TypeInv'
<1>1. CASE UNCHANGED vars
  BY <1>1 DEF vars, TypeInv, TypeOK, Carries
<1>2. QED
  BY <1>1, AdminType, OpenType, WebType, PersonType DEF Next

\* The rows, the browsers and the requests are well typed.
THEOREM OidcTypeCorrect ==
  ASSUME OidcLoginAssumption PROVE Spec => []TypeOK
<1>1. Init => TypeInv
  BY InitType
<1>2. TypeInv /\ [Next]_vars => TypeInv'
  BY StepType
<1>3. TypeInv => TypeOK
  BY DEF TypeInv
<1>4. QED
  BY <1>1, <1>2, <1>3, PTL DEF Spec

-----------------------------------------------------------------------------
(* OidcLogin: the enabled provider.                                        *)

\* A step that changes neither providers nor the history, and in which the
\* open requests are as before, closed, or not about providers.
LEMMA EnabledSame ==
  ASSUME EnabledInv, UNCHANGED <<provider, raced>>,
         \A r \in Requests :
            req'[r].op \in AdminOps /\ ~req'[r].stale =>
               \/ /\ req[r].op = req'[r].op
                  /\ req[r].provider = req'[r].provider
                  /\ req[r].enable = req'[r].enable
                  /\ ~req[r].stale
               \/ Allowed(req'[r].op, req'[r].provider, req'[r].enable)
  PROVE  EnabledInv'
<1>1. Enabled' = Enabled
  BY DEF Enabled
<1>3. AtMostOne => AtMostOne'
  BY <1>1 DEF AtMostOne
<1>4. ~raced => Checked'
  <2> SUFFICES ASSUME ~raced, NEW r \in Requests,
                      req'[r].op \in AdminOps, ~req'[r].stale
               PROVE  Allowed(req[r].op, req[r].provider, req[r].enable)'
    BY DEF Checked
  <2>1. Allowed(req'[r].op, req'[r].provider, req'[r].enable)
    BY DEF EnabledInv, Checked
  <2>2. QED
    BY <2>1, <1>1 DEF Allowed
<1>5. QED
  BY <1>3, <1>4 DEF EnabledInv

LEMMA EnabledRefuse ==
  ASSUME TypeInv, EnabledInv, NEW r \in Requests, Refuse(r) PROVE EnabledInv'
<1>1. \A x \in Requests : req'[x] = Idle \/ req'[x] = req[x]
  BY DEF Refuse, Close, TypeInv, TypeOK
<1>2. QED
  BY <1>1, EnabledSame DEF Refuse, rowVars, Idle, AdminOps

\* A change that nothing has overtaken leaves at most one provider enabled.
LEMMA EnabledChanged ==
  ASSUME TypeInv, EnabledInv, NEW r \in Requests, req[r].op \in AdminOps, Changed(r),
         ~req[r].stale /\ Allowed(req[r].op, req[r].provider, req[r].enable) /\ AtMostOne
             => AtMostOne'
  PROVE  EnabledInv'
<1>1. raced' = (raced \/ req[r].stale)
  BY DEF Changed
<1>2. ASSUME ~raced' PROVE AtMostOne'
  BY <1>1, <1>2 DEF EnabledInv, Checked
<1>3. ASSUME NEW x \in Requests, req'[x].op \in AdminOps PROVE req'[x].stale = TRUE
  <2>1. x # r
    BY <1>3 DEF Changed, Idle, AdminOps
  <2>2. req[x] \in RequestStates
    BY DEF TypeInv, TypeOK
  <2>3. CASE req[x].op \in AdminOps
    <3>1. req'[x] = [req[x] EXCEPT !.stale = TRUE]
      BY <2>1, <2>3 DEF Changed
    <3>2. QED
      BY <3>1, <2>2 DEF RequestStates
  <2>4. CASE req[x].op \notin AdminOps
    <3>1. req'[x] = req[x]
      BY <2>1, <2>4 DEF Changed
    <3>2. QED
      BY <3>1, <2>4, <1>3
  <2>5. QED
    BY <2>3, <2>4
<1>4. Checked'
  BY <1>3 DEF Checked
<1>5. QED
  BY <1>2, <1>4 DEF EnabledInv

LEMMA EnabledAdmin ==
  ASSUME OidcLoginAssumption, TypeInv, EnabledInv, NEW r \in Requests, AdminStep(r)
  PROVE  EnabledInv'
<1>1. ASSUME NEW op \in AdminOps, NEW p \in Providers \cup {None},
             NEW enable \in BOOLEAN \cup {None}, Check(r, op, p, enable)
      PROVE  EnabledInv'
  <2>1. PICK step \in {"fetch", "write"} :
          Open(r, [Idle EXCEPT !.op = op, !.step = step, !.provider = p,
                               !.enable = enable])
    BY <1>1 DEF Check
  <2> DEFINE request == [Idle EXCEPT !.op = op, !.step = step, !.provider = p,
                                     !.enable = enable]
  <2>2. request.op = op /\ request.provider = p /\ request.enable = enable
    BY DEF Idle
  <2>3. Open(r, request)
    BY <2>1
  <2> HIDE DEF request
  <2>4. \A x \in Requests : req'[x] = req[x] \/ req'[x] = request
    BY <2>3 DEF Open, TypeInv, TypeOK
  <2>5. Allowed(request.op, request.provider, request.enable)
    BY <1>1, <2>2 DEF Check
  <2>6. UNCHANGED <<provider, raced>>
    BY <2>3 DEF Open, rowVars
  <2>7. QED
    BY <2>4, <2>5, <2>6, EnabledSame
<1>2. CASE \E enable \in BOOLEAN : CheckCreate(r, enable)
  BY <1>1, <1>2 DEF CheckCreate, AdminOps
<1>3. CASE \E p \in Providers, enable \in BOOLEAN \cup {None} : CheckUpdate(r, p, enable)
  BY <1>1, <1>3 DEF CheckUpdate, AdminOps
<1>4. CASE \E p \in Providers : CheckDelete(r, p)
  BY <1>1, <1>4 DEF CheckDelete, AdminOps
<1>5. CASE FetchMetadata(r)
  <2>1. ASSUME Move(r, "write"), UNCHANGED <<rowVars, webVars, raced>>
        PROVE  EnabledInv'
    <3>1. ASSUME NEW x \in Requests
          PROVE  /\ req'[x].op = req[x].op
                 /\ req'[x].provider = req[x].provider
                 /\ req'[x].enable = req[x].enable
                 /\ req'[x].stale = req[x].stale
      BY <2>1 DEF Move, TypeInv, TypeOK, RequestStates
    <3>2. QED
      BY <2>1, <3>1, EnabledSame DEF rowVars
  <2>2. QED
    BY <1>5, <2>1, EnabledRefuse DEF FetchMetadata
<1>6. CASE WriteFails(r)
  BY <1>6, EnabledRefuse DEF WriteFails
<1>7. CASE InsertProvider(r)
  <2>1. /\ req[r].op = "create" /\ req[r].enable \in BOOLEAN
        /\ Changed(r)
    BY <1>7 DEF InsertProvider, At, TypeInv, Carries
  <2>2. PICK p \in Providers :
          /\ provider[p] = "none"
          /\ provider' = [provider EXCEPT ![p] =
                             IF req[r].enable THEN "enabled" ELSE "disabled"]
    BY <1>7 DEF InsertProvider
  <2>3. /\ req[r].enable = FALSE => Enabled' = Enabled
        /\ Enabled' \subseteq Enabled \cup {p}
    BY <2>1, <2>2 DEF Enabled, TypeInv, TypeOK
  <2>4. Allowed(req[r].op, req[r].provider, req[r].enable)
          => req[r].enable = FALSE \/ Enabled = {}
    BY <2>1 DEF Allowed
  <2>5. QED
    BY <2>1, <2>3, <2>4, EnabledChanged DEF AtMostOne, AdminOps
<1>8. CASE UpdateProvider(r)
  <2> DEFINE p == req[r].provider
  <2>1. req[r].op = "update" /\ p \in Providers /\ Changed(r)
    BY <1>8 DEF UpdateProvider, At, TypeInv, Carries
  <2>2. provider' = [provider EXCEPT ![p] = Status(req[r])]
    BY <1>8 DEF UpdateProvider
  <2>3. req[r].enable # TRUE /\ Status(req[r]) = "enabled" => provider[p] = "enabled"
    BY <2>1 DEF Status, TypeInv, TypeOK
  <2>4. /\ req[r].enable # TRUE => Enabled' \subseteq Enabled
        /\ Enabled' \subseteq Enabled \cup {p}
    BY <2>1, <2>2, <2>3 DEF Enabled, TypeInv, TypeOK
  <2>5. Allowed(req[r].op, req[r].provider, req[r].enable)
          => req[r].enable # TRUE \/ Enabled \subseteq {p}
    BY <2>1 DEF Allowed
  <2>6. QED
    BY <2>1, <2>4, <2>5, EnabledChanged DEF AtMostOne, AdminOps
<1>9. CASE DeleteProvider(r)
  <2>1. req[r].op = "delete" /\ Changed(r)
    BY <1>9 DEF DeleteProvider, At
  <2>2. Enabled' \subseteq Enabled
    BY <1>9 DEF DeleteProvider, Enabled, TypeInv, TypeOK
  <2>3. QED
    BY <2>1, <2>2, EnabledChanged DEF AtMostOne, AdminOps
<1>10. QED
  BY <1>2, <1>3, <1>4, <1>5, <1>6, <1>7, <1>8, <1>9 DEF AdminStep

LEMMA EnabledOther ==
  ASSUME OidcLoginAssumption, TypeInv, EnabledInv, NEW r \in Requests,
         OpenStep(r) \/ WebStep(r)
  PROVE  EnabledInv'
<1>1. UNCHANGED <<provider, raced>>
  BY DEF OpenStep, LoginInfo, OpenCallback, OpenLogout, Open, WebStep, AuthorizationUrl,
         ExchangeCode, ExchangeFails, FindAccount, RefuseAccount, InsertAccount,
         InsertFails, Revoke, RevokeFails, Refuse, rowVars
<1>2. ASSUME NEW x \in Requests, req'[x].op \in AdminOps PROVE req'[x] = req[x]
  <2>1. CASE OpenStep(r)
    <3>1. PICK request : Open(r, request) /\ request.op \notin AdminOps
      <4>1. \A s : /\ [Idle EXCEPT !.op = "login-info", !.step = "url", !.who = s].op
                        \notin AdminOps
                   /\ [Idle EXCEPT !.op = "callback", !.who = s].op \notin AdminOps
                   /\ [Idle EXCEPT !.op = "logout", !.who = s,
                                   !.provider = cookie[s].tokens].op \notin AdminOps
        BY DEF Idle, AdminOps
      <4>2. QED
        BY <2>1, <4>1 DEF OpenStep, LoginInfo, OpenCallback, OpenLogout
    <3>2. QED
      BY <3>1, <1>2 DEF Open, TypeInv, TypeOK
  <2>2. CASE WebStep(r)
    <3>1. req[r].op \notin AdminOps /\ req[r].op \in {"login-info", "callback", "logout"}
      BY <2>2 DEF WebStep, AuthorizationUrl, ExchangeCode, ExchangeFails, FindAccount,
                  RefuseAccount, InsertAccount, InsertFails, Revoke, RevokeFails, At,
                  AdminOps
    <3>2. x # r => req'[x] = req[x]
      BY <2>2 DEF WebStep, AuthorizationUrl, ExchangeCode, ExchangeFails, FindAccount,
                  RefuseAccount, InsertAccount, InsertFails, Revoke, RevokeFails,
                  Refuse, Close, Move, TypeInv, TypeOK
    <3>3. req'[r].op \in {req[r].op, "idle"}
      <4>1. CASE ExchangeCode(r)
        <5>1. req' = [req EXCEPT ![r].step = "account",
                                 ![r].provider = code[req[r].who]]
          BY <4>1 DEF ExchangeCode
        <5>2. QED
          BY <5>1 DEF TypeInv, TypeOK, RequestStates
      <4>2. CASE FindAccount(r)
        BY <4>2 DEF FindAccount, Move, TypeInv, TypeOK, RequestStates
      <4>3. CASE ~ExchangeCode(r) /\ ~FindAccount(r)
        <5>1. Close(r)
          BY <2>2, <4>3 DEF WebStep, AuthorizationUrl, ExchangeFails, RefuseAccount,
                            InsertAccount, InsertFails, Revoke, RevokeFails, Refuse
        <5>2. QED
          BY <5>1 DEF Close, Idle, TypeInv, TypeOK
      <4>4. QED
        BY <4>1, <4>2, <4>3
    <3>4. QED
      BY <3>1, <3>2, <3>3, <1>2 DEF AdminOps
  <2>3. QED
    BY <2>1, <2>2
<1>3. QED
  BY <1>1, <1>2, EnabledSame

LEMMA EnabledStep ==
  ASSUME OidcLoginAssumption, TypeInv, EnabledInv, [Next]_vars PROVE EnabledInv'
<1>1. CASE UNCHANGED vars
  BY <1>1, EnabledSame DEF vars
<1>2. CASE \E s \in People : PersonStep(s)
  BY <1>2, EnabledSame
     DEF PersonStep, CreateLocal, DeleteUser, SignIn, ExpireCookies, rowVars
<1>3. QED
  BY <1>1, <1>2, EnabledAdmin, EnabledOther DEF Next

LEMMA EnabledBound == AtMostOne => Cardinality(Enabled) <= 1
<1>1. CASE Enabled = {}
  BY <1>1, FS_EmptySet
<1>2. CASE Enabled # {}
  <2>1. PICK p : p \in Enabled
    BY <1>2
  <2>2. AtMostOne => Enabled = {p}
    BY <2>1 DEF AtMostOne
  <2>3. QED
    BY <2>2, FS_Singleton
<1>3. QED
  BY <1>1, <1>2

\* At most one provider is enabled, unless two changes were checked at a time.
THEOREM OneIsEnabled ==
  ASSUME OidcLoginAssumption PROVE Spec => []OneProviderEnabled
<1>1. Init => TypeInv /\ EnabledInv
  <2>1. Init => EnabledInv
    BY DEF Init, EnabledInv, AtMostOne, Checked, Enabled, Idle, AdminOps
  <2>2. QED
    BY <2>1, InitType
<1>2. TypeInv /\ EnabledInv /\ [Next]_vars => (TypeInv /\ EnabledInv)'
  BY StepType, EnabledStep
<1>3. EnabledInv => OneProviderEnabled
  BY EnabledBound DEF EnabledInv, OneProviderEnabled
<1>4. QED
  BY <1>1, <1>2, <1>3, PTL DEF Spec

\* An enabled provider is not deleted, unless a change was committed between.
THEOREM EnabledStays ==
  ASSUME OidcLoginAssumption PROVE Spec => EnabledIsNotDeleted
<1>1. Init => TypeInv /\ EnabledInv
  <2>1. Init => EnabledInv
    BY DEF Init, EnabledInv, AtMostOne, Checked, Enabled, Idle, AdminOps
  <2>2. QED
    BY <2>1, InitType
<1>2. TypeInv /\ EnabledInv /\ [Next]_vars => (TypeInv /\ EnabledInv)'
  BY StepType, EnabledStep
<1>3. TypeInv /\ EnabledInv /\ [Next]_vars => [DeletesDisabled]_vars
  <2> SUFFICES ASSUME TypeInv, EnabledInv, Next, NEW p \in Providers,
                      provider[p] = "enabled", provider'[p] = "deleted"
               PROVE  raced'
    BY DEF DeletesDisabled
  <2>1. ~ \E s \in People : PersonStep(s)
    BY DEF PersonStep, CreateLocal, DeleteUser, SignIn, ExpireCookies, rowVars
  <2>2. PICK r \in Requests : AdminStep(r)
    BY <2>1 DEF Next, OpenStep, LoginInfo, OpenCallback, OpenLogout, Open, WebStep,
                AuthorizationUrl, ExchangeCode, ExchangeFails, FindAccount,
                RefuseAccount, InsertAccount, InsertFails, Revoke, RevokeFails, Refuse,
                rowVars
  <2>3. InsertProvider(r) \/ UpdateProvider(r) \/ DeleteProvider(r)
    BY <2>2 DEF AdminStep, CheckCreate, CheckUpdate, CheckDelete, Check, Open,
                FetchMetadata, WriteFails, Refuse, rowVars
  <2>4. ~InsertProvider(r)
    BY DEF InsertProvider, TypeInv, TypeOK
  <2>5. ~UpdateProvider(r)
    BY DEF UpdateProvider, Status, Exists, TypeInv, TypeOK
  <2>6. DeleteProvider(r)
    BY <2>3, <2>4, <2>5
  <2>7. req[r].op = "delete" /\ req[r].provider = p /\ raced' = (raced \/ req[r].stale)
    BY <2>6 DEF DeleteProvider, At, Changed, TypeInv, TypeOK
  <2>8. ~Allowed(req[r].op, req[r].provider, req[r].enable)
    BY <2>7 DEF Allowed, Enabled
  <2>9. QED
    BY <2>7, <2>8 DEF EnabledInv, Checked, AdminOps
<1>4. QED
  BY <1>1, <1>2, <1>3, PTL DEF Spec, EnabledIsNotDeleted

-----------------------------------------------------------------------------
(* OidcLogin: accounts.                                                    *)

\* Nothing takes a sign-in back, and only a sign-in makes a code.
LEMMA CodesAreSigned ==
  ASSUME OidcLoginAssumption, SignedInv, Next
  PROVE  /\ signedIn \subseteq signedIn'
         /\ \A s \in People : code'[s] # None => <<s, code'[s]>> \in signedIn'
<1> USE DEF SignedInv
<1>1. CASE UNCHANGED <<code, signedIn>>
  BY <1>1 DEF Signed
<1>2. ASSUME NEW s \in People, code' = [code EXCEPT ![s] = None], UNCHANGED signedIn
      PROVE  /\ signedIn \subseteq signedIn'
             /\ \A x \in People : code'[x] # None => <<x, code'[x]>> \in signedIn'
  BY <1>2 DEF Signed, TypeInv, TypeOK
<1>3. CASE \E s \in People : SignIn(s)
  BY <1>3 DEF SignIn, Signed, TypeInv, TypeOK
<1>4. CASE \E s \in People : CreateLocal(s) \/ DeleteUser(s) \/ ExpireCookies(s)
  BY <1>1, <1>4 DEF CreateLocal, DeleteUser, ExpireCookies, webVars
<1>5. CASE \E r \in Requests : AdminStep(r)
  BY <1>1, <1>5 DEF AdminStep, CheckCreate, CheckUpdate, CheckDelete, Check, Open,
         FetchMetadata, WriteFails, InsertProvider, UpdateProvider, DeleteProvider,
         Changed, Refuse, webVars
<1>6. CASE \E r \in Requests : OpenStep(r)
  BY <1>1, <1>6 DEF OpenStep, LoginInfo, OpenCallback, OpenLogout, Open, webVars
<1>7. CASE \E r \in Requests : WebStep(r)
  <2>1. PICK r \in Requests : WebStep(r)
    BY <1>7
  <2>2. CASE AuthorizationUrl(r)
    BY <2>2, <1>1, <1>2 DEF AuthorizationUrl, At, Refuse, TypeInv, Carries, webVars
  <2>3. CASE ExchangeCode(r)
    BY <2>3, <1>2 DEF ExchangeCode, At, TypeInv, Carries
  <2>4. CASE ~AuthorizationUrl(r) /\ ~ExchangeCode(r)
    BY <2>1, <2>4, <1>1 DEF WebStep, ExchangeFails, FindAccount, RefuseAccount,
         InsertAccount, InsertFails, Revoke, RevokeFails, Refuse, webVars
  <2>5. QED
    BY <2>2, <2>3, <2>4
<1>8. QED
  BY <1>3, <1>4, <1>5, <1>6, <1>7 DEF Next, PersonStep

\* A callback carries the provider of a code.
LEMMA CallbacksAreSigned ==
  ASSUME OidcLoginAssumption, SignedInv, Next, NEW r \in Requests,
         req'[r].op = "callback", req'[r].step # "start"
  PROVE  <<req'[r].who, req'[r].provider>> \in signedIn'
<1> USE DEF SignedInv
<1> DEFINE Past == /\ req[r].op = "callback"
                   /\ req[r].step # "start"
                   /\ req'[r].who = req[r].who
                   /\ req'[r].provider = req[r].provider
<1>1. CASE Past
  BY <1>1, CodesAreSigned DEF Signed
<1>2. CASE req'[r] = req[r]
  BY <1>1, <1>2
<1>3. req'[r] # Idle
  BY DEF Idle
<1> HIDE DEF Past
<1>4. CASE \E s \in People : PersonStep(s)
  BY <1>2, <1>4 DEF PersonStep, CreateLocal, DeleteUser, SignIn, ExpireCookies
<1>5. ASSUME NEW x \in Requests, NEW request, Open(x, request),
             request.op # "callback" \/ request.step = "start"
      PROVE  <<req'[r].who, req'[r].provider>> \in signedIn'
  <2>1. req'[r] = req[r] \/ req'[r] = request
    BY <1>5 DEF Open, TypeInv, TypeOK
  <2>2. QED
    BY <2>1, <1>2, <1>5
<1>6. CASE \E x \in Requests : OpenStep(x)
  <2>1. PICK x \in Requests, s \in People :
          LoginInfo(x, s) \/ OpenCallback(x, s) \/ OpenLogout(x, s)
    BY <1>6 DEF OpenStep
  <2>2. /\ [Idle EXCEPT !.op = "login-info", !.step = "url", !.who = s].op # "callback"
        /\ [Idle EXCEPT !.op = "callback", !.who = s].step = "start"
        /\ [Idle EXCEPT !.op = "logout", !.who = s,
                        !.provider = cookie[s].tokens].op # "callback"
    BY DEF Idle
  <2>3. QED
    BY <2>1, <2>2, <1>5 DEF LoginInfo, OpenCallback, OpenLogout
<1>7. ASSUME NEW x \in Requests, Close(x)
      PROVE  <<req'[r].who, req'[r].provider>> \in signedIn'
  BY <1>2, <1>3, <1>7 DEF Close, TypeInv, TypeOK
<1>8. ASSUME NEW x \in Requests, NEW step, Move(x, step), req[x].step # "start"
      PROVE  <<req'[r].who, req'[r].provider>> \in signedIn'
  <2>1. CASE x # r
    BY <2>1, <1>2, <1>8 DEF Move, TypeInv, TypeOK
  <2>2. CASE x = r
    <3>1. Past
      BY <2>2, <1>8 DEF Move, TypeInv, TypeOK, RequestStates, Past
    <3>2. QED
      BY <3>1, <1>1
  <2>3. QED
    BY <2>1, <2>2
<1>9. CASE \E x \in Requests : AdminStep(x)
  <2>1. PICK x \in Requests : AdminStep(x)
    BY <1>9
  <2>2. ASSUME NEW op \in AdminOps, NEW p, NEW enable, Check(x, op, p, enable)
        PROVE  <<req'[r].who, req'[r].provider>> \in signedIn'
    <3>1. PICK step : Open(x, [Idle EXCEPT !.op = op, !.step = step, !.provider = p,
                                           !.enable = enable])
      BY <2>2 DEF Check
    <3>2. [Idle EXCEPT !.op = op, !.step = step, !.provider = p,
                       !.enable = enable].op # "callback"
      BY DEF Idle, AdminOps
    <3>3. QED
      BY <3>1, <3>2, <1>5
  <2>3. CASE FetchMetadata(x)
    BY <2>3, <1>7, <1>8 DEF FetchMetadata, Refuse
  <2>4. CASE WriteFails(x)
    BY <2>4, <1>7 DEF WriteFails, Refuse
  <2>5. CASE Changed(x)
    <3>1. req'[r] = Idle \/ req'[r] = req[r] \/ req'[r] = [req[r] EXCEPT !.stale = TRUE]
      BY <2>5 DEF Changed
    <3>2. req'[r] = [req[r] EXCEPT !.stale = TRUE] => Past
      BY DEF Past, TypeInv, TypeOK, RequestStates
    <3>3. QED
      BY <3>1, <3>2, <1>1, <1>2, <1>3
  <2>6. QED
    BY <2>1, <2>2, <2>3, <2>4, <2>5
       DEF AdminStep, CheckCreate, CheckUpdate, CheckDelete, InsertProvider,
           UpdateProvider, DeleteProvider, AdminOps
<1>10. CASE \E x \in Requests : WebStep(x)
  <2>1. PICK x \in Requests : WebStep(x)
    BY <1>10
  <2>2. CASE ExchangeCode(x)
    <3> DEFINE s == req[x].who
    <3>1. /\ s \in People /\ code[s] # None
          /\ req' = [req EXCEPT ![x].step = "account", ![x].provider = code[s]]
          /\ UNCHANGED signedIn
      BY <2>2 DEF ExchangeCode, At, TypeInv, Carries
    <3>2. CASE x = r
      <4>1. req'[r].who = s /\ req'[r].provider = code[s]
        BY <3>1, <3>2 DEF TypeInv, TypeOK, RequestStates
      <4>2. QED
        BY <4>1, <3>1 DEF Signed
    <3>3. CASE x # r
      BY <3>1, <3>3, <1>2 DEF TypeInv, TypeOK
    <3>4. QED
      BY <3>2, <3>3
  <2>3. CASE FindAccount(x)
    BY <2>3, <1>8 DEF FindAccount, At
  <2>4. CASE ~ExchangeCode(x) /\ ~FindAccount(x)
    <3>1. Close(x)
      BY <2>1, <2>4 DEF WebStep, AuthorizationUrl, ExchangeFails, RefuseAccount,
                        InsertAccount, InsertFails, Revoke, RevokeFails, Refuse
    <3>2. QED
      BY <3>1, <1>7
  <2>5. QED
    BY <2>2, <2>3, <2>4
<1>11. QED
  BY <1>4, <1>6, <1>9, <1>10 DEF Next

\* How the accounts change.
LEMMA AccountStep ==
  ASSUME OidcLoginAssumption, TypeInv, Next
  PROVE  \/ UNCHANGED account
         \/ \E r \in Requests : InsertAccount(r) \/ DeleteProvider(r)
         \/ \E s \in People : CreateLocal(s) \/ DeleteUser(s)
  BY DEF Next, AdminStep, CheckCreate, CheckUpdate, CheckDelete, Check, Open,
         FetchMetadata, WriteFails, InsertProvider, UpdateProvider,
         OpenStep, LoginInfo, OpenCallback, OpenLogout, WebStep, AuthorizationUrl,
         ExchangeCode, ExchangeFails, FindAccount, RefuseAccount, InsertFails, Revoke,
         RevokeFails, Refuse, PersonStep, SignIn, ExpireCookies, rowVars

LEMMA BoundStep ==
  ASSUME OidcLoginAssumption, SignedInv, Next PROVE BoundWhereSignedIn'
<1> USE DEF SignedInv
<1>1. CASE UNCHANGED account
  BY <1>1, CodesAreSigned DEF BoundWhereSignedIn
<1>2. CASE \E r \in Requests : InsertAccount(r)
  <2>1. PICK r \in Requests : InsertAccount(r)
    BY <1>2
  <2>2. /\ account' = [account EXCEPT ![req[r].who] = req[r].provider]
        /\ <<req[r].who, req[r].provider>> \in signedIn
    BY <2>1 DEF InsertAccount, At, Signed
  <2>3. QED
    BY <2>2, CodesAreSigned DEF BoundWhereSignedIn, TypeInv, TypeOK
<1>3. CASE \E r \in Requests : DeleteProvider(r)
  <2>1. \A s \in People : account'[s] \in {account[s], None}
    BY <1>3 DEF DeleteProvider
  <2>2. QED
    BY <2>1, CodesAreSigned DEF BoundWhereSignedIn, OidcLoginAssumption
<1>4. CASE \E s \in People : CreateLocal(s) \/ DeleteUser(s)
  <2>1. \A s \in People : account'[s] \in {account[s], None, Local}
    BY <1>4 DEF CreateLocal, DeleteUser, TypeInv, TypeOK
  <2>2. QED
    BY <2>1, CodesAreSigned DEF BoundWhereSignedIn, OidcLoginAssumption
<1>5. QED
  BY <1>1, <1>2, <1>3, <1>4, AccountStep

\* A user is bound to a provider at which the person has signed in.
THEOREM AccountsAreOwned ==
  ASSUME OidcLoginAssumption PROVE Spec => []BoundWhereSignedIn
<1>1. Init => SignedInv
  <2>1. Init => Signed /\ BoundWhereSignedIn
    BY DEF Init, Signed, BoundWhereSignedIn, Idle, OidcLoginAssumption
  <2>2. QED
    BY <2>1, InitType DEF SignedInv
<1>2. SignedInv /\ [Next]_vars => SignedInv'
  <2>1. SignedInv /\ UNCHANGED vars => (Signed /\ BoundWhereSignedIn)'
    BY DEF SignedInv, Signed, BoundWhereSignedIn, vars
  <2>2. SignedInv /\ Next => (Signed /\ BoundWhereSignedIn)'
    BY CodesAreSigned, CallbacksAreSigned, BoundStep DEF Signed
  <2>3. QED
    BY <2>1, <2>2, StepType DEF SignedInv
<1>3. SignedInv => BoundWhereSignedIn
  BY DEF SignedInv
<1>4. QED
  BY <1>1, <1>2, <1>3, PTL DEF Spec

\* No account outlives its provider: the cascade and the foreign key.
THEOREM AccountsHaveProviders ==
  ASSUME OidcLoginAssumption PROVE Spec => []AccountHasProvider
<1>1. Init => TypeInv /\ AccountHasProvider
  <2>1. Init => AccountHasProvider
    BY DEF Init, AccountHasProvider, OidcLoginAssumption
  <2>2. QED
    BY <2>1, InitType
<1>2. TypeInv /\ AccountHasProvider /\ [Next]_vars => (TypeInv /\ AccountHasProvider)'
  <2> SUFFICES ASSUME TypeInv, AccountHasProvider, Next
               PROVE  AccountHasProvider'
    BY StepType DEF vars, AccountHasProvider, Exists
  <2>1. CASE \E r \in Requests : InsertProvider(r)
    BY <2>1 DEF InsertProvider, AccountHasProvider, Exists, TypeInv, TypeOK
  <2>2. CASE \E r \in Requests : UpdateProvider(r)
    <3>1. PICK r \in Requests : UpdateProvider(r)
      BY <2>2
    <3> DEFINE p == req[r].provider
    <3>2. /\ p \in Providers /\ Exists(p) /\ UNCHANGED account
          /\ provider' = [provider EXCEPT ![p] = Status(req[r])]
      BY <3>1 DEF UpdateProvider, At, TypeInv, Carries
    <3>3. Status(req[r]) \in {"disabled", "enabled"}
      BY <3>2 DEF Status, Exists
    <3>4. QED
      BY <3>2, <3>3 DEF AccountHasProvider, Exists, TypeInv, TypeOK
  <2>3. CASE \E r \in Requests : DeleteProvider(r)
    <3>1. PICK r \in Requests : DeleteProvider(r)
      BY <2>3
    <3>2. /\ provider' = [provider EXCEPT ![req[r].provider] = "deleted"]
          /\ account' = [s \in People |-> IF account[s] = req[r].provider THEN None
                                          ELSE account[s]]
      BY <3>1 DEF DeleteProvider
    <3>3. QED
      BY <3>2 DEF AccountHasProvider, Exists, TypeInv, TypeOK, OidcLoginAssumption
  <2>4. CASE ~ \E r \in Requests : InsertProvider(r) \/ UpdateProvider(r)
                                   \/ DeleteProvider(r)
    <3>1. UNCHANGED provider
      BY <2>4 DEF Next, AdminStep, CheckCreate, CheckUpdate, CheckDelete, Check, Open,
         FetchMetadata, WriteFails, OpenStep, LoginInfo, OpenCallback, OpenLogout,
         WebStep, AuthorizationUrl, ExchangeCode, ExchangeFails, FindAccount,
         RefuseAccount, InsertAccount, InsertFails, Revoke, RevokeFails, Refuse,
         PersonStep, CreateLocal, DeleteUser, SignIn, ExpireCookies, rowVars
    <3>2. CASE \E r \in Requests : InsertAccount(r)
      BY <3>1, <3>2 DEF InsertAccount, AccountHasProvider, Exists, TypeInv, TypeOK
    <3>3. CASE \E s \in People : CreateLocal(s) \/ DeleteUser(s)
      <4>1. \A s \in People : account'[s] \in {account[s], None, Local}
        BY <3>3 DEF CreateLocal, DeleteUser, TypeInv, TypeOK
      <4>2. QED
        BY <3>1, <4>1 DEF AccountHasProvider, Exists, OidcLoginAssumption
    <3>4. QED
      BY <3>1, <3>2, <3>3, <2>4, AccountStep DEF AccountHasProvider, Exists
  <2>5. QED
    BY <2>1, <2>2, <2>3, <2>4
<1>3. QED
  BY <1>1, <1>2, PTL DEF Spec

-----------------------------------------------------------------------------
(* Accounts: the invariant.                                                *)

\* What a request in each state carries.
AccCarries ==
    \A r \in Requests : accReq[r].op # "idle" =>
        /\ accReq[r].actor \in Users /\ accReq[r].target \in Users
        /\ accReq[r].email # None
        /\ accReq[r].op = "post" => accReq[r].body \in Acc!Rows
        /\ accReq[r].op \in {"patch_me", "password"} =>
             accReq[r].target = accReq[r].actor /\ accReq[r].body.admin = None
        /\ accReq[r].op = "password" => accReq[r].body.email = None

\* No administrator demotes or deletes the one who asks for it.
AccGuarded ==
    \A r \in Requests :
        /\ accReq[r].op = "patch" =>
             ~(accReq[r].target = accReq[r].actor /\ accReq[r].body.admin = FALSE)
        /\ accReq[r].op = "delete" => accReq[r].target # accReq[r].actor

\* The unique index of the column email.
AccUnique ==
    \A u, v \in Users :
        Acc!Live(u) /\ Acc!Live(v) /\ user[u].email = user[v].email => u = v

\* What was read with the token is true until the address changes.
AccFresh ==
    \A r \in Requests :
        accReq[r].op # "idle" /\ ~accReq[r].moved =>
            Acc!Live(accReq[r].actor) /\ user[accReq[r].actor].email = accReq[r].email

AccTypeInv == Acc!TypeOK /\ AccCarries
AccInv == AccTypeInv /\ AccGuarded /\ AccUnique /\ AccFresh /\ Acc!OwnPasswordOnly

LEMMA AccIdle == Acc!AccountsAssumption => Acc!Idle \in Acc!RequestStates
  BY DEF Acc!Idle, Acc!RequestStates, Acc!AccountsAssumption

LEMMA AccMerged ==
  ASSUME NEW w \in Acc!Rows, NEW body \in Acc!Bodies
  PROVE  /\ Acc!Merged(w, body) \in Acc!Rows
         /\ Acc!Merged(w, body).email = (IF body.email = None THEN w.email ELSE body.email)
         /\ Acc!Merged(w, body).admin = (IF body.admin = None THEN w.admin ELSE body.admin)
<1>1. DOMAIN w = {"username", "email", "password", "admin"}
  BY DEF Acc!Rows
<1> DEFINE M == [username |-> IF body.username = None THEN w.username ELSE body.username,
                 email |-> IF body.email = None THEN w.email ELSE body.email,
                 password |-> IF body.password = None THEN w.password ELSE body.password,
                 admin |-> IF body.admin = None THEN w.admin ELSE body.admin]
<1>2. Acc!Merged(w, body) = M
  <2>1. DOMAIN M = DOMAIN w /\ DOMAIN Acc!Merged(w, body) = DOMAIN w
    BY <1>1 DEF Acc!Merged
  <2>2. \A f \in DOMAIN w : Acc!Merged(w, body)[f] = M[f]
    BY <1>1 DEF Acc!Merged
  <2>. QED
    BY <1>1, <2>1, <2>2 DEF Acc!Merged
<1>3. M \in Acc!Rows
  BY DEF Acc!Rows, Acc!Bodies
<1>. QED
  BY <1>2, <1>3

LEMMA AccBody ==
  ASSUME Acc!AccountsAssumption, Acc!TypeOK, NEW r \in Requests PROVE accReq[r].body \in Acc!Bodies
<1>1. Acc!NoBody \in Acc!Bodies
  BY DEF Acc!NoBody, Acc!Bodies
<1>2. accReq[r].body \in UserChanges \cup {Acc!NoBody}
  BY DEF Acc!TypeOK, Acc!RequestStates
<1>. QED
  BY <1>1, <1>2 DEF Acc!AccountsAssumption

\* A body that leaves nothing out is a row.
LEMMA AccWholeBody ==
  ASSUME NEW body \in Acc!Bodies,
         None \notin {body.username, body.email, body.password, body.admin}
  PROVE  body \in Acc!Rows
  BY DEF Acc!Bodies, Acc!Rows

\* A row that is written is live, any other is not.
LEMMA AccLive ==
  ASSUME Acc!AccountsAssumption, Acc!TypeOK
  PROVE  \A u \in Users : Acc!Live(u) <=> user[u] \in Acc!Rows
  BY DEF Acc!AccountsAssumption, Acc!TypeOK, Acc!Live

-----------------------------------------------------------------------------
(* Accounts: the steps, each about the kind of thing it does.              *)

\* A request that is opened has read the address of its actor.
AccOpened(r, op, a, t, body, email, guess) ==
    /\ accReq[r] = Acc!Idle
    /\ Acc!Live(a) /\ email = user[a].email
    /\ accReq' = [accReq EXCEPT ![r] =
                  [Acc!Idle EXCEPT !.op = op, !.actor = a, !.target = t,
                               !.body = body, !.email = email, !.guess = guess]]
    /\ UNCHANGED <<user, session, stale>>

LEMMA AccOpenKeeps ==
  ASSUME Acc!AccountsAssumption, AccInv, NEW r \in Requests, NEW op \in Acc!Writes,
         NEW a \in Users, NEW t \in Users, NEW body \in UserChanges \cup {Acc!NoBody},
         NEW email, NEW guess \in Passwords \cup {None},
         AccOpened(r, op, a, t, body, email, guess),
         op = "post" => body \in Acc!Rows,
         op \in {"patch_me", "password"} => t = a /\ body.admin = None,
         op = "password" => body.email = None,
         op = "patch" => ~(t = a /\ body.admin = FALSE),
         op = "delete" => t # a
  PROVE  AccInv'
<1> DEFINE q == [Acc!Idle EXCEPT !.op = op, !.actor = a, !.target = t,
                             !.body = body, !.email = email, !.guess = guess]
<1>1. user[a] \in Acc!Rows
  BY AccLive DEF AccInv, AccTypeInv, AccOpened
<1>2. email \in UserNames
  BY <1>1 DEF AccOpened, Acc!Rows
<1>3. email # None /\ op # "idle"
  BY <1>2 DEF Acc!AccountsAssumption, Acc!Writes
<1>4. q \in Acc!RequestStates
  BY <1>2 DEF Acc!Idle, Acc!RequestStates
<1>5. accReq' = [accReq EXCEPT ![r] = q]
  BY DEF AccOpened
<1>6. UNCHANGED <<user, session, stale>>
  BY DEF AccOpened
<1>7. /\ accReq'[r] = q
      /\ \A x \in Requests \ {r} : accReq'[x] = accReq[x]
  BY <1>5 DEF AccInv, AccTypeInv, Acc!TypeOK
<1>8. /\ q.op = op /\ q.actor = a /\ q.target = t /\ q.body = body
      /\ q.email = email /\ q.step = "check" /\ q.moved = FALSE
  BY DEF Acc!Idle
<1> HIDE DEF q
<1>9. Acc!TypeOK'
  BY <1>4, <1>5, <1>6 DEF AccInv, AccTypeInv, Acc!TypeOK
<1>10. AccCarries'
  BY <1>3, <1>7, <1>8 DEF AccInv, AccTypeInv, AccCarries
<1>11. AccGuarded'
  BY <1>7, <1>8 DEF AccInv, AccGuarded
<1>12. AccUnique'
  BY <1>6 DEF AccInv, AccUnique, Acc!Live
<1>13. AccFresh'
  BY <1>6, <1>7, <1>8 DEF AccInv, AccFresh, Acc!Live, AccOpened
<1>14. Acc!OwnPasswordOnly'
  BY <1>7, <1>8 DEF AccInv, Acc!OwnPasswordOnly
<1>. QED
  BY <1>9, <1>10, <1>11, <1>12, <1>13, <1>14 DEF AccInv, AccTypeInv

\* A request that ends without writing leaves nothing behind.
LEMMA AccCloseKeeps ==
  ASSUME Acc!AccountsAssumption, AccInv, NEW r \in Requests, Acc!Close(r),
         UNCHANGED <<user, session>>, stale' \in BOOLEAN
  PROVE  AccInv'
<1>1. /\ accReq'[r] = Acc!Idle
      /\ \A x \in Requests \ {r} : accReq'[x] = accReq[x]
      /\ accReq' \in [Requests -> Acc!RequestStates]
  BY AccIdle DEF AccInv, AccTypeInv, Acc!TypeOK, Acc!Close
<1>2. Acc!Idle.op = "idle"
  BY DEF Acc!Idle
<1>3. Acc!TypeOK' /\ AccCarries'
  BY <1>1, <1>2 DEF AccInv, AccTypeInv, Acc!TypeOK, AccCarries
<1>4. AccGuarded' /\ Acc!OwnPasswordOnly'
  BY <1>1, <1>2 DEF AccInv, AccGuarded, Acc!OwnPasswordOnly
<1>5. AccUnique' /\ AccFresh'
  BY <1>1, <1>2 DEF AccInv, AccUnique, AccFresh, Acc!Live
<1>. QED
  BY <1>3, <1>4, <1>5 DEF AccInv, AccTypeInv

\* A row is written: whatever is live has an address of its own still, and the
\* requests of one whose address has changed know it.
LEMMA AccCommitKeeps ==
  ASSUME Acc!AccountsAssumption, AccInv, NEW r \in Requests, accReq[r].op # "idle",
         NEW w \in Acc!Rows \cup {Gone}, Acc!Commit(r, w), stale' \in BOOLEAN,
         w # Gone => \A v \in Users \ {accReq[r].target} :
                           Acc!Live(v) => user[v].email # w.email
  PROVE  AccInv'
<1> DEFINE t == accReq[r].target
<1> USE DEF AccInv, AccTypeInv
<1>1. t \in Users
  BY DEF AccCarries
<1>2. /\ user' = [user EXCEPT ![t] = w]
      /\ UNCHANGED session
      /\ accReq' = [x \in Requests |->
                  IF x = r THEN Acc!Idle
                  ELSE IF accReq[x].actor = t /\ Acc!Leaves(t, w)
                  THEN [accReq[x] EXCEPT !.moved = TRUE]
                  ELSE accReq[x]]
  BY DEF Acc!Commit
<1>3. user'[t] = w /\ \A u \in Users \ {t} : user'[u] = user[u]
  BY <1>1, <1>2 DEF Acc!TypeOK
<1>4. \A x \in Requests \ {r} :
        /\ accReq'[x].op = accReq[x].op /\ accReq'[x].step = accReq[x].step
        /\ accReq'[x].actor = accReq[x].actor /\ accReq'[x].target = accReq[x].target
        /\ accReq'[x].body = accReq[x].body /\ accReq'[x].email = accReq[x].email
        /\ accReq'[x].verified = accReq[x].verified
        /\ ~accReq'[x].moved => ~accReq[x].moved /\ ~(accReq[x].actor = t /\ Acc!Leaves(t, w))
  <2>. TAKE x \in Requests \ {r}
  <2>1. accReq[x] \in Acc!RequestStates
    BY DEF Acc!TypeOK
  <2>2. CASE accReq[x].actor = t /\ Acc!Leaves(t, w)
    <3>1. accReq'[x] = [accReq[x] EXCEPT !.moved = TRUE]
      BY <1>2, <2>2
    <3>. QED
      BY <2>1, <3>1 DEF Acc!RequestStates
  <2>3. CASE ~(accReq[x].actor = t /\ Acc!Leaves(t, w))
    <3>1. accReq'[x] = accReq[x]
      BY <1>2, <2>3
    <3>. QED
      BY <2>3, <3>1
  <2>. QED
    BY <2>2, <2>3
<1>5. accReq'[r] = Acc!Idle /\ Acc!Idle.op = "idle"
  BY <1>2 DEF Acc!Idle
<1>6. Acc!TypeOK'
  <2>1. ASSUME NEW x \in Requests
        PROVE  [accReq[x] EXCEPT !.moved = TRUE] \in Acc!RequestStates
    <3>1. accReq[x] \in Acc!RequestStates
      BY DEF Acc!TypeOK
    <3>. QED
      BY <3>1 DEF Acc!RequestStates
  <2>2. accReq' \in [Requests -> Acc!RequestStates]
    BY <1>2, <2>1, AccIdle DEF Acc!TypeOK
  <2>. QED
    BY <1>1, <1>2, <2>2 DEF Acc!TypeOK
<1>7. AccCarries'
  BY <1>4, <1>5 DEF AccCarries
<1>8. AccGuarded' /\ Acc!OwnPasswordOnly'
  BY <1>4, <1>5 DEF AccGuarded, Acc!OwnPasswordOnly
<1>9. \A u \in Users : Acc!Live(u)' <=> IF u = t THEN w # Gone ELSE Acc!Live(u)
  BY <1>1, <1>3 DEF Acc!Live, Acc!AccountsAssumption
<1>10. AccUnique'
  BY <1>1, <1>3, <1>9 DEF AccUnique
<1>11. AccFresh'
  <2>. SUFFICES ASSUME NEW x \in Requests \ {r}, accReq[x].op # "idle", ~accReq'[x].moved
                PROVE  Acc!Live(accReq[x].actor)' /\ user'[accReq[x].actor].email = accReq[x].email
    BY <1>4, <1>5 DEF AccFresh
  <2>1. Acc!Live(accReq[x].actor) /\ user[accReq[x].actor].email = accReq[x].email
    BY <1>4 DEF AccFresh
  <2>2. accReq[x].actor \in Users
    BY DEF AccCarries
  <2>3. CASE accReq[x].actor # t
    BY <1>3, <1>4, <1>9, <2>1, <2>2, <2>3 DEF Acc!Live
  <2>4. CASE accReq[x].actor = t
    BY <1>1, <1>3, <1>4, <1>9, <2>1, <2>4 DEF Acc!Leaves, Acc!Live
  <2>. QED
    BY <2>3, <2>4
<1>. QED
  BY <1>6, <1>7, <1>8, <1>10, <1>11

\* A request that has passed its checks.
LEMMA AccPassKeeps ==
  ASSUME Acc!AccountsAssumption, AccInv, NEW r \in Requests,
         NEW verified \in Users \cup {None}, Acc!Pass(r, verified),
         accReq[r].op = "password" /\ ~accReq[r].moved => verified = accReq[r].actor
  PROVE  AccInv'
<1> USE DEF AccInv, AccTypeInv
<1>1. /\ accReq'[r] = [accReq[r] EXCEPT !.step = "write", !.verified = verified]
      /\ \A x \in Requests \ {r} : accReq'[x] = accReq[x]
      /\ UNCHANGED <<user, session, stale>>
  BY DEF Acc!Pass, Acc!TypeOK
<1>2. /\ accReq'[r].op = accReq[r].op /\ accReq'[r].actor = accReq[r].actor
      /\ accReq'[r].target = accReq[r].target /\ accReq'[r].body = accReq[r].body
      /\ accReq'[r].email = accReq[r].email /\ accReq'[r].moved = accReq[r].moved
      /\ accReq'[r].verified = verified
      /\ accReq'[r] \in Acc!RequestStates
  BY <1>1 DEF Acc!TypeOK, Acc!RequestStates
<1>3. accReq' \in [Requests -> Acc!RequestStates]
  BY <1>2 DEF Acc!Pass, Acc!TypeOK
<1>4. Acc!TypeOK'
  BY <1>1, <1>3 DEF Acc!TypeOK
<1>5. \A x \in Requests :
        /\ accReq'[x].op = accReq[x].op /\ accReq'[x].actor = accReq[x].actor
        /\ accReq'[x].target = accReq[x].target /\ accReq'[x].body = accReq[x].body
        /\ accReq'[x].email = accReq[x].email /\ accReq'[x].moved = accReq[x].moved
  BY <1>1, <1>2
<1>6. AccCarries'
  BY <1>5 DEF AccCarries
<1>7. AccGuarded'
  BY <1>5 DEF AccGuarded
<1>8. AccUnique' /\ AccFresh'
  BY <1>1, <1>5 DEF AccUnique, AccFresh, Acc!Live
<1>9. ASSUME NEW x \in Requests, accReq[x].op = "password", accReq'[x].step = "write",
             ~accReq[x].moved
      PROVE  accReq'[x].verified = accReq[x].actor
  <2>1. CASE x = r
    BY <1>2, <1>9, <2>1
  <2>2. CASE x # r
    BY <1>1, <1>9, <2>2 DEF Acc!OwnPasswordOnly
  <2>. QED
    BY <2>1, <2>2
<1>10. Acc!OwnPasswordOnly'
  BY <1>5, <1>9 DEF Acc!OwnPasswordOnly
<1>. QED
  BY <1>4, <1>6, <1>7, <1>8, <1>10

LEMMA AccRequestStep ==
  ASSUME Acc!AccountsAssumption, AccInv, NEW r \in Requests, Acc!RequestStep(r)
  PROVE  AccInv'
<1> USE DEF AccInv, AccTypeInv
<1> DEFINE q == accReq[r]
<1>1. q.body \in Acc!Bodies /\ stale \in BOOLEAN
  BY AccBody DEF Acc!TypeOK
<1>2. (stale \/ Acc!Overtaken(r)) \in BOOLEAN
  BY <1>1 DEF Acc!Overtaken
<1>3. CASE Acc!Refuse(r)
  BY <1>1, <1>3, AccCloseKeeps DEF Acc!Refuse
<1>4. CASE Acc!CheckConflict(r)
  BY <1>3, <1>4, AccPassKeeps DEF Acc!CheckConflict
<1>5. CASE Acc!CheckPassword(r)
  <2>1. ASSUME NEW v \in Users, Acc!Live(v), user[v].email = q.email, Acc!Pass(r, v),
               q.op = "password"
        PROVE  AccInv'
    <3>1. ~q.moved => v = q.actor
      BY <2>1 DEF AccFresh, AccUnique, AccCarries
    <3>. QED
      BY <2>1, <3>1, AccPassKeeps
  <2>. QED
    BY <1>3, <1>5, <2>1 DEF Acc!CheckPassword
<1>6. CASE Acc!WriteNew(r)
  <2>1. q.op = "post" /\ q.body \in Acc!Rows /\ q.target \in Users
    BY <1>6 DEF Acc!WriteNew, AccCarries
  <2>2. ASSUME ~Acc!Collides(q.target, q.body), Acc!Commit(r, q.body),
               stale' = (stale \/ Acc!Overtaken(r))
        PROVE  AccInv'
    <3>1. \A v \in Users \ {q.target} : Acc!Live(v) => user[v].email # q.body.email
      BY <2>2 DEF Acc!Collides
    <3>. QED
      BY <1>2, <2>1, <2>2, <3>1, AccCommitKeeps
  <2>. QED
    BY <1>3, <1>6, <2>2 DEF Acc!WriteNew
<1>7. CASE Acc!WriteChange(r)
  <2> DEFINE w == Acc!Merged(user[q.target], q.body)
  <2>1. q.op \in {"patch_me", "patch"}
    BY <1>7 DEF Acc!WriteChange
  <2>2. ASSUME Acc!Live(q.target), ~Acc!Collides(q.target, w), Acc!Commit(r, w),
               stale' = (stale \/ Acc!Overtaken(r))
        PROVE  AccInv'
    <3>1. user[q.target] \in Acc!Rows
      BY <2>1, <2>2, AccLive DEF AccCarries
    <3>2. w \in Acc!Rows
      BY <1>1, <3>1, AccMerged
    <3>3. \A v \in Users \ {q.target} : Acc!Live(v) => user[v].email # w.email
      BY <2>2 DEF Acc!Collides
    <3>. QED
      BY <1>2, <2>1, <2>2, <3>2, <3>3, AccCommitKeeps
  <2>. QED
    BY <1>3, <1>7, <2>2 DEF Acc!WriteChange
<1>8. CASE Acc!WritePassword(r)
  <2> DEFINE w == Acc!Merged(user[q.target], q.body)
  <2>1. q.op = "password" /\ UNCHANGED stale /\ q.target \in Users /\ q.body.email = None
    BY <1>8 DEF Acc!WritePassword, AccCarries
  <2>2. ASSUME Acc!Live(q.target), Acc!Commit(r, w) PROVE AccInv'
    <3>1. user[q.target] \in Acc!Rows
      BY <2>1, <2>2, AccLive
    <3>2. w \in Acc!Rows /\ w.email = user[q.target].email
      BY <1>1, <2>1, <3>1, AccMerged
    <3>3. \A v \in Users \ {q.target} : Acc!Live(v) => user[v].email # w.email
      BY <2>1, <2>2, <3>2 DEF AccUnique
    <3>. QED
      BY <1>1, <2>1, <2>2, <3>2, <3>3, AccCommitKeeps
  <2>3. CASE Acc!Close(r) /\ UNCHANGED <<user, session>>
    BY <1>1, <2>1, <2>3, AccCloseKeeps
  <2>. QED
    BY <1>8, <2>2, <2>3 DEF Acc!WritePassword
<1>9. CASE Acc!WriteDelete(r)
  BY <1>2, <1>9, AccCommitKeeps DEF Acc!WriteDelete
<1>10. CASE Acc!Abort(r)
  BY <1>3, <1>10 DEF Acc!Abort
<1>. QED
  BY <1>4, <1>5, <1>6, <1>7, <1>8, <1>9, <1>10 DEF Acc!RequestStep

LEMMA AccOpenStep ==
  ASSUME Acc!AccountsAssumption, AccInv, NEW r \in Requests, Acc!OpenStep(r) PROVE AccInv'
<1> USE DEF AccInv, AccTypeInv
<1>1. PICK a \in Users :
        \/ \E u \in Users, body \in UserChanges :
             Acc!OpenPost(r, a, u, body) \/ Acc!OpenPatch(r, a, u, body)
        \/ \E body \in UserChanges : Acc!OpenPatchMe(r, a, body)
        \/ \E t \in Users : Acc!OpenDelete(r, a, t)
        \/ \E guess \in Passwords, body \in UserChanges : Acc!OpenPassword(r, a, guess, body)
  BY DEF Acc!OpenStep
<1>2. ASSUME NEW op, NEW t, NEW body, Acc!Open(r, op, a, t, body)
      PROVE  AccOpened(r, op, a, t, body, user[a].email, None)
  <2>1. [Acc!Idle EXCEPT !.op = op, !.actor = a, !.target = t,
                     !.body = body, !.email = user[a].email]
        = [Acc!Idle EXCEPT !.op = op, !.actor = a, !.target = t,
                       !.body = body, !.email = user[a].email, !.guess = None]
    <3>1. Acc!Idle.guess = None /\ DOMAIN Acc!Idle = {"op", "step", "actor", "target", "body",
                                    "email", "guess", "verified", "moved"}
      BY DEF Acc!Idle
    <3>2. ASSUME NEW x, DOMAIN x = DOMAIN Acc!Idle, x.guess = None
          PROVE  [x EXCEPT !.op = op, !.actor = a, !.target = t,
                           !.body = body, !.email = user[a].email]
                 = [x EXCEPT !.op = op, !.actor = a, !.target = t,
                             !.body = body, !.email = user[a].email, !.guess = None]
      BY <3>1, <3>2
    <3>. QED
      BY <3>1, <3>2
  <2>. QED
    BY <1>2, <2>1 DEF Acc!Open, Acc!Authenticated, AccOpened
<1>3. ASSUME NEW u \in Users, NEW body \in UserChanges, Acc!OpenPost(r, a, u, body)
      PROVE  AccInv'
  <2>1. body \in Acc!Rows
    BY <1>3, AccWholeBody DEF Acc!OpenPost, Acc!AccountsAssumption
  <2>2. AccOpened(r, "post", a, u, body, user[a].email, None)
    BY <1>2, <1>3 DEF Acc!OpenPost
  <2>. QED
    BY <2>1, <2>2, AccOpenKeeps DEF Acc!Writes
<1>4. ASSUME NEW u \in Users, NEW body \in UserChanges, Acc!OpenPatch(r, a, u, body)
      PROVE  AccInv'
  <2>1. AccOpened(r, "patch", a, u, body, user[a].email, None)
    BY <1>2, <1>4 DEF Acc!OpenPatch
  <2>2. ~(u = a /\ body.admin = FALSE)
    BY <1>4 DEF Acc!OpenPatch
  <2>. QED
    BY <2>1, <2>2, AccOpenKeeps DEF Acc!Writes
<1>5. ASSUME NEW body \in UserChanges, Acc!OpenPatchMe(r, a, body) PROVE AccInv'
  <2>1. AccOpened(r, "patch_me", a, a, body, user[a].email, None)
    BY <1>2, <1>5 DEF Acc!OpenPatchMe
  <2>2. body.admin = None
    BY <1>5 DEF Acc!OpenPatchMe
  <2>. QED
    BY <2>1, <2>2, AccOpenKeeps DEF Acc!Writes
<1>6. ASSUME NEW t \in Users, Acc!OpenDelete(r, a, t) PROVE AccInv'
  <2>1. AccOpened(r, "delete", a, t, Acc!NoBody, user[a].email, None)
    BY <1>2, <1>6 DEF Acc!OpenDelete
  <2>2. t # a
    BY <1>6 DEF Acc!OpenDelete
  <2>. QED
    BY <2>1, <2>2, AccOpenKeeps DEF Acc!Writes
<1>7. ASSUME NEW guess \in Passwords, NEW body \in UserChanges,
             Acc!OpenPassword(r, a, guess, body)
      PROVE  AccInv'
  <2>1. AccOpened(r, "password", a, a, body, user[a].email, guess)
    BY <1>7 DEF Acc!OpenPassword, Acc!Authenticated, AccOpened
  <2>2. body.admin = None /\ body.email = None
    BY <1>7 DEF Acc!OpenPassword
  <2>. QED
    BY <2>1, <2>2, AccOpenKeeps DEF Acc!Writes
<1>. QED
  BY <1>1, <1>3, <1>4, <1>5, <1>6, <1>7

LEMMA AccNext ==
  ASSUME Acc!AccountsAssumption, AccInv, [Acc!Next]_(Acc!vars) PROVE AccInv'
<1> USE DEF AccInv, AccTypeInv
<1>1. ASSUME UNCHANGED <<user, accReq, stale>>, session' \in SUBSET Users PROVE AccInv'
  <2>1. Acc!TypeOK' /\ AccCarries' /\ AccGuarded'
    BY <1>1 DEF Acc!TypeOK, AccCarries, AccGuarded
  <2>2. AccUnique' /\ AccFresh' /\ Acc!OwnPasswordOnly'
    BY <1>1 DEF AccUnique, AccFresh, Acc!OwnPasswordOnly, Acc!Live
  <2>. QED
    BY <2>1, <2>2
<1>2. CASE UNCHANGED Acc!vars
  BY <1>1, <1>2 DEF Acc!vars, Acc!TypeOK
<1>3. ASSUME NEW u \in Users, NEW body \in UserChanges, Acc!CreateUser(u, body) PROVE AccInv'
  <2>1. body \in Acc!Rows
    BY <1>3, AccWholeBody DEF Acc!CreateUser, Acc!AccountsAssumption
  <2>2. /\ user' = [user EXCEPT ![u] = body]
        /\ UNCHANGED <<session, accReq, stale>>
        /\ user[u] = Unborn
    BY <1>3 DEF Acc!CreateUser
  <2>3. user'[u] = body /\ \A v \in Users \ {u} : user'[v] = user[v]
    BY <2>2 DEF Acc!TypeOK
  <2>4. \A v \in Users : Acc!Live(v)' <=> (v = u \/ Acc!Live(v))
    BY <2>1, <2>3 DEF Acc!Live, Acc!AccountsAssumption
  <2>5. \A v \in Users : Acc!Live(v) => user[v].email # body.email
    BY <1>3 DEF Acc!CreateUser, Acc!Exists, Acc!AccountsAssumption
  <2>6. ~Acc!Live(u)
    BY <2>2 DEF Acc!Live
  <2>7. Acc!TypeOK' /\ AccCarries' /\ AccGuarded' /\ Acc!OwnPasswordOnly'
    BY <2>1, <2>2 DEF Acc!TypeOK, AccCarries, AccGuarded, Acc!OwnPasswordOnly
  <2>8. AccUnique'
    BY <2>3, <2>4, <2>5 DEF AccUnique
  <2>9. AccFresh'
    BY <2>2, <2>3, <2>4, <2>6 DEF AccFresh, AccCarries
  <2>. QED
    BY <2>7, <2>8, <2>9
<1>4. ASSUME NEW u \in Users, NEW password \in Passwords, Acc!Login(u, password)
      PROVE  AccInv'
  BY <1>1, <1>4 DEF Acc!Login, Acc!TypeOK
<1>5. ASSUME NEW u \in Users, Acc!Expire(u) PROVE AccInv'
  BY <1>1, <1>5 DEF Acc!Expire, Acc!TypeOK
<1>. QED
  BY <1>2, <1>3, <1>4, <1>5, AccOpenStep, AccRequestStep DEF Acc!Next, Acc!SessionStep

LEMMA AccInit == ASSUME Acc!AccountsAssumption, Acc!Init PROVE AccInv
<1>1. Acc!Idle.op = "idle"
  BY DEF Acc!Idle
<1>2. \A u \in Users : ~Acc!Live(u)
  BY DEF Acc!Init, Acc!Live
<1>. QED
  BY <1>1, <1>2, AccIdle DEF Acc!Init, AccInv, AccTypeInv, Acc!TypeOK, AccCarries, AccGuarded,
     AccUnique, AccFresh, Acc!OwnPasswordOnly

-----------------------------------------------------------------------------
\* An administrator who asks is one still when the request is committed, unless
\* the request is stale then.
LEMMA AccAdminKept ==
  ASSUME Acc!AccountsAssumption, AccInv, [Acc!Next]_(Acc!vars) PROVE Acc!KeepsAdmin
<1> USE DEF AccInv, AccTypeInv
<1>1. ASSUME \A u \in Users : Acc!IsAdmin(u) => Acc!IsAdmin(u)' PROVE Acc!KeepsAdmin
  BY <1>1 DEF Acc!KeepsAdmin, Acc!Admins
<1>2. ASSUME UNCHANGED user PROVE Acc!KeepsAdmin
  BY <1>1, <1>2 DEF Acc!IsAdmin, Acc!Live
<1>3. ASSUME NEW r \in Requests, accReq[r].op # "idle", NEW w \in Acc!Rows \cup {Gone},
             Acc!Commit(r, w)
      PROVE  /\ accReq[r].target \in Users
             /\ \A u \in Users : Acc!IsAdmin(u)' <=> IF u = accReq[r].target
                                                THEN w # Gone /\ w.admin
                                                ELSE Acc!IsAdmin(u)
  <2>1. accReq[r].target \in Users
    BY <1>3 DEF AccCarries
  <2>2. user' = [user EXCEPT ![accReq[r].target] = w]
    BY <1>3 DEF Acc!Commit
  <2>. QED
    BY <2>1, <2>2 DEF Acc!TypeOK, Acc!IsAdmin, Acc!Live, Acc!AccountsAssumption
<1>4. ASSUME NEW u \in Users, NEW body \in UserChanges, Acc!CreateUser(u, body)
      PROVE  Acc!KeepsAdmin
  BY <1>1, <1>4 DEF Acc!CreateUser, Acc!TypeOK, Acc!IsAdmin, Acc!Live
<1>5. ASSUME NEW r \in Requests, Acc!RequestStep(r), ~UNCHANGED user PROVE Acc!KeepsAdmin
  <2> DEFINE q == accReq[r]
             w == Acc!Merged(user[q.target], q.body)
  <2>1. q.body \in Acc!Bodies
    BY AccBody
  <2>2. CASE Acc!WriteNew(r)
    <3>1. /\ q.op = "post" /\ user[q.target] = Unborn /\ q.target \in Users
          /\ q.body \in Acc!Rows /\ Acc!Commit(r, q.body)
      BY <1>5, <2>2 DEF Acc!WriteNew, Acc!Refuse, AccCarries
    <3>2. ~Acc!IsAdmin(q.target)
      BY <3>1 DEF Acc!IsAdmin, Acc!Live
    <3>. QED
      BY <1>1, <1>3, <3>1, <3>2
  <2>3. ASSUME q.op \in {"patch_me", "patch", "password"}, Acc!Live(q.target), Acc!Commit(r, w)
        PROVE  w \in Acc!Rows /\ w.admin = (IF q.body.admin = None THEN user[q.target].admin
                                                         ELSE q.body.admin)
    BY <2>1, <2>3, AccLive, AccMerged DEF AccCarries
  <2>4. CASE Acc!WriteChange(r)
    <3>1. /\ q.op \in {"patch_me", "patch"} /\ Acc!Live(q.target) /\ Acc!Commit(r, w)
          /\ stale' = (stale \/ Acc!Overtaken(r))
      BY <1>5, <2>4 DEF Acc!WriteChange, Acc!Refuse
    <3>2. CASE q.body.admin = None \/ q.body.admin = TRUE
      <4>1. Acc!IsAdmin(q.target) => w.admin
        BY <2>3, <3>1, <3>2 DEF Acc!IsAdmin
      <4>. QED
        BY <1>1, <1>3, <2>3, <3>1, <4>1, AccLive DEF Acc!AccountsAssumption
    <3>3. CASE q.body.admin = FALSE
      <4>1. q.op = "patch" /\ q.target # q.actor /\ q.actor \in Users
        BY <3>1, <3>3 DEF AccCarries, AccGuarded, Acc!AccountsAssumption
      <4>2. ~stale' => Acc!IsAdmin(q.actor)
        BY <3>1, <4>1 DEF Acc!Overtaken
      <4>3. ~stale' => \E v \in Users : Acc!IsAdmin(v)'
        BY <1>3, <2>3, <3>1, <4>1, <4>2
      <4>. QED
        BY <4>1, <4>3 DEF Acc!KeepsAdmin, Acc!Admins
    <3>. QED
      BY <2>1, <3>2, <3>3 DEF Acc!Bodies
  <2>5. CASE Acc!WritePassword(r)
    <3>1. q.op = "password" /\ Acc!Live(q.target) /\ Acc!Commit(r, w) /\ q.body.admin = None
      BY <1>5, <2>5 DEF Acc!WritePassword, AccCarries
    <3>2. Acc!IsAdmin(q.target) => w.admin
      BY <2>3, <3>1 DEF Acc!IsAdmin
    <3>. QED
      BY <1>1, <1>3, <2>3, <3>1, <3>2 DEF Acc!AccountsAssumption
  <2>6. CASE Acc!WriteDelete(r)
    <3>1. q.op = "delete" /\ Acc!Commit(r, Gone) /\ stale' = (stale \/ Acc!Overtaken(r))
      BY <2>6 DEF Acc!WriteDelete
    <3>2. q.target # q.actor /\ q.actor \in Users
      BY <3>1 DEF AccCarries, AccGuarded
    <3>3. ~stale' => \E v \in Users : Acc!IsAdmin(v)'
      BY <1>3, <3>1, <3>2 DEF Acc!Overtaken
    <3>. QED
      BY <3>2, <3>3 DEF Acc!KeepsAdmin, Acc!Admins
  <2>. QED
    BY <1>5, <2>2, <2>4, <2>5, <2>6
       DEF Acc!RequestStep, Acc!CheckConflict, Acc!CheckPassword, Acc!Abort, Acc!Refuse, Acc!Pass
<1>6. ASSUME NEW r \in Requests, Acc!OpenStep(r) PROVE UNCHANGED user
  BY <1>6 DEF Acc!OpenStep, Acc!OpenPost, Acc!OpenPatch, Acc!OpenPatchMe, Acc!OpenDelete, Acc!OpenPassword, Acc!Open
<1>. QED
  BY <1>2, <1>4, <1>5, <1>6 DEF Acc!Next, Acc!SessionStep, Acc!Login, Acc!Expire, Acc!vars

-----------------------------------------------------------------------------
(* Uploads: the invariant.                                                 *)

UpRevised(q) == q.step \in {"update", "complete", "commit"}
UpHasAsset(q) == q.step = "revise" \/ UpRevised(q)

\* Neither two assets nor one put under another name.
UpPlain(m) == m \in Images \ (upCrossed \cup misfiled)

\* What a request in each state has taken and read.  The asset it has found may
\* be gone, until it has inserted a revision; the revisions below the one that
\* it takes are all there.
UpFits(q) ==
    /\ q \in Up!RequestStates
    /\ q.step = "idle" => q = Up!Idle
    /\ q.step # "idle" => q.item \in Items /\ item[q.item] = None /\ q.image \in Images
    /\ UpHasAsset(q) => q.asset \in Assets
    /\ q.new => UpHasAsset(q) /\ upAsset[q.asset] = None
    /\ UpHasAsset(q) /\ ~q.new => upAsset[q.asset] # None
    /\ UpRevised(q) =>
         /\ q.revision >= 1
         /\ upAsset[q.asset] # Gone =>
              \A n \in Nat : 1 <= n /\ n < q.revision => n \in Up!Revisions(q.asset)
    /\ Up!Inserted(q) => upAsset[q.asset] # Gone /\ q.revision \notin Up!Revisions(q.asset)
    /\ q.new /\ UpPlain(q.image) => \A a \in Up!LiveAssets : upAsset[a] # q.image

\* Ids are taken once, and one request at a time inserts a revision of an asset.
UpApart(q, o) ==
    /\ q.step # "idle" /\ o.step # "idle" => q.item # o.item
    /\ q.new /\ o.new => q.asset # o.asset
    /\ Up!Inserted(q) /\ Up!Inserted(o) => q.asset # o.asset

UpRequests ==
    /\ \A r \in Requests : UpFits(upReq[r])
    /\ \A r, x \in Requests : r # x => UpApart(upReq[r], upReq[x])

\* The revisions of an asset are 1 to the greatest, each with one item.
UpRows ==
    /\ \A i \in Up!LiveItems : item[i].asset \in Up!LiveAssets
    /\ \A i, j \in Up!LiveItems : item[i] = item[j] => i = j
    /\ \A i \in Up!LiveItems : \A n \in Nat :
         1 <= n /\ n < item[i].revision => n \in Up!Revisions(item[i].asset)
    /\ \A a \in Assets : Up!Revisions(a) # {} =>
         \E n \in Up!Revisions(a) : \A o \in Up!Revisions(a) : o <= n
    /\ \A i \in Up!LiveItems : item[i].revision >= 1
    /\ IsFiniteSet(Up!LiveItems)

\* What is committed is in S3, and what is deleted there is not offered again.
UpObjects ==
    /\ Up!LiveItems \subseteq object
    /\ \A r \in Requests : upReq[r].step = "commit" => upReq[r].item \in object
    /\ \A i \in deleting : item[i] = Gone

\* What a site was offered keeps its path for as long as it is there.
UpSite ==
    /\ offered # None =>
         \/ item[offered.item] = Gone
         \/ offered.item \in Up!LiveItems /\ Up!Path(offered.item) = offered.path
    /\ fetched # None => offered # None

\* An image has one asset, with the last upload as its greatest revision.
UpOne(m) == \A a, b \in Up!LiveAssets : upAsset[a] = m /\ upAsset[b] = m => a = b

UpTop(m) ==
    last[m] # None =>
        /\ last[m] \in Up!LiveItems
        /\ upAsset[item[last[m]].asset] = m
        /\ \A i \in Up!ItemsOf(item[last[m]].asset) :
             item[i].revision <= item[last[m]].revision

UpLast == \A m \in Images : UpPlain(m) => UpOne(m) /\ UpTop(m)

UpInv ==
    Up!TypeOK /\ UpRequests /\ UpRows /\ UpObjects /\ UpSite /\ UpLast /\ Up!OfferedIsSent

LEMMA UpIdle == ASSUME Up!UploadsAssumption PROVE UpFits(Up!Idle) /\ Up!Idle.step = "idle" /\ ~Up!Idle.new
  BY DEF Up!UploadsAssumption, UpFits, Up!Idle, Up!RequestStates, UpHasAsset, UpRevised, Up!Inserted

\* A row that is written is live, any other is not.
LEMMA UpLive ==
  ASSUME Up!UploadsAssumption, Up!TypeOK
  PROVE  /\ \A a \in Assets : a \in Up!LiveAssets <=> upAsset[a] \in Images
         /\ \A i \in Items : i \in Up!LiveItems <=> item[i] \in Up!ItemRows
  BY DEF Up!UploadsAssumption, Up!TypeOK, Up!LiveAssets, Up!LiveItems

\* What is read of the rows depends on those that are live.
LEMMA UpSame ==
  ASSUME Up!LiveItems' = Up!LiveItems, \A i \in Up!LiveItems : item'[i] = item[i]
  PROVE  \A a : Up!ItemsOf(a)' = Up!ItemsOf(a) /\ Up!Revisions(a)' = Up!Revisions(a)
<1>1. \A a : Up!ItemsOf(a)' = Up!ItemsOf(a)
  BY DEF Up!ItemsOf
<1>2. ASSUME NEW a PROVE Up!Revisions(a)' = Up!Revisions(a)
  <2>1. \A i \in Up!ItemsOf(a) : item'[i] = item[i]
    BY DEF Up!ItemsOf
  <2>. QED
    BY <1>1, <2>1 DEF Up!Revisions
<1>. QED
  BY <1>1, <1>2

-----------------------------------------------------------------------------
(* Uploads: a request goes on.                                             *)

\* Nothing is written, other than to S3.
UpMoves(r, p) ==
    /\ upReq' \in [Requests -> Up!RequestStates]
    /\ upReq'[r] = p /\ \A x \in Requests \ {r} : upReq'[x] = upReq[x]
    /\ UNCHANGED <<upAsset, item, deleting, Up!siteVars, Up!histories>>
    /\ object \subseteq object' /\ object' \subseteq Items /\ parts' \subseteq Items

LEMMA UpMoveKeeps ==
  ASSUME Up!UploadsAssumption, UpInv, NEW r \in Requests, NEW p, UpMoves(r, p),
         UpFits(p), p.step = "commit" => p.item \in object',
         \A x \in Requests \ {r} : UpApart(p, upReq[x])
  PROVE  UpInv'
<1>1. /\ upReq'[r] = p
      /\ \A x \in Requests \ {r} : upReq'[x] = upReq[x]
      /\ upReq' \in [Requests -> Up!RequestStates]
      /\ upReq \in [Requests -> Up!RequestStates]
  BY DEF UpMoves, UpInv, Up!TypeOK, UpFits
<1>2. UNCHANGED <<upAsset, item, deleting, offered, fetched, last, upCrossed, misfiled>>
  BY DEF UpMoves, Up!siteVars, Up!histories
<1>3. Up!LiveItems' = Up!LiveItems /\ Up!LiveAssets' = Up!LiveAssets
  BY <1>2 DEF Up!LiveItems, Up!LiveAssets
<1>4. \A a : Up!ItemsOf(a)' = Up!ItemsOf(a) /\ Up!Revisions(a)' = Up!Revisions(a)
  BY <1>2, <1>3, UpSame
<1>5. Up!TypeOK'
  BY <1>1, <1>2 DEF UpMoves, UpInv, Up!TypeOK
<1>6. UpRequests'
  <2>1. \A q : UpFits(q) => UpFits(q)'
    BY <1>2, <1>3, <1>4 DEF UpFits, UpPlain
  <2>2. \A x \in Requests : UpFits(upReq[x])'
    BY <1>1, <2>1 DEF UpInv, UpRequests
  <2>3. ASSUME NEW x \in Requests, NEW y \in Requests, x # y
        PROVE  UpApart(upReq[x], upReq[y])'
    <3>1. CASE x = r
      BY <1>1, <2>3, <3>1 DEF UpApart, Up!Inserted
    <3>2. CASE y = r
      BY <1>1, <2>3, <3>2 DEF UpApart, Up!Inserted
    <3>3. CASE x # r /\ y # r
      BY <1>1, <2>3, <3>3 DEF UpInv, UpRequests, UpApart, Up!Inserted
    <3>. QED
      BY <3>1, <3>2, <3>3
  <2>. QED
    BY <2>2, <2>3 DEF UpRequests
<1>7. UpRows'
  BY <1>2, <1>3, <1>4 DEF UpInv, UpRows
<1>8. UpObjects'
  <2>1. \A x \in Requests : upReq'[x].step = "commit" => upReq'[x].item \in object'
    BY <1>1 DEF UpMoves, UpInv, UpObjects
  <2>. QED
    BY <1>2, <1>3, <2>1 DEF UpMoves, UpInv, UpObjects
<1>9. UpSite' /\ Up!OfferedIsSent'
  BY <1>2, <1>3 DEF UpMoves, UpInv, UpSite, Up!OfferedIsSent, Up!Path
<1>10. UpLast'
  BY <1>2, <1>3, <1>4 DEF UpInv, UpLast, UpPlain, UpOne, UpTop
<1>. QED
  BY <1>5, <1>6, <1>7, <1>8, <1>9, <1>10 DEF UpInv

-----------------------------------------------------------------------------
(* Uploads: a transaction is rolled back.                                  *)

LEMMA UpRollbackKeeps ==
  ASSUME Up!UploadsAssumption, UpInv, NEW r \in Requests, upReq[r].step # "idle",
         Up!Rollback(r), UNCHANGED <<object, deleting>>, parts' \subseteq Items
  PROVE  UpInv'
<1> DEFINE q == upReq[r]
<1>1. /\ q.item \in Items /\ item[q.item] = None
      /\ q.new => q.asset \in Assets /\ upAsset[q.asset] = None
  BY DEF UpInv, UpRequests, UpFits
<1>2. /\ upReq' = [upReq EXCEPT ![r] = Up!Idle]
      /\ item' = [item EXCEPT ![q.item] = Gone]
      /\ upAsset' = IF q.new THEN [upAsset EXCEPT ![q.asset] = Gone] ELSE upAsset
      /\ UNCHANGED <<offered, fetched, last, upCrossed, misfiled>>
  BY DEF Up!Rollback, Up!siteVars, Up!histories
<1>3. Up!Idle \in Up!RequestStates /\ Up!Idle.step = "idle" /\ ~Up!Idle.new
  BY UpIdle DEF UpFits
<1>4. /\ upReq'[r] = Up!Idle
      /\ \A x \in Requests \ {r} : upReq'[x] = upReq[x]
  BY <1>2 DEF UpInv, Up!TypeOK
<1>5. Up!TypeOK'
  BY <1>1, <1>2, <1>3 DEF UpInv, Up!TypeOK
<1>6. /\ item'[q.item] = Gone
      /\ \A i \in Items \ {q.item} : item'[i] = item[i]
  BY <1>1, <1>2 DEF UpInv, Up!TypeOK
<1>7. \A a \in Assets : upAsset'[a] = IF q.new /\ a = q.asset THEN Gone ELSE upAsset[a]
  BY <1>1, <1>2 DEF UpInv, Up!TypeOK
<1>8. Up!LiveItems' = Up!LiveItems /\ \A i \in Up!LiveItems : item'[i] = item[i]
  BY <1>1, <1>6 DEF Up!LiveItems
<1>9. Up!LiveAssets' = Up!LiveAssets /\ \A a \in Up!LiveAssets : upAsset'[a] = upAsset[a]
  BY <1>1, <1>7 DEF Up!LiveAssets
<1>10. \A a : Up!ItemsOf(a)' = Up!ItemsOf(a) /\ Up!Revisions(a)' = Up!Revisions(a)
  BY <1>8, UpSame
<1>11. UpRequests'
  <2>1. ASSUME NEW x \in Requests \ {r} PROVE UpFits(upReq[x])'
    <3>1. UpFits(upReq[x]) /\ UpApart(upReq[x], q)
      BY DEF UpInv, UpRequests
    <3>2. upReq[x].step # "idle" => item'[upReq[x].item] = None
      BY <1>6, <3>1 DEF UpFits, UpApart
    <3>3. UpHasAsset(upReq[x]) =>
            /\ upAsset'[upReq[x].asset] # None <=> upAsset[upReq[x].asset] # None
            /\ ~upReq[x].new /\ upAsset'[upReq[x].asset] # Gone => upAsset[upReq[x].asset] # Gone
            /\ upAsset'[upReq[x].asset] = Gone => upAsset[upReq[x].asset] = Gone
      BY <1>1, <1>7, <3>1 DEF UpFits, UpApart, UpHasAsset, UpRevised
    <3>. QED
      BY <1>2, <1>4, <1>8, <1>9, <1>10, <3>1, <3>2, <3>3
         DEF UpFits, UpPlain, UpHasAsset, UpRevised, Up!Inserted
  <2>2. UpFits(upReq[r])'
    BY <1>3, <1>4 DEF UpFits, UpHasAsset, UpRevised, Up!Inserted
  <2>3. \A x, y \in Requests : x # y => UpApart(upReq[x], upReq[y])'
    BY <1>3, <1>4 DEF UpInv, UpRequests, UpApart, Up!Inserted
  <2>. QED
    BY <2>1, <2>2, <2>3 DEF UpRequests
<1>12. UpRows'
  BY <1>8, <1>9, <1>10 DEF UpInv, UpRows
<1>13. UpObjects'
  <2>1. \A x \in Requests : upReq'[x].step = "commit" => upReq'[x].item \in object'
    BY <1>3, <1>4 DEF UpInv, UpObjects
  <2>2. \A i \in deleting : item'[i] = Gone
    BY <1>6 DEF UpInv, UpObjects, Up!TypeOK
  <2>. QED
    BY <1>8, <2>1, <2>2 DEF UpInv, UpObjects
<1>14. UpSite' /\ Up!OfferedIsSent'
  BY <1>2, <1>6, <1>8, <1>9 DEF UpInv, UpSite, Up!OfferedIsSent, Up!Path, Up!TypeOK, UpRows
<1>15. UpLast'
  <2>1. ASSUME NEW m \in Images, UpPlain(m) PROVE UpOne(m)' /\ UpTop(m)'
    <3>1. UpOne(m) /\ UpTop(m)
      BY <2>1 DEF UpInv, UpLast
    <3>2. UpOne(m)'
      BY <1>9, <3>1 DEF UpOne
    <3>3. ASSUME last[m] # None PROVE UpTop(m)'
      <4> DEFINE i == last[m]
      <4>1. /\ i \in Up!LiveItems /\ item'[i] = item[i] /\ last'[m] = last[m]
            /\ item[i].asset \in Up!LiveAssets
            /\ upAsset'[item[i].asset] = m
        BY <1>2, <1>8, <1>9, <3>1, <3>3 DEF UpTop, UpInv, UpRows
      <4>2. \A j \in Up!ItemsOf(item[i].asset) : item'[j] = item[j]
        BY <1>8 DEF Up!ItemsOf
      <4>. QED
        BY <1>8, <1>10, <3>1, <3>3, <4>1, <4>2 DEF UpTop
    <3>. QED
      BY <1>2, <3>2, <3>3 DEF UpTop
  <2>. QED
    BY <1>2, <2>1 DEF UpLast, UpPlain
<1>. QED
  BY <1>5, <1>11, <1>12, <1>13, <1>14, <1>15 DEF UpInv

-----------------------------------------------------------------------------
(* Uploads: the commit of an upload, which gives the asset its next revision. *)

LEMMA UpCommitKeeps ==
  ASSUME Up!UploadsAssumption, UpInv, NEW r \in Requests, Up!Commit(r)
  PROVE  UpInv'
<1> DEFINE q == upReq[r]
           c == q.asset
           named == IF q.new THEN q.image ELSE upAsset[c]
           written == [asset |-> c, revision |-> q.revision]
<1>1. /\ q.item \in Items /\ item[q.item] = None /\ q.item \in object
      /\ c \in Assets /\ q.image \in Images
      /\ q.revision \in Nat /\ q.revision >= 1 /\ q.revision \notin Up!Revisions(c)
      /\ \A n \in Nat : 1 <= n /\ n < q.revision => n \in Up!Revisions(c)
      /\ q.new => upAsset[c] = None
      /\ ~q.new => upAsset[c] \in Images
      /\ q.step = "commit" /\ q.new \in BOOLEAN
  <2>1. UpFits(q) /\ q.step = "commit"
    BY DEF UpInv, UpRequests, Up!Commit
  <2>2. q.item \in object
    BY <2>1 DEF UpInv, UpObjects
  <2>3. UpHasAsset(q) /\ UpRevised(q) /\ Up!Inserted(q)
    BY <2>1 DEF UpHasAsset, UpRevised, Up!Inserted
  <2>4. q.revision \in Nat /\ q.new \in BOOLEAN
    BY <2>1 DEF UpFits, Up!RequestStates
  <2>5. ~q.new => upAsset[c] \in Images
    BY <2>1, <2>3 DEF UpFits, UpInv, Up!TypeOK
  <2>. QED
    BY <2>1, <2>2, <2>3, <2>4, <2>5 DEF UpFits
<1>2. /\ upAsset' = [upAsset EXCEPT ![c] = named]
      /\ item' = [item EXCEPT ![q.item] = written]
      /\ upReq' = [upReq EXCEPT ![r] = Up!Idle]
      /\ last' = [last EXCEPT ![q.image] = q.item]
      /\ upCrossed' = IF Up!Doubled(r) THEN upCrossed \cup {q.image} ELSE upCrossed
      /\ misfiled' = IF named # q.image THEN misfiled \cup {q.image, named} ELSE misfiled
      /\ UNCHANGED <<object, parts, deleting, offered, fetched>>
  BY DEF Up!Commit, Up!s3Vars, Up!siteVars
<1>3. named \in Images /\ written \in Up!ItemRows
  BY <1>1 DEF Up!ItemRows
<1> HIDE DEF written
<1>4. written.asset = c /\ written.revision = q.revision
  BY DEF written
<1>5. Up!Idle \in Up!RequestStates /\ Up!Idle.step = "idle" /\ ~Up!Idle.new /\ UpFits(Up!Idle)
  BY UpIdle DEF UpFits
<1>6. /\ upReq'[r] = Up!Idle
      /\ \A x \in Requests \ {r} : upReq'[x] = upReq[x]
  BY <1>2 DEF UpInv, Up!TypeOK
<1>7. Up!TypeOK'
  <2>1. upCrossed' \subseteq Images /\ misfiled' \subseteq Images
    BY <1>1, <1>2, <1>3 DEF UpInv, Up!TypeOK
  <2>. QED
    BY <1>1, <1>2, <1>3, <1>5, <2>1 DEF UpInv, Up!TypeOK
<1>8. /\ item'[q.item] = written
      /\ \A i \in Items \ {q.item} : item'[i] = item[i]
  BY <1>1, <1>2 DEF UpInv, Up!TypeOK
<1>9. /\ upAsset'[c] = named
      /\ \A a \in Assets \ {c} : upAsset'[a] = upAsset[a]
  BY <1>1, <1>2 DEF UpInv, Up!TypeOK
<1> HIDE DEF named
<1>10. /\ Up!LiveAssets' = Up!LiveAssets \cup {c}
       /\ Up!LiveItems' = Up!LiveItems \cup {q.item}
       /\ q.item \notin Up!LiveItems
       /\ c \in Up!LiveAssets <=> ~q.new
  BY <1>1, <1>3, <1>8, <1>9 DEF Up!LiveAssets, Up!LiveItems, Up!UploadsAssumption
<1>11. \A i \in Up!LiveItems : i \in Items /\ item'[i] = item[i]
  BY <1>8, <1>10 DEF Up!LiveItems
<1>12. \A a \in Up!LiveAssets : a \in Assets /\ upAsset'[a] = upAsset[a]
  BY <1>1, <1>9, <1>10 DEF Up!LiveAssets, named
<1>13. \A a : Up!ItemsOf(a)' = IF a = c THEN Up!ItemsOf(a) \cup {q.item} ELSE Up!ItemsOf(a)
  BY <1>4, <1>8, <1>10, <1>11 DEF Up!ItemsOf
<1>14. ASSUME NEW a
       PROVE  Up!Revisions(a)' = IF a = c THEN Up!Revisions(a) \cup {q.revision} ELSE Up!Revisions(a)
  <2>1. \A i \in Up!ItemsOf(a) : item'[i] = item[i]
    BY <1>11 DEF Up!ItemsOf
  <2>. QED
    BY <1>4, <1>8, <1>13, <2>1 DEF Up!Revisions
<1>15. \A o \in Up!Revisions(c) : o \in Nat /\ o < q.revision
  <2>. SUFFICES ASSUME NEW i \in Up!ItemsOf(c)
                PROVE  item[i].revision \in Nat /\ item[i].revision < q.revision
    BY DEF Up!Revisions
  <2>1. i \in Up!LiveItems /\ item[i].asset = c /\ item[i].revision \in Nat
    BY UpLive DEF Up!ItemsOf, Up!ItemRows, UpInv, Up!LiveItems
  <2>2. item[i].revision # q.revision
    BY <1>1 DEF Up!Revisions
  <2>3. ~(q.revision < item[i].revision)
    BY <1>1, <2>1 DEF UpInv, UpRows
  <2>. QED
    BY <1>1, <2>1, <2>2, <2>3
<1>16. \A m : UpPlain(m)' => UpPlain(m)
  BY <1>2 DEF UpPlain
<1>17. UpRequests'
  <2>1. ASSUME NEW x \in Requests \ {r} PROVE UpFits(upReq[x])'
    <3> DEFINE p == upReq[x]
    <3>1. UpFits(p) /\ UpApart(p, q) /\ p.asset \in Assets \cup {None}
      BY DEF UpInv, UpRequests, UpFits, Up!RequestStates
    <3>2. p.step # "idle" => item'[p.item] = None
      BY <1>1, <1>8, <3>1 DEF UpFits, UpApart
    <3>3. p.new => p.asset # c
      BY <1>1, <3>1 DEF UpFits, UpApart, Up!UploadsAssumption
    <3>4. UpHasAsset(p) =>
            /\ p.new => upAsset'[p.asset] = None
            /\ ~p.new => upAsset'[p.asset] # None
            /\ upAsset'[p.asset] # Gone => upAsset[p.asset] # Gone
      BY <1>1, <1>3, <1>9, <3>1, <3>3 DEF UpFits, Up!UploadsAssumption, named
    <3>5. \A n : n \in Up!Revisions(p.asset) => n \in Up!Revisions(p.asset)'
      BY <1>6, <1>14
    <3>6. Up!Inserted(p) => /\ p.asset # c
                         /\ upAsset'[p.asset] # Gone
                         /\ p.revision \notin Up!Revisions(p.asset)'
      <4>1. Up!Inserted(p) => p.asset # c
        BY <1>1, <3>1 DEF Up!Inserted, UpApart
      <4>2. Up!Inserted(p) => UpHasAsset(p)
        BY DEF Up!Inserted, UpHasAsset, UpRevised
      <4>. QED
        BY <1>6, <1>9, <1>14, <3>1, <4>1, <4>2 DEF UpFits
    <3>7. p.new /\ UpPlain(p.image)' => \A a \in Up!LiveAssets' : upAsset'[a] # p.image
      <4>. SUFFICES ASSUME p.new, UpPlain(p.image)', NEW a \in Up!LiveAssets', upAsset'[a] = p.image
                    PROVE  FALSE
        OBVIOUS
      <4>1. UpPlain(p.image)
        BY <1>6, <1>16
      <4>2. a \notin Up!LiveAssets
        BY <1>12, <3>1, <4>1 DEF UpFits
      <4>3. a = c /\ q.new /\ p.image = q.image
        BY <1>9, <1>10, <4>2 DEF named
      <4>4. Up!Doubled(r)
        BY <4>3 DEF Up!Doubled
      <4>. QED
        BY <1>2, <1>6, <4>3, <4>4 DEF UpPlain
    <3>8. UpFits(p)'
      BY <1>6, <3>1, <3>2, <3>4, <3>5, <3>6, <3>7 DEF UpFits, UpHasAsset, UpRevised, Up!Inserted
    <3>. QED
      BY <3>8
  <2>2. UpFits(upReq[r])'
    BY <1>5, <1>6 DEF UpFits, UpHasAsset, UpRevised, Up!Inserted
  <2>3. \A x, y \in Requests : x # y => UpApart(upReq[x], upReq[y])'
    BY <1>5, <1>6 DEF UpInv, UpRequests, UpApart, Up!Inserted
  <2>. QED
    BY <2>1, <2>2, <2>3 DEF UpRequests
<1>18. UpRows'
  <2>1. \A i \in Up!LiveItems' : item'[i].asset \in Up!LiveAssets'
    BY <1>4, <1>8, <1>10, <1>11 DEF UpInv, UpRows
  <2>2. ASSUME NEW i \in Up!LiveItems PROVE item[i] # written
    <3>1. item[i].asset = c => item[i].revision \in Up!Revisions(c)
      BY DEF Up!Revisions, Up!ItemsOf
    <3>. QED
      BY <1>1, <1>4, <3>1
  <2>3. \A i, j \in Up!LiveItems' : item'[i] = item'[j] => i = j
    BY <1>8, <1>10, <1>11, <2>2 DEF UpInv, UpRows
  <2>4. ASSUME NEW i \in Up!LiveItems', NEW n \in Nat, 1 <= n, n < item'[i].revision
        PROVE  n \in Up!Revisions(item[i].asset)'
    <3>1. CASE i = q.item
      BY <1>1, <1>4, <1>8, <1>14, <2>4, <3>1
    <3>2. CASE i \in Up!LiveItems
      BY <1>11, <1>14, <2>4, <3>2 DEF UpInv, UpRows
    <3>. QED
      BY <1>10, <3>1, <3>2
  <2>5. ASSUME NEW a \in Assets, Up!Revisions(a)' # {}
        PROVE  \E n \in Up!Revisions(a)' : \A o \in Up!Revisions(a)' : o <= n
    <3>1. CASE a = c
      BY <1>1, <1>14, <1>15, <3>1
    <3>2. CASE a # c
      BY <1>14, <2>5, <3>2 DEF UpInv, UpRows
    <3>. QED
      BY <3>1, <3>2
  <2>6. \A i \in Up!LiveItems' : item'[i].revision >= 1
    BY <1>1, <1>4, <1>8, <1>10, <1>11 DEF UpInv, UpRows
  <2>7. IsFiniteSet(Up!LiveItems')
    BY <1>10, FS_AddElement DEF UpInv, UpRows
  <2>. QED
    BY <2>1, <2>3, <2>4, <2>5, <2>6, <2>7 DEF UpRows
<1>19. UpObjects'
  <2>1. \A x \in Requests : upReq'[x].step = "commit" => upReq'[x].item \in object'
    BY <1>2, <1>5, <1>6 DEF UpInv, UpObjects
  <2>2. \A i \in deleting : item'[i] = Gone
    BY <1>1, <1>8 DEF UpInv, UpObjects, Up!TypeOK, Up!UploadsAssumption
  <2>. QED
    BY <1>1, <1>2, <1>10, <2>1, <2>2 DEF UpInv, UpObjects
<1>20. /\ \A i \in Items : item[i] = Gone => item'[i] = Gone
       /\ \A i \in Items : item'[i] = Gone => item[i] = Gone
       /\ \A i \in Up!LiveItems : Up!Path(i)' = Up!Path(i)
  <2>1. \A i \in Up!LiveItems : item[i].asset \in Up!LiveAssets
    BY DEF UpInv, UpRows
  <2>. QED
    BY <1>1, <1>3, <1>8, <1>11, <1>12, <2>1 DEF Up!Path, Up!UploadsAssumption
<1>21. UpSite' /\ Up!OfferedIsSent'
  <2>1. offered # None => offered.item \in Items
    BY DEF UpInv, Up!TypeOK
  <2>2. fetched # None => fetched \in Items
    BY DEF UpInv, Up!TypeOK
  <2>. QED
    BY <1>2, <1>10, <1>20, <2>1, <2>2 DEF UpInv, UpSite, Up!OfferedIsSent
<1>22. UpLast'
  <2>. SUFFICES ASSUME NEW m \in Images, UpPlain(m)' PROVE UpOne(m)' /\ UpTop(m)'
    BY DEF UpLast
  <2>1. UpOne(m) /\ UpTop(m)
    BY <1>16 DEF UpInv, UpLast
  <2>2. UpOne(m)'
    <3>1. q.new /\ q.image = m => \A a \in Up!LiveAssets : upAsset[a] # m
      BY <1>16 DEF UpInv, UpRequests, UpFits
    <3>. QED
      BY <1>9, <1>10, <1>12, <2>1, <3>1 DEF UpOne, named
  <2>3. CASE q.image = m
    <3>1. named = m
      BY <1>2, <2>3 DEF UpPlain
    <3>2. last'[m] = q.item
      BY <1>1, <1>2, <2>3 DEF UpInv, Up!TypeOK
    <3>3. \A i \in Up!ItemsOf(c) : item'[i].revision <= q.revision
      BY <1>1, <1>11, <1>15 DEF Up!ItemsOf, Up!Revisions
    <3>4. UpTop(m)'
      BY <1>1, <1>4, <1>8, <1>9, <1>10, <1>13, <3>1, <3>2, <3>3 DEF UpTop
    <3>. QED
      BY <2>2, <3>4
  <2>4. CASE q.image # m
    <3>1. last'[m] = last[m]
      BY <1>1, <1>2, <2>4 DEF UpInv, Up!TypeOK
    <3>2. ASSUME last[m] # None PROVE UpTop(m)'
      <4> DEFINE i == last[m]
                 a == item[i].asset
      <4>1. i \in Up!LiveItems /\ a \in Up!LiveAssets /\ upAsset[a] = m
        BY <2>1, <3>2 DEF UpTop, UpInv, UpRows
      <4>2. a # c
        BY <1>2, <1>10, <2>4, <4>1 DEF named, UpPlain
      <4>3. item'[i] = item[i] /\ Up!ItemsOf(a)' = Up!ItemsOf(a) /\ upAsset'[a] = m
        BY <1>11, <1>12, <1>13, <3>1, <4>1, <4>2
      <4>4. \A j \in Up!ItemsOf(a) : item'[j] = item[j]
        BY <1>11 DEF Up!ItemsOf
      <4>. QED
        BY <1>10, <2>1, <3>1, <3>2, <4>1, <4>3, <4>4 DEF UpTop
    <3>. QED
      BY <2>2, <3>1, <3>2 DEF UpTop
  <2>. QED
    BY <2>3, <2>4
<1>. QED
  BY <1>7, <1>17, <1>18, <1>19, <1>21, <1>22 DEF UpInv

-----------------------------------------------------------------------------
(* Uploads: an image is removed, with all its revisions.                   *)

LEMMA UpRemoveKeeps ==
  ASSUME Up!UploadsAssumption, UpInv, NEW c \in Assets, Up!RemoveImage(c)
  PROVE  UpInv'
<1>1. /\ upAsset' = [upAsset EXCEPT ![c] = Gone]
      /\ item' = [i \in Items |-> IF i \in Up!ItemsOf(c) THEN Gone ELSE item[i]]
      /\ deleting' = deleting \cup Up!ItemsOf(c)
      /\ last' = [m \in Images |-> IF last[m] \in Up!ItemsOf(c) THEN None ELSE last[m]]
      /\ UNCHANGED <<object, parts, upReq, offered, fetched, upCrossed, misfiled>>
      /\ c \in Up!LiveAssets
      /\ \A r \in Requests : Up!Inserted(upReq[r]) => upReq[r].asset # c
  BY DEF Up!RemoveImage, Up!siteVars
<1>2. Up!TypeOK'
  <2>1. Up!ItemsOf(c) \subseteq Items
    BY DEF Up!ItemsOf, Up!LiveItems
  <2>. QED
    BY <1>1, <2>1 DEF UpInv, Up!TypeOK
<1>3. \A a \in Assets : upAsset'[a] = IF a = c THEN Gone ELSE upAsset[a]
  BY <1>1 DEF UpInv, Up!TypeOK
<1>4. \A i \in Items : item'[i] = IF i \in Up!ItemsOf(c) THEN Gone ELSE item[i]
  BY <1>1
<1>5. /\ Up!LiveAssets' = Up!LiveAssets \ {c}
      /\ \A a \in Up!LiveAssets \ {c} : upAsset'[a] = upAsset[a]
  BY <1>3 DEF Up!LiveAssets
<1>6. /\ Up!LiveItems' = Up!LiveItems \ Up!ItemsOf(c)
      /\ \A i \in Up!LiveItems' : item'[i] = item[i]
  BY <1>4 DEF Up!LiveItems
<1>7. \A i \in Up!LiveItems : i \in Up!LiveItems' <=> item[i].asset # c
  BY <1>6 DEF Up!ItemsOf
<1>8. \A a : a # c => Up!ItemsOf(a)' = Up!ItemsOf(a)
  BY <1>6, <1>7 DEF Up!ItemsOf
<1>9. ASSUME NEW a, a # c PROVE Up!Revisions(a)' = Up!Revisions(a)
  <2>1. \A i \in Up!ItemsOf(a) : item'[i] = item[i]
    BY <1>6, <1>7, <1>9 DEF Up!ItemsOf
  <2>. QED
    BY <1>8, <1>9, <2>1 DEF Up!Revisions
<1>10. Up!Revisions(c)' = {}
  BY <1>6, <1>7 DEF Up!Revisions, Up!ItemsOf
<1>11. UpRequests'
  <2>1. ASSUME NEW q, UpFits(q), Up!Inserted(q) => q.asset # c PROVE UpFits(q)'
    <3>1. q.step # "idle" => item'[q.item] = None
      BY <1>4, <2>1 DEF UpFits, Up!ItemsOf, Up!LiveItems
    <3>2. UpHasAsset(q) => /\ q.new => upAsset'[q.asset] = None
                           /\ ~q.new => upAsset'[q.asset] # None
                           /\ upAsset'[q.asset] # Gone => upAsset[q.asset] # Gone /\ q.asset # c
      BY <1>1, <1>3, <2>1 DEF UpFits, Up!UploadsAssumption, Up!LiveAssets
    <3>3. UpRevised(q) => UpHasAsset(q)
      BY DEF UpHasAsset
    <3>4. Up!Inserted(q) => upAsset'[q.asset] # Gone /\ q.revision \notin Up!Revisions(q.asset)'
      BY <1>3, <1>9, <2>1, <3>3 DEF UpFits, Up!Inserted, UpRevised
    <3>5. UpRevised(q) /\ upAsset'[q.asset] # Gone =>
            \A n \in Nat : 1 <= n /\ n < q.revision => n \in Up!Revisions(q.asset)'
      BY <1>9, <2>1, <3>2, <3>3 DEF UpFits
    <3>6. q.new /\ UpPlain(q.image)' => \A a \in Up!LiveAssets' : upAsset'[a] # q.image
      BY <1>1, <1>5, <2>1 DEF UpFits, UpPlain
    <3>. QED
      BY <2>1, <3>1, <3>2, <3>3, <3>4, <3>5, <3>6 DEF UpFits, UpHasAsset, UpRevised, Up!Inserted
  <2>2. \A x \in Requests : UpFits(upReq[x])'
    BY <1>1, <2>1 DEF UpInv, UpRequests
  <2>3. \A x, y \in Requests : x # y => UpApart(upReq[x], upReq[y])'
    BY <1>1 DEF UpInv, UpRequests, UpApart, Up!Inserted
  <2>. QED
    BY <2>2, <2>3 DEF UpRequests
<1>12. UpRows'
  <2>1. \A i \in Up!LiveItems' : item'[i].asset \in Up!LiveAssets'
    BY <1>5, <1>6, <1>7 DEF UpInv, UpRows
  <2>2. \A i, j \in Up!LiveItems' : item'[i] = item'[j] => i = j
    BY <1>6 DEF UpInv, UpRows
  <2>3. \A i \in Up!LiveItems' : \A n \in Nat :
          1 <= n /\ n < item'[i].revision => n \in Up!Revisions(item[i].asset)'
    BY <1>6, <1>7, <1>9 DEF UpInv, UpRows
  <2>4. \A a \in Assets : Up!Revisions(a)' # {} =>
          \E n \in Up!Revisions(a)' : \A o \in Up!Revisions(a)' : o <= n
    BY <1>9, <1>10 DEF UpInv, UpRows
  <2>5. \A i \in Up!LiveItems' : item'[i].revision >= 1
    BY <1>6 DEF UpInv, UpRows
  <2>6. IsFiniteSet(Up!LiveItems')
    BY <1>6, FS_Subset DEF UpInv, UpRows
  <2>. QED
    BY <2>1, <2>2, <2>3, <2>4, <2>5, <2>6 DEF UpRows
<1>13. UpObjects'
  <2>1. \A i \in deleting' : item'[i] = Gone
    BY <1>1, <1>4 DEF UpInv, UpObjects, Up!ItemsOf, Up!LiveItems, Up!TypeOK
  <2>. QED
    BY <1>1, <1>6, <2>1 DEF UpInv, UpObjects
<1>14. /\ \A i \in Up!LiveItems' : Up!Path(i)' = Up!Path(i)
       /\ \A i \in Items : i \in Up!LiveItems => i \in Up!LiveItems' \/ item'[i] = Gone
       /\ \A i \in Items : item[i] = Gone => item'[i] = Gone
  <2>1. \A i \in Up!LiveItems' : upAsset'[item[i].asset] = upAsset[item[i].asset]
    BY <1>5, <1>6, <1>7 DEF UpInv, UpRows
  <2>. QED
    BY <1>4, <1>6, <2>1 DEF Up!Path
<1>15. UpSite' /\ Up!OfferedIsSent'
  <2>1. offered # None => offered.item \in Items
    BY DEF UpInv, Up!TypeOK
  <2>2. fetched # None => fetched \in Items
    BY DEF UpInv, Up!TypeOK
  <2>. QED
    BY <1>1, <1>14, <2>1, <2>2 DEF UpInv, UpSite, Up!OfferedIsSent
<1>16. UpLast'
  <2>. SUFFICES ASSUME NEW m \in Images, UpPlain(m) PROVE UpOne(m)' /\ UpTop(m)'
    BY <1>1 DEF UpLast, UpPlain
  <2>1. UpOne(m) /\ UpTop(m)
    BY DEF UpInv, UpLast
  <2>2. UpOne(m)'
    BY <1>5, <2>1 DEF UpOne
  <2>3. ASSUME last'[m] # None PROVE UpTop(m)'
    <3> DEFINE i == last[m]
               a == item[i].asset
    <3>1. last'[m] = i /\ i # None /\ i \notin Up!ItemsOf(c)
      BY <1>1, <2>3
    <3>2. i \in Up!LiveItems /\ a \in Up!LiveAssets /\ upAsset[a] = m
      BY <2>1, <3>1 DEF UpTop, UpInv, UpRows
    <3>3. a # c /\ i \in Up!LiveItems' /\ item'[i] = item[i]
      BY <1>6, <1>7, <3>1, <3>2
    <3>4. upAsset'[a] = m /\ Up!ItemsOf(a)' = {j \in Up!LiveItems : item[j].asset = a}
      BY <1>5, <1>8, <3>1, <3>2, <3>3 DEF Up!ItemsOf
    <3>5. \A j \in Up!LiveItems : item[j].asset = a => item'[j] = item[j]
      BY <1>6, <1>7, <3>3
    <3>. QED
      BY <2>1, <3>1, <3>2, <3>3, <3>4, <3>5 DEF UpTop, Up!ItemsOf
  <2>. QED
    BY <2>2, <2>3 DEF UpTop
<1>. QED
  BY <1>2, <1>11, <1>12, <1>13, <1>15, <1>16 DEF UpInv

LEMMA UpDeleteKeeps ==
  ASSUME Up!UploadsAssumption, UpInv, NEW d \in Items, Up!DeleteObject(d)
  PROVE  UpInv'
<1>1. /\ d \in deleting /\ object' = object \ {d} /\ deleting' = deleting \ {d}
      /\ UNCHANGED <<upAsset, item, parts, upReq, offered, fetched, last, upCrossed, misfiled>>
  BY DEF Up!DeleteObject, Up!siteVars, Up!histories
<1>2. item[d] = Gone
  BY <1>1 DEF UpInv, UpObjects
<1>3. Up!TypeOK'
  BY <1>1 DEF UpInv, Up!TypeOK
<1>4. Up!LiveItems' = Up!LiveItems /\ Up!LiveAssets' = Up!LiveAssets
  BY <1>1 DEF Up!LiveItems, Up!LiveAssets
<1>5. \A a : Up!ItemsOf(a)' = Up!ItemsOf(a) /\ Up!Revisions(a)' = Up!Revisions(a)
  BY <1>1, <1>4, UpSame
<1>6. UpRequests'
  <2>1. \A q : UpFits(q) => UpFits(q)'
    BY <1>1, <1>4, <1>5 DEF UpFits, UpPlain
  <2>. QED
    BY <1>1, <2>1 DEF UpInv, UpRequests, UpApart, Up!Inserted
<1>7. UpRows'
  BY <1>1, <1>4, <1>5 DEF UpInv, UpRows
<1>8. UpObjects'
  <2>1. d \notin Up!LiveItems
    BY <1>2 DEF Up!LiveItems
  <2>2. \A r \in Requests : upReq[r].step = "commit" => upReq[r].item # d
    BY <1>2 DEF UpInv, UpRequests, UpFits, Up!UploadsAssumption
  <2>. QED
    BY <1>1, <1>4, <2>1, <2>2 DEF UpInv, UpObjects
<1>9. UpSite' /\ Up!OfferedIsSent'
  BY <1>1, <1>2, <1>4 DEF UpInv, UpSite, Up!OfferedIsSent, Up!Path
<1>10. UpLast'
  BY <1>1, <1>4, <1>5 DEF UpInv, UpLast, UpPlain, UpOne, UpTop
<1>. QED
  BY <1>3, <1>6, <1>7, <1>8, <1>9, <1>10 DEF UpInv

-----------------------------------------------------------------------------
(* Uploads: a site reads the index, asks for a path, and gets an object.   *)

LEMMA UpSiteKeeps ==
  ASSUME Up!UploadsAssumption, UpInv, UNCHANGED Up!storeVars,
         offered' \in [item : Items, path : Up!Paths] \cup {None},
         fetched' \in Items \cup {None}, UpSite', Up!OfferedIsSent'
  PROVE  UpInv'
<1>1. UNCHANGED <<upAsset, item, object, parts, deleting, upReq, last, upCrossed, misfiled>>
  BY DEF Up!storeVars, Up!s3Vars, Up!histories
<1>2. Up!TypeOK'
  BY <1>1 DEF UpInv, Up!TypeOK
<1>3. Up!LiveItems' = Up!LiveItems /\ Up!LiveAssets' = Up!LiveAssets
  BY <1>1 DEF Up!LiveItems, Up!LiveAssets
<1>4. \A a : Up!ItemsOf(a)' = Up!ItemsOf(a) /\ Up!Revisions(a)' = Up!Revisions(a)
  BY <1>1, <1>3, UpSame
<1>5. UpRequests'
  <2>1. \A q : UpFits(q) => UpFits(q)'
    BY <1>1, <1>3, <1>4 DEF UpFits, UpPlain
  <2>. QED
    BY <1>1, <2>1 DEF UpInv, UpRequests, UpApart, Up!Inserted
<1>6. UpRows' /\ UpObjects'
  BY <1>1, <1>3, <1>4 DEF UpInv, UpRows, UpObjects
<1>7. UpLast'
  BY <1>1, <1>3, <1>4 DEF UpInv, UpLast, UpPlain, UpOne, UpTop
<1>. QED
  BY <1>2, <1>5, <1>6, <1>7 DEF UpInv

LEMMA UpReadKeeps ==
  ASSUME Up!UploadsAssumption, UpInv, Up!ReadIndex PROVE UpInv'
<1>1. PICK m \in Images : \E offer \in Up!Offers(m) : offered' = offer
  BY DEF Up!ReadIndex
<1>2. PICK i \in Up!Served(m) :
        offered' = [item |-> i, path |-> Up!Path(i)] /\ UNCHANGED <<Up!storeVars, fetched>>
                   /\ fetched = None
  BY <1>1 DEF Up!ReadIndex, Up!Offers
<1>3. /\ UNCHANGED <<upAsset, item>> /\ fetched' = None
      /\ i \in Up!LiveItems /\ i \in Items
      /\ offered'.item = i /\ offered'.path = Up!Path(i)
  BY <1>2 DEF Up!storeVars, Up!Served, Up!LiveItems
<1>4. Up!Path(i) \in Up!Paths
  <2>1. item[i] \in Up!ItemRows /\ upAsset[item[i].asset] \in Images
    BY <1>3, UpLive DEF UpInv, UpRows, Up!LiveAssets, Up!ItemRows
  <2>. QED
    BY <2>1 DEF Up!Path, Up!Paths, Up!ItemRows
<1>5. UpSite'
  <2>1. Up!LiveItems' = Up!LiveItems /\ \A j : Up!Path(j)' = Up!Path(j)
    BY <1>3 DEF Up!LiveItems, Up!Path
  <2>. QED
    BY <1>3, <2>1 DEF UpSite
<1>6. Up!OfferedIsSent'
  BY <1>3 DEF Up!OfferedIsSent
<1>. QED
  BY <1>2, <1>3, <1>4, <1>5, <1>6, UpSiteKeeps

LEMMA UpCardinality == ASSUME NEW S PROVE Up!Cardinality(S) = Cardinality(S)
  BY DEF Up!Cardinality, Cardinality

\* One row has the path: that of the item offered, while it is there.
LEMMA UpAskKeeps ==
  ASSUME Up!UploadsAssumption, UpInv, Up!AskFor PROVE UpInv'
<1> DEFINE rows == {i \in Up!LiveItems : Up!Path(i) = offered.path}
<1>a. PICK i \in Up!AtPath(offered.path) :
        fetched' = i /\ UNCHANGED <<Up!storeVars, offered>> /\ offered # None
  BY DEF Up!AskFor
<1>b. Up!AtPath(offered.path) = IF Cardinality(rows) = 1 THEN rows ELSE {}
  BY UpCardinality DEF Up!AtPath
<1>1. /\ i \in rows /\ Cardinality(rows) = 1
      /\ fetched' = i /\ UNCHANGED <<Up!storeVars, offered>> /\ offered # None
  BY <1>a, <1>b
<1>2. UNCHANGED <<upAsset, item, object>>
  BY <1>1 DEF Up!storeVars, Up!s3Vars
<1>3. IsFiniteSet(rows)
  BY FS_Subset DEF UpInv, UpRows
<1>4. PICK j : rows = {j}
  BY <1>1, <1>3, FS_Singleton
<1>5. i \in Up!LiveItems /\ i \in Items /\ i \in object
  BY <1>1 DEF UpInv, UpObjects, Up!LiveItems
<1>6. item[offered.item] # Gone => offered.item = i
  BY <1>1, <1>4 DEF UpInv, UpSite
<1>7. UpSite'
  <2>1. Up!LiveItems' = Up!LiveItems /\ \A k : Up!Path(k)' = Up!Path(k)
    BY <1>2 DEF Up!LiveItems, Up!Path
  <2>. QED
    BY <1>1, <1>2, <2>1 DEF UpSite, UpInv
<1>8. Up!OfferedIsSent'
  BY <1>1, <1>2, <1>5, <1>6 DEF Up!OfferedIsSent
<1>. QED
  BY <1>1, <1>5, <1>7, <1>8, UpSiteKeeps DEF UpInv, Up!TypeOK

LEMMA UpSendKeeps ==
  ASSUME Up!UploadsAssumption, UpInv, Up!SendObject PROVE UpInv'
<1>1. fetched' = None /\ UNCHANGED <<Up!storeVars, offered>> /\ UNCHANGED <<upAsset, item, object>>
  BY DEF Up!SendObject, Up!storeVars, Up!s3Vars
<1>2. Up!LiveItems' = Up!LiveItems /\ \A k : Up!Path(k)' = Up!Path(k)
  BY <1>1 DEF Up!LiveItems, Up!Path
<1>3. UpSite' /\ Up!OfferedIsSent'
  BY <1>1, <1>2 DEF UpInv, UpSite, Up!OfferedIsSent
<1>. QED
  BY <1>1, <1>3, UpSiteKeeps DEF UpInv, Up!TypeOK

-----------------------------------------------------------------------------
(* Uploads: the steps of a request.                                        *)

LEMMA UpOpenKeeps ==
  ASSUME Up!UploadsAssumption, UpInv, NEW r \in Requests, NEW m \in Images, Up!OpenUpload(r, m)
  PROVE  UpInv'
<1> DEFINE i == Up!NextOf(Up!FreeItems)
           p == [Up!Idle EXCEPT !.step = "stream", !.item = i, !.image = m]
<1>1. /\ upReq' = [upReq EXCEPT ![r] = p] /\ parts' = parts \cup {i} /\ Up!FreeItems # {}
      /\ UNCHANGED <<upAsset, item, object, deleting, Up!siteVars, Up!histories>>
  BY DEF Up!OpenUpload, Up!CreateMultipart
<1>2. i \in Up!FreeItems
  BY <1>1 DEF Up!NextOf
<1>3. i \in Items /\ item[i] = None /\ \A x \in Requests : upReq[x].item # i
  BY <1>2 DEF Up!FreeItems, Up!TakenItems
<1> HIDE DEF i
<1>4. p.step = "stream" /\ p.item = i /\ p.image = m /\ ~p.new /\ p \in Up!RequestStates
  BY <1>3 DEF Up!Idle, Up!RequestStates
<1> HIDE DEF p
<1>5. UpMoves(r, p)
  BY <1>1, <1>3, <1>4 DEF UpMoves, UpInv, Up!TypeOK
<1>6. UpFits(p) /\ \A x \in Requests \ {r} : UpApart(p, upReq[x])
  BY <1>3, <1>4 DEF UpFits, UpApart, UpHasAsset, UpRevised, Up!Inserted
<1>. QED
  BY <1>4, <1>5, <1>6, UpMoveKeeps

\* A request goes on with the item and the image that it has.
LEMMA UpGoesOn ==
  ASSUME Up!UploadsAssumption, UpInv, NEW r \in Requests, NEW p \in Up!RequestStates,
         upReq[r].step # "idle", p.step # "idle",
         p.item = upReq[r].item, p.image = upReq[r].image,
         UpMoves(r, p), p.step = "commit" => p.item \in object',
         UpHasAsset(p) => p.asset \in Assets,
         p.new => UpHasAsset(p) /\ upAsset[p.asset] = None,
         UpHasAsset(p) /\ ~p.new => upAsset[p.asset] # None,
         UpRevised(p) =>
           /\ p.revision >= 1
           /\ upAsset[p.asset] # Gone =>
                \A n \in Nat : 1 <= n /\ n < p.revision => n \in Up!Revisions(p.asset),
         Up!Inserted(p) => upAsset[p.asset] # Gone /\ p.revision \notin Up!Revisions(p.asset),
         p.new /\ UpPlain(p.image) => \A a \in Up!LiveAssets : upAsset[a] # p.image,
         \A x \in Requests \ {r} :
           /\ p.new /\ upReq[x].new => p.asset # upReq[x].asset
           /\ Up!Inserted(p) /\ Up!Inserted(upReq[x]) => p.asset # upReq[x].asset
  PROVE  UpInv'
<1>1. UpFits(upReq[r]) /\ \A x \in Requests \ {r} : UpApart(upReq[r], upReq[x])
  BY DEF UpInv, UpRequests
<1>2. UpFits(p)
  BY <1>1 DEF UpFits
<1>3. \A x \in Requests \ {r} : UpApart(p, upReq[x])
  BY <1>1 DEF UpApart
<1>. QED
  BY <1>2, <1>3, UpMoveKeeps

LEMMA UpStreamKeeps ==
  ASSUME Up!UploadsAssumption, UpInv, NEW r \in Requests, NEW whole \in BOOLEAN, Up!Stream(r, whole)
  PROVE  UpInv'
<1> DEFINE q == upReq[r]
           p == upReq'[r]
<1>1. /\ q.step = "stream" /\ p = [q EXCEPT !.step = "find", !.whole = whole]
      /\ \A x \in Requests \ {r} : upReq'[x] = upReq[x]
      /\ UNCHANGED <<upAsset, item, object, parts, deleting, Up!siteVars, Up!histories>>
  BY DEF Up!Stream, UpInv, Up!TypeOK, Up!s3Vars
<1>2. q \in Up!RequestStates /\ ~q.new
  BY <1>1 DEF UpInv, UpRequests, UpFits, UpHasAsset, UpRevised, Up!TypeOK
<1>3. /\ p \in Up!RequestStates /\ p.step = "find" /\ ~p.new
      /\ p.item = q.item /\ p.image = q.image
  BY <1>1, <1>2 DEF Up!RequestStates
<1>4. UpMoves(r, p)
  <2>1. upReq' \in [Requests -> Up!RequestStates]
    BY <1>1, <1>3 DEF Up!Stream, UpInv, Up!TypeOK
  <2>. QED
    BY <1>1, <2>1 DEF UpMoves, UpInv, Up!TypeOK
<1> HIDE DEF p
<1>. QED
  BY <1>1, <1>3, <1>4, UpGoesOn DEF UpHasAsset, UpRevised, Up!Inserted

LEMMA UpFindKeeps ==
  ASSUME Up!UploadsAssumption, UpInv, NEW r \in Requests, Up!FindAsset(r)
  PROVE  UpInv'
<1> DEFINE q == upReq[r]
           p == upReq'[r]
<1>1. PICK a \in Up!Found(q.image) : upReq' = [upReq EXCEPT ![r].step = "revise", ![r].asset = a]
  BY DEF Up!FindAsset
<1>2. /\ q.step = "find" /\ p = [q EXCEPT !.step = "revise", !.asset = a]
      /\ \A x \in Requests \ {r} : upReq'[x] = upReq[x]
      /\ UNCHANGED <<upAsset, item, object, parts, deleting, Up!siteVars, Up!histories>>
  BY <1>1 DEF Up!FindAsset, UpInv, Up!TypeOK, Up!s3Vars
<1>3. q \in Up!RequestStates /\ ~q.new
  BY <1>2 DEF UpInv, UpRequests, UpFits, UpHasAsset, UpRevised, Up!TypeOK
<1>4. a \in Assets /\ upAsset[a] # None
  BY DEF Up!Found, Up!LiveAssets
<1>5. /\ p \in Up!RequestStates /\ p.step = "revise" /\ ~p.new /\ p.asset = a
      /\ p.item = q.item /\ p.image = q.image
  BY <1>2, <1>3, <1>4 DEF Up!RequestStates
<1>6. UpMoves(r, p)
  <2>1. upReq' \in [Requests -> Up!RequestStates]
    BY <1>1, <1>2, <1>5 DEF UpInv, Up!TypeOK
  <2>. QED
    BY <1>2, <2>1 DEF UpMoves, UpInv, Up!TypeOK
<1> HIDE DEF p
<1>. QED
  BY <1>2, <1>4, <1>5, <1>6, UpGoesOn DEF UpHasAsset, UpRevised, Up!Inserted

LEMMA UpCreateKeeps ==
  ASSUME Up!UploadsAssumption, UpInv, NEW r \in Requests, Up!CreateAsset(r)
  PROVE  UpInv'
<1> DEFINE q == upReq[r]
           p == upReq'[r]
           a == Up!NextOf(Up!FreeAssets)
<1>1. a \in Up!FreeAssets
  BY DEF Up!CreateAsset, Up!NextOf
<1>2. a \in Assets /\ upAsset[a] = None /\ \A x \in Requests : upReq[x].new => upReq[x].asset # a
  BY <1>1 DEF Up!FreeAssets, Up!NewAssets
<1> HIDE DEF a
<1>3. /\ q.step = "find" /\ p = [q EXCEPT !.step = "revise", !.new = TRUE, !.asset = a]
      /\ \A x \in Requests \ {r} : upReq'[x] = upReq[x]
      /\ Up!Found(q.image) = {}
      /\ UNCHANGED <<upAsset, item, object, parts, deleting, Up!siteVars, Up!histories>>
  BY DEF Up!CreateAsset, UpInv, Up!TypeOK, Up!s3Vars, a
<1>4. q \in Up!RequestStates /\ q.image \in Images
  BY <1>3 DEF UpInv, UpRequests, UpFits, Up!TypeOK
<1>5. /\ p \in Up!RequestStates /\ p.step = "revise" /\ p.new /\ p.asset = a
      /\ p.item = q.item /\ p.image = q.image
  BY <1>2, <1>3, <1>4 DEF Up!RequestStates
<1>6. UpMoves(r, p)
  <2>1. upReq' \in [Requests -> Up!RequestStates]
    BY <1>3, <1>5 DEF Up!CreateAsset, UpInv, Up!TypeOK
  <2>. QED
    BY <1>3, <2>1 DEF UpMoves, UpInv, Up!TypeOK
<1>7. \A b \in Up!LiveAssets : upAsset[b] # q.image
  BY <1>3, <1>4 DEF Up!Found, Up!UploadsAssumption
<1>8. q.step # "idle"
  BY <1>3
<1>9. UpHasAsset(p) /\ ~UpRevised(p) /\ ~Up!Inserted(p)
  BY <1>5 DEF UpHasAsset, UpRevised, Up!Inserted
<1> HIDE DEF p
<1>. QED
  BY <1>2, <1>5, <1>6, <1>7, <1>8, <1>9, UpGoesOn

LEMMA UpReviseKeeps ==
  ASSUME Up!UploadsAssumption, UpInv, NEW r \in Requests, Up!Revise(r)
  PROVE  UpInv'
<1> DEFINE q == upReq[r]
           p == upReq'[r]
           a == q.asset
           n == Up!NextRevision(a)
<1>1. /\ q.step = "revise" /\ p = [q EXCEPT !.step = "update", !.revision = n]
      /\ \A x \in Requests \ {r} : upReq'[x] = upReq[x]
      /\ UNCHANGED <<upAsset, item, object, parts, deleting, Up!siteVars, Up!histories>>
  BY DEF Up!Revise, UpInv, Up!TypeOK, Up!s3Vars
<1>2. q \in Up!RequestStates /\ UpFits(q) /\ UpHasAsset(q) /\ a \in Assets
  BY <1>1 DEF UpInv, UpRequests, UpFits, UpHasAsset, Up!TypeOK
<1>3. \A o \in Up!Revisions(a) : o \in Nat /\ o >= 1
  BY UpLive DEF UpInv, UpRows, Up!Revisions, Up!ItemsOf, Up!ItemRows, Up!LiveItems
<1>4. n \in Nat /\ n >= 1 /\ \A o \in Nat : 1 <= o /\ o < n => o \in Up!Revisions(a)
  <2>1. CASE Up!Revisions(a) = {}
    BY <2>1 DEF Up!NextRevision
  <2>2. CASE Up!Revisions(a) # {}
    <3> DEFINE k == CHOOSE k \in Up!Revisions(a) : \A o \in Up!Revisions(a) : o <= k
    <3>1. k \in Up!Revisions(a) /\ n = 1 + k
      BY <1>2, <2>2 DEF UpInv, UpRows, Up!NextRevision
    <3>2. \A o \in Nat : 1 <= o /\ o < k => o \in Up!Revisions(a)
      <4>1. PICK i \in Up!ItemsOf(a) : k = item[i].revision
        BY <3>1 DEF Up!Revisions
      <4>. QED
        BY <4>1 DEF UpInv, UpRows, Up!ItemsOf
    <3> HIDE DEF k
    <3>. QED
      BY <1>3, <3>1, <3>2
  <2>. QED
    BY <2>1, <2>2
<1> HIDE DEF n
<1>5. /\ p \in Up!RequestStates /\ p.step = "update" /\ p.new = q.new /\ p.asset = a
      /\ p.item = q.item /\ p.image = q.image /\ p.revision = n
  BY <1>1, <1>2, <1>4 DEF Up!RequestStates
<1>6. UpMoves(r, p)
  <2>1. upReq' \in [Requests -> Up!RequestStates]
    BY <1>1, <1>5 DEF Up!Revise, UpInv, Up!TypeOK
  <2>. QED
    BY <1>1, <2>1 DEF UpMoves, UpInv, Up!TypeOK
<1>7. \A x \in Requests \ {r} : UpApart(q, upReq[x])
  BY DEF UpInv, UpRequests
<1>8. q.step # "idle"
  BY <1>1
<1>9. UpHasAsset(p) /\ ~Up!Inserted(p)
  BY <1>5 DEF UpHasAsset, UpRevised, Up!Inserted
<1>10. /\ p.new => upAsset[a] = None
       /\ ~p.new => upAsset[a] # None
       /\ p.new /\ UpPlain(p.image) => \A b \in Up!LiveAssets : upAsset[b] # p.image
  BY <1>2, <1>5 DEF UpFits
<1>11. \A x \in Requests \ {r} : p.new /\ upReq[x].new => p.asset # upReq[x].asset
  BY <1>5, <1>7 DEF UpApart
<1> HIDE DEF p, a
<1>. QED
  BY <1>2, <1>4, <1>5, <1>6, <1>8, <1>9, <1>10, <1>11, UpGoesOn

LEMMA UpInsertKeeps ==
  ASSUME Up!UploadsAssumption, UpInv, NEW r \in Requests, Up!InsertRevision(r)
  PROVE  UpInv'
<1> DEFINE q == upReq[r]
           p == upReq'[r]
<1>1. /\ q.step = "update"
      /\ q.new \/ upAsset[q.asset] # Gone
      /\ q.revision \notin Up!Revisions(q.asset)
      /\ \A x \in Requests : Up!Inserted(upReq[x]) /\ upReq[x].asset = q.asset
                                => upReq[x].revision # q.revision
  BY DEF Up!InsertRevision
<1>2. q \in Up!RequestStates /\ UpFits(q) /\ UpHasAsset(q) /\ UpRevised(q) /\ upAsset[q.asset] # Gone
  BY <1>1 DEF UpInv, UpRequests, UpFits, UpHasAsset, UpRevised, Up!TypeOK, Up!UploadsAssumption
<1>3. ASSUME NEW x \in Requests \ {r}, Up!Inserted(upReq[x]) PROVE q.asset # upReq[x].asset
  <2>1. UpFits(upReq[x]) /\ UpRevised(upReq[x]) /\ upReq[x].revision \in Nat /\ q.revision \in Nat
    BY <1>2, <1>3 DEF UpInv, UpRequests, UpFits, Up!RequestStates, Up!Inserted, UpRevised
  <2>2. /\ ~(upReq[x].revision < q.revision /\ q.asset = upReq[x].asset)
        /\ ~(q.revision < upReq[x].revision /\ q.asset = upReq[x].asset)
    BY <1>1, <1>2, <1>3, <2>1 DEF UpFits
  <2>. QED
    BY <1>1, <1>3, <2>1, <2>2
<1>4. CASE q.whole
  <2>1. /\ p = [q EXCEPT !.step = "complete"]
        /\ \A x \in Requests \ {r} : upReq'[x] = upReq[x]
        /\ upReq' = [upReq EXCEPT ![r].step = "complete"]
        /\ UNCHANGED <<upAsset, item, object, parts, deleting, Up!siteVars, Up!histories>>
    BY <1>4 DEF Up!InsertRevision, UpInv, Up!TypeOK, Up!s3Vars
  <2>2. /\ p \in Up!RequestStates /\ p.step = "complete" /\ p.new = q.new
        /\ p.asset = q.asset /\ p.item = q.item /\ p.image = q.image
        /\ p.revision = q.revision
    BY <1>2, <2>1 DEF Up!RequestStates
  <2>3. UpMoves(r, p)
    <3>1. upReq' \in [Requests -> Up!RequestStates]
      BY <2>1, <2>2 DEF UpInv, Up!TypeOK
    <3>. QED
      BY <2>1, <3>1 DEF UpMoves, UpInv, Up!TypeOK
  <2>4. \A x \in Requests \ {r} : UpApart(q, upReq[x])
    BY DEF UpInv, UpRequests
  <2> HIDE DEF p
  <2>. QED
    BY <1>1, <1>2, <1>3, <2>2, <2>3, <2>4, UpGoesOn
       DEF UpHasAsset, UpRevised, Up!Inserted, UpFits, UpApart
<1>5. CASE ~q.whole
  BY <1>1, <1>5, UpRollbackKeeps DEF Up!InsertRevision, Up!AbortMultipart, UpInv, Up!TypeOK
<1>. QED
  BY <1>4, <1>5

LEMMA UpCompleteKeeps ==
  ASSUME Up!UploadsAssumption, UpInv, NEW r \in Requests, Up!CompleteUpload(r)
  PROVE  UpInv'
<1> DEFINE q == upReq[r]
           p == upReq'[r]
<1>1. /\ q.step = "complete" /\ p = [q EXCEPT !.step = "commit"]
      /\ \A x \in Requests \ {r} : upReq'[x] = upReq[x]
      /\ object' = object \cup {q.item} /\ parts' = parts \ {q.item}
      /\ UNCHANGED <<upAsset, item, deleting, Up!siteVars, Up!histories>>
  BY DEF Up!CompleteUpload, UpInv, Up!TypeOK
<1>2. /\ q \in Up!RequestStates /\ UpFits(q) /\ UpHasAsset(q) /\ UpRevised(q) /\ Up!Inserted(q)
      /\ q.item \in Items
  BY <1>1 DEF UpInv, UpRequests, UpFits, UpHasAsset, UpRevised, Up!Inserted, Up!TypeOK
<1>3. /\ p \in Up!RequestStates /\ p.step = "commit" /\ p.new = q.new
      /\ p.asset = q.asset /\ p.item = q.item /\ p.image = q.image
      /\ p.revision = q.revision
  BY <1>1, <1>2 DEF Up!RequestStates
<1>4. UpMoves(r, p)
  <2>1. upReq' \in [Requests -> Up!RequestStates]
    BY <1>1, <1>3 DEF Up!CompleteUpload, UpInv, Up!TypeOK
  <2>. QED
    BY <1>1, <1>2, <2>1 DEF UpMoves, UpInv, Up!TypeOK
<1>5. \A x \in Requests \ {r} : UpApart(q, upReq[x])
  BY DEF UpInv, UpRequests
<1>6. q.step # "idle" /\ p.item \in object' /\ UpHasAsset(p) /\ UpRevised(p) /\ Up!Inserted(p)
  BY <1>1, <1>3 DEF UpHasAsset, UpRevised, Up!Inserted
<1>7. /\ q.asset \in Assets /\ q.revision >= 1
      /\ q.new => upAsset[q.asset] = None
      /\ ~q.new => upAsset[q.asset] # None
      /\ \A n \in Nat : 1 <= n /\ n < q.revision => n \in Up!Revisions(q.asset)
      /\ upAsset[q.asset] # Gone /\ q.revision \notin Up!Revisions(q.asset)
      /\ q.new /\ UpPlain(q.image) => \A b \in Up!LiveAssets : upAsset[b] # q.image
  BY <1>2 DEF UpFits
<1>8. \A x \in Requests \ {r} :
        /\ q.new /\ upReq[x].new => q.asset # upReq[x].asset
        /\ Up!Inserted(upReq[x]) => q.asset # upReq[x].asset
  BY <1>2, <1>5 DEF UpApart
<1> HIDE DEF p
<1>. QED
  BY <1>3, <1>4, <1>6, <1>7, <1>8, UpGoesOn

LEMMA UpUploadStep ==
  ASSUME Up!UploadsAssumption, UpInv, NEW r \in Requests, Up!UploadStep(r)
  PROVE  UpInv'
<1>1. CASE Up!TooLarge(r)
  BY <1>1, UpRollbackKeeps DEF Up!TooLarge, Up!AbortMultipart, UpInv, Up!TypeOK
<1>2. CASE Up!Abort(r)
  <2>1. upReq[r].step # "idle"
    BY <1>2 DEF Up!Abort, UpInv, UpRequests, UpFits
  <2>. QED
    BY <1>2, <2>1, UpRollbackKeeps DEF Up!Abort, Up!s3Vars, UpInv, Up!TypeOK
<1>. QED
  BY <1>1, <1>2, UpOpenKeeps, UpStreamKeeps, UpFindKeeps, UpCreateKeeps, UpReviseKeeps,
     UpInsertKeeps, UpCompleteKeeps, UpCommitKeeps DEF Up!UploadStep

LEMMA UpNext == ASSUME Up!UploadsAssumption, UpInv, [Up!Next]_(Up!vars) PROVE UpInv'
<1>1. CASE UNCHANGED Up!vars
  <2>1. UNCHANGED Up!storeVars /\ UNCHANGED <<upAsset, item, object, offered, fetched>>
    BY <1>1 DEF Up!vars, Up!storeVars, Up!s3Vars, Up!histories
  <2>2. Up!LiveItems' = Up!LiveItems /\ \A k : Up!Path(k)' = Up!Path(k)
    BY <2>1 DEF Up!LiveItems, Up!Path
  <2>3. UpSite' /\ Up!OfferedIsSent'
    BY <2>1, <2>2 DEF UpInv, UpSite, Up!OfferedIsSent
  <2>. QED
    BY <2>1, <2>3, UpSiteKeeps DEF UpInv, Up!TypeOK
<1>. QED
  BY <1>1, UpUploadStep, UpRemoveKeeps, UpDeleteKeeps, UpReadKeeps, UpAskKeeps, UpSendKeeps
     DEF Up!Next

LEMMA UpInit == ASSUME Up!UploadsAssumption, Up!Init PROVE UpInv
<1>1. UpFits(Up!Idle) /\ Up!Idle \in Up!RequestStates /\ Up!Idle.step = "idle" /\ ~Up!Idle.new
  BY UpIdle DEF UpFits
<1>2. Up!LiveItems = {} /\ Up!LiveAssets = {}
  BY DEF Up!Init, Up!LiveItems, Up!LiveAssets
<1>3. \A a : Up!Revisions(a) = {}
  BY <1>2 DEF Up!Revisions, Up!ItemsOf
<1>4. Up!TypeOK /\ UpRequests
  BY <1>1 DEF Up!Init, Up!TypeOK, UpRequests, UpApart, Up!Inserted
<1>5. UpRows
  BY <1>2, <1>3, FS_EmptySet DEF UpRows
<1>6. UpObjects /\ UpSite /\ UpLast /\ Up!OfferedIsSent
  BY <1>1, <1>2 DEF Up!Init, UpObjects, UpSite, UpLast, UpOne, UpTop, Up!OfferedIsSent
<1>. QED
  BY <1>4, <1>5, <1>6 DEF UpInv

\* Below Base the order of the strings is that of the numbers, so that the
\* greatest revision of the only asset is served.
LEMMA UpServed == ASSUME Up!UploadsAssumption, UpInv PROVE Up!LastUploadIsServed
<1>. SUFFICES ASSUME NEW m \in Images, UpPlain(m), last[m] # None,
                     item[last[m]].revision < Base
              PROVE  Up!Served(m) = {last[m]}
  BY DEF Up!LastUploadIsServed, UpPlain
<1> DEFINE k == last[m]
           a == item[k].asset
<1>1. /\ UpOne(m) /\ UpTop(m) /\ k \in Up!LiveItems /\ upAsset[a] = m
      /\ \A j \in Up!ItemsOf(a) : item[j].revision <= item[k].revision
      /\ a \in Up!LiveAssets
  BY DEF UpInv, UpLast, UpTop, UpRows
<1>2. Base \in Nat
  BY DEF Up!UploadsAssumption
<1>3. \A j \in Up!LiveItems : item[j] \in Up!ItemRows /\ item[j].revision \in Nat
  BY UpLive DEF UpInv, Up!LiveItems, Up!ItemRows
<1>4. \A j \in Up!ItemsOf(a) : item[j].revision < Base
  BY <1>1, <1>2, <1>3 DEF Up!ItemsOf
<1>5. \A x, y \in Nat : x < Base /\ y < Base => (Up!Later(x, y) <=> x > y)
  BY <1>2 DEF Up!Later
<1>6. \A j \in Up!ItemsOf(a) \ {k} : item[j].revision < item[k].revision
  <2>. SUFFICES ASSUME NEW j \in Up!ItemsOf(a), j # k
                PROVE  item[j].revision < item[k].revision
    OBVIOUS
  <2>1. j \in Up!LiveItems /\ item[j].asset = a
    BY DEF Up!ItemsOf
  <2>2. item[j] = item[k] => j = k
    BY <1>1, <2>1 DEF UpInv, UpRows
  <2>3. item[j].revision # item[k].revision
    BY <1>1, <1>3, <2>1, <2>2 DEF Up!ItemRows
  <2>. QED
    BY <1>1, <1>3, <2>1, <2>3
<1>7. k \in Up!Served(m)
  BY <1>1, <1>3, <1>4, <1>5, <1>6 DEF Up!Served, Up!ItemsOf
<1>8. ASSUME NEW i \in Up!Served(m) PROVE i = k
  <2>1. /\ i \in Up!LiveItems /\ upAsset[item[i].asset] = m /\ item[i].asset \in Up!LiveAssets
        /\ \A j \in Up!ItemsOf(item[i].asset) \ {i} : Up!Later(item[i].revision, item[j].revision)
    BY DEF Up!Served, UpInv, UpRows
  <2>2. item[i].asset = a
    BY <1>1, <2>1 DEF UpOne
  <2>3. i \in Up!ItemsOf(a) /\ k \in Up!ItemsOf(a)
    BY <1>1, <2>1, <2>2 DEF Up!ItemsOf
  <2>. QED
    BY <1>1, <1>3, <1>4, <1>5, <1>6, <2>1, <2>2, <2>3
<1>. QED
  BY <1>7, <1>8

-----------------------------------------------------------------------------
(* Selections: the invariant.                                              *)

\* What a request has read.  The rows it has seen can only go, which overtakes
\* it; those that a refresh has seen are all there are of its source, until it is
\* overtaken.
SelFits(q) ==
    /\ q \in Sel!RequestStates
    /\ q.op # "idle" => q.source \in Source
    /\ q.op \in {"select", "remove"} =>
         /\ q.id \in Rows1 /\ q.seen = {q.id}
         /\ IF row[q.id] = Gone THEN q.stale ELSE q.keys = {row[q.id].key}
    /\ \A i \in q.seen : row[i] # None /\ (row[i] # Gone => row[i].source = q.source)
    /\ q.op = "available" /\ ~q.stale =>
         /\ q.seen = Sel!RowsOf(q.source)
         /\ q.selected = Sel!RowsOf(q.source) \cap Sel!SelectedRows

SelTypeInv == Sel!TypeOK /\ \A r \in Requests : SelFits(selReq[r])

SelRowsInv == SelTypeInv /\ Sel!ListedOnce /\ Sel!SelectionIsKept

\* The request has locked its source for a sync.
SelHolds(q) == q.op = "assets" /\ q.step \in {"find", "write"}

SelFound(q) ==
    q.op = "assets" /\ q.step = "write" =>
        \A k \in Sel!Missing(q) : selAsset[q.source][k] = 0

SelAssets ==
    /\ \A r, x \in Requests :
         SelHolds(selReq[r]) /\ SelHolds(selReq[x]) /\ selReq[r].source = selReq[x].source => r = x
    /\ \A r \in Requests : SelFound(selReq[r])
    /\ Sel!NoDuplicateProduct

\* The trigger of a change was sent before its commit, and a sync has upstream's
\* images among those it has read.
SelTold(q) ==
    /\ q.op \in {"select", "remove"} /\ q.step = "write" /\ ~q.passed /\ q.id \in Sel!Live =>
         q.source \in due
    /\ q.op = "assets" /\ ~q.passed /\ run[q.source] # None =>
         \A k \in run[q.source] : k \in q.keys \/ <<q.source, k>> \in lapsed

SelFetched ==
    /\ \A s \in Source : \A k \in Keys1 \ upstream[s] : <<s, k>> \in lapsed
    /\ \A r \in Requests : SelTold(selReq[r])
    /\ Sel!SelectedIsFetched

SelInv == SelRowsInv /\ SelAssets /\ SelFetched

LEMMA SelIdle == ASSUME Sel!SelectionsAssumption PROVE Sel!Idle \in Sel!RequestStates /\ SelFits(Sel!Idle)
<1>1. Sel!Idle \in Sel!RequestStates
  BY DEF Sel!Idle, Sel!RequestStates
<1>. QED
  BY <1>1 DEF SelFits, Sel!Idle

LEMMA SelLive ==
  ASSUME Sel!SelectionsAssumption, Sel!TypeOK
  PROVE  \A i \in Rows1 : i \in Sel!Live <=> row[i] \in Sel!SelectionRows
  BY DEF Sel!SelectionsAssumption, Sel!TypeOK, Sel!Live

\* The rows of other sources stay as they are, and those of s keep their keys.
SelOnly(s) ==
    \A i \in Rows1 :
        \/ row'[i] = row[i]
        \/ i \in Sel!Live /\ row[i].source = s /\ row'[i] = Gone
        \/ /\ i \in Sel!Live \/ row[i] = None
           /\ row'[i] \in Sel!SelectionRows /\ row'[i].source = s
           /\ i \in Sel!Live => row[i].source = s /\ row'[i].key = row[i].key

LEMMA SelUnchanged ==
  ASSUME UNCHANGED row
  PROVE  /\ Sel!Live' = Sel!Live /\ Sel!SelectedRows' = Sel!SelectedRows
         /\ \A s : Sel!RowsOf(s)' = Sel!RowsOf(s) /\ Sel!Selected(s)' = Sel!Selected(s)
  BY DEF Sel!Live, Sel!SelectedRows, Sel!RowsOf, Sel!Selected

LEMMA SelOthers ==
  ASSUME Sel!SelectionsAssumption, Sel!TypeOK, NEW s, SelOnly(s), NEW t, t # s
  PROVE  /\ Sel!RowsOf(t)' = Sel!RowsOf(t)
         /\ \A i \in Sel!RowsOf(t) : row'[i] = row[i]
         /\ (Sel!RowsOf(t) \cap Sel!SelectedRows)' = Sel!RowsOf(t) \cap Sel!SelectedRows
         /\ Sel!Selected(t)' = Sel!Selected(t)
<1>1. \A i \in Rows1 : /\ i \in Sel!RowsOf(t) <=> i \in Sel!Live /\ row[i].source = t
                      /\ i \in Sel!RowsOf(t)' <=> row'[i] \notin {None, Gone} /\ row'[i].source = t
  BY DEF Sel!RowsOf, Sel!Live
<1>2. \A i \in Sel!RowsOf(t) : row'[i] = row[i] /\ i \in Sel!RowsOf(t)'
  BY <1>1 DEF SelOnly, Sel!Live, Sel!SelectionsAssumption, Sel!RowsOf
<1>3. \A i \in Sel!RowsOf(t)' : row'[i] = row[i] /\ i \in Sel!RowsOf(t)
  BY <1>1 DEF SelOnly, Sel!Live, Sel!SelectionsAssumption, Sel!RowsOf
<1>4. Sel!RowsOf(t)' = Sel!RowsOf(t)
  BY <1>2, <1>3
<1>5. (Sel!RowsOf(t) \cap Sel!SelectedRows)' = Sel!RowsOf(t) \cap Sel!SelectedRows
  BY <1>2, <1>3 DEF Sel!SelectedRows, Sel!RowsOf, Sel!Live
<1>6. Sel!Selected(t)' = Sel!Selected(t)
  <2>1. \A i \in Sel!RowsOf(t) \cap Sel!SelectedRows : row'[i] = row[i]
    BY <1>2
  <2>. QED
    BY <1>5, <2>1 DEF Sel!Selected
<1>. QED
  BY <1>2, <1>4, <1>5, <1>6

\* What a request has seen stays seen, and is all there is unless it is
\* overtaken.
LEMMA SelStillFits ==
  ASSUME Sel!SelectionsAssumption, Sel!TypeOK, NEW s, SelOnly(s),
         NEW q, SelFits(q), NEW p, p \in {q, [q EXCEPT !.stale = TRUE]},
         q.source = s /\ q.op \in {"available", "select", "remove"} => p.stale
  PROVE  SelFits(p)'
<1>1. /\ p \in Sel!RequestStates
      /\ p.op = q.op /\ p.source = q.source /\ p.id = q.id /\ p.seen = q.seen
      /\ p.selected = q.selected /\ p.keys = q.keys
      /\ ~p.stale => ~q.stale
  BY DEF SelFits, Sel!RequestStates
<1>2. \A i \in q.seen : row'[i] # None /\ (row'[i] # Gone => row'[i].source = q.source)
  <2>1. q.seen \subseteq Rows1
    BY DEF SelFits, Sel!RequestStates
  <2>. QED
    BY <2>1 DEF SelFits, SelOnly, Sel!SelectionsAssumption, Sel!Live
<1>3. ASSUME p.op = "available", ~p.stale
      PROVE  /\ p.seen = Sel!RowsOf(p.source)'
             /\ p.selected = (Sel!RowsOf(p.source) \cap Sel!SelectedRows)'
  <2>1. q.source # s /\ q.op = "available" /\ ~q.stale
    BY <1>1, <1>3
  <2>. QED
    BY <1>1, <2>1, SelOthers DEF SelFits
<1>4. ASSUME q.op \in {"select", "remove"}
      PROVE  IF row'[q.id] = Gone THEN p.stale ELSE q.keys = {row'[q.id].key}
  <2>1. /\ q.id \in Rows1 /\ row[q.id] # None
        /\ row[q.id] = Gone => q.stale
        /\ row[q.id] # Gone => row[q.id].source = q.source /\ q.keys = {row[q.id].key}
    BY <1>4 DEF SelFits
  <2>2. q.stale => p.stale
    BY <1>1 DEF SelFits, Sel!RequestStates
  <2>3. CASE row'[q.id] = row[q.id]
    BY <2>1, <2>2, <2>3
  <2>4. CASE row'[q.id] # row[q.id]
    <3>1. /\ q.id \in Sel!Live /\ row[q.id].source = s
          /\ row'[q.id] # Gone => row'[q.id].key = row[q.id].key
      BY <2>1, <2>4 DEF SelOnly
    <3>2. row[q.id] # Gone
      BY <3>1 DEF Sel!Live
    <3>. QED
      BY <1>4, <2>1, <3>1, <3>2
  <2>. QED
    BY <2>3, <2>4
<1>. QED
  BY <1>1, <1>2, <1>3, <1>4 DEF SelFits

LEMMA SelFitsStill ==
  ASSUME UNCHANGED row, NEW q, SelFits(q) PROVE SelFits(q)'
<1>1. UNCHANGED <<Sel!Live, Sel!SelectedRows>> /\ \A s : Sel!RowsOf(s)' = Sel!RowsOf(s)
  BY SelUnchanged
<1>. QED
  BY <1>1 DEF SelFits

-----------------------------------------------------------------------------
(* Selections: the rows.                                                    *)

\* No row is written, and no request committed.
SelQuiet ==
    /\ UNCHANGED <<row, wanted, selCrossed>>
    /\ selReq' \in [Requests -> Sel!RequestStates]

LEMMA SelQuietKeeps ==
  ASSUME Sel!SelectionsAssumption, SelRowsInv, SelQuiet, Sel!TypeOK',
         \A r \in Requests : SelFits(selReq'[r])
  PROVE  SelRowsInv'
<1>1. UNCHANGED row
  BY DEF SelQuiet
<1>2. \A r \in Requests : SelFits(selReq[r])'
  BY <1>1, SelFitsStill
<1>3. Sel!ListedOnce' /\ Sel!SelectionIsKept'
  BY <1>1, SelUnchanged DEF SelRowsInv, SelQuiet, Sel!ListedOnce, Sel!SelectionIsKept
<1>. QED
  BY <1>2, <1>3 DEF SelRowsInv, SelTypeInv

\* A request overtakes those of its source.
LEMMA SelOvertake ==
  ASSUME Sel!SelectionsAssumption, SelTypeInv, NEW r \in Requests, NEW s, Sel!Overtake(r, s), SelOnly(s)
  PROVE  selReq' \in [Requests -> Sel!RequestStates] /\ \A x \in Requests : SelFits(selReq[x])'
<1>1. selReq' = [x \in Requests |->
               IF x = r THEN Sel!Idle
               ELSE IF selReq[x].source = s /\ selReq[x].op \in {"available", "select", "remove"}
               THEN [selReq[x] EXCEPT !.stale = TRUE]
               ELSE selReq[x]]
  BY DEF Sel!Overtake
<1>2. ASSUME NEW x \in Requests PROVE selReq'[x] \in Sel!RequestStates /\ SelFits(selReq[x])'
  <2>1. CASE x = r
    <3>1. selReq'[x] = Sel!Idle
      BY <1>1, <2>1
    <3>. QED
      BY <3>1, SelIdle DEF SelFits, Sel!Idle
  <2>2. CASE x # r
    <3>1. /\ selReq'[x] \in {selReq[x], [selReq[x] EXCEPT !.stale = TRUE]}
          /\ selReq[x].source = s /\ selReq[x].op \in {"available", "select", "remove"} =>
               selReq'[x].stale
      BY <1>1, <2>2 DEF SelTypeInv, SelFits, Sel!RequestStates
    <3>2. SelFits(selReq[x])'
      BY <3>1, SelStillFits DEF SelTypeInv
    <3>. QED
      BY <3>2 DEF SelFits
  <2>. QED
    BY <2>1, <2>2
<1>3. selReq' \in [Requests -> Sel!RequestStates]
  BY <1>1, <1>2
<1>. QED
  BY <1>2, <1>3

\* The rows a refresh stores: the new ones have keys that it has not seen, and
\* are not selected; those that it deletes were not selected when it saw them.
LEMMA SelStoreRows ==
  ASSUME Sel!SelectionsAssumption, SelTypeInv, NEW r \in Requests, Sel!StoreAvailable(r),
         NEW s, s = selReq[r].source
  PROVE  /\ row' \in [Rows1 -> Sel!SelectionRows \cup {None, Gone}]
         /\ SelOnly(s)
         /\ \A i \in Sel!SelectedRows' : i \in Sel!SelectedRows /\ row'[i] = row[i]
         /\ ~selReq[r].stale => \A i \in Sel!RowsOf(s) \cap Sel!SelectedRows : row'[i] = row[i]
         /\ ~selReq[r].stale => \A i, j \in Sel!RowsOf(s)' :
              /\ i \in Sel!RowsOf(s) => row'[i] = row[i]
              /\ i \notin Sel!RowsOf(s) /\ row'[i].key = row'[j].key => i = j
<1> DEFINE q == selReq[r]
           D == Sel!StaleRows(q)
           N == Sel!NewKeys(q)
<1>1. /\ q.op = "available" /\ SelFits(q) /\ s \in Source
      /\ q.seen \subseteq Rows1 /\ q.keys \subseteq Keys1
  BY DEF Sel!StoreAvailable, Sel!At, SelTypeInv, SelFits, Sel!RequestStates
<1>2. PICK new \in [N -> {i \in Rows1 : row[i] = None}] :
        row' = [i \in Rows1 |->
                  IF i \in D THEN Gone
                  ELSE IF \E k \in N : new[k] = i
                  THEN [source |-> q.source, selected |-> FALSE,
                        key |-> CHOOSE k \in N : new[k] = i]
                  ELSE row[i]]
  BY DEF Sel!StoreAvailable
<1>3. ASSUME NEW i \in D
      PROVE  /\ i \in Sel!Live /\ row[i].source = s /\ row'[i] = Gone
             /\ i \in q.seen /\ i \notin q.selected
  BY <1>1, <1>2 DEF Sel!StaleRows, SelFits, Sel!Live
<1> DEFINE New(i) == \E k \in N : new[k] = i
           w(i) == [source |-> q.source, selected |-> FALSE, key |-> CHOOSE k \in N : new[k] = i]
<1>4. ASSUME NEW i \in Rows1, New(i)
      PROVE  /\ row[i] = None /\ row'[i] \in Sel!SelectionRows
             /\ row'[i].source = s /\ row'[i].selected = FALSE
             /\ row'[i].key \in N /\ new[row'[i].key] = i
  <2>1. row[i] = None /\ i \notin D
    <3>1. PICK k \in N : new[k] = i
      BY <1>4
    <3>2. new \in [N -> {j \in Rows1 : row[j] = None}]
      BY <1>2
    <3> HIDE DEF N, D
    <3>3. row[i] = None
      BY <3>1, <3>2
    <3>. QED
      BY <1>3, <3>3 DEF Sel!Live
  <2>2. row'[i] = w(i)
    BY <1>2, <1>4, <2>1
  <2>3. w(i).key \in N /\ new[w(i).key] = i /\ w(i).source = s /\ w(i).selected = FALSE
    BY <1>4
  <2>4. w(i) \in Sel!SelectionRows
    BY <1>1, <2>3 DEF Sel!SelectionRows, Sel!NewKeys
  <2> HIDE DEF w
  <2>. QED
    BY <2>1, <2>2, <2>3, <2>4
<1>5. \A i \in Rows1 : i \notin D /\ ~New(i) => row'[i] = row[i]
  BY <1>2
<1> HIDE DEF New, D, N, w
<1>6. row' \in [Rows1 -> Sel!SelectionRows \cup {None, Gone}]
  <2>1. \A i \in Rows1 : row'[i] \in Sel!SelectionRows \cup {None, Gone}
    BY <1>3, <1>4, <1>5 DEF SelTypeInv, Sel!TypeOK
  <2>. QED
    BY <1>2, <2>1
<1>7. SelOnly(s)
  BY <1>3, <1>4, <1>5 DEF SelOnly, Sel!Live
<1>8. ASSUME NEW i \in Sel!SelectedRows' PROVE i \in Sel!SelectedRows /\ row'[i] = row[i]
  <2>1. i \in Rows1 /\ row'[i] \notin {None, Gone} /\ row'[i].selected
    BY DEF Sel!SelectedRows, Sel!Live
  <2>2. row'[i] = row[i]
    BY <1>3, <1>4, <1>5, <2>1
  <2>. QED
    BY <2>1, <2>2 DEF Sel!SelectedRows, Sel!Live
<1>9. ASSUME ~q.stale
      PROVE  /\ \A i \in Sel!RowsOf(s) \cap Sel!SelectedRows : row'[i] = row[i]
             /\ \A i, j \in Sel!RowsOf(s)' :
                  /\ i \in Sel!RowsOf(s) => row'[i] = row[i]
                  /\ i \notin Sel!RowsOf(s) /\ row'[i].key = row'[j].key => i = j
  <2>1. q.seen = Sel!RowsOf(s) /\ q.selected = Sel!RowsOf(s) \cap Sel!SelectedRows
    BY <1>1, <1>9 DEF SelFits
  <2>2. \A i \in Rows1 : New(i) => i \notin Sel!RowsOf(s)
    BY <1>4 DEF Sel!RowsOf, Sel!Live
  <2>3. \A i \in Sel!RowsOf(s) : i \in Rows1
    BY DEF Sel!RowsOf, Sel!Live
  <2>4. \A i \in Sel!RowsOf(s) \cap Sel!SelectedRows : row'[i] = row[i]
    BY <1>3, <1>5, <2>1, <2>2, <2>3
  <2>5. \A i \in Sel!RowsOf(s)' : i \in Rows1 /\ i \notin D /\ (i \in Sel!RowsOf(s) \/ New(i))
    BY <1>3, <1>5 DEF Sel!RowsOf, Sel!Live
  <2>6. \A i \in Sel!RowsOf(s) : row[i].key \notin N
    <3>1. \A i \in Sel!RowsOf(s) : row[i] # Gone
      BY DEF Sel!RowsOf, Sel!Live
    <3>. QED
      BY <2>1, <3>1 DEF N, Sel!NewKeys, Sel!KeysSeen
  <2>7. \A i \in Sel!RowsOf(s)' : i \in Sel!RowsOf(s) => row'[i] = row[i]
    BY <1>5, <2>2, <2>5
  <2>8. ASSUME NEW i \in Sel!RowsOf(s)', NEW j \in Sel!RowsOf(s)',
               i \notin Sel!RowsOf(s), row'[i].key = row'[j].key
        PROVE  i = j
    <3>1. New(i) /\ i \in Rows1
      BY <2>5, <2>8
    <3>2. row'[j].key \in N
      BY <1>4, <2>8, <3>1
    <3>3. j \notin Sel!RowsOf(s)
      BY <2>6, <2>7, <3>2
    <3>4. New(j) /\ j \in Rows1
      BY <2>5, <3>3
    <3>5. new[row'[i].key] = i
      BY <1>4, <3>1
    <3>6. new[row'[j].key] = j
      BY <1>4, <3>4
    <3>. QED
      BY <2>8, <3>5, <3>6
  <2>. QED
    BY <2>4, <2>7, <2>8
<1>. QED
  BY <1>6, <1>7, <1>8, <1>9

LEMMA SelStoreKeeps ==
  ASSUME Sel!SelectionsAssumption, SelRowsInv, NEW r \in Requests, Sel!StoreAvailable(r)
  PROVE  SelRowsInv'
<1>. PICK s : s = selReq[r].source
  OBVIOUS
<1>1. /\ Sel!Overtake(r, s) /\ Sel!Crossed(r)
      /\ UNCHANGED <<upstream, lapsed, catalogue, selAsset, due, run, wanted, missed>>
      /\ s \in Source
  BY DEF Sel!StoreAvailable, Sel!At, SelRowsInv, SelTypeInv, SelFits
<1>2. /\ row' \in [Rows1 -> Sel!SelectionRows \cup {None, Gone}]
      /\ SelOnly(s)
      /\ ~selReq[r].stale => \A i \in Sel!RowsOf(s) \cap Sel!SelectedRows : row'[i] = row[i]
      /\ ~selReq[r].stale => \A i, j \in Sel!RowsOf(s)' :
           /\ i \in Sel!RowsOf(s) => row'[i] = row[i]
           /\ i \notin Sel!RowsOf(s) /\ row'[i].key = row'[j].key => i = j
  BY SelStoreRows DEF SelRowsInv
<1>3. selCrossed' = IF selReq[r].stale THEN selCrossed \cup {s} ELSE selCrossed
  BY <1>1 DEF Sel!Crossed
<1>4. selReq' \in [Requests -> Sel!RequestStates] /\ \A x \in Requests : SelFits(selReq[x])'
  BY <1>1, <1>2, SelOvertake DEF SelRowsInv
<1>5. Sel!TypeOK'
  BY <1>1, <1>2, <1>3, <1>4 DEF SelRowsInv, SelTypeInv, Sel!TypeOK
<1>6. Sel!ListedOnce'
  <2>. SUFFICES ASSUME NEW t \in Source \ selCrossed', NEW i \in Sel!RowsOf(t)', NEW j \in Sel!RowsOf(t)',
                       row'[i].key = row'[j].key
                PROVE  i = j
    BY DEF Sel!ListedOnce
  <2>1. \A a, b \in Sel!RowsOf(t) : row[a].key = row[b].key => a = b
    BY <1>3 DEF SelRowsInv, Sel!ListedOnce
  <2>2. CASE t # s
    BY <1>2, <2>1, <2>2, SelOthers DEF SelRowsInv, SelTypeInv
  <2>3. CASE t = s
    <3>1. ~selReq[r].stale
      BY <1>3, <2>3
    <3>. QED
      BY <1>2, <2>1, <2>3, <3>1
  <2>. QED
    BY <2>2, <2>3
<1>7. Sel!SelectionIsKept'
  <2>. SUFFICES ASSUME NEW t \in Source \ selCrossed', NEW k \in Keys1, <<t, k>> \in wanted
                PROVE  k \in Sel!Selected(t)'
    BY <1>1 DEF Sel!SelectionIsKept
  <2>1. k \in Sel!Selected(t)
    BY <1>3 DEF SelRowsInv, Sel!SelectionIsKept
  <2>2. CASE t # s
    BY <1>2, <2>1, <2>2, SelOthers DEF SelRowsInv, SelTypeInv
  <2>3. CASE t = s
    <3>1. PICK i \in Sel!RowsOf(s) \cap Sel!SelectedRows : row[i].key = k
      BY <2>1, <2>3 DEF Sel!Selected
    <3>2. row'[i] = row[i]
      BY <1>2, <1>3, <2>3
    <3>3. i \in Sel!RowsOf(s)' /\ i \in Sel!SelectedRows'
      BY <3>2 DEF Sel!RowsOf, Sel!SelectedRows, Sel!Live
    <3>. QED
      BY <2>3, <3>1, <3>2, <3>3 DEF Sel!Selected
  <2>. QED
    BY <2>2, <2>3
<1>. QED
  BY <1>4, <1>5, <1>6, <1>7 DEF SelRowsInv, SelTypeInv

\* A selection is written to a row of s, if it is there.
LEMMA SelWriteRows ==
  ASSUME Sel!SelectionsAssumption, SelTypeInv, NEW i \in Rows1, NEW b \in BOOLEAN, Sel!Write(i, b),
         NEW s, i \in Sel!Live => row[i].source = s
  PROVE  /\ row' \in [Rows1 -> Sel!SelectionRows \cup {None, Gone}]
         /\ SelOnly(s)
         /\ \A j \in Rows1 \ {i} : row'[j] = row[j]
         /\ \A t : Sel!RowsOf(t)' = Sel!RowsOf(t)
         /\ \A j \in Sel!Live : row'[j].key = row[j].key
         /\ Sel!SelectedRows' = IF i \in Sel!Live /\ b THEN Sel!SelectedRows \cup {i} ELSE Sel!SelectedRows \ {i}
<1>1. CASE i \notin Sel!Live
  <2>1. row' = row
    BY <1>1 DEF Sel!Write
  <2>. QED
    BY <1>1, <2>1, SelUnchanged DEF SelTypeInv, Sel!TypeOK, SelOnly, Sel!SelectedRows
<1>2. CASE i \in Sel!Live
  <2>1. row' = [row EXCEPT ![i].selected = b] /\ row[i] \in Sel!SelectionRows
    BY <1>2, SelLive DEF Sel!Write, SelTypeInv
  <2>2. /\ row'[i] = [row[i] EXCEPT !.selected = b]
        /\ \A j \in Rows1 \ {i} : row'[j] = row[j]
    BY <2>1 DEF SelTypeInv, Sel!TypeOK
  <2>3. /\ row'[i] \in Sel!SelectionRows /\ row'[i].key = row[i].key
        /\ row'[i].source = row[i].source /\ row'[i].selected = b
    BY <2>1, <2>2 DEF Sel!SelectionRows
  <2>4. row' \in [Rows1 -> Sel!SelectionRows \cup {None, Gone}]
    BY <2>1, <2>3 DEF SelTypeInv, Sel!TypeOK
  <2>5. SelOnly(s)
    BY <1>2, <2>2, <2>3 DEF SelOnly
  <2>6. Sel!Live' = Sel!Live
    BY <1>2, <2>2, <2>3 DEF Sel!Live, Sel!SelectionsAssumption
  <2>7. \A j \in Sel!Live : row'[j].key = row[j].key /\ row'[j].source = row[j].source
    BY <2>2, <2>3 DEF Sel!Live
  <2>8. \A t : Sel!RowsOf(t)' = Sel!RowsOf(t)
    BY <2>6, <2>7 DEF Sel!RowsOf
  <2>9. \A j \in Sel!Live : row'[j].selected = IF j = i THEN b ELSE row[j].selected
    BY <2>2, <2>3 DEF Sel!Live
  <2>10. Sel!SelectedRows' = IF b THEN Sel!SelectedRows \cup {i} ELSE Sel!SelectedRows \ {i}
    BY <1>2, <2>6, <2>9 DEF Sel!SelectedRows
  <2>. QED
    BY <1>2, <2>2, <2>4, <2>5, <2>7, <2>8, <2>10
<1>. QED
  BY <1>1, <1>2

\* The row that a request changes is of its source and image, if it is still
\* there; if it is not, others have overtaken the request.
LEMMA SelOwnRow ==
  ASSUME Sel!SelectionsAssumption, SelTypeInv, NEW r \in Requests, selReq[r].op \in {"select", "remove"}
  PROVE  /\ selReq[r].source \in Source /\ selReq[r].id \in Rows1 /\ row[selReq[r].id] # None
         /\ selReq[r].id \in Sel!Live => /\ row[selReq[r].id] \in Sel!SelectionRows
                                 /\ row[selReq[r].id].source = selReq[r].source
                                 /\ row[selReq[r].id].key \in Keys1
                                 /\ selReq[r].keys = {row[selReq[r].id].key}
         /\ selReq[r].id \notin Sel!Live => selReq[r].stale
<1>1. SelFits(selReq[r])
  BY DEF SelTypeInv
<1>2. /\ selReq[r].source \in Source /\ selReq[r].id \in Rows1 /\ row[selReq[r].id] # None
      /\ row[selReq[r].id] # Gone => /\ row[selReq[r].id].source = selReq[r].source
                                    /\ selReq[r].keys = {row[selReq[r].id].key}
      /\ row[selReq[r].id] = Gone => selReq[r].stale
  BY <1>1 DEF SelFits
<1>. QED
  BY <1>2, SelLive DEF SelTypeInv, Sel!SelectionRows, Sel!Live

LEMMA SelSelectKeeps ==
  ASSUME Sel!SelectionsAssumption, SelRowsInv, NEW r \in Requests, Sel!CommitSelect(r)
  PROVE  SelRowsInv'
<1>. PICK s, i : s = selReq[r].source /\ i = selReq[r].id
  OBVIOUS
<1>1. /\ Sel!Write(i, TRUE) /\ Sel!Overtake(r, s) /\ Sel!Crossed(r)
      /\ wanted' = IF i \in Sel!Live THEN wanted \cup {s} \X selReq[r].keys ELSE wanted
      /\ missed' \in {missed, missed \cup {s}}
      /\ UNCHANGED <<upstream, lapsed, catalogue, selAsset, due, run>>
  BY DEF Sel!CommitSelect, Sel!Missed
<1>2. /\ s \in Source /\ i \in Rows1
      /\ i \in Sel!Live => /\ row[i].source = s /\ row[i].key \in Keys1
                           /\ selReq[r].keys = {row[i].key}
  BY SelOwnRow DEF Sel!CommitSelect, Sel!At, SelRowsInv
<1>3. /\ row' \in [Rows1 -> Sel!SelectionRows \cup {None, Gone}]
      /\ SelOnly(s)
      /\ \A t : Sel!RowsOf(t)' = Sel!RowsOf(t)
      /\ \A j \in Sel!Live : row'[j].key = row[j].key
      /\ Sel!SelectedRows \subseteq Sel!SelectedRows'
      /\ i \in Sel!Live => i \in Sel!SelectedRows'
  <2>1. Sel!SelectedRows' = IF i \in Sel!Live /\ TRUE THEN Sel!SelectedRows \cup {i} ELSE Sel!SelectedRows \ {i}
    BY <1>1, <1>2, SelWriteRows DEF SelRowsInv
  <2>2. i \notin Sel!Live => i \notin Sel!SelectedRows
    BY DEF Sel!SelectedRows
  <2>. QED
    BY <1>1, <1>2, <2>1, <2>2, SelWriteRows DEF SelRowsInv
<1>4. selReq' \in [Requests -> Sel!RequestStates] /\ \A x \in Requests : SelFits(selReq[x])'
  BY <1>1, <1>3, SelOvertake DEF SelRowsInv
<1>5. selCrossed \subseteq selCrossed' /\ selCrossed' \subseteq selCrossed \cup {s}
  BY <1>1 DEF Sel!Crossed
<1>6. wanted' \subseteq Source \X Keys1
  BY <1>1, <1>2 DEF SelRowsInv, SelTypeInv, Sel!TypeOK
<1>7. Sel!TypeOK'
  BY <1>1, <1>2, <1>3, <1>4, <1>5, <1>6 DEF SelRowsInv, SelTypeInv, Sel!TypeOK
<1>8. Sel!ListedOnce'
  <2>1. \A t : \A j \in Sel!RowsOf(t) : row'[j].key = row[j].key
    BY <1>3 DEF Sel!RowsOf
  <2>. QED
    BY <1>3, <1>5, <2>1 DEF SelRowsInv, Sel!ListedOnce
<1>9. Sel!SelectionIsKept'
  <2>. SUFFICES ASSUME NEW t \in Source \ selCrossed', NEW k \in Keys1, <<t, k>> \in wanted'
                PROVE  k \in Sel!Selected(t)'
    BY DEF Sel!SelectionIsKept
  <2>1. PICK j \in Sel!RowsOf(t) \cap Sel!SelectedRows' : row[j].key = k
    <3>1. CASE <<t, k>> \in wanted
      <4>1. k \in Sel!Selected(t)
        BY <1>5, <3>1 DEF SelRowsInv, Sel!SelectionIsKept
      <4>. QED
        BY <1>3, <4>1 DEF Sel!Selected
    <3>2. CASE <<t, k>> \notin wanted
      <4>1. i \in Sel!Live /\ t = s /\ k = row[i].key
        BY <1>1, <1>2, <3>2
      <4>. QED
        BY <1>2, <1>3, <4>1 DEF Sel!RowsOf
    <3>. QED
      BY <3>1, <3>2
  <2>2. row'[j].key = k
    BY <1>3, <2>1 DEF Sel!RowsOf
  <2>. QED
    BY <1>3, <2>1, <2>2 DEF Sel!Selected
<1>. QED
  BY <1>4, <1>7, <1>8, <1>9 DEF SelRowsInv, SelTypeInv

\* What a removal deletes is gone, and everything else stays.
LEMMA SelPurge ==
  ASSUME SelTypeInv, NEW s, NEW keys, Sel!Purge(s, keys)
  PROVE  /\ selAsset' \in [Source -> [Keys1 -> Nat]]
         /\ \A t \in Source, k \in Keys1 : selAsset'[t][k] \in {selAsset[t][k], 0}
         /\ \A t \in Source \ {s} : selAsset'[t] = selAsset[t]
<1> DEFINE f == [k \in Keys1 |-> IF \E a \in keys : k \in Like1[a] THEN 0 ELSE selAsset[s][k]]
<1>1. selAsset \in [Source -> [Keys1 -> Nat]] /\ selAsset' = [selAsset EXCEPT ![s] = f]
  BY DEF SelTypeInv, Sel!TypeOK, Sel!Purge
<1>2. /\ \A k \in Keys1 : f[k] \in {selAsset[s][k], 0}
      /\ s \in Source => f \in [Keys1 -> Nat]
  BY <1>1
<1> HIDE DEF f
<1>. QED
  BY <1>1, <1>2

LEMMA SelRemoveKeeps ==
  ASSUME Sel!SelectionsAssumption, SelRowsInv, NEW r \in Requests, Sel!CommitRemove(r)
  PROVE  SelRowsInv'
<1>. PICK s, i : s = selReq[r].source /\ i = selReq[r].id
  OBVIOUS
<1>1. /\ Sel!Write(i, FALSE) /\ Sel!Overtake(r, s) /\ Sel!Crossed(r)
      /\ wanted' = wanted \ ({s} \X selReq[r].keys)
      /\ Sel!Purge(s, selReq[r].keys)
      /\ missed' \in {missed, missed \cup {s}}
      /\ UNCHANGED <<upstream, lapsed, catalogue, due, run>>
  BY DEF Sel!CommitRemove, Sel!Missed
<1>2. /\ s \in Source /\ i \in Rows1
      /\ i \in Sel!Live => row[i].source = s /\ selReq[r].keys = {row[i].key}
  BY SelOwnRow DEF Sel!CommitRemove, Sel!At, SelRowsInv
<1>3. /\ row' \in [Rows1 -> Sel!SelectionRows \cup {None, Gone}]
      /\ SelOnly(s)
      /\ \A t : Sel!RowsOf(t)' = Sel!RowsOf(t)
      /\ \A j \in Sel!Live : row'[j].key = row[j].key
      /\ Sel!SelectedRows \ {i} \subseteq Sel!SelectedRows'
  <2>1. Sel!SelectedRows' = IF i \in Sel!Live /\ FALSE THEN Sel!SelectedRows \cup {i} ELSE Sel!SelectedRows \ {i}
    BY <1>1, <1>2, SelWriteRows DEF SelRowsInv
  <2>. QED
    BY <1>1, <1>2, <2>1, SelWriteRows DEF SelRowsInv
<1>4. selReq' \in [Requests -> Sel!RequestStates] /\ \A x \in Requests : SelFits(selReq[x])'
  BY <1>1, <1>3, SelOvertake DEF SelRowsInv
<1>5. selCrossed \subseteq selCrossed' /\ selCrossed' \subseteq selCrossed \cup {s}
  BY <1>1 DEF Sel!Crossed
<1>6. selAsset' \in [Source -> [Keys1 -> Nat]]
  BY <1>1, SelPurge DEF SelRowsInv
<1>7. Sel!TypeOK'
  BY <1>1, <1>2, <1>3, <1>4, <1>5, <1>6 DEF SelRowsInv, SelTypeInv, Sel!TypeOK
<1>8. Sel!ListedOnce'
  <2>1. \A t : \A j \in Sel!RowsOf(t) : row'[j].key = row[j].key
    BY <1>3 DEF Sel!RowsOf
  <2>. QED
    BY <1>3, <1>5, <2>1 DEF SelRowsInv, Sel!ListedOnce
<1>9. Sel!SelectionIsKept'
  <2>. SUFFICES ASSUME NEW t \in Source \ selCrossed', NEW k \in Keys1, <<t, k>> \in wanted'
                PROVE  k \in Sel!Selected(t)'
    BY DEF Sel!SelectionIsKept
  <2>1. k \in Sel!Selected(t)
    BY <1>1, <1>5 DEF SelRowsInv, Sel!SelectionIsKept
  <2>2. PICK j \in Sel!RowsOf(t) \cap Sel!SelectedRows : row[j].key = k
    BY <2>1 DEF Sel!Selected
  <2>3. j # i
    BY <1>1, <1>2, <2>2 DEF Sel!RowsOf
  <2>4. j \in Sel!RowsOf(t)' /\ j \in Sel!SelectedRows' /\ row'[j].key = k
    BY <1>3, <2>2, <2>3 DEF Sel!RowsOf
  <2>. QED
    BY <2>4 DEF Sel!Selected
<1>. QED
  BY <1>4, <1>7, <1>8, <1>9 DEF SelRowsInv, SelTypeInv

\* Request r goes on as q, the others as they were.
LEMMA SelMoves ==
  ASSUME Sel!SelectionsAssumption, SelTypeInv, NEW r \in Requests, NEW q, SelFits(q),
         selReq' = [selReq EXCEPT ![r] = q]
  PROVE  selReq' \in [Requests -> Sel!RequestStates] /\ \A x \in Requests : SelFits(selReq'[x])
<1>1. selReq \in [Requests -> Sel!RequestStates] /\ q \in Sel!RequestStates
  BY DEF SelTypeInv, Sel!TypeOK, SelFits
<1>2. \A x \in Requests : selReq'[x] = IF x = r THEN q ELSE selReq[x]
  BY <1>1
<1>. QED
  BY <1>1, <1>2 DEF SelTypeInv

\* The assets that a sync stores: of every image that it has found none for, its
\* own or that of one whose names contain it.
LEMMA SelStored ==
  ASSUME Sel!SelectionsAssumption, SelTypeInv, NEW r \in Requests, Sel!StoreAssets(r)
  PROVE  /\ selReq[r].source \in Source
         /\ run' \in [Source -> {None} \cup (SUBSET Keys1)] /\ selAsset' \in [Source -> [Keys1 -> Nat]]
         /\ \/ run' = run
            \/ ~selReq[r].passed /\ run'[selReq[r].source] = None
         /\ \A s \in Source \ {selReq[r].source} : run'[s] = run[s] /\ selAsset'[s] = selAsset[s]
         /\ \E new \in SUBSET Sel!Missing(selReq[r]) :
              /\ \A k \in Sel!Missing(selReq[r]) : Like1[k] \cap new # {}
              /\ \A k \in Keys1 : selAsset'[selReq[r].source][k] =
                   IF k \in new THEN selAsset[selReq[r].source][k] + 1
                   ELSE selAsset[selReq[r].source][k]
<1>. PICK s : s = selReq[r].source
  OBVIOUS
<1>1. PICK new \in SUBSET Sel!Missing(selReq[r]) :
        /\ \A k \in Sel!Missing(selReq[r]) : Like1[k] \cap new # {}
        /\ selAsset' = [selAsset EXCEPT ![s] =
                           [k \in Keys1 |-> IF k \in new THEN @[k] + 1 ELSE @[k]]]
  BY DEF Sel!StoreAssets
<1> DEFINE f == [k \in Keys1 |-> IF k \in new THEN selAsset[s][k] + 1 ELSE selAsset[s][k]]
<1>2. s \in Source /\ SelFits(selReq[r])
  BY DEF Sel!StoreAssets, Sel!At, SelTypeInv, SelFits
<1>3. selAsset \in [Source -> [Keys1 -> Nat]] /\ run \in [Source -> {None} \cup (SUBSET Keys1)]
  BY DEF SelTypeInv, Sel!TypeOK
<1>4. selAsset' = [selAsset EXCEPT ![s] = f]
  BY <1>1
<1>5. /\ f \in [Keys1 -> Nat]
      /\ \A k \in Keys1 : f[k] = IF k \in new THEN selAsset[s][k] + 1 ELSE selAsset[s][k]
  BY <1>2, <1>3
<1>6. \/ run' = run
      \/ ~selReq[r].passed /\ run' = [run EXCEPT ![s] = None]
  BY DEF Sel!StoreAssets
<1> HIDE DEF f
<1>7. /\ selAsset' \in [Source -> [Keys1 -> Nat]] /\ selAsset'[s] = f
      /\ \A t \in Source \ {s} : selAsset'[t] = selAsset[t]
  BY <1>2, <1>3, <1>4, <1>5
<1>8. /\ run' \in [Source -> {None} \cup (SUBSET Keys1)]
      /\ \/ run' = run
         \/ ~selReq[r].passed /\ run'[s] = None
      /\ \A t \in Source \ {s} : run'[t] = run[t]
  BY <1>2, <1>3, <1>6
<1>. QED
  BY <1>1, <1>2, <1>5, <1>7, <1>8

\* What a sync finds: none of the images it then takes for missing has an asset.
LEMMA SelLooksUp ==
  ASSUME Sel!SelectionsAssumption, SelTypeInv, NEW r \in Requests, Sel!FindAssets(r)
  PROVE  \E found \in SUBSET Keys1 :
           /\ selReq' = [selReq EXCEPT ![r] = [selReq[r] EXCEPT !.step = "write", !.found = found]]
           /\ \A k \in selReq[r].keys : Like1[k] \cap found = {} => selAsset[selReq[r].source][k] = 0
<1> DEFINE q == selReq[r]
<1>1. q.source \in Source /\ q.keys \subseteq Keys1
  BY DEF Sel!FindAssets, Sel!At, SelTypeInv, SelFits, Sel!RequestStates
<1> DEFINE Stored(k) == {l \in Like1[k] : selAsset[q.source][l] > 0}
<1>2. PICK first \in [{k \in q.keys : Stored(k) # {}} -> Keys1] :
        /\ \A k \in DOMAIN first : first[k] \in Stored(k)
        /\ selReq' = [selReq EXCEPT ![r].step = "write",
                                   ![r].found = {first[k] : k \in DOMAIN first}]
  BY DEF Sel!FindAssets
<1> DEFINE found == {first[k] : k \in DOMAIN first}
<1>3. found \in SUBSET Keys1
  BY <1>2
<1>4. selReq' = [selReq EXCEPT ![r] = [selReq[r] EXCEPT !.step = "write", !.found = found]]
  BY <1>2 DEF SelTypeInv, Sel!TypeOK, Sel!RequestStates
<1>5. ASSUME NEW k \in q.keys, Like1[k] \cap found = {} PROVE selAsset[q.source][k] = 0
  <2>1. Stored(k) = {}
    <3>1. ASSUME Stored(k) # {} PROVE FALSE
      <4>1. k \in DOMAIN first
        BY <1>2, <3>1
      <4>2. first[k] \in Like1[k] /\ first[k] \in found
        BY <1>2, <4>1
      <4>. QED
        BY <1>5, <4>2
    <3>. QED
      BY <3>1
  <2>2. k \in Like1[k]
    BY <1>1 DEF Sel!SelectionsAssumption
  <2>3. selAsset[q.source][k] \in Nat /\ ~(selAsset[q.source][k] > 0)
    BY <1>1, <2>1, <2>2 DEF SelTypeInv, Sel!TypeOK
  <2>. QED
    BY <2>3
<1> HIDE DEF found
<1>. QED
  BY <1>3, <1>4, <1>5

\* What opens a request, moves it on or ends it, and the steps of refreshes,
\* syncs and upstream, write no row.
SelQuietStep(r) ==
    \/ \E s \in Source : Sel!OpenAvailable(r, s) \/ Sel!OpenAssets(r, s)
    \/ \E i \in Rows1, op \in {"select", "remove"} : Sel!OpenChange(r, op, i)
    \/ Sel!UpdateSelection(r) \/ Sel!LockSource(r) \/ Sel!FindAssets(r) \/ Sel!StoreAssets(r) \/ Sel!Abort(r)

LEMMA SelStepKeeps ==
  ASSUME Sel!SelectionsAssumption, SelRowsInv, NEW r \in Requests, SelQuietStep(r)
  PROVE  SelRowsInv'
<1>1. SelFits(selReq[r]) /\ selReq[r] \in Sel!RequestStates /\ SelFits(Sel!Idle)
  BY SelIdle DEF SelRowsInv, SelTypeInv, SelFits
<1>2. UNCHANGED <<row, wanted, selCrossed, missed, lapsed, upstream, catalogue>>
  BY DEF SelQuietStep, Sel!OpenAvailable, Sel!OpenAssets, Sel!OpenChange, Sel!UpdateSelection, Sel!LockSource,
         Sel!FindAssets, Sel!StoreAssets, Sel!Abort, Sel!Move
<1>3. \E q : SelFits(q) /\ selReq' = [selReq EXCEPT ![r] = q]
  <2>1. CASE \E s \in Source : Sel!OpenAvailable(r, s)
    <3>1. PICK s \in Source : Sel!OpenAvailable(r, s)
      BY <2>1
    <3> DEFINE q == [Sel!Idle EXCEPT !.op = "available", !.step = "write", !.source = s,
                                 !.keys = catalogue[s], !.seen = Sel!RowsOf(s),
                                 !.selected = Sel!RowsOf(s) \cap Sel!SelectedRows]
    <3>2. catalogue[s] \in SUBSET Keys1
      BY <3>1 DEF Sel!OpenAvailable, SelRowsInv, SelTypeInv, Sel!TypeOK
    <3>3. q \in Sel!RequestStates
      BY <3>2 DEF Sel!RequestStates, Sel!Idle, Sel!RowsOf, Sel!Live
    <3>4. SelFits(q)
      BY <3>3 DEF SelFits, Sel!Idle, Sel!RowsOf, Sel!Live
    <3>. QED
      BY <3>1, <3>4 DEF Sel!OpenAvailable
  <2>2. CASE \E s \in Source : Sel!OpenAssets(r, s)
    <3>1. PICK s \in Source : Sel!OpenAssets(r, s)
      BY <2>2
    <3> DEFINE q == [Sel!Idle EXCEPT !.op = "assets", !.step = "lock", !.source = s,
                                 !.keys = run[s] \cap upstream[s]]
    <3>2. run[s] \cap upstream[s] \in SUBSET Keys1
      BY <3>1 DEF Sel!OpenAssets, SelRowsInv, SelTypeInv, Sel!TypeOK
    <3>3. q \in Sel!RequestStates
      BY <3>2 DEF Sel!RequestStates, Sel!Idle
    <3>4. SelFits(q)
      BY <3>3 DEF SelFits, Sel!Idle
    <3>. QED
      BY <3>1, <3>4 DEF Sel!OpenAssets
  <2>3. CASE \E i \in Rows1, op \in {"select", "remove"} : Sel!OpenChange(r, op, i)
    <3>1. PICK i \in Rows1, op \in {"select", "remove"} : Sel!OpenChange(r, op, i)
      BY <2>3
    <3> DEFINE q == [Sel!Idle EXCEPT !.op = op, !.source = row[i].source, !.id = i, !.seen = {i},
                                     !.keys = {row[i].key}]
    <3>2. i \in Sel!Live /\ row[i].source \in Source /\ row[i].key \in Keys1
      BY <3>1, SelLive DEF Sel!OpenChange, SelRowsInv, SelTypeInv, Sel!SelectionRows
    <3>3. q \in Sel!RequestStates
      BY <3>2 DEF Sel!RequestStates, Sel!Idle
    <3>4. SelFits(q)
      BY <3>2, <3>3 DEF SelFits, Sel!Idle, Sel!Live
    <3>. QED
      BY <3>1, <3>4 DEF Sel!OpenChange
  <2>4. ASSUME NEW step \in {"write", "find"}, Sel!Move(r, step),
               selReq[r].op # "available"
        PROVE  \E q : SelFits(q) /\ selReq' = [selReq EXCEPT ![r] = q]
    <3> DEFINE q == [selReq[r] EXCEPT !.step = step]
    <3>1. q \in Sel!RequestStates
      BY <1>1 DEF Sel!RequestStates
    <3>2. SelFits(q)
      BY <1>1, <2>4, <3>1 DEF SelFits, Sel!RequestStates
    <3>. QED
      BY <2>4, <3>2 DEF Sel!Move
  <2>5. CASE Sel!FindAssets(r)
    <3>1. PICK found \in SUBSET Keys1 :
            selReq' = [selReq EXCEPT ![r] = [selReq[r] EXCEPT !.step = "write", !.found = found]]
      BY <2>5, SelLooksUp DEF SelRowsInv
    <3> DEFINE q == [selReq[r] EXCEPT !.step = "write", !.found = found]
    <3>2. q \in Sel!RequestStates
      BY <1>1, <3>1 DEF Sel!RequestStates
    <3>3. SelFits(q)
      BY <1>1, <2>5, <3>2 DEF SelFits, Sel!RequestStates, Sel!FindAssets, Sel!At
    <3>. QED
      BY <3>1, <3>3
  <2>6. CASE Sel!UpdateSelection(r)
    BY <2>4, <2>6 DEF Sel!UpdateSelection
  <2>7. CASE Sel!LockSource(r)
    BY <2>4, <2>7 DEF Sel!LockSource, Sel!At
  <2>8. CASE Sel!StoreAssets(r) \/ Sel!Abort(r)
    BY <1>1, <2>8 DEF Sel!StoreAssets, Sel!Abort
  <2>. QED
    BY <2>1, <2>2, <2>3, <2>5, <2>6, <2>7, <2>8 DEF SelQuietStep
<1>4. selReq' \in [Requests -> Sel!RequestStates] /\ \A x \in Requests : SelFits(selReq'[x])
  BY <1>3, SelMoves DEF SelRowsInv
<1>5. due' \subseteq Source
  <2>1. CASE Sel!UpdateSelection(r)
    BY <2>1, SelOwnRow DEF Sel!UpdateSelection, Sel!Trigger, SelRowsInv, SelTypeInv, Sel!TypeOK
  <2>2. CASE UNCHANGED due
    BY <2>2 DEF SelRowsInv, SelTypeInv, Sel!TypeOK
  <2>. QED
    BY <2>1, <2>2 DEF SelQuietStep, Sel!OpenAvailable, Sel!OpenAssets, Sel!OpenChange, Sel!LockSource,
                      Sel!FindAssets, Sel!StoreAssets, Sel!Abort
<1>6. run' \in [Source -> {None} \cup (SUBSET Keys1)] /\ selAsset' \in [Source -> [Keys1 -> Nat]]
  <2>1. CASE Sel!StoreAssets(r)
    BY <2>1, SelStored DEF SelRowsInv
  <2>2. CASE UNCHANGED <<run, selAsset>>
    BY <2>2 DEF SelRowsInv, SelTypeInv, Sel!TypeOK
  <2>. QED
    BY <2>1, <2>2 DEF SelQuietStep, Sel!OpenAvailable, Sel!OpenAssets, Sel!OpenChange, Sel!LockSource,
                      Sel!FindAssets, Sel!UpdateSelection, Sel!Abort
<1>7. Sel!TypeOK'
  BY <1>2, <1>4, <1>5, <1>6 DEF SelRowsInv, SelTypeInv, Sel!TypeOK
<1>. QED
  BY <1>2, <1>4, <1>7, SelQuietKeeps DEF SelQuiet

LEMMA SelSourceKeeps ==
  ASSUME Sel!SelectionsAssumption, SelRowsInv, NEW s \in Source,
         \/ Sel!FetchCatalogue(s) \/ Sel!EndRefresh(s) \/ Sel!SyncRead(s) \/ Sel!SyncGivesUp(s)
         \/ \E k \in Keys1 : Sel!UpstreamChanges(s, k)
  PROVE  SelRowsInv'
<1>1. UNCHANGED <<row, wanted, selCrossed, selAsset>>
  BY DEF Sel!FetchCatalogue, Sel!EndRefresh, Sel!SyncRead, Sel!SyncGivesUp, Sel!UpstreamChanges
<1>2. selReq' \in [Requests -> Sel!RequestStates] /\ \A x \in Requests : SelFits(selReq'[x])
  <2>1. ASSUME NEW x \in Requests PROVE SelFits([selReq[x] EXCEPT !.passed = TRUE])
    <3> DEFINE q == [selReq[x] EXCEPT !.passed = TRUE]
    <3>1. SelFits(selReq[x]) /\ selReq[x] \in Sel!RequestStates
      BY DEF SelRowsInv, SelTypeInv, SelFits
    <3>2. /\ q \in Sel!RequestStates
          /\ q.op = selReq[x].op /\ q.source = selReq[x].source /\ q.id = selReq[x].id
          /\ q.seen = selReq[x].seen /\ q.selected = selReq[x].selected /\ q.stale = selReq[x].stale
          /\ q.keys = selReq[x].keys
      BY <3>1 DEF Sel!RequestStates
    <3> HIDE DEF q
    <3>3. SelFits(q)
      BY <3>1, <3>2 DEF SelFits
    <3>. QED
      BY <3>3 DEF q
  <2>2. CASE Sel!SyncRead(s)
    <3>1. \A x \in Requests : selReq'[x] \in {selReq[x], [selReq[x] EXCEPT !.passed = TRUE]}
      BY <2>2 DEF Sel!SyncRead
    <3>2. \A x \in Requests : SelFits(selReq'[x])
      BY <2>1, <3>1 DEF SelRowsInv, SelTypeInv
    <3>3. \A x \in Requests : selReq'[x] \in Sel!RequestStates
      BY <3>2 DEF SelFits
    <3>. QED
      BY <2>2, <3>2, <3>3 DEF Sel!SyncRead
  <2>3. CASE UNCHANGED selReq
    BY <2>3 DEF SelRowsInv, SelTypeInv, Sel!TypeOK
  <2>. QED
    BY <2>2, <2>3 DEF Sel!FetchCatalogue, Sel!EndRefresh, Sel!SyncGivesUp, Sel!UpstreamChanges
<1>3. \A t \in Source : Sel!Selected(t) \in SUBSET Keys1
  BY SelLive DEF SelRowsInv, SelTypeInv, Sel!Selected, Sel!RowsOf, Sel!Live, Sel!SelectionRows
<1>4. /\ upstream' \in [Source -> SUBSET Keys1]
      /\ lapsed' \subseteq Source \X Keys1
      /\ catalogue' \in [Source -> {None} \cup (SUBSET Keys1)]
      /\ due' \subseteq Source
      /\ run' \in [Source -> {None} \cup (SUBSET Keys1)]
      /\ missed' \subseteq Source
  <2>1. CASE Sel!FetchCatalogue(s) \/ Sel!EndRefresh(s) \/ Sel!SyncGivesUp(s)
    BY <2>1 DEF Sel!FetchCatalogue, Sel!EndRefresh, Sel!SyncGivesUp, Sel!Listed, SelRowsInv,
                SelTypeInv, Sel!TypeOK
  <2>2. CASE Sel!SyncRead(s)
    BY <1>3, <2>2 DEF Sel!SyncRead, SelRowsInv, SelTypeInv, Sel!TypeOK
  <2>3. CASE \E k \in Keys1 : Sel!UpstreamChanges(s, k)
    <3>1. PICK k \in Keys1 : Sel!UpstreamChanges(s, k)
      BY <2>3
    <3>. QED
      BY <3>1 DEF Sel!UpstreamChanges, SelRowsInv, SelTypeInv, Sel!TypeOK
  <2>. QED
    BY <2>1, <2>2, <2>3
<1>5. Sel!TypeOK'
  BY <1>1, <1>2, <1>4 DEF SelRowsInv, SelTypeInv, Sel!TypeOK
<1>. QED
  BY <1>1, <1>2, <1>5, SelQuietKeeps DEF SelQuiet

LEMMA SelRowsNext ==
  ASSUME Sel!SelectionsAssumption, SelRowsInv, [Sel!Next]_(Sel!vars)
  PROVE  SelRowsInv'
<1>1. ASSUME NEW r \in Requests, Sel!Step(r) PROVE SelRowsInv'
  BY <1>1, SelStoreKeeps, SelSelectKeeps, SelRemoveKeeps, SelStepKeeps DEF Sel!Step, SelQuietStep
<1>2. CASE UNCHANGED Sel!vars
  <2>1. UNCHANGED <<row, wanted, selCrossed>> /\ selReq' = selReq /\ Sel!TypeOK'
    BY <1>2 DEF Sel!vars, SelRowsInv, SelTypeInv, Sel!TypeOK
  <2>. QED
    BY <2>1, SelQuietKeeps DEF SelQuiet, SelRowsInv, SelTypeInv, Sel!TypeOK
<1>. QED
  BY <1>1, <1>2, SelSourceKeeps DEF Sel!Next

-----------------------------------------------------------------------------
(* Selections: the assets.                                                  *)

\* No source is locked that was not, and assets stay or go.
LEMMA SelAssetsKept ==
  ASSUME SelTypeInv, SelAssets,
         \A x \in Requests : SelHolds(selReq'[x]) =>
              /\ selReq'[x].op = selReq[x].op /\ selReq'[x].step = selReq[x].step
              /\ selReq'[x].source = selReq[x].source
              /\ selReq'[x].keys = selReq[x].keys /\ selReq'[x].found = selReq[x].found,
         \A s \in Source, k \in Keys1 : selAsset'[s][k] \in {selAsset[s][k], 0}
  PROVE  SelAssets'
<1>1. ASSUME NEW x \in Requests, SelHolds(selReq'[x])
      PROVE  SelHolds(selReq[x]) /\ selReq'[x].source = selReq[x].source
  BY <1>1 DEF SelHolds
<1>2. \A r, x \in Requests :
        SelHolds(selReq'[r]) /\ SelHolds(selReq'[x]) /\ selReq'[r].source = selReq'[x].source => r = x
  BY <1>1 DEF SelAssets
<1>3. ASSUME NEW x \in Requests, selReq'[x].op = "assets", selReq'[x].step = "write",
             NEW k \in Sel!Missing(selReq'[x])
      PROVE  selAsset'[selReq'[x].source][k] = 0
  <2>1. /\ selReq[x].op = "assets" /\ selReq[x].step = "write" /\ selReq'[x].source = selReq[x].source
        /\ k \in Sel!Missing(selReq[x])
    BY <1>3 DEF SelHolds, Sel!Missing
  <2>2. selReq[x].source \in Source /\ k \in Keys1
    BY <2>1 DEF SelTypeInv, SelFits, Sel!RequestStates, Sel!Missing
  <2>. QED
    BY <2>1, <2>2 DEF SelAssets, SelFound
<1>4. Sel!NoDuplicateProduct'
  BY DEF SelAssets, Sel!NoDuplicateProduct
<1>5. \A x \in Requests : SelFound(selReq[x])'
  BY <1>3 DEF SelFound
<1>. QED
  BY <1>2, <1>4, <1>5 DEF SelAssets, SelHolds

\* Only one sync of a source has locked it.
LEMMA SelLock ==
  ASSUME SelTypeInv, SelAssets, NEW r \in Requests, Sel!LockSource(r)
  PROVE  SelAssets'
<1>1. /\ selReq' = [selReq EXCEPT ![r].step = "find"] /\ UNCHANGED selAsset
      /\ \A x \in Requests : SelHolds(selReq[x]) => selReq[x].source # selReq[r].source
  BY DEF Sel!LockSource, Sel!Move, SelHolds
<1>2. /\ selReq'[r].source = selReq[r].source /\ selReq'[r].step = "find"
      /\ \A x \in Requests \ {r} : selReq'[x] = selReq[x]
  BY <1>1 DEF SelTypeInv, Sel!TypeOK, SelFits, Sel!RequestStates
<1>3. ASSUME NEW x \in Requests, NEW y \in Requests, SelHolds(selReq'[x]), SelHolds(selReq'[y]),
             selReq'[x].source = selReq'[y].source
      PROVE  x = y
  BY <1>1, <1>2, <1>3 DEF SelAssets
<1>4. \A x \in Requests : SelFound(selReq[x])'
  BY <1>1, <1>2 DEF SelAssets, SelFound
<1>5. Sel!NoDuplicateProduct'
  BY <1>1 DEF SelAssets, Sel!NoDuplicateProduct
<1>. QED
  BY <1>3, <1>4, <1>5 DEF SelAssets, SelHolds

LEMMA SelFind ==
  ASSUME Sel!SelectionsAssumption, SelTypeInv, SelAssets, NEW r \in Requests, Sel!FindAssets(r)
  PROVE  SelAssets'
<1>1. UNCHANGED selAsset /\ SelHolds(selReq[r])
  BY DEF Sel!FindAssets, Sel!At, SelHolds
<1>2. PICK found \in SUBSET Keys1 :
        /\ selReq' = [selReq EXCEPT ![r] = [selReq[r] EXCEPT !.step = "write", !.found = found]]
        /\ \A k \in selReq[r].keys : Like1[k] \cap found = {} => selAsset[selReq[r].source][k] = 0
  BY SelLooksUp
<1> DEFINE q == [selReq[r] EXCEPT !.step = "write", !.found = found]
<1>3. /\ q.op = selReq[r].op /\ q.source = selReq[r].source /\ q.keys = selReq[r].keys
      /\ q.found = found
  BY DEF SelTypeInv, SelFits, Sel!RequestStates
<1>4. selReq'[r] = q /\ \A x \in Requests \ {r} : selReq'[x] = selReq[x]
  BY <1>2 DEF SelTypeInv, Sel!TypeOK
<1> HIDE DEF q
<1>5. ASSUME NEW x \in Requests, NEW y \in Requests, SelHolds(selReq'[x]), SelHolds(selReq'[y]),
             selReq'[x].source = selReq'[y].source
      PROVE  x = y
  BY <1>1, <1>3, <1>4, <1>5 DEF SelAssets
<1>6. ASSUME NEW x \in Requests PROVE SelFound(selReq[x])'
  <2>1. CASE x = r
    BY <1>1, <1>2, <1>3, <1>4, <2>1 DEF SelFound, Sel!Missing
  <2>2. CASE x # r
    BY <1>1, <1>4, <2>2 DEF SelAssets, SelFound
  <2>. QED
    BY <2>1, <2>2
<1>7. Sel!NoDuplicateProduct'
  BY <1>1 DEF SelAssets, Sel!NoDuplicateProduct
<1>. QED
  BY <1>5, <1>6, <1>7 DEF SelAssets, SelHolds

LEMMA SelStore ==
  ASSUME Sel!SelectionsAssumption, SelTypeInv, SelAssets, NEW r \in Requests, Sel!StoreAssets(r)
  PROVE  SelAssets'
<1>1. /\ SelHolds(selReq[r]) /\ selReq[r].op = "assets" /\ selReq[r].step = "write"
      /\ selReq' = [selReq EXCEPT ![r] = Sel!Idle]
  BY DEF Sel!StoreAssets, Sel!At, SelHolds
<1>2. selReq'[r] = Sel!Idle /\ ~SelHolds(Sel!Idle) /\ \A x \in Requests \ {r} : selReq'[x] = selReq[x]
  BY <1>1 DEF SelTypeInv, Sel!TypeOK, SelHolds, Sel!Idle
<1>3. \A x, y \in Requests :
        SelHolds(selReq'[x]) /\ SelHolds(selReq'[y]) /\ selReq'[x].source = selReq'[y].source => x = y
  BY <1>2 DEF SelAssets
<1>4. ASSUME NEW x \in Requests, selReq'[x].op = "assets", selReq'[x].step = "write",
             NEW k \in Sel!Missing(selReq'[x])
      PROVE  selAsset'[selReq'[x].source][k] = 0
  <2>1. x # r /\ selReq'[x] = selReq[x] /\ SelHolds(selReq[x])
    BY <1>2, <1>4 DEF SelHolds
  <2>2. selReq[x].source \in Source \ {selReq[r].source} /\ k \in Keys1
    BY <1>1, <1>4, <2>1 DEF SelAssets, SelTypeInv, SelFits, Sel!RequestStates, Sel!Missing
  <2>3. selAsset[selReq[x].source][k] = 0
    BY <1>4, <2>1 DEF SelAssets, SelFound
  <2>. QED
    BY <2>1, <2>2, <2>3, SelStored
<1>5. ASSUME NEW s \in Source, NEW k \in Keys1 PROVE selAsset'[s][k] <= 1
  <2>1. selAsset[s][k] <= 1
    BY DEF SelAssets, Sel!NoDuplicateProduct
  <2>2. CASE s # selReq[r].source
    BY <2>1, <2>2, SelStored
  <2>3. CASE s = selReq[r].source
    <3>1. k \in Sel!Missing(selReq[r]) => selAsset[s][k] = 0
      BY <1>1, <2>3 DEF SelAssets, SelFound
    <3>2. PICK new \in SUBSET Sel!Missing(selReq[r]) :
            selAsset'[s][k] = IF k \in new THEN selAsset[s][k] + 1 ELSE selAsset[s][k]
      BY <2>3, SelStored
    <3>. QED
      BY <2>1, <3>1, <3>2
  <2>. QED
    BY <2>2, <2>3
<1>. QED
  BY <1>3, <1>4, <1>5 DEF SelAssets, SelHolds, SelFound, Sel!NoDuplicateProduct

LEMMA SelAssetsNext ==
  ASSUME Sel!SelectionsAssumption, SelTypeInv, SelAssets, [Sel!Next]_(Sel!vars)
  PROVE  SelAssets'
<1>1. ASSUME \A x \in Requests : SelHolds(selReq'[x]) =>
                /\ selReq'[x].op = selReq[x].op /\ selReq'[x].step = selReq[x].step
                /\ selReq'[x].source = selReq[x].source
                /\ selReq'[x].keys = selReq[x].keys /\ selReq'[x].found = selReq[x].found,
             UNCHANGED selAsset
      PROVE  SelAssets'
  BY <1>1, SelAssetsKept
<1>2. selReq \in [Requests -> Sel!RequestStates]
  BY DEF SelTypeInv, Sel!TypeOK
<1>3. ASSUME NEW r \in Requests, NEW q, ~SelHolds(q), selReq' = [selReq EXCEPT ![r] = q]
      PROVE  \A x \in Requests : SelHolds(selReq'[x]) => selReq'[x] = selReq[x]
  BY <1>2, <1>3
<1>4. ASSUME NEW r \in Requests, NEW s, Sel!Overtake(r, s)
      PROVE  \A x \in Requests : SelHolds(selReq'[x]) => selReq'[x] = selReq[x]
  <2>1. ASSUME NEW x \in Requests, SelHolds(selReq'[x]) PROVE selReq'[x] = selReq[x]
    <3> DEFINE p == [selReq[x] EXCEPT !.stale = TRUE]
    <3>1. \/ selReq'[x] = Sel!Idle \/ selReq'[x] = selReq[x]
          \/ selReq'[x] = p /\ selReq[x].op \in {"available", "select", "remove"}
      BY <1>4 DEF Sel!Overtake
    <3>2. p.op = selReq[x].op
      BY <1>2 DEF Sel!RequestStates
    <3> HIDE DEF p
    <3>. QED
      BY <2>1, <3>1, <3>2 DEF SelHolds, Sel!Idle
  <2>. QED
    BY <2>1
<1>5. ASSUME NEW r \in Requests, Sel!Step(r) PROVE SelAssets'
  <2>1. CASE \E s \in Source : Sel!OpenAvailable(r, s) \/ Sel!OpenAssets(r, s)
    BY <1>1, <1>3, <2>1 DEF Sel!OpenAvailable, Sel!OpenAssets, Sel!Idle, SelHolds
  <2>2. CASE \E i \in Rows1, op \in {"select", "remove"} : Sel!OpenChange(r, op, i)
    BY <1>1, <1>3, <2>2 DEF Sel!OpenChange, Sel!Idle, SelHolds
  <2>3. CASE Sel!StoreAvailable(r)
    BY <1>1, <1>4, <2>3 DEF Sel!StoreAvailable
  <2>4. CASE Sel!UpdateSelection(r)
    <3>1. [selReq[r] EXCEPT !.step = "write"].op \in {"select", "remove"}
      BY <1>2, <2>4 DEF Sel!UpdateSelection, Sel!RequestStates
    <3>. QED
      BY <1>1, <1>3, <2>4, <3>1 DEF Sel!UpdateSelection, Sel!Move, SelHolds
  <2>5. CASE Sel!CommitSelect(r)
    BY <1>1, <1>4, <2>5 DEF Sel!CommitSelect
  <2>6. CASE Sel!CommitRemove(r)
    <3>1. \A s \in Source, k \in Keys1 : selAsset'[s][k] \in {selAsset[s][k], 0}
      BY <2>6, SelPurge DEF Sel!CommitRemove
    <3>. QED
      BY <1>4, <2>6, <3>1, SelAssetsKept DEF Sel!CommitRemove
  <2>7. CASE Sel!Abort(r)
    BY <1>1, <1>3, <2>7 DEF Sel!Abort, Sel!Idle, SelHolds
  <2>. QED
    BY <1>5, <2>1, <2>2, <2>3, <2>4, <2>5, <2>6, <2>7, SelLock, SelFind, SelStore DEF Sel!Step
<1>6. ASSUME NEW s \in Source, Sel!SyncRead(s) PROVE SelAssets'
  <2>1. \A x \in Requests : selReq'[x] \in {selReq[x], [selReq[x] EXCEPT !.passed = TRUE]}
    BY <1>6 DEF Sel!SyncRead
  <2>2. ASSUME NEW x \in Requests
        PROVE  /\ selReq'[x].op = selReq[x].op /\ selReq'[x].step = selReq[x].step
               /\ selReq'[x].source = selReq[x].source
               /\ selReq'[x].keys = selReq[x].keys /\ selReq'[x].found = selReq[x].found
    BY <1>2, <2>1 DEF Sel!RequestStates
  <2>. QED
    BY <1>1, <1>6, <2>2 DEF Sel!SyncRead
<1>7. CASE UNCHANGED Sel!vars
  BY <1>1, <1>7 DEF Sel!vars
<1>. QED
  BY <1>1, <1>5, <1>6, <1>7 DEF Sel!Next, Sel!FetchCatalogue, Sel!EndRefresh, Sel!SyncGivesUp,
                                Sel!UpstreamChanges

-----------------------------------------------------------------------------
(* Selections: what is selected is fetched.                                 *)

\* A request that goes on has been told no less than before.
LEMMA SelToldStill ==
  ASSUME NEW q, SelTold(q), q \in Sel!RequestStates, NEW p,
         p.op = q.op, p.step = q.step, p.source = q.source, p.id = q.id, p.keys = q.keys,
         ~p.passed => ~q.passed,
         lapsed \subseteq lapsed', q.source \in due => q.source \in due',
         run'[q.source] \in {run[q.source], None},
         q.op \in {"select", "remove"} /\ q.id \in Sel!Live' => q.id \in Sel!Live
  PROVE  SelTold(p)'
  BY DEF SelTold

\* What makes an image that is selected in t one that is going to be fetched.
SelComes(t, k) ==
    \/ <<t, k>> \in lapsed \/ t \in due \/ \E l \in Like1[k] : selAsset[t][l] > 0
    \/ run[t] # None /\ k \in run[t]

\* Every step but the sync's keeps what has been selected told: no selection is
\* added, no sync ends, and no asset goes.
LEMMA SelFetchedKept ==
  ASSUME Sel!SelectionsAssumption, SelFetched,
         \A t \in Source : Sel!Selected(t)' \subseteq Sel!Selected(t),
         \A t \in Source, k \in Keys1 : selAsset[t][k] > 0 => selAsset'[t][k] > 0,
         \A t \in Source : Sel!Selected(t) \in SUBSET Keys1,
         UNCHANGED run, lapsed \subseteq lapsed', due \subseteq due',
         selCrossed \subseteq selCrossed', missed \subseteq missed'
  PROVE  Sel!SelectedIsFetched'
<1>. SUFFICES ASSUME NEW t \in Source \ (selCrossed' \cup missed'), NEW k \in Sel!Selected(t)'
              PROVE  SelComes(t, k)'
  BY DEF Sel!SelectedIsFetched, SelComes
<1>1. k \in Sel!Selected(t) /\ k \in Keys1 /\ t \notin selCrossed \cup missed
  OBVIOUS
<1>2. SelComes(t, k)
  BY <1>1 DEF SelFetched, Sel!SelectedIsFetched, SelComes
<1>3. Like1[k] \subseteq Keys1
  BY <1>1 DEF Sel!SelectionsAssumption
<1>. QED
  BY <1>1, <1>2, <1>3 DEF SelComes

LEMMA SelSelectedKeys ==
  ASSUME Sel!SelectionsAssumption, Sel!TypeOK
  PROVE  \A t \in Source : Sel!Selected(t) \in SUBSET Keys1
  BY SelLive DEF Sel!Selected, Sel!RowsOf, Sel!Live, Sel!SelectionRows

\* A row that a request has seen and that is gone does not come back.
LEMMA SelGoneStays ==
  ASSUME Sel!SelectionsAssumption, SelTypeInv, NEW s, SelOnly(s), NEW x \in Requests,
         selReq[x].op \in {"select", "remove"}
  PROVE  selReq[x].id \in Sel!Live' => selReq[x].id \in Sel!Live
<1>1. selReq[x].id \in Rows1 /\ row[selReq[x].id] # None
  BY SelOwnRow
<1>. QED
  BY <1>1 DEF SelOnly, Sel!Live

LEMMA SelToldAfterCommit ==
  ASSUME Sel!SelectionsAssumption, SelTypeInv, SelFetched, NEW r \in Requests, NEW s,
         Sel!Overtake(r, s), SelOnly(s), UNCHANGED <<run, due, lapsed>>
  PROVE  \A x \in Requests : SelTold(selReq[x])'
<1>1. ASSUME NEW x \in Requests PROVE SelTold(selReq[x])'
  <2> DEFINE p == [selReq[x] EXCEPT !.stale = TRUE]
  <2>1. selReq'[x] \in {Sel!Idle, selReq[x], p}
    BY DEF Sel!Overtake
  <2>2. /\ p.op = selReq[x].op /\ p.step = selReq[x].step /\ p.source = selReq[x].source
        /\ p.id = selReq[x].id /\ p.keys = selReq[x].keys /\ p.passed = selReq[x].passed
        /\ selReq[x] \in Sel!RequestStates /\ SelTold(selReq[x])
    BY DEF SelTypeInv, Sel!TypeOK, Sel!RequestStates, SelFetched
  <2> HIDE DEF p
  <2>3. selReq[x].op \in {"select", "remove"} /\ selReq[x].id \in Sel!Live' =>
          selReq[x].id \in Sel!Live
    BY SelGoneStays
  <2>4. \A a : a \in {selReq[x], p} => SelTold(a)'
    BY <2>2, <2>3, SelToldStill
  <2>5. CASE selReq'[x] = Sel!Idle
    BY <2>5 DEF SelTold, Sel!Idle
  <2>6. CASE selReq'[x] \in {selReq[x], p}
    BY <2>4, <2>6 DEF SelTold
  <2>. QED
    BY <2>1, <2>5, <2>6
<1>. QED
  BY <1>1

LEMMA SelFetchedStore ==
  ASSUME Sel!SelectionsAssumption, SelRowsInv, SelFetched, NEW r \in Requests, Sel!StoreAvailable(r)
  PROVE  SelFetched'
<1>. PICK s : s = selReq[r].source
  OBVIOUS
<1>1. /\ Sel!Overtake(r, s) /\ Sel!Crossed(r)
      /\ UNCHANGED <<upstream, lapsed, catalogue, selAsset, due, run, wanted, missed>>
  BY DEF Sel!StoreAvailable
<1>2. SelOnly(s) /\ \A i \in Sel!SelectedRows' : i \in Sel!SelectedRows /\ row'[i] = row[i]
  BY SelStoreRows DEF SelRowsInv
<1>3. \A x \in Requests : SelTold(selReq[x])'
  BY <1>1, <1>2, SelToldAfterCommit DEF SelRowsInv
<1>4. ASSUME NEW t \in Source PROVE Sel!Selected(t)' \subseteq Sel!Selected(t)
  <2>1. \A i \in Sel!RowsOf(t)' \cap Sel!SelectedRows' : i \in Sel!RowsOf(t) \cap Sel!SelectedRows
    BY <1>2 DEF Sel!RowsOf, Sel!Live, Sel!SelectedRows
  <2>. QED
    BY <1>2, <2>1 DEF Sel!Selected
<1>5. selCrossed \subseteq selCrossed'
  BY <1>1 DEF Sel!Crossed
<1>6. Sel!SelectedIsFetched'
  BY <1>1, <1>4, <1>5, SelFetchedKept, SelSelectedKeys DEF SelRowsInv, SelTypeInv
<1>. QED
  BY <1>1, <1>3, <1>6 DEF SelFetched

\* The sync that the request has triggered is due, or it has come too early.
LEMMA SelFetchedSelect ==
  ASSUME Sel!SelectionsAssumption, SelRowsInv, SelFetched, NEW r \in Requests, Sel!CommitSelect(r)
  PROVE  SelFetched'
<1>. PICK s, i : s = selReq[r].source /\ i = selReq[r].id
  OBVIOUS
<1>1. /\ Sel!Write(i, TRUE) /\ Sel!Overtake(r, s) /\ Sel!Crossed(r)
      /\ missed' = IF selReq[r].passed THEN missed \cup {s} ELSE missed
      /\ UNCHANGED <<upstream, lapsed, catalogue, selAsset, due, run>>
      /\ selReq[r].op = "select" /\ selReq[r].step = "write"
  BY DEF Sel!CommitSelect, Sel!Missed, Sel!At
<1>2. s \in Source /\ i \in Rows1 /\ (i \in Sel!Live => row[i].source = s)
  BY <1>1, SelOwnRow DEF SelRowsInv
<1>3. /\ SelOnly(s)
      /\ \A t : Sel!RowsOf(t)' = Sel!RowsOf(t)
      /\ \A j \in Sel!Live : row'[j].key = row[j].key
      /\ Sel!SelectedRows' \subseteq Sel!SelectedRows \cup {i}
  <2>1. Sel!SelectedRows' = IF i \in Sel!Live /\ TRUE THEN Sel!SelectedRows \cup {i} ELSE Sel!SelectedRows \ {i}
    BY <1>1, <1>2, SelWriteRows DEF SelRowsInv
  <2>. QED
    BY <1>1, <1>2, <2>1, SelWriteRows DEF SelRowsInv
<1>4. \A x \in Requests : SelTold(selReq[x])'
  BY <1>1, <1>3, SelToldAfterCommit DEF SelRowsInv
<1>5. selCrossed \subseteq selCrossed'
  BY <1>1 DEF Sel!Crossed
<1>6. Sel!SelectedIsFetched'
  <2>. SUFFICES ASSUME NEW t \in Source \ (selCrossed' \cup missed'), NEW k \in Sel!Selected(t)'
                PROVE  SelComes(t, k)
    BY <1>1 DEF Sel!SelectedIsFetched, SelComes
  <2>1. PICK j \in Sel!RowsOf(t) \cap Sel!SelectedRows' : row'[j].key = k
    BY <1>3 DEF Sel!Selected
  <2>2. j \in Sel!Live /\ row[j].key = k /\ row[j].source = t
    BY <1>3, <2>1 DEF Sel!RowsOf
  <2>3. CASE j \in Sel!SelectedRows
    <3>1. k \in Sel!Selected(t)
      BY <2>1, <2>2, <2>3 DEF Sel!Selected
    <3>2. t \in Source \ (selCrossed \cup missed)
      BY <1>1, <1>5
    <3>. QED
      BY <3>1, <3>2 DEF SelFetched, Sel!SelectedIsFetched, SelComes
  <2>4. CASE j = i
    <3>1. t = s /\ i \in Sel!Live /\ ~selReq[r].passed
      BY <1>1, <1>2, <2>2, <2>4
    <3>. QED
      BY <1>1, <3>1 DEF SelFetched, SelTold, SelComes
  <2>. QED
    BY <1>3, <2>1, <2>3, <2>4
<1>. QED
  BY <1>1, <1>4, <1>6 DEF SelFetched

\* What goes with an image that contains the name of another is fetched again: a
\* removal triggers a sync too.  If its row has gone, it has been overtaken.
LEMMA SelFetchedRemove ==
  ASSUME Sel!SelectionsAssumption, SelRowsInv, SelFetched, NEW r \in Requests, Sel!CommitRemove(r)
  PROVE  SelFetched'
<1>. PICK s, i : s = selReq[r].source /\ i = selReq[r].id
  OBVIOUS
<1>1. /\ Sel!Write(i, FALSE) /\ Sel!Overtake(r, s) /\ Sel!Purge(s, selReq[r].keys)
      /\ selCrossed' = IF selReq[r].stale THEN selCrossed \cup {s} ELSE selCrossed
      /\ missed' = IF selReq[r].passed THEN missed \cup {s} ELSE missed
      /\ UNCHANGED <<upstream, lapsed, catalogue, due, run>>
      /\ selReq[r].op = "remove" /\ selReq[r].step = "write"
  BY DEF Sel!CommitRemove, Sel!Missed, Sel!Crossed, Sel!At
<1>2. /\ s \in Source /\ i \in Rows1 /\ (i \in Sel!Live => row[i].source = s)
      /\ i \notin Sel!Live => selReq[r].stale
  BY <1>1, SelOwnRow DEF SelRowsInv
<1>3. /\ SelOnly(s)
      /\ \A t : Sel!RowsOf(t)' = Sel!RowsOf(t)
      /\ \A j \in Sel!Live : row'[j].key = row[j].key
      /\ Sel!SelectedRows' \subseteq Sel!SelectedRows
  <2>1. Sel!SelectedRows' = IF i \in Sel!Live /\ FALSE THEN Sel!SelectedRows \cup {i} ELSE Sel!SelectedRows \ {i}
    BY <1>1, <1>2, SelWriteRows DEF SelRowsInv
  <2>. QED
    BY <1>1, <1>2, <2>1, SelWriteRows DEF SelRowsInv
<1>4. \A x \in Requests : SelTold(selReq[x])'
  BY <1>1, <1>3, SelToldAfterCommit DEF SelRowsInv
<1>5. Sel!SelectedIsFetched'
  <2>. SUFFICES ASSUME NEW t \in Source \ (selCrossed' \cup missed'), NEW k \in Sel!Selected(t)'
                PROVE  SelComes(t, k)'
    BY DEF Sel!SelectedIsFetched, SelComes
  <2>1. CASE t = s
    <3>1. ~selReq[r].stale /\ ~selReq[r].passed
      BY <1>1, <2>1
    <3>2. s \in due
      BY <1>1, <1>2, <3>1 DEF SelFetched, SelTold
    <3>. QED
      BY <1>1, <2>1, <3>2 DEF SelComes
  <2>2. CASE t # s
    <3>1. k \in Sel!Selected(t)
      BY <1>3, <2>2, SelOthers DEF SelRowsInv, SelTypeInv
    <3>2. SelComes(t, k)
      BY <1>1, <3>1 DEF SelFetched, Sel!SelectedIsFetched, SelComes
    <3>3. selAsset'[t] = selAsset[t]
      BY <1>1, <2>2, SelPurge DEF SelRowsInv
    <3>. QED
      BY <1>1, <3>2, <3>3 DEF SelComes
  <2>. QED
    BY <2>1, <2>2
<1>. QED
  BY <1>1, <1>4, <1>5 DEF SelFetched

\* The sync reads what is selected; the changes that are not committed have come
\* too late for it, and what upstream has is what it will ask for.
LEMMA SelFetchedSync ==
  ASSUME Sel!SelectionsAssumption, SelRowsInv, SelFetched, NEW s \in Source, Sel!SyncRead(s)
  PROVE  SelFetched'
<1>1. /\ run[s] = None /\ run' = [run EXCEPT ![s] = Sel!Selected(s)] /\ due' = due \ {s}
      /\ lapsed' = lapsed \ ({s} \X upstream[s]) /\ missed' = missed \ {s}
      /\ UNCHANGED <<row, upstream, selAsset, selCrossed>>
  BY DEF Sel!SyncRead
<1>2. run'[s] = Sel!Selected(s) /\ \A t \in Source \ {s} : run'[t] = run[t]
  BY <1>1 DEF SelRowsInv, SelTypeInv, Sel!TypeOK
<1>3. ASSUME NEW x \in Requests PROVE SelTold(selReq[x])'
  <2> DEFINE p == [selReq[x] EXCEPT !.passed = TRUE]
  <2>1. /\ p.op = selReq[x].op /\ p.step = selReq[x].step /\ p.source = selReq[x].source
        /\ p.id = selReq[x].id /\ p.keys = selReq[x].keys /\ p.passed
        /\ selReq[x] \in Sel!RequestStates /\ SelTold(selReq[x])
        /\ selReq[x].op # "idle" => selReq[x].source \in Source
    BY DEF SelRowsInv, SelTypeInv, SelFits, Sel!RequestStates, SelFetched
  <2>2. \/ selReq'[x] = p
        \/ /\ selReq'[x] = selReq[x]
           /\ \/ selReq[x].source # s
              \/ /\ selReq[x].op # "assets"
                 /\ ~(selReq[x].op \in {"select", "remove"} /\ selReq[x].step = "write")
    BY DEF Sel!SyncRead
  <2> HIDE DEF p
  <2>3. CASE selReq'[x] = p
    BY <2>1, <2>3 DEF SelTold
  <2>4. CASE selReq'[x] = selReq[x] /\ selReq[x].source # s
    <3>1. Sel!Live' = Sel!Live
      BY <1>1 DEF Sel!Live
    <3>. QED
      BY <1>1, <1>2, <2>1, <2>4, <3>1 DEF SelTold
  <2>5. CASE /\ selReq'[x] = selReq[x] /\ selReq[x].op # "assets"
             /\ ~(selReq[x].op \in {"select", "remove"} /\ selReq[x].step = "write")
    BY <2>5 DEF SelTold
  <2>. QED
    BY <2>2, <2>3, <2>4, <2>5
<1>4. Sel!SelectedIsFetched'
  <2>. SUFFICES ASSUME NEW t \in Source \ (selCrossed' \cup missed'), NEW k \in Sel!Selected(t)'
                PROVE  SelComes(t, k)'
    BY DEF Sel!SelectedIsFetched, SelComes
  <2>0. k \in Sel!Selected(t) /\ selCrossed' = selCrossed
    BY <1>1, SelUnchanged
  <2>1. CASE t = s
    <3>1. Sel!Selected(s) \in SUBSET Keys1
      BY SelSelectedKeys DEF SelRowsInv, SelTypeInv
    <3>2. Sel!Selected(s) # None
      BY <3>1 DEF Sel!SelectionsAssumption
    <3>. QED
      BY <1>2, <2>0, <2>1, <3>2 DEF SelComes
  <2>2. CASE t # s
    <3>1. SelComes(t, k)
      BY <1>1, <2>0, <2>2 DEF SelFetched, Sel!SelectedIsFetched, SelComes
    <3>. QED
      BY <1>1, <1>2, <2>2, <3>1 DEF SelComes
  <2>. QED
    BY <2>1, <2>2
<1>5. \A t \in Source : \A k \in Keys1 \ upstream'[t] : <<t, k>> \in lapsed'
  BY <1>1 DEF SelFetched
<1>. QED
  BY <1>3, <1>4, <1>5 DEF SelFetched

\* A sync that ends with nothing stored leaves the source to the next one.
LEMMA SelFetchedGivesUp ==
  ASSUME SelRowsInv, SelFetched, NEW s \in Source, Sel!SyncGivesUp(s)
  PROVE  SelFetched'
<1>1. /\ run' = [run EXCEPT ![s] = None] /\ missed' = missed \cup {s}
      /\ UNCHANGED <<row, upstream, lapsed, selAsset, due, selReq, selCrossed>>
  BY DEF Sel!SyncGivesUp
<1>2. run'[s] = None /\ \A t \in Source \ {s} : run'[t] = run[t]
  BY <1>1 DEF SelRowsInv, SelTypeInv, Sel!TypeOK
<1>3. ASSUME NEW x \in Requests PROVE SelTold(selReq[x])'
  <2>1. Sel!Live' = Sel!Live /\ SelTold(selReq[x])
    BY <1>1 DEF Sel!Live, SelFetched
  <2>2. selReq[x].op = "assets" => selReq[x].source \in Source
    BY DEF SelRowsInv, SelTypeInv, SelFits
  <2>. QED
    BY <1>1, <1>2, <2>1, <2>2 DEF SelTold
<1>4. Sel!SelectedIsFetched'
  <2>. SUFFICES ASSUME NEW t \in Source \ (selCrossed' \cup missed'), NEW k \in Sel!Selected(t)'
                PROVE  SelComes(t, k)'
    BY DEF Sel!SelectedIsFetched, SelComes
  <2>0. k \in Sel!Selected(t) /\ selCrossed' = selCrossed
    BY <1>1, SelUnchanged
  <2>1. t # s /\ SelComes(t, k)
    BY <1>1, <2>0 DEF SelFetched, Sel!SelectedIsFetched, SelComes
  <2>. QED
    BY <1>1, <1>2, <2>1 DEF SelComes
<1>. QED
  BY <1>1, <1>3, <1>4 DEF SelFetched

\* The sync has stored what it has read of what upstream had.
LEMMA SelFetchedAssets ==
  ASSUME Sel!SelectionsAssumption, SelRowsInv, SelFetched, NEW r \in Requests, Sel!StoreAssets(r)
  PROVE  SelFetched'
<1> DEFINE q == selReq[r]
           s == q.source
<1>1. /\ q.op = "assets" /\ selReq' = [selReq EXCEPT ![r] = Sel!Idle]
      /\ \A k \in q.found : selAsset[s][k] > 0
      /\ UNCHANGED <<row, upstream, lapsed, due, selCrossed, missed>>
  BY DEF Sel!StoreAssets, Sel!At
<1>2. /\ s \in Source
      /\ \/ run' = run
         \/ ~q.passed /\ run'[s] = None
      /\ \A t \in Source \ {s} : run'[t] = run[t] /\ selAsset'[t] = selAsset[t]
  BY SelStored DEF SelRowsInv
<1>3. PICK new \in SUBSET Sel!Missing(q) :
        /\ \A k \in Sel!Missing(q) : Like1[k] \cap new # {}
        /\ \A k \in Keys1 : selAsset'[s][k] = IF k \in new THEN selAsset[s][k] + 1 ELSE selAsset[s][k]
  BY SelStored DEF SelRowsInv
<1>4. selAsset \in [Source -> [Keys1 -> Nat]] /\ selReq \in [Requests -> Sel!RequestStates]
  BY DEF SelRowsInv, SelTypeInv, Sel!TypeOK
<1>5. \A t \in Source, k \in Keys1 : selAsset[t][k] > 0 => selAsset'[t][k] > 0
  <2>. TAKE t \in Source, k \in Keys1
  <2>1. selAsset[t][k] \in Nat
    BY <1>4
  <2>2. CASE t = s
    BY <1>3, <2>1, <2>2
  <2>3. CASE t # s
    BY <1>2, <2>3
  <2>. QED
    BY <2>2, <2>3
<1>6. ASSUME NEW k \in q.keys PROVE \E l \in Like1[k] : selAsset'[s][l] > 0
  <2>1. k \in Keys1 /\ Like1[k] \subseteq Keys1
    BY <1>4 DEF Sel!RequestStates, Sel!SelectionsAssumption
  <2>2. CASE k \in Sel!Missing(q)
    <3>1. PICK l \in Like1[k] : l \in new
      BY <1>3, <2>2
    <3>2. selAsset[s][l] \in Nat /\ selAsset'[s][l] = selAsset[s][l] + 1
      BY <1>2, <1>3, <1>4, <2>1, <3>1
    <3>. QED
      BY <3>1, <3>2
  <2>3. CASE k \notin Sel!Missing(q)
    <3>1. PICK l \in Like1[k] : l \in q.found
      BY <2>3 DEF Sel!Missing
    <3>. QED
      BY <1>1, <1>2, <1>5, <2>1, <3>1
  <2>. QED
    BY <2>2, <2>3
<1>7. ASSUME NEW x \in Requests PROVE SelTold(selReq[x])'
  <2>1. CASE x = r
    BY <1>1, <1>4, <2>1 DEF SelTold, Sel!Idle
  <2>2. CASE x # r
    <3>1. selReq'[x] = selReq[x] /\ SelTold(selReq[x]) /\ Sel!Live' = Sel!Live
          /\ (selReq[x].op # "idle" => selReq[x].source \in Source)
      BY <1>1, <1>4, <2>2 DEF SelFetched, Sel!Live, SelRowsInv, SelTypeInv, SelFits
    <3>2. selReq[x].op # "idle" => run'[selReq[x].source] \in {run[selReq[x].source], None}
      BY <1>2, <3>1
    <3>. QED
      BY <1>1, <3>1, <3>2 DEF SelTold
  <2>. QED
    BY <2>1, <2>2
<1>8. Sel!SelectedIsFetched'
  <2>. SUFFICES ASSUME NEW t \in Source \ (selCrossed \cup missed), NEW k \in Sel!Selected(t)
                PROVE  SelComes(t, k)'
    BY <1>1, SelUnchanged DEF Sel!SelectedIsFetched, SelComes
  <2>1. SelComes(t, k)
    BY DEF SelFetched, Sel!SelectedIsFetched, SelComes
  <2>2. k \in Keys1 /\ Like1[k] \subseteq Keys1
    BY SelSelectedKeys DEF SelRowsInv, SelTypeInv, Sel!SelectionsAssumption
  <2>3. (\E l \in Like1[k] : selAsset[t][l] > 0) => \E l \in Like1[k] : selAsset'[t][l] > 0
    BY <1>5, <2>2
  <2>4. CASE run[t] # None /\ k \in run[t]
    <3>1. CASE run'[t] = run[t]
      BY <2>4, <3>1 DEF SelComes
    <3>2. CASE run'[t] # run[t]
      <4>1. t = s /\ ~q.passed
        BY <1>2, <3>2
      <4>2. k \in q.keys \/ <<t, k>> \in lapsed
        BY <1>1, <2>4, <4>1 DEF SelFetched, SelTold
      <4>. QED
        BY <1>1, <1>6, <4>1, <4>2 DEF SelComes
    <3>. QED
      BY <3>1, <3>2
  <2>. QED
    BY <1>1, <2>1, <2>3, <2>4 DEF SelComes
<1>. QED
  BY <1>1, <1>7, <1>8 DEF SelFetched

\* Request r goes on as q, which has been told what it should.
LEMMA SelFetchedMove ==
  ASSUME Sel!SelectionsAssumption, SelTypeInv, SelFetched, NEW r \in Requests, NEW q,
         selReq' = [selReq EXCEPT ![r] = q], SelTold(q)',
         UNCHANGED <<row, upstream, lapsed, selAsset, run, selCrossed, missed>>, due \subseteq due'
  PROVE  SelFetched'
<1>1. Sel!Live' = Sel!Live /\ \A t : Sel!Selected(t)' = Sel!Selected(t)
  BY SelUnchanged
<1>2. ASSUME NEW x \in Requests PROVE SelTold(selReq[x])'
  <2>1. CASE x = r
    <3>1. selReq'[x] = q
      BY <2>1 DEF SelTypeInv, Sel!TypeOK
    <3>. QED
      BY <3>1 DEF SelTold
  <2>2. CASE x # r
    <3>1. selReq'[x] = selReq[x] /\ SelTold(selReq[x])
      BY <2>2 DEF SelTypeInv, Sel!TypeOK, SelFetched
    <3>. QED
      BY <1>1, <3>1 DEF SelTold
  <2>. QED
    BY <2>1, <2>2
<1>3. Sel!SelectedIsFetched'
  BY <1>1, SelFetchedKept, SelSelectedKeys DEF SelTypeInv
<1>. QED
  BY <1>2, <1>3 DEF SelFetched

LEMMA SelFetchedStep ==
  ASSUME Sel!SelectionsAssumption, SelRowsInv, SelFetched, NEW r \in Requests, Sel!Step(r)
  PROVE  SelFetched'
<1>1. SelTypeInv /\ SelFits(selReq[r]) /\ selReq[r] \in Sel!RequestStates /\ SelTold(selReq[r])
  BY DEF SelRowsInv, SelTypeInv, SelFits, SelFetched
<1>2. CASE \E s \in Source : Sel!OpenAvailable(r, s)
  <2>1. PICK s \in Source : Sel!OpenAvailable(r, s)
    BY <1>2
  <2> DEFINE q == [Sel!Idle EXCEPT !.op = "available", !.step = "write", !.source = s,
                               !.keys = catalogue[s], !.seen = Sel!RowsOf(s),
                               !.selected = Sel!RowsOf(s) \cap Sel!SelectedRows]
  <2>2. \E p : selReq' = [selReq EXCEPT ![r] = p] /\ p.op = "available"
    <3>1. selReq' = [selReq EXCEPT ![r] = q] /\ q.op = "available"
      BY <2>1 DEF Sel!OpenAvailable, Sel!Idle
    <3>. QED
      BY <3>1
  <2>3. PICK p : selReq' = [selReq EXCEPT ![r] = p] /\ p.op = "available"
    BY <2>2
  <2>4. SelTold(p)'
    BY <2>3 DEF SelTold
  <2>. QED
    BY <1>1, <2>1, <2>3, <2>4, SelFetchedMove DEF Sel!OpenAvailable
<1>3. CASE \E s \in Source : Sel!OpenAssets(r, s)
  <2>1. PICK s \in Source : Sel!OpenAssets(r, s)
    BY <1>3
  <2>2. PICK p : /\ selReq' = [selReq EXCEPT ![r] = p]
                 /\ p.op = "assets" /\ p.source = s /\ p.keys = run[s] \cap upstream[s]
    <3> DEFINE q == [Sel!Idle EXCEPT !.op = "assets", !.step = "lock", !.source = s,
                                 !.keys = run[s] \cap upstream[s]]
    <3>1. /\ selReq' = [selReq EXCEPT ![r] = q]
          /\ q.op = "assets" /\ q.source = s /\ q.keys = run[s] \cap upstream[s]
      BY <2>1 DEF Sel!OpenAssets, Sel!Idle
    <3>. QED
      BY <3>1
  <2>3. ASSUME NEW k \in run[s], run[s] # None PROVE k \in p.keys \/ <<s, k>> \in lapsed
    BY <2>2, <2>3 DEF SelFetched, SelRowsInv, SelTypeInv, Sel!TypeOK
  <2>4. UNCHANGED <<run, lapsed>>
    BY <2>1 DEF Sel!OpenAssets
  <2>5. SelTold(p)'
    BY <2>2, <2>3, <2>4 DEF SelTold
  <2>. QED
    BY <1>1, <2>1, <2>2, <2>5, SelFetchedMove DEF Sel!OpenAssets
<1>4. CASE \E i \in Rows1, op \in {"select", "remove"} : Sel!OpenChange(r, op, i)
  <2>1. PICK i \in Rows1, op \in {"select", "remove"} : Sel!OpenChange(r, op, i)
    BY <1>4
  <2>2. PICK p : selReq' = [selReq EXCEPT ![r] = p] /\ p.op # "assets" /\ p.step = "check"
    <3> DEFINE q == [Sel!Idle EXCEPT !.op = op, !.source = row[i].source, !.id = i, !.seen = {i},
                                     !.keys = {row[i].key}]
    <3>1. selReq' = [selReq EXCEPT ![r] = q] /\ q.op = op /\ q.step = "check"
      BY <2>1 DEF Sel!OpenChange, Sel!Idle
    <3>. QED
      BY <3>1
  <2>3. SelTold(p)'
    BY <2>2 DEF SelTold
  <2>. QED
    BY <1>1, <2>1, <2>2, <2>3, SelFetchedMove DEF Sel!OpenChange
<1>5. CASE Sel!UpdateSelection(r)
  <2>1. PICK p : /\ selReq' = [selReq EXCEPT ![r] = p] /\ p.op # "assets"
                 /\ p.id = selReq[r].id /\ p.source = selReq[r].source
    <3> DEFINE q == [selReq[r] EXCEPT !.step = "write"]
    <3>1. /\ selReq' = [selReq EXCEPT ![r] = q]
          /\ q.op = selReq[r].op /\ q.id = selReq[r].id /\ q.source = selReq[r].source
          /\ selReq[r].op # "assets"
      BY <1>1, <1>5 DEF Sel!UpdateSelection, Sel!Move, Sel!RequestStates
    <3> HIDE DEF q
    <3>. QED
      BY <3>1
  <2>2. /\ due' = IF selReq[r].id \in Sel!Live THEN due \cup {row[selReq[r].id].source} ELSE due
        /\ selReq[r].id \in Sel!Live => row[selReq[r].id].source = selReq[r].source
        /\ Sel!Live' = Sel!Live
    BY <1>1, <1>5, SelOwnRow DEF Sel!UpdateSelection, Sel!Trigger, Sel!Live
  <2>3. SelTold(p)'
    BY <2>1, <2>2 DEF SelTold
  <2>. QED
    BY <1>1, <1>5, <2>1, <2>2, <2>3, SelFetchedMove DEF Sel!UpdateSelection
<1>6. CASE Sel!LockSource(r) \/ Sel!FindAssets(r)
  <2>1. PICK p : /\ selReq' = [selReq EXCEPT ![r] = p] /\ p.op = "assets" /\ selReq[r].op = "assets"
                 /\ p.source = selReq[r].source /\ p.keys = selReq[r].keys /\ p.passed = selReq[r].passed
    <3>1. CASE Sel!LockSource(r)
      <4> DEFINE q == [selReq[r] EXCEPT !.step = "find"]
      <4>1. /\ selReq' = [selReq EXCEPT ![r] = q] /\ selReq[r].op = "assets"
            /\ q.op = selReq[r].op /\ q.source = selReq[r].source /\ q.keys = selReq[r].keys
            /\ q.passed = selReq[r].passed
        BY <1>1, <3>1 DEF Sel!LockSource, Sel!Move, Sel!At, Sel!RequestStates
      <4> HIDE DEF q
      <4>. QED
        BY <4>1
    <3>2. CASE Sel!FindAssets(r)
      <4>1. PICK found : selReq' = [selReq EXCEPT ![r] =
                                      [selReq[r] EXCEPT !.step = "write", !.found = found]]
        BY <1>1, <3>2, SelLooksUp
      <4> DEFINE q == [selReq[r] EXCEPT !.step = "write", !.found = found]
      <4>2. /\ selReq' = [selReq EXCEPT ![r] = q] /\ selReq[r].op = "assets"
            /\ q.op = selReq[r].op /\ q.source = selReq[r].source /\ q.keys = selReq[r].keys
            /\ q.passed = selReq[r].passed
        BY <1>1, <3>2, <4>1 DEF Sel!FindAssets, Sel!At, Sel!RequestStates
      <4> HIDE DEF q
      <4>. QED
        BY <4>2
    <3>. QED
      BY <1>6, <3>1, <3>2
  <2>2. UNCHANGED <<row, upstream, lapsed, selAsset, run, selCrossed, missed, due>>
    BY <1>6 DEF Sel!LockSource, Sel!FindAssets
  <2>3. SelTold(p)'
    BY <1>1, <2>1, <2>2 DEF SelTold
  <2>. QED
    BY <1>1, <2>1, <2>2, <2>3, SelFetchedMove
<1>7. CASE Sel!Abort(r)
  <2>1. selReq' = [selReq EXCEPT ![r] = Sel!Idle]
    BY <1>7 DEF Sel!Abort
  <2>2. PICK p : p = Sel!Idle
    OBVIOUS
  <2>3. SelTold(p)'
    BY <2>2 DEF SelTold, Sel!Idle
  <2>. QED
    BY <1>1, <1>7, <2>1, <2>2, <2>3, SelFetchedMove DEF Sel!Abort
<1>. QED
  BY <1>2, <1>3, <1>4, <1>5, <1>6, <1>7, SelFetchedStore, SelFetchedSelect, SelFetchedRemove,
     SelFetchedAssets DEF Sel!Step

LEMMA SelFetchedNext ==
  ASSUME Sel!SelectionsAssumption, SelRowsInv, SelFetched, [Sel!Next]_(Sel!vars)
  PROVE  SelFetched'
<1>1. ASSUME UNCHANGED <<row, selAsset, due, run, selReq, selCrossed, missed>>, lapsed \subseteq lapsed',
             \A s \in Source : \A k \in Keys1 \ upstream'[s] : <<s, k>> \in lapsed'
      PROVE  SelFetched'
  <2>1. Sel!Live' = Sel!Live /\ \A t : Sel!Selected(t)' = Sel!Selected(t)
    BY <1>1, SelUnchanged
  <2>2. \A x \in Requests : SelTold(selReq[x])'
    BY <1>1, <2>1 DEF SelFetched, SelTold
  <2>3. Sel!SelectedIsFetched'
    BY <1>1, <2>1, SelFetchedKept, SelSelectedKeys DEF SelRowsInv, SelTypeInv
  <2>. QED
    BY <1>1, <2>2, <2>3 DEF SelFetched
<1>2. ASSUME NEW s \in Source, NEW k \in Keys1, Sel!UpstreamChanges(s, k) PROVE SelFetched'
  <2>1. lapsed' = lapsed \cup ({<<s, k>>} \cap {s} \X upstream[s])
    BY <1>2 DEF Sel!UpstreamChanges
  <2>2. ASSUME NEW t \in Source, NEW l \in Keys1 \ upstream'[t]
        PROVE  l \in upstream[t] => <<t, l>> \in lapsed'
    BY <1>2, <2>1 DEF Sel!UpstreamChanges, SelRowsInv, SelTypeInv, Sel!TypeOK
  <2>3. ASSUME NEW t \in Source, NEW l \in Keys1 \ upstream'[t]
        PROVE  <<t, l>> \in lapsed'
    BY <2>1, <2>2 DEF SelFetched
  <2>. QED
    BY <1>1, <1>2, <2>1, <2>3 DEF Sel!UpstreamChanges
<1>3. CASE UNCHANGED Sel!vars
  BY <1>1, <1>3 DEF Sel!vars, SelFetched
<1>4. ASSUME NEW s \in Source, Sel!FetchCatalogue(s) \/ Sel!EndRefresh(s) PROVE SelFetched'
  BY <1>1, <1>4 DEF Sel!FetchCatalogue, Sel!EndRefresh, SelFetched
<1>. QED
  BY <1>2, <1>3, <1>4, SelFetchedStep, SelFetchedSync, SelFetchedGivesUp DEF Sel!Next

-----------------------------------------------------------------------------
LEMMA SelInit == ASSUME Sel!SelectionsAssumption, Sel!Init PROVE SelInv
<1>1. Sel!TypeOK /\ Sel!Live = {}
  BY SelIdle DEF Sel!Init, Sel!TypeOK, Sel!Live
<1>2. \A r \in Requests : selReq[r] = Sel!Idle
  BY DEF Sel!Init
<1>3. SelTypeInv
  BY <1>1, <1>2, SelIdle DEF SelTypeInv, SelFits, Sel!Idle
<1>4. SelRowsInv
  BY <1>1, <1>3 DEF Sel!Init, SelRowsInv, Sel!ListedOnce, Sel!SelectionIsKept, Sel!RowsOf
<1>5. SelAssets
  BY <1>2 DEF Sel!Init, Sel!Idle, SelAssets, SelHolds, SelFound, Sel!NoDuplicateProduct
<1>6. SelFetched
  BY <1>1, <1>2 DEF Sel!Init, Sel!Idle, SelFetched, SelTold, Sel!SelectedIsFetched, Sel!Selected, Sel!RowsOf
<1>. QED
  BY <1>4, <1>5, <1>6 DEF SelInv

LEMMA SelNext ==
  ASSUME Sel!SelectionsAssumption, SelInv, [Sel!Next]_(Sel!vars) PROVE SelInv'
BY SelRowsNext, SelAssetsNext, SelFetchedNext DEF SelInv, SelRowsInv

LEMMA SelKeeps ==
  ASSUME SelInv
  PROVE  Sel!TypeOK /\ Sel!ListedOnce /\ Sel!SelectionIsKept /\ Sel!NoDuplicateProduct /\ Sel!SelectedIsFetched
BY DEF SelInv, SelRowsInv, SelTypeInv, SelAssets, SelFetched

-----------------------------------------------------------------------------
(* The parts whose proofs are in a module of their own.                     *)

ConfP == INSTANCE SiteConfig_proofs WITH
    Profiles <- SiteProfiles, Values <- SiteValues,
    NewRows <- NewSiteProfiles, Changes <- SiteProfileChanges,
    crossed <- confCrossed, req <- confReq

ProfP == INSTANCE SiteConfig_proofs WITH
    Sites <- {}, NewRows <- NewProfiles, Changes <- ProfileChanges,
    crossed <- confCrossed, req <- confReq

EnrolP == INSTANCE SiteEnrolment_proofs WITH
    LateCalls <- FALSE, row <- siteRow, req <- enrolReq

OneVersionP == INSTANCE ImageIndex_proofs WITH
    Sources <- IndexSources, Versions <- Version,
    asset <- idxAsset, req <- idxReq, crossed <- idxCrossed

TwoVersionsP == INSTANCE ImageIndex_proofs WITH
    Sources <- IndexSources, Requests <- Request,
    asset <- idxAsset, req <- idxReq, crossed <- idxCrossed

LEMMA ConfInit == Conf!Init <=> ConfP!Init
  BY Zenon DEF Conf!Init, Conf!Idle, ConfP!Init, ConfP!Idle

LEMMA ConfNext == [Conf!Next]_(Conf!vars) <=> [ConfP!Next]_(ConfP!vars)
  BY Zenon DEF Conf!Next, Conf!CreateProfile, Conf!siteVars, Conf!DeleteSite, 
        Conf!profileVars, Conf!UserStep, Conf!OpenDelete, Conf!Open, 
        Conf!Idle, Conf!OpenPatch, Conf!CheckProfile, Conf!ProfileExists, 
        Conf!Move, Conf!HasConfig, Conf!ReadConfig, Conf!At, Conf!Merged, 
        Conf!WriteProfile, Conf!Overtake, Conf!Close, Conf!DeleteProfile, 
        Conf!Referenced, Conf!OpenPatchSite, Conf!CheckSite, Conf!WriteSite, 
        Conf!AtRest, Conf!Reporting, Conf!SiteStep, Conf!OpenConfig, 
        Conf!OpenDetails, Conf!TaskStatus, Conf!OpenStatus, Conf!Lock, 
        Conf!Locked, Conf!AnswerConfig, Conf!SaveDetails, Conf!ReadState, 
        Conf!SaveState, Conf!Resets, Conf!Abort, Conf!vars, ConfP!Next, 
        ConfP!CreateProfile, ConfP!siteVars, ConfP!DeleteSite, 
        ConfP!profileVars, ConfP!UserStep, ConfP!OpenDelete, ConfP!Open, 
        ConfP!Idle, ConfP!OpenPatch, ConfP!CheckProfile, ConfP!ProfileExists, 
        ConfP!Move, ConfP!HasConfig, ConfP!ReadConfig, ConfP!At, 
        ConfP!Merged, ConfP!WriteProfile, ConfP!Overtake, ConfP!Close, 
        ConfP!DeleteProfile, ConfP!Referenced, ConfP!OpenPatchSite, 
        ConfP!CheckSite, ConfP!WriteSite, ConfP!AtRest, ConfP!Reporting, 
        ConfP!SiteStep, ConfP!OpenConfig, ConfP!OpenDetails, 
        ConfP!TaskStatus, ConfP!OpenStatus, ConfP!Lock, ConfP!Locked, 
        ConfP!AnswerConfig, ConfP!SaveDetails, ConfP!ReadState, 
        ConfP!SaveState, ConfP!Resets, ConfP!Abort, ConfP!vars

LEMMA ConfTypeOK == Conf!TypeOK <=> ConfP!TypeOK
  BY Zenon DEF Conf!TypeOK, Conf!Rows, Conf!SiteRows, Conf!TaskStatus, 
        Conf!RequestStates, Conf!ProfileOps, Conf!SiteOps, ConfP!TypeOK, 
        ConfP!Rows, ConfP!SiteRows, ConfP!TaskStatus, ConfP!RequestStates, 
        ConfP!ProfileOps, ConfP!SiteOps

LEMMA ConfChangeIsKept == Conf!ChangeIsKept <=> ConfP!ChangeIsKept
  BY Zenon DEF Conf!ChangeIsKept, Conf!ProfileExists, ConfP!ChangeIsKept, 
        ConfP!ProfileExists

LEMMA ConfTriggerReachesSite == Conf!TriggerReachesSite <=> ConfP!TriggerReachesSite
  BY Zenon DEF Conf!TriggerReachesSite, ConfP!TriggerReachesSite

LEMMA ConfStateCreatedOnce == Conf!StateCreatedOnce <=> ConfP!StateCreatedOnce
  BY Zenon DEF Conf!StateCreatedOnce, Conf!At, ConfP!StateCreatedOnce, ConfP!At

LEMMA ProfInit == Prof!Init <=> ProfP!Init
  BY Zenon DEF Prof!Init, Prof!Idle, ProfP!Init, ProfP!Idle

LEMMA ProfNext == [Prof!Next]_(Prof!vars) <=> [ProfP!Next]_(ProfP!vars)
  BY Zenon DEF Prof!Next, Prof!CreateProfile, Prof!siteVars, Prof!DeleteSite, 
        Prof!profileVars, Prof!UserStep, Prof!OpenDelete, Prof!Open, 
        Prof!Idle, Prof!OpenPatch, Prof!CheckProfile, Prof!ProfileExists, 
        Prof!Move, Prof!HasConfig, Prof!ReadConfig, Prof!At, Prof!Merged, 
        Prof!WriteProfile, Prof!Overtake, Prof!Close, Prof!DeleteProfile, 
        Prof!Referenced, Prof!OpenPatchSite, Prof!CheckSite, Prof!WriteSite, 
        Prof!AtRest, Prof!Reporting, Prof!SiteStep, Prof!OpenConfig, 
        Prof!OpenDetails, Prof!TaskStatus, Prof!OpenStatus, Prof!Lock, 
        Prof!Locked, Prof!AnswerConfig, Prof!SaveDetails, Prof!ReadState, 
        Prof!SaveState, Prof!Resets, Prof!Abort, Prof!vars, ProfP!Next, 
        ProfP!CreateProfile, ProfP!siteVars, ProfP!DeleteSite, 
        ProfP!profileVars, ProfP!UserStep, ProfP!OpenDelete, ProfP!Open, 
        ProfP!Idle, ProfP!OpenPatch, ProfP!CheckProfile, ProfP!ProfileExists, 
        ProfP!Move, ProfP!HasConfig, ProfP!ReadConfig, ProfP!At, 
        ProfP!Merged, ProfP!WriteProfile, ProfP!Overtake, ProfP!Close, 
        ProfP!DeleteProfile, ProfP!Referenced, ProfP!OpenPatchSite, 
        ProfP!CheckSite, ProfP!WriteSite, ProfP!AtRest, ProfP!Reporting, 
        ProfP!SiteStep, ProfP!OpenConfig, ProfP!OpenDetails, 
        ProfP!TaskStatus, ProfP!OpenStatus, ProfP!Lock, ProfP!Locked, 
        ProfP!AnswerConfig, ProfP!SaveDetails, ProfP!ReadState, 
        ProfP!SaveState, ProfP!Resets, ProfP!Abort, ProfP!vars

LEMMA ProfTypeOK == Prof!TypeOK <=> ProfP!TypeOK
  BY Zenon DEF Prof!TypeOK, Prof!Rows, Prof!SiteRows, Prof!TaskStatus, 
        Prof!RequestStates, Prof!ProfileOps, Prof!SiteOps, ProfP!TypeOK, 
        ProfP!Rows, ProfP!SiteRows, ProfP!TaskStatus, ProfP!RequestStates, 
        ProfP!ProfileOps, ProfP!SiteOps

LEMMA ProfChangeIsKept == Prof!ChangeIsKept <=> ProfP!ChangeIsKept
  BY Zenon DEF Prof!ChangeIsKept, Prof!ProfileExists, ProfP!ChangeIsKept, 
        ProfP!ProfileExists

LEMMA ProfTriggerReachesSite == Prof!TriggerReachesSite <=> ProfP!TriggerReachesSite
  BY Zenon DEF Prof!TriggerReachesSite, ProfP!TriggerReachesSite

LEMMA ProfStateCreatedOnce == Prof!StateCreatedOnce <=> ProfP!StateCreatedOnce
  BY Zenon DEF Prof!StateCreatedOnce, Prof!At, ProfP!StateCreatedOnce, ProfP!At

LEMMA EnrolInit == Enrol!Init <=> EnrolP!Init
  BY Zenon DEF Enrol!Init, Enrol!Tokens, Enrol!Idle, EnrolP!Init, EnrolP!Tokens, 
        EnrolP!Idle

LEMMA EnrolNext == [Enrol!Next]_(Enrol!vars) <=> [EnrolP!Next]_(EnrolP!vars)
  BY Zenon DEF Enrol!Next, Enrol!Tokens, Enrol!TokenStep, Enrol!Generate, 
        Enrol!siteVars, Enrol!maasVars, Enrol!Expire, Enrol!DeleteToken, 
        Enrol!HasRow, Enrol!SiteStep, Enrol!GiveUp, Enrol!tokenVars, 
        Enrol!DeleteSite, Enrol!OpenStep, Enrol!PostEnroll, Enrol!Call, 
        Enrol!Open, Enrol!Idle, Enrol!PollEnroll, Enrol!CallWithAccess, 
        Enrol!Authenticated, Enrol!AdminOps, Enrol!OpenDecision, 
        Enrol!RequestStep, Enrol!FindSite, Enrol!WritePending, 
        Enrol!CanWrite, Enrol!CanCreate, Enrol!CanClaim, Enrol!Heard, 
        Enrol!Close, Enrol!FailPending, Enrol!IssueAccess, 
        Enrol!RemoveOldTokens, Enrol!Accept, Enrol!Reject, Enrol!Abort, 
        Enrol!vars, EnrolP!Next, EnrolP!Tokens, EnrolP!TokenStep, 
        EnrolP!Generate, EnrolP!siteVars, EnrolP!maasVars, EnrolP!Expire, 
        EnrolP!DeleteToken, EnrolP!HasRow, EnrolP!SiteStep, EnrolP!GiveUp, 
        EnrolP!tokenVars, EnrolP!DeleteSite, EnrolP!OpenStep, 
        EnrolP!PostEnroll, EnrolP!Call, EnrolP!Open, EnrolP!Idle, 
        EnrolP!PollEnroll, EnrolP!CallWithAccess, EnrolP!Authenticated, 
        EnrolP!AdminOps, EnrolP!OpenDecision, EnrolP!RequestStep, 
        EnrolP!FindSite, EnrolP!WritePending, EnrolP!CanWrite, 
        EnrolP!CanCreate, EnrolP!CanClaim, EnrolP!Heard, EnrolP!Close, 
        EnrolP!FailPending, EnrolP!IssueAccess, EnrolP!RemoveOldTokens, 
        EnrolP!Accept, EnrolP!Reject, EnrolP!Abort, EnrolP!vars

LEMMA EnrolTypeOK == Enrol!TypeOK <=> EnrolP!TypeOK
  BY Zenon DEF Enrol!TypeOK, Enrol!Tokens, Enrol!RequestStates, Enrol!MaasOps, 
        Enrol!AdminOps, EnrolP!TypeOK, EnrolP!Tokens, EnrolP!RequestStates, 
        EnrolP!MaasOps, EnrolP!AdminOps

LEMMA EnrolStoredTokenIsKept == Enrol!StoredTokenIsKept <=> EnrolP!StoredTokenIsKept
  BY Zenon DEF Enrol!StoredTokenIsKept, EnrolP!StoredTokenIsKept

LEMMA OneVersionInit == OneVersion!Init <=> OneVersionP!Init
  BY Zenon DEF OneVersion!Init, OneVersion!Idle, OneVersionP!Init, OneVersionP!Idle

LEMMA OneVersionNext == [OneVersion!Next]_(OneVersion!vars) <=> [OneVersionP!Next]_(OneVersionP!vars)
  BY Zenon DEF OneVersion!Next, OneVersion!PutAsset, OneVersion!Listed, 
        OneVersion!Locks, OneVersion!Idle, OneVersion!Changes, 
        OneVersion!Refresh, OneVersion!Refreshing, OneVersion!Possible, 
        OneVersion!Views, OneVersion!Entries, OneVersion!Top, 
        OneVersion!Greatest, OneVersion!Entry, OneVersion!PriorityAfter, 
        OneVersion!AssetAfter, OneVersion!RowAfter, OneVersion!Commit, 
        OneVersion!Abort, OneVersion!vars, OneVersionP!Next, 
        OneVersionP!PutAsset, OneVersionP!Listed, OneVersionP!Locks, 
        OneVersionP!Idle, OneVersionP!Changes, OneVersionP!Refresh, 
        OneVersionP!Refreshing, OneVersionP!Possible, OneVersionP!Views, 
        OneVersionP!Entries, OneVersionP!Top, OneVersionP!Greatest, 
        OneVersionP!Entry, OneVersionP!PriorityAfter, OneVersionP!AssetAfter, 
        OneVersionP!RowAfter, OneVersionP!Commit, OneVersionP!Abort, 
        OneVersionP!vars

LEMMA OneVersionTypeOK == OneVersion!TypeOK <=> OneVersionP!TypeOK
  BY Zenon DEF OneVersion!TypeOK, OneVersion!AssetRows, OneVersion!Entries, 
        OneVersion!RequestStates, OneVersion!Changes, OneVersionP!TypeOK, 
        OneVersionP!AssetRows, OneVersionP!Entries, 
        OneVersionP!RequestStates, OneVersionP!Changes

LEMMA OneVersionIndexIsCurrent == OneVersion!IndexIsCurrent <=> OneVersionP!IndexIsCurrent
  BY Zenon DEF OneVersion!IndexIsCurrent, OneVersion!Views, OneVersion!Entries, 
        OneVersion!Top, OneVersion!Greatest, OneVersion!Entry, 
        OneVersionP!IndexIsCurrent, OneVersionP!Views, OneVersionP!Entries, 
        OneVersionP!Top, OneVersionP!Greatest, OneVersionP!Entry

LEMMA OneVersionOfferedIsStored == OneVersion!OfferedIsStored <=> OneVersionP!OfferedIsStored
  BY Zenon DEF OneVersion!OfferedIsStored, OneVersion!Served, 
        OneVersionP!OfferedIsStored, OneVersionP!Served

LEMMA TwoVersionsInit == TwoVersions!Init <=> TwoVersionsP!Init
  BY Zenon DEF TwoVersions!Init, TwoVersions!Idle, TwoVersionsP!Init, 
        TwoVersionsP!Idle

LEMMA TwoVersionsNext == [TwoVersions!Next]_(TwoVersions!vars) <=> [TwoVersionsP!Next]_(TwoVersionsP!vars)
  BY Zenon DEF TwoVersions!Next, TwoVersions!PutAsset, TwoVersions!Listed, 
        TwoVersions!Locks, TwoVersions!Idle, TwoVersions!Changes, 
        TwoVersions!Refresh, TwoVersions!Refreshing, TwoVersions!Possible, 
        TwoVersions!Views, TwoVersions!Entries, TwoVersions!Top, 
        TwoVersions!Greatest, TwoVersions!Entry, TwoVersions!PriorityAfter, 
        TwoVersions!AssetAfter, TwoVersions!RowAfter, TwoVersions!Commit, 
        TwoVersions!Abort, TwoVersions!vars, TwoVersionsP!Next, 
        TwoVersionsP!PutAsset, TwoVersionsP!Listed, TwoVersionsP!Locks, 
        TwoVersionsP!Idle, TwoVersionsP!Changes, TwoVersionsP!Refresh, 
        TwoVersionsP!Refreshing, TwoVersionsP!Possible, TwoVersionsP!Views, 
        TwoVersionsP!Entries, TwoVersionsP!Top, TwoVersionsP!Greatest, 
        TwoVersionsP!Entry, TwoVersionsP!PriorityAfter, 
        TwoVersionsP!AssetAfter, TwoVersionsP!RowAfter, TwoVersionsP!Commit, 
        TwoVersionsP!Abort, TwoVersionsP!vars

LEMMA TwoVersionsTypeOK == TwoVersions!TypeOK <=> TwoVersionsP!TypeOK
  BY Zenon DEF TwoVersions!TypeOK, TwoVersions!AssetRows, TwoVersions!Entries, 
        TwoVersions!RequestStates, TwoVersions!Changes, TwoVersionsP!TypeOK, 
        TwoVersionsP!AssetRows, TwoVersionsP!Entries, 
        TwoVersionsP!RequestStates, TwoVersionsP!Changes

LEMMA TwoVersionsIndexIsCurrent == TwoVersions!IndexIsCurrent <=> TwoVersionsP!IndexIsCurrent
  BY Zenon DEF TwoVersions!IndexIsCurrent, TwoVersions!Views, TwoVersions!Entries, 
        TwoVersions!Top, TwoVersions!Greatest, TwoVersions!Entry, 
        TwoVersionsP!IndexIsCurrent, TwoVersionsP!Views, 
        TwoVersionsP!Entries, TwoVersionsP!Top, TwoVersionsP!Greatest, 
        TwoVersionsP!Entry

LEMMA TwoVersionsOfferedIsStored == TwoVersions!OfferedIsStored <=> TwoVersionsP!OfferedIsStored
  BY Zenon DEF TwoVersions!OfferedIsStored, TwoVersions!Served, 
        TwoVersionsP!OfferedIsStored, TwoVersionsP!Served

-----------------------------------------------------------------------------
(* Selections: the two queries.                                            *)

\* A set of positions has a first one.
LEMMA TwoFirst ==
  ASSUME NEW P \in SUBSET Nat, P # {} PROVE \E m \in P : \A l \in P : ~(l < m)
<1>1. \E m \in P : \A l \in P : <<l, m>> \notin OpToRel(<, Nat)
  BY NatLessThanWellFounded, WFMin
<1>. QED
  BY <1>1 DEF OpToRel

\* An order names each row once, by falling priority.
LEMMA TwoOrder ==
  ASSUME IsFiniteSet(Rows2), NEW order \in TwoSources!ReadOrders
  PROVE  /\ DOMAIN order \subseteq Nat \ {0}
         /\ \A n \in DOMAIN order : n \in Nat /\ 1..(n - 1) \subseteq DOMAIN order
         /\ \A n \in DOMAIN order : order[n] \in TwoSources!Live
         /\ \A i \in TwoSources!Live : \E n \in DOMAIN order : order[n] = i
         /\ \A m, n \in DOMAIN order : m < n =>
              Priority[row[order[m]].source] >= Priority[row[order[n]].source]
<1> DEFINE size == Cardinality(TwoSources!Live)
<1>1. IsFiniteSet(TwoSources!Live)
  <2>1. TwoSources!Live \subseteq Rows2
    BY DEF TwoSources!Live
  <2>. QED
    BY <2>1, FS_Subset
<1>2. size \in Nat
  BY <1>1, FS_CardinalityType
<1>3. order \in [1..size -> TwoSources!Live] /\ \A m, n \in 1..size : m # n => order[m] # order[n]
  <2>1. TwoSources!Cardinality(TwoSources!Live) = size
    BY Zenon DEF TwoSources!Cardinality, Cardinality
  <2>. QED
    BY <2>1 DEF TwoSources!ReadOrders, TwoSources!SetToSeqs
<1>4. Cardinality(1..size) = size
  BY <1>2, FS_Interval
<1>5. order \in Surjection(1..size, TwoSources!Live)
  <2>1. order \in Injection(1..size, TwoSources!Live)
    BY <1>3 DEF Injection, IsInjective
  <2>. QED
    BY <2>1, <1>1, <1>4, FS_Injection
<1>6. \A i \in TwoSources!Live : \E n \in DOMAIN order : order[n] = i
  BY <1>3, <1>5 DEF Surjection
<1>7. \A m, n \in DOMAIN order : m < n =>
        Priority[row[order[m]].source] >= Priority[row[order[n]].source]
  BY DEF TwoSources!ReadOrders
<1>. QED
  BY <1>2, <1>3, <1>6, <1>7

\* The first selected row of an image is named, or, when there is none, its first
\* row; no other row of the image is.
LEMMA TwoQueries ==
  ASSUME IsFiniteSet(Rows2), AnyRows, TwoSources!SelectionsAssumption
  PROVE  TwoSources!EachImageListedOnce
<1>. SUFFICES ASSUME NEW order \in TwoSources!ReadOrders
              PROVE  LET rows == TwoSources!Selectable(order) \cup TwoSources!Chosen(order) IN
                     /\ {row[i].key : i \in rows} = {row[i].key : i \in TwoSources!Live}
                     /\ \A i, j \in rows : row[i].key = row[j].key => i = j
                     /\ \A i \in rows, j \in TwoSources!Live :
                          /\ row[i].key = row[j].key
                          /\ row[i].selected = row[j].selected
                          => Priority[row[i].source] >= Priority[row[j].source]
  BY DEF TwoSources!EachImageListedOnce
<1> DEFINE rows == TwoSources!Selectable(order) \cup TwoSources!Chosen(order)
           Key(n) == row[order[n]].key
           Picked(n) == row[order[n]].selected
           Offered(m) == /\ \A l \in 1..(m - 1) : Key(l) # Key(m)
                         /\ \A l \in DOMAIN order : Picked(l) => Key(l) # Key(m)
           First(m) == /\ Picked(m)
                       /\ \A l \in 1..(m - 1) : Picked(l) => Key(l) # Key(m)
<1>1. /\ DOMAIN order \subseteq Nat \ {0}
      /\ \A n \in DOMAIN order : n \in Nat /\ 1..(n - 1) \subseteq DOMAIN order
      /\ \A n \in DOMAIN order : order[n] \in TwoSources!Live
      /\ \A i \in TwoSources!Live : \E n \in DOMAIN order : order[n] = i
      /\ \A m, n \in DOMAIN order : m < n =>
           Priority[row[order[m]].source] >= Priority[row[order[n]].source]
  BY TwoOrder
<1>2. \A i \in TwoSources!Live : /\ row[i].selected \in BOOLEAN
                                 /\ Priority[row[i].source] \in Nat
  BY DEF AnyRows, TwoSources!Live, TwoSources!SelectionRows, TwoSources!SelectionsAssumption
<1>3. \A i : i \in rows <=> \E m \in DOMAIN order : i = order[m] /\ (Offered(m) \/ First(m))
  BY DEF TwoSources!Selectable, TwoSources!Chosen
<1>4. \A l, m \in DOMAIN order : l < m => l \in 1..(m - 1)
  BY <1>1
<1>5. \A l, m \in DOMAIN order : (Offered(l) \/ First(l)) /\ (Offered(m) \/ First(m)) /\ Key(l) = Key(m) => l = m
  <2>. SUFFICES ASSUME NEW l \in DOMAIN order, NEW m \in DOMAIN order, l < m, Key(l) = Key(m),
                       Offered(l) \/ First(l), Offered(m) \/ First(m)
                PROVE  FALSE
    BY <1>1
  <2>1. l \in 1..(m - 1)
    BY <1>4
  <2>2. ~Offered(m)
    BY <2>1
  <2>3. First(m) /\ ~Picked(l)
    BY <2>1, <2>2
  <2>4. ~Offered(l)
    BY <2>3
  <2>. QED
    BY <2>3, <2>4
<1>6. \A n \in DOMAIN order : \E m \in DOMAIN order : Key(m) = Key(n) /\ (Offered(m) \/ First(m))
  <2>. TAKE n \in DOMAIN order
  <2> DEFINE picks == {l \in DOMAIN order : Key(l) = Key(n) /\ Picked(l)}
             all == {l \in DOMAIN order : Key(l) = Key(n)}
  <2>1. CASE picks # {}
    <3>1. PICK m \in picks : \A l \in picks : ~(l < m)
      BY <1>1, <2>1, TwoFirst
    <3>2. \A l \in 1..(m - 1) : l \in DOMAIN order /\ l < m
      BY <1>1
    <3>3. First(m)
      BY <3>1, <3>2
    <3>. QED
      BY <3>3
  <2>2. CASE picks = {}
    <3>1. PICK m \in all : \A l \in all : ~(l < m)
      BY <1>1, TwoFirst
    <3>2. \A l \in 1..(m - 1) : l \in DOMAIN order /\ l < m
      BY <1>1
    <3>3. Offered(m)
      BY <3>1, <3>2, <2>2
    <3>. QED
      BY <3>3
  <2>. QED
    BY <2>1, <2>2
<1>7. \A m, n \in DOMAIN order : (Offered(m) \/ First(m)) /\ Key(m) = Key(n) /\ Picked(m) = Picked(n) => m <= n
  <2>. SUFFICES ASSUME NEW m \in DOMAIN order, NEW n \in DOMAIN order, n < m,
                       Offered(m) \/ First(m), Key(m) = Key(n), Picked(m) = Picked(n)
                PROVE  FALSE
    BY <1>1
  <2>1. n \in 1..(m - 1)
    BY <1>4
  <2>. QED
    BY <2>1
<1>8. {row[i].key : i \in rows} = {row[i].key : i \in TwoSources!Live}
  <2>1. \A i \in rows : i \in TwoSources!Live
    BY <1>1, <1>3
  <2>2. ASSUME NEW i \in TwoSources!Live PROVE \E j \in rows : row[j].key = row[i].key
    <3>1. PICK n \in DOMAIN order : order[n] = i
      BY <1>1
    <3>2. PICK m \in DOMAIN order : Key(m) = Key(n) /\ (Offered(m) \/ First(m))
      BY <1>6
    <3>. QED
      BY <1>3, <3>1, <3>2
  <2>. QED
    BY <2>1, <2>2
<1>9. \A i, j \in rows : row[i].key = row[j].key => i = j
  BY <1>3, <1>5
<1>10. ASSUME NEW i \in rows, NEW j \in TwoSources!Live,
              row[i].key = row[j].key, row[i].selected = row[j].selected
       PROVE  Priority[row[i].source] >= Priority[row[j].source]
  <2>1. PICK m \in DOMAIN order : i = order[m] /\ (Offered(m) \/ First(m))
    BY <1>3
  <2>2. PICK n \in DOMAIN order : order[n] = j
    BY <1>1
  <2>3. m <= n
    BY <1>7, <1>10, <2>1, <2>2
  <2>4. CASE m = n
    BY <1>2, <2>1, <2>2, <2>4
  <2>5. CASE m < n
    BY <1>1, <2>1, <2>2, <2>5
  <2>. QED
    BY <1>1, <2>3, <2>4, <2>5
<1>. QED
  BY <1>8, <1>9, <1>10
-----------------------------------------------------------------------------
(* All parts.                                                              *)

\* Each part keeps its own invariant; that of OidcLogin, which is extended, is
\* kept in every part.
PartsInv ==
    /\ TypeInv
    /\ part = "accounts" => AccInv
    /\ part = "profiles" => ProfP!TypeInv /\ ProfP!ChangesInv
    /\ part = "sites" => ConfP!TypeInv /\ ConfP!SitesInv
    /\ part = "enrol" => EnrolP!RotationInv
    /\ part \in SelParts => SelInv
    /\ part = "two sources" => AnyRows
    /\ part = "uploads" => UpInv
    /\ part = "one version" => OneVersionP!IndexInv
    /\ part = "two versions" => TwoVersionsP!IndexInv

LEMMA PartsAssumptions ==
  /\ OidcLoginAssumption /\ Acc!AccountsAssumption
  /\ ProfP!SiteConfigAssumption /\ ConfP!SiteConfigAssumption
  /\ EnrolP!SiteEnrolmentAssumption /\ ~FALSE
  /\ Sel!SelectionsAssumption /\ TwoSources!SelectionsAssumption /\ Up!UploadsAssumption
  /\ OneVersionP!ImageIndexAssumption /\ TwoVersionsP!ImageIndexAssumption
<1>1. /\ OidcLoginAssumption /\ Acc!AccountsAssumption
      /\ Prof!SiteConfigAssumption /\ Conf!SiteConfigAssumption
      /\ Sel!SelectionsAssumption /\ TwoSources!SelectionsAssumption /\ Up!UploadsAssumption
      /\ OneVersion!ImageIndexAssumption /\ TwoVersions!ImageIndexAssumption
  BY ServerAssumption
<1>2. ProfP!SiteConfigAssumption
  BY <1>1, Zenon DEF Prof!SiteConfigAssumption, ProfP!SiteConfigAssumption,
     Prof!Rows, ProfP!Rows, Prof!Bodies, ProfP!Bodies
<1>3. ConfP!SiteConfigAssumption
  BY <1>1, Zenon DEF Conf!SiteConfigAssumption, ConfP!SiteConfigAssumption,
     Conf!Rows, ConfP!Rows, Conf!Bodies, ConfP!Bodies
<1>4. EnrolP!SiteEnrolmentAssumption
  BY ServerAssumption DEF EnrolP!SiteEnrolmentAssumption, EnrolP!Tokens
<1>5. OneVersionP!ImageIndexAssumption
  BY <1>1, Zenon DEF OneVersion!ImageIndexAssumption, OneVersionP!ImageIndexAssumption,
     OneVersion!AssetRows, OneVersionP!AssetRows
<1>6. TwoVersionsP!ImageIndexAssumption
  BY <1>1, Zenon DEF TwoVersions!ImageIndexAssumption, TwoVersionsP!ImageIndexAssumption,
     TwoVersions!AssetRows, TwoVersionsP!AssetRows
<1>. QED
  BY <1>1, <1>2, <1>3, <1>4, <1>5, <1>6

\* A part is chosen at the start, ...
LEMMA PartsStart ==
  ASSUME PartsInit
  PROVE  /\ Init
         /\ part = "accounts" => Acc!Init
         /\ part = "profiles" => Prof!Init
         /\ part = "sites" => Conf!Init
         /\ part = "enrol" => Enrol!Init
         /\ part \in SelParts => Sel!Init
         /\ part = "two sources" => AnyRows
         /\ part = "uploads" => Up!Init
         /\ part = "one version" => OneVersion!Init
         /\ part = "two versions" => TwoVersions!Init
BY DEF PartsInit, SelParts

\* ... and takes the steps.
LEMMA PartsStep ==
  ASSUME [PartsNext]_allVars
  PROVE  /\ UNCHANGED part /\ [Next]_vars
         /\ part = "accounts" => [Acc!Next]_(Acc!vars)
         /\ part = "profiles" => [Prof!Next]_(Prof!vars)
         /\ part = "sites" => [Conf!Next]_(Conf!vars)
         /\ part = "enrol" => [Enrol!Next]_(Enrol!vars)
         /\ part \in SelParts => [Sel!Next]_(Sel!vars)
         /\ part = "two sources" => UNCHANGED row
         /\ part = "uploads" => [Up!Next]_(Up!vars)
         /\ part = "one version" => [OneVersion!Next]_(OneVersion!vars)
         /\ part = "two versions" => [TwoVersions!Next]_(TwoVersions!vars)
<1> USE DEF AccStep, OidcStep, ConfStep, EnrolStep, SelStep, UpStep, IdxStep, SelParts
<1>1. \/ AccStep \/ OidcStep \/ ConfStep \/ EnrolStep \/ SelStep \/ UpStep \/ IdxStep
      \/ UNCHANGED <<part, accVars, vars, confVars, enrolVars, selVars, upVars, idxVars>>
  BY DEF PartsNext, allVars
<1>2. UNCHANGED part /\ [Next]_vars
  BY <1>1
<1>3. part = "accounts" => [Acc!Next]_(Acc!vars)
  BY <1>1 DEF accVars, Acc!vars
<1>4. part = "profiles" => [Prof!Next]_(Prof!vars)
  BY <1>1 DEF confVars, Prof!vars
<1>5. part = "sites" => [Conf!Next]_(Conf!vars)
  BY <1>1 DEF confVars, Conf!vars
<1>6. part = "enrol" => [Enrol!Next]_(Enrol!vars)
  BY <1>1 DEF enrolVars, Enrol!vars
<1>7. part \in SelParts => [Sel!Next]_(Sel!vars)
  BY <1>1 DEF selVars, Sel!vars
<1>8. part = "uploads" => [Up!Next]_(Up!vars)
  BY <1>1 DEF upVars, Up!vars
<1>9. part = "one version" => [OneVersion!Next]_(OneVersion!vars)
  BY <1>1 DEF idxVars, OneVersion!vars
<1>10. part = "two versions" => [TwoVersions!Next]_(TwoVersions!vars)
  BY <1>1 DEF idxVars, TwoVersions!vars
<1>11. part = "two sources" => UNCHANGED row
  BY <1>1 DEF selVars
<1>. QED
  BY <1>2, <1>3, <1>4, <1>5, <1>6, <1>7, <1>8, <1>9, <1>10, <1>11

LEMMA PartsInvInit == PartsInit => PartsInv
<1>. SUFFICES ASSUME PartsInit PROVE PartsInv
  OBVIOUS
<1>1. TypeInv
  BY PartsStart, PartsAssumptions, InitType
<1>2. part = "accounts" => AccInv
  BY PartsStart, PartsAssumptions, AccInit
<1>3. part = "profiles" => ProfP!TypeInv /\ ProfP!ChangesInv
  BY PartsStart, PartsAssumptions, ProfInit, ProfP!InitType, ProfP!InitChanges
<1>4. part = "sites" => ConfP!TypeInv /\ ConfP!SitesInv
  BY PartsStart, PartsAssumptions, ConfInit, ConfP!InitType, ConfP!InitSites
<1>5. part = "enrol" => EnrolP!RotationInv
  BY PartsStart, PartsAssumptions, EnrolInit, EnrolP!InitRotationInv
<1>6. part \in SelParts => SelInv
  BY PartsStart, PartsAssumptions, SelInit
<1>7. part = "uploads" => UpInv
  BY PartsStart, PartsAssumptions, UpInit
<1>8. part = "one version" => OneVersionP!IndexInv
  BY PartsStart, PartsAssumptions, OneVersionInit, OneVersionP!IndexInit
<1>9. part = "two versions" => TwoVersionsP!IndexInv
  BY PartsStart, PartsAssumptions, TwoVersionsInit, TwoVersionsP!IndexInit
<1>10. part = "two sources" => AnyRows
  BY PartsStart
<1>. QED
  BY <1>1, <1>2, <1>3, <1>4, <1>5, <1>6, <1>7, <1>8, <1>9, <1>10 DEF PartsInv

LEMMA PartsInvNext == PartsInv /\ [PartsNext]_allVars => PartsInv'
<1>. SUFFICES ASSUME PartsInv, [PartsNext]_allVars PROVE PartsInv'
  OBVIOUS
<1>0. UNCHANGED part
  BY PartsStep
<1>1. TypeInv'
  BY PartsStep, PartsAssumptions, StepType DEF PartsInv
<1>2. part = "accounts" => AccInv'
  BY PartsStep, PartsAssumptions, AccNext DEF PartsInv
<1>3. part = "profiles" => ProfP!TypeInv' /\ ProfP!ChangesInv'
  BY PartsStep, PartsAssumptions, ProfNext, ProfP!StepType, ProfP!StepChanges DEF PartsInv
<1>4. part = "sites" => ConfP!TypeInv' /\ ConfP!SitesInv'
  BY PartsStep, PartsAssumptions, ConfNext, ConfP!StepType, ConfP!StepSites DEF PartsInv
<1>5. part = "enrol" => EnrolP!RotationInv'
  BY PartsStep, PartsAssumptions, EnrolNext, EnrolP!NextRotationInv DEF PartsInv
<1>6. part \in SelParts => SelInv'
  BY PartsStep, PartsAssumptions, SelNext DEF PartsInv
<1>7. part = "uploads" => UpInv'
  BY PartsStep, PartsAssumptions, UpNext DEF PartsInv
<1>8. part = "one version" => OneVersionP!IndexInv'
  BY PartsStep, PartsAssumptions, OneVersionNext, OneVersionP!IndexStep DEF PartsInv
<1>9. part = "two versions" => TwoVersionsP!IndexInv'
  BY PartsStep, PartsAssumptions, TwoVersionsNext, TwoVersionsP!IndexStep DEF PartsInv
<1>10. part = "two sources" => AnyRows'
  BY PartsStep DEF PartsInv, AnyRows, TwoSources!SelectionRows
<1>. QED
  BY <1>0, <1>1, <1>2, <1>3, <1>4, <1>5, <1>6, <1>7, <1>8, <1>9, <1>10 DEF PartsInv

LEMMA PartsInvHolds == PartsSpec => []PartsInv
  BY PartsInvInit, PartsInvNext, PTL DEF PartsSpec

-----------------------------------------------------------------------------
(* What each part promises, in every behaviour of the server's parts.       *)

\* Rows, requests and histories of every part are what they are declared to be.
THEOREM PartsTypeCorrect == PartsSpec => []PartsTypeOK
<1>1. PartsInv => PartsTypeOK
  <2>. SUFFICES ASSUME PartsInv PROVE PartsTypeOK
    OBVIOUS
  <2>1. TypeOK /\ (part = "accounts" => Acc!TypeOK)
    BY DEF PartsInv, TypeInv, AccInv, AccTypeInv
  <2>2. part = "profiles" => Prof!TypeOK
    BY ProfTypeOK DEF PartsInv, ProfP!TypeInv
  <2>3. part = "sites" => Conf!TypeOK
    BY ConfTypeOK DEF PartsInv, ConfP!TypeInv
  <2>4. part = "enrol" => Enrol!TypeOK
    BY EnrolTypeOK DEF PartsInv, EnrolP!RotationInv, EnrolP!EnrolInv, EnrolP!TypeInv
  <2>5. part \in SelParts => Sel!TypeOK
    BY SelKeeps DEF PartsInv
  <2>6. part = "uploads" => Up!TypeOK
    BY DEF PartsInv, UpInv
  <2>7. part = "one version" => OneVersion!TypeOK
    BY OneVersionTypeOK DEF PartsInv, OneVersionP!IndexInv, OneVersionP!TypeInv
  <2>8. part = "two versions" => TwoVersions!TypeOK
    BY TwoVersionsTypeOK DEF PartsInv, TwoVersionsP!IndexInv, TwoVersionsP!TypeInv
  <2>. QED
    BY <2>1, <2>2, <2>3, <2>4, <2>5, <2>6, <2>7, <2>8 DEF PartsTypeOK
<1>. QED
  BY <1>1, PartsInvHolds, PTL

\* "Admin users cannot demote themselves" and cannot delete themselves: the last
\* administrator is lost only on the word of one who has been demoted or deleted
\* in the meantime.
THEOREM AdminsRemain == PartsSpec => AdminRemains
<1>1. PartsInv /\ [PartsNext]_allVars => [part = "accounts" => Acc!KeepsAdmin]_accVars
  BY PartsStep, PartsAssumptions, AccAdminKept DEF PartsInv
<1>. QED
  BY <1>1, PartsInvHolds, PTL DEF PartsSpec, AdminRemains

\* PATCH /users/me/password writes the row of the user whose password it has
\* checked, unless an address has been changed meanwhile.
THEOREM PasswordsAreOwn == PartsSpec => []OwnPasswordOnly
<1>1. PartsInv => OwnPasswordOnly
  BY DEF PartsInv, AccInv, OwnPasswordOnly
<1>. QED
  BY <1>1, PartsInvHolds, PTL

\* Each field of a profile is what the last request to set it wanted, unless two
\* changes of its options have crossed.
THEOREM ProfileChangesAreKept == PartsSpec => []ChangeIsKept
<1>1. PartsInv => ChangeIsKept
  BY ProfChangeIsKept DEF PartsInv, ProfP!ChangesInv, ChangeIsKept
<1>. QED
  BY <1>1, PartsInvHolds, PTL

\* A site that was at rest when it was asked to synchronise still has
\* trigger_image_sync set, until it is told or the request is withdrawn.
THEOREM SitesAreTriggered == PartsSpec => []TriggerReachesSite
<1>1. PartsInv => TriggerReachesSite
  BY ConfTriggerReachesSite
     DEF PartsInv, ConfP!SitesInv, ConfP!Resting, ConfP!TriggerReachesSite, TriggerReachesSite
<1>. QED
  BY <1>1, PartsInvHolds, PTL

\* No two reports of a site at a time both take its state for missing.
THEOREM SiteStatesAreCreatedOnce == PartsSpec => []StateCreatedOnce
<1>1. PartsInv => StateCreatedOnce
  BY ConfStateCreatedOnce DEF PartsInv, ConfP!SitesInv, StateCreatedOnce
<1>. QED
  BY <1>1, PartsInvHolds, PTL

\* When no call outlives its client, the rotation of access tokens never takes
\* away the one that MAAS has stored.
THEOREM StoredTokensAreKept == PartsSpec => []StoredTokenIsKept
<1>1. PartsInv => StoredTokenIsKept
  BY EnrolStoredTokenIsKept DEF PartsInv, EnrolP!RotationInv, StoredTokenIsKept
<1>. QED
  BY <1>1, PartsInvHolds, PTL

\* A selection outlives every refresh and every other change of the rows; only a
\* request that crosses the very change of what it has read may undo it.
THEOREM SelectionsAreKept == PartsSpec => []SelectionIsKept
<1>1. PartsInv => SelectionIsKept
  BY SelKeeps DEF PartsInv, SelectionIsKept
<1>. QED
  BY <1>1, PartsInvHolds, PTL

\* Only two refreshes of a source at a time may list an image twice.
THEOREM ImagesAreListedOnce == PartsSpec => []ListedOnce
<1>1. PartsInv => ListedOnce
  BY SelKeeps DEF PartsInv, ListedOnce
<1>. QED
  BY <1>1, PartsInvHolds, PTL

\* The lock on the source leaves one asset of a product, however often and
\* however late syncs send what they have read.
THEOREM ProductsAreUnique == PartsSpec => []NoDuplicateProduct
<1>1. PartsInv => NoDuplicateProduct
  BY SelKeeps DEF PartsInv, NoDuplicateProduct
<1>. QED
  BY <1>1, PartsInvHolds, PTL

\* An image that is selected is there or going to be fetched, under its own name or
\* one that contains it, unless the last sync has asked when upstream did not have
\* it, has given up or has come too early for it, or requests have crossed.
THEOREM SelectionsAreFetched == PartsSpec => []SelectedIsFetched
<1>1. PartsInv => SelectedIsFetched
  BY SelKeeps DEF PartsInv, SelectedIsFetched
<1>. QED
  BY <1>1, PartsInvHolds, PTL

\* Whatever rows a table has, and in whichever order they are read: the lists of
\* images name each image once, by the row of the best source it can be.
THEOREM ImagesAreNamedOnce ==
  ASSUME IsFiniteSet(Rows2) PROVE PartsSpec => []EachImageListedOnce
<1>1. PartsInv => EachImageListedOnce
  BY TwoQueries, PartsAssumptions DEF PartsInv, EachImageListedOnce
<1>. QED
  BY <1>1, PartsInvHolds, PTL

\* The index offers the last upload of an image that was answered, unless two
\* first uploads have created two assets, or one went under another's name.
THEOREM LastUploadsAreServed == PartsSpec => []LastUploadIsServed
<1>1. PartsInv => LastUploadIsServed
  BY UpServed, PartsAssumptions DEF PartsInv, LastUploadIsServed
<1>. QED
  BY <1>1, PartsInvHolds, PTL

\* As long as the item that a site was offered is there, what the site is sent
\* under its path is that item, though paths are used again.
THEOREM OfferedItemsAreSent == PartsSpec => []OfferedIsSent
<1>1. PartsInv => OfferedIsSent
  BY DEF PartsInv, UpInv, OfferedIsSent
<1>. QED
  BY <1>1, PartsInvHolds, PTL

\* The index is that of the rows, but for new versions and for what was committed
\* while the last refresh waited.
THEOREM IndexesAreCurrent == PartsSpec => []IndexIsCurrent
<1>1. PartsInv => IndexIsCurrent
  BY OneVersionIndexIsCurrent, TwoVersionsIndexIsCurrent
     DEF PartsInv, OneVersionP!IndexInv, TwoVersionsP!IndexInv, IndexIsCurrent
<1>. QED
  BY <1>1, PartsInvHolds, PTL

\* What the index offers is a version that is there and all synced.
THEOREM OfferedVersionsAreStored == PartsSpec => []OfferedIsStored
<1>1. PartsInv => OfferedIsStored
  BY OneVersionOfferedIsStored, TwoVersionsOfferedIsStored
     DEF PartsInv, OneVersionP!IndexInv, TwoVersionsP!IndexInv, OfferedIsStored
<1>. QED
  BY <1>1, PartsInvHolds, PTL
=============================================================================

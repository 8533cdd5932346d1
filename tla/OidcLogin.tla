----------------------------- MODULE OidcLogin -----------------------------
(***************************************************************************)
(* Login through an external OIDC provider.                                *)
(*                                                                         *)
(* Administrators configure providers, one of which may be enabled.  A     *)
(* person is sent to the enabled provider, comes back with a code, and the *)
(* callback exchanges it for tokens, binds an account to the provider and  *)
(* leaves the tokens in cookies.  Whatever a request needs to know of the  *)
(* provider it reads again when it needs it, with calls to the provider in *)
(* between: nothing keeps what it has read from changing meanwhile.        *)
(***************************************************************************)
EXTENDS Naturals, FiniteSets

CONSTANTS
    Providers,  \* ids of oidc_provider rows: a serial key
    People,     \* e-mail addresses, each with the browser of its owner
    Requests,   \* API requests that may be open at once
    Local,      \* an account with a password and no provider
    None        \* no row, no value

OidcLoginAssumption ==
    /\ None \notin Providers \cup People \cup BOOLEAN
    /\ Local \notin Providers
    /\ Local # None

VARIABLES
    provider,  \* id -> "none", "disabled", "enabled" or "deleted"
    account,   \* person -> the provider_id of the user row with that user name,
               \* Local when it is NULL, None when there is no row
    cookie,    \* person -> the cookies of the browser
    code,      \* person -> the provider of the code it has come back with
    signedIn,  \* history: <<s, p>> when person s has signed in at p
    req,       \* request -> what it does, for whom, with what it has read
    raced      \* history: has a change of a provider been committed that was
               \* checked before another one was committed?

rowVars == <<provider, account>>
webVars == <<cookie, code, signedIn>>
vars == <<provider, account, cookie, code, signedIn, req, raced>>

\* state: the provider that state and nonce were made for.
\* tokens: the provider whose id, access and refresh token there are.
Cookies == [state : Providers \cup {None}, tokens : Providers \cup {None}]
NoCookies == [state |-> None, tokens |-> None]

AdminOps == {"create", "update", "delete"}

RequestStates ==
    [op : {"idle", "login-info", "callback", "logout"} \cup AdminOps,
     step : {"start", "fetch", "write", "url", "account", "insert"},
     who : People \cup {None}, provider : Providers \cup {None},
     enable : BOOLEAN \cup {None}, stale : BOOLEAN]

Idle == [op |-> "idle", step |-> "start", who |-> None, provider |-> None,
         enable |-> None, stale |-> FALSE]

TypeOK ==
    /\ provider \in [Providers -> {"none", "disabled", "enabled", "deleted"}]
    /\ account \in [People -> Providers \cup {Local, None}]
    /\ cookie \in [People -> Cookies]
    /\ code \in [People -> Providers \cup {None}]
    /\ signedIn \subseteq People \X Providers
    /\ req \in [Requests -> RequestStates]
    /\ raced \in BOOLEAN

Init ==
    /\ provider = [p \in Providers |-> "none"]
    /\ account = [s \in People |-> None]
    /\ cookie = [s \in People |-> NoCookies]
    /\ code = [s \in People |-> None]
    /\ signedIn = {}
    /\ req = [r \in Requests |-> Idle]
    /\ raced = FALSE

-----------------------------------------------------------------------------
(* Requests.                                                                *)

At(r, op, step) == req[r].op = op /\ req[r].step = step

Open(r, request) ==
    /\ req[r] = Idle
    /\ req' = [req EXCEPT ![r] = request]
    /\ UNCHANGED <<rowVars, webVars, raced>>

Move(r, step) == req' = [req EXCEPT ![r].step = step]
Close(r) == req' = [req EXCEPT ![r] = Idle]

\* The handler raises: nothing is committed, and the answer is made by the
\* middleware, without the cookies that the handler has set or cleared.
Refuse(r) == Close(r) /\ UNCHANGED <<rowVars, webVars, raced>>

Enabled == {p \in Providers : provider[p] = "enabled"}
Exists(p) == provider[p] \in {"disabled", "enabled"}

\* get_by_enabled ends in one_or_none(), which raises when there are several.
Several == Cardinality(Enabled) > 1

\* _get_oauth_client of the enabled provider, which there must be.
Client(p) == Enabled = {p}
NoClient == \A p \in Providers : ~Client(p)

-----------------------------------------------------------------------------
(* Administration of the providers.                                         *)

\* Mutant of Allowed: creation does not ask whether there is an enabled one.
AllowedCreation(op, p, enable) ==
    CASE op = "create" -> TRUE
      [] op = "update" -> enable # TRUE \/ Enabled \subseteq {p}
      [] op = "delete" -> p \notin Enabled

\* Mutant of Allowed: the enabled provider can be deleted.
AllowedDeletion(op, p, enable) ==
    CASE op = "create" -> enable = FALSE \/ Enabled = {}
      [] op = "update" -> enable # TRUE \/ Enabled \subseteq {p}
      [] op = "delete" -> TRUE

\* "Only one OIDC provider can be enabled at a time", and an enabled one
\* cannot be deleted.
Allowed(op, p, enable) ==
    CASE op = "create" -> enable = FALSE \/ Enabled = {}
      [] op = "update" -> enable # TRUE \/ Enabled \subseteq {p}
      [] op = "delete" -> p \notin Enabled

\* What create, update and delete of the service look at first; a request that
\* they refuse changes nothing.  A creation, and an update of the issuer, then
\* fetch the metadata of the provider.
Check(r, op, p, enable) ==
    /\ ~Several
    /\ Allowed(op, p, enable)
    /\ \E step \in {"fetch", "write"} :
         /\ op = "create" => step = "fetch"
         /\ op = "delete" => step = "write"
         /\ Open(r, [Idle EXCEPT !.op = op, !.step = step, !.provider = p, !.enable = enable])

CheckCreate(r, enable) == Check(r, "create", None, enable)

\* enable is None when the body leaves enabled out.  (An id that has no row
\* ends in an error.)
CheckUpdate(r, p, enable) == Exists(p) /\ Check(r, "update", p, enable)

CheckDelete(r, p) == Exists(p) /\ Check(r, "delete", p, None)

\* _fetch_metadata, which raises when the provider does not answer with 200.
FetchMetadata(r) ==
    /\ req[r].step = "fetch"
    /\ \/ Move(r, "write") /\ UNCHANGED <<rowVars, webVars, raced>>
       \/ Refuse(r)

\* Request r has changed a provider: what others have checked is out of date.
Changed(r) ==
    /\ req' = [x \in Requests |->
                  IF x = r THEN Idle
                  ELSE IF req[x].op \in AdminOps
                  THEN [req[x] EXCEPT !.stale = TRUE]
                  ELSE req[x]]
    /\ raced' = (raced \/ req[r].stale)
    /\ UNCHANGED webVars

Status(q) ==
    CASE q.enable = TRUE -> "enabled"
      [] q.enable = FALSE -> "disabled"
      [] OTHER -> provider[q.provider]

\* INSERT takes the next id.
InsertProvider(r) ==
    /\ At(r, "create", "write")
    /\ \E p \in Providers :
         /\ provider[p] = "none"
         /\ provider' = [provider EXCEPT ![p] = IF req[r].enable THEN "enabled" ELSE "disabled"]
    /\ Changed(r)
    /\ UNCHANGED account

\* UPDATE ... RETURNING.
UpdateProvider(r) ==
    LET p == req[r].provider IN
    /\ At(r, "update", "write")
    /\ Exists(p)
    /\ provider' = [provider EXCEPT ![p] = Status(req[r])]
    /\ Changed(r)
    /\ UNCHANGED account

\* The name is taken, or .one() raises since there is no row.
WriteFails(r) ==
    /\ req[r].op \in {"create", "update"}
    /\ req[r].step = "write"
    /\ Refuse(r)

\* DELETE, which cascades to the users of the provider (and to revoked tokens).
DeleteProvider(r) ==
    LET p == req[r].provider IN
    /\ At(r, "delete", "write")
    /\ provider' = [provider EXCEPT ![p] = "deleted"]
    /\ account' = [s \in People |-> IF account[s] = p THEN None ELSE account[s]]
    /\ Changed(r)

-----------------------------------------------------------------------------
(* Users are also created and deleted by administrators.                    *)

CreateLocal(s) ==
    /\ account[s] = None
    /\ account' = [account EXCEPT ![s] = Local]
    /\ UNCHANGED <<provider, webVars, req, raced>>

DeleteUser(s) ==
    /\ account[s] # None
    /\ account' = [account EXCEPT ![s] = None]
    /\ UNCHANGED <<provider, webVars, req, raced>>

-----------------------------------------------------------------------------
(* GET /login-info.                                                         *)

\* UserService._select_statement leaves provider_id out, so that the provider
\* of every user it finds is None.
SelectedProvider(s) == None

\* Password or provider?  A user whose provider is None logs in with a password,
\* and so does everybody when no provider is enabled: nothing changes.
LoginInfo(r, s) ==
    /\ Cardinality(Enabled) = 1
    /\ account[s] = None
    /\ Open(r, [Idle EXCEPT !.op = "login-info", !.step = "url", !.who = s])

\* The client is made for the provider that is enabled now; state and nonce
\* go into cookies, and a code for another state is of no use any more.
AuthorizationUrl(r) ==
    LET s == req[r].who IN
    /\ At(r, "login-info", "url")
    /\ \/ \E p \in Providers :
            /\ Client(p)
            /\ cookie' = [cookie EXCEPT ![s].state = p]
            /\ code' = [code EXCEPT ![s] = None]
            /\ Close(r)
            /\ UNCHANGED <<rowVars, signedIn, raced>>
       \/ NoClient /\ Refuse(r)

\* The person signs in at the provider and is sent back with a code.
SignIn(s) ==
    LET p == cookie[s].state IN
    /\ p # None
    /\ code[s] = None
    /\ code' = [code EXCEPT ![s] = p]
    /\ signedIn' = signedIn \cup {<<s, p>>}
    /\ UNCHANGED <<rowVars, cookie, req, raced>>

-----------------------------------------------------------------------------
(* GET /external-auth/callback.                                             *)

\* The state must be the one in the cookie.
OpenCallback(r, s) ==
    /\ code[s] # None
    /\ code[s] = cookie[s].state
    /\ Open(r, [Idle EXCEPT !.op = "callback", !.who = s])

\* fetch_token and the validation of what it returns, by the client of the
\* provider that is enabled now.  Another provider's code is refused.
ExchangeCode(r) ==
    LET s == req[r].who IN
    /\ At(r, "callback", "start")
    /\ code[s] # None
    /\ Client(code[s])
    /\ code' = [code EXCEPT ![s] = None]
    /\ req' = [req EXCEPT ![r].step = "account", ![r].provider = code[s]]
    /\ UNCHANGED <<rowVars, cookie, signedIn, raced>>

\* No client, a code that was used, a token that is not valid, no answer.
ExchangeFails(r) == At(r, "callback", "start") /\ Refuse(r)

\* _create_user_if_not_exists finds the account.
FindAccount(r) ==
    /\ At(r, "callback", "account")
    /\ account[req[r].who] = None
    /\ Move(r, "insert")
    /\ UNCHANGED <<rowVars, webVars, raced>>

\* "User already exists with a different OIDC provider."
RefuseAccount(r) ==
    LET s == req[r].who IN
    /\ At(r, "callback", "account")
    /\ account[s] # None
    /\ SelectedProvider(s) # req[r].provider
    /\ Refuse(r)

\* The tokens arrive in the cookies of the browser, unless the answer is lost.
SetTokens(s, p) ==
    \/ cookie' = [cookie EXCEPT ![s].tokens = p]
    \/ UNCHANGED cookie

\* Mutant of InsertAccount: the provider is asked for again.
InsertAccountAsked(r) ==
    LET s == req[r].who IN
    /\ At(r, "callback", "insert")
    /\ account[s] = None
    /\ \E p \in Enabled : account' = [account EXCEPT ![s] = p]
    /\ SetTokens(s, req[r].provider)
    /\ Close(r)
    /\ UNCHANGED <<provider, code, signedIn, raced>>

\* INSERT of the user; the foreign key holds and the user name is not taken.
InsertAccount(r) ==
    LET s == req[r].who
        p == req[r].provider
    IN  /\ At(r, "callback", "insert")
        /\ account[s] = None
        /\ Exists(p)
        /\ account' = [account EXCEPT ![s] = p]
        /\ SetTokens(s, req[r].provider)
        /\ Close(r)
        /\ UNCHANGED <<provider, code, signedIn, raced>>

\* IntegrityError.
InsertFails(r) ==
    /\ At(r, "callback", "insert")
    /\ account[req[r].who] # None \/ ~Exists(req[r].provider)
    /\ Refuse(r)

-----------------------------------------------------------------------------
(* POST /logout.                                                            *)

OpenLogout(r, s) ==
    /\ cookie[s].tokens # None
    /\ Open(r, [Idle EXCEPT !.op = "logout", !.who = s,
                            !.provider = cookie[s].tokens])

\* The signature of the id token is checked with the keys of the provider that
\* is enabled now; the denied token refers to it and to the user.
CanRevoke(q) == Client(q.provider) /\ account[q.who] # None

\* The refresh token is denied and the cookies are cleared.
Revoke(r) ==
    /\ At(r, "logout", "start")
    /\ CanRevoke(req[r])
    /\ \/ cookie' = [cookie EXCEPT ![req[r].who].tokens = None]
       \/ UNCHANGED cookie
    /\ Close(r)
    /\ UNCHANGED <<rowVars, code, signedIn, raced>>

\* Or it raises; so does a second logout with a token that is denied already.
RevokeFails(r) == At(r, "logout", "start") /\ Refuse(r)

\* The cookies have a max_age of an hour.
ExpireCookies(s) ==
    /\ cookie[s] # NoCookies
    /\ cookie' = [cookie EXCEPT ![s] = NoCookies]
    /\ UNCHANGED <<rowVars, code, signedIn, req, raced>>

-----------------------------------------------------------------------------
AdminStep(r) ==
    \/ \E enable \in BOOLEAN : CheckCreate(r, enable)
    \/ \E p \in Providers :
         \/ \E enable \in BOOLEAN \cup {None} : CheckUpdate(r, p, enable)
         \/ CheckDelete(r, p)
    \/ FetchMetadata(r) \/ WriteFails(r)
    \/ InsertProvider(r) \/ UpdateProvider(r) \/ DeleteProvider(r)

OpenStep(r) ==
    \E s \in People :
        LoginInfo(r, s) \/ OpenCallback(r, s) \/ OpenLogout(r, s)

WebStep(r) ==
    \/ AuthorizationUrl(r)
    \/ ExchangeCode(r) \/ ExchangeFails(r)
    \/ FindAccount(r) \/ RefuseAccount(r) \/ InsertAccount(r) \/ InsertFails(r)
    \/ Revoke(r) \/ RevokeFails(r)

PersonStep(s) ==
    CreateLocal(s) \/ DeleteUser(s) \/ SignIn(s) \/ ExpireCookies(s)

Next ==
    \/ \E r \in Requests : AdminStep(r) \/ OpenStep(r) \/ WebStep(r)
    \/ \E s \in People : PersonStep(s)

Spec == Init /\ [][Next]_vars

-----------------------------------------------------------------------------
(* Properties.                                                              *)

\* "Only one OIDC provider can be enabled at a time": with several of them
\* every login and every change of a provider fails for good, so nothing may
\* bring that about but two changes that were checked at the same time.
OneProviderEnabled == raced \/ Cardinality(Enabled) <= 1

\* "Please disable the OIDC provider before deleting it": with an enabled one
\* would go all the users who log in with it.
DeletesDisabled ==
    \A p \in Providers :
        provider[p] = "enabled" /\ provider'[p] = "deleted" => raced'

EnabledIsNotDeleted == [][DeletesDisabled]_vars

\* An account belongs to a provider at which its owner has signed in, however
\* the providers are switched between the first redirect and the callback.
BoundWhereSignedIn ==
    \A s \in People : account[s] \in Providers => <<s, account[s]>> \in signedIn

\* No account is left of a provider that was deleted, not even by a callback
\* that was under way (the other end of ON DELETE CASCADE).
AccountHasProvider ==
    \A s \in People : account[s] \in Providers => Exists(account[s])

\* "Handle the OIDC callback and deal with user creation or login": a user who
\* has an account of the very provider is not turned away.
ReturningUserLogsIn ==
    [][\A r \in Requests :
         RefuseAccount(r) => account[req[r].who] # req[r].provider]_vars
=============================================================================

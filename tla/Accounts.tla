------------------------------ MODULE Accounts ------------------------------
(***************************************************************************)
(* The users of Site Manager and the requests that change them.            *)
(*                                                                         *)
(* A user is a row with a unique user name and a unique e-mail address.    *)
(* A request is authenticated by a JWT that names the user, reads what the *)
(* handler checks, and writes; with READ COMMITTED anything may be         *)
(* committed between these steps.  The write and the commit are one step,  *)
(* as row locks and unique indexes make a second writer wait for the first.*)
(***************************************************************************)
EXTENDS FiniteSets

CONSTANTS
    Users,      \* ids of user rows: a serial key, never used twice
    Names,      \* user names and e-mail addresses
    Passwords,
    Changes,    \* the bodies of POST and PATCH requests that are made
    Requests,   \* API requests that may be open at once
    Unborn,     \* no row yet
    Gone,       \* the row was deleted
    None        \* no value

\* A field that is None is left out of the request.
Bodies == [username : Names \cup {None}, email : Names \cup {None},
           password : Passwords \cup {None}, admin : BOOLEAN \cup {None}]

Rows == [username : Names, email : Names, password : Passwords, admin : BOOLEAN]

AccountsAssumption ==
    /\ Changes \subseteq Bodies
    /\ {Unborn, Gone} \cap Rows = {}
    /\ Unborn # Gone
    /\ None \notin Users \cup Names \cup Passwords \cup BOOLEAN

VARIABLES
    user,     \* id -> its row, Unborn or Gone
    session,  \* ids that hold a JWT that has not expired
    req,      \* request -> what it does, for whom, with what it has read
    stale     \* history: was an admin request committed for an actor who, by
              \* then, was no administrator any more?

vars == <<user, session, req, stale>>

Writes == {"post", "patch_me", "patch", "password", "delete"}

NoBody == [username |-> None, email |-> None, password |-> None, admin |-> None]

\* step: "check" before the handler has looked for conflicts, "write" after.
\* email, guess: the address read with the actor, and the password given.
\* verified: whose password the guess was.  moved: history, whether the
\* address of the actor has changed since.
RequestStates ==
    [op : {"idle"} \cup Writes, step : {"check", "write"},
     actor : Users \cup {None}, target : Users \cup {None},
     body : Changes \cup {NoBody}, email : Names \cup {None},
     guess : Passwords \cup {None}, verified : Users \cup {None},
     moved : BOOLEAN]

Idle == [op |-> "idle", step |-> "check", actor |-> None, target |-> None,
         body |-> NoBody, email |-> None, guess |-> None, verified |-> None,
         moved |-> FALSE]

TypeOK ==
    /\ user \in [Users -> Rows \cup {Unborn, Gone}]
    /\ session \subseteq Users
    /\ req \in [Requests -> RequestStates]
    /\ stale \in BOOLEAN

Init ==
    /\ user = [u \in Users |-> Unborn]
    /\ session = {}
    /\ req = [r \in Requests |-> Idle]
    /\ stale = FALSE

-----------------------------------------------------------------------------
(* Rows.                                                                    *)

Live(u) == user[u] \notin {Unborn, Gone}
IsAdmin(u) == Live(u) /\ user[u].admin

\* exists: another row than u has the user name or the address of the body.
Exists(u, body) ==
    \E v \in Users \ {u} :
        Live(v) /\ (user[v].username = body.username \/ user[v].email = body.email)

\* Mutant of Collides: the column email has no unique index.
CollidesUsernameOnly(u, row) ==
    \E v \in Users \ {u} : Live(v) /\ user[v].username = row.username

\* The unique indexes of the table.
Collides(u, row) ==
    \E v \in Users \ {u} :
        Live(v) /\ (user[v].username = row.username \/ user[v].email = row.email)

\* Mutant of Merged: fields that the body does not name are written too.
MergedAll(row, body) == [f \in DOMAIN row |-> body[f]]

\* update leaves out what is None (model_dump(exclude_none=True)).
Merged(row, body) ==
    [f \in DOMAIN row |-> IF body[f] = None THEN row[f] ELSE body[f]]

\* The command line: msm-admin create-user.
CreateUser(u, body) ==
    /\ None \notin {body.username, body.email, body.password, body.admin}
    /\ user[u] = Unborn
    /\ ~Exists(None, body)
    /\ user' = [user EXCEPT ![u] = body]
    /\ UNCHANGED <<session, req, stale>>

-----------------------------------------------------------------------------
(* Sessions.                                                                *)

\* POST /login: the row is found by its address.
Login(u, password) ==
    /\ Live(u)
    /\ user[u].password = password
    /\ session' = session \cup {u}
    /\ UNCHANGED <<user, req, stale>>

\* The JWT expires.  It is not stored, so nothing else ends a session.
Expire(u) ==
    /\ u \in session
    /\ session' = session \ {u}
    /\ UNCHANGED <<user, req, stale>>

\* authenticated_user: the JWT is good and its auth_id has a row.
Authenticated(u) == u \in session /\ Live(u)

-----------------------------------------------------------------------------
(* Opening a request.                                                       *)

Open(r, op, a, t, body) ==
    /\ req[r] = Idle
    /\ Authenticated(a)
    /\ req' = [req EXCEPT ![r] =
                  [Idle EXCEPT !.op = op, !.actor = a, !.target = t,
                               !.body = body, !.email = user[a].email]]
    /\ UNCHANGED <<user, session, stale>>

OpenPost(r, a, u, body) ==
    /\ IsAdmin(a)
    /\ user[u] = Unborn
    /\ None \notin {body.username, body.email, body.password, body.admin}
    /\ Open(r, "post", a, u, body)

\* PATCH /users/me takes neither a password nor is_admin.
OpenPatchMe(r, a, body) ==
    /\ body.password = None /\ body.admin = None
    /\ Open(r, "patch_me", a, a, body)

\* Mutant of OpenPatch: administrators may demote themselves.
OpenPatchSelf(r, a, t, body) ==
    /\ IsAdmin(a)
    /\ user[t] # Unborn
    /\ Open(r, "patch", a, t, body)

\* PATCH /users/{id}: administrators cannot demote themselves.
OpenPatch(r, a, t, body) ==
    /\ IsAdmin(a)
    /\ user[t] # Unborn
    /\ ~(t = a /\ body.admin = FALSE)
    /\ Open(r, "patch", a, t, body)

\* DELETE /users/{id}: they cannot delete themselves; no other check.
OpenDelete(r, a, t) ==
    /\ IsAdmin(a)
    /\ user[t] # Unborn
    /\ t # a
    /\ Open(r, "delete", a, t, NoBody)

\* PATCH /users/me/password, with the current password and a new one.
OpenPassword(r, a, guess, body) ==
    /\ body.password # None /\ body.username = None /\ body.email = None
    /\ body.admin = None
    /\ req[r] = Idle
    /\ Authenticated(a)
    /\ req' = [req EXCEPT ![r] =
                  [Idle EXCEPT !.op = "password", !.actor = a, !.target = a,
                               !.body = body, !.email = user[a].email,
                               !.guess = guess]]
    /\ UNCHANGED <<user, session, stale>>

-----------------------------------------------------------------------------
(* Checking.                                                                *)

Close(r) == req' = [req EXCEPT ![r] = Idle]

\* 400 or 404: the transaction is rolled back.
Refuse(r) == Close(r) /\ UNCHANGED <<user, session, stale>>

Pass(r, verified) ==
    /\ req' = [req EXCEPT ![r].step = "write", ![r].verified = verified]
    /\ UNCHANGED <<user, session, stale>>

\* id_exists, then check_for_existing_user, which leaves out the row itself.
CheckConflict(r) ==
    LET q == req[r] IN
    /\ q.op \in {"post", "patch_me", "patch"}
    /\ q.step = "check"
    /\ IF \/ q.op = "patch" /\ ~Live(q.target)
          \/ Exists(IF q.op = "post" THEN None ELSE q.target, q.body)
       THEN Refuse(r)
       ELSE Pass(r, None)

\* authenticate_user: whose address is it, and is this the password?
CheckPassword(r) ==
    LET q == req[r]
        Found == {v \in Users : Live(v) /\ user[v].email = q.email
                                /\ user[v].password = q.guess}
    IN  /\ q.op = "password"
        /\ q.step = "check"
        /\ \/ \E v \in Found : Pass(r, v)
           \/ Found = {} /\ Refuse(r)

-----------------------------------------------------------------------------
(* Writing, and the commit.                                                 *)

\* With this row, t no longer has the address it had.
Leaves(t, row) == Live(t) /\ (row = Gone \/ row.email # user[t].email)

\* Request r has written row for its target, and is over.
Commit(r, row) ==
    LET t == req[r].target IN
    /\ user' = [user EXCEPT ![t] = row]
    /\ req' = [x \in Requests |->
                  IF x = r THEN Idle
                  ELSE IF req[x].actor = t /\ Leaves(t, row)
                  THEN [req[x] EXCEPT !.moved = TRUE]
                  ELSE req[x]]
    /\ UNCHANGED session

\* Is the actor of an admin request no administrator any more?
Overtaken(r) == req[r].op \in {"post", "patch", "delete"} /\ ~IsAdmin(req[r].actor)

\* INSERT, which a unique index may refuse.
WriteNew(r) ==
    LET q == req[r] IN
    /\ q.op = "post"
    /\ q.step = "write"
    /\ IF user[q.target] = Unborn /\ ~Collides(q.target, q.body)
       THEN Commit(r, q.body) /\ stale' = (stale \/ Overtaken(r))
       ELSE Refuse(r)

\* UPDATE ... RETURNING, whose .one() raises when the row is gone.
WriteChange(r) ==
    LET q == req[r]
        row == Merged(user[q.target], q.body)
    IN  /\ q.op \in {"patch_me", "patch"}
        /\ q.step = "write"
        /\ IF Live(q.target) /\ ~Collides(q.target, row)
           THEN Commit(r, row) /\ stale' = (stale \/ Overtaken(r))
           ELSE Refuse(r)

\* update_password: no error when there is no row.
WritePassword(r) ==
    LET q == req[r] IN
    /\ q.op = "password"
    /\ q.step = "write"
    /\ IF Live(q.target) THEN Commit(r, Merged(user[q.target], q.body))
                         ELSE Close(r) /\ UNCHANGED <<user, session>>
    /\ UNCHANGED stale

\* DELETE: neither is there one here.
WriteDelete(r) ==
    /\ req[r].op = "delete"
    /\ Commit(r, Gone)
    /\ stale' = (stale \/ Overtaken(r))

\* The database fails or the server dies.
Abort(r) == req[r] # Idle /\ Refuse(r)

-----------------------------------------------------------------------------
OpenStep(r) ==
    \E a \in Users :
        \/ \E u \in Users, body \in Changes :
             OpenPost(r, a, u, body) \/ OpenPatch(r, a, u, body)
        \/ \E body \in Changes : OpenPatchMe(r, a, body)
        \/ \E t \in Users : OpenDelete(r, a, t)
        \/ \E guess \in Passwords, body \in Changes : OpenPassword(r, a, guess, body)

RequestStep(r) ==
    \/ CheckConflict(r) \/ CheckPassword(r)
    \/ WriteNew(r) \/ WriteChange(r) \/ WritePassword(r) \/ WriteDelete(r)
    \/ Abort(r)

SessionStep(u) ==
    \/ \E body \in Changes : CreateUser(u, body)
    \/ \E password \in Passwords : Login(u, password)
    \/ Expire(u)

Next ==
    \/ \E u \in Users : SessionStep(u)
    \/ \E r \in Requests : OpenStep(r) \/ RequestStep(r)

Spec == Init /\ [][Next]_vars

-----------------------------------------------------------------------------
(* Properties.                                                              *)

Admins == {u \in Users : IsAdmin(u)}

\* "Admin users cannot demote themselves" and cannot delete themselves: the
\* last administrator is lost only when somebody is demoted or deleted on the
\* word of one who has been demoted or deleted in the meantime.
KeepsAdmin == Admins # {} => Admins' # {} \/ stale'

AdminRemains == [][KeepsAdmin]_vars

\* PATCH /users/me/password looks the caller up by the address that was read
\* with the token: unless that address has been changed meanwhile, the
\* password that was checked is that of the row that is then updated.
OwnPasswordOnly ==
    \A r \in Requests :
        req[r].op = "password" /\ req[r].step = "write" /\ ~req[r].moved
            => req[r].verified = req[r].actor
=============================================================================

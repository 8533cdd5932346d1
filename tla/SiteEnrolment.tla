--------------------------- MODULE SiteEnrolment ---------------------------
(***************************************************************************)
(* The enrolment of MAAS sites and the rotation of their access tokens.    *)
(*                                                                         *)
(* A site is a row of the site table, found by the cluster UUID of its     *)
(* MAAS.  MAAS posts an enrolment token, which the site then claims, polls *)
(* until an administrator has accepted the site, and is given an access    *)
(* token, which it exchanges for a new one at every rotation interval.     *)
(* Every API request runs in one READ COMMITTED transaction: its reads and *)
(* its writes are separate steps, its writes and its commit are one (the   *)
(* row locks hide the writes until then).                                  *)
(***************************************************************************)

CONSTANTS
    Sites,         \* cluster UUIDs, each with its MAAS
    EnrolTokens,   \* rows of the token table with purpose ENROLMENT
    AccessTokens,  \* and with purpose ACCESS (audience SITE)
    Requests,      \* API requests that may be open at once
    None,          \* no site, no token, no request
    LateCalls      \* whether MAAS may give up a call that is still running

Tokens == EnrolTokens \cup AccessTokens

ASSUME SiteEnrolmentAssumption ==
    /\ EnrolTokens \cap AccessTokens = {}
    /\ None \notin Sites \cup Tokens \cup Requests
    /\ LateCalls \in BOOLEAN

VARIABLES
    row,       \* site -> "none", "live" or "deleted" (a soft delete)
    accepted,  \* site -> its accepted column
    approval,  \* history: was the site approved, and since it last enrolled?
    token,     \* token -> "none", "valid", "expired" or "revoked" (no row)
    owner,     \* token -> its site_id column
    req,       \* request -> what it is doing, for whom, with what it has read
    waiting,   \* site -> the request its MAAS waits for
    using,     \* site -> the enrolment token its MAAS polls with
    held       \* site -> the access token its MAAS has stored

siteVars  == <<row, accepted, approval>>
tokenVars == <<token, owner>>
maasVars  == <<waiting, using, held>>
vars == <<row, accepted, approval, token, owner, req, waiting, using, held>>

MaasOps  == {"post", "update", "create", "poll", "refresh", "verify"}
AdminOps == {"accept", "reject"}

RequestStates ==
    [op : {"idle"} \cup MaasOps \cup AdminOps,
     from : Sites \cup {None}, site : Sites \cup {None}, tok : Tokens \cup {None}]

Idle == [op |-> "idle", from |-> None, site |-> None, tok |-> None]

TypeOK ==
    /\ row \in [Sites -> {"none", "live", "deleted"}]
    /\ accepted \in [Sites -> BOOLEAN]
    /\ approval \in [Sites -> {"never", "given", "lapsed"}]
    /\ token \in [Tokens -> {"none", "valid", "expired", "revoked"}]
    /\ owner \in [Tokens -> Sites \cup {None}]
    /\ req \in [Requests -> RequestStates]
    /\ waiting \in [Sites -> Requests \cup {None}]
    /\ using \in [Sites -> EnrolTokens \cup {None}]
    /\ held \in [Sites -> AccessTokens \cup {None}]

Init ==
    /\ row = [s \in Sites |-> "none"]
    /\ accepted = [s \in Sites |-> FALSE]
    /\ approval = [s \in Sites |-> "never"]
    /\ token = [t \in Tokens |-> "none"]
    /\ owner = [t \in Tokens |-> None]
    /\ req = [r \in Requests |-> Idle]
    /\ waiting = [s \in Sites |-> None]
    /\ using = [s \in Sites |-> None]
    /\ held = [s \in Sites |-> None]

-----------------------------------------------------------------------------
(* Tokens.                                                                  *)

HasRow(t) == token[t] \in {"valid", "expired"}

\* A user generates an enrolment token and hands it to the MAAS admins.
Generate(t) ==
    /\ t \in EnrolTokens
    /\ token[t] = "none"
    /\ token' = [token EXCEPT ![t] = "valid"]
    /\ UNCHANGED <<siteVars, owner, req, maasVars>>

\* The JWT expires; nothing deletes the row of an expired site token.
Expire(t) ==
    /\ token[t] = "valid"
    /\ token' = [token EXCEPT ![t] = "expired"]
    /\ UNCHANGED <<siteVars, owner, req, maasVars>>

\* A user deletes an enrolment token that was listed, and may be claimed since.
DeleteToken(t) ==
    /\ t \in EnrolTokens
    /\ HasRow(t)
    /\ token' = [token EXCEPT ![t] = "revoked"]
    /\ UNCHANGED <<siteVars, owner, req, maasVars>>

-----------------------------------------------------------------------------
(* Requests of a MAAS.                                                      *)

Open(r, op, from, site, tok) ==
    /\ req[r] = Idle
    /\ req' = [req EXCEPT ![r] =
                  [op |-> op, from |-> from, site |-> site, tok |-> tok]]

\* The MAAS of s makes a call, and waits for its answer.
Call(r, op, s, site, tok) ==
    /\ waiting[s] = None
    /\ Open(r, op, s, site, tok)
    /\ waiting' = [waiting EXCEPT ![s] = r]

\* Request r is over; the MAAS that waits for it no longer does.
Close(r) ==
    /\ req' = [req EXCEPT ![r] = Idle]
    /\ waiting' = [s \in Sites |-> IF waiting[s] = r THEN None ELSE waiting[s]]

\* MAAS learns the answer of r: it waits for it, and it is not lost.
Heard(r) == req[r].from # None /\ waiting[req[r].from] = r

\* POST /enroll: the token exists, is not expired, and has no site.
PostEnroll(r, s, t) ==
    /\ t \in EnrolTokens
    /\ token[t] = "valid"
    /\ owner[t] = None
    /\ Call(r, "post", s, s, t)
    /\ UNCHANGED <<siteVars, tokenVars, using, held>>

\* create_or_update_pending looks for a site that is not deleted.
FindSite(r) ==
    /\ req[r].op = "post"
    /\ req' = [req EXCEPT ![r].op =
                  IF row[req[r].site] = "live" THEN "update" ELSE "create"]
    /\ UNCHANGED <<siteVars, tokenVars, maasVars>>

\* Mutant of CanClaim: claim_jwt does not look at the token's site.
CanClaimAny(s, t) == HasRow(t)

\* claim_jwt finds the token with no site, or with this one.
CanClaim(s, t) == HasRow(t) /\ owner[t] \in {None, s}

\* create_pending's INSERT meets no row, or its recovery a deleted one.
CanCreate(s) == row[s] # "live"

CanWrite(r) ==
    /\ req[r].op = "create" => CanCreate(req[r].site)
    /\ CanClaim(req[r].site, req[r].tok)

\* update_pending, which does not ask whether the site was deleted since, or
\* create_pending, which revives a deleted one.  The answer is 202.
WritePending(r) ==
    LET s == req[r].site
        t == req[r].tok
    IN  /\ req[r].op \in {"update", "create"}
        /\ CanWrite(r)
        /\ row' = IF req[r].op = "create" THEN [row EXCEPT ![s] = "live"] ELSE row
        /\ accepted' = [accepted EXCEPT ![s] = FALSE]
        /\ approval' = [approval EXCEPT ![s] = IF @ = "given" THEN "lapsed" ELSE @]
        /\ owner' = [owner EXCEPT ![t] = s]
        /\ \/ /\ Heard(r)
              /\ using' = [using EXCEPT ![req[r].from] = t]
              /\ held' = [held EXCEPT ![req[r].from] = None]
           \/ UNCHANGED <<using, held>>
        /\ Close(r)
        /\ UNCHANGED token

\* The INSERT collides with a live site, or the token cannot be claimed: the
\* exception rolls the transaction back.
FailPending(r) ==
    /\ req[r].op \in {"update", "create"}
    /\ ~CanWrite(r)
    /\ Close(r)
    /\ UNCHANGED <<siteVars, tokenVars, using, held>>

\* Mutant of PollEnroll: a pending site gets an access token.
PollEnrollPending(r, s) ==
    LET t == using[s]
    IN  /\ t # None
        /\ held[s] = None
        /\ token[t] = "valid"
        /\ owner[t] # None
        /\ row[owner[t]] = "live"
        /\ Call(r, "poll", s, owner[t], t)
        /\ UNCHANGED <<siteVars, tokenVars, using, held>>

\* GET /enroll: get_enrolling finds the site of the token.  A pending site is
\* answered 204, which changes nothing.
PollEnroll(r, s) ==
    LET t == using[s]
    IN  /\ t # None
        /\ held[s] = None
        /\ token[t] = "valid"
        /\ owner[t] # None
        /\ row[owner[t]] = "live"
        /\ accepted[owner[t]]
        /\ Call(r, "poll", s, owner[t], t)
        /\ UNCHANGED <<siteVars, tokenVars, using, held>>

\* authenticated_site: the token's row joins a site that is not deleted.
Authenticated(t) ==
    /\ token[t] = "valid"
    /\ owner[t] # None
    /\ row[owner[t]] = "live"

\* GET /enroll/refresh and GET /enroll/verify, with the stored access token.
CallWithAccess(r, s, op) ==
    /\ held[s] # None
    /\ Authenticated(held[s])
    /\ Call(r, op, s, owner[held[s]], held[s])
    /\ UNCHANGED <<siteVars, tokenVars, using, held>>

\* A new access token for the site, which MAAS stores.
IssueAccess(r, k) ==
    /\ req[r].op \in {"poll", "refresh"}
    /\ token[k] = "none"
    /\ token' = [token EXCEPT ![k] = "valid"]
    /\ owner' = [owner EXCEPT ![k] = req[r].site]
    /\ \/ Heard(r) /\ held' = [held EXCEPT ![req[r].from] = k]
       \/ UNCHANGED held
    /\ Close(r)
    /\ UNCHANGED <<siteVars, using>>

\* Mutant of RemoveOldTokens: the token just verified is not left out.
RemoveOldTokensAll(r) ==
    /\ req[r].op = "verify"
    /\ token' = [t \in Tokens |->
                    IF t \in AccessTokens /\ owner[t] = req[r].site /\ HasRow(t)
                    THEN "revoked" ELSE token[t]]
    /\ Close(r)
    /\ UNCHANGED <<siteVars, owner, using, held>>

\* remove_old_tokens deletes the other access tokens of the site.
RemoveOldTokens(r) ==
    /\ req[r].op = "verify"
    /\ token' = [t \in Tokens |->
                    IF /\ t \in AccessTokens \ {req[r].tok}
                       /\ owner[t] = req[r].site
                       /\ HasRow(t)
                    THEN "revoked" ELSE token[t]]
    /\ Close(r)
    /\ UNCHANGED <<siteVars, owner, using, held>>

\* MAAS gives up a call, whose transaction goes on.
GiveUp(s) ==
    /\ LateCalls
    /\ waiting[s] # None
    /\ waiting' = [waiting EXCEPT ![s] = None]
    /\ UNCHANGED <<siteVars, tokenVars, req, using, held>>

-----------------------------------------------------------------------------
(* Requests of an administrator.                                            *)

\* accept_reject_pending has found the site pending.
OpenDecision(r, s, op) ==
    /\ row[s] = "live"
    /\ ~accepted[s]
    /\ Open(r, op, None, s, None)
    /\ UNCHANGED <<siteVars, tokenVars, maasVars>>

Accept(r) ==
    /\ req[r].op = "accept"
    /\ accepted' = [accepted EXCEPT ![req[r].site] = TRUE]
    /\ approval' = [approval EXCEPT ![req[r].site] = "given"]
    /\ Close(r)
    /\ UNCHANGED <<row, tokenVars, using, held>>

Reject(r) ==
    /\ req[r].op = "reject"
    /\ row' = [row EXCEPT ![req[r].site] = "deleted"]
    /\ Close(r)
    /\ UNCHANGED <<accepted, approval, tokenVars, using, held>>

\* DELETE /sites: one UPDATE, of the rows there are.
DeleteSite(s) ==
    /\ row' = [row EXCEPT ![s] = IF @ = "none" THEN "none" ELSE "deleted"]
    /\ UNCHANGED <<accepted, approval, tokenVars, req, maasVars>>

\* The API server dies, or the database fails: nothing is committed.
Abort(r) ==
    /\ req[r] # Idle
    /\ Close(r)
    /\ UNCHANGED <<siteVars, tokenVars, using, held>>

-----------------------------------------------------------------------------
TokenStep(t) == Generate(t) \/ Expire(t) \/ DeleteToken(t)

SiteStep(s) == GiveUp(s) \/ DeleteSite(s)

OpenStep(r) ==
    \E s \in Sites :
        \/ \E t \in EnrolTokens : PostEnroll(r, s, t)
        \/ PollEnroll(r, s)
        \/ \E op \in {"refresh", "verify"} : CallWithAccess(r, s, op)
        \/ \E op \in AdminOps : OpenDecision(r, s, op)

RequestStep(r) ==
    \/ FindSite(r) \/ WritePending(r) \/ FailPending(r)
    \/ \E k \in AccessTokens : IssueAccess(r, k)
    \/ RemoveOldTokens(r) \/ Accept(r) \/ Reject(r) \/ Abort(r)

Next ==
    \/ \E t \in Tokens : TokenStep(t)
    \/ \E s \in Sites : SiteStep(s)
    \/ \E r \in Requests : OpenStep(r) \/ RequestStep(r)

Spec == Init /\ [][Next]_vars

-----------------------------------------------------------------------------
(* Properties.                                                              *)

\* The token that a MAAS polls with is bound to its own site and to no other,
\* whoever else posted it: POST /enroll checks a site_id that may be stale,
\* and claim_jwt is what decides.
TokenEnrolsOneSite ==
    \A s \in Sites : using[s] # None => owner[using[s]] = s

\* No site has an access token unless an administrator has accepted it, and
\* no accepted site has enrolled again since it was accepted.
AccessFollowsApproval ==
    /\ \A k \in AccessTokens :
         token[k] # "none" => owner[k] # None /\ approval[owner[k]] # "never"
    /\ \A s \in Sites : accepted[s] => approval[s] = "given"

\* The rotation of access tokens never takes away the one that MAAS has
\* stored (GET /enroll/verify revokes "all other" tokens of the site).
StoredTokenIsKept ==
    \A s \in Sites : held[s] # None => token[held[s]] # "revoked"
=============================================================================

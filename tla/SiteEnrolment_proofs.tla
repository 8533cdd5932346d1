----------------------- MODULE SiteEnrolment_proofs ------------------------
(***************************************************************************)
(* Theorems about SiteEnrolment, for every set of sites, tokens and        *)
(* requests that are open at once.                                         *)
(***************************************************************************)
EXTENDS SiteEnrolment, TLAPS

-----------------------------------------------------------------------------
(* The inductive invariants.                                               *)

PostOps   == {"post", "update", "create"}
AccessOps == {"poll", "refresh", "verify"}

\* What an open request carries: a site, and, when a MAAS posts, the site of
\* that MAAS and an enrolment token.
Carries ==
    \A r \in Requests :
        /\ req[r].op # "idle" => req[r].site \in Sites
        /\ req[r].op \in PostOps =>
             req[r].from = req[r].site /\ req[r].tok \in EnrolTokens
        /\ req[r].op \in AccessOps => req[r].from \in Sites

TypeInv == TypeOK /\ Carries

\* A request that may lead to an access token was let in for a site that had
\* been approved.
LetIn ==
    \A r \in Requests :
        req[r].op \in AccessOps => approval[req[r].site] # "never"

EnrolInv == TypeInv /\ TokenEnrolsOneSite /\ AccessFollowsApproval /\ LetIn

\* MAAS waits for each of its calls, which are about its own site, and
\* verifies the token that it has stored.
OneCall ==
    \A r \in Requests :
        /\ req[r].from # None => waiting[req[r].from] = r
        /\ req[r].op \in AccessOps => req[r].site = req[r].from
        /\ req[r].op = "verify" => req[r].tok = held[req[r].from]

\* The token that MAAS has stored is one of its site.
HeldIsOwn ==
    \A s \in Sites :
        held[s] # None => owner[held[s]] = s /\ token[held[s]] # "none"

RotationInv == EnrolInv /\ OneCall /\ HeldIsOwn /\ StoredTokenIsKept

-----------------------------------------------------------------------------
(* Types.                                                                  *)

LEMMA InitTypeInv == Init => TypeInv
BY SiteEnrolmentAssumption
   DEF Init, TypeInv, TypeOK, Carries, RequestStates, Idle, MaasOps, AdminOps,
       PostOps, AccessOps

\* Every step keeps the types.
LEMMA NextTypeInv == TypeInv /\ [Next]_vars => TypeInv'
<1>. SUFFICES ASSUME TypeInv, [Next]_vars PROVE TypeInv'
  OBVIOUS
<1>. USE SiteEnrolmentAssumption DEF TypeInv, TypeOK, Carries, RequestStates, Idle, Tokens,
         MaasOps, AdminOps, PostOps, AccessOps, siteVars, tokenVars, maasVars
<1>1. ASSUME NEW t \in Tokens, Generate(t)
       PROVE  TypeInv'
  BY <1>1 DEF Generate
<1>2. ASSUME NEW t \in Tokens, Expire(t)
       PROVE  TypeInv'
  BY <1>2 DEF Expire
<1>3. ASSUME NEW t \in Tokens, DeleteToken(t)
       PROVE  TypeInv'
  BY <1>3 DEF DeleteToken, HasRow
<1>4. ASSUME NEW s \in Sites, GiveUp(s)
       PROVE  TypeInv'
  BY <1>4 DEF GiveUp
<1>5. ASSUME NEW s \in Sites, DeleteSite(s)
       PROVE  TypeInv'
  BY <1>5 DEF DeleteSite
<1>6. ASSUME NEW r \in Requests, NEW s \in Sites, NEW t \in EnrolTokens, PostEnroll(r, s, t)
       PROVE  TypeInv'
  BY <1>6 DEF PostEnroll, Call, Open
<1>7. ASSUME NEW r \in Requests, NEW s \in Sites, PollEnroll(r, s)
       PROVE  TypeInv'
  BY <1>7 DEF PollEnroll, Call, Open
<1>8. ASSUME NEW r \in Requests, NEW s \in Sites, NEW op \in {"refresh", "verify"}, CallWithAccess(r, s, op)
       PROVE  TypeInv'
  BY <1>8 DEF CallWithAccess, Authenticated, Call, Open
<1>9. ASSUME NEW r \in Requests, NEW s \in Sites, NEW op \in AdminOps, OpenDecision(r, s, op)
       PROVE  TypeInv'
  BY <1>9 DEF OpenDecision, Open
<1>10. ASSUME NEW r \in Requests, FindSite(r)
       PROVE  TypeInv'
  BY <1>10 DEF FindSite
<1>11. ASSUME NEW r \in Requests, WritePending(r)
       PROVE  TypeInv'
  BY <1>11 DEF WritePending, CanWrite, CanCreate, CanClaim, HasRow, Heard, Close
<1>12. ASSUME NEW r \in Requests, FailPending(r)
       PROVE  TypeInv'
  BY <1>12 DEF FailPending, Close
<1>13. ASSUME NEW r \in Requests, NEW k \in AccessTokens, IssueAccess(r, k)
       PROVE  TypeInv'
  BY <1>13 DEF IssueAccess, Heard, Close
<1>14. ASSUME NEW r \in Requests, RemoveOldTokens(r)
       PROVE  TypeInv'
  BY <1>14 DEF RemoveOldTokens, HasRow, Close
<1>15. ASSUME NEW r \in Requests, Accept(r)
       PROVE  TypeInv'
  BY <1>15 DEF Accept, Close
<1>16. ASSUME NEW r \in Requests, Reject(r)
       PROVE  TypeInv'
  BY <1>16 DEF Reject, Close
<1>17. ASSUME NEW r \in Requests, Abort(r)
       PROVE  TypeInv'
  BY <1>17 DEF Abort, Close
<1>18. CASE UNCHANGED vars
  BY <1>18 DEF vars
<1>. HIDE DEF TypeInv, TypeOK, Carries, RequestStates, Idle, Tokens, MaasOps,
              AdminOps, PostOps, AccessOps, siteVars, tokenVars, maasVars
<1>. QED
  BY <1>1, <1>2, <1>3, <1>4, <1>5, <1>6, <1>7, <1>8, <1>9, <1>10, <1>11, <1>12, <1>13, <1>14, <1>15, <1>16, <1>17, <1>18
     DEF Next, TokenStep, SiteStep, OpenStep, RequestStep

\* Type correctness of the sites, the tokens, the requests and the clients.
THEOREM EnrolTypeCorrect == Spec => []TypeOK
<1>1. TypeInv => TypeOK
  BY DEF TypeInv
<1>. QED
  BY <1>1, InitTypeInv, NextTypeInv, PTL DEF Spec

-----------------------------------------------------------------------------
(* Enrolment.                                                              *)

LEMMA InitEnrolInv == Init => EnrolInv
BY InitTypeInv, SiteEnrolmentAssumption
   DEF Init, EnrolInv, TokenEnrolsOneSite, AccessFollowsApproval, LetIn, Idle,
       AccessOps, Tokens

\* claim_jwt keeps the owner of a claimed token, and what a request has been
\* let in for stays approved at least once.
LEMMA NextEnrolInv == EnrolInv /\ [Next]_vars => EnrolInv'
<1>. DEFINE P == TokenEnrolsOneSite /\ AccessFollowsApproval /\ LetIn
<1>. SUFFICES ASSUME EnrolInv, [Next]_vars PROVE P'
  BY NextTypeInv DEF EnrolInv
<1>. USE SiteEnrolmentAssumption
     DEF EnrolInv, TokenEnrolsOneSite, AccessFollowsApproval, LetIn, TypeInv,
         TypeOK, Carries, RequestStates, Idle, Tokens, MaasOps, AdminOps, PostOps,
         AccessOps, siteVars, tokenVars, maasVars
<1>1. ASSUME NEW t \in Tokens, Generate(t)
       PROVE  P'
  BY <1>1 DEF Generate
<1>2. ASSUME NEW t \in Tokens, Expire(t)
       PROVE  P'
  BY <1>2 DEF Expire
<1>3. ASSUME NEW t \in Tokens, DeleteToken(t)
       PROVE  P'
  BY <1>3 DEF DeleteToken, HasRow
<1>4. ASSUME NEW s \in Sites, GiveUp(s)
       PROVE  P'
  BY <1>4 DEF GiveUp
<1>5. ASSUME NEW s \in Sites, DeleteSite(s)
       PROVE  P'
  BY <1>5 DEF DeleteSite
<1>6. ASSUME NEW r \in Requests, NEW s \in Sites, NEW t \in EnrolTokens, PostEnroll(r, s, t)
       PROVE  P'
  BY <1>6 DEF PostEnroll, Call, Open
<1>7. ASSUME NEW r \in Requests, NEW s \in Sites, PollEnroll(r, s)
       PROVE  P'
  BY <1>7 DEF PollEnroll, Call, Open
<1>8. ASSUME NEW r \in Requests, NEW s \in Sites, NEW op \in {"refresh", "verify"}, CallWithAccess(r, s, op)
       PROVE  P'
  BY <1>8 DEF CallWithAccess, Authenticated, Call, Open
<1>9. ASSUME NEW r \in Requests, NEW s \in Sites, NEW op \in AdminOps, OpenDecision(r, s, op)
       PROVE  P'
  BY <1>9 DEF OpenDecision, Open
<1>10. ASSUME NEW r \in Requests, FindSite(r)
       PROVE  P'
  BY <1>10 DEF FindSite
<1>11. ASSUME NEW r \in Requests, WritePending(r)
       PROVE  P'
  BY <1>11 DEF WritePending, CanWrite, CanCreate, CanClaim, HasRow, Heard, Close
<1>12. ASSUME NEW r \in Requests, FailPending(r)
       PROVE  P'
  BY <1>12 DEF FailPending, Close
<1>13. ASSUME NEW r \in Requests, NEW k \in AccessTokens, IssueAccess(r, k)
       PROVE  P'
  BY <1>13 DEF IssueAccess, Heard, Close
<1>14. ASSUME NEW r \in Requests, RemoveOldTokens(r)
       PROVE  P'
  BY <1>14 DEF RemoveOldTokens, HasRow, Close
<1>15. ASSUME NEW r \in Requests, Accept(r)
       PROVE  P'
  BY <1>15 DEF Accept, Close
<1>16. ASSUME NEW r \in Requests, Reject(r)
       PROVE  P'
  BY <1>16 DEF Reject, Close
<1>17. ASSUME NEW r \in Requests, Abort(r)
       PROVE  P'
  BY <1>17 DEF Abort, Close
<1>18. CASE UNCHANGED vars
  BY <1>18 DEF vars
<1>. HIDE DEF EnrolInv, TokenEnrolsOneSite, AccessFollowsApproval, LetIn,
              TypeInv, TypeOK, Carries, RequestStates, Idle, Tokens, MaasOps,
              AdminOps, PostOps, AccessOps, siteVars, tokenVars, maasVars, P
<1>. QED
  BY <1>1, <1>2, <1>3, <1>4, <1>5, <1>6, <1>7, <1>8, <1>9, <1>10, <1>11, <1>12, <1>13, <1>14, <1>15, <1>16, <1>17, <1>18
     DEF Next, TokenStep, SiteStep, OpenStep, RequestStep

\* A MAAS polls with a token of its own site only, however many requests claim
\* the same token at once.
THEOREM TokensAreNotShared == Spec => []TokenEnrolsOneSite
<1>1. EnrolInv => TokenEnrolsOneSite
  BY DEF EnrolInv
<1>. QED
  BY <1>1, InitEnrolInv, NextEnrolInv, PTL DEF Spec

\* Access tokens are only ever issued for sites that an administrator has
\* accepted, and enrolling again takes the acceptance back.
THEOREM ApprovalComesFirst == Spec => []AccessFollowsApproval
<1>1. EnrolInv => AccessFollowsApproval
  BY DEF EnrolInv
<1>. QED
  BY <1>1, InitEnrolInv, NextEnrolInv, PTL DEF Spec

-----------------------------------------------------------------------------
(* Rotation.                                                               *)

LEMMA InitRotationInv == Init => RotationInv
BY InitEnrolInv
   DEF Init, RotationInv, OneCall, HeldIsOwn, StoredTokenIsKept, Idle, AccessOps

\* While MAAS makes one call at a time, nothing is stored or revoked for its
\* site but by that call.
LEMMA NextRotationInv ==
    ~LateCalls /\ RotationInv /\ [Next]_vars => RotationInv'
<1>. DEFINE P == OneCall /\ HeldIsOwn /\ StoredTokenIsKept
<1>. SUFFICES ASSUME ~LateCalls, RotationInv, [Next]_vars PROVE P'
  BY NextEnrolInv DEF RotationInv
<1>. USE SiteEnrolmentAssumption
     DEF RotationInv, OneCall, HeldIsOwn, StoredTokenIsKept, EnrolInv,
         TokenEnrolsOneSite, LetIn, TypeInv, TypeOK, Carries, RequestStates,
         Idle, Tokens, MaasOps, AdminOps, PostOps, AccessOps, siteVars,
         tokenVars, maasVars
<1>1. ASSUME NEW t \in Tokens, Generate(t)
       PROVE  P'
  BY <1>1 DEF Generate
<1>2. ASSUME NEW t \in Tokens, Expire(t)
       PROVE  P'
  BY <1>2 DEF Expire
<1>3. ASSUME NEW t \in Tokens, DeleteToken(t)
       PROVE  P'
  BY <1>3 DEF DeleteToken, HasRow
<1>4. ASSUME NEW s \in Sites, GiveUp(s)
       PROVE  P'
  BY <1>4 DEF GiveUp
<1>5. ASSUME NEW s \in Sites, DeleteSite(s)
       PROVE  P'
  BY <1>5 DEF DeleteSite
<1>6. ASSUME NEW r \in Requests, NEW s \in Sites, NEW t \in EnrolTokens, PostEnroll(r, s, t)
       PROVE  P'
  BY <1>6 DEF PostEnroll, Call, Open
<1>7. ASSUME NEW r \in Requests, NEW s \in Sites, PollEnroll(r, s)
       PROVE  P'
  BY <1>7 DEF PollEnroll, Call, Open
<1>8. ASSUME NEW r \in Requests, NEW s \in Sites, NEW op \in {"refresh", "verify"}, CallWithAccess(r, s, op)
       PROVE  P'
  BY <1>8 DEF CallWithAccess, Authenticated, Call, Open
<1>9. ASSUME NEW r \in Requests, NEW s \in Sites, NEW op \in AdminOps, OpenDecision(r, s, op)
       PROVE  P'
  BY <1>9 DEF OpenDecision, Open
<1>10. ASSUME NEW r \in Requests, FindSite(r)
       PROVE  P'
  BY <1>10 DEF FindSite
<1>11. ASSUME NEW r \in Requests, WritePending(r)
       PROVE  P'
  <2>. DEFINE s == req[r].site
              t == req[r].tok
  <2>1. /\ s \in Sites /\ req[r].from = s /\ t \in EnrolTokens
        /\ waiting[s] = r
    BY <1>11 DEF WritePending
  <2>2. /\ owner' = [owner EXCEPT ![t] = s]
        /\ held' = [held EXCEPT ![s] = None] \/ held' = held
        /\ token' = token
        /\ req' = [req EXCEPT ![r] = Idle]
        /\ waiting' = [u \in Sites |-> IF waiting[u] = r THEN None ELSE waiting[u]]
    BY <1>11, <2>1 DEF WritePending, Heard, Close
  <2>3. OneCall'
    BY <2>1, <2>2
  <2>4. HeldIsOwn' /\ StoredTokenIsKept'
    <3>. SUFFICES ASSUME NEW u \in Sites, held'[u] # None
                  PROVE  /\ owner'[held'[u]] = u
                         /\ token'[held'[u]] \notin {"none", "revoked"}
      OBVIOUS
    <3>1. held'[u] = held[u] /\ held[u] \in AccessTokens
      BY <2>1, <2>2
    <3>. QED
      BY <2>1, <2>2, <3>1
  <2>. QED
    BY <2>3, <2>4
<1>12. ASSUME NEW r \in Requests, FailPending(r)
       PROVE  P'
  BY <1>12 DEF FailPending, Close
<1>13. ASSUME NEW r \in Requests, NEW k \in AccessTokens, IssueAccess(r, k)
       PROVE  P'
  <2>. DEFINE s == req[r].site
  <2>1. /\ s \in Sites /\ req[r].from = s /\ waiting[s] = r
        /\ token[k] = "none"
    BY <1>13 DEF IssueAccess
  <2>2. /\ token' = [token EXCEPT ![k] = "valid"]
        /\ owner' = [owner EXCEPT ![k] = s]
        /\ held' = [held EXCEPT ![s] = k] \/ held' = held
        /\ req' = [req EXCEPT ![r] = Idle]
        /\ waiting' = [u \in Sites |-> IF waiting[u] = r THEN None ELSE waiting[u]]
    BY <1>13, <2>1 DEF IssueAccess, Heard, Close
  <2>3. OneCall'
    BY <2>1, <2>2
  <2>4. HeldIsOwn' /\ StoredTokenIsKept'
    <3>. SUFFICES ASSUME NEW u \in Sites, held'[u] # None
                  PROVE  /\ owner'[held'[u]] = u
                         /\ token'[held'[u]] \notin {"none", "revoked"}
      OBVIOUS
    <3>1. CASE u = s /\ held'[u] = k
      BY <2>1, <2>2, <3>1
    <3>2. CASE held'[u] = held[u]
      <4>1. held[u] \in AccessTokens /\ held[u] # k
        BY <2>1, <3>2
      <4>. QED
        BY <2>1, <2>2, <3>2, <4>1
    <3>. QED
      BY <2>1, <2>2, <3>1, <3>2
  <2>. QED
    BY <2>3, <2>4
<1>14. ASSUME NEW r \in Requests, RemoveOldTokens(r)
       PROVE  P'
  BY <1>14 DEF RemoveOldTokens, HasRow, Close
<1>15. ASSUME NEW r \in Requests, Accept(r)
       PROVE  P'
  BY <1>15 DEF Accept, Close
<1>16. ASSUME NEW r \in Requests, Reject(r)
       PROVE  P'
  BY <1>16 DEF Reject, Close
<1>17. ASSUME NEW r \in Requests, Abort(r)
       PROVE  P'
  BY <1>17 DEF Abort, Close
<1>18. CASE UNCHANGED vars
  BY <1>18 DEF vars
<1>. HIDE DEF RotationInv, OneCall, HeldIsOwn, StoredTokenIsKept, EnrolInv,
              TokenEnrolsOneSite, LetIn, TypeInv, TypeOK, Carries,
              RequestStates, Idle, Tokens, MaasOps, AdminOps, PostOps,
              AccessOps, siteVars, tokenVars, maasVars, P
<1>. QED
  BY <1>1, <1>2, <1>3, <1>4, <1>5, <1>6, <1>7, <1>8, <1>9, <1>10, <1>11, <1>12, <1>13, <1>14, <1>15, <1>16, <1>17, <1>18
     DEF Next, TokenStep, SiteStep, OpenStep, RequestStep

\* A MAAS that waits for each of its calls never has the token it stored
\* revoked by the verification of another, whatever answers are lost.
THEOREM RotationIsSafe ==
    ASSUME ~LateCalls PROVE Spec => []StoredTokenIsKept
<1>1. RotationInv => StoredTokenIsKept
  BY DEF RotationInv
<1>2. RotationInv /\ [Next]_vars => RotationInv'
  BY NextRotationInv
<1>. QED
  BY <1>1, <1>2, InitRotationInv, PTL DEF Spec
=============================================================================

------------------------------ MODULE MCServer ------------------------------
(***************************************************************************)
(* Small instances of the parts of the server.                             *)
(***************************************************************************)
EXTENDS Server, TLC

CONSTANTS
    u1, u2, r1, r2,      \* interchangeable: rows, and requests
    s1, s2, s3, k1, k2,  \* sources and sites, keys
    t1, t2, t3,          \* tokens, items
    n1, n2               \* names and values

UserBody(username, email, password, admin) ==
    [username |-> username, email |-> email, password |-> password, admin |-> admin]

MCUserChanges ==
    {UserBody(n1, n1, n1, TRUE), UserBody(n2, n2, n2, TRUE),
     UserBody(None, None, None, FALSE), UserBody(None, n1, None, None),
     UserBody(None, None, n2, None)}

ProfileBody(selections, option1, option2) ==
    [selections |-> selections, config |-> (k1 :> option1 @@ k2 :> option2)]

MCNewProfiles == {ProfileBody(n1, n1, n1)}
MCProfileChanges == {ProfileBody(n2, n2, None), ProfileBody(None, None, n2)}

MCPriority1 == s1 :> 1

\* The name of k2 has that of k1 in it.  Two requests are enough to overlap,
\* and two images for one to be found in place of the other.
MCLike1 == k1 :> {k1, k2} @@ k2 :> {k2}
MCSelImages == "one image" :> {k1} @@ "two images" :> {k1, k2}
MCSelOpen == "one image" :> 2 @@ "two images" :> 1

\* s2 and s3 have the same priority.
MCPriority == s1 :> 2 @@ s2 :> 1 @@ s3 :> 1
MCLike == MCLike1

\* The stored name of k2 has that of k1 in it.
MCFolder == k1 :> n1 @@ k2 :> n1
MCSimilar == k1 :> {k1, k2} @@ k2 :> {k2}

Symmetry == Permutations({r1, r2}) \cup Permutations({u1, u2})
=============================================================================

------------------------ MODULE MCWorkerCredentials ------------------------
(* Small instances of WorkerCredentials for TLC: a unit is half a day. *)
EXTENDS WorkerCredentials, TLC

CONSTANTS s1, t1, t2, t3, t4, t5, t6

OneSource == {s1}
SixTokens == {t1, t2, t3, t4, t5, t6}

Symmetry == Permutations(Tokens)
=============================================================================

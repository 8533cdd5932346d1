-------------------------- MODULE MCImageRetention --------------------------
(* Small instances of ImageRetention for TLC.                              *)
EXTENDS ImageRetention

\* The name of 2 contains the name of 1, as 20240101.1 contains 20240101.
LikeOneInTwo == [v \in Versions |-> IF v = 1 THEN {1, 2} ELSE {v}]

\* No version name contains another one.
LikeIsEqual == [v \in Versions |-> {v}]

ThreeVersions == 1..3
TwoVersions == 1..2
=============================================================================

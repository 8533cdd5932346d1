----------------------------- MODULE ItemStore -----------------------------
(***************************************************************************)
(* What the server promises about boot asset items and their objects,      *)
(* whatever requests, workflows and faults get in the way of each other:   *)
(* an id is listed once and removed once, an object is stored only for an  *)
(* id that has been listed, and only the removal of the row condemns it.   *)
(* Nobody promises that a condemned object is deleted, nor that it does    *)
(* not come back.                                                          *)
(***************************************************************************)

CONSTANT Items   \* ids of boot asset items

VARIABLES
    listed,   \* items with a row
    gone,     \* items the row of which was removed
    object,   \* items with an object
    doomed    \* items the object of which is to be deleted

vars == <<listed, gone, object, doomed>>

Init == listed = {} /\ gone = {} /\ object = {} /\ doomed = {}

\* A sync lists items; none that was removed.
List(items) ==
    /\ items \subseteq Items \ gone
    /\ listed' = listed \cup items
    /\ UNCHANGED <<gone, object, doomed>>

\* A download ends, perhaps after the item was removed.
Upload(i) ==
    /\ i \in listed \cup gone
    /\ object' = object \cup {i}
    /\ UNCHANGED <<listed, gone, doomed>>

\* The row goes and the object is condemned in one step; twice when two
\* requests remove the item.
Remove(i) ==
    /\ i \in listed \cup gone
    /\ listed' = listed \ {i}
    /\ gone' = gone \cup {i}
    /\ doomed' = doomed \cup {i}
    /\ UNCHANGED object

\* The object is deleted, and the order to do so may stand.
Delete(i) ==
    /\ i \in doomed
    /\ object' = object \ {i}
    /\ doomed' \in {doomed, doomed \ {i}}
    /\ UNCHANGED <<listed, gone>>

\* The order is lost, and the object stays.
Lose(i) ==
    /\ i \in doomed
    /\ doomed' = doomed \ {i}
    /\ UNCHANGED <<listed, gone, object>>

Next ==
    \/ \E items \in SUBSET Items : List(items)
    \/ \E i \in Items : Upload(i) \/ Remove(i) \/ Delete(i) \/ Lose(i)

Spec == Init /\ [][Next]_vars
=============================================================================

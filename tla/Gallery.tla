------------------------------- MODULE Gallery -------------------------------
(***************************************************************************)
(* What the images of a dish promise their user: a bounded set of pictures *)
(* of which exactly one is the cover as soon as there is one.  Adding,     *)
(* choosing a cover and removing are atomic.                               *)
(***************************************************************************)
EXTENDS Naturals, FiniteSets

CONSTANTS Images, MaxImages

VARIABLES
    pics,   \* the pictures of the dish
    cover   \* the pictures marked as cover

vars == <<pics, cover>>

Init == pics = {} /\ cover = {}

(* The first picture becomes the cover.                                    *)
Add(i) ==
    /\ i \notin pics
    /\ Cardinality(pics) < MaxImages
    /\ pics' = pics \cup {i}
    /\ cover' = IF pics = {} THEN {i} ELSE cover

Choose(i) ==
    /\ i \in pics
    /\ cover' = {i}
    /\ UNCHANGED pics

(* Removing the cover makes another picture the cover, if one is left.     *)
Remove(i) ==
    /\ i \in pics
    /\ pics' = pics \ {i}
    /\ IF i \in cover /\ pics' # {}
       THEN \E j \in pics' : cover' = {j}
       ELSE cover' = cover \ {i}

Next == \E i \in Images : Add(i) \/ Choose(i) \/ Remove(i)

Spec == Init /\ [][Next]_vars
=============================================================================

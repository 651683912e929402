----------------------------- MODULE MCTraffic ------------------------------
(* Small instances of Traffic. *)
EXTENDS Traffic, TLC

CONSTANTS ann, bob, c1, c2, n1

OnTwo == [c \in Conns |-> IF c = c2 THEN 2 ELSE 1]

Ann == [id |-> ann, name |-> n1, linked |-> FALSE, on |-> TRUE,
        limit |-> 2, used |-> 0, total |-> 0, since |-> 1]

AnnOnOne == [users |-> {Ann}, conns |-> {[id |-> c1, user |-> ann, last |-> 0]}]

AnnOnTwo == [AnnOnOne EXCEPT !.conns = @ \cup {[id |-> c2, user |-> ann, last |-> 0]}]

\* Two days around a new year that falls into the middle of a week.
Weeks == <<1, 1>>
Months == <<12, 1>>
Years == <<2025, 2026>>

WeeklyForAnn == [i \in Ids |-> IF i = ann THEN "weekly" ELSE "never"]
NeverExpires == [i \in Ids |-> 9]

Empty == [users |-> {}, conns |-> {}]

Scene(d, acts) == [doc |-> d, may |-> acts]

AllScenes ==
    {Scene(AnnOnOne, {"traffic", "restart", "edit"}),
     Scene(AnnOnOne, {"traffic", "restart", "days"}),
     Scene(AnnOnTwo, {"traffic"}),
     Scene(AnnOnOne, {"traffic", "blank"}),
     Scene(AnnOnOne, {"traffic", "remnawave"}),
     Scene(Empty, {"remnawave"}),
     Scene(Empty, {"remnawave", "now"}),
     Scene(AnnOnOne, {"remnawave", "edit", "together"})}
=============================================================================

------------------------------ MODULE MCEngine ------------------------------
(* Values for the functions of Engine's constants.                         *)
EXTENDS Engine

\* Two turns of a conversation and a stranger: c2 repeats the prompt of c1 and
\* goes on; s1 shares nothing.  d1 and d2 are such turns with shorter answers,
\* d2 repeating a part of the prompt of d1.
TwoTurns == [r \in Req |-> CASE r \in {"c1", "d1"} -> 5 [] r = "c2" -> 7
                             [] r = "d2" -> 3 [] r = "s1" -> 4]
TwoTurnsShared == [r \in Req |-> CASE r \in {"c1", "c2", "d1"} -> 5 [] r = "d2" -> 3
                                   [] r = "s1" -> 0]
Answers == [r \in Req |-> IF r \in {"d1", "d2"} THEN 1 ELSE 2]

\* Longer turns, with the last checkpoint of c1 inside an attention block that
\* c1 fills before it ends.
LongTurns == [r \in Req |-> CASE r = "c1" -> 8 [] r = "c2" -> 9 [] OTHER -> 4]
LongTurnsShared == [r \in Req |-> CASE r = "c1" -> 8 [] r = "c2" -> 8 [] OTHER -> 0]

OneToken == [r \in Req |-> 1]
TwoTokens == [r \in Req |-> 2]

OldestLast == [r \in Req |-> CASE r = "c1" -> 3 [] r = "c2" -> 2 [] OTHER -> 1]

\* First come, first served, one output under way.
Plain == [policy |-> "fcfs", reserveFull |-> FALSE, depth |-> 1, gold |-> TRUE,
          blocks |-> Block, clients |-> Req \ {"d1", "d2"}, aborts |-> {}, resets |-> FALSE]

Aborting  == [Plain EXCEPT !.aborts = {"c1"}]
Debug     == [Aborting EXCEPT !.gold = FALSE, !.reserveFull = TRUE]
Priority  == [Plain EXCEPT !.policy = "priority"]
Overlap   == [Aborting EXCEPT !.depth = 2, !.blocks = 1 .. 5]
Resetting == [Plain EXCEPT !.depth = 2, !.clients = {"d1", "d2"}, !.resets = TRUE]

Tight     == [Plain EXCEPT !.blocks = 1 .. 5]

AllSettings == {Tight, Aborting, Debug, Priority, Overlap, Resetting}

\* One setting, for the expected violation and for the limits that the README lists.
PlainOnly     == {Plain}
AbortingOnly  == {Aborting}
ResettingOnly == {Resetting}
=============================================================================

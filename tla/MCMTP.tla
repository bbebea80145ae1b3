-------------------------------- MODULE MCMTP --------------------------------
(* Values for the functions of MTP's constants.                            *)
EXTENDS MTP

Mixed  == [r \in Req |-> IF r = "b" THEN 2 ELSE 3]
Fours  == [r \in Req |-> IF r = "c" THEN 9 ELSE 4]

\* Two requests with one draft, one with three.
Usual == {[clients |-> {"a", "b"}, drafts |-> 1], [clients |-> {"c"}, drafts |-> 3]}

Ones  == [r \in Req |-> 1]
Nines == [r \in Req |-> 9]

ThreeDrafts == {[clients |-> Req, drafts |-> 3]}
\* For the limits that the README lists.
OneDraft == {[clients |-> {"a", "b"}, drafts |-> 1]}

None0  == [r \in Req |-> 0]
NoHash == {}
=============================================================================

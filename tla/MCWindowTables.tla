---------------------------- MODULE MCWindowTables ----------------------------
(* Values for the constants of WindowTables.                               *)
EXTENDS WindowTables

F(bs)    == [kind |-> "full",   bs |-> bs, span |-> 0]
W(bs, w) == [kind |-> "window", bs |-> bs, span |-> w]
C(bs, c) == [kind |-> "chunk",  bs |-> bs, span |-> c]

Five      == [r \in Req |-> 5]
SevenFive == [r \in Req |-> IF r = "a" THEN 7 ELSE 5]

\* One group, and a connector that loads a block of tokens behind a hit.
OneGroup == {[groups |-> gs, length |-> SevenFive, chunk |-> 3, exts |-> {0, 2}, blocks |-> 1 .. 5] :
              gs \in {<<W(1, 3)>>, <<W(2, 3)>>, <<W(2, 4)>>, <<C(2, 4)>>}}

\* Full attention and another group, which is small.
TwoGroups == {[groups |-> gs, length |-> Five, chunk |-> 2, exts |-> {0}, blocks |-> 1 .. 6] :
               gs \in {<<F(2), W(1, 2)>>, <<F(2), C(2, 2)>>}}

Usual == OneGroup \cup TwoGroups

\* For the limits that the README lists: both.
Loaded == {[groups |-> <<F(2), W(2, 4)>>, length |-> SevenFive, chunk |-> 5, exts |-> {0, 2},
            blocks |-> 1 .. 6]}

\* The hashes of blocks of up to seven tokens, in either group.
SevenTokens == {1, 2} \X ((Req \cup {"trunk"}) \X (1 .. 7))
=============================================================================

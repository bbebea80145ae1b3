--------------------------- MODULE MCEncoderInputs ---------------------------
(* Values for the functions of EncoderInputs' constants.                   *)
EXTENDS EncoderInputs

Item(h, start, len) == [hash |-> h, start |-> start, len |-> len, embeds |-> 0 .. len - 1]

\* The placeholder of an input may begin and end with tokens of its own.
Marked(h, start, len) == [Item(h, start, len) EXCEPT !.embeds = 1 .. len - 2]

Uneven   == [h \in Hash |-> IF h = "z" THEN 1 ELSE 2]
TwoEach  == [h \in Hash |-> 2]
NoHits   == [r \in Req |-> {0}]
Ranks    == [r \in Req |-> IF r = "a" THEN 3 ELSE IF r = "b" THEN 2 ELSE 1]
Of(n)    == [r \in Req |-> n]

\* An input that is used twice, inputs that two requests share, adjacent ones.
SharedItems == [r \in Req |->
  CASE r = "a" -> <<Item("x", 0, 2), Marked("y", 3, 4)>>
    [] r = "b" -> <<Item("x", 1, 2), Item("z", 3, 1), Item("x", 5, 2)>>
    [] OTHER -> <<Item("z", 4, 1)>>]
SomeHits == [r \in Req |-> IF r = "a" THEN {0, 4} ELSE {0}]

\* Each request has inputs of its own.
OwnItems == [r \in Req |->
  IF r = "a" THEN <<Item("x", 0, 2), Item("y", 3, 2)>> ELSE <<Item("z", 1, 2), Item("w", 3, 2)>>]

\* An input in every third of a prompt.
Thirds   == [r \in Req |->
  IF r = "a" THEN <<Item("x", 0, 2), Item("y", 3, 2), Item("z", 6, 2)>>
  ELSE IF r = "b" THEN <<Item("y", 1, 2), Item("z", 4, 2), Item("w", 7, 2)>>
  ELSE <<Item("v", 2, 2), Item("u", 5, 2)>>]

\* Two inputs next to one another, and two in one Mamba block.
Adjacent == [r \in Req |-> <<Item("x", 1, 2), Item("y", 3, 2)>>]
Apart    == [r \in Req |-> <<Item("x", 3, 2), Item("y", 6, 2)>>]

\* Shared inputs of uneven sizes that do not all fit, resets, and two outputs under
\* way.
Sharing ==
  [clients |-> Req, prompt |-> Of(7), items |-> SharedItems, size |-> Uneven,
   hits |-> SomeHits, budget |-> 3, threshold |-> 0, encBudget |-> 3, cacheSize |-> 3,
   maxRunning |-> 2, policy |-> "fcfs", shift |-> 0, drafter |-> FALSE, whole |-> FALSE,
   stateBlock |-> 0, depth |-> 2, aborts |-> {"a"}, resets |-> TRUE, maxShort |-> 1]

\* Without resets, and with more aborts.
Steady == [Sharing EXCEPT !.resets = FALSE, !.aborts = {"a", "b"}]

\* Inputs that are not shared, looked up one token ahead.
Owning ==
  [Sharing EXCEPT !.clients = {"a", "b"}, !.items = OwnItems, !.size = TwoEach,
     !.encBudget = 4, !.cacheSize = 4, !.shift = 1, !.aborts = {"a", "b"}, !.resets = FALSE,
     !.maxShort = 2]

\* Inputs that may not be split.
WholeInput ==
  [Owning EXCEPT !.hits = NoHits, !.shift = 0, !.whole = TRUE, !.aborts = {}, !.maxShort = 0]

WholeShared ==
  [Sharing EXCEPT !.clients = {"a", "b"}, !.hits = NoHits, !.budget = 5, !.encBudget = 4,
     !.cacheSize = 4, !.whole = TRUE, !.depth = 1, !.aborts = {}, !.resets = FALSE, !.maxShort = 0]

\* The priority policy, with a cap on the tokens of a prefill.
Ranked ==
  [Sharing EXCEPT !.prompt = Of(9), !.items = Thirds, !.size = TwoEach, !.hits = NoHits,
     !.budget = 5, !.threshold = 2, !.encBudget = 2, !.cacheSize = 4, !.maxRunning = 3,
     !.policy = "priority", !.depth = 1, !.aborts = {"a", "b"}, !.resets = FALSE,
     !.maxShort = 2]

AllSettings == {Sharing, Steady, Owning, WholeInput, WholeShared, Ranked}

\* For the limits that the README lists.
DraftsMtp    == {[Steady EXCEPT !.drafter = TRUE]}
DraftsEagle  == {[Owning EXCEPT !.drafter = TRUE]}
NextToIt     == {[Owning EXCEPT !.cacheSize = 2, !.items = Adjacent]}
InOneBlock   == {[Owning EXCEPT !.clients = {"a"}, !.prompt = Of(13), !.items = Apart, !.shift = 0,
                    !.budget = 8, !.encBudget = 2, !.cacheSize = 2, !.stateBlock = 4]}
=============================================================================

------------------------------ MODULE MCRemoteKV ------------------------------
(* Values for the functions of RemoteKV's constants.                       *)
EXTENDS RemoteKV

\* Two requests with one text, the second of them longer, and a stranger.
TwoAlike == [r \in Req |-> IF r = "c" THEN "other" ELSE "same"]
AllAlike == [r \in Req |-> "same"]
FourPrompts == [r \in Req |-> CASE r = "a" -> 4 [] r = "b" -> 5 [] r = "c" -> 3]

\* The hashes of three blocks of either text.
ThreeBlocks == {"same", "other"} \X (0 .. 2)

\* Blocks differ in nothing but their names.
Blocks == Permutations(Block)

\* Asynchronous loads that may fail and are then computed again, aborts at both
\* places where the engine takes them, and the blocks of one request sent on.  Two
\* requests of three blocks each share four.
Asynchronous ==
  [clients |-> {"a", "b"}, text |-> TwoAlike, prompt |-> FourPrompts, maxOut |-> 2,
   threshold |-> 0, maxRunning |-> 2, async |-> {"a", "b"}, sync |-> {}, senders |-> {"a"},
   recompute |-> TRUE, whole |-> TRUE, reserveFull |-> FALSE, loses |-> TRUE,
   abortIn |-> {"idle", "output"}, again |-> {}]

\* The policy that fails the requests whose blocks are invalid; one request runs at
\* a time, so that none computes from a block that another one has just loaded.
Failing ==
  [Asynchronous EXCEPT !.clients = {"a", "b", "c"}, !.maxOut = 1, !.maxRunning = 1,
     !.async = {"c"}, !.sync = {"a", "b"}, !.senders = {"c"}, !.recompute = FALSE,
     !.whole = FALSE, !.reserveFull = TRUE, !.abortIn = {"idle"}]

\* Loads ahead of the forward pass that may fail and are computed again, by
\* requests of one text in the same steps.
Alike ==
  [Asynchronous EXCEPT !.clients = {"a", "b", "c"}, !.text = AllAlike, !.maxRunning = 3,
     !.async = {}, !.sync = {"a", "b", "c"}, !.senders = {}, !.whole = FALSE,
     !.reserveFull = TRUE, !.abortIn = {}]

SafeSettings == {Asynchronous, Failing, Alike}
\* One request comes back again and again, so that the engine goes on while the blocks of
\* the other one, which is over, are being sent.
LiveSettings == {[Asynchronous EXCEPT !.maxOut = 1, !.reserveFull = TRUE, !.abortIn = {"output"},
                                      !.again = {"b"}]}

\* For the limits that the README lists.
FailTwo     == {[Failing EXCEPT !.maxRunning = 2]}
FailAborted == {[Failing EXCEPT !.abortIn = {"output"}]}
AlikeAborted == {[Alike EXCEPT !.abortIn = {"idle"}]}
AlikeChunked == {[Alike EXCEPT !.threshold = 2]}
LiveParts   == {[c EXCEPT !.whole = FALSE] : c \in LiveSettings}
=============================================================================

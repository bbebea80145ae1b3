-------------------------------- MODULE Queues --------------------------------
(***************************************************************************)
(* Lists that lose members from their middle: the scheduler's queues and   *)
(* the free queue of the block pool.                                       *)
(***************************************************************************)
EXTENDS Naturals, Sequences

\* The members of S in a queue, in the order of the queue.
Among(queue, S) ==
  LET among[n \in 0 .. Len(queue)] ==
        IF n = 0 THEN <<>>
        ELSE IF queue[n] \in S THEN Append(among[n - 1], queue[n])
        ELSE among[n - 1]
  IN  among[Len(queue)]
=============================================================================

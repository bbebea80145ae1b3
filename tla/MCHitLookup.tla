----------------------------- MODULE MCHitLookup -----------------------------
(* Layouts of groups for HitLookup.                                        *)
EXTENDS HitLookup

F(bs)    == [kind |-> "full",   bs |-> bs, span |-> 0]
W(bs, w) == [kind |-> "window", bs |-> bs, span |-> w]
C(bs, c) == [kind |-> "chunk",  bs |-> bs, span |-> c]
M(bs)    == [kind |-> "mamba",  bs |-> bs, span |-> 0]

Unitary == {<<F(2)>>, <<W(1, 3)>>, <<W(2, 4)>>, <<C(2, 4)>>, <<M(2)>>}

\* One full-attention group and another one.
Simple == {<<F(2), W(1, 3)>>, <<W(2, 4), F(1)>>, <<F(1), M(2)>>, <<M(1), F(2)>>, <<F(2), C(2, 4)>>}

\* Passes are repeated.
Complex == {<<W(1, 2), W(2, 4)>>, <<W(2, 4), M(1)>>, <<W(2, 3), F(2), W(2, 5)>>,
            <<F(2), W(2, 3), M(2)>>, <<C(2, 4), F(2), M(2)>>}

Plain == {[groups |-> gs, eagle |-> FALSE, longest |-> 6] : gs \in Unitary \cup Simple \cup Complex}

\* With eagle: the blocks of a sliding window are as large as the others.
Eagle == {[groups |-> gs, eagle |-> TRUE, longest |-> 8] :
           gs \in {<<F(2)>>, <<W(1, 3)>>, <<F(2), W(2, 3)>>, <<F(1), M(2)>>, <<F(2), W(2, 3), W(2, 5)>>}}

All == Plain \cup Eagle

\* For the limits that the README lists: eagle, and a sliding window in smaller blocks.
SmallWindow == {[groups |-> <<F(2), W(1, 3)>>, eagle |-> TRUE, longest |-> 7]}
=============================================================================

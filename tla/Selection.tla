------------------------------ MODULE Selection ------------------------------
(***************************************************************************)
(* What taking a quantity out of a pool of open lots comes to.  LotEngine   *)
(* takes it in one step; Consume runs engine.py's loop and shows that it    *)
(* returns nothing else.                                                    *)
(***************************************************************************)
EXTENDS Integers, FiniteSetsExt

Total(s) == MapThenSumSet(LAMBDA l : s[l], DOMAIN s)

\* The slices, lot |-> quantity, that cover q out of what is left of each lot by
\* exhausting lots in the method's order, given as the pairs <<m, l>> of a lot and one
\* that comes after it; none when the pool cannot cover q.
Coverings(before, left, q) ==
    {s \in [DOMAIN left -> 0..q] :
        /\ \A l \in DOMAIN left : s[l] <= left[l]
        /\ Total(s) = q
        /\ \A pair \in before : s[pair[2]] > 0 => s[pair[1]] = left[pair[1]]}

\* Dearer unit first, ties by acquisition order; a lot of cost c and quantity n is <<c, n>>.
Dearer(a, b) == a[1] * b[2] > b[1] * a[2]
=============================================================================

------------------------------- MODULE Consume -------------------------------
(***************************************************************************)
(* engine.py's consume() and build_lines(), methods.py's orders, and the     *)
(* decrement of _apply_dispose, over one pool of lots and any number of      *)
(* disposals.  One step of Take is one turn of consume()'s loop.             *)
(*                                                                         *)
(* A dollar amount is a number of the smallest steps NUMERIC(36, 18) stores. *)
(* Decimal's 28 digits are taken as exact, its quantize() as what it does:   *)
(* basis to the nearest step, half to even, proceeds down.                   *)
(***************************************************************************)
EXTENDS Selection, SequencesExt

CONSTANTS
    Lots,       \* naturals in acquisition order
    Quantity,   \* lots' quantity and cost_basis_usd
    Cost,
    Methods,    \* a subset of {"fifo", "hifo", "lifo"}
    Orders,     \* <<quantity, total proceeds>> a disposal may ask for
    None

\* A lot's slice, the running call, a disposal line.
Slices == [lot : Lots, quantity : Nat, basis : Nat]
Calls  == [method : Methods, quantity : Nat, proceeds : Nat,
           queue : Seq(Lots), outstanding : Nat, slices : Seq(Slices)]
DisposalLines == [lot : Lots, quantity : Nat, basis : Nat, proceeds : Int]

ASSUME PoolAssumption ==
    /\ Lots \subseteq Nat /\ IsFiniteSet(Lots)
    /\ Quantity \in [Lots -> Nat \ {0}] /\ Cost \in [Lots -> Nat]
    /\ Orders \subseteq Nat \X Nat
    /\ Methods \subseteq {"fifo", "hifo", "lifo"}
    /\ None \notin Calls \cup [call : Calls, lines : Seq(DisposalLines)]

VARIABLES
    left,       \* quantity_remaining of each lot
    booked,     \* each lot's disposal lines: how many, and the sum of their basis
    call,       \* the consume() call under way, or None
    result      \* what the last call came to: its lines, or the quantity unmatched

vars == <<left, booked, call, result>>

HalfEven(n, d) ==
    LET down == n \div d
        rest == 2 * (n % d)
    IN IF rest > d \/ (rest = d /\ down % 2 = 1) THEN down + 1 ELSE down

-----------------------------------------------------------------------------
Open == {l \in Lots : left[l] > 0}

\* LotMethod.order.
Before(method, m, l) ==
    LET unit(k) == <<Cost[k], Quantity[k]>> IN
    CASE method = "hifo" -> Dearer(unit(m), unit(l)) \/ (~Dearer(unit(l), unit(m)) /\ m < l)
      [] method = "fifo" -> m < l
      [] OTHER -> l < m

\* The open lots in that order.
Queues(method) ==
    {queue \in SetToSeqs(Open) :
        \A i, j \in DOMAIN queue : i < j => Before(method, queue[i], queue[j])}

Call(method, order) ==
    /\ call = None
    /\ \E queue \in Queues(method) :
          call' = [method |-> method, quantity |-> order[1], proceeds |-> order[2],
                   queue |-> queue, outstanding |-> order[1], slices |-> <<>>]
    /\ result' = None
    /\ UNCHANGED <<left, booked>>

\* Slip: cut off instead of rounded.
MutBasisOf(l, take) == (Cost[l] * take) \div Quantity[l]

\* unit_basis * take; for a slice that exhausts its lot the code writes the same
\* number as cost_basis_usd * quantity_remaining / quantity.
BasisOf(l, take) == HalfEven(Cost[l] * take, Quantity[l])

\* Slip: one unit more may be wanted than is outstanding.
MutTake ==
    LET l == Head(call.queue)
        take == left[l]
    IN
    /\ call # None /\ call.queue # <<>> /\ call.outstanding > 0
    /\ call' = [call EXCEPT !.queue = Tail(@), !.outstanding = @ - take,
                            !.slices = Append(@, [lot |-> l, quantity |-> take,
                                                  basis |-> BasisOf(l, take)])]
    /\ UNCHANGED <<left, booked, result>>

Take ==
    /\ call # None /\ call.queue # <<>> /\ call.outstanding > 0
    /\ LET l == Head(call.queue)
           take == IF left[l] < call.outstanding THEN left[l] ELSE call.outstanding
       IN call' = [call EXCEPT !.queue = Tail(@), !.outstanding = @ - take,
                               !.slices = Append(@, [lot |-> l, quantity |-> take,
                                                     basis |-> BasisOf(l, take)])]
    /\ UNCHANGED <<left, booked, result>>

\* InsufficientLotsError; _apply_dispose records it and touches no lot.
RaiseInsufficient ==
    /\ call # None /\ call.queue = <<>> /\ call.outstanding > 0
    /\ result' = [call |-> call, lines |-> <<>>]
    /\ call' = None
    /\ UNCHANGED <<left, booked>>

\* build_lines(): each line's share is rounded down, the last takes the rest.
Lines(slices, proceeds, quantity) ==
    LET share(n) == (slices[n].quantity * proceeds) \div quantity
        swept == Total([n \in 1..(Len(slices) - 1) |-> share(n)])
    IN [n \in 1..Len(slices) |->
          [lot |-> slices[n].lot, quantity |-> slices[n].quantity, basis |-> slices[n].basis,
           proceeds |-> IF n = Len(slices) THEN proceeds - swept ELSE share(n)]]

\* The lines are inserted and their lots decremented.
Dispose ==
    /\ call # None /\ call.outstanding <= 0
    /\ LET lines == Lines(call.slices, call.proceeds, call.quantity)
           Of(l) == {n \in DOMAIN lines : lines[n].lot = l}
       IN
       /\ result' = [call |-> call, lines |-> lines]
       /\ left' = [l \in Lots |->
                     left[l] - MapThenSumSet(LAMBDA n : lines[n].quantity, Of(l))]
       /\ booked' = [l \in Lots |->
                       [lines |-> booked[l].lines + Cardinality(Of(l)),
                        basis |-> booked[l].basis
                                  + MapThenSumSet(LAMBDA n : lines[n].basis, Of(l))]]
    /\ call' = None

Init ==
    /\ left = Quantity
    /\ booked = [l \in Lots |-> [lines |-> 0, basis |-> 0]]
    /\ call = None /\ result = None

Next ==
    \/ \E method \in Methods, order \in Orders : Call(method, order)
    \/ Take
    \/ RaiseInsufficient
    \/ Dispose

Spec == Init /\ [][Next]_vars

-----------------------------------------------------------------------------
(* Properties                                                               *)

\* The loop takes what Selection says, which is what LotEngine takes: a call that
\* returns has covered its quantity by exhausting lots in order, and one that raises
\* could not have, and reports exactly what the pool was short of.
LoopMeetsSelection ==
    [][call # None /\ call' = None =>
        LET coverings == Coverings({x \in Open \X Open :
                                       x[1] # x[2] /\ Before(call.method, x[1], x[2])},
                                   [l \in Open |-> left[l]], call.quantity)
            taken == [l \in Open |-> left[l] - left'[l]]
        IN \/ coverings = {taken}
           \/ /\ coverings = {} /\ UNCHANGED left
              /\ call.outstanding = call.quantity - Total([l \in Open |-> left[l]])]_vars

\* However a lot is cut up, the basis it has given away differs from its exact share
\* by at most half a step for each line: the error does not pile up on one lot faster
\* than its lines do.
BasisDriftBounded ==
    \A l \in Lots :
        LET drift == booked[l].basis * Quantity[l] - Cost[l] * (Quantity[l] - left[l])
            most == booked[l].lines * Quantity[l]
        IN 2 * drift \in -most..most
=============================================================================

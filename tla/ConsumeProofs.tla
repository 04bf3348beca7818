---------------------------- MODULE ConsumeProofs -----------------------------
(***************************************************************************)
(* Proofs about Consume and Form8949: whatever the lots, their costs, the    *)
(* method and the quantities, the loop takes what Selection says, the basis  *)
(* given away stays within its rounding, and the forms agree.               *)
(***************************************************************************)
EXTENDS Form8949, SelectionProofs

-----------------------------------------------------------------------------
(* Roundings                                                                *)

LEMMA Divided ==
    ASSUME NEW n \in Nat, NEW d \in Nat \ {0}
    PROVE  /\ n \div d \in Nat /\ n % d \in 0..(d - 1)
           /\ n = d * (n \div d) + (n % d)
           /\ (n \div d) * d <= n
  <1>1. n \div d \in Nat /\ n % d \in 0..(d - 1)
    OBVIOUS
  <1>2. n = d * (n \div d) + (n % d)
    OBVIOUS
  <1>3. (n \div d) * d = d * (n \div d)
    BY <1>1
  <1> QED
    BY <1>1, <1>2, <1>3

\* Half-even misses by half a step at most.
LEMMA HalfEvenClose ==
    ASSUME NEW n \in Nat, NEW d \in Nat \ {0}
    PROVE  HalfEven(n, d) \in Nat /\ 2 * (HalfEven(n, d) * d - n) \in -d..d
  <1>1. n = d * (n \div d) + (n % d) /\ n % d \in 0..(d - 1) /\ n \div d \in Nat
    BY Divided
  <1>2. (n \div d + 1) * d = d * (n \div d) + d /\ (n \div d) * d = d * (n \div d)
    BY <1>1
  <1> QED
    BY <1>1, <1>2 DEF HalfEven

LEMMA BasisClose ==
    ASSUME NEW l \in Lots, NEW take \in Nat
    PROVE  /\ BasisOf(l, take) \in Nat
           /\ 2 * (BasisOf(l, take) * Quantity[l] - Cost[l] * take) \in -Quantity[l]..Quantity[l]
  <1>1. Cost[l] * take \in Nat /\ Quantity[l] \in Nat \ {0}
    BY PoolAssumption
  <1> QED
    BY <1>1, HalfEvenClose DEF BasisOf

-----------------------------------------------------------------------------
(* Orders of lots                                                           *)

\* Of two lots one comes first.
LEMMA OneComesFirst ==
    ASSUME NEW method \in Methods, NEW m \in Lots, NEW l \in Lots, m # l
    PROVE  Before(method, m, l) <=> ~Before(method, l, m)
  <1>1. m \in Nat /\ l \in Nat
    BY PoolAssumption
  <1>2. /\ Cost[m] \in Nat /\ Cost[l] \in Nat
        /\ Quantity[m] \in Nat /\ Quantity[l] \in Nat
    BY PoolAssumption
  <1>3. CASE method = "hifo"
    <2> DEFINE dear(x, y) == Dearer(<<Cost[x], Quantity[x]>>, <<Cost[y], Quantity[y]>>)
    <2>1. dear(m, l) => ~dear(l, m)
      BY <1>2 DEF Dearer
    <2>2. /\ Before(method, m, l) <=> dear(m, l) \/ (~dear(l, m) /\ m < l)
          /\ Before(method, l, m) <=> dear(l, m) \/ (~dear(m, l) /\ l < m)
      BY <1>3 DEF Before
    <2> HIDE DEF dear
    <2> QED
      BY <1>1, <2>1, <2>2
  <1>4. CASE method # "hifo"
    BY <1>1, <1>4 DEF Before
  <1> QED
    BY <1>3, <1>4

Pooled == left \in [Lots -> Nat]

\* A queue has every open lot once.
LEMMA QueueFacts ==
    ASSUME Pooled, NEW method \in Methods, NEW q \in Queues(method)
    PROVE  /\ q \in Seq(Lots) /\ DOMAIN q = 1..Len(q) /\ Len(q) \in Nat
           /\ \A i \in 1..Len(q) : q[i] \in Open
           /\ \A i, j \in 1..Len(q) : q[i] = q[j] => i = j
           /\ \A i, j \in 1..Len(q) : i < j => Before(method, q[i], q[j])
           /\ \A l \in Open : \E i \in 1..Len(q) : q[i] = l
  <1> DEFINE N == Cardinality(Open)
  <1>1. IsFiniteSet(Open)
    BY PoolAssumption, FS_Subset DEF Open
  <1>2. N \in Nat
    BY <1>1, FS_CardinalityType
  <1>3. q \in [1..N -> Open] /\ \A i, j \in 1..N : i # j => q[i] # q[j]
    BY DEF Queues, SetToSeqs
  <1>4. Open \subseteq Lots
    BY DEF Open
  <1> HIDE DEF N
  <1>5. q \in Seq(Lots) /\ Len(q) = N /\ DOMAIN q = 1..Len(q)
    BY <1>2, <1>3, <1>4
  <1>6. q \in Injection(1..N, Open)
    BY <1>3 DEF Injection, IsInjective
  <1>7. Cardinality(1..N) = N
    BY <1>2, FS_Interval
  <1>8. q \in Surjection(1..N, Open)
    BY <1>1, <1>6, <1>7, FS_Injection DEF N
  <1>9. \A l \in Open : \E i \in 1..N : q[i] = l
    BY <1>8 DEF Surjection
  <1>10. \A i, j \in DOMAIN q : i < j => Before(method, q[i], q[j])
    BY DEF Queues
  <1> QED
    BY <1>2, <1>3, <1>5, <1>9, <1>10

\* A unit price that is not below another's that is not below a third's.
LEMMA NoCheaper ==
    ASSUME NEW a \in Nat, NEW b \in Nat, NEW c \in Nat,
           NEW x \in Nat \ {0}, NEW y \in Nat \ {0}, NEW z \in Nat \ {0},
           a * y >= b * x, b * z >= c * y
    PROVE  a * z >= c * x
  <1>1. (a * y) * z >= (b * x) * z /\ (b * z) * x >= (c * y) * x
    OBVIOUS
  <1>2. (a * z) * y >= (c * x) * y
    BY <1>1
  <1> QED
    BY <1>2

\* An order is transitive.
LEMMA InOrder ==
    ASSUME NEW method \in Methods, NEW k \in Lots, NEW m \in Lots, NEW l \in Lots,
           k # m, m # l, Before(method, k, m), Before(method, m, l)
    PROVE  k # l /\ Before(method, k, l)
  <1>1. k \in Nat /\ m \in Nat /\ l \in Nat
    BY PoolAssumption
  <1>2. k # l
    BY OneComesFirst
  <1>3. CASE method = "hifo"
    <2> DEFINE fair(x, y) == Cost[x] * Quantity[y] >= Cost[y] * Quantity[x]
    <2>1. \A x \in Lots : Cost[x] \in Nat /\ Quantity[x] \in Nat \ {0}
      BY PoolAssumption
    <2>2. \A x, y, z \in Lots : fair(x, y) /\ fair(y, z) => fair(x, z)
      BY <2>1, NoCheaper
    <2>3. \A x, y \in Lots : fair(x, y) \/ fair(y, x)
      BY <2>1
    <2>4. \A x, y \in Lots : Dearer(<<Cost[x], Quantity[x]>>, <<Cost[y], Quantity[y]>>)
                                <=> ~fair(y, x)
      BY <2>1 DEF Dearer
    <2> HIDE DEF fair
    <2>5. \A x, y \in Lots : Before(method, x, y) <=> ~fair(y, x) \/ (fair(x, y) /\ x < y)
      BY <1>3, <2>4 DEF Before
    <2> QED
      BY <1>1, <1>2, <2>2, <2>3, <2>5
  <1>4. CASE method # "hifo"
    BY <1>1, <1>2, <1>4 DEF Before
  <1> QED
    BY <1>2, <1>3, <1>4

\* So there always is a queue: a lot's place is the number of those up to it.
THEOREM QueueExists == ASSUME NEW method \in Methods PROVE Queues(method) # {}
  <1> DEFINE N == Cardinality(Open)
             upto(l) == {m \in Open : m = l \/ Before(method, m, l)}
             place == [l \in Open |-> Cardinality(upto(l))]
             q == [i \in 1..N |-> CHOOSE l \in Open : place[l] = i]
  <1>1. IsFiniteSet(Open) /\ Open \subseteq Lots
    BY PoolAssumption, FS_Subset DEF Open
  <1>2. N \in Nat /\ IsFiniteSet(1..N) /\ Cardinality(1..N) = N
    BY <1>1, FS_CardinalityType, FS_Interval
  <1>3. \A l \in Open : /\ upto(l) \in SUBSET Open /\ l \in upto(l) /\ IsFiniteSet(upto(l))
                        /\ place[l] = Cardinality(upto(l)) /\ place[l] \in 1..N
    <2> SUFFICES ASSUME NEW l \in Open
                 PROVE  /\ upto(l) \in SUBSET Open /\ l \in upto(l) /\ IsFiniteSet(upto(l))
                        /\ place[l] = Cardinality(upto(l)) /\ place[l] \in 1..N
      OBVIOUS
    <2>1. upto(l) \in SUBSET Open /\ l \in upto(l) /\ place[l] = Cardinality(upto(l))
      OBVIOUS
    <2> HIDE DEF upto, place
    <2>2. IsFiniteSet(upto(l)) /\ Cardinality(upto(l)) <= N
      BY <1>1, <2>1, FS_Subset
    <2>3. Cardinality(upto(l)) \in Nat /\ Cardinality(upto(l)) # 0
      BY <2>1, <2>2, FS_CardinalityType, FS_EmptySet
    <2> HIDE DEF N
    <2> QED
      BY <1>2, <2>1, <2>2, <2>3
  <1>4. place \in [Open -> 1..N]
    BY <1>3
  <1> HIDE DEF place, N
  <1>5. ASSUME NEW m \in Open, NEW l \in Open, m # l, Before(method, m, l)
        PROVE  place[m] < place[l]
    <2>1. m \in Lots /\ l \in Lots /\ ~Before(method, l, m)
      BY <1>1, <1>5, OneComesFirst
    <2>2. upto(m) \in SUBSET upto(l)
      <3> SUFFICES ASSUME NEW k \in upto(m) PROVE k \in upto(l)
        OBVIOUS
      <3>1. k \in Open /\ k \in Lots /\ (k = m \/ Before(method, k, m))
        BY <1>1
      <3>2. k = m \/ Before(method, k, l)
        BY <1>5, <2>1, <3>1, InOrder
      <3> QED
        BY <1>5, <3>1, <3>2
    <2>3. l \in upto(l) /\ l \notin upto(m)
      BY <1>5, <2>1
    <2> HIDE DEF upto
    <2>4. /\ IsFiniteSet(upto(l)) /\ place[m] = Cardinality(upto(m)) /\ place[m] \in Nat
          /\ place[l] = Cardinality(upto(l)) /\ place[l] \in Nat
      BY <1>2, <1>3, <1>4
    <2>5. Cardinality(upto(m)) <= Cardinality(upto(l)) /\ Cardinality(upto(l)) # Cardinality(upto(m))
      BY <2>2, <2>3, <2>4, FS_Subset
    <2> QED
      BY <2>4, <2>5
  <1>6. \A m, l \in Open : m # l => Before(method, m, l) \/ Before(method, l, m)
    BY <1>1, OneComesFirst
  <1>7. \A i \in 1..N : \E l \in Open : place[l] = i
    <2>1. \A m, l \in Open : place[m] = place[l] => m = l
      <3>1. \A l \in Open : place[l] \in Nat
        BY <1>2, <1>4
      <3> QED
        BY <1>5, <1>6, <3>1
    <2>2. place \in Injection(Open, 1..N)
      BY <1>4, <2>1 DEF Injection, IsInjective
    <2>3. Cardinality(Open) = Cardinality(1..N)
      BY <1>2 DEF N
    <2>4. place \in Surjection(Open, 1..N)
      BY <1>2, <2>2, <2>3, FS_Injection
    <2> QED
      BY <2>4 DEF Surjection
  <1>8. q \in [1..N -> Open] /\ \A i \in 1..N : place[q[i]] = i
    BY <1>7
  <1> HIDE DEF q
  <1>9. q \in SetToSeqs(Open)
    <2>1. \A i, j \in 1..N : i # j => q[i] # q[j]
      BY <1>8
    <2> QED
      BY <1>8, <2>1 DEF SetToSeqs, N
  <1>10. ASSUME NEW i \in 1..N, NEW j \in 1..N, i < j PROVE Before(method, q[i], q[j])
    <2>1. q[i] \in Open /\ q[j] \in Open /\ place[q[i]] = i /\ place[q[j]] = j
      BY <1>8
    <2>2. q[i] # q[j] /\ ~(place[q[j]] < place[q[i]])
      BY <1>2, <1>10, <2>1
    <2> QED
      BY <1>5, <1>6, <2>1, <2>2
  <1>11. DOMAIN q = 1..N
    BY <1>8
  <1> QED
    BY <1>9, <1>10, <1>11 DEF Queues

-----------------------------------------------------------------------------
(* A call under way                                                         *)

\* What slices come to.
Matched(slices) == SumOn([n \in DOMAIN slices |-> slices[n].quantity], DOMAIN slices)

\* The slices of a call are of different lots, take something and have their basis; with what is
\* outstanding they make up the quantity.
Sliced(c) ==
    /\ c \in Calls
    /\ \A n \in 1..Len(c.slices) :
          /\ c.slices[n].quantity > 0
          /\ c.slices[n].basis = BasisOf(c.slices[n].lot, c.slices[n].quantity)
    /\ \A i, j \in 1..Len(c.slices) : c.slices[i].lot = c.slices[j].lot => i = j
    /\ Matched(c.slices) + c.outstanding = c.quantity

\* They come from the front of a queue, and all but the last have exhausted their lots.
Follows(c) ==
    \E q \in Queues(c.method) :
        /\ Len(c.slices) + Len(c.queue) = Len(q)
        /\ \A n \in 1..Len(c.slices) :
              /\ c.slices[n].lot = q[n]
              /\ c.slices[n].quantity \in 1..left[q[n]]
              /\ c.slices[n].quantity = left[q[n]] \/ (n = Len(c.slices) /\ c.outstanding = 0)
        /\ \A n \in 1..Len(c.queue) : c.queue[n] = q[Len(c.slices) + n]

PoolInv ==
    /\ Pooled
    /\ booked \in [Lots -> [lines : Nat, basis : Nat]]
    /\ BasisDriftBounded
    /\ call # None => Sliced(call) /\ Follows(call)
    /\ result # None =>
          /\ Sliced(result.call)
          /\ \/ result.lines = <<>>
             \/ /\ result.call.outstanding = 0
                /\ result.lines = Lines(result.call.slices, result.call.proceeds,
                                        result.call.quantity)

LEMMA NoSlices == Matched(<<>>) = 0
  <1>1. DOMAIN <<>> = {}
    OBVIOUS
  <1> QED
    BY <1>1, SumOfNone DEF Matched

\* One slice more covers as much more.
LEMMA OneSliceMore ==
    ASSUME NEW slices \in Seq(Slices), NEW slice \in Slices
    PROVE  /\ Matched(slices) \in Nat
           /\ Matched(Append(slices, slice)) = Matched(slices) + slice.quantity
  <1> DEFINE k == Len(slices)
             more == Append(slices, slice)
             D == 1..k
             E == 1..(k + 1)
             f == [n \in D |-> slices[n].quantity]
             g == [n \in E |-> more[n].quantity]
  <1>1. /\ k \in Nat /\ DOMAIN slices = D /\ DOMAIN more = E
        /\ \A n \in D : slices[n] \in Slices /\ more[n] = slices[n]
        /\ more[k + 1] = slice
    OBVIOUS
  <1>2. /\ \A n \in D : f[n] \in Nat /\ g[n] = f[n]
        /\ g[k + 1] = slice.quantity /\ slice.quantity \in Nat
        /\ \A n \in E : g[n] \in Int
    BY <1>1 DEF Slices
  <1>3. IsFiniteSet(D) /\ IsFiniteSet(E) /\ k + 1 \in E /\ E \ {k + 1} = D
    <2>1. IsFiniteSet(D) /\ IsFiniteSet(E)
      BY <1>1, FS_Interval
    <2>2. k + 1 \in E /\ E \ {k + 1} = D
      BY <1>1
    <2> QED
      BY <2>1, <2>2
  <1>4. Matched(slices) = SumOn(f, D) /\ Matched(more) = SumOn(g, E)
    BY <1>1, Zenon DEF Matched
  <1> HIDE DEF f, g, D, E
  <1>5. SumOn(g, E) = g[k + 1] + SumOn(g, D)
    BY <1>2, <1>3, SumWithout
  <1>6. SumOn(g, D) = SumOn(f, D) /\ SumOn(f, D) \in Nat
    BY <1>2, <1>3, SumSame, SumIsNat
  <1> QED
    BY <1>2, <1>4, <1>5, <1>6

LEMMA CallHolds ==
    ASSUME PoolInv, NEW method \in Methods, NEW order \in Orders, Call(method, order)
    PROVE  PoolInv'
  <1>1. UNCHANGED <<left, booked>> /\ result' = None
    BY DEF Call
  <1>2. PICK q \in Queues(method) :
          call' = [method |-> method, quantity |-> order[1], proceeds |-> order[2],
                   queue |-> q, outstanding |-> order[1], slices |-> <<>>]
    BY DEF Call
  <1>3. order[1] \in Nat /\ order[2] \in Nat
    BY PoolAssumption
  <1>4. Sliced(call')
    <2>1. q \in Seq(Lots)
      BY QueueFacts DEF PoolInv
    <2>2. call' \in Calls
      BY <1>2, <1>3, <2>1 DEF Calls
    <2>3. call'.slices = <<>> /\ call'.outstanding = order[1] /\ call'.quantity = order[1]
      BY <1>2
    <2> QED
      BY <1>3, <2>2, <2>3, NoSlices DEF Sliced
  <1>5. Follows(call)'
    <2>1. q \in Queues(method)' /\ call'.method = method
      BY <1>1, <1>2 DEF Queues, Open
    <2>2. Len(q) \in Nat
      BY QueueFacts DEF PoolInv
    <2>3. call'.slices = <<>> /\ call'.queue = q
      BY <1>2
    <2> QED
      BY <2>1, <2>2, <2>3 DEF Follows
  <1> QED
    BY <1>1, <1>4, <1>5 DEF PoolInv, Pooled, BasisDriftBounded, Sliced

LEMMA TakeHolds ==
    ASSUME PoolInv, Take PROVE PoolInv' /\ call' \in Calls
  <1> DEFINE k == Len(call.slices)
             l == Head(call.queue)
             take == IF left[l] < call.outstanding THEN left[l] ELSE call.outstanding
             slice == [lot |-> l, quantity |-> take, basis |-> BasisOf(l, take)]
  <1>1. /\ call # None /\ call.queue # <<>> /\ call.outstanding > 0
        /\ UNCHANGED <<left, booked, result>>
        /\ call' = [call EXCEPT !.queue = Tail(call.queue),
                                !.outstanding = call.outstanding - take,
                                !.slices = Append(call.slices, slice)]
    BY DEF Take
  <1>2. /\ call \in Calls /\ Sliced(call)
        /\ call.queue \in Seq(Lots) /\ call.slices \in Seq(Slices) /\ k \in Nat
        /\ call.outstanding \in Nat /\ call.quantity \in Nat /\ call.method \in Methods
    BY <1>1 DEF PoolInv, Sliced, Calls
  <1>3. PICK q \in Queues(call.method) :
          /\ k + Len(call.queue) = Len(q)
          /\ \A n \in 1..k :
                /\ call.slices[n].lot = q[n]
                /\ call.slices[n].quantity \in 1..left[q[n]]
                /\ call.slices[n].quantity = left[q[n]] \/ (n = k /\ call.outstanding = 0)
          /\ \A n \in 1..Len(call.queue) : call.queue[n] = q[k + n]
    BY <1>1 DEF PoolInv, Follows
  <1>4. /\ DOMAIN q = 1..Len(q) /\ Len(q) \in Nat
        /\ \A i \in 1..Len(q) : q[i] \in Open
        /\ \A i, j \in 1..Len(q) : q[i] = q[j] => i = j
    BY <1>2, QueueFacts DEF PoolInv
  <1>5. /\ Len(call.queue) \in Nat \ {0} /\ l = call.queue[1] /\ l = q[k + 1]
        /\ k + 1 \in 1..Len(q)
    <2>1. Len(call.queue) \in Nat \ {0} /\ l = call.queue[1]
      BY <1>1, <1>2
    <2> HIDE DEF k
    <2>2. l = q[k + 1]
      <3>1. 1 \in 1..Len(call.queue)
        BY <2>1
      <3> QED
        BY <1>3, <2>1, <3>1
    <2>3. k + 1 \in 1..Len(q)
      <3>1. k \in Nat /\ Len(q) \in Nat /\ k + Len(call.queue) = Len(q)
        BY <1>2, <1>3, <1>4
      <3> QED
        BY <2>1, <3>1
    <2> QED
      BY <2>1, <2>2, <2>3
  <1>6. l \in Lots /\ left[l] \in Nat \ {0}
    BY <1>4, <1>5 DEF Open, PoolInv, Pooled
  <1>7. take \in 1..left[l] /\ take <= call.outstanding /\ take \in Nat
    BY <1>1, <1>2, <1>6
  <1>8. take = left[l] \/ call.outstanding - take = 0
    BY <1>2
  <1> HIDE DEF take, l
  <1>9. /\ slice \in Slices
        /\ slice.lot = l /\ slice.quantity = take /\ slice.basis = BasisOf(l, take)
    BY <1>6, <1>7, BasisClose DEF Slices
  <1> HIDE DEF slice, k
  <1>10. /\ call'.slices = Append(call.slices, slice) /\ call'.queue = Tail(call.queue)
         /\ call'.outstanding = call.outstanding - take /\ call'.quantity = call.quantity
         /\ call'.method = call.method
    BY <1>1, <1>2 DEF Calls
  <1>11. /\ Len(call'.slices) = k + 1
         /\ \A n \in 1..k : call'.slices[n] = call.slices[n]
         /\ call'.slices[k + 1] = slice
         /\ Len(call'.queue) = Len(call.queue) - 1
         /\ \A n \in 1..(Len(call.queue) - 1) : call'.queue[n] = call.queue[n + 1]
    BY <1>2, <1>5, <1>9, <1>10 DEF k
  <1>12. \A n \in 1..(k + 1) : n \in 1..k \/ n = k + 1
    BY <1>2
  <1>13. Sliced(call')
    <2>1. call' \in Calls
      <3>1. /\ Tail(call.queue) \in Seq(Lots) /\ Append(call.slices, slice) \in Seq(Slices)
            /\ call.outstanding - take \in Nat
        BY <1>1, <1>2, <1>7, <1>9
      <3> QED
        BY <1>1, <1>2, <3>1 DEF Calls
    <2>2. Matched(call'.slices) + call'.outstanding = call'.quantity
      <3>1. Matched(call'.slices) = Matched(call.slices) + take /\ Matched(call.slices) \in Nat
        BY <1>2, <1>9, <1>10, OneSliceMore
      <3> QED
        BY <1>2, <1>7, <1>10, <3>1 DEF Sliced
    <2>3. \A n \in 1..(k + 1) :
             /\ call'.slices[n].quantity > 0
             /\ call'.slices[n].basis = BasisOf(call'.slices[n].lot, call'.slices[n].quantity)
      <3>1. \A n \in 1..k :
               /\ call.slices[n].quantity > 0
               /\ call.slices[n].basis = BasisOf(call.slices[n].lot, call.slices[n].quantity)
        BY <1>2 DEF Sliced, k
      <3>2. slice.quantity > 0 /\ slice.basis = BasisOf(slice.lot, slice.quantity)
        BY <1>6, <1>7, <1>9
      <3> QED
        BY <1>11, <1>12, <3>1, <3>2
    <2>4. \A n \in 1..(k + 1) : call'.slices[n].lot = q[n]
      BY <1>3, <1>5, <1>9, <1>11, <1>12
    <2>5. \A i, j \in 1..(k + 1) : call'.slices[i].lot = call'.slices[j].lot => i = j
      <3>1. 1..(k + 1) \subseteq 1..Len(q)
        BY <1>2, <1>4, <1>5
      <3> QED
        BY <1>4, <2>4, <3>1
    <2> QED
      BY <1>11, <2>1, <2>2, <2>3, <2>5 DEF Sliced
  <1>14. Follows(call)'
    <2>1. q \in Queues(call.method)' /\ left' = left
      <3>1. left' = left /\ call'.method = call.method
        BY <1>1, <1>10
      <3>2. Open' = Open
        BY <3>1 DEF Open
      <3>3. Queues(call.method)' = Queues(call.method)
        BY <3>1, <3>2 DEF Queues
      <3> QED
        BY <3>1, <3>3
    <2>2. Len(call'.slices) + Len(call'.queue) = Len(q)
      <3>1. /\ Len(call'.slices) = k + 1 /\ Len(call'.queue) = Len(call.queue) - 1
            /\ k \in Nat /\ Len(call.queue) \in Nat
        BY <1>2, <1>5, <1>11
      <3>2. k + Len(call.queue) = Len(q)
        BY <1>3
      <3>3. \A a, b \in Nat : (a + 1) + (b - 1) = a + b
        OBVIOUS
      <3>4. (k + 1) + (Len(call.queue) - 1) = k + Len(call.queue)
        BY <3>1, <3>3
      <3> QED
        BY <3>1, <3>2, <3>4, Zenon
    <2>3. ASSUME NEW n \in 1..(k + 1)
          PROVE  /\ call'.slices[n].lot = q[n]
                 /\ call'.slices[n].quantity \in 1..left[q[n]]
                 /\ \/ call'.slices[n].quantity = left[q[n]]
                    \/ n = k + 1 /\ call'.outstanding = 0
      <3>1. CASE n = k + 1
        BY <1>5, <1>7, <1>8, <1>9, <1>10, <1>11, <3>1
      <3>2. CASE n # k + 1
        <4>1. n \in 1..k /\ call.outstanding # 0
          BY <1>1, <1>2, <1>12, <3>2
        <4> QED
          BY <1>3, <1>11, <4>1
      <3> QED
        BY <3>1, <3>2
    <2>4. ASSUME NEW n \in 1..Len(call'.queue) PROVE call'.queue[n] = q[k + 1 + n]
      <3>1. n + 1 \in 1..Len(call.queue) /\ n \in 1..(Len(call.queue) - 1)
        BY <1>5, <1>11
      <3>2. k + (n + 1) = k + 1 + n
        BY <1>2, <3>1
      <3> QED
        BY <1>3, <1>11, <3>1, <3>2
    <2>5. \A n \in 1..Len(call'.slices) :
             /\ call'.slices[n].lot = q[n]
             /\ call'.slices[n].quantity \in 1..left'[q[n]]
             /\ \/ call'.slices[n].quantity = left'[q[n]]
                \/ n = Len(call'.slices) /\ call'.outstanding = 0
      BY <1>11, <2>1, <2>3
    <2>6. \A n \in 1..Len(call'.queue) : call'.queue[n] = q[Len(call'.slices) + n]
      BY <1>11, <2>4
    <2> QED
      BY <2>1, <2>2, <2>5, <2>6 DEF Follows
  <1>15. call' \in Calls
    BY <1>13 DEF Sliced
  <1> QED
    BY <1>1, <1>13, <1>14, <1>15 DEF PoolInv, Pooled, BasisDriftBounded

\* An error leaves the lots alone.
LEMMA RaiseHolds ==
    ASSUME PoolInv, RaiseInsufficient PROVE PoolInv'
  <1>1. /\ UNCHANGED <<left, booked>> /\ call' = None
        /\ call # None /\ result' = [call |-> call, lines |-> <<>>]
    BY DEF RaiseInsufficient
  <1>2. result'.call = call /\ result'.lines = <<>>
    BY <1>1
  <1>3. Sliced(result'.call)
    BY <1>1, <1>2 DEF PoolInv
  <1> QED
    BY <1>1, <1>2, <1>3 DEF PoolInv, Pooled, BasisDriftBounded, Sliced

-----------------------------------------------------------------------------
(* The lines of a disposal                                                  *)

LEMMA LinesOfSlices ==
    ASSUME NEW slices \in Seq(Slices), NEW proceeds, NEW quantity
    PROVE  LET lines == Lines(slices, proceeds, quantity) IN
           /\ DOMAIN lines = 1..Len(slices)
           /\ \A n \in 1..Len(slices) :
                 /\ lines[n].lot = slices[n].lot /\ lines[n].quantity = slices[n].quantity
                 /\ lines[n].basis = slices[n].basis
  BY DEF Lines

\* Each lot of the slices loses its slice and gains its line; no other lot changes.
LEMMA DisposeDoes ==
    ASSUME PoolInv, Dispose
    PROVE  /\ call # None /\ Sliced(call) /\ Follows(call) /\ call.outstanding = 0
           /\ call.slices \in Seq(Slices)
           /\ call' = None
           /\ result' = [call |-> call,
                         lines |-> Lines(call.slices, call.proceeds, call.quantity)]
           /\ left' = [l \in Lots |-> left'[l]] /\ booked' = [l \in Lots |-> booked'[l]]
           /\ \A n \in 1..Len(call.slices) :
                 LET slice == call.slices[n] IN
                 /\ left'[slice.lot] = left[slice.lot] - slice.quantity
                 /\ booked'[slice.lot].lines = booked[slice.lot].lines + 1
                 /\ booked'[slice.lot].basis = booked[slice.lot].basis + slice.basis
                 /\ booked'[slice.lot] \in [lines : Nat, basis : Nat]
           /\ \A l \in Lots :
                 (\A n \in 1..Len(call.slices) : call.slices[n].lot # l) =>
                     left'[l] = left[l] /\ booked'[l] = booked[l]
  <1> DEFINE lines == Lines(call.slices, call.proceeds, call.quantity)
             k == Len(call.slices)
             Of(l) == {n \in DOMAIN lines : lines[n].lot = l}
             quantities(l) == SumOn([n \in Of(l) |-> lines[n].quantity], Of(l))
             bases(l) == SumOn([n \in Of(l) |-> lines[n].basis], Of(l))
  <1>1. /\ call # None /\ call.outstanding <= 0 /\ call' = None
        /\ result' = [call |-> call, lines |-> lines]
        /\ left' = [l \in Lots |->
                      left[l] - MapThenSumSet(LAMBDA n : lines[n].quantity, Of(l))]
        /\ booked' = [l \in Lots |->
                        [lines |-> booked[l].lines + Cardinality(Of(l)),
                         basis |-> booked[l].basis
                                   + MapThenSumSet(LAMBDA n : lines[n].basis, Of(l))]]
    BY Zenon DEF Dispose
  <1>2. /\ Sliced(call) /\ Follows(call) /\ call \in Calls
        /\ call.slices \in Seq(Slices) /\ call.outstanding \in Nat /\ k \in Nat
    BY <1>1 DEF PoolInv, Sliced, Calls
  <1>3. /\ DOMAIN lines = 1..k
        /\ \A n \in 1..k :
              /\ lines[n].lot = call.slices[n].lot
              /\ lines[n].quantity = call.slices[n].quantity
              /\ lines[n].basis = call.slices[n].basis
    BY <1>2, LinesOfSlices
  <1>4. \A n \in 1..k : call.slices[n] \in Slices
    BY <1>2
  <1> HIDE DEF lines, k
  <1>5. ASSUME NEW l \in Lots
        PROVE  /\ left'[l] = left[l] - quantities(l)
               /\ booked'[l] = [lines |-> booked[l].lines + Cardinality(Of(l)),
                                basis |-> booked[l].basis + bases(l)]
    <2>1. IsFiniteSet(Of(l))
      <3>1. IsFiniteSet(1..k)
        BY <1>2, FS_Interval
      <3>2. Of(l) \in SUBSET (1..k)
        BY <1>3
      <3> HIDE DEF Of
      <3> QED
        BY <3>1, <3>2, FS_Subset
    <2>2. /\ MapThenSumSet(LAMBDA n : lines[n].quantity, Of(l)) = quantities(l)
          /\ MapThenSumSet(LAMBDA n : lines[n].basis, Of(l)) = bases(l)
      BY <2>1, ColumnSum
    <2> QED
      BY <1>1, <2>2
  <1>6. ASSUME NEW l \in Lots, \A n \in 1..k : call.slices[n].lot # l
        PROVE  left'[l] = left[l] /\ booked'[l] = booked[l]
    <2>1. Of(l) = {}
      BY <1>3, <1>6
    <2>2. quantities(l) = 0 /\ bases(l) = 0 /\ Cardinality(Of(l)) = 0
      BY <2>1, SumOfNone, FS_EmptySet
    <2>3. left[l] \in Nat /\ booked[l] \in [lines : Nat, basis : Nat]
      BY DEF PoolInv, Pooled
    <2> HIDE DEF quantities, bases, Of
    <2> QED
      BY <1>5, <2>2, <2>3
  <1>7. ASSUME NEW n \in 1..k
        PROVE  LET slice == call.slices[n] IN
               /\ left'[slice.lot] = left[slice.lot] - slice.quantity
               /\ booked'[slice.lot].lines = booked[slice.lot].lines + 1
               /\ booked'[slice.lot].basis = booked[slice.lot].basis + slice.basis
               /\ booked'[slice.lot] \in [lines : Nat, basis : Nat]
    <2> DEFINE l == call.slices[n].lot
    <2>1. l \in Lots /\ call.slices[n].quantity \in Nat /\ call.slices[n].basis \in Nat
      BY <1>4 DEF Slices
    <2>2. Of(l) = {n}
      BY <1>2, <1>3 DEF Sliced, k
    <2>3. Cardinality(Of(l)) = 1 /\ IsFiniteSet(Of(l))
      BY <2>2, FS_Singleton
    <2>4. quantities(l) = call.slices[n].quantity /\ bases(l) = call.slices[n].basis
      <3> DEFINE f == [i \in {n} |-> lines[i].quantity]
                 g == [i \in {n} |-> lines[i].basis]
      <3>1. f[n] = call.slices[n].quantity /\ g[n] = call.slices[n].basis
        BY <1>3
      <3>2. quantities(l) = SumOn(f, {n}) /\ bases(l) = SumOn(g, {n})
        BY <2>2
      <3> HIDE DEF f, g, l, quantities, bases
      <3>3. f[n] \in Int /\ g[n] \in Int
        BY <2>1, <3>1
      <3>4. SumOn(f, {n}) = f[n] /\ SumOn(g, {n}) = g[n]
        BY <3>3, SumOfOne
      <3> QED
        BY <3>1, <3>2, <3>4
    <2>5. left[l] \in Nat /\ booked[l] \in [lines : Nat, basis : Nat]
      BY <2>1 DEF PoolInv, Pooled
    <2> HIDE DEF quantities, bases, Of, l
    <2>6. /\ left'[l] = left[l] - quantities(l)
          /\ booked'[l] = [lines |-> booked[l].lines + Cardinality(Of(l)),
                           basis |-> booked[l].basis + bases(l)]
      BY <1>5, <2>1
    <2> QED
      BY <2>1, <2>3, <2>4, <2>5, <2>6 DEF l
  <1>8. left' = [l \in Lots |-> left'[l]] /\ booked' = [l \in Lots |-> booked'[l]]
    BY <1>1
  <1>9. call.outstanding = 0
    BY <1>1, <1>2
  <1> QED
    BY <1>1, <1>2, <1>6, <1>7, <1>8, <1>9 DEF k, lines

\* What a slice takes is there to be taken.
LEMMA SlicesFit ==
    ASSUME PoolInv, Dispose, NEW n \in 1..Len(call.slices)
    PROVE  LET slice == call.slices[n] IN
           /\ slice.lot \in Lots /\ slice.quantity \in Nat
           /\ slice.quantity <= left[slice.lot]
           /\ slice.basis = BasisOf(slice.lot, slice.quantity)
  <1>1. Sliced(call) /\ Follows(call) /\ call.slices \in Seq(Slices)
    BY DisposeDoes
  <1>2. call.slices[n] \in Slices
    BY <1>1
  <1>3. call.slices[n].quantity \in 1..left[call.slices[n].lot]
    BY <1>1 DEF Follows
  <1>4. left[call.slices[n].lot] \in Nat
    BY <1>2 DEF PoolInv, Pooled, Slices
  <1> QED
    BY <1>1, <1>2, <1>3, <1>4 DEF Sliced, Slices

\* The line's rounding is added to the lot's.
LEMMA DriftAdds ==
    ASSUME NEW b \in Nat, NEW q \in Nat, NEW c \in Nat, NEW rest \in Nat, NEW lines \in Nat,
           2 * (b * q - c * (q - rest)) \in -(lines * q)..(lines * q),
           NEW more \in Nat, NEW take \in Nat,
           2 * (more * q - c * take) \in -q..q
    PROVE  2 * ((b + more) * q - c * (q - (rest - take))) \in
              -((lines + 1) * q)..((lines + 1) * q)
  <1>1. (b + more) * q - c * (q - (rest - take))
           = (b * q - c * (q - rest)) + (more * q - c * take)
    OBVIOUS
  <1>2. (lines + 1) * q = lines * q + q
    OBVIOUS
  <1>3. /\ b * q - c * (q - rest) \in Int /\ more * q - c * take \in Int
        /\ lines * q \in Int
    OBVIOUS
  <1> DEFINE x == b * q - c * (q - rest)
             y == more * q - c * take
             z == lines * q
  <1>4. x \in Int /\ y \in Int /\ z \in Int /\ 2 * x \in -z..z /\ 2 * y \in -q..q
    BY <1>3
  <1> HIDE DEF x, y, z
  <1>5. 2 * (x + y) \in -(z + q)..(z + q)
    BY <1>4
  <1> QED
    BY <1>1, <1>2, <1>5 DEF x, y, z

LEMMA DisposeHolds ==
    ASSUME PoolInv, Dispose PROVE PoolInv'
  <1> DEFINE sliced(l) == \E n \in 1..Len(call.slices) : call.slices[n].lot = l
  <1>1. /\ Sliced(call) /\ call.outstanding = 0 /\ call' = None
        /\ result' = [call |-> call, lines |-> Lines(call.slices, call.proceeds, call.quantity)]
        /\ left' = [l \in Lots |-> left'[l]] /\ booked' = [l \in Lots |-> booked'[l]]
    BY DisposeDoes
  <1>2. \A l \in Lots : /\ left[l] \in Nat /\ booked[l] \in [lines : Nat, basis : Nat]
                        /\ Quantity[l] \in Nat /\ Cost[l] \in Nat
    BY PoolAssumption DEF PoolInv, Pooled
  <1>3. ASSUME NEW l \in Lots, sliced(l)
        PROVE  /\ left'[l] \in Nat /\ booked'[l] \in [lines : Nat, basis : Nat]
               /\ 2 * (booked'[l].basis * Quantity[l] - Cost[l] * (Quantity[l] - left'[l]))
                    \in -(booked'[l].lines * Quantity[l])..(booked'[l].lines * Quantity[l])
    <2>1. PICK n \in 1..Len(call.slices) : call.slices[n].lot = l
      BY <1>3
    <2> DEFINE take == call.slices[n].quantity
               more == call.slices[n].basis
    <2>2. take \in Nat /\ take <= left[l] /\ more = BasisOf(l, take)
      BY <2>1, SlicesFit
    <2>3. more \in Nat /\ 2 * (more * Quantity[l] - Cost[l] * take) \in -Quantity[l]..Quantity[l]
      BY <2>2, BasisClose
    <2>4. /\ left'[l] = left[l] - take /\ booked'[l].lines = booked[l].lines + 1
          /\ booked'[l].basis = booked[l].basis + more
          /\ booked'[l] \in [lines : Nat, basis : Nat]
      BY <2>1, DisposeDoes
    <2>5. 2 * (booked[l].basis * Quantity[l] - Cost[l] * (Quantity[l] - left[l]))
             \in -(booked[l].lines * Quantity[l])..(booked[l].lines * Quantity[l])
      BY DEF PoolInv, BasisDriftBounded
    <2> HIDE DEF take, more
    <2>6. booked[l].basis \in Nat /\ booked[l].lines \in Nat
      BY <1>2
    <2>7. 2 * ((booked[l].basis + more) * Quantity[l]
               - Cost[l] * (Quantity[l] - (left[l] - take)))
             \in -((booked[l].lines + 1) * Quantity[l])..((booked[l].lines + 1) * Quantity[l])
      BY <1>2, <2>2, <2>3, <2>5, <2>6, DriftAdds
    <2>8. left'[l] \in Nat
      BY <1>2, <2>2, <2>4
    <2>9. 2 * (booked'[l].basis * Quantity[l] - Cost[l] * (Quantity[l] - left'[l]))
             \in -(booked'[l].lines * Quantity[l])..(booked'[l].lines * Quantity[l])
      BY <2>4, <2>7, Zenon
    <2> QED
      BY <2>4, <2>8, <2>9
  <1>4. ASSUME NEW l \in Lots, ~sliced(l)
        PROVE  left'[l] = left[l] /\ booked'[l] = booked[l]
    BY <1>4, DisposeDoes
  <1>5. Pooled'
    BY <1>1, <1>2, <1>3, <1>4 DEF Pooled
  <1>6. booked' \in [Lots -> [lines : Nat, basis : Nat]]
    BY <1>1, <1>2, <1>3, <1>4
  <1>7. BasisDriftBounded'
    <2> SUFFICES ASSUME NEW l \in Lots
                 PROVE  2 * (booked'[l].basis * Quantity[l] - Cost[l] * (Quantity[l] - left'[l]))
                          \in -(booked'[l].lines * Quantity[l])..(booked'[l].lines * Quantity[l])
      BY DEF BasisDriftBounded
    <2>1. CASE sliced(l)
      BY <1>3, <2>1
    <2>2. CASE ~sliced(l)
      BY <1>4, <2>2 DEF PoolInv, BasisDriftBounded
    <2> QED
      BY <2>1, <2>2
  <1>8. /\ result'.call = call
        /\ result'.lines = Lines(call.slices, call.proceeds, call.quantity)
    BY <1>1
  <1> QED
    BY <1>1, <1>5, <1>6, <1>7, <1>8 DEF PoolInv, Sliced

-----------------------------------------------------------------------------
(* The invariant                                                            *)

LEMMA InitHolds == Init => PoolInv
  <1> SUFFICES ASSUME Init PROVE PoolInv
    OBVIOUS
  <1>1. Pooled /\ booked \in [Lots -> [lines : Nat, basis : Nat]]
    BY PoolAssumption DEF Init, Pooled
  <1>2. BasisDriftBounded
    <2> SUFFICES ASSUME NEW l \in Lots
                 PROVE  2 * (booked[l].basis * Quantity[l] - Cost[l] * (Quantity[l] - left[l]))
                          \in -(booked[l].lines * Quantity[l])..(booked[l].lines * Quantity[l])
      BY DEF BasisDriftBounded
    <2>1. /\ booked[l].basis = 0 /\ booked[l].lines = 0 /\ left[l] = Quantity[l]
          /\ Quantity[l] \in Nat /\ Cost[l] \in Nat
      BY PoolAssumption DEF Init
    <2> QED
      BY <2>1
  <1> QED
    BY <1>1, <1>2 DEF Init, PoolInv

LEMMA NextHolds == PoolInv /\ [Next]_vars => PoolInv'
  <1> SUFFICES ASSUME PoolInv, [Next]_vars PROVE PoolInv'
    OBVIOUS
  <1>1. ASSUME NEW method \in Methods, NEW order \in Orders, Call(method, order) PROVE PoolInv'
    BY <1>1, CallHolds
  <1>2. CASE UNCHANGED vars
    <2>1. Follows(call) => Follows(call)'
      BY <1>2 DEF vars, Follows, Queues, Open
    <2> QED
      BY <1>2, <2>1 DEF vars, PoolInv, Pooled, BasisDriftBounded, Sliced
  <1> QED
    BY <1>1, <1>2, TakeHolds, RaiseHolds, DisposeHolds DEF Next

\* However calls, errors and disposals follow each other, a call's slices are a queue's front,
\* and every lot's basis is within its lines' rounding.
THEOREM PoolSound == Spec => []PoolInv
  BY InitHolds, NextHolds, PTL DEF Spec

\* A lot that is cut up in however many lines has given away its share of the cost to within
\* half a step a line: for any quantities and costs.
THEOREM DriftStaysBounded == Spec => []BasisDriftBounded
  <1>1. PoolInv => BasisDriftBounded
    BY DEF PoolInv
  <1> QED
    BY <1>1, PoolSound, PTL

-----------------------------------------------------------------------------
(* The loop against Selection                                               *)

\* The open lots as Selection gets them: what is left of each, and which comes before which.
LeftOf == [l \in Open |-> left[l]]
BeforeBy(method) == {x \in Open \X Open : x[1] # x[2] /\ Before(method, x[1], x[2])}

\* If slices of different open lots take f of them and nothing else does, f adds up to what
\* the slices cover.
LEMMA CoveredOverLots ==
    ASSUME NEW slices \in Seq(Slices), NEW f,
           \A n \in 1..Len(slices) : slices[n].lot \in Open /\ f[slices[n].lot] = slices[n].quantity,
           \A i, j \in 1..Len(slices) : slices[i].lot = slices[j].lot => i = j,
           \A l \in Open : (\A n \in 1..Len(slices) : slices[n].lot # l) => f[l] = 0
    PROVE  SumOn(f, Open) = Matched(slices)
  <1> DEFINE D == 1..Len(slices)
             m == [n \in D |-> slices[n].lot]
             T == {m[n] : n \in D}
             h == [n \in D |-> slices[n].quantity]
  <1>1. /\ Len(slices) \in Nat /\ DOMAIN slices = D /\ \A n \in D : slices[n] \in Slices
    OBVIOUS
  <1>2. IsFiniteSet(D) /\ IsFiniteSet(Open)
    <2>1. IsFiniteSet(D)
      BY <1>1, FS_Interval
    <2>2. IsFiniteSet(Open)
      BY PoolAssumption, FS_Subset DEF Open
    <2> QED
      BY <2>1, <2>2
  <1>3. /\ T \in SUBSET Open
        /\ \A n \in D : m[n] = slices[n].lot /\ f[m[n]] = slices[n].quantity /\ f[m[n]] \in Int
        /\ \A x, y \in D : m[x] = m[y] => x = y
    BY <1>1 DEF Slices
  <1>4. \A l \in Open \ T : f[l] = 0
    BY <1>3
  <1>5. \A l \in Open : f[l] \in Int
    BY <1>3, <1>4
  <1>6. \A n \in D : f[m[n]] \in Int /\ h[n] = f[m[n]]
    BY <1>3
  <1>7. Matched(slices) = SumOn(h, D)
    BY <1>1, Zenon DEF Matched
  <1> HIDE DEF D, m, h
  <1>8. SumOn(f, T) = SumOn(h, D)
    BY <1>2, <1>3, <1>6, SumNamed
  <1> HIDE DEF T
  <1>9. SumOn(f, Open) = SumOn(f, T)
    BY <1>2, <1>3, <1>4, <1>5, SumWhereItIs
  <1> QED
    BY <1>7, <1>8, <1>9

\* A disposal takes the one covering there is.
LEMMA DisposeSelects ==
    ASSUME PoolInv, Dispose
    PROVE  Coverings(BeforeBy(call.method), LeftOf, call.quantity)
              = {[l \in Open |-> left[l] - left'[l]]}
  <1> DEFINE k == Len(call.slices)
             taken == [l \in Open |-> left[l] - left'[l]]
             before == BeforeBy(call.method)
             Q == call.quantity
  <1>1. /\ Sliced(call) /\ call.slices \in Seq(Slices) /\ call.outstanding = 0
        /\ call.method \in Methods /\ Q \in Nat
        /\ Matched(call.slices) + call.outstanding = Q
    BY DisposeDoes DEF Sliced, Calls
  <1>2. PICK q \in Queues(call.method) :
          /\ k + Len(call.queue) = Len(q)
          /\ \A n \in 1..k :
                /\ call.slices[n].lot = q[n]
                /\ call.slices[n].quantity \in 1..left[q[n]]
                /\ call.slices[n].quantity = left[q[n]] \/ (n = k /\ call.outstanding = 0)
    BY DisposeDoes DEF Follows
  <1>3. /\ Len(q) \in Nat
        /\ \A i \in 1..Len(q) : q[i] \in Open
        /\ \A i, j \in 1..Len(q) : q[i] = q[j] => i = j
        /\ \A i, j \in 1..Len(q) : i < j => Before(call.method, q[i], q[j])
        /\ \A l \in Open : \E i \in 1..Len(q) : q[i] = l
    <2>1. Pooled
      BY DEF PoolInv
    <2> HIDE DEF k, taken, before, Q
    <2> QED
      BY <1>1, <2>1, QueueFacts
  <1>4. k \in Nat /\ k <= Len(q) /\ 1..k \subseteq 1..Len(q)
    <2>1. k \in Nat /\ Len(call.queue) \in Nat
      BY <1>1 DEF Sliced, Calls
    <2> HIDE DEF k
    <2> QED
      BY <1>2, <1>3, <2>1
  <1>5. \A l \in Open : l \in Lots /\ left[l] \in Nat
    BY DEF Open, PoolInv, Pooled
  <1>6. \A n \in 1..k : q[n] \in Open /\ taken[q[n]] = call.slices[n].quantity
    <2> SUFFICES ASSUME NEW n \in 1..k
                 PROVE  q[n] \in Open /\ taken[q[n]] = call.slices[n].quantity
      OBVIOUS
    <2>1. q[n] \in Open /\ call.slices[n].lot = q[n]
      BY <1>2, <1>3, <1>4
    <2>2. left'[q[n]] = left[q[n]] - call.slices[n].quantity
      BY <2>1, DisposeDoes
    <2>3. left[q[n]] \in Nat
      BY <1>5, <2>1
    <2>4. call.slices[n].quantity \in 1..left[q[n]]
      BY <1>2
    <2> HIDE DEF k
    <2> QED
      BY <2>1, <2>2, <2>3, <2>4
  <1>7. \A l \in Open : (\A n \in 1..k : call.slices[n].lot # l) => taken[l] = 0
    BY <1>5, DisposeDoes
  <1>8. SumOn(taken, Open) = Matched(call.slices)
    <2>1. \A n \in 1..k : /\ call.slices[n].lot \in Open
                          /\ taken[call.slices[n].lot] = call.slices[n].quantity
      BY <1>2, <1>6
    <2>2. \A i, j \in 1..k : call.slices[i].lot = call.slices[j].lot => i = j
      BY <1>1 DEF Sliced
    <2> HIDE DEF taken
    <2> QED
      BY <1>1, <1>7, <2>1, <2>2, CoveredOverLots
  <1>9. SumOn(taken, Open) = Q
    <2>1. Matched(call.slices) \in Int
      <3>1. \A n \in 1..k : call.slices[n] \in Slices
        BY <1>1
      <3>2. DOMAIN call.slices = 1..k
        BY <1>1
      <3>3. \A n \in 1..k : [x \in 1..k |-> call.slices[x].quantity][n] \in Int
        BY <3>1 DEF Slices
      <3> HIDE DEF k
      <3>4. IsFiniteSet(1..k)
        BY <1>4, FS_Interval
      <3> QED
        BY <3>2, <3>3, <3>4, SumIsInt DEF Matched
    <2> QED
      BY <1>1, <1>8, <2>1
  <1>10. \A l \in Open : taken[l] \in 0..left[l]
    <2> SUFFICES ASSUME NEW l \in Open PROVE taken[l] \in 0..left[l]
      OBVIOUS
    <2> HIDE DEF k, taken
    <2>1. CASE \E n \in 1..k : q[n] = l
      <3>1. PICK n \in 1..k : q[n] = l
        BY <2>1
      <3>2. taken[l] = call.slices[n].quantity
        BY <1>6, <3>1
      <3>3. call.slices[n].quantity \in 1..left[l]
        BY <1>2, <3>1
      <3> QED
        BY <1>5, <3>2, <3>3
    <2>2. CASE \A n \in 1..k : q[n] # l
      <3>1. taken[l] = 0
        BY <1>2, <1>7, <2>2
      <3> QED
        BY <1>5, <3>1
    <2> QED
      BY <2>1, <2>2
  <1>11. IsFiniteSet(Open)
    BY PoolAssumption, FS_Subset DEF Open
  <1>12. taken \in Coverings(before, LeftOf, Q)
    <2>1. DOMAIN LeftOf = Open /\ \A l \in Open : LeftOf[l] = left[l]
      BY DEF LeftOf
    <2>2. ASSUME NEW l \in Open PROVE taken[l] \in 0..Q
      <3>1. \A x \in Open : taken[x] \in Nat
        BY <1>5, <1>10
      <3>2. taken[l] <= SumOn(taken, Open)
        <4> HIDE DEF taken
        <4> QED
          BY <1>11, <3>1, SumIsAtLeast
      <3> QED
        BY <1>1, <1>9, <3>1, <3>2
    <2>3. ASSUME NEW pair \in before, taken[pair[2]] > 0
          PROVE  taken[pair[1]] = left[pair[1]]
      <3>1. pair[1] \in Open /\ pair[2] \in Open /\ pair[1] # pair[2]
            /\ Before(call.method, pair[1], pair[2])
        BY DEF BeforeBy
      <3>2. PICK j \in 1..k : q[j] = pair[2]
        <4> HIDE DEF k, taken
        <4>1. taken[pair[2]] # 0
          BY <2>3
        <4> QED
          BY <1>2, <1>7, <3>1, <4>1
      <3>3. PICK i \in 1..Len(q) : q[i] = pair[1]
        BY <1>3, <3>1
      <3>4. ~Before(call.method, pair[2], pair[1])
        BY <1>1, <1>5, <3>1, OneComesFirst
      <3>5. i < j
        <4>1. i # j /\ ~(j < i)
          BY <1>3, <1>4, <3>1, <3>2, <3>3, <3>4
        <4> QED
          BY <1>3, <1>4, <4>1
      <3>6. i \in 1..k /\ i # k
        BY <1>4, <3>5
      <3>7. call.slices[i].quantity = left[q[i]]
        BY <1>2, <3>6
      <3> QED
        BY <1>6, <3>3, <3>6, <3>7
    <2>4. Total(taken) = Q
      BY <1>9, TotalIsSum
    <2>5. taken \in [Open -> 0..Q]
      BY <2>2
    <2>6. \A l \in Open : taken[l] <= left[l]
      BY <1>5, <1>10
    <2> HIDE DEF taken, before
    <2> QED
      BY <2>1, <2>3, <2>4, <2>5, <2>6 DEF Coverings, before, BeforeBy
  <1>13. ASSUME NEW s \in Coverings(before, LeftOf, Q) PROVE s = taken
    <2>1. DOMAIN LeftOf = Open /\ \A l \in Open : LeftOf[l] \in Nat
      BY <1>5 DEF LeftOf
    <2>2. \A m, l \in Open : m # l => <<m, l>> \in before \/ <<l, m>> \in before
      BY <1>1, <1>5, OneComesFirst DEF BeforeBy
    <2> HIDE DEF taken, before
    <2> QED
      BY <1>1, <1>11, <1>12, <1>13, <2>1, <2>2, OneCovering
  <1> QED
    BY <1>12, <1>13

\* An error is raised when the pool cannot cover the quantity, and says what is missing.
LEMMA RaiseSelects ==
    ASSUME PoolInv, RaiseInsufficient
    PROVE  /\ Coverings(BeforeBy(call.method), LeftOf, call.quantity) = {}
           /\ UNCHANGED left
           /\ call.outstanding = call.quantity - Total(LeftOf)
  <1> DEFINE k == Len(call.slices)
  <1>1. /\ call # None /\ call.queue = <<>> /\ call.outstanding > 0 /\ UNCHANGED left
    BY DEF RaiseInsufficient
  <1>2. /\ Sliced(call) /\ call.slices \in Seq(Slices) /\ call.method \in Methods
        /\ call.outstanding \in Nat /\ call.quantity \in Nat
        /\ Matched(call.slices) + call.outstanding = call.quantity /\ k \in Nat
    BY <1>1 DEF PoolInv, Sliced, Calls
  <1>3. PICK q \in Queues(call.method) :
          /\ k + Len(call.queue) = Len(q)
          /\ \A n \in 1..k :
                /\ call.slices[n].lot = q[n]
                /\ call.slices[n].quantity \in 1..left[q[n]]
                /\ call.slices[n].quantity = left[q[n]] \/ (n = k /\ call.outstanding = 0)
    BY <1>1 DEF PoolInv, Follows
  <1>4. Len(q) = k
    BY <1>1, <1>2, <1>3
  <1>5. /\ \A i \in 1..k : q[i] \in Open
        /\ \A l \in Open : \E i \in 1..k : q[i] = l
    BY <1>2, <1>4, QueueFacts DEF PoolInv
  <1>6. \A n \in 1..k : call.slices[n].quantity = left[q[n]]
    BY <1>1, <1>3
  <1>7. DOMAIN LeftOf = Open /\ \A l \in Open : LeftOf[l] = left[l] /\ LeftOf[l] \in Nat
    BY DEF LeftOf, Open, PoolInv, Pooled
  <1>8. SumOn(LeftOf, Open) = Matched(call.slices)
    <2>1. \A n \in 1..k : /\ call.slices[n].lot \in Open
                          /\ LeftOf[call.slices[n].lot] = call.slices[n].quantity
      <3> HIDE DEF k
      <3>1. \A n \in 1..k : call.slices[n].lot = q[n]
        BY <1>3
      <3> QED
        BY <1>5, <1>6, <1>7, <3>1
    <2>2. \A i, j \in 1..k : call.slices[i].lot = call.slices[j].lot => i = j
      BY <1>2 DEF Sliced
    <2>3. \A l \in Open : \E n \in 1..k : call.slices[n].lot = l
      <3> HIDE DEF k
      <3>1. \A n \in 1..k : call.slices[n].lot = q[n]
        BY <1>3
      <3> QED
        BY <1>5, <3>1
    <2> QED
      BY <1>2, <2>1, <2>2, <2>3, CoveredOverLots
  <1>9. IsFiniteSet(Open)
    BY PoolAssumption, FS_Subset DEF Open
  <1>10. Total(LeftOf) = SumOn(LeftOf, Open) /\ SumOn(LeftOf, Open) \in Nat
    BY <1>7, <1>9, TotalIsSum, SumIsNat
  <1>11. call.outstanding = call.quantity - Total(LeftOf)
    BY <1>2, <1>8, <1>10
  <1>12. ASSUME NEW s \in Coverings(BeforeBy(call.method), LeftOf, call.quantity) PROVE FALSE
    <2>1. /\ s \in [Open -> 0..call.quantity] /\ \A l \in Open : s[l] <= LeftOf[l]
          /\ SumOn(s, Open) = call.quantity
      BY <1>7, TotalIsSum DEF Coverings
    <2>2. \A l \in Open : s[l] \in Int /\ LeftOf[l] \in Int /\ s[l] <= LeftOf[l]
      BY <1>7, <2>1
    <2>3. SumOn(s, Open) <= SumOn(LeftOf, Open)
      BY <1>9, <2>2, SumIsAtMost
    <2> QED
      BY <1>1, <1>2, <1>10, <1>11, <2>1, <2>3
  <1> QED
    BY <1>1, <1>11, <1>12

\* The loop over sorted lots comes to what Selection, and with it the engine's model, says:
\* for every method, pool and quantity the one set of slices that covers it, or an error
\* that is short by what the pool lacks.
THEOREM LoopTakesTheSelection == Spec => LoopMeetsSelection
  <1>1. PoolInv /\ [Next]_vars =>
           (call # None /\ call' = None =>
              LET coverings == Coverings({x \in Open \X Open :
                                             x[1] # x[2] /\ Before(call.method, x[1], x[2])},
                                         [l \in Open |-> left[l]], call.quantity)
                  taken == [l \in Open |-> left[l] - left'[l]]
              IN \/ coverings = {taken}
                 \/ /\ coverings = {} /\ UNCHANGED left
                    /\ call.outstanding = call.quantity - Total([l \in Open |-> left[l]]))
    <2> SUFFICES ASSUME PoolInv, [Next]_vars, call # None, call' = None
                 PROVE  \/ Coverings(BeforeBy(call.method), LeftOf, call.quantity)
                              = {[l \in Open |-> left[l] - left'[l]]}
                        \/ /\ Coverings(BeforeBy(call.method), LeftOf, call.quantity) = {}
                           /\ UNCHANGED left
                           /\ call.outstanding = call.quantity - Total(LeftOf)
      BY Zenon DEF BeforeBy, LeftOf
    <2>1. ~UNCHANGED vars
      BY DEF vars
    <2>2. \A method \in Methods, order \in Orders : ~Call(method, order)
      BY DEF Call
    <2>3. ~Take
      <3> SUFFICES ASSUME Take PROVE FALSE
        OBVIOUS
      <3>1. call' \in Calls
        BY TakeHolds
      <3> QED
        BY <3>1, PoolAssumption
    <2> QED
      BY <2>1, <2>2, <2>3, DisposeSelects, RaiseSelects DEF Next
  <1> QED
    BY <1>1, PoolSound, PTL DEF Spec, LoopMeetsSelection

-----------------------------------------------------------------------------
(* The figures of the forms                                                 *)

\* What the forms add up over rows is the sum of a column.
LEMMA FieldSum ==
    ASSUME NEW S, IsFiniteSet(S), NEW field
    PROVE  MapThenSumSet(LAMBDA r : r[field], S) = SumOn([r \in S |-> r[field]], S)
  <1> DEFINE f == [r \in S |-> r[field]]
             Sums(g) == g = [s \in SUBSET S |-> IF s = {} THEN 0
                                ELSE First(s)[field] + g[s \ {First(s)}]]
             h == CHOOSE g : Sums(g)
  <1>1. MapThenSumSet(LAMBDA r : r[field], S) = h[S]
    BY DEF MapThenSumSet, MapThenFoldSet, First
  <1>2. \A s \in SUBSET S : s # {} => f[First(s)] = First(s)[field]
    BY DEF First
  <1> HIDE DEF f
  <1>3. \A g : Sums(g) <=> Adds(f, S, g)
    BY <1>2 DEF Adds
  <1> HIDE DEF Sums
  <1>4. Adds(f, S, h)
    BY <1>3, AddsExists
  <1> HIDE DEF h
  <1> QED
    BY <1>1, <1>4, SumIsAdded DEF f

LEMMA NetSum ==
    ASSUME NEW S, IsFiniteSet(S)
    PROVE  MapThenSumSet(GainLossNet, S) = SumOn([r \in S |-> GainLossNet(r)], S)
  <1> DEFINE f == [r \in S |-> GainLossNet(r)]
             Sums(g) == g = [s \in SUBSET S |-> IF s = {} THEN 0
                                ELSE GainLossNet(First(s)) + g[s \ {First(s)}]]
             h == CHOOSE g : Sums(g)
  <1>1. MapThenSumSet(GainLossNet, S) = h[S]
    BY DEF MapThenSumSet, MapThenFoldSet, First
  <1>2. \A s \in SUBSET S : s # {} => f[First(s)] = GainLossNet(First(s))
    BY DEF First
  <1> HIDE DEF f
  <1>3. \A g : Sums(g) <=> Adds(f, S, g)
    BY <1>2 DEF Adds
  <1> HIDE DEF Sums
  <1>4. Adds(f, S, h)
    BY <1>3, AddsExists
  <1> HIDE DEF h
  <1> QED
    BY <1>1, <1>4, SumIsAdded DEF f

\* The same columns over the rows' numbers.
LEMMA SumsByNumber ==
    ASSUME NEW T, IsFiniteSet(T), NEW row, \A x, y \in T : row[x] = row[y] => x = y
    PROVE  LET rows == {row[n] : n \in T} IN
           /\ IsFiniteSet(rows) /\ Cardinality(rows) = Cardinality(T)
           /\ \A field : (\A n \in T : row[n][field] \in Int) =>
                 MapThenSumSet(LAMBDA r : r[field], rows) = SumOn([n \in T |-> row[n][field]], T)
           /\ (\A n \in T : GainLossNet(row[n]) \in Int) =>
                 MapThenSumSet(GainLossNet, rows) = SumOn([n \in T |-> GainLossNet(row[n])], T)
  <1> DEFINE rows == {row[n] : n \in T}
  <1>1. IsFiniteSet(rows) /\ Cardinality(rows) = Cardinality(T)
    BY NamedAsMany
  <1>2. ASSUME NEW field, \A n \in T : row[n][field] \in Int
        PROVE  MapThenSumSet(LAMBDA r : r[field], rows) = SumOn([n \in T |-> row[n][field]], T)
    <2> DEFINE f == [r \in rows |-> r[field]]
               h == [n \in T |-> row[n][field]]
    <2>1. \A n \in T : f[row[n]] \in Int /\ h[n] = f[row[n]]
      BY <1>2
    <2>2. MapThenSumSet(LAMBDA r : r[field], rows) = SumOn(f, rows)
      BY <1>1, FieldSum
    <2> HIDE DEF f, h
    <2>3. SumOn(f, rows) = SumOn(h, T)
      BY <2>1, SumNamed
    <2> QED
      BY <2>2, <2>3 DEF h
  <1>3. ASSUME \A n \in T : GainLossNet(row[n]) \in Int
        PROVE  MapThenSumSet(GainLossNet, rows) = SumOn([n \in T |-> GainLossNet(row[n])], T)
    <2> DEFINE f == [r \in rows |-> GainLossNet(r)]
               h == [n \in T |-> GainLossNet(row[n])]
    <2>1. \A n \in T : f[row[n]] \in Int /\ h[n] = f[row[n]]
      BY <1>3
    <2>2. MapThenSumSet(GainLossNet, rows) = SumOn(f, rows)
      BY <1>1, NetSum
    <2> HIDE DEF f, h
    <2>3. SumOn(f, rows) = SumOn(h, T)
      BY <2>1, SumNamed
    <2> QED
      BY <2>2, <2>3 DEF h
  <1> HIDE DEF rows
  <1> QED
    BY <1>1, <1>2, <1>3 DEF rows

LEMMA ShareOfTheWhole ==
    ASSUME NEW x \in Nat, NEW part \in Nat, NEW P \in Nat, NEW Q \in Nat \ {0},
           x * Q <= part * P, part <= Q
    PROVE  x <= P
  <1>1. part * P <= Q * P
    OBVIOUS
  <1>2. part * P \in Nat /\ x * Q \in Nat /\ Q * P \in Nat
    OBVIOUS
  <1>3. x * Q <= P * Q
    BY <1>1, <1>2
  <1> QED
    BY <1>3

\* No line has a negative share of the proceeds, and together they have all of it.
LEMMA SharesAddUp ==
    ASSUME NEW slices \in Seq(Slices), NEW P \in Nat, NEW Q \in Nat, slices # <<>>,
           \A n \in 1..Len(slices) : slices[n].quantity > 0, Matched(slices) = Q
    PROVE  LET lines == Lines(slices, P, Q)
               D == 1..Len(slices)
           IN /\ \A n \in D : lines[n].proceeds \in Nat
              /\ SumOn([n \in D |-> lines[n].proceeds], D) = P
  <1> DEFINE lines == Lines(slices, P, Q)
             k == Len(slices)
             D == 1..k
             E == 1..(k - 1)
             share(n) == (slices[n].quantity * P) \div Q
             swept == Total([n \in E |-> share(n)])
             f == [n \in E |-> share(n)]
             g == [n \in D |-> slices[n].quantity]
             h == [n \in D |-> lines[n].proceeds]
  <1>1. \A n \in D : lines[n].proceeds = IF n = k THEN P - swept ELSE share(n)
    BY Zenon DEF Lines
  <1>2. k \in Nat /\ k >= 1 /\ DOMAIN slices = D
    OBVIOUS
  <1>3. \A n \in D : slices[n].quantity \in Nat \ {0} /\ g[n] = slices[n].quantity
    <2>1. \A n \in D : slices[n] \in Slices
      OBVIOUS
    <2> QED
      BY <2>1 DEF Slices
  <1>4. \A n \in D : h[n] = lines[n].proceeds
    OBVIOUS
  <1> HIDE DEF k, lines
  <1>5. IsFiniteSet(D) /\ IsFiniteSet(E) /\ k \in D /\ D \ {k} = E /\ E \subseteq D
    <2>1. IsFiniteSet(D) /\ IsFiniteSet(E)
      BY <1>2, FS_Interval
    <2>2. k \in D /\ D \ {k} = E /\ E \subseteq D
      BY <1>2
    <2> QED
      BY <2>1, <2>2
  <1> HIDE DEF D, E
  <1>6. Q = SumOn(g, D)
    BY <1>2, Zenon DEF Matched
  <1>7. Q > 0
    <2>1. \A n \in D : g[n] \in Nat /\ g[n] > 0
      BY <1>3
    <2> HIDE DEF g
    <2>2. g[k] <= SumOn(g, D)
      BY <1>5, <2>1, SumIsAtLeast
    <2> QED
      BY <1>2, <1>6, <1>5, <2>1, <2>2
  <1>8. \A n \in D : share(n) \in Nat /\ share(n) * Q <= g[n] * P
    <2> SUFFICES ASSUME NEW n \in D PROVE share(n) \in Nat /\ share(n) * Q <= g[n] * P
      OBVIOUS
    <2> DEFINE x == slices[n].quantity * P
    <2>1. g[n] * P = x /\ x \in Nat /\ share(n) = x \div Q
      BY <1>2, <1>3
    <2> HIDE DEF x, g, share, swept, f, h
    <2>2. Q \in Nat \ {0}
      BY <1>2, <1>7
    <2>3. x \div Q \in Nat /\ (x \div Q) * Q <= x
      BY <2>1, <2>2, Divided
    <2> QED
      BY <2>1, <2>3
  <1>9. swept = SumOn(f, E)
    BY TotalIsSum
  <1>10. \A n \in E : f[n] = share(n) /\ f[n] \in Nat /\ g[n] \in Nat /\ f[n] * Q <= g[n] * P
    BY <1>3, <1>5, <1>8
  <1>11. \A n \in D : g[n] \in Nat
    BY <1>3
  <1> HIDE DEF f, g, share, swept
  <1>12. swept \in Nat /\ swept <= P
    <2>1. SumOn(f, E) \in Nat
      BY <1>5, <1>10, SumIsNat
    <2>2. SumOn(f, E) * Q <= SumOn(g, E) * P
      <3>1. P \in Int /\ Q \in Int
        BY <1>2
      <3>2. \A n \in E : f[n] \in Int /\ g[n] \in Int /\ f[n] * Q <= g[n] * P
        BY <1>10
      <3> QED
        BY <1>5, <3>1, <3>2, SumInProportion, Zenon
    <2>3. SumOn(g, E) <= Q /\ SumOn(g, E) \in Nat
      <3>1. SumOn(g, D) = g[k] + SumOn(g, E)
        <4>1. \A n \in D : g[n] \in Int
          BY <1>11
        <4>2. SumOn(g, D) = g[k] + SumOn(g, D \ {k})
          BY <1>5, <4>1, SumWithout
        <4> QED
          BY <1>5, <4>2
      <3>2. SumOn(g, E) \in Nat
        BY <1>5, <1>10, SumIsNat
      <3> QED
        BY <1>6, <1>5, <1>11, <3>1, <3>2
    <2>4. Q \in Nat \ {0}
      BY <1>7
    <2>5. SumOn(f, E) <= P
      BY <2>1, <2>2, <2>3, <2>4, ShareOfTheWhole
    <2> QED
      BY <1>9, <2>1, <2>5
  <1>13. \A n \in D : h[n] = (IF n = k THEN P - swept ELSE share(n)) /\ h[n] \in Nat
    BY <1>1, <1>4, <1>8, <1>12
  <1>14. SumOn(h, D) = P
    <2> HIDE DEF h
    <2>1. SumOn(h, D) = h[k] + SumOn(h, E)
      BY <1>5, <1>13, SumWithout
    <2>2. SumOn(h, E) = SumOn(f, E)
      <3>1. \A n \in E : n \in D /\ n # k
        BY <1>5
      <3>2. \A n \in E : h[n] = f[n]
        BY <1>10, <1>13, <3>1
      <3> QED
        BY <1>5, <3>2, SumSame
    <2>3. h[k] = P - swept
      BY <1>5, <1>13
    <2> QED
      BY <1>9, <1>12, <2>1, <2>2, <2>3
  <1> QED
    BY <1>4, <1>13, <1>14 DEF lines, D, k

\* What the forms are made of: lines of known lots whose proceeds are those of the sale.
LEMMA LinesSold ==
    ASSUME PoolInv, Sold
    PROVE  LET lines == result.lines
               D == DOMAIN lines
           IN /\ IsFiniteSet(D) /\ result.call.proceeds \in Nat
              /\ \A n \in D : /\ lines[n].lot \in Lots
                              /\ lines[n].basis \in Nat /\ lines[n].proceeds \in Nat
              /\ SumOn([n \in D |-> lines[n].proceeds], D) = result.call.proceeds
  <1> DEFINE c == result.call
             D == 1..Len(c.slices)
  <1>1. /\ Sliced(c) /\ c \in Calls /\ c.outstanding = 0
        /\ result.lines = Lines(c.slices, c.proceeds, c.quantity) /\ result.lines # <<>>
    BY DEF PoolInv, Sold, Sliced
  <1>2. c.slices \in Seq(Slices) /\ c.proceeds \in Nat /\ c.quantity \in Nat
    BY <1>1 DEF Calls
  <1>3. /\ DOMAIN result.lines = D
        /\ \A n \in D : /\ result.lines[n].lot = c.slices[n].lot
                        /\ result.lines[n].basis = c.slices[n].basis
    BY <1>1, <1>2, LinesOfSlices
  <1>4. c.slices # <<>>
    <2>1. c.slices = <<>> => result.lines = <<>>
      BY <1>1 DEF Lines
    <2> QED
      BY <1>1, <2>1
  <1>5. \A n \in D : c.slices[n] \in Slices /\ c.slices[n].quantity > 0
    BY <1>1, <1>2 DEF Sliced
  <1>6. Matched(c.slices) = c.quantity
    <2>1. Matched(c.slices) \in Nat
      <3>1. Len(c.slices) \in Nat /\ DOMAIN c.slices = D
        BY <1>2
      <3>2. \A n \in D : [m \in D |-> c.slices[m].quantity][n] \in Nat
        BY <1>5 DEF Slices
      <3> HIDE DEF c
      <3>3. IsFiniteSet(D)
        BY <3>1, FS_Interval
      <3> HIDE DEF D
      <3> QED
        BY <3>1, <3>2, <3>3, SumIsNat DEF Matched
    <2>2. Matched(c.slices) + c.outstanding = c.quantity
      BY <1>1 DEF Sliced
    <2> QED
      BY <1>1, <2>1, <2>2
  <1>7. /\ \A n \in D : result.lines[n].proceeds \in Nat
        /\ SumOn([n \in D |-> result.lines[n].proceeds], D) = c.proceeds
    <2> HIDE DEF c
    <2>1. \A n \in 1..Len(c.slices) : c.slices[n].quantity > 0
      BY <1>5
    <2>2. LET lines == Lines(c.slices, c.proceeds, c.quantity) IN
          /\ \A n \in D : lines[n].proceeds \in Nat
          /\ SumOn([n \in D |-> lines[n].proceeds], D) = c.proceeds
      BY <1>2, <1>4, <1>6, <2>1, SharesAddUp
    <2> QED
      BY <1>1, <2>2, Zenon
  <1>8. IsFiniteSet(D)
    <2>1. Len(c.slices) \in Nat
      BY <1>2
    <2> HIDE DEF c
    <2> QED
      BY <2>1, FS_Interval
  <1>9. \A n \in D : result.lines[n].lot \in Lots /\ result.lines[n].basis \in Nat
    BY <1>3, <1>5 DEF Slices
  <1> QED
    BY <1>2, <1>3, <1>7, <1>8, <1>9

\* The row of a line, the lines whose rows are short, and those of a box.
RowAt(n, date, related) ==
    LET line == result.lines[n]
        gain == line.proceeds - line.basis
    IN [line |-> n, proceeds |-> line.proceeds, basis |-> line.basis,
        adjustment |-> Adjustment(gain, related), covered |-> Covered,
        holding |-> HoldingPeriod(AcquiredOn[line.lot], date)]

Boxes == {"A", "B", "C", "D", "E", "F"}

InBox(box, date) ==
    {n \in DOMAIN result.lines :
        box = IF HoldingPeriod(AcquiredOn[result.lines[n].lot], date) = "short"
              THEN "C" ELSE "F"}

\* A row's figures, with what it nets.
LEMMA RowFigures ==
    ASSUME PoolInv, Sold, NEW date, NEW related \in BOOLEAN, NEW n \in DOMAIN result.lines
    PROVE  LET row == RowAt(n, date, related)
               gain == row.proceeds - row.basis
           IN /\ row.line = n
              /\ row.proceeds = result.lines[n].proceeds /\ row.basis = result.lines[n].basis
              /\ row.proceeds \in Nat /\ row.basis \in Nat /\ row.adjustment \in Nat
              /\ row.adjustment = IF related /\ gain < 0 THEN -gain ELSE 0
              /\ GainLossNet(row) = gain + row.adjustment /\ GainLossNet(row) \in Int
  <1> DEFINE line == result.lines[n]
             row == RowAt(n, date, related)
             gain == line.proceeds - line.basis
  <1>1. line.proceeds \in Nat /\ line.basis \in Nat
    BY LinesSold
  <1>2. /\ row.line = n /\ row.proceeds = line.proceeds /\ row.basis = line.basis
        /\ row.adjustment = Adjustment(gain, related)
    BY DEF RowAt
  <1> HIDE DEF row, line
  <1>3. gain \in Int /\ Adjustment(gain, related) \in Nat
    BY <1>1 DEF Adjustment
  <1>4. GainLossNet(row) = row.proceeds - row.basis + row.adjustment
    BY DEF GainLossNet
  <1> QED
    BY <1>1, <1>2, <1>3, <1>4 DEF Adjustment, row, line

\* A box has the rows of its lines.
LEMMA BoxOfRows ==
    ASSUME NEW date, NEW related, NEW box \in Boxes
    PROVE  {r \in Rows(result.lines, date, related) : BoxFor(r) = box}
              = {RowAt(n, date, related) : n \in InBox(box, date)}
  <1> DEFINE row(n) == RowAt(n, date, related)
             short(n) == HoldingPeriod(AcquiredOn[result.lines[n].lot], date) = "short"
  <1>1. Rows(result.lines, date, related) = {row(n) : n \in DOMAIN result.lines}
    BY Zenon DEF Rows, RowAt
  <1>2. \A n : /\ row(n).covered = "no-1099-da"
               /\ row(n).holding = "short" <=> short(n)
    BY DEF RowAt, Covered
  <1>3. ShortBox["no-1099-da"] = "C" /\ LongBox["no-1099-da"] = "F"
    BY DEF ShortBox, LongBox
  <1>4. \A n : BoxFor(row(n)) = IF short(n) THEN "C" ELSE "F"
    BY <1>2, <1>3 DEF BoxFor
  <1> HIDE DEF row
  <1>5. {r \in {row(n) : n \in DOMAIN result.lines} : BoxFor(r) = box}
           = {row(n) : n \in {m \in DOMAIN result.lines : BoxFor(row(m)) = box}}
    OBVIOUS
  <1>6. {m \in DOMAIN result.lines : BoxFor(row(m)) = box} = InBox(box, date)
    BY <1>4 DEF InBox
  <1> QED
    BY <1>1, <1>5, <1>6 DEF row

\* The sums the forms are made of.
Proceeds(rows) == MapThenSumSet(LAMBDA r : r.proceeds, rows)
Basis(rows) == MapThenSumSet(LAMBDA r : r.basis, rows)
Adjusted(rows) == MapThenSumSet(LAMBDA r : r.adjustment, rows)
Net(rows) == MapThenSumSet(GainLossNet, rows)

\* The rows of some of the lines, and the same sums over the lines.
RowsAt(T, date, related) == {RowAt(n, date, related) : n \in T}
ProceedsAt(T, date, related) == SumOn([n \in T |-> RowAt(n, date, related).proceeds], T)
BasisAt(T, date, related) == SumOn([n \in T |-> RowAt(n, date, related).basis], T)
AdjustedAt(T, date, related) == SumOn([n \in T |-> RowAt(n, date, related).adjustment], T)
NetAt(T, date, related) == SumOn([n \in T |-> GainLossNet(RowAt(n, date, related))], T)

\* What some of the lines come to on the forms.
LEMMA RowSums ==
    ASSUME PoolInv, Sold, NEW date, NEW related \in BOOLEAN,
           NEW T \in SUBSET DOMAIN result.lines
    PROVE  LET rows == RowsAt(T, date, related) IN
           /\ IsFiniteSet(T) /\ Cardinality(rows) = Cardinality(T)
           /\ Proceeds(rows) = ProceedsAt(T, date, related)
           /\ Basis(rows) = BasisAt(T, date, related)
           /\ Adjusted(rows) = AdjustedAt(T, date, related)
           /\ Net(rows) = NetAt(T, date, related)
  <1> DEFINE row == [n \in T |-> RowAt(n, date, related)]
             rows == {RowAt(n, date, related) : n \in T}
  <1>1. IsFiniteSet(T)
    BY LinesSold, FS_Subset
  <1>2. \A n \in T : /\ row[n] = RowAt(n, date, related) /\ row[n].line = n
                     /\ row[n].proceeds \in Int /\ row[n].basis \in Int
                     /\ row[n].adjustment \in Int /\ GainLossNet(row[n]) \in Int
    BY RowFigures
  <1>3. rows = {row[n] : n \in T}
    BY Zenon
  <1> HIDE DEF row
  <1>4. \A x, y \in T : row[x] = row[y] => x = y
    BY <1>2
  <1>5. /\ Cardinality({row[n] : n \in T}) = Cardinality(T)
        /\ \A field : (\A n \in T : row[n][field] \in Int) =>
              MapThenSumSet(LAMBDA r : r[field], {row[n] : n \in T})
                 = SumOn([n \in T |-> row[n][field]], T)
        /\ (\A n \in T : GainLossNet(row[n]) \in Int) =>
              MapThenSumSet(GainLossNet, {row[n] : n \in T})
                 = SumOn([n \in T |-> GainLossNet(row[n])], T)
    BY <1>1, <1>4, SumsByNumber, Zenon
  <1>6. /\ [n \in T |-> row[n].proceeds] = [n \in T |-> RowAt(n, date, related).proceeds]
        /\ [n \in T |-> row[n].basis] = [n \in T |-> RowAt(n, date, related).basis]
        /\ [n \in T |-> row[n].adjustment] = [n \in T |-> RowAt(n, date, related).adjustment]
        /\ [n \in T |-> GainLossNet(row[n])]
              = [n \in T |-> GainLossNet(RowAt(n, date, related))]
    BY <1>2
  <1>7. /\ MapThenSumSet(LAMBDA r : r["proceeds"], {row[n] : n \in T})
              = SumOn([n \in T |-> row[n]["proceeds"]], T)
        /\ MapThenSumSet(LAMBDA r : r["basis"], {row[n] : n \in T})
              = SumOn([n \in T |-> row[n]["basis"]], T)
        /\ MapThenSumSet(LAMBDA r : r["adjustment"], {row[n] : n \in T})
              = SumOn([n \in T |-> row[n]["adjustment"]], T)
    BY <1>2, <1>5
  <1> HIDE DEF rows
  <1> QED
    BY <1>1, <1>2, <1>3, <1>5, <1>6, <1>7 
       DEF rows, Proceeds, Basis, Adjusted, Net, RowsAt, ProceedsAt, BasisAt, AdjustedAt, NetAt

\* Each box of the form adds up its own lines.
LEMMA BoxSums ==
    ASSUME PoolInv, Sold, NEW date, NEW related \in BOOLEAN, NEW box \in Boxes
    PROVE  LET of == Build8949(Rows(result.lines, date, related))[box]
               T == InBox(box, date)
           IN /\ of.rows = Cardinality(T)
              /\ of.proceeds = ProceedsAt(T, date, related)
              /\ of.adjustment = AdjustedAt(T, date, related)
              /\ of.net = NetAt(T, date, related)
  <1> DEFINE own == {r \in Rows(result.lines, date, related) : BoxFor(r) = box}
             of == Build8949(Rows(result.lines, date, related))[box]
  <1>1. own = RowsAt(InBox(box, date), date, related)
    BY BoxOfRows DEF RowsAt
  <1>2. InBox(box, date) \in SUBSET DOMAIN result.lines
    BY DEF InBox
  <1>3. /\ of.rows = Cardinality(own) /\ of.proceeds = Proceeds(own)
        /\ of.adjustment = Adjusted(own) /\ of.net = Net(own)
    BY DEF Build8949, Boxes, Proceeds, Adjusted, Net
  <1> HIDE DEF own, of
  <1> QED
    BY <1>1, <1>2, <1>3, RowSums DEF of

\* Every line is in C or in F, and the other boxes are empty.
LEMMA BoxesSplit ==
    ASSUME NEW date
    PROVE  /\ InBox("C", date) \in SUBSET DOMAIN result.lines
           /\ InBox("F", date) = DOMAIN result.lines \ InBox("C", date)
           /\ \A box \in Boxes : box \notin {"C", "F"} => InBox(box, date) = {}
  BY DEF InBox, Boxes

LEMMA BoxesFinite ==
    /\ IsFiniteSet(Boxes) /\ IsFiniteSet({"A", "B", "C"}) /\ IsFiniteSet({"D", "E", "F"})
    /\ IsFiniteSet({"C", "F"})
  <1>1. IsFiniteSet({"A"}) /\ IsFiniteSet({"D"})
    BY FS_Singleton
  <1>2. IsFiniteSet({"A"} \cup {"B"}) /\ IsFiniteSet({"D"} \cup {"E"})
    BY <1>1, FS_AddElement
  <1>3. /\ IsFiniteSet({"A"} \cup {"B"} \cup {"C"})
        /\ IsFiniteSet({"D"} \cup {"E"} \cup {"F"})
    BY <1>2, FS_AddElement
  <1>4. /\ {"A"} \cup {"B"} \cup {"C"} = {"A", "B", "C"}
        /\ {"D"} \cup {"E"} \cup {"F"} = {"D", "E", "F"}
    OBVIOUS
  <1>5. Boxes = {"A", "B", "C"} \cup {"D", "E", "F"} /\ {"C", "F"} \in SUBSET Boxes
    BY DEF Boxes
  <1>6. IsFiniteSet({"A", "B", "C"}) /\ IsFiniteSet({"D", "E", "F"})
    BY <1>3, <1>4
  <1>7. IsFiniteSet(Boxes)
    BY <1>5, <1>6, FS_Union
  <1> QED
    BY <1>5, <1>6, <1>7, FS_Subset

\* So a column over the boxes is the column over the lines.
LEMMA SumOverBoxes ==
    ASSUME PoolInv, Sold, NEW date, NEW of, NEW f,
           \A n \in DOMAIN result.lines : f[n] \in Int,
           \A box \in Boxes : of[box] = SumOn(f, InBox(box, date))
    PROVE  /\ SumOn(of, Boxes) = SumOn(f, DOMAIN result.lines)
           /\ SumOn(of, {"A", "B", "C"}) + SumOn(of, {"D", "E", "F"})
                 = SumOn(f, DOMAIN result.lines)
           /\ SumOn(of, {"A", "B", "C"}) \in Int /\ SumOn(of, {"D", "E", "F"}) \in Int
  <1> DEFINE L == DOMAIN result.lines
             S == InBox("C", date)
  <1>1. IsFiniteSet(L)
    BY LinesSold
  <1>2. S \in SUBSET L /\ InBox("F", date) = L \ S
    BY BoxesSplit
  <1>3. of["C"] = SumOn(f, S) /\ of["F"] = SumOn(f, L \ S)
    BY <1>2 DEF Boxes
  <1>4. \A box \in Boxes : box \notin {"C", "F"} => of[box] = 0
    BY BoxesSplit, SumOfNone
  <1> HIDE DEF L, S
  <1>5. /\ SumOn(f, L) = of["C"] + of["F"]
        /\ of["C"] \in Int /\ of["F"] \in Int
    <2>1. IsFiniteSet(S) /\ IsFiniteSet(L \ S)
      BY <1>1, <1>2, FS_Subset
    <2>2. SumOn(f, S) \in Int /\ SumOn(f, L \ S) \in Int
      BY <1>2, <2>1, SumIsInt DEF L
    <2>3. SumOn(f, L) = SumOn(f, S) + SumOn(f, L \ S)
      BY <1>1, <1>2, SumSplit DEF L
    <2> QED
      BY <1>3, <2>2, <2>3
  <1>6. /\ \A box \in Boxes : of[box] \in Int
        /\ of["A"] = 0 /\ of["B"] = 0 /\ of["D"] = 0 /\ of["E"] = 0
    BY <1>4, <1>5 DEF Boxes
  <1>7. /\ IsFiniteSet(Boxes) /\ IsFiniteSet({"A", "B", "C"}) /\ IsFiniteSet({"D", "E", "F"})
        /\ IsFiniteSet({"C", "F"})
    BY BoxesFinite
  <1>8. SumOn(of, {"A", "B", "C"}) = of["C"] /\ SumOn(of, {"D", "E", "F"}) = of["F"]
    <2>1. /\ {"C"} \in SUBSET {"A", "B", "C"} /\ {"F"} \in SUBSET {"D", "E", "F"}
          /\ \A box \in {"A", "B", "C"} : of[box] \in Int
          /\ \A box \in {"D", "E", "F"} : of[box] \in Int
          /\ \A box \in {"A", "B", "C"} \ {"C"} : of[box] = 0
          /\ \A box \in {"D", "E", "F"} \ {"F"} : of[box] = 0
      BY <1>5, <1>6
    <2>2. SumOn(of, {"A", "B", "C"}) = SumOn(of, {"C"})
      BY <1>7, <2>1, SumWhereItIs
    <2>3. SumOn(of, {"D", "E", "F"}) = SumOn(of, {"F"})
      BY <1>7, <2>1, SumWhereItIs
    <2> QED
      BY <1>5, <2>2, <2>3, SumOfOne
  <1>9. SumOn(of, Boxes) = of["C"] + of["F"]
    <2>1. /\ {"C", "F"} \in SUBSET Boxes
          /\ \A box \in Boxes \ {"C", "F"} : of[box] = 0
      BY <1>6 DEF Boxes
    <2>2. SumOn(of, Boxes) = SumOn(of, {"C", "F"})
      BY <1>6, <1>7, <2>1, SumWhereItIs
    <2>3. /\ "C" \in {"C", "F"} /\ {"C", "F"} \ {"C"} = {"F"}
          /\ \A box \in {"C", "F"} : of[box] \in Int
      BY <1>5
    <2>4. SumOn(of, {"C", "F"}) = of["C"] + SumOn(of, {"C", "F"} \ {"C"})
      BY <1>7, <2>3, SumWithout
    <2> QED
      BY <1>5, <2>2, <2>3, <2>4, SumOfOne
  <1> QED
    BY <1>5, <1>8, <1>9 DEF L

\* A date and a customer: what the forms say of the sale is what the lines say.
LEMMA FormsOfSale ==
    ASSUME PoolInv, Sold, NEW date, NEW related \in BOOLEAN
    PROVE  LET rows   == Rows(result.lines, date, related)
               form   == Build8949(rows)
               report == ActivityReport(rows)
               disallowed == MapThenSumSet(LAMBDA r : r.adjustment, rows)
           IN /\ ScheduleD(form).total = report.gain
              /\ ScheduleD(form).total = result.call.proceeds - report.basis + disallowed
              /\ MapThenSumSet(LAMBDA b : form[b].proceeds, DOMAIN form) = report.proceeds
              /\ \A row \in rows : row.proceeds >= 0
  <1> DEFINE L == DOMAIN result.lines
             row(n) == RowAt(n, date, related)
             rows   == Rows(result.lines, date, related)
             form   == Build8949(rows)
             report == ActivityReport(rows)
             disallowed == MapThenSumSet(LAMBDA r : r.adjustment, rows)
             proceeds == [n \in L |-> row(n).proceeds]
             basis    == [n \in L |-> row(n).basis]
             adjusted == [n \in L |-> row(n).adjustment]
             net      == [n \in L |-> GainLossNet(row(n))]
             boxNet      == [b \in Boxes |-> form[b].net]
             boxProceeds == [b \in Boxes |-> form[b].proceeds]
  <1>1. IsFiniteSet(L) /\ SumOn([n \in L |-> result.lines[n].proceeds], L) = result.call.proceeds
    BY LinesSold
  <1>2. \A n \in L :
           /\ row(n).proceeds \in Nat /\ row(n).basis \in Nat /\ row(n).adjustment \in Nat
           /\ GainLossNet(row(n)) = row(n).proceeds - row(n).basis + row(n).adjustment
           /\ GainLossNet(row(n)) \in Int
           /\ row(n).proceeds = result.lines[n].proceeds
    BY RowFigures
  <1>3. rows = {row(n) : n \in L}
    BY Zenon DEF Rows, RowAt
  <1>4. \A r \in rows : r.proceeds >= 0
    <2> HIDE DEF row, rows
    <2> QED
      BY <1>2, <1>3
  <1>5. /\ report.gain = SumOn(net, L) /\ report.basis = SumOn(basis, L)
        /\ report.proceeds = SumOn(proceeds, L) /\ disallowed = SumOn(adjusted, L)
    <2>1. /\ Proceeds({row(n) : n \in L}) = SumOn(proceeds, L)
          /\ Basis({row(n) : n \in L}) = SumOn(basis, L)
          /\ Adjusted({row(n) : n \in L}) = SumOn(adjusted, L)
          /\ Net({row(n) : n \in L}) = SumOn(net, L)
      <3>1. L \in SUBSET L
        OBVIOUS
      <3>2. /\ Proceeds(RowsAt(L, date, related)) = ProceedsAt(L, date, related)
            /\ Basis(RowsAt(L, date, related)) = BasisAt(L, date, related)
            /\ Adjusted(RowsAt(L, date, related)) = AdjustedAt(L, date, related)
            /\ Net(RowsAt(L, date, related)) = NetAt(L, date, related)
        BY <3>1, RowSums
      <3> QED
        BY <3>2, Zenon DEF RowsAt, ProceedsAt, BasisAt, AdjustedAt, NetAt
    <2> HIDE DEF row, rows, proceeds, basis, adjusted, net
    <2>2. /\ report.proceeds = Proceeds(rows) /\ report.basis = Basis(rows)
          /\ report.gain = Net(rows) /\ disallowed = Adjusted(rows)
      BY DEF ActivityReport, Proceeds, Basis, Adjusted, Net
    <2> QED
      BY <1>3, <2>1, <2>2
  <1>6. /\ \A box \in Boxes : boxNet[box] = form[box].net /\ boxProceeds[box] = form[box].proceeds
        /\ DOMAIN form = Boxes
    BY DEF Build8949, Boxes
  <1>7. \A box \in Boxes :
           LET T == InBox(box, date) IN
           /\ form[box].net = SumOn([n \in T |-> GainLossNet(row(n))], T)
           /\ form[box].proceeds = SumOn([n \in T |-> row(n).proceeds], T)
    BY BoxSums DEF ProceedsAt, NetAt
  <1> HIDE DEF row, form, report, disallowed
  <1>8. /\ \A n \in L : proceeds[n] = row(n).proceeds /\ basis[n] = row(n).basis
        /\ \A n \in L : adjusted[n] = row(n).adjustment /\ net[n] = GainLossNet(row(n))
    OBVIOUS
  <1> HIDE DEF proceeds, basis, adjusted, net, boxNet, boxProceeds
  <1>9. \A box \in Boxes : /\ boxNet[box] = SumOn(net, InBox(box, date))
                           /\ boxProceeds[box] = SumOn(proceeds, InBox(box, date))
    <2> SUFFICES ASSUME NEW box \in Boxes
                 PROVE  /\ boxNet[box] = SumOn(net, InBox(box, date))
                        /\ boxProceeds[box] = SumOn(proceeds, InBox(box, date))
      OBVIOUS
    <2> DEFINE T == InBox(box, date)
               f == [n \in T |-> GainLossNet(row(n))]
               g == [n \in T |-> row(n).proceeds]
    <2>1. T \in SUBSET L
      BY DEF InBox
    <2>2. IsFiniteSet(T)
      BY <1>1, <2>1, FS_Subset
    <2>3. boxNet[box] = SumOn(f, T) /\ boxProceeds[box] = SumOn(g, T)
      BY <1>6, <1>7
    <2>4. \A n \in T : f[n] = net[n] /\ g[n] = proceeds[n]
      BY <1>8, <2>1
    <2> HIDE DEF T, f, g
    <2> QED
      BY <2>2, <2>3, <2>4, SumSame DEF T
  <1>10. \A n \in L : proceeds[n] \in Int /\ net[n] \in Int
    BY <1>2, <1>8
  <1>11. /\ SumOn(boxProceeds, Boxes) = SumOn(proceeds, L)
         /\ SumOn(boxNet, {"A", "B", "C"}) + SumOn(boxNet, {"D", "E", "F"}) = SumOn(net, L)
    BY <1>9, <1>10, SumOverBoxes
  <1>12. ScheduleD(form).total = SumOn(net, L)
    <2>1. ScheduleD(form).total = MapThenSumSet(LAMBDA b : form[b].net, {"A", "B", "C"})
                                  + MapThenSumSet(LAMBDA b : form[b].net, {"D", "E", "F"})
      BY DEF ScheduleD
    <2>2. IsFiniteSet({"A", "B", "C"}) /\ IsFiniteSet({"D", "E", "F"})
      BY BoxesFinite
    <2>3. /\ MapThenSumSet(LAMBDA b : form[b].net, {"A", "B", "C"})
                = SumOn([b \in {"A", "B", "C"} |-> form[b].net], {"A", "B", "C"})
          /\ MapThenSumSet(LAMBDA b : form[b].net, {"D", "E", "F"})
                = SumOn([b \in {"D", "E", "F"} |-> form[b].net], {"D", "E", "F"})
      BY <2>2, ColumnSum
    <2>4. /\ SumOn([b \in {"A", "B", "C"} |-> form[b].net], {"A", "B", "C"})
                = SumOn(boxNet, {"A", "B", "C"})
          /\ SumOn([b \in {"D", "E", "F"} |-> form[b].net], {"D", "E", "F"})
                = SumOn(boxNet, {"D", "E", "F"})
      <3> DEFINE f == [b \in {"A", "B", "C"} |-> form[b].net]
                 g == [b \in {"D", "E", "F"} |-> form[b].net]
      <3>1. /\ \A b \in {"A", "B", "C"} : f[b] = boxNet[b]
            /\ \A b \in {"D", "E", "F"} : g[b] = boxNet[b]
        BY <1>6 DEF Boxes
      <3> HIDE DEF f, g
      <3>2. SumOn(f, {"A", "B", "C"}) = SumOn(boxNet, {"A", "B", "C"})
        BY <2>2, <3>1, SumSame
      <3>3. SumOn(g, {"D", "E", "F"}) = SumOn(boxNet, {"D", "E", "F"})
        BY <2>2, <3>1, SumSame
      <3> QED
        BY <3>2, <3>3 DEF f, g
    <2> QED
      BY <1>11, <2>1, <2>3, <2>4
  <1>13. MapThenSumSet(LAMBDA b : form[b].proceeds, DOMAIN form) = SumOn(proceeds, L)
    <2>1. MapThenSumSet(LAMBDA b : form[b].proceeds, Boxes)
             = SumOn([b \in Boxes |-> form[b].proceeds], Boxes)
      BY BoxesFinite, ColumnSum
    <2> DEFINE f == [b \in Boxes |-> form[b].proceeds]
    <2>2. \A b \in Boxes : f[b] = boxProceeds[b]
      BY <1>6
    <2> HIDE DEF f
    <2>3. SumOn(f, Boxes) = SumOn(boxProceeds, Boxes)
      BY <2>2, BoxesFinite, SumSame
    <2> QED
      BY <1>6, <1>11, <2>1, <2>3 DEF f
  <1>14. SumOn(net, L) = result.call.proceeds - SumOn(basis, L) + SumOn(adjusted, L)
    <2> DEFINE gross == [n \in L |-> proceeds[n] + adjusted[n]]
    <2>1. \A n \in L :
             /\ proceeds[n] \in Int /\ basis[n] \in Int /\ adjusted[n] \in Int /\ net[n] \in Int
             /\ gross[n] = proceeds[n] + adjusted[n] /\ gross[n] = net[n] + basis[n]
      BY <1>2, <1>8
    <2> HIDE DEF gross, L
    <2>2. SumOn(gross, L) = SumOn(proceeds, L) + SumOn(adjusted, L)
      BY <1>1, <2>1, SumPlus
    <2>3. SumOn(gross, L) = SumOn(net, L) + SumOn(basis, L)
      BY <1>1, <2>1, SumPlus
    <2>4. /\ SumOn(proceeds, L) \in Int /\ SumOn(adjusted, L) \in Int
          /\ SumOn(net, L) \in Int /\ SumOn(basis, L) \in Int
      BY <1>1, <2>1, SumIsInt
    <2>5. SumOn(proceeds, L) = result.call.proceeds
      <3> DEFINE f == [n \in L |-> result.lines[n].proceeds]
      <3>1. \A n \in L : proceeds[n] = f[n]
        BY <1>2, <1>8 DEF L
      <3> HIDE DEF f
      <3>2. SumOn(proceeds, L) = SumOn(f, L)
        BY <1>1, <3>1, SumSame
      <3> QED
        BY <1>1, <3>2 DEF f
    <2> QED
      BY <2>2, <2>3, <2>4, <2>5
  <1> HIDE DEF L, rows
  <1> QED
    BY <1>4, <1>5, <1>12, <1>13, <1>14 DEF rows, form, report, disallowed

\* The forms and the report agree to the last step, and Schedule D taxes what came in less
\* what it cost plus what was disallowed: for any lots, sale, day and customer.
THEOREM FormsComeToTheSame == Spec => []FormsAgree
  <1>1. PoolInv => FormsAgree
    BY FormsOfSale DEF FormsAgree
  <1> QED
    BY <1>1, PoolSound, PTL

\* Of some lines sold to a related party: no loss is left, every gain is, and the
\* difference is what was disallowed.
LEMMA RelatedSums ==
    ASSUME PoolInv, Sold, NEW date, NEW T \in SUBSET DOMAIN result.lines
    PROVE  /\ NetAt(T, date, TRUE) >= 0 /\ NetAt(T, date, TRUE) >= NetAt(T, date, FALSE)
           /\ NetAt(T, date, TRUE) = NetAt(T, date, FALSE) + AdjustedAt(T, date, TRUE)
  <1> DEFINE outside == [n \in T |-> GainLossNet(RowAt(n, date, FALSE))]
             kept    == [n \in T |-> GainLossNet(RowAt(n, date, TRUE))]
             added   == [n \in T |-> RowAt(n, date, TRUE).adjustment]
  <1>1. IsFiniteSet(T)
    BY LinesSold, FS_Subset
  <1>2. ASSUME NEW n \in T
        PROVE  /\ outside[n] \in Int /\ kept[n] \in Nat /\ added[n] \in Int
               /\ outside[n] <= kept[n] /\ kept[n] = outside[n] + added[n]
    <2> DEFINE line == result.lines[n]
               gain == line.proceeds - line.basis
               in   == RowAt(n, date, TRUE)
               out  == RowAt(n, date, FALSE)
    <2>1. line.proceeds \in Nat /\ line.basis \in Nat
      BY LinesSold
    <2> DEFINE figures(related) ==
                  LET row == RowAt(n, date, related) IN
                  /\ row.proceeds = line.proceeds /\ row.basis = line.basis
                  /\ row.adjustment = (IF related /\ row.proceeds - row.basis < 0
                                       THEN -(row.proceeds - row.basis) ELSE 0)
                  /\ GainLossNet(row) = row.proceeds - row.basis + row.adjustment
    <2>2. ASSUME NEW related \in BOOLEAN PROVE figures(related)
      BY RowFigures
    <2>3. figures(TRUE) /\ figures(FALSE)
      BY <2>2
    <2>4. in.adjustment = (IF gain < 0 THEN -gain ELSE 0) /\ GainLossNet(in) = gain + in.adjustment
      BY <2>3
    <2>5. out.adjustment = 0 /\ GainLossNet(out) = gain + out.adjustment
      BY <2>3
    <2> HIDE DEF line, in, out
    <2>6. /\ GainLossNet(out) \in Int /\ GainLossNet(in) \in Nat /\ in.adjustment \in Int
          /\ GainLossNet(out) <= GainLossNet(in)
          /\ GainLossNet(in) = GainLossNet(out) + in.adjustment
      BY <2>1, <2>4, <2>5
    <2> QED
      BY <2>6 DEF in, out
  <1> HIDE DEF outside, kept, added
  <1>3. \A n \in T : outside[n] \in Int /\ kept[n] \in Int /\ outside[n] <= kept[n]
    BY <1>2
  <1>4. SumOn(kept, T) \in Nat
    BY <1>1, <1>2, SumIsNat
  <1>5. SumOn(outside, T) <= SumOn(kept, T)
    BY <1>1, <1>3, SumIsAtMost
  <1>6. SumOn(kept, T) = SumOn(outside, T) + SumOn(added, T)
    BY <1>1, <1>2, SumPlus
  <1>7. SumOn(outside, T) \in Int
    BY <1>1, <1>2, SumIsInt
  <1> QED
    BY <1>4, <1>5, <1>6, <1>7 DEF NetAt, AdjustedAt, outside, kept, added

\* Whatever is sold to a related party, no box shows a loss and none loses a gain, and the
\* adjustments are all that sets its form apart.
THEOREM RelatedLossesDisallowed == Spec => []LossesDisallowed
  <1>1. ASSUME PoolInv, Sold, NEW date \in Dates
        PROVE  LET outside == Build8949(Rows(result.lines, date, FALSE))
                   related == Build8949(Rows(result.lines, date, TRUE))
               IN \A b \in DOMAIN related :
                     /\ related[b].net >= 0 /\ related[b].net >= outside[b].net
                     /\ related[b].net = outside[b].net + related[b].adjustment
                     /\ related[b].rows = outside[b].rows
    <2> DEFINE outside == Build8949(Rows(result.lines, date, FALSE))
               related == Build8949(Rows(result.lines, date, TRUE))
    <2>1. DOMAIN related = Boxes
      BY DEF Build8949, Boxes
    <2> HIDE DEF outside, related
    <2>2. ASSUME NEW b \in Boxes
          PROVE  /\ related[b].net >= 0 /\ related[b].net >= outside[b].net
                 /\ related[b].net = outside[b].net + related[b].adjustment
                 /\ related[b].rows = outside[b].rows
      <3> DEFINE T == InBox(b, date)
      <3>1. T \in SUBSET DOMAIN result.lines
        BY DEF InBox
      <3>2. /\ related[b].net = NetAt(T, date, TRUE)
            /\ related[b].adjustment = AdjustedAt(T, date, TRUE)
            /\ related[b].rows = Cardinality(T)
        BY <1>1, BoxSums DEF related
      <3>3. outside[b].net = NetAt(T, date, FALSE) /\ outside[b].rows = Cardinality(T)
        BY <1>1, BoxSums DEF outside
      <3> HIDE DEF T
      <3>4. /\ NetAt(T, date, TRUE) >= 0 /\ NetAt(T, date, TRUE) >= NetAt(T, date, FALSE)
            /\ NetAt(T, date, TRUE) = NetAt(T, date, FALSE) + AdjustedAt(T, date, TRUE)
        BY <1>1, <3>1, RelatedSums
      <3> QED
        BY <3>2, <3>3, <3>4
    <2> QED
      BY <2>1, <2>2 DEF outside, related
  <1>2. PoolInv => LossesDisallowed
    BY <1>1 DEF LossesDisallowed
  <1> QED
    BY <1>2, PoolSound, PTL
=============================================================================

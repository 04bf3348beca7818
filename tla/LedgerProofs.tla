---------------------------- MODULE LedgerProofs ----------------------------
(***************************************************************************)
(* Proofs about LotEngine for every set of wallets, events and amounts, and  *)
(* about Forms: what a form says is true of the ledger it was fetched from,  *)
(* whatever jobs, answers and years passed between its statements.           *)
(*                                                                         *)
(* What holds of the running ledger must hold of the saved one too, or a     *)
(* rollback would break it: the inductive invariant says the same of both.   *)
(* A step of Forms is a step of the engine, or starts a recompute: what      *)
(* holds of the engine's ledger holds of the forms' too.                     *)
(***************************************************************************)
EXTENDS Forms, SignalsProofs, SelectionProofs

\* The parts of the inductive invariant, of any lots ls, disposals ds, relocs rs
\* and review flags rv.
Typed(ls, ds, rs, rv) ==
    /\ ls \in [Events -> Lots \cup {None}]
    /\ ds \in [Events -> [Events -> Nat]]
    /\ rs \in SUBSET Relocations
    /\ rv \in SUBSET Events

Anchored(ls, ds, rs) ==
    /\ \A e, l \in Events : ds[e][l] > 0 => ls[l] # None
    /\ \A r \in rs : ls[r.lot] # None

\* One disposal and what is left of a lot fit in what was acquired, and a lot that
\* lost units has a row that says to whom.
Covered(ls, ds, rs) ==
    \A l \in Events : ls[l] # None =>
        /\ ls[l].remaining <= Amount[l]
        /\ \A e \in Events : ls[l].remaining + ds[e][l] <= Amount[l]
        /\ ls[l].remaining < Amount[l] =>
              \/ \E e \in Events : ds[e][l] > 0
              \/ \E r \in rs : r.lot = l /\ GiftRow(r)

\* A lot's wallet and entity come from its acquisition or from one of its moves.
Traced(ls, rs) ==
    \A l \in Events : ls[l] # None =>
        \/ /\ ls[l].wallet = WalletOf[l]
           /\ ls[l].entity = OwnerAt[WalletOf[l]][l]
        \/ \E r \in rs : /\ r.lot = l /\ r.to = ls[l].wallet
                         /\ WalletOf[r.tx] = r.to
                         /\ OwnerAt[r.to][r.tx] \in {ls[l].entity, None}

Flagged(rs, rv) == \A r \in rs : r.reason = "gift" => r.tx \in rv

Sound(ls, ds, rs, rv) ==
    /\ Typed(ls, ds, rs, rv)
    /\ Anchored(ls, ds, rs)
    /\ Covered(ls, ds, rs)
    /\ Traced(ls, rs)
    /\ Flagged(rs, rv)

IInv ==
    /\ ct \in [Events -> CTs \cup {None}]
    /\ job \in Jobs /\ job.todo \subseteq Arrived
    /\ excs \subseteq [event : Events, reason : Reasons]
    /\ saved \in Ledgers
    /\ Sound(lots, disposals, relocs, review)
    /\ Sound(saved.lots, saved.disposals, saved.relocs, saved.review)

-----------------------------------------------------------------------------
(* What the operators return                                                *)

\* A slice takes from a lot that is there no more than what is left of it.
LEMMA SlicesFit ==
    ASSUME NEW method, NEW w, NEW pool, NEW amount \in Nat,
           lots \in [Events -> Lots \cup {None}],
           NEW s \in Consumptions(method, OpenLots(w, pool), amount),
           NEW l \in DOMAIN s
    PROVE  /\ l \in Events /\ lots[l] # None /\ lots[l] \in Lots
           /\ s[l] \in Nat /\ s[l] <= lots[l].remaining
           /\ lots[l].wallet = w
  <1>1. s \in [OpenLots(w, pool) -> 0..amount] /\ l \in OpenLots(w, pool)
    BY DEF Consumptions, Coverings
  <1>2. l \in Events /\ lots[l] # None /\ lots[l] \in Lots /\ lots[l].wallet = w
    BY <1>1 DEF OpenLots, Held
  <1>3. s[l] \in 0..amount
    BY <1>1
  <1>4. s[l] <= lots[l].remaining
    BY <1>1 DEF Consumptions, Coverings
  <1> QED
    BY <1>2, <1>3, <1>4

\* A relocation touches lots of the sender's wallet that have units left.
LEMMA MovesFit ==
    ASSUME NEW e \in Events, lots \in [Events -> Lots \cup {None}],
           NEW s \in RelocationSlices(e), NEW l \in DOMAIN s, s[l] > 0
    PROVE  /\ l \in Events /\ lots[l] # None /\ lots[l] \in Lots
           /\ lots[l].wallet = WalletOf[ct[e].src]
  <1>1. CASE PoolOf[e] = None
    BY <1>1 DEF RelocationSlices
  <1>2. CASE PoolOf[e] # None
    BY <1>2, SlicesFit, LedgerAssumption DEF RelocationSlices
  <1> QED
    BY <1>1, <1>2

\* A moved lot keeps its quantity and takes the wallet and, if there is one, its owner.
LEMMA MovedFacts ==
    ASSUME NEW e \in Events, NEW l, lots[l] \in Lots
    PROVE  /\ Moved(e, l) \in Lots /\ Moved(e, l) # None
           /\ Moved(e, l).remaining = lots[l].remaining
           /\ Moved(e, l).wallet = WalletOf[e]
           /\ Moved(e, l).entity = IF OwnerOf(e, e) # None THEN OwnerOf(e, e)
                                   ELSE lots[l].entity
  <1>1. WalletOf[e] \in Wallets /\ OwnerOf(e, e) \in Entities \cup {None}
    BY SignalsAssumption DEF OwnerOf
  <1>2. AcqTypeAfterMove(ct[e], lots[l].acq) \in AcqTypes
    BY DEF AcqTypeAfterMove, Lots, AcqTypes
  <1>3. /\ Moved(e, l) \in Lots
        /\ Moved(e, l).remaining = lots[l].remaining
        /\ Moved(e, l).wallet = WalletOf[e]
        /\ Moved(e, l).entity = IF OwnerOf(e, e) # None THEN OwnerOf(e, e)
                                ELSE lots[l].entity
    BY <1>1, <1>2 DEF Moved, Lots, OwnerOf
  <1> QED
    BY <1>3, LedgerAssumption

\* The value a new lot takes is a natural number whenever there is one.
LEMMA BasisTyped ==
    ASSUME NEW e \in Events
    PROVE  Basis(e) \in Nat \cup {None}
  <1> DEFINE legs == {x \in Arrived : /\ WalletOf[x] = WalletOf[e]
                                      /\ TxOf[x] = TxOf[e]
                                      /\ ct[x].class = "scdt-out"}
  <1>1. legs # {} => (CHOOSE x \in legs : TRUE) \in Events
    BY DEF Arrived
  <1>2. ValueOf[e] \in Nat \cup {None}
    BY SignalsAssumption, LedgerAssumption
  <1>3. legs # {} => ValueOf[CHOOSE x \in legs : TRUE] \in Nat \cup {None}
    BY <1>1, SignalsAssumption, LedgerAssumption
  <1> QED
    BY <1>2, <1>3 DEF Basis

\* The row a handler makes of an event with a basis, an owner and a token.
LEMMA AcquiredTyped ==
    ASSUME NEW e \in Events, Acquirable(e)
    PROVE  LET row == [wallet |-> WalletOf[e], entity |-> OwnerAt[WalletOf[e]][e],
                       remaining |-> Amount[e], cost |-> Basis(e),
                       acq |-> AcquisitionType(ct[e])]
           IN  row \in Lots /\ row # None
  <1> DEFINE row == [wallet |-> WalletOf[e], entity |-> OwnerAt[WalletOf[e]][e],
                     remaining |-> Amount[e], cost |-> Basis(e),
                     acq |-> AcquisitionType(ct[e])]
  <1>1. WalletOf[e] \in Wallets /\ Amount[e] \in Nat
    BY SignalsAssumption, LedgerAssumption
  <1>2. OwnerAt[WalletOf[e]][e] \in Entities
    BY <1>1, SignalsAssumption DEF Acquirable
  <1>3. Basis(e) \in Nat
    BY BasisTyped DEF Acquirable
  <1>4. AcquisitionType(ct[e]) \in AcqTypes
    BY DEF AcquisitionType, AcqTypes
  <1>5. row \in Lots
    BY <1>1, <1>2, <1>3, <1>4 DEF Lots
  <1> QED
    BY <1>5, LedgerAssumption

-----------------------------------------------------------------------------
(* The initial state, signals and the job's own steps                       *)

\* The empty ledger is sound, running and saved.
LEMMA InitInv == Init => IInv
  <1> SUFFICES ASSUME Init PROVE IInv
    OBVIOUS
  <1>1. Sound(lots, disposals, relocs, review)
    BY DEF Init, SignalInit, Sound, Typed, Anchored, Covered, Traced, Flagged
  <1>2. saved = [lots |-> lots, disposals |-> disposals, relocs |-> relocs,
                 excs |-> excs, review |-> review]
    BY DEF Init, Snapshot
  <1>3. excs \subseteq [event : Events, reason : Reasons]
    BY DEF Init
  <1>4. saved \in Ledgers
    BY <1>1, <1>2, <1>3 DEF Ledgers, Sound, Typed
  <1>5. ct \in [Events -> CTs \cup {None}] /\ job \in Jobs /\ job.todo \subseteq Arrived
    BY DEF Init, SignalInit, Idle, Jobs
  <1> QED
    BY <1>1, <1>2, <1>3, <1>4, <1>5 DEF IInv

\* Writers touch nothing but the signal columns, and keep those typed.
LEMMA WriteInv == ASSUME IInv, Write PROVE IInv'
  <1>1. Signal /\ UNCHANGED <<ledger, job, saved>>
    BY DEF Write
  <1>2. SignalsTyped' /\ Arrived \subseteq Arrived'
    BY <1>1, SignalKeepsCTs DEF IInv, SignalsTyped
  <1>3. job'.todo \subseteq Arrived'
    BY <1>1, <1>2 DEF IInv
  <1> QED
    BY <1>1, <1>2, <1>3 DEF IInv, ledger, SignalsTyped

\* Starting, opening, committing and finishing an event keep the job typed.
LEMMA DequeueTyped ==
    ASSUME IInv, NEW w \in Wallets, Dequeue(w), ct' = ct
    PROVE  job' \in Jobs /\ job'.todo \subseteq Arrived'
  BY DEF IInv, Dequeue, Jobs, Arrived

LEMMA DoneTyped ==
    ASSUME IInv, NEW e \in Events, Done(e)
    PROVE  /\ job' \in Jobs /\ job'.todo \subseteq Arrived'
           /\ ct' \in [Events -> CTs \cup {None}]
           /\ saved' = saved
  BY DEF IInv, Done, Jobs, Arrived

\* A job starts and commits with the saved ledger equal to the running one.
LEMMA StartCommitInv ==
    ASSUME IInv, \/ \E kind \in {"apply", "rebuild"}, ws \in (SUBSET Wallets) \ {{}} :
                       Start(kind, ws)
                 \/ Commit
    PROVE  IInv'
  <1>1. UNCHANGED <<ct, ledger>> /\ saved' = Snapshot
    BY DEF Start, Commit
  <1>2. job' \in Jobs /\ job'.todo = {}
    BY DEF Start, Commit, Jobs, Idle
  <1>3. saved' \in Ledgers
    BY <1>1 DEF IInv, Snapshot, Ledgers, Sound, Typed
  <1>4. /\ saved'.lots = lots /\ saved'.disposals = disposals
        /\ saved'.relocs = relocs /\ saved'.review = review
    BY <1>1 DEF Snapshot
  <1> QED
    BY <1>1, <1>2, <1>3, <1>4 DEF IInv, ledger

\* A rollback restores a ledger that was sound when it was saved.
LEMMA RollbackInv == ASSUME IInv, Rollback PROVE IInv'
  <1>1. job' \in Jobs /\ job'.todo = {}
    BY DEF Rollback, Jobs, Idle
  <1>2. excs' \subseteq [event : Events, reason : Reasons]
    BY DEF IInv, Rollback, Ledgers
  <1> QED
    BY <1>1, <1>2 DEF IInv, Rollback

\* The four deletes of rebuild_wallet take every row of every lot they take.
LEMMA WipeInv ==
    ASSUME IInv, NEW w \in Wallets, WipeWallet(w) PROVE IInv'
  <1> DEFINE gone == Gone(w)
  <1>1. job' \in Jobs /\ job'.todo \subseteq Arrived'
    BY DequeueTyped DEF WipeWallet
  <1>2. Sound(lots', disposals', relocs', review')
    <2>1. /\ lots' = [l \in Events |-> IF l \in gone THEN None ELSE lots[l]]
          /\ disposals' = [e \in Events |->
                 [l \in Events |-> IF l \in gone THEN 0 ELSE disposals[e][l]]]
          /\ relocs' = {r \in relocs : r.lot \notin gone}
          /\ review' = review
      BY DEF WipeWallet, LotsWithout, DisposalsWithout, RelocsWithout
    <2>2. Typed(lots', disposals', relocs', review')
      BY <2>1 DEF IInv, Sound, Typed
    <2>3. Anchored(lots', disposals', relocs')
      BY <2>1 DEF IInv, Sound, Anchored, Typed, Relocations
    <2>4. Covered(lots', disposals', relocs')
      BY <2>1 DEF IInv, Sound, Covered, Typed
    <2>5. Traced(lots', relocs')
      BY <2>1 DEF IInv, Sound, Traced, Typed
    <2>6. Flagged(relocs', review')
      BY <2>1 DEF IInv, Sound, Flagged
    <2> QED
      BY <2>2, <2>3, <2>4, <2>5, <2>6 DEF Sound
  <1>3. excs' \subseteq [event : Events, reason : Reasons]
    BY DEF IInv, WipeWallet
  <1> QED
    BY <1>1, <1>2, <1>3 DEF IInv, WipeWallet

-----------------------------------------------------------------------------
(* The handlers                                                             *)

\* Handlers that write no lot, disposal or relocation.
LEMMA RecordInv ==
    ASSUME IInv, NEW e \in Events,
           Skip(e) \/ LoanNoOp(e) \/ MissingBasis(e) \/ InsufficientLots(e)
    PROVE  IInv'
  <1>1. Done(e) /\ UNCHANGED <<lots, disposals, relocs>>
    BY DEF Skip, LoanNoOp, MissingBasis, InsufficientLots, Record, ledger
  <1>2. excs' \subseteq [event : Events, reason : Reasons]
    BY DEF IInv, Skip, LoanNoOp, MissingBasis, InsufficientLots, Record, ledger, Reasons
  <1>3. review' \in {review, review \cup {e}}
    BY DEF Skip, LoanNoOp, MissingBasis, InsufficientLots, Record, ledger
  <1>4. Sound(lots', disposals', relocs', review')
    BY <1>1, <1>3 DEF IInv, Sound, Typed, Flagged
  <1> QED
    BY <1>1, <1>2, <1>4, DoneTyped DEF IInv

\* A new lot is whole, in the wallet and of the entity of its event; no row could
\* name it before.
LEMMA AcquireInv == ASSUME IInv, NEW e \in Events, Acquire(e) PROVE IInv'
  <1> DEFINE row == [wallet |-> WalletOf[e], entity |-> OwnerAt[WalletOf[e]][e],
                     remaining |-> Amount[e], cost |-> Basis(e),
                     acq |-> AcquisitionType(ct[e])]
  <1>1. /\ lots' = [lots EXCEPT ![e] = row]
        /\ Done(e) /\ UNCHANGED <<disposals, relocs, excs, review>>
    BY DEF Acquire
  <1>2. lots[e] = None
    BY DEF Acquire, Due, Settled
  <1>3. row \in Lots /\ row # None
    BY AcquiredTyped DEF Acquire
  <1>4. Sound(lots', disposals', relocs', review')
    <2>1. Typed(lots', disposals', relocs', review')
      BY <1>1, <1>3 DEF IInv, Sound, Typed
    <2>2. Anchored(lots', disposals', relocs')
      BY <1>1, <1>2, <1>3 DEF IInv, Sound, Typed, Anchored
    <2>3. \A f \in Events : disposals[f][e] = 0
      BY <1>2 DEF IInv, Sound, Typed, Anchored
    <2>4. Covered(lots', disposals', relocs')
      <3> SUFFICES ASSUME NEW l \in Events, lots'[l] # None
                   PROVE  /\ lots'[l].remaining <= Amount[l]
                          /\ \A f \in Events :
                                lots'[l].remaining + disposals[f][l] <= Amount[l]
                          /\ lots'[l].remaining < Amount[l] =>
                                \/ \E f \in Events : disposals[f][l] > 0
                                \/ \E r \in relocs : r.lot = l /\ GiftRow(r)
        BY <1>1 DEF Covered
      <3>1. CASE l = e
        <4>1. lots'[l].remaining = Amount[l] /\ Amount[l] \in Nat
          BY <1>1, <3>1, SignalsAssumption, LedgerAssumption DEF IInv, Sound, Typed
        <4> QED
          BY <2>3, <3>1, <4>1
      <3>2. CASE l # e
        BY <1>1, <3>2 DEF IInv, Sound, Typed, Covered
      <3> QED
        BY <3>1, <3>2
    <2>5. Traced(lots', relocs')
      BY <1>1, SMTT(30) DEF IInv, Sound, Typed, Traced
    <2> QED
      BY <1>1, <2>1, <2>2, <2>4, <2>5 DEF IInv, Sound
  <1> QED
    BY <1>1, <1>4, DoneTyped DEF IInv

\* The decrement by fitting slices leaves typed rows in place, with the wallets and
\* entities they had, and takes just the slice.
LEMMA LotsAfterFacts ==
    ASSUME NEW method, NEW w, NEW pool, NEW amount \in Nat,
           lots \in [Events -> Lots \cup {None}],
           NEW s \in Consumptions(method, OpenLots(w, pool), amount)
    PROVE  /\ LotsAfter(s) \in [Events -> Lots \cup {None}]
           /\ \A l \in Events :
                 /\ (LotsAfter(s)[l] = None) <=> (lots[l] = None)
                 /\ lots[l] # None =>
                      /\ LotsAfter(s)[l].wallet = lots[l].wallet
                      /\ LotsAfter(s)[l].entity = lots[l].entity
                      /\ LotsAfter(s)[l].remaining =
                            lots[l].remaining - (IF l \in DOMAIN s THEN s[l] ELSE 0)
  <1> SUFFICES ASSUME NEW l \in Events
               PROVE  /\ LotsAfter(s)[l] \in Lots \cup {None}
                      /\ (LotsAfter(s)[l] = None) <=> (lots[l] = None)
                      /\ lots[l] # None =>
                          /\ LotsAfter(s)[l].wallet = lots[l].wallet
                          /\ LotsAfter(s)[l].entity = lots[l].entity
                          /\ LotsAfter(s)[l].remaining =
                                lots[l].remaining - (IF l \in DOMAIN s THEN s[l] ELSE 0)
    BY DEF LotsAfter
  <1>1. CASE l \in DOMAIN s
    <2>1. /\ lots[l] # None /\ lots[l] \in Lots
          /\ s[l] \in Nat /\ s[l] <= lots[l].remaining
      BY <1>1, SlicesFit
    <2>2. lots[l].remaining - s[l] \in Nat
      BY <2>1 DEF Lots
    <2>3. LotsAfter(s)[l] = [lots[l] EXCEPT !.remaining = lots[l].remaining - s[l]]
      BY <1>1 DEF LotsAfter
    <2>4. LotsAfter(s)[l] \in Lots
      BY <2>1, <2>2, <2>3 DEF Lots
    <2>5. LotsAfter(s)[l] # None
      BY <2>4, NoneAssumption, LedgerAssumption
    <2> QED
      BY <1>1, <2>1, <2>3, <2>4, <2>5 DEF Lots
  <1>2. CASE l \notin DOMAIN s
    <2>1. LotsAfter(s)[l] = lots[l]
      BY <1>2 DEF LotsAfter
    <2>2. lots[l] # None => lots[l].remaining \in Nat
      BY DEF Lots
    <2> QED
      BY <1>2, <2>1, <2>2
  <1> QED
    BY <1>1, <1>2

\* A disposal moves exactly its slices from what is left into its own, empty rows.
LEMMA DisposeInv == ASSUME IInv, NEW e \in Events, Dispose(e) PROVE IInv'
  <1>1. PICK s \in OutflowSlices(e) :
          /\ lots' = LotsAfter(s)
          /\ disposals' = [disposals EXCEPT ![e] =
                             [l \in Events |-> IF l \in DOMAIN s THEN s[l] ELSE 0]]
    BY DEF Dispose
  <1>2. Done(e) /\ UNCHANGED <<relocs, excs, review>>
    BY DEF Dispose
  <1>3. \A l \in Events : disposals[e][l] = 0
    BY DEF Dispose, Due, Settled, Disposed, IInv, Sound, Typed
  <1>4. lots \in [Events -> Lots \cup {None}] /\ Amount[e] \in Nat
    BY SignalsAssumption, LedgerAssumption DEF IInv, Sound, Typed
  <1>5. \A l \in DOMAIN s : /\ l \in Events /\ lots[l] # None
                            /\ s[l] \in Nat /\ s[l] <= lots[l].remaining
    BY <1>4, SlicesFit DEF OutflowSlices
  <1> DEFINE took(l) == IF l \in DOMAIN s THEN s[l] ELSE 0
  <1>6. /\ lots' \in [Events -> Lots \cup {None}]
        /\ \A l \in Events :
              /\ (lots'[l] = None) <=> (lots[l] = None)
              /\ lots[l] # None =>
                   /\ lots'[l].wallet = lots[l].wallet
                   /\ lots'[l].entity = lots[l].entity
                   /\ lots'[l].remaining = lots[l].remaining - took(l)
    BY <1>1, <1>4, LotsAfterFacts DEF OutflowSlices
  <1>7. \A f, l \in Events : /\ f = e => disposals'[f][l] = took(l)
                             /\ f # e => disposals'[f][l] = disposals[f][l]
    BY <1>1 DEF IInv, Sound, Typed
  <1>8. \A l \in Events : took(l) \in Nat
    BY <1>5
  <1> HIDE DEF took
  <1>9. Sound(lots', disposals', relocs', review')
    <2>1. Typed(lots', disposals', relocs', review')
      <3>1. disposals' \in [Events -> [Events -> Nat]]
        BY <1>1, <1>5 DEF IInv, Sound, Typed
      <3> QED
        BY <1>2, <1>6, <3>1 DEF IInv, Sound, Typed
    <2>2. Anchored(lots', disposals', relocs')
      <3>1. \A l \in Events : took(l) > 0 => lots[l] # None
        BY <1>5 DEF took
      <3>2. \A f, l \in Events : disposals'[f][l] > 0 => lots'[l] # None
        BY <1>6, <1>7, <3>1 DEF IInv, Sound, Anchored
      <3>3. \A r \in relocs' : lots'[r.lot] # None
        BY <1>2, <1>6 DEF IInv, Sound, Anchored, Typed, Relocations
      <3> QED
        BY <3>2, <3>3 DEF Anchored
    <2>3. Covered(lots', disposals', relocs')
      <3> SUFFICES ASSUME NEW l \in Events, lots'[l] # None
                   PROVE  /\ lots'[l].remaining <= Amount[l]
                          /\ \A f \in Events :
                                lots'[l].remaining + disposals'[f][l] <= Amount[l]
                          /\ lots'[l].remaining < Amount[l] =>
                                \/ \E f \in Events : disposals'[f][l] > 0
                                \/ \E r \in relocs' : r.lot = l /\ GiftRow(r)
        BY DEF Covered
      <3>1. /\ lots[l] # None /\ lots'[l].remaining = lots[l].remaining - took(l)
            /\ lots[l].remaining \in Nat /\ took(l) \in Nat /\ Amount[l] \in Nat
            /\ lots[l].remaining <= Amount[l]
        <4>1. lots[l] \in Lots
          BY <1>4, <1>6
        <4> QED
          BY <1>6, <1>8, <4>1, SignalsAssumption, LedgerAssumption DEF IInv, Sound, Covered, Lots
      <3>2. \A f \in Events : /\ disposals[f][l] \in Nat
                              /\ lots[l].remaining + disposals[f][l] <= Amount[l]
        BY <3>1 DEF IInv, Sound, Covered, Typed
      <3>3. \A f \in Events : lots'[l].remaining + disposals'[f][l] <= Amount[l]
        BY <1>7, <3>1, <3>2
      <3>4. ASSUME lots'[l].remaining < Amount[l]
            PROVE  \/ \E f \in Events : disposals'[f][l] > 0
                   \/ \E r \in relocs' : r.lot = l /\ GiftRow(r)
        <4>1. CASE took(l) > 0
          BY <1>7, <4>1
        <4>2. CASE took(l) = 0
          <5>1. \A f \in Events : disposals'[f][l] = disposals[f][l]
            BY <1>3, <1>7, <4>2
          <5>2. lots[l].remaining < Amount[l]
            BY <3>1, <3>4, <4>2
          <5> QED
            BY <1>2, <3>1, <5>1, <5>2 DEF IInv, Sound, Covered
        <4> QED
          BY <3>1, <4>1, <4>2
      <3> QED
        BY <3>1, <3>3, <3>4
    <2>4. Traced(lots', relocs')
      BY <1>2, <1>6 DEF IInv, Sound, Traced
    <2> QED
      BY <1>2, <2>1, <2>2, <2>3, <2>4 DEF IInv, Sound
  <1> QED
    BY <1>2, <1>9, DoneTyped DEF IInv

\* A gift takes its slices and leaves a row to itself for each lot it took from.
LEMMA GiftOutInv == ASSUME IInv, NEW e \in Events, GiftOut(e) PROVE IInv'
  <1> DEFINE mark(l) == [lot |-> l, tx |-> e, from |-> WalletOf[e],
                         to |-> WalletOf[e], reason |-> "gift"]
  <1>1. PICK s \in OutflowSlices(e) :
          /\ lots' = LotsAfter(s)
          /\ relocs' = relocs \cup {mark(l) : l \in {m \in DOMAIN s : s[m] > 0}}
    BY DEF GiftOut
  <1>2. Done(e) /\ UNCHANGED <<disposals, excs>> /\ review' = review \cup {e}
    BY DEF GiftOut
  <1>3. lots \in [Events -> Lots \cup {None}] /\ Amount[e] \in Nat
    BY SignalsAssumption, LedgerAssumption DEF IInv, Sound, Typed
  <1>4. \A l \in DOMAIN s : /\ l \in Events /\ lots[l] # None
                            /\ s[l] \in Nat /\ s[l] <= lots[l].remaining
    BY <1>3, SlicesFit DEF OutflowSlices
  <1> DEFINE took(l) == IF l \in DOMAIN s THEN s[l] ELSE 0
  <1>5. /\ lots' \in [Events -> Lots \cup {None}]
        /\ \A l \in Events :
              /\ (lots'[l] = None) <=> (lots[l] = None)
              /\ lots[l] # None =>
                   /\ lots'[l].wallet = lots[l].wallet
                   /\ lots'[l].entity = lots[l].entity
                   /\ lots'[l].remaining = lots[l].remaining - took(l)
    BY <1>1, <1>3, LotsAfterFacts DEF OutflowSlices
  <1>6. \A r \in relocs' : r \in relocs \/ \E l \in DOMAIN s : r = mark(l)
    BY <1>1
  <1>7. \A l \in Events : took(l) \in Nat
    BY <1>4
  <1>8. \A l \in Events : took(l) > 0 => mark(l) \in relocs'
    BY <1>1
  <1> HIDE DEF took
  <1>9. Sound(lots', disposals', relocs', review')
    <2>1. Typed(lots', disposals', relocs', review')
      <3>1. \A l \in DOMAIN s : mark(l) \in Relocations
        BY <1>4, SignalsAssumption, LedgerAssumption DEF Relocations
      <3> QED
        BY <1>2, <1>5, <1>6, <3>1 DEF IInv, Sound, Typed
    <2>2. Anchored(lots', disposals', relocs')
      <3>1. \A f, l \in Events : disposals'[f][l] > 0 => lots'[l] # None
        BY <1>2, <1>5 DEF IInv, Sound, Anchored
      <3>2. \A r \in relocs' : lots'[r.lot] # None
        BY <1>4, <1>5, <1>6 DEF IInv, Sound, Anchored, Typed, Relocations
      <3> QED
        BY <3>1, <3>2 DEF Anchored
    <2>3. Covered(lots', disposals', relocs')
      <3> SUFFICES ASSUME NEW l \in Events, lots'[l] # None
                   PROVE  /\ lots'[l].remaining <= Amount[l]
                          /\ \A f \in Events :
                                lots'[l].remaining + disposals[f][l] <= Amount[l]
                          /\ lots'[l].remaining < Amount[l] =>
                                \/ \E f \in Events : disposals[f][l] > 0
                                \/ \E r \in relocs' : r.lot = l /\ GiftRow(r)
        BY <1>2 DEF Covered
      <3>1. /\ lots[l] # None /\ lots'[l].remaining = lots[l].remaining - took(l)
            /\ lots[l].remaining \in Nat /\ took(l) \in Nat /\ Amount[l] \in Nat
            /\ lots[l].remaining <= Amount[l]
        <4>1. lots[l] \in Lots
          BY <1>3, <1>5
        <4> QED
          BY <1>5, <1>7, <4>1, SignalsAssumption, LedgerAssumption DEF IInv, Sound, Covered, Lots
      <3>2. \A f \in Events : /\ disposals[f][l] \in Nat
                              /\ lots[l].remaining + disposals[f][l] <= Amount[l]
        BY <3>1 DEF IInv, Sound, Covered, Typed
      <3>3. ASSUME lots'[l].remaining < Amount[l]
            PROVE  \/ \E f \in Events : disposals[f][l] > 0
                   \/ \E r \in relocs' : r.lot = l /\ GiftRow(r)
        <4>1. CASE took(l) > 0
          BY <1>8, <4>1 DEF GiftRow
        <4>2. CASE took(l) = 0
          BY <1>1, <3>1, <3>3, <4>2 DEF IInv, Sound, Covered
        <4> QED
          BY <3>1, <4>1, <4>2
      <3> QED
        BY <3>1, <3>2, <3>3
    <2>4. Traced(lots', relocs')
      BY <1>1, <1>5 DEF IInv, Sound, Traced
    <2>5. Flagged(relocs', review')
      BY <1>2, <1>6 DEF IInv, Sound, Flagged
    <2> QED
      BY <2>1, <2>2, <2>3, <2>4, <2>5 DEF Sound
  <1> QED
    BY <1>2, <1>9, DoneTyped DEF IInv

\* A relocation rewrites the wallet, entity and acquisition type of the lots it
\* moves, and adds the row that explains them.
LEMMA RelocateInv == ASSUME IInv, NEW e \in Events, Relocate(e) PROVE IInv'
  <1> DEFINE to == WalletOf[e]
             owner == OwnerAt[to][e]
             mark(l) == [lot |-> l, tx |-> e, from |-> WalletOf[ct[e].src],
                         to |-> to, reason |-> RelocationReason(ct[e])]
  <1>1. PICK s \in RelocationSlices(e) :
          LET moved == {l \in DOMAIN s : s[l] > 0} IN
          /\ lots' = [l \in Events |-> IF l \in moved THEN Moved(e, l) ELSE lots[l]]
          /\ relocs' = relocs \cup {mark(l) : l \in moved}
    BY DEF Relocate
  <1> DEFINE moved == {l \in DOMAIN s : s[l] > 0}
  <1>2. /\ Done(e) /\ UNCHANGED <<disposals, excs>>
        /\ review' = IF ct[e].res = "relocate-gift" THEN review \cup {e} ELSE review
    BY DEF Relocate
  <1>3. lots \in [Events -> Lots \cup {None}] /\ Amount[e] \in Nat
    BY SignalsAssumption, LedgerAssumption DEF IInv, Sound, Typed
  <1>4. ct[e] # None /\ ct[e].src \in Events
    <2>1. ct[e] # None /\ ct[e].src # None
      BY DEF Relocate, Due, Turn, IInv, Arrived
    <2> QED
      BY <2>1 DEF IInv, CTs
  <1>5. \A l \in moved : l \in Events /\ lots[l] # None /\ lots[l] \in Lots
    BY <1>3, MovesFit
  <1>6. \A l \in moved : /\ Moved(e, l) \in Lots
                         /\ Moved(e, l).remaining = lots[l].remaining
                         /\ Moved(e, l).wallet = to
                         /\ owner \in {Moved(e, l).entity, None}
    BY <1>5, MovedFacts DEF OwnerOf
  <1>7. \A r \in relocs' : r \in relocs \/ \E l \in moved : r = mark(l)
    BY <1>1
  <1>8. relocs \subseteq relocs' /\ \A l \in moved : mark(l) \in relocs'
    BY <1>1
  <1>9. \A l \in Events : /\ l \in moved => lots'[l] = Moved(e, l)
                          /\ l \notin moved => lots'[l] = lots[l]
    BY <1>1
  <1>10. \A l \in Events : lots'[l] = None <=> lots[l] = None
    BY <1>5, <1>6, <1>9, NoneAssumption, LedgerAssumption
  <1>11. \A l \in Events : lots[l] # None => lots'[l].remaining = lots[l].remaining
    BY <1>6, <1>9
  <1>12. Sound(lots', disposals', relocs', review')
    <2>1. Typed(lots', disposals', relocs', review')
      <3>1. \A l \in moved : mark(l) \in Relocations
        <4>1. RelocationReason(ct[e]) \in {"bridge", "internal", "cap-contribution",
                                           "gift", "reassignment"}
          BY DEF RelocationReason
        <4> QED
          BY <1>4, <1>5, <4>1, SignalsAssumption, LedgerAssumption DEF Relocations
      <3>2. lots' \in [Events -> Lots \cup {None}]
        BY <1>1, <1>3, <1>6, <1>9
      <3>3. relocs' \in SUBSET Relocations
        BY <1>7, <3>1 DEF IInv, Sound, Typed
      <3> QED
        BY <1>2, <3>2, <3>3 DEF IInv, Sound, Typed
    <2>2. Anchored(lots', disposals', relocs')
      <3>1. \A f, l \in Events : disposals'[f][l] > 0 => lots'[l] # None
        BY <1>2, <1>10 DEF IInv, Sound, Anchored
      <3>2. \A r \in relocs' : lots'[r.lot] # None
        BY <1>5, <1>7, <1>10 DEF IInv, Sound, Anchored, Typed, Relocations
      <3> QED
        BY <3>1, <3>2 DEF Anchored
    <2>3. Covered(lots', disposals', relocs')
      BY <1>2, <1>8, <1>10, <1>11 DEF IInv, Sound, Covered
    <2>4. Traced(lots', relocs')
      <3> SUFFICES ASSUME NEW l \in Events, lots'[l] # None
                   PROVE  \/ /\ lots'[l].wallet = WalletOf[l]
                             /\ lots'[l].entity = OwnerAt[WalletOf[l]][l]
                          \/ \E r \in relocs' :
                                /\ r.lot = l /\ r.to = lots'[l].wallet
                                /\ WalletOf[r.tx] = r.to
                                /\ OwnerAt[r.to][r.tx] \in {lots'[l].entity, None}
        BY DEF Traced
      <3>1. CASE l \in moved
        BY <1>6, <1>8, <1>9, <3>1
      <3>2. CASE l \notin moved
        BY <1>8, <1>9, <3>2 DEF IInv, Sound, Traced
      <3> QED
        BY <3>1, <3>2
    <2>5. Flagged(relocs', review')
      <3>1. RelocationReason(ct[e]) = "gift" => ct[e].res = "relocate-gift"
        BY DEF RelocationReason
      <3> QED
        BY <1>2, <1>7, <3>1 DEF IInv, Sound, Flagged
    <2> QED
      BY <2>1, <2>2, <2>3, <2>4, <2>5 DEF Sound
  <1> QED
    BY <1>2, <1>12, DoneTyped DEF IInv

-----------------------------------------------------------------------------
(* The theorems                                                             *)

\* OpenWallet writes no row.
LEMMA OpenInv == ASSUME IInv, NEW w \in Wallets, OpenWallet(w) PROVE IInv'
  <1>1. UNCHANGED <<ct, ledger, saved>> /\ Dequeue(w)
    BY DEF OpenWallet
  <1>2. job' \in Jobs /\ job'.todo \subseteq Arrived'
    BY <1>1, DequeueTyped
  <1> QED
    BY <1>1, <1>2 DEF IInv, ledger

\* Every handler keeps the ledger sound.
LEMMA StepInv == ASSUME IInv, NEW e \in Events, Step(e) PROVE IInv'
  <1>1. CASE Skip(e) \/ LoanNoOp(e) \/ MissingBasis(e) \/ InsufficientLots(e)
    BY <1>1, RecordInv
  <1>2. CASE Acquire(e)
    BY <1>2, AcquireInv
  <1>3. CASE Dispose(e)
    BY <1>3, DisposeInv
  <1>4. CASE GiftOut(e)
    BY <1>4, GiftOutInv
  <1>5. CASE Relocate(e)
    BY <1>5, RelocateInv
  <1>6. CASE Raise(e)
    BY <1>6, RollbackInv DEF Raise
  <1> QED
    BY <1>1, <1>2, <1>3, <1>4, <1>5, <1>6 DEF Step

LEMMA NextInv == IInv /\ [Next]_vars => IInv'
  <1> SUFFICES ASSUME IInv, [Next]_vars PROVE IInv'
    OBVIOUS
  <1>1. CASE Write
    BY <1>1, WriteInv
  <1>2. CASE (\E kind \in JobKinds, ws \in (SUBSET Wallets) \ {{}} : Start(kind, ws)) \/ Commit
    BY <1>2, StartCommitInv, JobKindsAssumption
  <1>3. CASE \E w \in Wallets : OpenWallet(w) \/ WipeWallet(w)
    BY <1>3, OpenInv, WipeInv
  <1>4. CASE \E e \in Events : Step(e)
    BY <1>4, StepInv
  <1>5. CASE Crash
    BY <1>5, RollbackInv DEF Crash
  <1>6. CASE UNCHANGED vars
    BY <1>6 DEF vars, ledger, IInv, Sound, Typed, Anchored, Covered, Traced, Flagged,
                Arrived
  <1> QED
    BY <1>1, <1>2, <1>3, <1>4, <1>5, <1>6 DEF Next

\* The saved ledger is replaced only by the running one, which the step leaves alone.
LEMMA SavedSteps ==
    ASSUME [Next]_vars
    PROVE  saved' = saved \/ (saved' = Snapshot /\ UNCHANGED ledger)
  <1>1. Write \/ UNCHANGED vars => saved' = saved
    BY DEF Write, vars
  <1>2. \A kind \in JobKinds, ws \in (SUBSET Wallets) \ {{}} :
            Start(kind, ws) => saved' = Snapshot /\ UNCHANGED ledger
    BY DEF Start
  <1>3. \A w \in Wallets : OpenWallet(w) \/ WipeWallet(w) => saved' = saved
    BY DEF OpenWallet, WipeWallet
  <1>4. \A e \in Events : Step(e) => saved' = saved
    BY DEF Step, Skip, LoanNoOp, Acquire, Dispose, GiftOut, Relocate, MissingBasis,
           InsufficientLots, Record, Done, Raise, Rollback
  <1>5. Commit => saved' = Snapshot /\ UNCHANGED ledger
    BY DEF Commit
  <1>6. Crash => saved' = saved
    BY DEF Crash, Rollback
  <1> QED
    BY <1>1, <1>2, <1>3, <1>4, <1>5, <1>6 DEF Next

\* The invariant holds in every reachable state, of the running and the saved ledger.
THEOREM LedgerSound == Spec => []IInv
  BY InitInv, NextInv, PTL DEF Spec

\* Every table of the ledger keeps its type, whatever jobs and signals come.
THEOREM TypeCorrect == Spec => []TypeOK
  <1>1. IInv => TypeOK
    BY DEF IInv, Sound, Typed, TypeOK, Snapshot, Ledgers
  <1> QED
    BY <1>1, LedgerSound, PTL

\* No disposal or relocation row outlives its lot.
THEOREM RowsStayAnchored == Spec => []RowsAnchored
  <1>1. IInv => RowsAnchored
    BY DEF IInv, Sound, Typed, Anchored, RowsAnchored, Held, Relocations
  <1> QED
    BY <1>1, LedgerSound, PTL

\* A lot away from the wallet that acquired it has the row of the move.
THEOREM MovesAreTraced == Spec => []MovedLotsHaveTrail
  <1>1. IInv => MovedLotsHaveTrail
    BY DEF IInv, Sound, Traced, MovedLotsHaveTrail, Held
  <1> QED
    BY <1>1, LedgerSound, PTL

\* A lot's entity owned its wallet when the lot entered it.
THEOREM EntitiesFollowWallets == Spec => []EntityFollowsWallet
  <1>1. ASSUME IInv, NEW l \in Held
        PROVE  \E e \in {l} \cup {r.tx : r \in {x \in relocs : x.lot = l}} :
                  /\ WalletOf[e] = lots[l].wallet
                  /\ OwnerAt[lots[l].wallet][e] \in {lots[l].entity, None}
    <2>1. l \in Events /\ lots[l] # None
      BY DEF Held
    <2>2. Traced(lots, relocs)
      BY <1>1 DEF IInv, Sound
    <2> QED
      BY <2>1, <2>2 DEF Traced
  <1>2. IInv => EntityFollowsWallet
    BY <1>1 DEF EntityFollowsWallet
  <1> QED
    BY <1>2, LedgerSound, PTL

\* A gift's rows never stand without its review flag.
THEOREM GiftsStayFlagged == Spec => []GiftsAreReviewed
  <1>1. IInv => GiftsAreReviewed
    BY DEF IInv, Sound, Flagged, GiftsAreReviewed
  <1> QED
    BY <1>1, LedgerSound, PTL

\* What a step of a job may do to a lot that stays.
Shrinks ==
    job'.kind # "idle" =>
        \A l \in Held :
            lots'[l] # None =>
                /\ lots'[l].remaining <= lots[l].remaining
                /\ lots'[l].wallet # lots[l].wallet =>
                      \E r \in relocs' \ relocs :
                          /\ r.lot = l
                          /\ r.from = lots[l].wallet /\ r.to = lots'[l].wallet

\* The decrement of a disposal or a gift.
LEMMA OutflowShrinks ==
    ASSUME IInv, NEW e \in Events, Dispose(e) \/ GiftOut(e) PROVE Shrinks
  <1>1. PICK s \in OutflowSlices(e) : lots' = LotsAfter(s)
    BY DEF Dispose, GiftOut
  <1>2. lots \in [Events -> Lots \cup {None}] /\ Amount[e] \in Nat
    BY SignalsAssumption, LedgerAssumption DEF IInv, Sound, Typed
  <1>3. \A l \in DOMAIN s : s[l] \in Nat
    BY <1>2, SlicesFit DEF OutflowSlices
  <1>4. \A l \in Events : lots[l] # None =>
          /\ lots'[l].wallet = lots[l].wallet
          /\ lots'[l].remaining =
                lots[l].remaining - (IF l \in DOMAIN s THEN s[l] ELSE 0)
    BY <1>1, <1>2, LotsAfterFacts DEF OutflowSlices
  <1>5. \A l \in Held : l \in Events /\ lots[l] # None /\ lots[l].remaining \in Nat
    BY <1>2 DEF Held, Lots
  <1> QED
    BY <1>3, <1>4, <1>5 DEF Shrinks

\* A move: the row is new because the event had none.
LEMMA RelocateShrinks ==
    ASSUME IInv, NEW e \in Events, Relocate(e) PROVE Shrinks
  <1> DEFINE to == WalletOf[e]
             owner == OwnerAt[to][e]
             mark(l) == [lot |-> l, tx |-> e, from |-> WalletOf[ct[e].src],
                         to |-> to, reason |-> RelocationReason(ct[e])]
  <1>1. PICK s \in RelocationSlices(e) :
          LET moved == {l \in DOMAIN s : s[l] > 0} IN
          /\ lots' = [l \in Events |-> IF l \in moved THEN Moved(e, l) ELSE lots[l]]
          /\ relocs' = relocs \cup {mark(l) : l \in moved}
    BY DEF Relocate
  <1> DEFINE moved == {l \in DOMAIN s : s[l] > 0}
  <1>2. lots \in [Events -> Lots \cup {None}] /\ Amount[e] \in Nat
    BY SignalsAssumption, LedgerAssumption DEF IInv, Sound, Typed
  <1>3. \A r \in relocs : r.tx # e
    BY DEF Relocate, Due, Settled, Relocated
  <1>4. \A l \in moved : /\ l \in Events /\ lots[l] \in Lots
                         /\ lots[l].wallet = WalletOf[ct[e].src]
    BY <1>2, MovesFit
  <1>5. \A l \in moved : mark(l) \in relocs' \ relocs
    BY <1>1, <1>3
  <1>6. \A l \in moved : /\ lots'[l].remaining = lots[l].remaining
                         /\ lots[l].remaining \in Nat
                         /\ lots'[l].wallet = to
    BY <1>1, <1>4 DEF Moved, Lots
  <1>7. \A l \in Events : l \notin moved => lots'[l] = lots[l]
    BY <1>1
  <1> SUFFICES ASSUME NEW l \in Held, lots'[l] # None
               PROVE  /\ lots'[l].remaining <= lots[l].remaining
                      /\ lots'[l].wallet # lots[l].wallet =>
                            \E r \in relocs' \ relocs :
                               /\ r.lot = l
                               /\ r.from = lots[l].wallet /\ r.to = lots'[l].wallet
    BY DEF Shrinks
  <1>8. CASE l \in moved
    <2>1. mark(l).lot = l /\ mark(l).from = lots[l].wallet /\ mark(l).to = lots'[l].wallet
      BY <1>4, <1>6, <1>8
    <2>2. mark(l) \in relocs' \ relocs
      BY <1>5, <1>8
    <2>3. lots'[l].remaining <= lots[l].remaining
      BY <1>6, <1>8
    <2> HIDE DEF mark
    <2> QED
      BY <2>1, <2>2, <2>3
  <1>9. CASE l \notin moved
    <2>1. l \in Events /\ lots[l].remaining \in Nat
      BY <1>2 DEF Held, Lots
    <2> QED
      BY <1>7, <1>9, <2>1
  <1> QED
    BY <1>8, <1>9

\* The other steps inside a job leave the rows of a lot that stays as they are.
LEMMA OthersShrink ==
    ASSUME IInv, \A l \in Held : lots'[l] \in {lots[l], None} PROVE Shrinks
  <1>1. \A l \in Held : lots[l].remaining \in Nat
    BY DEF IInv, Sound, Typed, Held, Lots
  <1> QED
    BY <1>1 DEF Shrinks

\* Inside a job no lot gains a unit, and none changes wallet without a new row.
THEOREM LotsNeverGrow == Spec => LotsOnlyShrink
  <1>1. ASSUME IInv, [Next]_vars PROVE Shrinks \/ UNCHANGED vars
    <2>1. CASE \E e \in Events : Dispose(e) \/ GiftOut(e)
      BY <1>1, <2>1, OutflowShrinks
    <2>2. CASE \E e \in Events : Relocate(e)
      BY <1>1, <2>2, RelocateShrinks
    <2>3. CASE \E e \in Events : Acquire(e)
      <3>1. PICK e \in Events : Acquire(e)
        BY <2>3
      <3>2. lots[e] = None
        BY <3>1 DEF Acquire, Due, Settled
      <3>3. \A l \in Held : lots'[l] = lots[l]
        BY <3>1, <3>2, <1>1 DEF Acquire, Held, IInv, Sound, Typed
      <3> QED
        BY <1>1, <3>3, OthersShrink
    <2>4. CASE \E e \in Events : Raise(e)
      BY <2>4 DEF Raise, Rollback, Idle, Shrinks
    <2>5. CASE Crash
      BY <2>5 DEF Crash, Rollback, Idle, Shrinks
    <2>6. CASE \E w \in Wallets : WipeWallet(w)
      <3>1. \A l \in Held : lots'[l] \in {lots[l], None}
        BY <2>6 DEF WipeWallet, LotsWithout, Held
      <3> QED
        BY <1>1, <3>1, OthersShrink
    <2>7. CASE UNCHANGED lots
      BY <1>1, <2>7, OthersShrink
    <2> QED
      <3>1. Write => UNCHANGED lots
        BY DEF Write, ledger
      <3>2. \A e \in Events :
               Skip(e) \/ LoanNoOp(e) \/ MissingBasis(e) \/ InsufficientLots(e)
               => UNCHANGED lots
        BY DEF Skip, LoanNoOp, MissingBasis, InsufficientLots, Record, ledger
      <3>3. Commit => UNCHANGED lots
        BY DEF Commit, ledger
      <3>4. \A kind \in JobKinds, ws \in (SUBSET Wallets) \ {{}} :
               Start(kind, ws) => UNCHANGED lots
        BY DEF Start, ledger
      <3>5. \A w \in Wallets : OpenWallet(w) => UNCHANGED lots
        BY DEF OpenWallet, ledger
      <3> QED
        BY <1>1, <2>1, <2>2, <2>3, <2>4, <2>5, <2>6, <2>7,
           <3>1, <3>2, <3>3, <3>4, <3>5 DEF Next, Step
  <1>2. IInv /\ [Next]_vars => [Shrinks]_vars
    BY <1>1
  <1>3. Spec => [][Shrinks]_vars
    BY <1>2, LedgerSound, PTL DEF Spec
  <1> QED
    BY <1>3 DEF LotsOnlyShrink, Shrinks
-----------------------------------------------------------------------------
(* Rebuilds of wallets nothing moves into                                   *)

\* No correlation or inflow links two wallets.
NothingMoves == BridgeLinks = {} /\ \A e \in Events : InflowsOf[e] = {}

\* And the jobs are rebuilds.
OnlyLocalRebuilds == JobKinds = {"rebuild"} /\ NothingMoves

\* Lots are where they were acquired, and disposals took earlier ones.
Local(ls, ds) ==
    /\ \A l \in Events : ls[l] # None => ls[l].wallet = WalletOf[l]
    /\ \A e, l \in Events : ds[e][l] > 0 => l < e

\* All lots of the wallet being rebuilt are from before the events still to come.
LookBackInv ==
    /\ IInv
    /\ job.kind # "apply"
    /\ \A e \in Arrived : ct[e].src = None
    /\ Local(lots, disposals) /\ Local(saved.lots, saved.disposals)
    /\ \A e \in job.todo, l \in Events : lots[l] # None /\ WalletOf[l] = WalletOf[e] => l < e

\* Without links no writer marks an inflow as relocated.
LEMMA NothingLinked ==
    ASSUME NothingMoves, ct \in [Events -> CTs \cup {None}], Signal,
           \A e \in Arrived : ct[e].src = None
    PROVE  \A e \in Arrived' : ct'[e].src = None
  <1>1. CASE \E f \in Events : Arrives(f)
    BY <1>1 DEF Arrives, Arrived
  <1>2. ASSUME NEW o \in Arrived, NEW i \in InflowsOf[o] \cup {None},
               NEW res \in ResolutionsFor(o, i), Resolves(o, i, res)
        PROVE  \A e \in Arrived' : ct'[e].src = None
    <2>1. i = None /\ None \notin Events /\ o \in Events /\ ct[o] \in CTs
      BY NoneAssumption DEF NothingMoves, Arrived
    <2>2. ct' = [e \in Events |-> IF e = o THEN [ct[o] EXCEPT !.res = res] ELSE ct[e]]
      BY <1>2, <2>1 DEF Resolves, Stamped
    <2>3. [ct[o] EXCEPT !.res = res].src = None
      BY <2>1 DEF CTs, Arrived
    <2> QED
      BY <2>2, <2>3 DEF Arrived
  <1> QED
    BY <1>1, <1>2 DEF Signal, NothingMoves

\* What takes events off the list, and changes neither wallets nor disposals.
LEMMA FewerStillAhead ==
    ASSUME LookBackInv, IInv', NEW e \in Events, Done(e),
           \A l \in Events : /\ (lots'[l] # None => lots[l] # None)
                             /\ (lots'[l] # None => lots'[l].wallet = lots[l].wallet),
           \A f, l \in Events : disposals'[f][l] > 0 => l < f
    PROVE  LookBackInv'
  <1>1. /\ job'.kind = job.kind /\ job'.todo \subseteq job.todo
        /\ UNCHANGED <<ct, saved>>
    BY DEF Done, LookBackInv, IInv, Jobs
  <1>2. Local(lots', disposals')
    BY DEF LookBackInv, Local
  <1> QED
    BY <1>1, <1>2 DEF LookBackInv, Arrived, Local

\* A rollback and the ends of a job leave no event to come.
LEMMA RollbackLooksBack == ASSUME LookBackInv, IInv', Rollback PROVE LookBackInv'
  BY DEF LookBackInv, Rollback, Idle, Local, Arrived

LEMMA StepLooksBack ==
    ASSUME LookBackInv, IInv', NEW e \in Events, Step(e)
    PROVE  LookBackInv'
  <1>1. CASE Skip(e) \/ LoanNoOp(e) \/ MissingBasis(e) \/ InsufficientLots(e)
    <2>1. Done(e) /\ UNCHANGED <<lots, disposals>>
      BY <1>1 DEF Skip, LoanNoOp, MissingBasis, InsufficientLots, Record, ledger
    <2> QED
      BY <2>1, FewerStillAhead DEF LookBackInv, Local
  <1>2. CASE Acquire(e)
    <2>1. /\ job'.kind = job.kind /\ job'.todo = job.todo \ {e}
          /\ UNCHANGED <<ct, saved, disposals>>
      BY <1>2 DEF Acquire, Done, LookBackInv, IInv, Jobs
    <2>2. \A f \in job'.todo : e < f
      <3>1. e \in Nat /\ \A f \in job.todo : e <= f /\ f \in Nat
        BY <1>2, EventsAssumption DEF Acquire, Due, Turn, LookBackInv, IInv, Arrived
      <3> QED
        BY <2>1, <3>1
    <2>3. /\ \A l \in Events \ {e} : lots'[l] = lots[l]
          /\ lots'[e].wallet = WalletOf[e]
      BY <1>2 DEF Acquire, LookBackInv, IInv, Sound, Typed
    <2>4. Local(lots', disposals')
      BY <2>1, <2>3 DEF LookBackInv, Local
    <2>5. \A f \in job'.todo, l \in Events :
             lots'[l] # None /\ WalletOf[l] = WalletOf[f] => l < f
      BY <2>1, <2>2, <2>3 DEF LookBackInv
    <2> QED
      BY <2>1, <2>4, <2>5 DEF LookBackInv, Arrived, Local
  <1>3. CASE Dispose(e) \/ GiftOut(e)
    <2>1. Done(e) /\ e \in job.todo
      BY <1>3 DEF Dispose, GiftOut, Due, Turn
    <2>2. lots \in [Events -> Lots \cup {None}] /\ Amount[e] \in Nat
      BY SignalsAssumption, LedgerAssumption DEF LookBackInv, IInv, Sound, Typed
    <2>3. PICK s \in OutflowSlices(e) :
            /\ lots' = LotsAfter(s)
            /\ \/ disposals' = [disposals EXCEPT ![e] =
                     [l \in Events |-> IF l \in DOMAIN s THEN s[l] ELSE 0]]
               \/ disposals' = disposals
      BY <1>3 DEF Dispose, GiftOut
    <2>4. \A l \in Events : /\ (lots'[l] # None => lots[l] # None)
                            /\ (lots'[l] # None => lots'[l].wallet = lots[l].wallet)
      BY <2>2, <2>3, LotsAfterFacts DEF OutflowSlices
    <2>5. \A l \in DOMAIN s : l < e
      <3>1. \A l \in DOMAIN s : /\ l \in Events /\ lots[l] # None
                                /\ lots[l].wallet = WalletOf[e]
        BY <2>2, SlicesFit DEF OutflowSlices
      <3> QED
        BY <2>1, <3>1 DEF LookBackInv, Local
    <2>6. \A f, l \in Events : disposals'[f][l] > 0 => l < f
      <3>1. /\ disposals \in [Events -> [Events -> Nat]]
            /\ \A f, l \in Events : disposals[f][l] > 0 => l < f
        BY DEF LookBackInv, Local, IInv, Sound, Typed
      <3>2. CASE disposals' = [disposals EXCEPT ![e] =
                   [l \in Events |-> IF l \in DOMAIN s THEN s[l] ELSE 0]]
        <4> SUFFICES ASSUME NEW f \in Events, NEW l \in Events, disposals'[f][l] > 0
                     PROVE  l < f
          OBVIOUS
        <4>1. CASE f = e
          <5>1. disposals'[f][l] = IF l \in DOMAIN s THEN s[l] ELSE 0
            BY <3>1, <3>2, <4>1
          <5>2. l \in DOMAIN s
            BY <5>1
          <5> QED
            BY <2>5, <4>1, <5>2
        <4>2. CASE f # e
          <5>1. disposals'[f][l] = disposals[f][l]
            BY <3>1, <3>2, <4>2
          <5> QED
            BY <3>1, <5>1
        <4> QED
          BY <4>1, <4>2
      <3> QED
        BY <2>3, <3>1, <3>2
    <2> QED
      BY <2>1, <2>4, <2>6, FewerStillAhead
  <1>4. ~Relocate(e)
    BY DEF Relocate, Due, Turn, LookBackInv, IInv
  <1>5. CASE Raise(e)
    BY <1>5, RollbackLooksBack DEF Raise
  <1> QED
    BY <1>1, <1>2, <1>3, <1>4, <1>5 DEF Step

\* A wipe leaves no lot of the wallet whose events come next.
LEMMA WipeLooksBack ==
    ASSUME LookBackInv, IInv', NEW w \in Wallets, WipeWallet(w)
    PROVE  LookBackInv'
  <1>1. /\ job'.kind = job.kind /\ job'.todo = {e \in Arrived : WalletOf[e] = w}
        /\ UNCHANGED <<ct, saved>>
    BY DEF WipeWallet, Dequeue, LookBackInv, IInv, Jobs
  <1>2. \A l \in Events : lots'[l] # None =>
            lots[l] # None /\ lots'[l] = lots[l] /\ lots[l].wallet # w
    BY DEF WipeWallet, LotsWithout, Gone, Held
  <1>3. \A e, l \in Events : disposals'[e][l] > 0 => disposals[e][l] > 0
    BY DEF WipeWallet, DisposalsWithout, LookBackInv, IInv, Sound, Typed
  <1>4. Local(lots', disposals')
    BY <1>2, <1>3 DEF LookBackInv, Local
  <1>5. \A e \in job'.todo, l \in Events :
           lots'[l] # None /\ WalletOf[l] = WalletOf[e] => l < e
    BY <1>1, <1>2 DEF LookBackInv, Local
  <1> QED
    BY <1>1, <1>4, <1>5 DEF LookBackInv, Arrived, Local

LEMMA NextLooksBack ==
    ASSUME OnlyLocalRebuilds, LookBackInv, [Next]_vars PROVE LookBackInv'
  <1>1. IInv'
    BY NextInv DEF LookBackInv
  <1>2. CASE Write
    <2>1. Signal /\ UNCHANGED <<lots, disposals, job, saved>>
      BY <1>2 DEF Write, ledger
    <2>2. \A e \in Arrived' : ct'[e].src = None
      BY <2>1, NothingLinked DEF LookBackInv, IInv, OnlyLocalRebuilds
    <2> QED
      BY <1>1, <2>1, <2>2 DEF LookBackInv, Local
  <1>3. CASE (\E kind \in JobKinds, ws \in (SUBSET Wallets) \ {{}} : Start(kind, ws)) \/ Commit
    <2>1. /\ UNCHANGED <<ct, lots, disposals>> /\ job'.todo = {} /\ job'.kind # "apply"
          /\ saved'.lots = lots /\ saved'.disposals = disposals
      BY <1>3 DEF Start, Commit, Idle, Snapshot, ledger, OnlyLocalRebuilds
    <2> QED
      BY <1>1, <2>1 DEF LookBackInv, Local, Arrived
  <1>4. CASE \E w \in Wallets : WipeWallet(w)
    BY <1>1, <1>4, WipeLooksBack
  <1>5. \A w \in Wallets : ~OpenWallet(w)
    BY DEF OpenWallet, LookBackInv
  <1>6. CASE \E e \in Events : Step(e)
    BY <1>1, <1>6, StepLooksBack
  <1>7. CASE Crash
    BY <1>1, <1>7, RollbackLooksBack DEF Crash
  <1>8. CASE UNCHANGED vars
    BY <1>1, <1>8 DEF vars, ledger, LookBackInv, Local, Arrived
  <1> QED
    BY <1>2, <1>3, <1>4, <1>5, <1>6, <1>7, <1>8 DEF Next

\* Where nothing moves between wallets and they are only rebuilt, whatever the signals and
\* wherever a job dies, a disposal never takes a lot acquired after it: open_lots needs
\* no date filter there.
THEOREM RebuildsLookBack ==
    ASSUME OnlyLocalRebuilds PROVE Spec => []DisposalsLookBack
  <1>1. Init => LookBackInv
    <2> SUFFICES ASSUME Init PROVE LookBackInv
      OBVIOUS
    <2>1. IInv
      BY InitInv
    <2>2. job.kind = "idle" /\ job.todo = {} /\ Arrived = {}
      BY DEF Init, Idle, SignalInit, Arrived
    <2>3. Local(lots, disposals) /\ saved.lots = lots /\ saved.disposals = disposals
      BY DEF Init, Local, Snapshot
    <2> QED
      BY <2>1, <2>2, <2>3 DEF LookBackInv
  <1>2. LookBackInv /\ [Next]_vars => LookBackInv'
    BY NextLooksBack
  <1>3. LookBackInv => DisposalsLookBack
    BY DEF LookBackInv, Local, DisposalsLookBack
  <1> QED
    BY <1>1, <1>2, <1>3, PTL DEF Spec

-----------------------------------------------------------------------------
(* Where every unit of a lot is                                           *)

\* How much of lot l the disposal rows took.
Sold(ds, l) == SumOn([e \in Events |-> ds[e][l]], Events)

\* What is left of a lot and what was sold of it is what was acquired, or a gift took the
\* rest.
Balanced(ls, ds, rs) ==
    \A l \in Events : ls[l] # None =>
        /\ ls[l].remaining + Sold(ds, l) <= Amount[l]
        /\ \/ ls[l].remaining + Sold(ds, l) = Amount[l]
           \/ \E r \in rs : r.lot = l /\ GiftRow(r)

BalanceInv ==
    /\ IInv
    /\ Balanced(lots, disposals, relocs)
    /\ Balanced(saved.lots, saved.disposals, saved.relocs)

\* A ledger that keeps the quantities and the rows of the lots it keeps stays balanced.
LEMMA BalanceStays ==
    ASSUME NEW ls, NEW ds, NEW rs, Balanced(ls, ds, rs), NEW ls2, NEW ds2, NEW rs2,
           \A l \in Events : ls2[l] # None =>
               /\ ls[l] # None /\ ls2[l].remaining = ls[l].remaining
               /\ \A e \in Events : ds2[e][l] = ds[e][l]
               /\ \A r \in rs : r.lot = l => r \in rs2
    PROVE  Balanced(ls2, ds2, rs2)
  <1> SUFFICES ASSUME NEW l \in Events, ls2[l] # None
               PROVE  /\ ls2[l].remaining + Sold(ds2, l) <= Amount[l]
                      /\ \/ ls2[l].remaining + Sold(ds2, l) = Amount[l]
                         \/ \E r \in rs2 : r.lot = l /\ GiftRow(r)
    BY DEF Balanced
  <1>1. [e \in Events |-> ds2[e][l]] = [e \in Events |-> ds[e][l]]
    OBVIOUS
  <1>2. Sold(ds2, l) = Sold(ds, l)
    BY <1>1 DEF Sold
  <1> QED
    BY <1>2 DEF Balanced

\* Nothing was sold of a lot that is not there yet.
LEMMA AcquireBalanced ==
    ASSUME IsFiniteSet(Events), BalanceInv, NEW e \in Events, Acquire(e)
    PROVE  Balanced(lots', disposals', relocs')
  <1>1. /\ lots[e] = None /\ UNCHANGED <<disposals, relocs>>
        /\ lots' \in [Events -> Lots \cup {None}] /\ lots'[e].remaining = Amount[e]
        /\ \A l \in Events : l # e => lots'[l] = lots[l]
    <2>1. IInv'
      BY AcquireInv DEF BalanceInv
    <2> QED
      BY <2>1 DEF Acquire, Due, Settled, BalanceInv, IInv, Sound, Typed
  <1> SUFFICES ASSUME NEW l \in Events, lots'[l] # None
               PROVE  /\ lots'[l].remaining + Sold(disposals, l) <= Amount[l]
                      /\ \/ lots'[l].remaining + Sold(disposals, l) = Amount[l]
                         \/ \E r \in relocs : r.lot = l /\ GiftRow(r)
    BY <1>1 DEF Balanced
  <1>2. CASE l = e
    <2>1. \A f \in Events : [x \in Events |-> disposals[x][l]][f] = 0
      BY <1>1, <1>2 DEF BalanceInv, IInv, Sound, Typed, Anchored
    <2>2. Sold(disposals, l) = 0
      BY <2>1, SumOfZeros DEF Sold
    <2>3. Amount[l] \in Nat
      BY LedgerAssumption
    <2> QED
      BY <1>1, <1>2, <2>2, <2>3
  <1>3. CASE l # e
    BY <1>1, <1>3 DEF BalanceInv, Balanced
  <1> QED
    BY <1>2, <1>3

\* What an outflow takes of each lot, and what that leaves.
LEMMA OutflowTakes ==
    ASSUME IInv, NEW e \in Events, NEW s \in OutflowSlices(e), lots' = LotsAfter(s)
    PROVE  /\ \A l \in DOMAIN s : /\ l \in Events /\ lots[l] # None
                                  /\ s[l] \in Nat /\ s[l] <= lots[l].remaining
                                  /\ lots[l].wallet = WalletOf[e]
           /\ \A l \in Events :
                 /\ lots'[l] = None <=> lots[l] = None
                 /\ lots[l] # None =>
                      /\ lots[l].remaining \in Nat
                      /\ lots'[l].remaining =
                            lots[l].remaining - (IF l \in DOMAIN s THEN s[l] ELSE 0)
  <1>1. lots \in [Events -> Lots \cup {None}] /\ Amount[e] \in Nat
    BY LedgerAssumption DEF IInv, Sound, Typed
  <1>2. \A l \in DOMAIN s : /\ l \in Events /\ lots[l] # None
                            /\ s[l] \in Nat /\ s[l] <= lots[l].remaining
                            /\ lots[l].wallet = WalletOf[e]
    BY <1>1, SlicesFit DEF OutflowSlices
  <1>3. \A l \in Events : lots[l] # None => lots[l].remaining \in Nat
    BY <1>1 DEF Lots
  <1> QED
    BY <1>1, <1>2, <1>3, LotsAfterFacts DEF OutflowSlices

\* A disposal's row had nothing of the lot, so its column grows by the slice.
LEMMA DisposeBalanced ==
    ASSUME IsFiniteSet(Events), BalanceInv, NEW e \in Events, Dispose(e)
    PROVE  Balanced(lots', disposals', relocs')
  <1>1. PICK s \in OutflowSlices(e) :
          /\ lots' = LotsAfter(s)
          /\ disposals' = [disposals EXCEPT ![e] =
                             [l \in Events |-> IF l \in DOMAIN s THEN s[l] ELSE 0]]
    BY DEF Dispose
  <1> DEFINE took(l) == IF l \in DOMAIN s THEN s[l] ELSE 0
  <1>2. /\ relocs' = relocs /\ disposals \in [Events -> [Events -> Nat]]
        /\ \A l \in Events : disposals[e][l] = 0
    BY DEF Dispose, Due, Settled, Disposed, BalanceInv, IInv, Sound, Typed
  <1>3. /\ \A l \in DOMAIN s : s[l] \in Nat
        /\ \A l \in Events :
              /\ lots'[l] = None <=> lots[l] = None
              /\ lots[l] # None =>
                   /\ lots[l].remaining \in Nat
                   /\ lots'[l].remaining = lots[l].remaining - took(l)
    BY <1>1, OutflowTakes DEF BalanceInv
  <1>4. \A l \in Events : took(l) \in Nat
    BY <1>3
  <1>5. \A f, l \in Events : disposals'[f][l] = IF f = e THEN took(l) ELSE disposals[f][l]
    BY <1>1, <1>2
  <1> HIDE DEF took
  <1>6. ASSUME NEW l \in Events
        PROVE  Sold(disposals', l) = Sold(disposals, l) + took(l) /\ Sold(disposals, l) \in Nat
    <2> DEFINE f == [x \in Events |-> disposals[x][l]]
               g == [x \in Events |-> disposals'[x][l]]
    <2>1. \A x \in Events : f[x] \in Nat /\ g[x] \in Nat
      BY <1>2, <1>4, <1>5
    <2>2. \A x \in Events \ {e} : g[x] = f[x]
      BY <1>5
    <2>3. f[e] = 0 /\ g[e] = took(l)
      BY <1>2, <1>5
    <2> HIDE DEF f, g
    <2>4. SumOn(g, Events) = SumOn(f, Events) - f[e] + g[e]
      BY <2>1, <2>2, SumChanged
    <2>5. SumOn(f, Events) \in Nat
      BY <2>1, SumIsNat
    <2> QED
      BY <1>4, <2>3, <2>4, <2>5 DEF Sold, f, g
  <1> SUFFICES ASSUME NEW l \in Events, lots'[l] # None
               PROVE  /\ lots'[l].remaining + Sold(disposals', l) <= Amount[l]
                      /\ \/ lots'[l].remaining + Sold(disposals', l) = Amount[l]
                         \/ \E r \in relocs : r.lot = l /\ GiftRow(r)
    BY <1>2 DEF Balanced
  <1>7. lots'[l].remaining + Sold(disposals', l) = lots[l].remaining + Sold(disposals, l)
    BY <1>3, <1>4, <1>6
  <1> QED
    BY <1>3, <1>7 DEF BalanceInv, Balanced

\* A gift only lowers what is left, where it leaves its row.
LEMMA GiftOutBalanced ==
    ASSUME IsFiniteSet(Events), BalanceInv, NEW e \in Events, GiftOut(e)
    PROVE  Balanced(lots', disposals', relocs')
  <1> DEFINE mark(l) == [lot |-> l, tx |-> e, from |-> WalletOf[e],
                         to |-> WalletOf[e], reason |-> "gift"]
  <1>1. PICK s \in OutflowSlices(e) :
          /\ lots' = LotsAfter(s)
          /\ relocs' = relocs \cup {mark(l) : l \in {m \in DOMAIN s : s[m] > 0}}
    BY DEF GiftOut
  <1>2. disposals' = disposals
    BY DEF GiftOut
  <1> DEFINE took(l) == IF l \in DOMAIN s THEN s[l] ELSE 0
  <1>3. /\ \A l \in DOMAIN s : s[l] \in Nat
        /\ \A l \in Events :
              /\ lots'[l] = None <=> lots[l] = None
              /\ lots[l] # None =>
                   /\ lots[l].remaining \in Nat
                   /\ lots'[l].remaining = lots[l].remaining - took(l)
    BY <1>1, OutflowTakes DEF BalanceInv
  <1>4. \A l \in Events : took(l) \in Nat
    BY <1>3
  <1>5. ASSUME NEW l \in Events, took(l) > 0
        PROVE  \E r \in relocs' : r.lot = l /\ GiftRow(r)
    <2>1. mark(l) \in relocs' /\ mark(l).lot = l /\ GiftRow(mark(l))
      BY <1>1, <1>5 DEF GiftRow
    <2> HIDE DEF mark
    <2> QED
      BY <2>1
  <1>6. relocs \subseteq relocs'
    BY <1>1
  <1> HIDE DEF took
  <1> SUFFICES ASSUME NEW l \in Events, lots'[l] # None
               PROVE  /\ lots'[l].remaining + Sold(disposals, l) <= Amount[l]
                      /\ \/ lots'[l].remaining + Sold(disposals, l) = Amount[l]
                         \/ \E r \in relocs' : r.lot = l /\ GiftRow(r)
    BY <1>2 DEF Balanced
  <1>7. Sold(disposals, l) \in Nat
    <2>1. \A x \in Events : [y \in Events |-> disposals[y][l]][x] \in Nat
      BY DEF BalanceInv, IInv, Sound, Typed
    <2> QED
      BY <2>1, SumIsNat DEF Sold
  <1>8. Amount[l] \in Nat
    BY LedgerAssumption
  <1>9. /\ lots[l].remaining + Sold(disposals, l) <= Amount[l]
        /\ \/ lots[l].remaining + Sold(disposals, l) = Amount[l]
           \/ \E r \in relocs : r.lot = l /\ GiftRow(r)
    BY <1>3 DEF BalanceInv, Balanced
  <1> QED
    BY <1>3, <1>4, <1>5, <1>6, <1>7, <1>8, <1>9

\* A relocation moves the lot, with what is left of it.
LEMMA RelocateBalanced ==
    ASSUME BalanceInv, NEW e \in Events, Relocate(e)
    PROVE  Balanced(lots', disposals', relocs')
  <1>1. PICK s \in RelocationSlices(e) :
          lots' = [l \in Events |-> IF l \in {m \in DOMAIN s : s[m] > 0}
                                    THEN Moved(e, l) ELSE lots[l]]
    BY DEF Relocate
  <1>2. disposals' = disposals /\ relocs \subseteq relocs'
    BY DEF Relocate
  <1>3. lots \in [Events -> Lots \cup {None}] /\ Amount[e] \in Nat
    BY LedgerAssumption DEF BalanceInv, IInv, Sound, Typed
  <1>4. \A l \in DOMAIN s : s[l] > 0 => lots[l] # None /\ lots[l] \in Lots
    BY <1>3, MovesFit
  <1>5. \A l \in Events : lots'[l] # None =>
            lots[l] # None /\ lots'[l].remaining = lots[l].remaining
    BY <1>1, <1>4 DEF Moved, Lots
  <1> QED
    BY <1>2, <1>5, BalanceStays DEF BalanceInv

LEMMA NextBalanced ==
    ASSUME IsFiniteSet(Events), BalanceInv, [Next]_vars PROVE BalanceInv'
  <1>1. IInv'
    BY NextInv DEF BalanceInv
  <1>2. CASE UNCHANGED <<lots, disposals, relocs>>
    <2>1. saved' = saved \/ saved' = Snapshot
      BY SavedSteps
    <2>2. Balanced(lots', disposals', relocs')
      BY <1>2 DEF BalanceInv
    <2>3. Balanced(saved'.lots, saved'.disposals, saved'.relocs)
      BY <2>1 DEF BalanceInv, Snapshot
    <2> QED
      BY <1>1, <2>2, <2>3 DEF BalanceInv
  <1>3. CASE \E e \in Events : Acquire(e) \/ Dispose(e) \/ GiftOut(e) \/ Relocate(e)
    <2>1. Balanced(lots', disposals', relocs')
      BY <1>3, AcquireBalanced, DisposeBalanced, GiftOutBalanced, RelocateBalanced
    <2>2. saved' = saved
      BY <1>3 DEF Acquire, Dispose, GiftOut, Relocate, Done
    <2> QED
      BY <1>1, <2>1, <2>2 DEF BalanceInv
  <1>4. CASE \E w \in Wallets : WipeWallet(w)
    <2>1. PICK w \in Wallets : WipeWallet(w)
      BY <1>4
    <2>2. Balanced(lots', disposals', relocs')
      <3>1. \A l \in Events : lots'[l] # None =>
               /\ lots[l] # None /\ lots'[l].remaining = lots[l].remaining
               /\ \A e \in Events : disposals'[e][l] = disposals[e][l]
               /\ \A r \in relocs : r.lot = l => r \in relocs'
        BY <2>1 DEF WipeWallet, LotsWithout, DisposalsWithout, RelocsWithout
      <3> QED
        BY <3>1, BalanceStays DEF BalanceInv
    <2>3. saved' = saved
      BY <2>1 DEF WipeWallet
    <2> QED
      BY <1>1, <2>2, <2>3 DEF BalanceInv
  <1>5. CASE Rollback
    BY <1>1, <1>5 DEF BalanceInv, Rollback
  <1> QED
    <2>1. Write => UNCHANGED <<lots, disposals, relocs>>
      BY DEF Write, ledger
    <2>2. \A e \in Events :
             Skip(e) \/ LoanNoOp(e) \/ MissingBasis(e) \/ InsufficientLots(e)
             => UNCHANGED <<lots, disposals, relocs>>
      BY DEF Skip, LoanNoOp, MissingBasis, InsufficientLots, Record, ledger
    <2>3. Commit => UNCHANGED <<lots, disposals, relocs>>
      BY DEF Commit, ledger
    <2>4. \A kind \in JobKinds, ws \in (SUBSET Wallets) \ {{}} :
             Start(kind, ws) => UNCHANGED <<lots, disposals, relocs>>
      BY DEF Start, ledger
    <2>5. \A w \in Wallets : OpenWallet(w) => UNCHANGED <<lots, disposals, relocs>>
      BY DEF OpenWallet, ledger
    <2>6. UNCHANGED vars => UNCHANGED <<lots, disposals, relocs>>
      BY DEF vars, ledger
    <2> QED
      BY <1>2, <1>3, <1>4, <1>5, <2>1, <2>2, <2>3, <2>4, <2>5, <2>6
      DEF Next, Step, Raise, Crash

\* Every unit of a lot is left, sold or given away, once, through every rebuild, relocation
\* and rollback; the ledger holds finitely many events.
THEOREM UnitsAddUp ==
    ASSUME IsFiniteSet(Events) PROVE Spec => []UnitsAccounted
  <1>1. Init => BalanceInv
    <2> SUFFICES ASSUME Init PROVE BalanceInv
      OBVIOUS
    <2>1. \A l \in Events : lots[l] = None
      BY DEF Init
    <2>2. saved.lots = lots
      BY DEF Init, Snapshot
    <2> QED
      BY <2>1, <2>2, InitInv DEF BalanceInv, Balanced
  <1>2. BalanceInv /\ [Next]_vars => BalanceInv'
    BY NextBalanced
  <1>3. BalanceInv => UnitsAccounted
    <2> SUFFICES ASSUME BalanceInv, NEW l \in Held
                 PROVE  LET sold == MapThenSumSet(LAMBDA e : disposals[e][l], Events) IN
                        /\ lots[l].remaining + sold <= Amount[l]
                        /\ \/ lots[l].remaining + sold = Amount[l]
                           \/ \E r \in relocs : r.lot = l /\ GiftRow(r)
      BY DEF UnitsAccounted
    <2>1. MapThenSumSet(LAMBDA e : disposals[e][l], Events) = Sold(disposals, l)
      BY ColumnSum DEF Sold
    <2>2. /\ lots[l].remaining + Sold(disposals, l) <= Amount[l]
          /\ \/ lots[l].remaining + Sold(disposals, l) = Amount[l]
             \/ \E r \in relocs : r.lot = l /\ GiftRow(r)
      BY DEF BalanceInv, Balanced, Held
    <2> QED
      BY <2>1, <2>2
  <1> QED
    BY <1>1, <1>2, <1>3, PTL DEF Spec

-----------------------------------------------------------------------------
(* What a job leaves of the events it visited                               *)

\* Every amount is positive: a disposal or a move of zero leaves no row at all.
AmountsPositive == \A e \in Events : Amount[e] > 0

Explained(e) == Settled(e) \/ e \in review \/ \E x \in excs : x.event = e

\* Nothing a job writes takes an explanation away.
Grows ==
    /\ ct' = ct
    /\ \A l \in Events : lots[l] # None => lots'[l] # None
    /\ \A e, l \in Events : disposals[e][l] > 0 => disposals'[e][l] > 0
    /\ relocs \subseteq relocs' /\ review \subseteq review' /\ excs \subseteq excs'

LEMMA GrownExplains ==
    ASSUME Grows, NEW e \in Events, Explained(e) PROVE Explained(e)'
  <1>1. Treatment(ct[e])' = Treatment(ct[e])
    BY DEF Grows, Treatment, TreatmentFromResolution
  <1>2. Settled(e) => Settled(e)'
    <2>1. Disposed(e) => Disposed(e)'
      BY DEF Grows, Disposed
    <2>2. Relocated(e) => Relocated(e)'
      BY DEF Grows, Relocated
    <2> QED
      BY <1>1, <2>1, <2>2 DEF Grows, Settled
  <1> QED
    BY <1>2 DEF Explained, Grows

\* Slices of a positive amount take something of some lot.
LEMMA SlicesTake ==
    ASSUME IsFiniteSet(Events), NEW method, NEW w, NEW pool, NEW amount \in Nat, amount > 0,
           NEW s \in Consumptions(method, OpenLots(w, pool), amount)
    PROVE  \E l \in DOMAIN s : s[l] > 0
  <1>1. s \in [OpenLots(w, pool) -> 0..amount] /\ Total(s) = amount
    BY DEF Consumptions, Coverings
  <1>2. DOMAIN s \subseteq Events /\ IsFiniteSet(DOMAIN s)
    BY <1>1, FS_Subset DEF OpenLots, Held
  <1>3. SumOn(s, DOMAIN s) = amount
    BY <1>1, TotalIsSum
  <1>4. \A l \in DOMAIN s : s[l] \in Nat
    BY <1>1
  <1> SUFFICES ASSUME \A l \in DOMAIN s : s[l] = 0 PROVE FALSE
    BY <1>4
  <1> QED
    BY <1>2, <1>3, SumOfZeros

\* Handlers only add.
LEMMA HandlersGrow ==
    ASSUME IInv, NEW e \in Events, Step(e), ~Raise(e) PROVE Grows
  <1>1. CASE Skip(e) \/ LoanNoOp(e) \/ MissingBasis(e) \/ InsufficientLots(e)
    BY <1>1 DEF Skip, LoanNoOp, MissingBasis, InsufficientLots, Record, Done, ledger, Grows
  <1>2. CASE Acquire(e)
    <2>1. lots[e] = None
      BY <1>2 DEF Acquire, Due, Settled
    <2> QED
      BY <1>2, <2>1 DEF Acquire, Done, Grows, IInv, Sound, Typed
  <1>3. CASE Dispose(e)
    <2>1. PICK s \in OutflowSlices(e) :
            /\ lots' = LotsAfter(s)
            /\ disposals' = [disposals EXCEPT ![e] =
                               [l \in Events |-> IF l \in DOMAIN s THEN s[l] ELSE 0]]
      BY <1>3 DEF Dispose
    <2>2. \A l \in Events : lots'[l] = None <=> lots[l] = None
      BY <2>1, OutflowTakes
    <2>3. \A l \in Events : ~(disposals[e][l] > 0)
      BY <1>3 DEF Dispose, Due, Settled, Disposed
    <2>4. \A f, l \in Events : disposals[f][l] > 0 => disposals'[f][l] > 0
      BY <2>1, <2>3 DEF IInv, Sound, Typed
    <2> QED
      BY <1>3, <2>2, <2>4 DEF Dispose, Done, Grows
  <1>4. CASE GiftOut(e)
    <2>1. PICK s \in OutflowSlices(e) : lots' = LotsAfter(s)
      BY <1>4 DEF GiftOut
    <2>2. \A l \in Events : lots'[l] = None <=> lots[l] = None
      BY <2>1, OutflowTakes
    <2> QED
      BY <1>4, <2>2 DEF GiftOut, Done, Grows
  <1>5. CASE Relocate(e)
    <2>1. PICK s \in RelocationSlices(e) :
            lots' = [l \in Events |-> IF l \in {m \in DOMAIN s : s[m] > 0}
                                      THEN Moved(e, l) ELSE lots[l]]
      BY <1>5 DEF Relocate
    <2>2. lots \in [Events -> Lots \cup {None}]
      BY DEF IInv, Sound, Typed
    <2>3. \A l \in DOMAIN s : s[l] > 0 => Moved(e, l) # None
      BY <2>2, MovesFit, MovedFacts
    <2>4. \A l \in Events : lots[l] # None => lots'[l] # None
      BY <2>1, <2>3
    <2> QED
      BY <1>5, <2>4 DEF Relocate, Done, Grows
  <1> QED
    BY <1>1, <1>2, <1>3, <1>4, <1>5 DEF Step

\* And an event they take off the list is explained.
LEMMA HandlersExplain ==
    ASSUME IsFiniteSet(Events), AmountsPositive, IInv,
           NEW e \in Events, PoolOf[e] # None, Step(e), ~Raise(e)
    PROVE  Explained(e)'
  <1>0. Amount[e] \in Nat /\ Amount[e] > 0 /\ Treatment(ct[e])' = Treatment(ct[e])
    BY HandlersGrow, LedgerAssumption DEF AmountsPositive, Grows, Treatment,
       TreatmentFromResolution
  <1>1. CASE Skip(e)
    <2>1. Explained(e)
      BY <1>1 DEF Skip, Explained
    <2> QED
      BY <2>1, HandlersGrow, GrownExplains
  <1>2. CASE LoanNoOp(e) \/ GiftOut(e)
    BY <1>2 DEF LoanNoOp, GiftOut, Explained
  <1>3. CASE MissingBasis(e) \/ InsufficientLots(e)
    <2>1. PICK why : excs' = excs \cup {[event |-> e, reason |-> why]}
      BY <1>3 DEF MissingBasis, InsufficientLots, Record
    <2> DEFINE row == [event |-> e, reason |-> why]
    <2>2. row \in excs' /\ row.event = e
      BY <2>1
    <2> HIDE DEF row
    <2> QED
      BY <2>2 DEF Explained
  <1>4. CASE Acquire(e)
    <2>1. lots'[e] # None
      BY <1>4, AcquiredTyped DEF Acquire, IInv, Sound, Typed
    <2> QED
      BY <1>0, <1>4, <2>1 DEF Acquire, Due, Explained, Settled
  <1>5. CASE Dispose(e)
    <2>1. PICK s \in OutflowSlices(e) :
            disposals' = [disposals EXCEPT ![e] =
                            [l \in Events |-> IF l \in DOMAIN s THEN s[l] ELSE 0]]
      BY <1>5 DEF Dispose
    <2>2. PICK l \in DOMAIN s : s[l] > 0
      BY <1>0, SlicesTake DEF OutflowSlices
    <2>3. l \in Events
      BY DEF OutflowSlices, Consumptions, Coverings, OpenLots, Held
    <2>4. Disposed(e)'
      BY <2>1, <2>2, <2>3 DEF Disposed, IInv, Sound, Typed
    <2> QED
      BY <1>0, <1>5, <2>4 DEF Dispose, Due, Explained, Settled
  <1>6. CASE Relocate(e)
    <2> DEFINE mark(l) == [lot |-> l, tx |-> e, from |-> WalletOf[ct[e].src],
                           to |-> WalletOf[e], reason |-> RelocationReason(ct[e])]
    <2>1. PICK s \in RelocationSlices(e) :
            relocs' = relocs \cup {mark(l) : l \in {m \in DOMAIN s : s[m] > 0}}
      BY <1>6 DEF Relocate
    <2>2. PICK l \in DOMAIN s : s[l] > 0
      BY <1>0, SlicesTake DEF RelocationSlices
    <2>3. Relocated(e)'
      <3>1. mark(l) \in relocs' /\ mark(l).tx = e
        BY <2>1, <2>2
      <3> HIDE DEF mark
      <3> QED
        BY <3>1 DEF Relocated
    <2> QED
      BY <1>0, <1>6, <2>3 DEF Relocate, Due, Explained, Settled
  <1> QED
    BY <1>1, <1>2, <1>3, <1>4, <1>5, <1>6 DEF Step

\* The events of the wallets a job has opened that it has already visited.
LEMMA NextDropsNothing ==
    ASSUME IsFiniteSet(Events), AmountsPositive, IInv, NothingDropped, [Next]_vars
    PROVE  NothingDropped'
  <1>1. CASE job'.kind # "apply"
    BY <1>1 DEF NothingDropped
  <1>2. CASE \E e \in Events : Step(e) /\ ~Raise(e)
    <2>1. PICK e \in Events : Step(e) /\ ~Raise(e)
      BY <1>2
    <2>2. Grows
      BY <2>1, HandlersGrow
    <2>3. Done(e)
      BY <2>1 DEF Step, Skip, LoanNoOp, Acquire, Dispose, GiftOut, Relocate, MissingBasis,
                  InsufficientLots, Record
    <2>4. /\ job'.kind = job.kind /\ job'.scope = job.scope /\ job'.queue = job.queue
          /\ job'.todo = job.todo \ {e} /\ Arrived' = Arrived
      BY <2>3 DEF Done, IInv, Jobs, Arrived
    <2> SUFFICES ASSUME NEW f \in Arrived,
                        job.kind = "apply", WalletOf[f] \in job.scope \ job.queue,
                        f \notin job.todo \ {e}, PoolOf[f] # None
                 PROVE  Explained(f)'
      BY <2>4 DEF NothingDropped, Explained
    <2>5. CASE f = e
      BY <2>1, <2>5, HandlersExplain
    <2>6. CASE f # e
      <3>1. Explained(f)
        BY <2>6 DEF NothingDropped, Explained
      <3> QED
        BY <2>2, <3>1, GrownExplains DEF Arrived
    <2> QED
      BY <2>5, <2>6
  <1>3. CASE \E w \in Wallets : OpenWallet(w)
    <2>1. PICK w \in Wallets : OpenWallet(w)
      BY <1>3
    <2>2. /\ job'.kind = job.kind /\ job'.scope = job.scope
          /\ job'.queue = job.queue \ {w} /\ job.todo = {}
          /\ job'.todo = {e \in Arrived : WalletOf[e] = w}
          /\ UNCHANGED <<ct, ledger>>
      BY <2>1 DEF OpenWallet, Dequeue, IInv, Jobs
    <2>3. Arrived' = Arrived /\ \A e \in Events : Explained(e) => Explained(e)'
      BY <2>2, GrownExplains DEF Arrived, Grows, ledger
    <2> QED
      BY <2>2, <2>3 DEF NothingDropped, Explained, Arrived
  <1>4. CASE \E kind \in JobKinds, ws \in (SUBSET Wallets) \ {{}} : Start(kind, ws)
    BY <1>4 DEF Start, NothingDropped
  <1>5. CASE UNCHANGED vars
    <2>1. Arrived' = Arrived /\ \A e \in Events : Explained(e) => Explained(e)'
      BY <1>5, GrownExplains DEF Arrived, Grows, vars, ledger
    <2> QED
      BY <1>5, <2>1 DEF vars, NothingDropped, Explained, Arrived
  <1>6. Write => job'.kind # "apply"
    BY DEF Write, Resting
  <1>7. \A w \in Wallets : WipeWallet(w) => job'.kind # "apply"
    BY DEF WipeWallet, Dequeue, IInv, Jobs
  <1>8. Commit \/ Crash \/ (\E e \in Events : Raise(e)) => job'.kind # "apply"
    BY DEF Commit, Crash, Raise, Rollback, Idle
  <1> QED
    BY <1>1, <1>2, <1>3, <1>4, <1>5, <1>6, <1>7, <1>8 DEF Next

\* However its wallets are ordered and whatever earlier jobs left, an "apply" job
\* accounts for every event it has visited.
THEOREM JobsDropNothing ==
    ASSUME IsFiniteSet(Events), AmountsPositive PROVE Spec => []NothingDropped
  <1>1. Init => IInv /\ NothingDropped
    BY InitInv DEF Init, Idle, NothingDropped
  <1>2. IInv /\ NothingDropped /\ [Next]_vars => (IInv /\ NothingDropped)'
    BY NextInv, NextDropsNothing
  <1> QED
    BY <1>1, <1>2, PTL DEF Spec

-----------------------------------------------------------------------------
(* Disposals where nothing moves between wallets                            *)

\* Lots stay where they were acquired, a disposal takes lots of its own wallet, and its
\* rows add up to what was sold.
Home(ls, ds) ==
    /\ \A l \in Events : ls[l] # None => ls[l].wallet = WalletOf[l]
    /\ \A e, l \in Events : ds[e][l] > 0 => WalletOf[l] = WalletOf[e]
    /\ \A e \in Events : (\E l \in Events : ds[e][l] > 0) => SumOn(ds[e], Events) = Amount[e]

HomeInv ==
    /\ IInv
    /\ \A e \in Arrived : ct[e].src = None
    /\ Home(lots, disposals) /\ Home(saved.lots, saved.disposals)

\* The row of a disposal adds up to its slices, and they to its amount.
LEMMA RowIsWhole ==
    ASSUME IsFiniteSet(Events), NEW e \in Events, NEW s \in OutflowSlices(e)
    PROVE  SumOn([l \in Events |-> IF l \in DOMAIN s THEN s[l] ELSE 0], Events) = Amount[e]
  <1> DEFINE row == [l \in Events |-> IF l \in DOMAIN s THEN s[l] ELSE 0]
  <1>1. DOMAIN s \in SUBSET Events /\ (\A l \in DOMAIN s : s[l] \in Nat) /\ Total(s) = Amount[e]
    BY LedgerAssumption DEF OutflowSlices, Consumptions, Coverings, OpenLots, Held
  <1>2. (\A l \in Events : row[l] \in Nat) /\ (\A l \in Events \ DOMAIN s : row[l] = 0)
    BY <1>1
  <1>3. \A l \in DOMAIN s : row[l] = s[l]
    BY <1>1
  <1> HIDE DEF row
  <1>4. SumOn(row, Events) = SumOn(row, DOMAIN s)
    BY <1>1, <1>2, SumWhereItIs
  <1>5. SumOn(row, DOMAIN s) = SumOn(s, DOMAIN s)
    <2>1. IsFiniteSet(DOMAIN s)
      BY <1>1, FS_Subset
    <2> QED
      BY <1>3, <2>1, SumSame
  <1> QED
    BY <1>1, <1>4, <1>5, TotalIsSum DEF row

\* What takes its lots from the event's wallet.
LEMMA DisposeHome ==
    ASSUME IsFiniteSet(Events), HomeInv, NEW e \in Events, Dispose(e)
    PROVE  Home(lots', disposals')
  <1>1. PICK s \in OutflowSlices(e) :
          /\ lots' = LotsAfter(s)
          /\ disposals' = [disposals EXCEPT ![e] =
                             [l \in Events |-> IF l \in DOMAIN s THEN s[l] ELSE 0]]
    BY DEF Dispose
  <1> DEFINE row == [l \in Events |-> IF l \in DOMAIN s THEN s[l] ELSE 0]
  <1>2. lots \in [Events -> Lots \cup {None}] /\ disposals \in [Events -> [Events -> Nat]]
    BY DEF HomeInv, IInv, Sound, Typed
  <1>3. \A l \in Events : lots'[l] # None => lots[l] # None /\ lots'[l].wallet = lots[l].wallet
    BY <1>1, <1>2, LotsAfterFacts, LedgerAssumption DEF OutflowSlices
  <1>4. \A l \in DOMAIN s : lots[l] # None /\ lots[l].wallet = WalletOf[e] /\ l \in Events
    BY <1>1, OutflowTakes DEF HomeInv
  <1>5. \A l \in Events : row[l] > 0 => WalletOf[l] = WalletOf[e]
    BY <1>4 DEF HomeInv, Home
  <1>6. SumOn(row, Events) = Amount[e]
    BY RowIsWhole
  <1>7. \A f \in Events : disposals'[f] = IF f = e THEN row ELSE disposals[f]
    BY <1>1, <1>2
  <1> HIDE DEF row
  <1>8. \A f, l \in Events : disposals'[f][l] > 0 => WalletOf[l] = WalletOf[f]
    BY <1>5, <1>7 DEF HomeInv, Home
  <1>9. \A f \in Events : (\E l \in Events : disposals'[f][l] > 0)
                            => SumOn(disposals'[f], Events) = Amount[f]
    BY <1>6, <1>7 DEF HomeInv, Home
  <1> QED
    BY <1>3, <1>8, <1>9 DEF HomeInv, Home

\* A wipe takes the whole row of a disposal of its wallet, and nothing of any other.
LEMMA WipeHome ==
    ASSUME HomeInv, NEW w \in Wallets, WipeWallet(w)
    PROVE  Home(lots', disposals')
  <1>1. disposals \in [Events -> [Events -> Nat]] /\ Anchored(lots, disposals, relocs)
    BY DEF HomeInv, IInv, Sound, Typed
  <1>2. \A l \in Events : lots'[l] # None => lots[l] # None /\ lots'[l] = lots[l]
    BY DEF WipeWallet, LotsWithout
  <1>3. disposals' = DisposalsWithout(w)
    BY DEF WipeWallet
  <1>4. ASSUME NEW e \in Events
        PROVE  disposals'[e] = disposals[e] \/ \A l \in Events : disposals'[e][l] = 0
    <2>1. ASSUME NEW l \in Events, disposals[e][l] > 0
          PROVE  l \in Gone(w) <=> WalletOf[e] = w
      BY <1>1, <2>1 DEF HomeInv, Home, Anchored, Gone, Held
    <2>2. CASE WalletOf[e] = w
      BY <1>1, <1>3, <2>1, <2>2 DEF DisposalsWithout
    <2>3. CASE WalletOf[e] # w
      <3>1. \A l \in Events : disposals'[e][l] = disposals[e][l]
        BY <1>1, <1>3, <2>1, <2>3 DEF DisposalsWithout
      <3>2. disposals'[e] = [l \in Events |-> disposals'[e][l]]
        BY <1>3 DEF DisposalsWithout
      <3>3. disposals[e] = [l \in Events |-> disposals[e][l]]
        BY <1>1
      <3> QED
        BY <3>1, <3>2, <3>3
    <2> QED
      BY <2>2, <2>3
  <1>5. \A e, l \in Events : disposals'[e][l] > 0 => disposals'[e] = disposals[e]
    BY <1>4
  <1> QED
    BY <1>2, <1>5 DEF HomeInv, Home

LEMMA NextHome ==
    ASSUME IsFiniteSet(Events), NothingMoves, HomeInv, [Next]_vars PROVE HomeInv'
  <1>1. IInv'
    BY NextInv DEF HomeInv
  <1>2. CASE Write
    <2>1. Signal /\ UNCHANGED <<lots, disposals, saved>>
      BY <1>2 DEF Write, ledger
    <2>2. \A e \in Arrived' : ct'[e].src = None
      BY <2>1, NothingLinked DEF HomeInv, IInv
    <2> QED
      BY <1>1, <2>1, <2>2 DEF HomeInv
  <1>3. ASSUME UNCHANGED <<ct, saved>>, Home(lots', disposals') PROVE HomeInv'
    BY <1>1, <1>3 DEF HomeInv, Arrived
  <1>4. CASE (\E kind \in JobKinds, ws \in (SUBSET Wallets) \ {{}} : Start(kind, ws)) \/ Commit
    <2>1. UNCHANGED <<ct, lots, disposals>> /\ saved' = Snapshot
      BY <1>4 DEF Start, Commit, ledger
    <2> QED
      BY <1>1, <2>1 DEF HomeInv, Arrived, Snapshot
  <1>5. CASE \E w \in Wallets : WipeWallet(w)
    BY <1>3, <1>5, WipeHome DEF WipeWallet
  <1>6. CASE \E e \in Events : Dispose(e)
    BY <1>3, <1>6, DisposeHome DEF Dispose, Done
  <1>7. CASE \E e \in Events : Acquire(e)
    <2>1. PICK e \in Events : Acquire(e)
      BY <1>7
    <2>2. \A l \in Events : lots'[l] = lots[l] \/ lots'[l].wallet = WalletOf[l]
      BY <2>1 DEF Acquire, HomeInv, IInv, Sound, Typed
    <2>3. UNCHANGED <<ct, saved, disposals>>
      BY <2>1 DEF Acquire, Done
    <2>4. Home(lots', disposals')
      BY <2>2, <2>3 DEF HomeInv, Home
    <2> QED
      BY <1>3, <2>3, <2>4
  <1>8. CASE \E e \in Events : GiftOut(e)
    <2>1. PICK e \in Events : GiftOut(e)
      BY <1>8
    <2>2. PICK s \in OutflowSlices(e) : lots' = LotsAfter(s)
      BY <2>1 DEF GiftOut
    <2>3. \A l \in Events : lots'[l] # None =>
              lots[l] # None /\ lots'[l].wallet = lots[l].wallet
      BY <2>2, LotsAfterFacts, LedgerAssumption DEF OutflowSlices, HomeInv, IInv, Sound, Typed
    <2>4. UNCHANGED <<ct, saved, disposals>>
      BY <2>1 DEF GiftOut, Done
    <2>5. Home(lots', disposals')
      BY <2>3, <2>4 DEF HomeInv, Home
    <2> QED
      BY <1>3, <2>4, <2>5
  <1>9. \A e \in Events : ~Relocate(e)
    BY DEF Relocate, Due, Turn, HomeInv, IInv
  <1>10. CASE Rollback
    BY <1>1, <1>10 DEF HomeInv, Rollback, Arrived
  <1>11. CASE UNCHANGED <<ct, lots, disposals, saved>>
    BY <1>3, <1>11 DEF HomeInv
  <1> QED
    <2>1. \A e \in Events :
             Skip(e) \/ LoanNoOp(e) \/ MissingBasis(e) \/ InsufficientLots(e)
             => UNCHANGED <<ct, lots, disposals, saved>>
      BY DEF Skip, LoanNoOp, MissingBasis, InsufficientLots, Record, Done, ledger
    <2>2. \A w \in Wallets : OpenWallet(w) => UNCHANGED <<ct, lots, disposals, saved>>
      BY DEF OpenWallet, ledger
    <2>3. UNCHANGED vars => UNCHANGED <<ct, lots, disposals, saved>>
      BY DEF vars, ledger
    <2> QED
      BY <1>2, <1>4, <1>5, <1>6, <1>7, <1>8, <1>9, <1>10, <1>11, <2>1, <2>2, <2>3
      DEF Next, Step, Raise, Crash

\* Where nothing moves between wallets, jobs of both kinds leave a disposal its full
\* amount or nothing: the wipe of a wallet never takes part of it.
THEOREM DisposalsStayWhole ==
    ASSUME IsFiniteSet(Events), NothingMoves PROVE Spec => []DisposalsAreWhole
  <1>1. Init => HomeInv
    <2> SUFFICES ASSUME Init PROVE HomeInv
      OBVIOUS
    <2>1. /\ \A l \in Events : lots[l] = None
          /\ \A e, l \in Events : disposals[e][l] = 0
          /\ Arrived = {}
      BY DEF Init, SignalInit, Arrived
    <2>2. saved.lots = lots /\ saved.disposals = disposals
      BY DEF Init, Snapshot
    <2> QED
      BY <2>1, <2>2, InitInv DEF HomeInv, Home
  <1>2. HomeInv /\ [Next]_vars => HomeInv'
    BY NextHome
  <1>3. HomeInv => DisposalsAreWhole
    <2> SUFFICES ASSUME HomeInv, NEW e \in Events, Disposed(e)
                 PROVE  MapThenSumSet(LAMBDA l : disposals[e][l], Events) = Amount[e]
      BY DEF DisposalsAreWhole
    <2>1. SumOn(disposals[e], Events) = Amount[e]
      BY DEF HomeInv, Home, Disposed
    <2>2. MapThenSumSet(LAMBDA l : disposals[e][l], Events) = SumOn(disposals[e], Events)
      BY Zenon DEF SumOn
    <2> QED
      BY <2>1, <2>2
  <1> QED
    BY <1>1, <1>2, <1>3, PTL DEF Spec

-----------------------------------------------------------------------------
(* The engine under the commands                                            *)

Recomputes == \E ws \in (SUBSET Wallets) \ {{}} : Start("apply", ws)

\* What a command does to the ledger is what a job does.
LEMMA EngineSteps ==
    ASSUME [FormsNext]_formVars PROVE [Next]_vars \/ Recomputes
  <1>1. CASE UNCHANGED vars
    BY <1>1
  <1>2. WriteSignal => Next
    BY DEF WriteSignal, Next
  <1>3. \A command \in Commands, p \in Entities, year \in Years :
            Recompute(command, p, year) => Recomputes
    <2> SUFFICES ASSUME NEW command \in Commands, NEW p \in Entities, NEW year \in Years,
                        Recompute(command, p, year)
                 PROVE  Recomputes
      OBVIOUS
    <2> DEFINE ws == EntityWallets(p)
    <2>1. ws \in (SUBSET Wallets) \ {{}} /\ Start("apply", ws)
      BY DEF Recompute, EntityWallets
    <2> HIDE DEF ws
    <2> QED
      BY <2>1 DEF Recomputes, Start
  <1>4. RunJob => Next
    BY DEF RunJob, Next
  <1>5. CommitJob => Next
    BY DEF CommitJob, Next
  <1>6. EndJob => Next
    BY DEF EndJob, Next, Step
  <1>7. \/ \E e \in Events, kind \in {"bridge", "transfer"} : AskUser(e, kind)
        \/ \E q \in asked : Dismiss(q)
        \/ NewYear
        \/ \E command \in Commands, p \in Entities, year \in Years : Request(command, p, year)
        \/ CheckGate \/ FetchAcquisitions \/ FetchDisposals \/ FetchIncome
        \/ UNCHANGED formVars
        => UNCHANGED vars
    BY DEF AskUser, Dismiss, NewYear, Request, CheckGate, FetchAcquisitions,
           FetchDisposals, FetchIncome, formVars
  <1> QED
    BY <1>1, <1>2, <1>3, <1>4, <1>5, <1>6, <1>7 DEF FormsNext

LEMMA LedgerStays == ASSUME IInv, [FormsNext]_formVars PROVE IInv'
  <1>1. Recomputes => IInv'
    BY StartCommitInv DEF Recomputes
  <1> QED
    BY <1>1, NextInv, EngineSteps

-----------------------------------------------------------------------------
(* Types, and the gate's answer                                             *)

FormTyped ==
    /\ today \in Years /\ asked \subseteq Questions
    /\ form \in FormStates
    /\ form.held => form.command.draft \/ form.command.kind = "report"

LEMMA BlankTyped ==
    ASSUME Years # {}
    PROVE  Blank \in FormStates /\ ~Blank.held /\ Blank.due = {} /\ Blank.rows = {}
           /\ Blank.income = {} /\ Blank.acquired = {} /\ Blank.stage = "none"
  <1>1. /\ (CHOOSE c \in Commands : TRUE) \in Commands
        /\ (CHOOSE p \in Entities : TRUE) \in Entities
        /\ (CHOOSE y \in Years : TRUE) \in Years
    BY CommandsAssumption
  <1> QED
    BY <1>1 DEF Blank, Asked, FormStates, Stages

LEMMA AskedTyped ==
    ASSUME NEW command \in Commands, NEW p \in Entities, NEW year \in Years
    PROVE  Asked(command, p, year) \in FormStates
  BY DEF Asked, FormStates, Stages

LEMMA FormStaysTyped ==
    ASSUME IInv, FormTyped, [FormsNext]_formVars PROVE FormTyped'
  <1>0. Years # {}
    BY DEF FormTyped
  <1>1. CASE UNCHANGED <<today, asked, form>>
    BY <1>1 DEF FormTyped
  <1>2. ASSUME NEW e \in Events, NEW kind \in {"bridge", "transfer"}, AskUser(e, kind)
        PROVE  FormTyped'
    BY <1>2 DEF AskUser, FormTyped, Questions
  <1>3. CASE WriteSignal
    BY <1>3 DEF WriteSignal, FormTyped
  <1>4. CASE \E q \in asked : Dismiss(q)
    BY <1>4 DEF Dismiss, FormTyped
  <1>5. CASE NewYear
    BY <1>5 DEF NewYear, FormTyped
  <1>6. ASSUME NEW command \in Commands, NEW p \in Entities, NEW year \in Years,
               Recompute(command, p, year) \/ Request(command, p, year)
        PROVE  FormTyped'
    <2>1. Asked(command, p, year) \in FormStates /\ ~Asked(command, p, year).held
      BY AskedTyped DEF Asked
    <2>2. UNCHANGED <<today, asked>>
      BY <1>6 DEF Recompute, Request
    <2>3. form' \in FormStates /\ ~form'.held
      BY <1>6, <2>1 DEF Recompute, Request, Sets, FormStates, Stages
    <2> QED
      BY <2>2, <2>3 DEF FormTyped
  <1>7. CASE CheckGate
    <2>1. UNCHANGED <<today, asked>>
      BY <1>7 DEF CheckGate
    <2> DEFINE held == GateHeld(form.entity, form.year)
    <2>2. CASE Refuses(held, form.command)
      BY <1>0, <1>7, <2>1, <2>2, BlankTyped DEF CheckGate, FormTyped
    <2>3. CASE ~Refuses(held, form.command)
      <3>1. held \in BOOLEAN
        BY DEF GateHeld
      <3> HIDE DEF held
      <3>2. PICK stage \in Stages : form' = [form EXCEPT !.held = held, !.stage = stage]
        BY <1>7, <2>3 DEF CheckGate, Sets, Stages, held
      <3>3. form' \in FormStates /\ form'.held = held /\ form'.command = form.command
        BY <3>1, <3>2 DEF FormTyped, FormStates
      <3> QED
        BY <2>1, <2>3, <3>3 DEF FormTyped, Refuses
    <2> QED
      BY <2>2, <2>3
  <1>8. CASE FetchAcquisitions \/ FetchDisposals \/ FetchIncome
    <2>1. UNCHANGED <<today, asked>>
      BY <1>8 DEF FetchAcquisitions, FetchDisposals, FetchIncome
    <2>2. /\ AcquiredLots(form.entity, form.year) \subseteq Events
          /\ RewardLots(form.entity, form.year) \subseteq Events
          /\ DisposalRows(form.entity, form.year) \subseteq Events \X Events
      BY DEF AcquiredLots, RewardLots, DisposalRows
    <2>3. form' \in FormStates /\ form'.held = form.held /\ form'.command = form.command
      <3>1. CASE FetchAcquisitions
        BY <2>2, <3>1 DEF FetchAcquisitions, Sets, FormTyped, FormStates, Stages
      <3>2. CASE FetchDisposals
        <4> DEFINE rows == DisposalRows(form.entity, form.year)
        <4>1. form' = [form EXCEPT !.rows = rows, !.stage = "income"]
          BY <3>2 DEF FetchDisposals, Sets
        <4>2. rows \in SUBSET (Events \X Events) /\ "income" \in Stages
          BY <2>2 DEF Stages
        <4> HIDE DEF rows
        <4> QED
          BY <4>1, <4>2 DEF FormTyped, FormStates
      <3>3. CASE FetchIncome
        BY <2>2, <3>3 DEF FetchIncome, Sets, FormTyped, FormStates, Stages
      <3> QED
        BY <1>8, <3>1, <3>2, <3>3
    <2> QED
      BY <2>1, <2>3 DEF FormTyped
  <1>9. CASE RunJob
    BY <1>1, <1>9 DEF RunJob
  <1>10. CASE CommitJob
    <2>1. UNCHANGED <<today, asked>>
      BY <1>10 DEF CommitJob
    <2>2. form' \in FormStates /\ form'.held = form.held /\ form'.command = form.command
      <3> DEFINE due == {e \in Arrived : /\ WalletOf[e] \in job.scope /\ PoolOf[e] # None
                                         /\ Treatment(ct[e]) = "dispose"
                                         /\ YearOf[e] = form.year}
      <3>1. form' = form \/ form' = [form EXCEPT !.due = due, !.stage = "gate"]
        BY <1>10 DEF CommitJob, Sets
      <3>2. due \in SUBSET Events /\ "gate" \in Stages
        BY DEF Arrived, Stages
      <3> HIDE DEF due
      <3> QED
        BY <3>1, <3>2 DEF FormTyped, FormStates
    <2> QED
      BY <2>1, <2>2 DEF FormTyped
  <1>11. CASE EndJob
    BY <1>0, <1>11, BlankTyped DEF EndJob, FormTyped
  <1>12. CASE UNCHANGED formVars
    BY <1>1, <1>12 DEF formVars
  <1> QED
    BY <1>2, <1>3, <1>4, <1>5, <1>6, <1>7, <1>8, <1>9, <1>10, <1>11, <1>12 DEF FormsNext

\* The ledger under the commands stays sound, and every form that went out past a held
\* gate is a draft or the marked report, whatever was asked and answered since.
THEOREM FormsTypeCorrect == FormsSpec => []FormsTypeOK
  <1>1. FormsInit => IInv /\ FormTyped
    BY InitInv, BlankTyped DEF FormsInit, FormTyped
  <1>2. IInv /\ FormTyped /\ [FormsNext]_formVars => (IInv /\ FormTyped)'
    BY LedgerStays, FormStaysTyped
  <1>3. IInv /\ FormTyped => FormsTypeOK
    <2>1. IInv => TypeOK
      BY DEF IInv, Sound, Typed, TypeOK, Snapshot, Ledgers
    <2> QED
      BY <2>1 DEF FormTyped, FormsTypeOK
  <1> QED
    BY <1>1, <1>2, <1>3, PTL DEF FormsSpec

-----------------------------------------------------------------------------
(* Where no wallet is rebuilt, the committed rows stay                       *)

OnlyApplies == JobKinds = {"apply"}

\* Rows of one ledger that are in another.
Keeps(old, new) ==
    /\ old.relocs \subseteq new.relocs
    /\ old.review \subseteq new.review /\ old.excs \subseteq new.excs
    /\ \A e, l \in Events : old.disposals[e][l] > 0 => new.disposals[e][l] > 0

KeptInv == IInv /\ job.kind # "rebuild" /\ Keeps(saved, Snapshot)

LEMMA AppliesOnly ==
    ASSUME OnlyApplies, [FormsNext]_formVars PROVE [Next]_vars
  <1>1. Recomputes => Next
    BY DEF Recomputes, OnlyApplies, Next
  <1> QED
    BY <1>1, EngineSteps

LEMMA NextKeeps ==
    ASSUME OnlyApplies, KeptInv, [Next]_vars PROVE KeptInv' /\ Keeps(saved, saved')
  <1>1. IInv'
    BY NextInv DEF KeptInv
  <1>2. Keeps(saved, saved')
    BY SavedSteps DEF KeptInv, Keeps
  <1>3. \A w \in Wallets : ~WipeWallet(w)
    BY DEF WipeWallet, KeptInv
  <1>4. CASE UNCHANGED ledger /\ saved' = saved /\ job'.kind # "rebuild"
    BY <1>1, <1>2, <1>4 DEF KeptInv, Snapshot, ledger
  <1>5. CASE \E e \in Events : Step(e) /\ ~Raise(e)
    <2>1. PICK e \in Events : Step(e) /\ ~Raise(e)
      BY <1>5
    <2>2. Grows
      BY <2>1, HandlersGrow DEF KeptInv
    <2>3. Done(e)
      BY <2>1 DEF Step, Skip, LoanNoOp, Acquire, Dispose, GiftOut, Relocate, MissingBasis,
                  InsufficientLots, Record
    <2>4. saved' = saved /\ job'.kind = job.kind
      BY <2>3 DEF Done, KeptInv, IInv, Jobs
    <2>5. Keeps(saved', Snapshot')
      BY <2>2, <2>4 DEF KeptInv, Keeps, Grows, Snapshot
    <2> QED
      BY <1>1, <1>2, <2>4, <2>5 DEF KeptInv
  <1>6. CASE UNCHANGED ledger /\ saved' = Snapshot /\ job'.kind # "rebuild"
    BY <1>1, <1>2, <1>6 DEF KeptInv, Keeps, Snapshot, ledger
  <1>7. CASE Rollback
    BY <1>1, <1>2, <1>7 DEF KeptInv, Keeps, Snapshot, Rollback, Idle
  <1> QED
    <2>1. Write \/ UNCHANGED vars => UNCHANGED ledger /\ saved' = saved /\ job'.kind # "rebuild"
      BY DEF Write, vars, KeptInv
    <2>2. \A kind \in JobKinds, ws \in (SUBSET Wallets) \ {{}} : Start(kind, ws) =>
              UNCHANGED ledger /\ saved' = Snapshot /\ job'.kind # "rebuild"
      BY DEF Start, OnlyApplies
    <2>3. Commit => UNCHANGED ledger /\ saved' = Snapshot /\ job'.kind # "rebuild"
      BY DEF Commit, Idle
    <2>4. \A w \in Wallets : OpenWallet(w) =>
              UNCHANGED ledger /\ saved' = saved /\ job'.kind # "rebuild"
      BY DEF OpenWallet, Dequeue, KeptInv, IInv, Jobs
    <2> QED
      BY <1>3, <1>4, <1>5, <1>6, <1>7, <2>1, <2>2, <2>3, <2>4 DEF Next, Raise, Crash

LEMMA InitKept == Init => KeptInv
  BY InitInv DEF Init, Idle, KeptInv, Keeps, Snapshot

-----------------------------------------------------------------------------
(* Whose rows a form lists                                                  *)

\* No wallet changes owner.
SteadyOwners == \A w \in Wallets : \A e, f \in Events : OwnerAt[w][e] = OwnerAt[w][f]

\* Entity p owned the wallet of e, or lot l has been moved to a wallet of p's.
Theirs(e, l, p, rs) ==
    \/ OwnerOf(e, e) \in {p, None}
    \/ \E m \in rs : m.lot = l /\ OwnerAt[m.to][m.tx] = p

\* So it is of the entity a lot has now, for its acquisition and for every sale of it.
Attributed(ls, ds, rs) ==
    \A l \in Events : ls[l] # None =>
        /\ Theirs(l, l, ls[l].entity, rs)
        /\ \A e \in Events : ds[e][l] > 0 => Theirs(e, l, ls[l].entity, rs)

AttributedInv ==
    /\ KeptInv
    /\ Attributed(lots, disposals, relocs)
    /\ Attributed(saved.lots, saved.disposals, saved.relocs)

\* A lot keeps its entity, or a move has made it the entity's whatever the event.
LEMMA AttributedStays ==
    ASSUME NEW ls, NEW ds, NEW rs, Attributed(ls, ds, rs), NEW ls2, NEW ds2, NEW rs2,
           rs \subseteq rs2,
           \A l \in Events : ls2[l] # None =>
               \/ \A e \in Events : Theirs(e, l, ls2[l].entity, rs2)
               \/ /\ ls[l] # None /\ ls2[l].entity = ls[l].entity
                  /\ \A e \in Events : ds2[e][l] > 0 =>
                        ds[e][l] > 0 \/ Theirs(e, l, ls2[l].entity, rs2)
    PROVE  Attributed(ls2, ds2, rs2)
  <1> SUFFICES ASSUME NEW l \in Events, ls2[l] # None
               PROVE  /\ Theirs(l, l, ls2[l].entity, rs2)
                      /\ \A e \in Events : ds2[e][l] > 0 => Theirs(e, l, ls2[l].entity, rs2)
    BY DEF Attributed
  <1>1. \A e \in Events : Theirs(e, l, ls[l].entity, rs) => Theirs(e, l, ls[l].entity, rs2)
    BY DEF Theirs
  <1> QED
    BY <1>1 DEF Attributed

LEMMA DisposeAttributed ==
    ASSUME SteadyOwners, AttributedInv, NEW e \in Events, Dispose(e)
    PROVE  Attributed(lots', disposals', relocs')
  <1>1. PICK s \in OutflowSlices(e) :
          /\ lots' = LotsAfter(s)
          /\ disposals' = [disposals EXCEPT ![e] =
                             [l \in Events |-> IF l \in DOMAIN s THEN s[l] ELSE 0]]
    BY DEF Dispose
  <1>2. relocs' = relocs
    BY DEF Dispose
  <1>3. /\ lots \in [Events -> Lots \cup {None}] /\ disposals \in [Events -> [Events -> Nat]]
        /\ Traced(lots, relocs) /\ Attributed(lots, disposals, relocs)
    BY DEF AttributedInv, KeptInv, IInv, Sound, Typed
  <1>4. \A l \in Events : lots'[l] # None => lots[l] # None /\ lots'[l].entity = lots[l].entity
    BY <1>1, <1>3, LotsAfterFacts, LedgerAssumption DEF OutflowSlices
  <1>5. \A l \in DOMAIN s : l \in Events /\ lots[l] # None /\ lots[l].wallet = WalletOf[e]
    BY <1>1, OutflowTakes DEF AttributedInv, KeptInv
  <1>6. ASSUME NEW l \in DOMAIN s PROVE Theirs(e, l, lots[l].entity, relocs)
    <2>1. CASE lots[l].wallet = WalletOf[l] /\ lots[l].entity = OwnerAt[WalletOf[l]][l]
      BY <1>5, <2>1, SignalsAssumption DEF Theirs, OwnerOf, SteadyOwners
    <2>2. ASSUME NEW r \in relocs, r.lot = l, r.to = lots[l].wallet, WalletOf[r.tx] = r.to,
                 OwnerAt[r.to][r.tx] \in {lots[l].entity, None}
          PROVE  Theirs(e, l, lots[l].entity, relocs)
      <3>1. r.tx \in Events /\ WalletOf[e] \in Wallets
        BY SignalsAssumption DEF AttributedInv, KeptInv, IInv, Sound, Typed, Relocations
      <3>2. OwnerOf(e, e) = OwnerAt[r.to][r.tx]
        BY <1>5, <2>2, <3>1 DEF OwnerOf, SteadyOwners
      <3> QED
        BY <2>2, <3>2 DEF Theirs
    <2> QED
      BY <1>3, <1>5, <2>1, <2>2 DEF Traced
  <1>7. ASSUME NEW f \in Events, NEW l \in Events, disposals'[f][l] > 0
        PROVE  disposals[f][l] > 0 \/ Theirs(f, l, lots[l].entity, relocs)
    <2>1. CASE f = e
      <3>1. disposals'[f][l] = IF l \in DOMAIN s THEN s[l] ELSE 0
        BY <1>1, <1>3, <2>1
      <3>2. l \in DOMAIN s
        BY <1>7, <3>1
      <3> QED
        BY <1>6, <2>1, <3>2
    <2>2. CASE f # e
      <3>1. disposals'[f][l] = disposals[f][l]
        BY <1>1, <1>3, <2>2
      <3> QED
        BY <1>7, <3>1
    <2> QED
      BY <2>1, <2>2
  <1>8. \A l \in Events : lots'[l] # None =>
            /\ lots[l] # None /\ lots'[l].entity = lots[l].entity
            /\ \A f \in Events : disposals'[f][l] > 0 =>
                  disposals[f][l] > 0 \/ Theirs(f, l, lots'[l].entity, relocs')
    BY <1>2, <1>4, <1>7
  <1> QED
    BY <1>2, <1>3, <1>8, AttributedStays

\* The row of a move names the owner the lot takes.
LEMMA RelocateAttributed ==
    ASSUME AttributedInv, NEW e \in Events, Relocate(e)
    PROVE  Attributed(lots', disposals', relocs')
  <1> DEFINE mark(l) == [lot |-> l, tx |-> e, from |-> WalletOf[ct[e].src],
                         to |-> WalletOf[e], reason |-> RelocationReason(ct[e])]
  <1>1. PICK s \in RelocationSlices(e) :
          LET moved == {l \in DOMAIN s : s[l] > 0} IN
          /\ lots' = [l \in Events |-> IF l \in moved THEN Moved(e, l) ELSE lots[l]]
          /\ relocs' = relocs \cup {mark(l) : l \in moved}
    BY DEF Relocate
  <1> DEFINE moved == {l \in DOMAIN s : s[l] > 0}
  <1>2. disposals' = disposals /\ relocs \subseteq relocs'
    BY <1>1 DEF Relocate
  <1>3. lots \in [Events -> Lots \cup {None}] /\ Attributed(lots, disposals, relocs)
    BY DEF AttributedInv, KeptInv, IInv, Sound, Typed
  <1> SUFFICES ASSUME NEW l \in Events, lots'[l] # None
               PROVE  \/ \A f \in Events : Theirs(f, l, lots'[l].entity, relocs')
                      \/ lots[l] # None /\ lots'[l].entity = lots[l].entity
    BY <1>2, <1>3, AttributedStays
  <1>4. CASE l \in moved
    <2>1. lots[l] \in Lots /\ lots[l] # None
      BY <1>3, <1>4, MovesFit
    <2>2. lots'[l].entity = IF OwnerOf(e, e) # None THEN OwnerOf(e, e) ELSE lots[l].entity
      BY <1>1, <1>4, <2>1, MovedFacts
    <2>3. mark(l) \in relocs' /\ mark(l).lot = l /\ OwnerAt[mark(l).to][mark(l).tx] = OwnerOf(e, e)
      BY <1>1, <1>4 DEF OwnerOf
    <2> HIDE DEF mark
    <2> QED
      BY <2>1, <2>2, <2>3 DEF Theirs
  <1>5. CASE l \notin moved
    BY <1>1, <1>5
  <1> QED
    BY <1>4, <1>5

LEMMA NextAttributed ==
    ASSUME OnlyApplies, SteadyOwners, AttributedInv, [Next]_vars PROVE AttributedInv'
  <1>1. KeptInv'
    BY NextKeeps DEF AttributedInv
  <1>2. CASE UNCHANGED <<lots, disposals, relocs>>
    <2>1. Attributed(lots', disposals', relocs')
      BY <1>2 DEF AttributedInv
    <2>2. Attributed(saved'.lots, saved'.disposals, saved'.relocs)
      BY SavedSteps DEF AttributedInv, Snapshot
    <2> QED
      BY <1>1, <2>1, <2>2 DEF AttributedInv
  <1>3. ASSUME NEW e \in Events, Acquire(e) PROVE Attributed(lots', disposals', relocs')
    <2>1. /\ lots[e] = None /\ UNCHANGED <<disposals, relocs>>
          /\ lots'[e].entity = OwnerOf(e, e) /\ \A l \in Events : l # e => lots'[l] = lots[l]
      BY <1>3 DEF Acquire, Due, Settled, AttributedInv, KeptInv, IInv, Sound, Typed, OwnerOf
    <2>2. \A f \in Events : ~(disposals[f][e] > 0)
      BY <2>1 DEF AttributedInv, KeptInv, IInv, Sound, Typed, Anchored
    <2> QED
      BY <2>1, <2>2 DEF AttributedInv, Attributed, Theirs
  <1>4. ASSUME NEW e \in Events, GiftOut(e) PROVE Attributed(lots', disposals', relocs')
    <2>1. PICK s \in OutflowSlices(e) : lots' = LotsAfter(s)
      BY <1>4 DEF GiftOut
    <2>2. disposals' = disposals /\ relocs \subseteq relocs'
      BY <1>4 DEF GiftOut
    <2>3. \A l \in Events : lots'[l] # None => lots[l] # None /\ lots'[l].entity = lots[l].entity
      <3>1. lots \in [Events -> Lots \cup {None}] /\ Amount[e] \in Nat
        BY LedgerAssumption DEF AttributedInv, KeptInv, IInv, Sound, Typed
      <3> QED
        BY <2>1, <3>1, LotsAfterFacts DEF OutflowSlices
    <2> QED
      BY <2>2, <2>3, AttributedStays DEF AttributedInv
  <1>5. CASE \E e \in Events : Acquire(e) \/ Dispose(e) \/ GiftOut(e) \/ Relocate(e)
    <2>1. Attributed(lots', disposals', relocs')
      BY <1>3, <1>4, <1>5, DisposeAttributed, RelocateAttributed
    <2>2. saved' = saved
      BY <1>5 DEF Acquire, Dispose, GiftOut, Relocate, Done
    <2> QED
      BY <1>1, <2>1, <2>2 DEF AttributedInv
  <1>6. CASE Rollback
    BY <1>1, <1>6 DEF AttributedInv, Rollback
  <1>7. \A w \in Wallets : ~WipeWallet(w)
    BY DEF WipeWallet, AttributedInv, KeptInv
  <1> QED
    <2>1. Write \/ Commit \/ UNCHANGED vars => UNCHANGED <<lots, disposals, relocs>>
      BY DEF Write, Commit, vars, ledger
    <2>2. \A e \in Events :
             Skip(e) \/ LoanNoOp(e) \/ MissingBasis(e) \/ InsufficientLots(e)
             => UNCHANGED <<lots, disposals, relocs>>
      BY DEF Skip, LoanNoOp, MissingBasis, InsufficientLots, Record, ledger
    <2>3. \A kind \in JobKinds, ws \in (SUBSET Wallets) \ {{}} :
             Start(kind, ws) => UNCHANGED <<lots, disposals, relocs>>
      BY DEF Start, ledger
    <2>4. \A w \in Wallets : OpenWallet(w) => UNCHANGED <<lots, disposals, relocs>>
      BY DEF OpenWallet, ledger
    <2> QED
      BY <1>2, <1>5, <1>6, <1>7, <2>1, <2>2, <2>3, <2>4 DEF Next, Step, Raise, Crash

\* What a form fetched was theirs then, and the moves it rests on stay.
Supported ==
    /\ \A r \in form.rows : Theirs(r[1], r[2], form.entity, saved.relocs)
    /\ \A l \in form.income \cup form.acquired : Theirs(l, l, form.entity, saved.relocs)

LEMMA FormStaysSupported ==
    ASSUME OnlyApplies, AttributedInv, FormTyped, Supported, [FormsNext]_formVars
    PROVE  Supported'
  <1>1. saved.relocs \subseteq saved'.relocs
    BY AppliesOnly, NextKeeps DEF AttributedInv, Keeps
  <1>2. CASE /\ form'.entity = form.entity /\ form'.rows = form.rows
             /\ form'.income = form.income /\ form'.acquired = form.acquired
    BY <1>1, <1>2 DEF Supported, Theirs
  <1>3. CASE form'.rows = {} /\ form'.income = {} /\ form'.acquired = {}
    BY <1>3 DEF Supported
  <1>4. CASE FetchDisposals
    <2> DEFINE rows == DisposalRows(form.entity, form.year)
    <2>1. form' = [form EXCEPT !.rows = rows, !.stage = "income"] /\ saved' = saved
      BY <1>4 DEF FetchDisposals, Sets, vars
    <2>2. \A r \in rows : Theirs(r[1], r[2], form.entity, saved.relocs)
      BY DEF DisposalRows, AttributedInv, Attributed
    <2> HIDE DEF rows
    <2> QED
      BY <2>1, <2>2 DEF Supported, FormTyped, FormStates
  <1>5. \A l \in AcquiredLots(form.entity, form.year) : Theirs(l, l, form.entity, saved.relocs)
    BY DEF AcquiredLots, AttributedInv, Attributed
  <1>6. CASE FetchAcquisitions
    <2>1. /\ form'.entity = form.entity /\ form'.rows = form.rows
          /\ form'.income = form.income
          /\ form'.acquired = AcquiredLots(form.entity, form.year) /\ saved' = saved
      BY <1>6 DEF FetchAcquisitions, Sets, vars, FormTyped, FormStates
    <2> QED
      BY <1>5, <2>1 DEF Supported
  <1>7. CASE FetchIncome
    <2>1. /\ form'.entity = form.entity /\ form'.rows = form.rows
          /\ form'.acquired = form.acquired
          /\ form'.income = RewardLots(form.entity, form.year) /\ saved' = saved
      BY <1>7 DEF FetchIncome, Sets, vars, FormTyped, FormStates
    <2> QED
      BY <1>5, <2>1 DEF Supported, RewardLots
  <1>8. CASE CheckGate
    <2>1. form' = Blank \/ (/\ form'.entity = form.entity /\ form'.rows = form.rows
                            /\ form'.income = form.income /\ form'.acquired = form.acquired)
      BY <1>8 DEF CheckGate, Sets, FormTyped, FormStates
    <2> QED
      BY <1>2, <1>3, <2>1, BlankTyped DEF FormTyped
  <1>9. CASE EndJob
    BY <1>2, <1>3, <1>9, BlankTyped DEF EndJob, FormTyped
  <1>10. CASE CommitJob
    BY <1>2, <1>10 DEF CommitJob, Sets, FormTyped, FormStates
  <1>11. ASSUME NEW command \in Commands, NEW p \in Entities, NEW year \in Years,
                Recompute(command, p, year) \/ Request(command, p, year)
         PROVE  Supported'
    BY <1>3, <1>11 DEF Recompute, Request, Sets, Asked
  <1>12. CASE UNCHANGED form
    BY <1>2, <1>12
  <1> QED
    <2>1. \/ \E e \in Events, kind \in {"bridge", "transfer"} : AskUser(e, kind)
          \/ WriteSignal \/ (\E q \in asked : Dismiss(q)) \/ NewYear \/ RunJob
          \/ UNCHANGED formVars
          => UNCHANGED form
      BY DEF AskUser, WriteSignal, Dismiss, NewYear, RunJob, formVars
    <2> QED
      BY <1>4, <1>6, <1>7, <1>8, <1>9, <1>10, <1>11, <1>12, <2>1 DEF FormsNext

\* Where owners are steady and jobs only apply, every line of a form is of an entity that
\* owned the wallet when it happened or to whose wallet its lot has moved since.
THEOREM RowsStayTraceable ==
    ASSUME OnlyApplies, SteadyOwners PROVE FormsSpec => []RowsTraceable
  <1> DEFINE Inv == AttributedInv /\ FormTyped /\ Supported
  <1>1. FormsInit => Inv
    <2> SUFFICES ASSUME FormsInit PROVE Inv
      OBVIOUS
    <2>1. KeptInv /\ FormTyped
      BY InitInv, InitKept, BlankTyped DEF FormsInit, FormTyped
    <2>2. (\A l \in Events : lots[l] = None) /\ saved.lots = lots
      BY DEF FormsInit, Init, Snapshot
    <2>3. Supported
      BY BlankTyped DEF FormsInit, Supported
    <2> QED
      BY <2>1, <2>2, <2>3 DEF AttributedInv, Attributed
  <1>2. Inv /\ [FormsNext]_formVars => Inv'
    <2> SUFFICES ASSUME Inv, [FormsNext]_formVars PROVE Inv'
      OBVIOUS
    <2>1. AttributedInv'
      BY AppliesOnly, NextAttributed
    <2>2. FormTyped' /\ Supported'
      BY FormStaysTyped, FormStaysSupported DEF AttributedInv, KeptInv
    <2> QED
      BY <2>1, <2>2
  <1>3. Inv => RowsTraceable
    BY DEF Supported, Theirs, RowsTraceable
  <1> QED
    BY <1>1, <1>2, <1>3, PTL DEF FormsSpec

-----------------------------------------------------------------------------
(* What a final form leaves out                                              *)

SavedDisposed(e) == \E l \in Events : saved.disposals[e][l] > 0

\* What the gate holds a form for.
Questioned(e) == e \in saved.review \/ \E x \in saved.excs : x.event = e

\* What the recompute saw is committed as rows or as something the gate holds the form for;
\* past the gate an unheld form has rows for it.
DueInv ==
    /\ form.stage = "recompute" =>
          job.kind = "apply" /\ job.scope = EntityWallets(form.entity)
    /\ \A e \in form.due :
          /\ e \in Arrived /\ WalletOf[e] \in EntityWallets(form.entity)
          /\ YearOf[e] = form.year
          /\ SavedDisposed(e) \/ Questioned(e)
    /\ form.stage \in {"acquisitions", "disposals"} /\ ~form.held =>
          \A e \in form.due : SavedDisposed(e)

CompleteInv == KeptInv /\ NothingDropped /\ FormTyped /\ DueInv

\* Events stay, and so do rows, flags and exceptions.
LEMMA CommittedStays ==
    ASSUME OnlyApplies, KeptInv, [FormsNext]_formVars
    PROVE  /\ Arrived \subseteq Arrived'
           /\ \A e \in Events : /\ SavedDisposed(e) => SavedDisposed(e)'
                                /\ Questioned(e) => Questioned(e)'
  <1>1. [Next]_vars /\ Keeps(saved, saved')
    BY AppliesOnly, NextKeeps
  <1>2. Arrived \subseteq Arrived'
    <2>1. CASE Write
      BY <2>1, SignalKeepsCTs DEF Write, KeptInv, IInv, SignalsTyped
    <2>2. CASE UNCHANGED ct
      BY <2>2 DEF Arrived
    <2>3. \A e \in Events : Step(e) => UNCHANGED ct
      BY DEF Step, Skip, LoanNoOp, Acquire, Dispose, GiftOut, Relocate, MissingBasis,
             InsufficientLots, Record, Done, Raise, Rollback
    <2>4. \A w \in Wallets : OpenWallet(w) \/ WipeWallet(w) => UNCHANGED ct
      BY DEF OpenWallet, WipeWallet
    <2>5. \A kind \in JobKinds, ws \in (SUBSET Wallets) \ {{}} : Start(kind, ws) => UNCHANGED ct
      BY DEF Start
    <2>6. Commit \/ Crash \/ UNCHANGED vars => UNCHANGED ct
      BY DEF Commit, Crash, Rollback, vars
    <2> QED
      BY <1>1, <2>1, <2>2, <2>3, <2>4, <2>5, <2>6 DEF Next
  <1>3. \A e \in Events : SavedDisposed(e) => SavedDisposed(e)'
    BY <1>1 DEF Keeps, SavedDisposed
  <1>4. \A e \in Events : Questioned(e) => Questioned(e)'
    BY <1>1 DEF Keeps, Questioned
  <1> QED
    BY <1>2, <1>3, <1>4

\* What is due stays so while the form keeps its entity and year.
LEMMA DueStays ==
    ASSUME OnlyApplies, CompleteInv, [FormsNext]_formVars,
           form'.entity = form.entity, form'.year = form.year, form'.due = form.due
    PROVE  /\ \A e \in form'.due :
                  /\ e \in Arrived' /\ WalletOf[e] \in EntityWallets(form'.entity)
                  /\ YearOf[e] = form'.year
                  /\ SavedDisposed(e)' \/ Questioned(e)'
           /\ \A e \in form.due : SavedDisposed(e) => SavedDisposed(e)'
  <1>1. form.due \subseteq Events
    BY DEF CompleteInv, FormTyped, FormStates
  <1> QED
    BY <1>1, CommittedStays DEF CompleteInv, DueInv

\* An unheld gate saw no flag and no exception on the entity's events up to the year.
LEMMA GateSees ==
    ASSUME CompleteInv, ~GateHeld(form.entity, form.year), NEW e \in form.due
    PROVE  SavedDisposed(e)
  <1>1. /\ e \in Arrived /\ WalletOf[e] \in EntityWallets(form.entity)
        /\ YearOf[e] = form.year /\ form.year \in Nat
        /\ SavedDisposed(e) \/ Questioned(e)
    BY YearsAssumption DEF CompleteInv, DueInv, FormTyped, FormStates
  <1> DEFINE b == [event |-> e, year |-> YearOf[e]]
  <1> SUFFICES ASSUME Questioned(e) PROVE FALSE
    BY <1>1
  <1>2. b \in Blockers(EntityWallets(form.entity)) /\ b.year <= form.year
    BY <1>1 DEF Blockers, Questioned
  <1> HIDE DEF b
  <1> QED
    BY <1>2 DEF GateHeld

\* The commit of the recompute leaves each disposal it saw explained.
LEMMA CommitDue ==
    ASSUME OnlyApplies, CompleteInv, CommitJob, form.stage = "recompute" PROVE DueInv'
  <1> DEFINE due == {e \in Arrived : /\ WalletOf[e] \in job.scope /\ PoolOf[e] # None
                                     /\ Treatment(ct[e]) = "dispose"
                                     /\ YearOf[e] = form.year}
  <1>1. /\ form' = [form EXCEPT !.due = due, !.stage = "gate"]
        /\ job.kind = "apply" /\ job.scope = EntityWallets(form.entity)
        /\ job.queue = {} /\ job.todo = {} /\ saved' = Snapshot /\ ct' = ct
    BY DEF CommitJob, Commit, Sets, CompleteInv, DueInv
  <1>2. /\ form'.stage = "gate" /\ form'.due = due
        /\ form'.entity = form.entity /\ form'.year = form.year
    BY <1>1 DEF CompleteInv, FormTyped, FormStates
  <1>3. ASSUME NEW e \in due PROVE SavedDisposed(e)' \/ Questioned(e)'
    <2>1. Settled(e) \/ e \in review \/ \E x \in excs : x.event = e
      BY <1>1 DEF CompleteInv, NothingDropped
    <2>2. Settled(e) => Disposed(e)
      BY DEF Settled
    <2> QED
      BY <1>1, <2>1, <2>2 DEF Disposed, SavedDisposed, Questioned, Snapshot
  <1>4. \A e \in due : /\ e \in Arrived' /\ WalletOf[e] \in EntityWallets(form.entity)
                       /\ YearOf[e] = form.year
    BY <1>1 DEF Arrived
  <1> HIDE DEF due
  <1> QED
    BY <1>2, <1>3, <1>4 DEF DueInv, EntityWallets

LEMMA DueInvariant ==
    ASSUME OnlyApplies, CompleteInv, [FormsNext]_formVars PROVE DueInv'
  <1>1. CASE form'.due = {} /\ form'.stage # "recompute"
    BY <1>1 DEF DueInv
  <1>2. ASSUME form'.entity = form.entity, form'.year = form.year, form'.due = form.due,
               form'.stage = "recompute" =>
                  job'.kind = "apply" /\ job'.scope = EntityWallets(form.entity),
               form'.stage \in {"acquisitions", "disposals"} /\ ~form'.held =>
                  \A e \in form.due : SavedDisposed(e)
        PROVE  DueInv'
    BY <1>2, DueStays DEF DueInv, EntityWallets
  <1>3. ASSUME NEW command \in Commands, NEW p \in Entities, NEW year \in Years,
               Recompute(command, p, year)
        PROVE  DueInv'
    BY <1>3 DEF Recompute, Start, Sets, Asked, DueInv, EntityWallets
  <1>4. ASSUME NEW command \in Commands, NEW p \in Entities, NEW year \in Years,
               Request(command, p, year)
        PROVE  DueInv'
    BY <1>1, <1>4 DEF Request, Sets, Asked
  <1>5. CASE CheckGate
    <2> DEFINE held == GateHeld(form.entity, form.year)
    <2>1. CASE form' = Blank
      BY <1>1, <2>1, BlankTyped DEF CompleteInv, FormTyped
    <2>2. CASE form' # Blank
      <3>1. PICK stage \in {"acquisitions", "disposals"} :
                form' = [form EXCEPT !.held = held, !.stage = stage]
        BY <1>5, <2>2 DEF CheckGate, Sets
      <3>2. ~held => \A e \in form.due : SavedDisposed(e)
        BY GateSees
      <3> HIDE DEF held
      <3>3. /\ form'.entity = form.entity /\ form'.year = form.year /\ form'.due = form.due
            /\ form'.stage = stage /\ form'.held = held
        BY <3>1 DEF CompleteInv, FormTyped, FormStates
      <3> QED
        BY <1>2, <3>2, <3>3
    <2> QED
      BY <2>1, <2>2
  <1>6. CASE FetchAcquisitions
    <2>1. /\ form.stage = "acquisitions" /\ form'.stage = "disposals"
          /\ form'.entity = form.entity /\ form'.year = form.year /\ form'.due = form.due
          /\ form'.held = form.held
      BY <1>6 DEF FetchAcquisitions, Sets, CompleteInv, FormTyped, FormStates
    <2> QED
      BY <1>2, <2>1 DEF CompleteInv, DueInv
  <1>7. CASE FetchDisposals
    <2>1. /\ form'.stage = "income"
          /\ form'.entity = form.entity /\ form'.year = form.year /\ form'.due = form.due
      BY <1>7 DEF FetchDisposals, Sets, CompleteInv, FormTyped, FormStates
    <2> QED
      BY <1>2, <2>1
  <1>8. CASE FetchIncome
    BY <1>1, <1>8 DEF FetchIncome, Sets, CompleteInv, FormTyped, FormStates
  <1>9. CASE CommitJob
    <2>1. CASE form.stage = "recompute"
      BY <1>9, <2>1, CommitDue
    <2>2. CASE form.stage # "recompute"
      BY <1>2, <1>9, <2>2 DEF CommitJob, CompleteInv, DueInv
    <2> QED
      BY <2>1, <2>2
  <1>10. CASE EndJob
    <2>1. CASE form.stage = "recompute"
      BY <1>1, <1>10, <2>1, BlankTyped DEF EndJob, CompleteInv, FormTyped
    <2>2. CASE form.stage # "recompute"
      BY <1>2, <1>10, <2>2 DEF EndJob, CompleteInv, DueInv
    <2> QED
      BY <2>1, <2>2
  <1>11. CASE RunJob
    <2>1. form' = form
      BY <1>11 DEF RunJob
    <2>2. form.stage = "recompute" => job'.kind = job.kind /\ job'.scope = job.scope
      <3>1. form.stage = "recompute" =>
               \A kind \in JobKinds, ws \in (SUBSET Wallets) \ {{}} : ~Start(kind, ws)
        BY DEF CompleteInv, DueInv, Start, Resting
      <3>2. \A w \in Wallets : OpenWallet(w) \/ WipeWallet(w) =>
               job'.kind = job.kind /\ job'.scope = job.scope
        BY DEF OpenWallet, WipeWallet, Dequeue, CompleteInv, KeptInv, IInv, Jobs
      <3>3. \A e \in Events : Step(e) /\ ~Raise(e) =>
               job'.kind = job.kind /\ job'.scope = job.scope
        <4>1. \A e \in Events : Done(e) => job'.kind = job.kind /\ job'.scope = job.scope
          BY DEF Done, CompleteInv, KeptInv, IInv, Jobs
        <4>2. \A e \in Events : Step(e) /\ ~Raise(e) => Done(e)
          BY DEF Step, Skip, LoanNoOp, Acquire, Dispose, GiftOut, Relocate, MissingBasis,
                 InsufficientLots, Record
        <4> QED
          BY <4>1, <4>2
      <3> QED
        BY <1>11, <3>1, <3>2, <3>3 DEF RunJob
    <2> QED
      BY <1>2, <2>1, <2>2 DEF CompleteInv, DueInv
  <1>12. CASE UNCHANGED <<form, job>>
    BY <1>2, <1>12 DEF CompleteInv, DueInv
  <1> QED
    <2>1. \/ \E e \in Events, kind \in {"bridge", "transfer"} : AskUser(e, kind)
          \/ WriteSignal \/ (\E q \in asked : Dismiss(q)) \/ NewYear \/ UNCHANGED formVars
          => UNCHANGED <<form, job>>
      BY DEF AskUser, WriteSignal, Write, Dismiss, NewYear, formVars, vars
    <2> QED
      BY <1>3, <1>4, <1>5, <1>6, <1>7, <1>8, <1>9, <1>10, <1>11, <1>12, <2>1 DEF FormsNext

\* The rows an unheld form fetches.
CompleteStep ==
    form.stage = "disposals" /\ form'.stage = "income"
      /\ form.command.recompute /\ ~form.held =>
        \A e \in form.due :
            \E l \in Events :
                /\ saved.disposals[e][l] > 0
                /\ <<e, l>> \in form'.rows \/ saved.lots[l].entity # form.entity

LEMMA FetchIsComplete ==
    ASSUME CompleteInv, FetchDisposals PROVE CompleteStep
  <1> SUFFICES ASSUME form.stage = "disposals", ~form.held, NEW e \in form.due
               PROVE  \E l \in Events :
                        /\ saved.disposals[e][l] > 0
                        /\ <<e, l>> \in form'.rows \/ saved.lots[l].entity # form.entity
    BY DEF CompleteStep
  <1>1. e \in Events /\ YearOf[e] = form.year /\ SavedDisposed(e)
    BY DEF CompleteInv, DueInv, FormTyped, FormStates
  <1>2. PICK l \in Events : saved.disposals[e][l] > 0
    BY <1>1 DEF SavedDisposed
  <1>3. saved.lots[l] # None
    BY <1>1, <1>2 DEF CompleteInv, KeptInv, IInv, Sound, Anchored
  <1>4. form'.rows = DisposalRows(form.entity, form.year)
    BY DEF FetchDisposals, Sets, CompleteInv, FormTyped, FormStates
  <1>5. saved.lots[l].entity = form.entity => <<e, l>> \in form'.rows
    BY <1>1, <1>2, <1>3, <1>4 DEF DisposalRows
  <1> QED
    BY <1>2, <1>5

\* Where no wallet is rebuilt, a final form made after a recompute lists every disposal the
\* recompute saw, or its lot is on another entity's: nothing failed in silence, and nothing
\* other workers committed meanwhile took a row away.
THEOREM FormsMissNothing ==
    ASSUME OnlyApplies, IsFiniteSet(Events), AmountsPositive
    PROVE  FormsSpec => FinalFormsAreComplete
  <1>1. FormsInit => CompleteInv
    <2> SUFFICES ASSUME FormsInit PROVE CompleteInv
      OBVIOUS
    <2>1. KeptInv /\ FormTyped /\ form.due = {} /\ form.stage = "none"
      BY InitKept, BlankTyped DEF FormsInit, FormTyped
    <2>2. NothingDropped
      BY DEF FormsInit, Init, Idle, NothingDropped
    <2> QED
      BY <2>1, <2>2 DEF CompleteInv, DueInv
  <1>2. CompleteInv /\ [FormsNext]_formVars => CompleteInv'
    <2> SUFFICES ASSUME CompleteInv, [FormsNext]_formVars PROVE CompleteInv'
      OBVIOUS
    <2>1. KeptInv' /\ NothingDropped'
      BY AppliesOnly, NextKeeps, NextDropsNothing DEF CompleteInv, KeptInv
    <2>2. FormTyped'
      BY FormStaysTyped DEF CompleteInv, KeptInv
    <2> QED
      BY <2>1, <2>2, DueInvariant DEF CompleteInv
  <1>3. CompleteInv /\ [FormsNext]_formVars => [CompleteStep]_formVars
    <2> SUFFICES ASSUME CompleteInv, FormsNext PROVE CompleteStep
      OBVIOUS
    <2>1. CASE form.stage = "disposals" /\ form'.stage = "income"
      <3>1. FetchDisposals
        BY <2>1, BlankTyped
        DEF FormsNext, AskUser, WriteSignal, Dismiss, NewYear, Recompute, Request, Free,
            CheckGate, FetchAcquisitions, FetchIncome, RunJob, CommitJob, EndJob
      <3> QED
        BY <3>1, FetchIsComplete
    <2> QED
      BY <2>1 DEF CompleteStep
  <1>4. FormsSpec => [][CompleteStep]_formVars
    BY <1>1, <1>2, <1>3, PTL DEF FormsSpec
  <1> QED
    BY <1>4 DEF FinalFormsAreComplete, CompleteStep
=============================================================================

------------------------------ MODULE LotEngine ------------------------------
(***************************************************************************)
(* domain/lots/engine.py: the tax-lot ledger.                              *)
(*                                                                         *)
(* The engine folds classified transactions (CTs) into four tables:        *)
(* tax_lots, lot_disposals, lot_relocations, lot_processing_exceptions.    *)
(* One job is one database transaction of a Celery task: it visits wallets *)
(* in no fixed order and applies each wallet's CTs in canonical order,     *)
(* either on top of what is there ("apply": process_wallet_lots, the user  *)
(* pipeline, recompute_lots) or after wiping the wallet ("rebuild":        *)
(* rebuild_wallet, called by the bridge pass).  A job that raises, or whose*)
(* worker dies, is rolled back as a whole.                                 *)
(*                                                                         *)
(* Jobs are serial here.  A job loads a wallet's CT rows once, so a signal  *)
(* committed while it runs has the effect of one committed after it or      *)
(* between two jobs over fewer wallets: writers wait for an idle engine.   *)
(*                                                                         *)
(* A lot is named by the event that acquired it                            *)
(* (uq_tax_lots_source_classified_tx).  Two acquisitions never share a     *)
(* timestamp, so FIFO order on lots is the order of these names.           *)
(*                                                                         *)
(* A definition named Mut... is a slip of the one it stands beside that a  *)
(* property has to notice; nothing here uses it.                           *)
(***************************************************************************)
EXTENDS Signals, Selection

CONSTANTS
    TxOf,           \* tx_hash of each CT
    Amount,         \* token amount
    ValueOf,        \* value_usd_at_event, or None
    PoolOf,         \* canonical_pool_key of its token, or None
    HifoEntities,   \* entities with default_basis_method = specific_id
    JobKinds        \* the jobs that run: a subset of {"apply", "rebuild"}

Reasons  == {"missing-basis", "insufficient-lots"}
AcqTypes == {"reward", "mint", "buy", "cap-contribution", "gift"}

Lots == [wallet : Wallets, entity : Entities, remaining : Nat, cost : Nat,
         acq : AcqTypes]
Relocations == [lot : Events, tx : Events, from : Wallets, to : Wallets,
                reason : {"bridge", "internal", "cap-contribution", "gift",
                          "reassignment"}]

ASSUME LedgerAssumption ==
    /\ Amount \in [Events -> Nat]
    /\ ValueOf \in [Events -> Nat \cup {None}]
    /\ None \notin Lots
ASSUME JobKindsAssumption == JobKinds \subseteq {"apply", "rebuild"}

VARIABLES
    lots,       \* tax_lots: acquiring event |-> row, or None
    disposals,  \* lot_disposals: disposals[tx][lot] = quantity_consumed, 0 = no row
    relocs,     \* lot_relocations
    excs,       \* unresolved lot_processing_exceptions, duplicates merged
    review,     \* CTs with needs_review
    job,        \* the running transaction: the wallets it covers, those it has not
                \* come to yet, the current one's events it has not come to yet
    saved       \* the committed ledger a rollback returns to

ledger == <<lots, disposals, relocs, excs, review>>
vars   == <<ct, ledger, job, saved>>

Snapshot == [lots |-> lots, disposals |-> disposals, relocs |-> relocs,
             excs |-> excs, review |-> review]

Idle == [kind |-> "idle", scope |-> {}, queue |-> {}, todo |-> {}]
Jobs == [kind : {"idle", "apply", "rebuild"}, scope : SUBSET Wallets,
         queue : SUBSET Wallets, todo : SUBSET Events]

Held == {l \in Events : lots[l] # None}

-----------------------------------------------------------------------------
(* Treatment of an event                                                   *)

\* transfer_resolution wins; a relocate-* leg moves lots only on the inflow side,
\* the side that carries relocation_source_event_id.
TreatmentFromResolution(c) ==
    CASE c.res \in RelocateResolutions /\ c.src # None -> "relocate"
      [] c.res \in RelocateResolutions /\ c.src = None -> "none"
      [] c.res \in {"disposal", "disposal-related-party"} -> "dispose"
      [] c.res = "gift-out" -> "gift-out"
      [] OTHER -> "no-op-loan"

Treatment(c) ==
    IF c.res # None THEN TreatmentFromResolution(c)
    ELSE CASE c.class \in {"reward", "mint", "transfer-in", "l2-nft-in"} -> "acquire"
           [] c.class \in {"transfer-out", "burn", "scdt-out"} -> "dispose"
           [] c.class \in {"stake", "bridge-out"} -> "none"
           [] c.class = "bridge-in" -> "relocate"
           [] OTHER -> "pending"

AcquisitionType(c) ==
    CASE c.class = "reward" -> "reward"
      [] c.class \in {"mint", "l2-nft-in"} -> "mint"
      [] OTHER -> "buy"

RelocationReason(c) ==
    CASE c.res = "relocate-internal" -> "internal"
      [] c.res = "relocate-contribution" -> "cap-contribution"
      [] c.res = "relocate-gift" -> "gift"
      [] c.res = "relocate-reassignment" -> "reassignment"
      [] OTHER -> "bridge"

\* Only contributions and gifts rewrite acquisition_type of what they move.
AcqTypeAfterMove(c, acq) ==
    CASE c.res = "relocate-contribution" -> "cap-contribution"
      [] c.res = "relocate-gift" -> "gift"
      [] OTHER -> acq

\* value_usd_at_event; the l2-nft-in leg borrows the value of its scdt-out leg.
Basis(e) ==
    IF ValueOf[e] # None \/ ct[e].class # "l2-nft-in" THEN ValueOf[e]
    ELSE LET legs == {s \in Arrived : /\ WalletOf[s] = WalletOf[e]
                                      /\ TxOf[s] = TxOf[e]
                                      /\ ct[s].class = "scdt-out"}
         IN IF legs = {} THEN None ELSE ValueOf[CHOOSE s \in legs : TRUE]

-----------------------------------------------------------------------------
(* Selecting lots                                                          *)

OpenLots(w, p) == {l \in Held : /\ lots[l].wallet = w
                                /\ PoolOf[l] = p
                                /\ lots[l].remaining > 0}

\* methods.py: highest unit cost first, ties by acquisition order; or oldest first.
HifoBefore(m, l) ==
    LET unit(k) == <<lots[k].cost, Amount[k]>>
    IN Dearer(unit(m), unit(l)) \/ (~Dearer(unit(l), unit(m)) /\ m < l)

Before(method, m, l) == IF method = "hifo" THEN HifoBefore(m, l) ELSE m < l

\* Slip: nothing bounds a slice by what is left of its lot.
MutConsumptions(method, open, q) ==
    {s \in [open -> 0..q] :
        /\ Total(s) = q
        /\ \A l, m \in open :
              Before(method, m, l) /\ s[l] > 0 => s[m] >= lots[m].remaining}

\* What consume() returns out of the open lots.
Consumptions(method, open, q) ==
    Coverings({x \in open \X open : x[1] # x[2] /\ Before(method, x[1], x[2])},
              [l \in open |-> lots[l].remaining], q)

DisposalMethod(e) ==
    IF OwnerAt[WalletOf[e]][e] \in HifoEntities THEN "hifo" ELSE "fifo"

\* The ways to take Amount[e] out of the event's own wallet.
OutflowSlices(e) ==
    Consumptions(DisposalMethod(e), OpenLots(WalletOf[e], PoolOf[e]), Amount[e])

\* The ways to take it out of the linked outflow's wallet; apply_relocation
\* moves nothing for an event without a token.
RelocationSlices(e) ==
    IF PoolOf[e] = None THEN [{} -> {0}]
    ELSE Consumptions("fifo", OpenLots(WalletOf[ct[e].src], PoolOf[e]), Amount[e])

-----------------------------------------------------------------------------
(* Jobs                                                                     *)

Resting == job.kind = "idle"

\* The writers of the signal columns commit between jobs.
Write == Resting /\ Signal /\ UNCHANGED <<ledger, job, saved>>

Start(kind, ws) ==
    /\ Resting
    /\ job' = [kind |-> kind, scope |-> ws, queue |-> ws, todo |-> {}]
    /\ saved' = Snapshot
    /\ UNCHANGED <<ct, ledger>>

Dequeue(w) ==
    job' = [job EXCEPT !.queue = @ \ {w}, !.todo = {e \in Arrived : WalletOf[e] = w}]

\* The next wallet's events, on top of what is there.
OpenWallet(w) ==
    /\ job.kind = "apply" /\ job.todo = {} /\ w \in job.queue
    /\ Dequeue(w)
    /\ UNCHANGED <<ct, ledger, saved>>

\* Slips of a wipe: only open lots go; the disposals stay; relocations go by the
\* wallet they left; the lots stay.
MutGone(w) == {l \in Held : lots[l].wallet = w /\ lots[l].remaining > 0}
MutDisposalsWithout(w) == disposals
MutRelocsWithout(w) == {r \in relocs : r.from # w}
MutLotsWithout(w) == lots

\* The lots in the wallet now, moved ones included.
Gone(w) == {l \in Held : lots[l].wallet = w}

DisposalsWithout(w) ==
    [e \in Events |-> [l \in Events |-> IF l \in Gone(w) THEN 0 ELSE disposals[e][l]]]

RelocsWithout(w) == {r \in relocs : r.lot \notin Gone(w)}

LotsWithout(w) == [l \in Events |-> IF l \in Gone(w) THEN None ELSE lots[l]]

\* rebuild_wallet's four deletes: rows go with the lots that are in the wallet now,
\* exceptions with the events of the wallet.
WipeWallet(w) ==
    /\ job.kind = "rebuild" /\ job.todo = {} /\ w \in job.queue
    /\ disposals' = DisposalsWithout(w)
    /\ relocs' = RelocsWithout(w)
    /\ excs' = {x \in excs : WalletOf[x.event] # w}
    /\ lots' = LotsWithout(w)
    /\ Dequeue(w)
    /\ UNCHANGED <<ct, review, saved>>

\* apply_event visits the wallet's events in canonical order.
Turn(e) == job.kind # "idle" /\ e \in job.todo /\ \A f \in job.todo : e <= f
Done(e) == job' = [job EXCEPT !.todo = @ \ {e}] /\ UNCHANGED <<ct, saved>>

Disposed(e)  == \E l \in Events : disposals[e][l] > 0
Relocated(e) == \E r \in relocs : r.tx = e

\* The idempotency checks at the head of each handler.
Settled(e) ==
    LET t == Treatment(ct[e]) IN
    \/ t \in {"none", "pending"}
    \/ t = "acquire" /\ lots[e] # None
    \/ t = "dispose" /\ Disposed(e)
    \/ t \in {"relocate", "gift-out"} /\ Relocated(e)

Skip(e) ==
    /\ Turn(e) /\ Settled(e)
    /\ Done(e)
    /\ UNCHANGED ledger

Due(e, treatment) == Turn(e) /\ ~Settled(e) /\ Treatment(ct[e]) = treatment

LoanNoOp(e) ==
    /\ Due(e, "no-op-loan")
    /\ review' = review \cup {e}
    /\ Done(e)
    /\ UNCHANGED <<lots, disposals, relocs, excs>>

\* Slip: the exception row is never added.
MutRecord(e, reason) == Done(e) /\ UNCHANGED ledger

Record(e, reason) ==
    /\ excs' = excs \cup {[event |-> e, reason |-> reason]}
    /\ Done(e)
    /\ UNCHANGED <<lots, disposals, relocs, review>>

\* A lot needs a basis, an owner and a token.
Acquirable(e) ==
    Basis(e) # None /\ OwnerAt[WalletOf[e]][e] # None /\ PoolOf[e] # None

Acquire(e) ==
    /\ Due(e, "acquire") /\ Acquirable(e)
    /\ lots' = [lots EXCEPT ![e] =
                  [wallet |-> WalletOf[e], entity |-> OwnerAt[WalletOf[e]][e],
                   remaining |-> Amount[e], cost |-> Basis(e),
                   acq |-> AcquisitionType(ct[e])]]
    /\ Done(e)
    /\ UNCHANGED <<disposals, relocs, excs, review>>

\* Slip: no decrement.
MutLotsAfter(s) == lots

\* The decrement every outflow shares.
LotsAfter(s) ==
    [l \in Events |-> IF l \in DOMAIN s
                      THEN [lots[l] EXCEPT !.remaining = @ - s[l]] ELSE lots[l]]

Dispose(e) ==
    /\ Due(e, "dispose") /\ PoolOf[e] # None
    /\ \E s \in OutflowSlices(e) :
          /\ lots' = LotsAfter(s)
          /\ disposals' = [disposals EXCEPT ![e] =
                             [l \in Events |-> IF l \in DOMAIN s THEN s[l] ELSE 0]]
    /\ Done(e)
    /\ UNCHANGED <<relocs, excs, review>>

\* A third-party gift consumes lots without a disposal; a relocation row from the
\* wallet to itself marks each lot it took from.
GiftOut(e) ==
    /\ Due(e, "gift-out") /\ PoolOf[e] # None
    /\ \E s \in OutflowSlices(e) :
          /\ lots' = LotsAfter(s)
          /\ relocs' = relocs \cup
                {[lot |-> l, tx |-> e, from |-> WalletOf[e], to |-> WalletOf[e],
                  reason |-> "gift"] : l \in {m \in DOMAIN s : s[m] > 0}}
    /\ review' = review \cup {e}
    /\ Done(e)
    /\ UNCHANGED <<disposals, excs>>

\* Slip: the moved lot keeps its old owner.
MutMovedAlone(e, l) == [lots[l] EXCEPT !.wallet = WalletOf[e]]

\* A lot that moves keeps its quantity_remaining and takes the owner, if there is
\* one, of the wallet it enters.
Moved(e, l) ==
    LET owner == OwnerAt[WalletOf[e]][e] IN
    [lots[l] EXCEPT !.wallet = WalletOf[e],
                    !.entity = IF owner # None THEN owner ELSE @,
                    !.acq = AcqTypeAfterMove(ct[e], @)]

\* apply_relocation: each lot the slices touch moves whole.
Relocate(e) ==
    /\ Due(e, "relocate") /\ ct[e].src # None
    /\ \E s \in RelocationSlices(e) :
          LET moved == {l \in DOMAIN s : s[l] > 0} IN
          /\ lots' = [l \in Events |-> IF l \in moved THEN Moved(e, l) ELSE lots[l]]
          /\ relocs' = relocs \cup
                {[lot |-> l, tx |-> e, from |-> WalletOf[ct[e].src], to |-> WalletOf[e],
                  reason |-> RelocationReason(ct[e])] : l \in moved}
    /\ review' = IF ct[e].res = "relocate-gift" THEN review \cup {e} ELSE review
    /\ Done(e)
    /\ UNCHANGED <<disposals, excs>>

MissingBasis(e) ==
    /\ \/ Due(e, "acquire") /\ ~Acquirable(e)
       \/ (Due(e, "dispose") \/ Due(e, "gift-out")) /\ PoolOf[e] = None
       \/ Due(e, "relocate") /\ ct[e].src = None
    /\ Record(e, "missing-basis")

InsufficientLots(e) ==
    /\ Due(e, "dispose") \/ Due(e, "gift-out")
    /\ PoolOf[e] # None /\ OutflowSlices(e) = {}
    /\ Record(e, "insufficient-lots")

Commit ==
    /\ job.kind # "idle" /\ job.queue = {} /\ job.todo = {}
    /\ job' = Idle /\ saved' = Snapshot
    /\ UNCHANGED <<ct, ledger>>

Rollback ==
    /\ lots' = saved.lots /\ disposals' = saved.disposals /\ relocs' = saved.relocs
    /\ excs' = saved.excs /\ review' = saved.review
    /\ job' = Idle
    /\ UNCHANGED <<ct, saved>>

\* No handler catches the InsufficientLotsError of apply_relocation: it ends the
\* task, and worker_session rolls the whole job back.
Raise(e) ==
    /\ Due(e, "relocate") /\ ct[e].src # None /\ RelocationSlices(e) = {}
    /\ Rollback

\* The worker dies or meets its time limit (task_acks_late redelivers the task).
Crash == job.kind # "idle" /\ Rollback

-----------------------------------------------------------------------------
Init ==
    /\ SignalInit
    /\ lots = [e \in Events |-> None]
    /\ disposals = [e \in Events |-> [l \in Events |-> 0]]
    /\ relocs = {} /\ excs = {} /\ review = {}
    /\ job = Idle
    /\ saved = Snapshot

Step(e) ==
    \/ Skip(e) \/ LoanNoOp(e) \/ Acquire(e) \/ Dispose(e) \/ GiftOut(e)
    \/ Relocate(e) \/ MissingBasis(e) \/ InsufficientLots(e) \/ Raise(e)

Next ==
    \/ Write
    \/ \E kind \in JobKinds, ws \in (SUBSET Wallets) \ {{}} : Start(kind, ws)
    \/ \E w \in Wallets : OpenWallet(w) \/ WipeWallet(w)
    \/ \E e \in Events : Step(e)
    \/ Commit
    \/ Crash

Spec == Init /\ [][Next]_vars

-----------------------------------------------------------------------------
(* Properties                                                               *)

Ledgers ==
    [lots : [Events -> Lots \cup {None}], disposals : [Events -> [Events -> Nat]],
     relocs : SUBSET Relocations, excs : SUBSET [event : Events, reason : Reasons],
     review : SUBSET Events]

\* Every table holds rows of its type, in the running transaction and as committed.
TypeOK ==
    /\ ct \in [Events -> CTs \cup {None}]
    /\ Snapshot \in Ledgers
    /\ job \in Jobs
    /\ saved \in Ledgers

GiftRow(r) == r.from = r.to /\ r.reason = "gift"

\* No unit is sold or given away twice, and none vanishes: what is left of a lot and
\* what its disposal rows took never exceed what was acquired, and they add up to it
\* unless a gift took a part (quantity_remaining and lot_disposals are decremented
\* and inserted by different statements, wiped by others, over many jobs).
UnitsAccounted ==
    \A l \in Held :
        LET sold == MapThenSumSet(LAMBDA e : disposals[e][l], Events) IN
        /\ lots[l].remaining + sold <= Amount[l]
        /\ \/ lots[l].remaining + sold = Amount[l]
           \/ \E r \in relocs : r.lot = l /\ GiftRow(r)

\* lot_disposals and lot_relocations never point at a lot that is gone: the wipe of
\* one wallet finds every row of every lot it deletes, moved ones included.
RowsAnchored ==
    /\ \A e, l \in Events : disposals[e][l] > 0 => l \in Held
    /\ \A r \in relocs : r.lot \in Held

\* A lot sits in the wallet that acquired it or in one a relocation row took it to:
\* the audit trail of a move survives as long as the lot does.
MovedLotsHaveTrail ==
    \A l \in Held : \/ lots[l].wallet = WalletOf[l]
                    \/ \E r \in relocs : r.lot = l /\ r.to = lots[l].wallet

\* A lot belongs to the entity that owned its wallet when it entered it, so the form
\* generators may select lots by entity_id (engine.py:656).
EntityFollowsWallet ==
    \A l \in Held :
        \E e \in {l} \cup {r.tx : r \in {x \in relocs : x.lot = l}} :
            /\ WalletOf[e] = lots[l].wallet
            /\ OwnerAt[lots[l].wallet][e] \in {lots[l].entity, None}

\* Both kinds of gift are flagged for Form 709 review whenever their rows are there,
\* and a rollback takes flag and rows together.
GiftsAreReviewed == \A r \in relocs : r.reason = "gift" => r.tx \in review

\* An "apply" job leaves no event it has visited unexplained: it has its rows, or an
\* unresolved exception, or (a loan) a review flag.  An event without a token whose
\* lots should move is the exception: apply_relocation returns silently.
NothingDropped ==
    \A e \in Arrived :
        /\ job.kind = "apply" /\ WalletOf[e] \in job.scope \ job.queue /\ e \notin job.todo
        /\ PoolOf[e] # None
        => Settled(e) \/ e \in review \/ \E x \in excs : x.event = e

\* Inside a job a lot that stays only ever loses units (no handler gives any back),
\* and it changes wallet only together with a new row of the trail.
LotsOnlyShrink ==
    [][job'.kind # "idle" =>
        \A l \in Held :
            lots'[l] # None =>
                /\ lots'[l].remaining <= lots[l].remaining
                /\ lots'[l].wallet # lots[l].wallet =>
                      \E r \in relocs' \ relocs :
                          /\ r.lot = l
                          /\ r.from = lots[l].wallet /\ r.to = lots'[l].wallet]_vars

\* A disposal is recorded in full or not at all, whatever rebuilds came between.
DisposalsAreWhole ==
    \A e \in Events : Disposed(e) =>
        MapThenSumSet(LAMBDA l : disposals[e][l], Events) = Amount[e]

\* A disposal takes lots acquired before it, never later ones.
DisposalsLookBack ==
    \A e, l \in Events : disposals[e][l] > 0 => l < e
=============================================================================

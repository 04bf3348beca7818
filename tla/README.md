# Lemon Ledger: TLA+ models and proofs

Lemon Ledger (`src/apps/api`) reads a user's wallets from two chains, classifies what
happened in them, and turns the classified transactions into tax lots, disposals and
forms. The numbers end on a tax return, years of history are replayed again and again as
answers come in, and four writers touch the same rows. This directory models the part of
it where that can go wrong: how a wallet's blocks get into the database and are classified,
where prices come from, who writes which signal on a classified transaction, what the lot
ledger becomes under every order of those writes, of jobs, rebuilds, rollbacks and crashes,
and what a tax form made from it while all this goes on holds.

Paths below are relative to `src/apps/api/src/lemon_ledger/` unless they start with `src/`.

## 1. The system

| Component | State | Operations | Hard behaviour |
|---|---|---|---|
| Ingestion (`ingestion/`, `tasks/sync.py:24-118`) | `raw_*` tables, `wallets.last_synced_block`, the Redis lock `lock:sync:<wallet>` | `sync_wallet` (chunk loop, rows committed before cursor), `_ingest_chunk` (halves a window), per-wallet lock with TTL | crash between two commits, lock expiring under its holder, re-fetch of the cursor block |
| Chain clients (`clients/`) | Redis token bucket | paged reads, rate limit, retry | clock of several hosts, window overflow |
| Classifier (`classify/`) | `classified_transactions` (CTs), `wallets.last_classified_block` | `classify_wallet_task` (chunks, delete and replace per transaction), recognizers, decoders | replacing a row others point at, order of events in one transaction |
| Pricing (`pricing/`) | Redis price cache (fresh / last-known-good / negative / lock), `historical_prices` | `get_current_price`, `get_historical_price`, backfill | single flight, staleness, a stale price used as fair market value |
| Bridge (`domain/bridge/`) | `bridge_correlations`, custody addresses | pairing, scoring, confirm / reject / unmatched, age-out, custody learning, rebuild of what it touched | greedy pairing over growing data, user answer against re-detection |
| Transfer detection (`domain/cross_entity/detection.py`) | `pending_classifications` | `detect_for_user` | rows loaded once, used while others commit |
| Resolve service (`domain/cross_entity/resolve.py`) | `pending_classifications`, the CT stamps, audit | `resolve_classification`, `reclassify`, `dismiss` | two legs stamped together, an answer changed later |
| Lot engine (`domain/lots/`) | `tax_lots`, `lot_disposals`, `lot_relocations`, `lot_processing_exceptions`, `needs_review` | `apply_event` and its seven handlers, `rebuild_wallet`, `consume`, `build_lines` | idempotent replay, lots moving between wallets, rollback, order of wallets |
| User pipeline (`tasks/sync.py:121-194`) | none of its own | detection, then every wallet's events, in one transaction | any failing event undoes all of it |
| Forms and gate (`domain/forms/`, view `v_lot_gate`) | none (reads) | `check_gate`, `recompute_lots`, Form 8949, Schedules 1 and D, reconciliation | gate and recompute are separate calls |
| Jobs, CLI, API, config | token supply | supply snapshot, `wallet add`, health | thin |
| Models, migrations | the schema | constraints | foreign keys restrict what may be deleted |

How they interact: everything meets in `classified_transactions`. The classifier inserts a
row; the bridge overwrites `classification` and `relocation_source_event_id`; detection
and the resolve service write `transfer_resolution` and the same
`relocation_source_event_id`; the lot engine reads those three columns and nothing else
("the engine materialises lots from CT signals only", ADR-0003) and writes the lot tables.
There are no locks between the writers; each runs in a transaction of its own, and every
job may be redelivered (`task_acks_late`, `worker.py:32-38`).

What makes each component correct:

- ingestion: no block is skipped, whatever dies when; nobody writes without the lock.
- classifier: each transaction's rows are replaced as a whole; a pinned one is not touched.
- pricing: no stale price becomes fair market value; one fetch at a time.
- bridge: nothing is bridged that is not confirmed; a user's answer is never undone by the
  machine; every leg is asked about in the end.
- detection and resolve: the stamp is the recorded choice; both legs of a relocation or
  neither; rows are never reopened.
- lot engine: units are conserved; rows point at lots that exist; a lot's wallet, owner and
  relocation trail agree; every event is accounted for; replaying gives the same ledger.
- gate and forms: a final form has every disposal the ledger ought to have; its rows belong to
  the entity it is for; the forms made from one ledger agree with each other.

## 2. Modules

```
  module        extends                  checked by        proved in
  ------------  -----------------------  ----------------  ------------------
  Signals       -                        (its writers)     SignalsProofs
  Selection     -                        (LotEngine,       SelectionProofs
                                          Consume)
  LotEngine     Signals, Selection       MCLotEngine       LedgerProofs
  LotReplay     LotEngine                MCLotReplay       -
  Forms         LotEngine                MCForms           LedgerProofs
  Decoding      -                        MCClassified      ClassifiedProofs
  CrossEntity   Signals                  MCClassified      ClassifiedProofs
  Bridge        Signals                  MCBridge          BridgeProofs
  Consume       Selection                MCConsume         ConsumeProofs
  Form8949      Consume                  MCConsume         ConsumeProofs
  Crawl         -                        (WalletSync,      (both)
                                          PriceHistory)
  WalletSync    -                        MCWalletSync      WalletSyncProofs
  PriceCache    -                        MCPricing         PricingProofs
  PriceHistory  -                        MCPricing         PricingProofs
```

**Signals** is the contract between the writers and the engine. Its one variable `ct` maps
an event to its signal columns. `Arrives` is the classifier's commit, `Confirms` and
`Rejects` are `set_classification_signal`, `Resolves` is detection's internal stamp and
`_stamp_legs`. `ResolutionsFor` says what an outflow may be stamped with given who owned
the two wallets. LotEngine runs under *any* behaviour of Signals; a module of a writer shows
that what the writer does is such a behaviour (CrossEntity and Bridge do, both proved).

**LotEngine** is `domain/lots/engine.py`. State and code:

| Variable | Code |
|---|---|
| `lots` | `tax_lots`, by acquiring event (`uq_tax_lots_source_classified_tx`) |
| `disposals` | `lot_disposals` as `disposals[tx][lot]`, 0 where there is no row |
| `relocs`, `excs`, `review` | `lot_relocations`, unresolved exceptions, `needs_review` |
| `job` | the running Celery task: kind, wallets it covers, wallets left, events left of the current one |
| `saved` | what the database holds while the job's transaction is open |

| Action | Code |
|---|---|
| `Start`, `OpenWallet`, `Commit` | `process_wallet_lots`, `_run_pipeline`, `recompute_lots`, the bridge pass's rebuild loop |
| `WipeWallet` | `rebuild_wallet`'s four deletes (831-840) |
| `Skip` | the idempotency check at the head of each handler, and the no-op treatments |
| `Acquire`, `Dispose`, `GiftOut`, `Relocate`, `LoanNoOp` | `_apply_acquire`, `_apply_dispose`, `_apply_gift_out`, `_apply_bridge_relocation` and `_apply_cross_entity_relocation` with `apply_relocation`, the loan branch of `apply_event` |
| `MissingBasis`, `InsufficientLots` | `_record_exception` in those handlers |
| `Raise` | the `InsufficientLotsError` nobody catches in `apply_relocation` (654) |
| `Crash` | the worker dies; `worker_session` rolls back |
| `Write` | a signal is committed between two jobs |

**Selection** says what taking a quantity out of a pool comes to (which lots, how much of
each); LotEngine takes it in one step. **Consume** runs the loop of `consume()`, the orders
of `methods.py` and `build_lines()` one iteration at a time, and is checked to do what
Selection says; it also carries the money, which LotEngine leaves out.

**LotReplay** watches LotEngine and remembers the last full rebuild, to compare replays.

**Decoding** is how a transaction's rows become events: the recognizers, the decoders with the
configuration they learn, the common layer, and `replace_classified` with what may forbid it; one
task per wallet, all of them over one `l2_decoder_config`.

| Variable | Code |
|---|---|
| `config` | `l2_decoder_config`: staking contract, its status, NFT contract, distribution complete |
| `booked`, `held` | `classified_transactions` by wallet and transaction; those a user has pinned (`manual_override`) or lots point at |
| `done` | `wallets.last_classified_block`, as the transactions behind it |
| `job` | a task's place in `_classify_chunk` and its open bundle: the events so far, the decoders left |
| `view`, `news`, `drafts` | its SQLAlchemy session: configurations loaded, columns of them changed, transactions replaced; the last two uncommitted |
| `vouched` | the staking contracts somebody has confirmed (history) |
| `upsets` | failures, resets, transactions held, distributions complete (bound) |

| Action | Code |
|---|---|
| `Begin`, `NothingToClassify`, `Commit` | `_run_classify`; the commit at a chunk's end |
| `Open` | `classify_bundle` up to the decoders: the two recognizers (`Wraps`, `Credits`), `decoders_for_bundle` |
| `Decode` | `L2Decoder.decode`: its four detectors (`Rewards`, `Stakes`, `Unstakes`, `Mints`) one after the other, with their proposals |
| `DecodeMintOnly` | `LqstDecoder.decode` with `_resolve_lqst_fee` |
| `Replace`, `RefuseReplace` | the common layer and `replace_classified`; the foreign keys refuse it |
| `Fails` | a crash or error: the session's work is lost |
| `ClassifyFrom` | `ledger classify --from-block` |
| `Vouch`, `Hold` | somebody confirms a contract (no code in `src` does yet; decoders test for it), pins a transaction (likewise), lots are opened over it |
| `CompleteDistribution` | `check_completion` of the nightly supply snapshot |

**CrossEntity** is detection and the resolve service. `StartScan` loads a pass, the four
`Detect...` actions are the branches of its loop, `Resolve`, `Reclassify` and `Dismiss` the
three calls; `AddWallet` and `Classify` bring wallets and CTs in while a pass runs.

**Bridge** is the writer of the cross-chain signals: the pass of `domain/bridge/tasks.py`
over one user's legs, the user's answers and the nightly age-out.

| Variable | Code |
|---|---|
| `corr` | `bridge_correlations`, by legs: a pair, or a singleton with None for the other leg; status and `resolved_by` |
| `audited` | the singletons a `bridge_audit_log` row points at (it restricts their deletion) |
| `review` | CTs whose `needs_review` the bridge has set |
| `pass` | the running pass: `legs` it read, hypotheses `left`, legs `used`, rows `made` and singletons `gone` (not yet committed), pairs `scored` |

| Action | Code |
|---|---|
| `OpenPass` | `find_candidate_legs`, `_build_hypotheses` |
| `PassOver`, `FindPair`, `MakePair`, `RefuseMerge` | one hypothesis in `pair_and_persist`: a leg is user-resolved, the pair exists, it is made (created, upgraded or merged), the merge fails |
| `Publish`, `Score`, `ClosePass` | the singletons for what is left, the scoring loop with `set_classification_signal`, the commit |
| `AbortPass` | any other error, the worker's death |
| `ResolvePair`, `ResolveUnmatched`, `Surface` | the functions of `workflow.py`; `Surface` is one row of the age-out |

**WalletSync** is one wallet's way from the chain to classified transactions:
`sync_wallet_task`, `classify_wallet_task` and the lock they share, run by Celery workers and
by the CLI in its own process (`sync --local`, `classify`).

| Variable | Code |
|---|---|
| `head`, `forked` | the chain: its height, the blocks a reorganisation replaced |
| `raw`, `cts` | the `raw_*` tables; what of it `replace_classified` has written |
| `cursor`, `classed` | `wallets.last_synced_block`, `wallets.last_classified_block` |
| `lock` | Redis `lock:sync:<wallet>`, with the process for its token |
| `run` | each process's task: its local variables and where it stands |
| `upsets` | how many faults and user commands there have been (bound) |

| Action | Code |
|---|---|
| `Take`, `Release` | `wallet_sync_lock` |
| `OpenSync`, `CommitRows`, `CommitCursor` | `_run_sync` with `sync_wallet`: head and cursor, the two commits of a chunk |
| `Fetch`, `Halve` | `_ingest_chunk`: a range that fits, a range that does not |
| `OpenClassify`, `ReadRows`, `CommitChunk` | `_run_classify`, `_classify_chunk` |
| `ResetClassified` | `classify --from-block`, before it calls the task |
| `Fail`, `Crash`, `Expire` | an exception or soft time limit; a killed process; the lock's TTL |
| `Mine`, `Reorganise` | the chain (external) |

**Crawl** is what `ingestion`, the classifier and the price backfill each promise: blocks are
dealt with in any order and stay dealt with, and the cursor a crash resumes from, whoever sets
it and however far back, never has a missing block behind it. WalletSync implements it twice
(`SyncIsACrawl` over `raw_*` and `last_synced_block`, `ClassifyingIsACrawl` over the CTs and
`last_classified_block`), PriceHistory once (`BackfillIsACrawl` over `historical_prices` and the
Redis cursor); the `INSTANCE ... WITH` that says what `frontier` and `kept` are stands next to each.

**PriceCache** is `PricingService._resolve` with the Redis cache, for today's price of one token
and any number of processes that ask.

| Variable | Code |
|---|---|
| `symbol` | the token's class: `LUSD` (pegged), `LEMX` (oracle and two web sources), any other (oracle) |
| `now`, `up` | time as far as prices tell it; which quotes can be had (external) |
| `fresh`, `lkg`, `negative`, `lock` | `price:fresh:`, `price:lkg:`, `price:neg:`, `price:lock:` of the token |
| `calls` | each caller's stage in `_resolve`, the sources it has left, what it got, or was told last |
| `overruns`, `deaths` | locks that ran out under a caller; dead callers and Redis errors (bounds) |

| Action | Code |
|---|---|
| `Ask` | `get_current_price` (spot), `get_historical_price` for today (fmv) |
| `ReadFresh`, `ReadNegative`, `Acquire`, `ReadLkg` | the tiers, one Redis command each |
| `TrySource` | one turn of the loop over `_sources_for`, with `_safe` |
| `SetFresh`, `SetLkg`, `SetNegative`, `Release` | `PriceCache.set` (two commands), `set_negative`, the `finally` clause |
| `WriteFails`, `Die` | a Redis error (the `finally` clause runs), a dead process (it does not) |
| `FreshExpires`, `LkgExpires`, `NegativeExpires`, `LockRunsOut`, `MarketMoves` | TTLs; the market (external) |

**PriceHistory** is `historical_prices` with its writers.

| Variable | Code |
|---|---|
| `head` | the chain's head (external) |
| `hist` | `historical_prices`: per token and day the event its price is from, `Manual`, or no row |
| `cursor` | Redis `backfill:cursor:lemonchain` |
| `crawl` | each backfill's `lo`, `chunk`, `head` and whether it has `--resume` |

| Action | Code |
|---|---|
| `Start`, `Fetch`, `Store`, `Save` | `backfill`: cursor and head; `get_logs` and the halving; `_upsert_events` with its commit; the cursor and the doubling |
| `Nightly`, `FetchDay` | `nightly_oracle_sync` for one token, `fetch_day` |
| `Override` | a row with `source='manual'` (no code in `src` writes one yet; `repository.py` defends it) |
| `Crash`, `Mine` | the process dies or meets an error; the chain |

**Forms** puts the gate and the form commands on top of LotEngine: the engine's jobs, the writers'
signals, the questions put to users and the commands interleave, and each fetch of a command
sees what is committed by then.

| Variable | Code |
|---|---|
| `today` | the calendar year the programs run in |
| `asked` | open questions: `bridge_correlations` to confirm, `pending_classifications`, with the year they were detected in |
| `form` | the command under way, the gate's answer and what each fetch brought |

| Action | Code |
|---|---|
| `AskUser`, `WriteSignal`, `Dismiss` | detection or the bridge pass stores a question; an answer writes a signal; an answer that nothing happened |
| `Recompute`, `Request` | `generate-8949 --recompute` (an "apply" job over the entity's wallets), any command without it |
| `CheckGate` | `check_gate` over `v_lot_gate`, and what each command does with a held one |
| `FetchAcquisitions`, `FetchDisposals`, `FetchIncome` | the queries of `read_model.py` and `activity_report.py`, in the commands' order |
| `RunJob`, `CommitJob`, `EndJob` | LotEngine's jobs; a recompute's commit or exception lets the command go on or ends it |

**Form8949** has no actions: over the lines of Consume's last disposal it builds the rows
(`_apply_dispose`'s holding period and section 267 adjustment), Form 8949's boxes, Schedule D
and the activity report's totals, on several days of disposal and for both kinds of buyer.

**SignalsProofs** and **SelectionProofs**, which the others build on, **LedgerProofs** (LotEngine and
Forms), **ConsumeProofs** (Consume and Form8949), **BridgeProofs**, **WalletSyncProofs**,
**ClassifiedProofs** (Decoding and CrossEntity) and **PricingProofs** (PriceCache and PriceHistory)
hold the theorems.

A definition `MutX` next to `X` is a slip a programmer could make there; nothing uses it.
With `X` replaced by it, the property named in `PROJECT.json` is violated.

### What is abstracted

- Event ids are the canonical order. Amounts are small naturals in LotEngine. The two
  Decimal roundings are kept in Consume and left out of LotEngine, which has no proceeds.
- Addresses, hashes, notes, tokens and pools are model values; `InflowsOf` says which CTs a
  lookup by transaction and contract can find. A lookup with `LIMIT 1` and no order is any
  of its rows.
- Ownership of a wallet at a moment is a table `OwnerAt`. The three lookups of the code
  (`engine.py:327-343`, `workflow.py:48-66`, `detection.py:63-94`) differ on the day of a
  handover; that day is not modelled.
- LotEngine's jobs are serial and signals are committed between jobs. `process_wallet_lots`
  by two workers at once is in the plan (LotRace).
- The detection pass's writes show as they happen; the head of CrossEntity says why that
  loses nothing. The calls of the resolve service are serial. `replace_classified` deletes
  rows with their signals unless lots point at them; Signals and CrossEntity know no deletion,
  so what a stamp that is lost this way leaves behind is not modelled.
- Decoding takes a bundle's rows in no order (the code's queries give none), and leaves out
  amounts, `event_seq` and of values all but whether the day's price can be had. One task per
  wallet runs at a time (the lock; WalletSync has what happens without it), from the
  committed cursor, and it may commit after any transaction, which is every way chunks can
  fall. A session keeps what it has read over its commits (`expire_on_commit=False`), and its
  commit writes the columns it has changed. Tokens are seeded and none is added.
- Bridge runs one pass at a time. A pass sees what others commit while it pairs, nobody sees
  its rows before it commits, and its commit (`Publish` to `ClosePass`) lets nobody in between:
  the steps there are one per pair only to keep them small. An answer to a singleton the
  running pass is replacing comes before the pass or after it, although in PostgreSQL it
  would wait and then write over the row. `resolve_pair` is called for pairs only. A CT's
  custody is a constant: learning adds "inferred" addresses, which never score HIGH and so go
  to the user like "unknown" ones. Amounts and minutes are naturals, basis points are rounded
  as the code rounds them. The CTs carry no `bridge_correlation_id`, which nothing reads.
- WalletSync has one row per block, which stands for everything the three endpoints list for
  it. The rows are keyed, so storing or classifying one twice is doing it once. The explorer is
  taken at its word: a settled block is listed in full. A single block never exceeds
  its result window of 10,000 rows (`WindowAssumption`; otherwise `_ingest_chunk` raises every
  night and the wallet stops there). Users give `--from-block` a block the classifier has
  reached (`GoesBack`); a later one skips blocks without a word.
- A task that finds the lock taken returns at once and leaves nothing behind: a stuttering
  step. Celery kills a worker's task after 600 s and the lock lives for 1800 s, so it cannot
  expire under a worker; the CLI's own process has no limit, so under it the lock can.
- `classify_wallet_task` raises `RuntimeError` in production today because no PricingService is
  wired (`classify/tasks.py:79-86`). The model is of the loop as the tests drive it, with one.
- A price is the time it was read at, in PriceCache, or the event it was read from, in
  PriceHistory; the numbers decide nothing. PriceCache's TTLs may run out at any time, since
  nothing bounds how long a source takes. Each token's keys are independent, so there is one.
  "Stale" for the oracle's spot price is the feed not being in `up`; its daily average is
  returned however old it is (`clients/oracle.py:141-147`), hence `MarketsAssumption`.
- The explorer's `get_logs` refuses a range with more than `Limit` events, as the backfill's
  contract says (`ValueError`); the client in `src` never does. `FetchDay` and `Override` have no
  caller in `src` either: they are the functions as they stand.
- Forms has jobs one at a time, as LotEngine has, and one command at a time. A question is for a
  user's whole set of wallets; the amounts and dates printed are in Form8949.
- `audit` rows, notes and tax-year columns are left out, and so are the holding period and
  section 267 in LotEngine (Form8949 has them).

## 3. What the runs check

| Run | Bounds | Shows |
|---|---|---|
| `lot_engine` | 5 events, 2 wallets, 2 entities, one correlation; any jobs over any set of wallets, crash anywhere (542k states) | the ledger's invariants under every interleaving of signals and jobs |
| `replay_local` | 7 events, 2 wallets that only acquire and dispose, rebuilds only (105k) | disposals are whole and look back; a full rebuild is deterministic |
| `classified` | making: 2 wallets with 2 transactions of up to 6 rows, 2 tokens, one of them mint-only, 2 upsets; resolving: 6 CTs, 3 wallets, 2 entities and none; passes, answers and new wallets in any order (290k) | every row is booked in one event, income without review is from a confirmed contract, held rows stand; stamps agree with their rows; CrossEntity implements Signals |
| `consume` | 3 lots of unequal unit cost, 8 orders, 3 methods, 3 days of disposal, both kinds of buyer (18k) | the loop does what Selection says; the forms agree; losses to related parties are disallowed line by line; rounding of basis is bounded per line |
| `wallet_sync` | 3 blocks, 1 confirmation, 2 workers, 1 console, chunks of 2 and 1, two ranges too large to fetch, at most 3 faults and user commands (322k) | the sync and the classification are crawls, nothing unsettled is stored, the lock is held by who works, and the nightly sync catches up |
| `bridge` | 3 legs, 2 chains, a relocating and a disposing entity, one inflow two outflows compete for; passes, answers, aborts and age-outs in any order (25k) | no leg bridged without a confirmation, answers stand, no leg forgotten, aged legs surface; Bridge implements Signals |
| `pricing` | today: 2 callers, 1 token, feeds that stop and come back, 1 lock overrun, 1 death; the past: 2 crawls over 4 blocks, chunks of 1 to 3, a range too dense to fetch, a token nobody knows, 1 crash or override (293k) | a bounded stampede, no stale price made fresh, no step back, recovery; the user's prices stand, the backfill is a crawl and ends |
| `forms` | 4 events over 2 years, 2 wallets of 2 entities, 4 commands (1.4M) | a held gate stops a final form, a final form with `--recompute` is complete, rows can be traced to their entity |
| `replay_moves` | as `lot_engine`, rebuilds only | replay is not idempotent once a lot has moved |
| `confirm_undone` | as `bridge`, custody unknown | a pass undoes the signals of a pair confirmed while it ran |
| `fmv_stale` | as `pricing` | a stale price is served as fair market value |
| `forms_sellers` | as `forms` | a form lists what another entity sold |

The last four end in a violation of something the code's own comments or tests say; section 5.

The bounds are small but each hazard needs few actors: a moved lot needs two wallets and one
pair of legs; a partial consumption needs lots of 2 and disposals of 3, 4 and 1; the fee case
needs the inflow smaller than the outflow; the event at which nobody owns the wallet, the
missing basis, the pool that cannot cover an outflow, HIFO against FIFO and the swap pair
(`scdt-out`, `l2-nft-in`) are all in. Nothing of these is bounded by a counter: their state
spaces are finite as they stand. The exceptions table merges duplicate rows.

Bridge has no counter either. Two outflows that compete for one inflow, the second arriving
after the first was paired and better than it, give every kind of row: pairs created, upgraded,
merged, displaced and found again, and singletons; one hypothesis scores HIGH and one does not;
one outflow's entity takes bridges for dispositions.

WalletSync has two counters, `MaxHead` and `MaxUpsets`. Three blocks, one of them never
settled, make a sync of two chunks and a later one that re-fetches its cursor block; a
crash, an expiry and a console together are what it takes for two processes to write the wallet
at once, and a full resync on top is within three upsets.

MCClassified has Decoding and CrossEntity, which share no variable: a behaviour makes
transactions or resolves them, and the state space is the sum of the two. In the first half the
pool is a staking contract and the dex is not, both send the token, and whichever row comes
first is proposed; both wallets' tasks may propose from sessions that began before the
other's commit, be confirmed, and overwrite it. One bundle's NFT can be claimed as a stake or an
unstake, another has rows for the recognizer, both decoders and the common layer. Two
upsets are a reset and a held transaction, which is what a refused replacement takes.

MCPricing runs the two price modules side by side: `get_historical_price` answers today from one and
the past from the other, and they share no variable, so a behaviour exercises one of them and the
state space is their sum, not their product. Two callers are enough for one to overrun its lock and
delete the other's key, two crawls to set each other's cursor back. In the history the range 2..3 is
refused and both blocks alone are not, so a crawl halves once and doubles again. MCForms is the
smallest story with a partly sold lot whose rest crosses an entity boundary the next year, and a
disposal that finds too little. The commands are one of each kind; the bounds are `Years` and the
absence of rebuilds.

There are four liveness properties. `AgedLegsSurface` (Bridge) needs a pass to end (weak: it
is a loop over a list) and the age-out to reach every open singleton: it runs every
night, and any singleton grows a week old and its wallet's sync passes it. That is strong
fairness because a commit holds it up, and passes may come without end. Nothing is assumed of
users, nor that a pass is ever started: no beat entry starts one.

`SyncCatchesUp` (WalletSync) has its own `Fairness`: weak for the chain's growth
(the property is about a chain that comes to rest at `MaxHead`), for each step of a worker's
task (it ends or is killed within 600 s), and for the expiry of a key in Redis; strong for a
worker starting the nightly sync (`sync_all_active_wallets`, 04:00 every day), because the lock
is now taken and now free: a night on which it is taken is skipped, but not every night is.
Nothing is assumed of users, consoles, faults and classification; the first three are bounded
by `MaxUpsets`, and no beat entry starts a classification, so the code promises nothing of when
it happens.

`PriceRecovers` (PriceCache) assumes that callers under way go on, that somebody keeps asking
for a current price, and that the TTLs of the lock and of the negative entry pass; all weak, and
the last two Redis's own. Its premise is that the oracle's feed is back for good.
`CrawlsEnd` (PriceHistory) assumes only that a running backfill goes on: the loop is a plain
`while`; nobody has to start one, and the head it runs to is read once.

The other specifications are `Init /\ [][Next]`. `CHECK_DEADLOCK` is on everywhere.

## 4. What is proved

tlapm checks these for every set of wallets, entities, events and amounts. They assume only
what the modules' `ASSUME`s say of the constants: the tables have the right domains, an
event id is a natural, an inflow found by transaction is in another wallet, a pool of Consume has
finitely many lots, `None` is not a value. What a theorem needs beyond that is its own hypothesis, named in its `ASSUME`:
`IsFiniteSet(Events)` where there is a sum (a database holds finitely many rows), and these,
on which the argument below says why the property fails without them:

| Hypothesis | Says | Needed for |
|---|---|---|
| `OnlyLocalRebuilds` | jobs are rebuilds, nothing links two wallets | `RebuildsLookBack` |
| `NothingMoves` | nothing links two wallets | `DisposalsStayWhole` |
| `AmountsPositive` | no event has amount zero | `JobsDropNothing`, `FormsMissNothing` |
| `OnlyApplies` | no job is a rebuild | `RowsStayTraceable`, `FormsMissNothing` |
| `SteadyOwners` | no wallet changes owner | `RowsStayTraceable` |

The instances TLC checks these properties on meet them.

- *Signals*: the columns stay typed under every writer (`SignalsAreTyped`).
- *LotEngine*: `TypeCorrect`, `RowsStayAnchored`, `MovesAreTraced`, `EntitiesFollowWallets`,
  `GiftsStayFlagged`, `LotsNeverGrow`, `UnitsAddUp`, `JobsDropNothing`; for wallets no correlation or
  inflow links `DisposalsStayWhole`, and `RebuildsLookBack` if they are rebuilt.
- *Consume*: `QueueExists`, `LoopTakesTheSelection`, `DriftStaysBounded`, from `PoolSound`; for any finite pool,
  costs, quantities, methods and number of disposals.
- *Form8949*: `FormsComeToTheSame`, `RelatedLossesDisallowed`, for any sale, day and buyer.
- *Forms*: `FormsTypeCorrect`, `RowsStayTraceable` and `FormsMissNothing`, for any commands,
  entities and years, whatever jobs, writers and users do between a command's steps.
- *CrossEntity*: `TypeCorrect`, `StampsFollowRows`, `NoHalfRelocations`,
  `RowsOnlyGoForward`, and `ImplementsSignals`, the refinement.
- *Bridge*: `TypeCorrect`, `MovesStandConfirmed`, `AnswersStand`, `NoLegIsForgotten`, and
  `ImplementsSignals`, the refinement; for any legs, amounts and custody.
- *Decoding*: `RowsAreBookedOnce`, `IncomeStaysConfirmed`, `HeldStand`, from `DecodingSound`; for
  any wallets, tokens, transactions and seeds.
- *WalletSync*: `TypeCorrect`, `SyncLeavesNoGap`, `StoredRowsAreFinal`,
  `ClassifierLeavesNoGap`, `LockIsExclusive`, for any number of workers and consoles, any
  chunk sizes, confirmations, faults and crowded ranges; and both refinements of Crawl,
  `SyncRefinesCrawl` and `ClassifierRefinesCrawl`.
- *PriceCache*: `TypeCorrect`, `FreshOnlyRead`, `OverrunsBoundTheHerd`, `CacheGoesForward`, for any
  number of callers.
- *PriceHistory*: `HistoryTyped`, `NothingSkipped`, `UserPricesStand`, and `BackfillRefinesCrawl`,
  for any log, crawlers and chunk sizes.

`GiftsStayFlagged`, `LotsNeverGrow`, `SyncLeavesNoGap`, `ClassifierLeavesNoGap`, `HistoryTyped`,
`NothingSkipped` and the type invariants of CrossEntity, Bridge, WalletSync, PriceCache and
Decoding are proved and in no run: the runs check a stronger property (the refinement of Crawl) or
have checked these while the proofs were found. `TypeOK` of LotEngine and of Forms are in runs.

The argument for LotEngine: none of its invariants is inductive alone, for a rollback
restores a ledger the invariant said nothing of. `IInv` therefore says the same five things
(`Sound`: typed, anchored, covered, traced, flagged) of the running ledger and of the saved
one. `Covered` is the part of `UnitsAccounted` that needs no sum: one disposal and what is
left fit in what was acquired, and a lot that lost units has a row that says to whom.
`Traced` joins a lot's wallet and owner, because a move changes both and
`EntityFollowsWallet` needs the same event to explain both. One lemma per handler, `NextInv`
puts them together.

`RebuildsLookBack` is proved under the assumption `OnlyLocalRebuilds`, on the constants, which
the instance of `replay_local` meets. The engine has no date filter on open lots: what keeps a
disposal from a later lot is that a rebuild wipes the wallet and goes through its events in
order, so every lot of the wallet is from before all events still to come (`LookBackInv`).
A move brings in lots of another wallet's past and future, and an incremental job
comes to a wallet that has lots already; with either the property is false.

`UnitsAddUp` needs a sum. The library's sum is a fold, its fold a recursive function, and that such
a function exists is induction over the sets it is defined on. The library's induction theorems
take an operator and cannot be used; SelectionProofs uses that the strict subsets of a finite set
are well-founded, a fact about a relation. A smallest subset that has no such function can be
given one from its subsets' (`AddsExists`); two of them agree (`AddsOnce`); any element may then be
taken out of a sum (`SumWithout`), and one changed term changes the sum by as much (`SumChanged`).
What is summed is always a function and what is shown is membership in a set (`SubsetInduction`),
so that no lemma has an operator for a parameter. `BalanceInv` says of the running and of the saved
ledger that what a lot has left and its column of disposals fit what was acquired, with
equality unless a gift's row is there. A disposal moves as much from the one to the other because
its row was empty before (`Settled`), a move leaves both, a wipe takes the lot with its column.

`JobsDropNothing`: an "apply" job only adds rows (`HandlersGrow`), so what explains an event stays
(`GrownExplains`), and each handler leaves what explains its own (`HandlersExplain`). With an
amount of zero that last is false: `consume` covers it with no slice at all, no row is written, and
nothing tells the event from one that was never visited (nor does anything depend on it).

`DisposalsStayWhole` holds of "apply" jobs and rebuilds in any order: `HomeInv` says that lots
are in the wallet that acquired them and a disposal's lots are in its own wallet, so a wipe takes
all of its row or nothing. Once lots move it is false: rebuilding the wallet a lot has moved to deletes the
lot (the first point of section 5) and with it one part of an earlier disposal elsewhere.

The argument for Consume: `PoolInv` says of the call under way (`Sliced`, `Follows`) that its
slices are the front of a queue that has every open lot once, that all but the last have exhausted
their lots, and that they make up the quantity with what is outstanding. When the loop ends, what
the slices take is therefore a covering of Selection. It is the only one (`OneCovering`): of two that
come to the same, each takes more of some lot than the other, and whichever of these two lots
comes later is used by one covering that has not exhausted the earlier; and of two lots one always
comes first (`OneComesFirst`), because ties of unit cost go by acquisition. With the order's
transitivity (`InOrder`, for unit costs compared by cross-multiplication) a lot's place is the
number of lots up to it, so there is a queue to take from. When the queue runs out
everything open is taken, and no covering can be more than that (`SumIsAtMost`). The drift is an
invariant by itself: half-even misses by half a step (`HalfEvenClose`), and a line adds its miss
to its lot's (`DriftAdds`); that a call has at most one slice of a lot is what makes it one line.

The argument for Form8949: the shares rounded down cannot exceed the proceeds, as each is at
most in proportion to its quantity (`SumInProportion`, `SharesAddUp`), so the last line's rest is no
negative amount. A row knows its line, so the sums over sets of rows are sums over line numbers
(`SumNamed`, `RowSums`); every line is in one of two boxes (`BoxesSplit`), and the forms and
the report are the same sum divided in different ways (`SumOverBoxes`). A related party's rows are
compared with the others line by line (`RelatedSums`).

The argument for Forms: where jobs only apply, rows are never lost. `KeptInv` says that what is
committed is in the running ledger (`Keeps`), so whatever commits next has it too, and a
command may add up what several commits show it. `FormTyped` is about the command only and no
engine step disturbs it. For `RowsTraceable`, `Attributed` says what the fetch relies on of a ledger:
a lot's entity is the owner its own event and every sale of it had, unless a move brought the
lot to one of the entity's wallets (`Theirs`). Sales need `SteadyOwners`: a lot stays with the
entity it was acquired for when its wallet is handed to another without a transaction, and the
new owner's sales of it are on the old one's forms. `Supported` carries the rows from
the fetch to later states, where the lot may have moved on but the trail is still there.
`FormsMissNothing` follows a recompute: its job drops nothing, so at its commit every disposal of
the entity's wallets has its row or an exception (`CommitDue`); the gate holds a final form while
there is an exception (`GateSees`), and what others commit before the fetch takes no row away. A
rebuild in between can, which is why `OnlyApplies` is there: it wipes the rows of lots that have
moved into its wallet, and after that none of this holds.

The argument for CrossEntity: a row remembers, through `RowJustified`, that its outflow had
an owner and, between entities, an inflow of another owner in `to_wallet`. CTs never leave
and nothing here changes a class (`CtStepKeepsClasses`), so when the answer comes, however
late, the inflow is still there to be stamped (`AnswerStampsPair`). Refinement and pairing
both follow; `PairsStand` strengthens the pairing with "the linked CT is an inflow",
without which another outflow's stamp could be the one that unlinks it.

The argument for Bridge: a pass may bridge a pair it finds only if that pair is confirmed, and
between finding it and the commit the user may have rejected it. So it has to be shown that a
pass never finds a pair it would confirm: such a pair was confirmed when it was made, its legs
have been bridged since and no candidates any more, and if something took them back it was the
user, and then the pass passes over them. `AutoHolds` says this; it needs that no open
singleton is left for the age-out to surface (`Held`), and for the moment between publishing
and scoring it makes an exception (`Settles`). `PassHolds` is what a pass may rely on while
others write: the rows it will insert are not there, the singletons it will replace are open
still, every leg it used has a row or will have. `PassDisjoint` says two pairs of a pass share no
leg, so scoring one leaves the others alone. `HeldStays` and `PassStillHolds` carry the work.

The argument for WalletSync: the lock cannot carry it, for a console may lose the lock and go
on writing. `IInv` is `TypeOK` with four facts that hold however many processes write: rows
cover `1..cursor`; classified rows cover `1..classed` (`Kept`); every row is of a
settled block (`Final`); and for each process, what it holds in hand is right of its own
range (`RunKeeps`: the rows fetched so far are those of `lo..pos-1`, the range below `lo` is
already stored, its `top` is settled). A cursor that goes back makes the first two weaker, and
rows are never deleted, so no process can break another's (`OthersKeep`, `TablesKeep`).
`ChainSettles` is what confirmations are for: no step of the chain changes the row of a block at
or below `Ceiling`, and so rows stay right for good once fetched.

The argument for Decoding: `Sound` says of the events a bundle has so far that no two share a row,
that they claim rows of the bundle, and that income without review is from a vouched contract. Each
detector takes its rows from those still free, so one lemma per detector (`RewardsSound` to
`StakesSound`) and one for joining disjoint claims (`SoundGrows`) carry it to the end, where the
common layer takes the rest (`CommonComplete`). That income stays confirmed while sessions overwrite
each other needs `ConfigsVouched`: every configuration anywhere, committed, loaded or about to be
written, is confirmed only with an address somebody confirmed. It holds because a proposal changes
contract and status together, and a commit writes both or neither; a mix of one session's contract
and another's status never gets into the row. `HeldUntouched` says a held transaction is in no
session's drafts.

The argument for PriceCache: `CacheInv` is `TypeOK` with `StampedeBounded` and `Dated` (no price is
from the future). The callers at the sources grow by one only
with the lock set anew, an overrun takes the lock and adds one to `overruns`, and who leaves takes
at most one lock along: `OneStep` counts the callers and `HerdStays` adds it up.
`CacheGoesForward` adds `Ordered`: while no lock ran out, whoever is at the sources is alone
(`AloneAtSources`), so the price it is about to write is no older than what either tier holds.

The argument for PriceHistory is the same as WalletSync's in small. `HistoryInv` is `HistoryTypeOK`
with `HistoryComplete` and, per crawl, `CrawlKeeps`: what lies before its range is stored, and once
its rows are committed its range too. Rows are never deleted and the log is only ever appended to
beyond the head a crawl works below, so no writer breaks another's. `NarrowedSize` and
`WidenedSize` keep the chunk in its bounds.

In WalletSync and PriceHistory the refinements need little more than the invariant before and
after the step: what is stored grows (`SettledGrows`, `StoredGrows`), and the cursor after the
step has nothing missing behind it.

Only model-checked: the four liveness properties, which are out of the prover's reach;
and LotReplay's `RebuildIsDeterministic`, whose proof needs a history per wallet, because a gift
lowers what is left and writes no quantity. Every other safety property, action property and
refinement that a passing run checks is proved.

## 5. Where the code and its words differ

- `rebuild_wallet` is called idempotent (`engine.py:827`). The wipe selects lots by the wallet
  they are in now (833, 839), so rebuilding the destination of a move deletes lots
  the source acquired, and only a rebuild of the source brings them back. `replay_moves`.
- "Re-detection / learning may NEVER reopen a user-resolved row" (`bridge/workflow.py:9`). The row
  stays, but a pass that had found it before the answer scores it from what it had read and
  writes `transfer-out` and `transfer-in` back over the confirmed legs (`tasks.py:132`). They stay
  unrelated transfers, the first one a disposal: no later pass looks at them. `confirm_undone`.
- "fmv=True -- MUST NOT substitute stale" (`pricing/service.py:17`): a caller that finds the
  single-flight lock taken gets the last known good price whatever it asks for (212-214).
  `fmv_stale`.
- Forms filter by the lot's entity, "correct post-fix" (`read_model.py:61`): when the rest of a
  partly sold lot moves to another entity, the earlier sales go to that entity's forms and
  vanish from the seller's (77). `forms_sellers`.

Others follow from a step or two of the models; no run is kept for them.

- "Fee fold: outflow - inflow difference stays in source wallet" (`engine.py:589`), but
  `apply_relocation` moves each touched lot whole (660).
- "No LotDisposal is written" for a gift (`engine.py:765`); an unresolved transfer-out was
  already disposed of by the pipeline, and the gift handler looks for its own rows only (771).
  The lot is consumed twice and the sale stays.
- "CTs already carrying transfer_resolution are skipped" (`detection.py:107`) is decided when the
  pass loads them, not when it stamps them (150): an answer in between is overwritten.
- "Merge: keep one, delete the other" (`pairing.py:182`): once the age-out has surfaced the
  inflow's singleton, its audit row restricts the delete, and the user's passes fail one after the
  other.
- A sale that was first recorded as a gift keeps the link and the stamp on its inflow
  (`resolve.py:371` says neither is there).
- Rounding to nearest on every slice can give away a last digit more basis than the lot cost
  (`engine.py:123` says the anchor prevents it; 3 units at a cost of 2, one at a time, do it).
- A classification that is running commits its next chunk end over a cursor just reset with
  `--from-block` (`cli.py:204`).
- `recompute_lots` ignores its year and applies every event ("up to and including tax_year",
  `gate.py:87`).
- A transfer question blocks by the day it was detected, not the day of the transfer
  (`v_lot_gate`, `gate.py:61`): found a year late, it does not hold the gate of its own year.
- "Both are tax-neutral relocations" (`classify/recognizers.py:37`): a wrap's native value is
  never claimed and is booked as a transfer out as well, an unwrap's as a transfer in.
- "if not already set" (`classify/context.py:172`) is decided on what the session has loaded: a
  task that began before a staking contract was confirmed overwrites it with its own proposal, and
  the token's income asks for review again.
- `--from-block` is advertised for classifying again (`cli.py:204-206`), but once lots point at
  a transaction the task fails at it every time, and with it the chunk.
- Any NFT that leaves for a stranger is a stake while the contract is unknown, sold and burnt
  ones too, and its receiver is proposed as the staking contract.
- `process_wallet_lots` is called safe to run again (`lots/service.py:27`). Two at once over one
  wallet may both find an event without rows (510) before either has locked its lots (526); if the
  first empties the lots the second was waiting for, the second takes other ones.
- A reward lot that is later contributed or given changes its `acquisition_type`, and its income
  disappears from Schedule 1 line 8z.
- A sources walk that fails for fair market value sets the negative entry, which for 30 s also
  hides the last known good price from current-price requests (`service.py:229`, step 2 comes
  first).
- `fetch_day` compares the day of a block with the day an event is for; the oracle finalises a
  day after it has ended (`historical_backfill.py:271-283`).
- `backfill-prices` runs the crawl with a registry that knows no token (`cli.py:164-190`) and
  with `--resume` saves its cursor all the same: a later run with a real registry would start
  behind days that were never stored. (`HistoryComplete` is for one registry.)

## 6. Not modelled, and the plan

Next, in this order:

1. **LotRace**: two `process_wallet_lots` over one wallet (section 5). LotEngine has one ledger and
   one job; two need a ledger per session and row versions, which doubles its tables. It wants a
   small module of its own, with two events and the row locks of `open_lots`.
2. Composition of CrossEntity and Bridge with LotEngine (answers that come after a job has run, the
   bridge pass's signals committed before its rebuilds; Forms already composes the engine with
   any behaviour of Signals), and of Decoding with Signals: a CT that is deleted and made
   again loses its stamps while rows of `pending_classifications` remain.
3. In Bridge: the answer that waits for a running pass; custody learning; an outflow the user
   confirms with two inflows (`pairing.py:216` displaces a leg and keeps its old row; nothing says
   what should hold).
4. Proofs: `RebuildIsDeterministic` without moves, from the uniqueness of a covering
   (`OneCovering`) and a history of each wallet's rebuild.

Known and in no model: on the day a wallet changes hands the three owner lookups disagree
(`engine.py:331` and the two others).

The project keeps its runs few: a module added from here on shares a run with one it does not
interact with, or takes the place of a violation run.

Left out for good: the data the classifier only copies (amounts, `event_seq`, values), the values
the forms print and their rendering (`domain/forms/render`, pure output), reconciliation's
comparison with fixtures, HTTP clients and the API (I/O), configuration, the schema (its constraints
appear as types and keys), the web application (`src/apps/web` is a placeholder).

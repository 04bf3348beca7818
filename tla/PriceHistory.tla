---------------------------- MODULE PriceHistory -----------------------------
(***************************************************************************)
(* The daily prices of past days, table historical_prices, and its three     *)
(* writers: the crawl over the oracle's DailyAverageFinalized log            *)
(* (historical_backfill.backfill, run by "backfill-prices"), the nightly     *)
(* sync of the oracle's last days, and the fetch of a single day.  A row the *)
(* user entered belongs to the user.                                         *)
(*                                                                         *)
(* A row is the event it was read from.  Block 1 is the one before the       *)
(* oracle's genesis date.  upsert_historical_prices commits, so every batch  *)
(* of rows is a transaction; the Redis cursor is saved after it, and only by *)
(* a crawl with --resume.                                                    *)
(***************************************************************************)
EXTENDS Integers, FiniteSets

CONSTANTS
    Crawlers,       \* processes that may run the backfill
    Listed,         \* the tokens of the registry
    Days,
    Finalized,      \* the events of the oracle's log: [block, token, day]
    DayOf,          \* the calendar day of a block
    MaxBlock,       \* bound: the last block mined
    Window,         \* the days the oracle keeps on chain (30)
    InitialChunk, MinChunk, MaxChunk,
    Limit,          \* more events than this in a range are too many for the node
    MaxUpsets,      \* bound: crashes and user entries in one behaviour
    NoRow, Manual

Blocks == 1..MaxBlock
Keys   == Listed \X Days

ASSUME ChunksAssumption ==
    /\ MaxBlock \in Nat \ {0} /\ MaxUpsets \in Nat /\ Limit \in Nat /\ Window \in Nat
    /\ MinChunk \in Nat \ {0} /\ InitialChunk \in Nat /\ MaxChunk \in Nat
    /\ MinChunk <= InitialChunk /\ InitialChunk <= MaxChunk
\* The oracle finalises a token's day once.
ASSUME LogAssumption ==
    /\ \A e \in Finalized : e.block \in Blocks /\ e.day \in Days
    /\ \A e, f \in Finalized : e.token = f.token /\ e.day = f.day => e = f
    /\ NoRow # Manual /\ {NoRow, Manual} \cap Finalized = {}

VARIABLES
    head,       \* the chain's head
    hist,       \* historical_prices
    cursor,     \* Redis backfill:cursor:lemonchain, 0 when it is not set
    crawl,      \* what each crawler is doing
    upsets

historyVars == <<head, hist, cursor, crawl, upsets>>

\* lo is where the next range starts, chunk how long it is at most, top the head the
\* crawl saw when it started, and resume the option.
Crawls == [stage : {"idle", "fetch", "store", "save"}, lo : Nat, chunk : Nat, top : Nat,
           resume : BOOLEAN]

Idle == [stage |-> "idle", lo |-> 0, chunk |-> InitialChunk, top |-> 0, resume |-> FALSE]

\* The range a crawl is at, and its last block.
Hi(c) == IF c.lo + c.chunk - 1 <= c.top THEN c.lo + c.chunk - 1 ELSE c.top
Events(lo, hi) == {e \in Finalized : e.block \in lo..hi}

\* Slip: the upsert without its WHERE.
MutUpserted(S) ==
    [k \in Keys |-> IF \E e \in S : <<e.token, e.day>> = k
                    THEN CHOOSE e \in S : <<e.token, e.day>> = k
                    ELSE hist[k]]

\* INSERT ... ON CONFLICT DO UPDATE ... WHERE source != 'manual'.  Events of tokens the
\* registry does not know are skipped.
Upserted(S) ==
    [k \in Keys |-> IF hist[k] # Manual /\ \E e \in S : <<e.token, e.day>> = k
                    THEN CHOOSE e \in S : <<e.token, e.day>> = k
                    ELSE hist[k]]

Turns(c, s) == crawl' = [crawl EXCEPT ![c] = s]
TurnsTo(c, stage) == Turns(c, [crawl[c] EXCEPT !.stage = stage])
Upset == upsets < MaxUpsets /\ upsets' = upsets + 1

-----------------------------------------------------------------------------
(* The backfill                                                             *)

\* Without --resume the store is a _NullCursor; without a cursor the genesis date's
\* block comes first.
FirstBlock(resume) == IF resume /\ cursor # 0 THEN cursor ELSE 1

\* The cursor and the head are read once.
Start(c, resume) ==
    /\ crawl[c].stage = "idle"
    /\ Turns(c, [stage |-> "fetch", lo |-> FirstBlock(resume), chunk |-> InitialChunk,
                  top |-> head, resume |-> resume])
    /\ UNCHANGED <<head, hist, cursor, upsets>>

\* Slip: the same range is asked for again.
MutNarrowed(chunk) == chunk

Narrowed(chunk) == IF chunk \div 2 >= MinChunk THEN chunk \div 2 ELSE MinChunk

Widened(chunk) == IF chunk * 2 <= MaxChunk THEN chunk * 2 ELSE MaxChunk

\* get_logs.  A ValueError (too many results) halves the chunk and stays at lo; at the
\* smallest chunk it ends the crawl.
Fetch(c) ==
    /\ crawl[c].stage = "fetch"
    /\ IF Cardinality(Events(crawl[c].lo, Hi(crawl[c]))) <= Limit THEN TurnsTo(c, "store")
       ELSE IF crawl[c].chunk > MinChunk
       THEN Turns(c, [crawl[c] EXCEPT !.chunk = Narrowed(@)])
       ELSE Turns(c, Idle)
    /\ UNCHANGED <<head, hist, cursor, upsets>>

\* _upsert_events, committed.
Store(c) ==
    /\ crawl[c].stage = "store"
    /\ hist' = Upserted(Events(crawl[c].lo, Hi(crawl[c])))
    /\ TurnsTo(c, "save")
    /\ UNCHANGED <<head, cursor, upsets>>

\* Slip: where the crawl is going is saved, not where it is.
MutSaved(c) == c.top

Saved(c) == Hi(c)

NextRange(c) == [stage |-> "fetch", lo |-> Hi(c) + 1, chunk |-> Widened(c.chunk),
                 top |-> c.top, resume |-> c.resume]

\* The cursor, whatever another crawl has set it to, and the next range.
Save(c) ==
    /\ crawl[c].stage = "save"
    /\ cursor' = IF crawl[c].resume THEN Saved(crawl[c]) ELSE cursor
    /\ Turns(c, IF Hi(crawl[c]) < crawl[c].top THEN NextRange(crawl[c]) ELSE Idle)
    /\ UNCHANGED <<head, hist, upsets>>

\* The process dies or meets an error: a batch is committed or it is not.
Crash(c) ==
    /\ crawl[c].stage # "idle" /\ Upset
    /\ Turns(c, Idle)
    /\ UNCHANGED <<head, hist, cursor>>

-----------------------------------------------------------------------------
(* The other writers                                                        *)

Mine ==
    /\ head < MaxBlock /\ head' = head + 1
    /\ UNCHANGED <<hist, cursor, crawl, upsets>>

\* What the oracle still has of a token: the last days of its history.
OnChain(t) ==
    LET known == {e \in Finalized : e.token = t /\ e.block <= head}
    IN {e \in known : Cardinality({f \in known : f.day > e.day}) < Window}

\* nightly_oracle_sync, one token's turn; a failure leaves the rest of them out.
Nightly(t) ==
    /\ hist' = Upserted(OnChain(t))
    /\ UNCHANGED <<head, cursor, crawl, upsets>>

\* fetch_day: the events in the blocks of that calendar day.
FetchDay(t, day) ==
    /\ hist' = Upserted({e \in Events(1, head) : e.token = t /\ DayOf[e.block] = day})
    /\ UNCHANGED <<head, cursor, crawl, upsets>>

\* The user overrides a day's price, or enters it first.
Override(k) ==
    /\ hist[k] # Manual /\ Upset
    /\ hist' = [hist EXCEPT ![k] = Manual]
    /\ UNCHANGED <<head, cursor, crawl>>

-----------------------------------------------------------------------------
HistoryInit ==
    /\ head = 1
    /\ hist = [k \in Keys |-> NoRow]
    /\ cursor = 0
    /\ crawl = [c \in Crawlers |-> Idle]
    /\ upsets = 0

Works(c) == Fetch(c) \/ Store(c) \/ Save(c)

HistoryNext ==
    \/ Mine
    \/ \E c \in Crawlers :
        \/ \E resume \in BOOLEAN : Start(c, resume)
        \/ Works(c)
        \/ Crash(c)
    \/ \E t \in Listed : Nightly(t) \/ \E day \in Days : FetchDay(t, day)
    \/ \E k \in Keys : Override(k)

HistorySpec == HistoryInit /\ [][HistoryNext]_historyVars

\* A running backfill goes on.  Nobody has to start one.
HistoryFairSpec == HistorySpec /\ \A c \in Crawlers : WF_historyVars(Works(c))

-----------------------------------------------------------------------------
(* Properties                                                               *)

\* A row is an event of its own token and day, and a crawl's chunk keeps its bounds.
HistoryTypeOK ==
    /\ head \in Blocks /\ cursor \in 0..head /\ upsets \in Nat
    /\ hist \in [Keys -> Finalized \cup {NoRow, Manual}]
    /\ \A k \in Keys : hist[k] \in Finalized => <<hist[k].token, hist[k].day>> = k
    /\ crawl \in [Crawlers -> Crawls]
    /\ \A c \in Crawlers : crawl[c].chunk \in MinChunk..MaxChunk

\* The blocks whose listed events all have a row, be it the user's.
Stored == {b \in Blocks : \A e \in Events(b, b) :
              e.token \in Listed => hist[<<e.token, e.day>>] # NoRow}

\* historical_backfill.py:203: "a crash can be resumed without re-scanning
\* already-processed blocks".  However crawls overlap, halve, die and set each other's
\* cursor back, nothing finalised up to the cursor is missing from the history.
HistoryComplete == 1..cursor \subseteq Stored

\* repository.py:37: "Manual overrides (source='manual') are never overwritten", by
\* none of the three writers, also when the override comes while a batch is on its way.
ManualStands == [][\A k \in Keys : hist[k] = Manual => hist'[k] = Manual]_historyVars

Promise == INSTANCE Crawl WITH frontier <- cursor, kept <- Stored

\* The backfill is a resumable crawl of the chain; the other writers only help it.
BackfillIsACrawl == Promise!Spec

\* Every crawl ends, at its head or with the node's refusal: halving and doubling never
\* ask for the same range for ever.
CrawlsEnd == \A c \in Crawlers : crawl[c].stage # "idle" ~> crawl[c].stage = "idle"
=============================================================================

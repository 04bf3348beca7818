----------------------------- MODULE WalletSync -----------------------------
(***************************************************************************)
(* One wallet's way from the chain to classified transactions:             *)
(* sync_wallet_task and classify_wallet_task, the Redis lock both take, and *)
(* the two cursors of the wallet's row.                                     *)
(*                                                                         *)
(* A task that finds the lock taken returns at once ("skipped": "locked");  *)
(* that is a stuttering step here.  Celery kills a worker's task after 600   *)
(* seconds and the lock lives for 1800, so it cannot expire under a running  *)
(* worker; a task the CLI runs in its own process has no such limit.        *)
(*                                                                         *)
(* A block holds at most one row of the wallet's; a reorganisation replaces  *)
(* it.  Everything is keyed by hash, so that storing a row twice is storing  *)
(* it once, and so is classifying it.                                       *)
(***************************************************************************)
EXTENDS Integers

CONSTANTS
    Workers,        \* Celery worker processes
    Consoles,       \* CLI processes that run a task in-process (--local, classify)
    MaxHead,        \* bound: the last block mined
    Confirmations,  \* sync_confirmations_lemonchain
    SyncChunk,      \* sync_block_chunk
    ClassifyChunk,  \* _CLASSIFY_CHUNK
    Crowded,        \* the ranges <<start, end>> with more rows than the explorer's
                    \* result window
    ResetTo,        \* the --from-block values users give to "classify"
    MaxUpsets,      \* bound: faults and user commands in one behaviour
    Free, Dead      \* no lock; the token of a process that died holding it

Procs == Workers \cup Consoles

ASSUME ProcsAssumption ==
    /\ Workers \cap Consoles = {}
    /\ {Free, Dead} \cap Procs = {}
    /\ Free # Dead
ASSUME SizesAssumption ==
    /\ MaxHead \in Nat /\ Confirmations \in Nat /\ MaxUpsets \in Nat
    /\ SyncChunk \in Nat /\ SyncChunk >= 2
    /\ ClassifyChunk \in Nat \ {0}
    /\ ResetTo \subseteq Nat \ {0}
\* No single block exceeds the window; such a block would stop the sync for good.
ASSUME WindowAssumption ==
    Crowded \subseteq Nat \X Nat /\ \A range \in Crowded : range[1] # range[2]

Blocks == 1..MaxHead

VARIABLES
    head,       \* the chain's head
    forked,     \* blocks that were replaced by a reorganisation
    raw,        \* the rows of the raw_* tables
    cts,        \* the rows that have classified transactions
    cursor,     \* wallets.last_synced_block (NULL is read as 0)
    classed,    \* wallets.last_classified_block (NULL is read as 0)
    lock,       \* Redis lock:sync:<wallet>: a process stands for its token
    run,        \* what each process is doing
    upsets      \* faults and user commands so far

chain == <<head, forked>>
tables == <<raw, cts>>
vars == <<head, forked, raw, cts, cursor, classed, lock, run, upsets>>

Ceiling == head - Confirmations

Row(b) == <<b, IF b \in forked THEN 1 ELSE 0>>

\* What the explorer lists for a set of blocks.
RowsOf(S) == {Row(b) : b \in S \cap (1..head)}

Stages == {"idle", "sync", "full", "classify", "fetch", "rows", "read", "write", "done"}

\* lo..hi is the chunk and top the last block of the task; pos is where the next
\* fetch starts and ends where the fetches cut by _ingest_chunk end; rows has been
\* fetched, or read; reset says that a cursor of 0 waits for the next commit.
Runs == [stage : Stages, lo : Nat, hi : Nat, top : Nat, pos : Nat, ends : SUBSET Nat,
         rows : SUBSET (Nat \X {0, 1}), reset : BOOLEAN]

At(stage) == [stage |-> stage, lo |-> 0, hi |-> 0, top |-> 0, pos |-> 0, ends |-> {},
              rows |-> {}, reset |-> FALSE]

\* A chunk lies in its task's range, and the fetches still to make fill it up.
InOrder(r) ==
    /\ r.stage \in {"fetch", "rows", "read", "write"} => r.lo <= r.hi /\ r.hi <= r.top
    /\ r.stage = "fetch" =>
         /\ r.lo <= r.pos /\ r.pos <= r.hi + 1
         /\ r.ends \subseteq r.pos..r.hi
         /\ r.hi \in r.ends \/ r.pos = r.hi + 1

Enters(p, r) == run' = [run EXCEPT ![p] = r]

ChunkEnd(lo, top, size) == IF lo + size - 1 <= top THEN lo + size - 1 ELSE top

\* The head of either chunk loop: the next chunk, or the end of the task.
SyncFrom(lo, top, reset) ==
    IF lo <= top
    THEN LET hi == ChunkEnd(lo, top, SyncChunk)
         IN [At("fetch") EXCEPT !.lo = lo, !.hi = hi, !.top = top, !.pos = lo,
                                !.ends = {hi}, !.reset = reset]
    ELSE At("done")

ClassifyFrom(lo, top) ==
    IF lo <= top
    THEN [At("read") EXCEPT !.lo = lo, !.hi = ChunkEnd(lo, top, ClassifyChunk), !.top = top]
    ELSE At("done")

Upset == upsets < MaxUpsets /\ upsets' = upsets + 1

-----------------------------------------------------------------------------
(* The chain                                                                *)

Mine ==
    /\ head < MaxHead
    /\ head' = head + 1
    /\ UNCHANGED <<forked, tables, cursor, classed, lock, run, upsets>>

\* A block with fewer than Confirmations blocks on top may be replaced.
Reorganise(b) ==
    /\ Ceiling < b /\ b <= head /\ b \notin forked
    /\ forked' = forked \cup {b}
    /\ UNCHANGED <<head, tables, cursor, classed, lock, run, upsets>>

-----------------------------------------------------------------------------
(* Tasks and their lock                                                     *)

\* SET NX.  The nightly beat, the CLI and a redelivered message start a worker's
\* task; a user starts a full one, and every one in a console.
Take(p, task) ==
    /\ run[p].stage = "idle" /\ lock = Free
    /\ lock' = p
    /\ Enters(p, At(task))
    /\ IF p \in Consoles \/ task = "full" THEN Upset ELSE UNCHANGED upsets
    /\ UNCHANGED <<chain, tables, cursor, classed>>

\* Slip: the key is deleted whoever's token it holds.
MutFreed(p) == Free

\* _LUA_RELEASE_LOCK: compare the token, then delete.
Freed(p) == IF lock = p THEN Free ELSE lock

Release(p) ==
    /\ run[p].stage = "done"
    /\ lock' = Freed(p)
    /\ Enters(p, At("idle"))
    /\ UNCHANGED <<chain, tables, cursor, classed, upsets>>

\* An exception, a soft time limit: the session rolls back, the lock is released.
Fail(p) ==
    /\ run[p].stage \notin {"idle", "done"}
    /\ Upset
    /\ lock' = Freed(p)
    /\ Enters(p, At("idle"))
    /\ UNCHANGED <<chain, tables, cursor, classed>>

\* The process is killed, by the hard time limit for instance: nobody releases.
Crash(p) ==
    /\ run[p].stage # "idle"
    /\ Upset
    /\ lock' = IF lock = p THEN Dead ELSE lock
    /\ Enters(p, At("idle"))
    /\ UNCHANGED <<chain, tables, cursor, classed>>

\* The key's TTL runs out.
Expire ==
    /\ lock # Free
    /\ \A w \in Workers : lock = w => run[w].stage = "idle"
    /\ lock' = Free
    /\ UNCHANGED <<chain, tables, cursor, classed, run, upsets>>

-----------------------------------------------------------------------------
(* sync_wallet                                                              *)

\* Slip: blocks that may still be replaced are fetched.
MutOpenSync(p) ==
    LET from == IF run[p].stage = "full" THEN 0 ELSE cursor
    IN /\ run[p].stage \in {"sync", "full"}
       /\ Enters(p, IF head <= from THEN At("done")
                    ELSE SyncFrom(from, head, run[p].stage = "full" /\ cursor # 0))
       /\ cursor' = IF head <= from THEN from ELSE cursor
       /\ UNCHANGED <<chain, tables, classed, lock, upsets>>

\* The wallet is loaded, --full sets its cursor to 0 in the session, the head is read.
\* With nothing new the session is committed as it is.
OpenSync(p) ==
    LET from == IF run[p].stage = "full" THEN 0 ELSE cursor
    IN /\ run[p].stage \in {"sync", "full"}
       /\ Enters(p, IF Ceiling <= from THEN At("done")
                    ELSE SyncFrom(from, Ceiling, run[p].stage = "full" /\ cursor # 0))
       /\ cursor' = IF Ceiling <= from THEN from ELSE cursor
       /\ UNCHANGED <<chain, tables, classed, lock, upsets>>

\* The end of the range _ingest_chunk fetches next.
NextEnd(r, e) == e \in r.ends /\ \A f \in r.ends : e <= f

\* One range of _ingest_chunk: its three endpoints are read, its rows upserted.
Fetch(p) == \E e \in run[p].ends :
    /\ run[p].stage = "fetch" /\ NextEnd(run[p], e)
    /\ <<run[p].pos, e>> \notin Crowded
    /\ run' = [run EXCEPT ![p].rows = @ \cup RowsOf(run[p].pos..e),
                          ![p].pos = e + 1,
                          ![p].ends = @ \ {e}]
    /\ UNCHANGED <<chain, tables, cursor, classed, lock, upsets>>

\* Slip: the second half is forgotten.
MutHalve(p) == \E e \in run[p].ends :
    /\ run[p].stage = "fetch" /\ NextEnd(run[p], e)
    /\ <<run[p].pos, e>> \in Crowded
    /\ run' = [run EXCEPT ![p].ends = (@ \ {e}) \cup {(run[p].pos + e) \div 2}]
    /\ UNCHANGED <<chain, tables, cursor, classed, lock, upsets>>

\* ChainWindowExceeded: the first half is fetched first, then the second.
Halve(p) == \E e \in run[p].ends :
    /\ run[p].stage = "fetch" /\ NextEnd(run[p], e)
    /\ <<run[p].pos, e>> \in Crowded
    /\ run' = [run EXCEPT ![p].ends = @ \cup {(run[p].pos + e) \div 2}]
    /\ UNCHANGED <<chain, tables, cursor, classed, lock, upsets>>

\* "rows durable FIRST"; what else the session holds is committed with them.
CommitRows(p) ==
    /\ run[p].stage = "fetch" /\ run[p].ends = {}
    /\ raw' = raw \cup run[p].rows
    /\ cursor' = IF run[p].reset THEN 0 ELSE cursor
    /\ run' = [run EXCEPT ![p].stage = "rows", ![p].rows = {}, ![p].reset = FALSE]
    /\ UNCHANGED <<chain, cts, classed, lock, upsets>>

\* Slip: the checkpoint is left to the next turn of the loop, so the last has none.
MutCommitCursor(p) ==
    /\ run[p].stage = "rows"
    /\ cursor' = IF run[p].hi < run[p].top THEN run[p].hi ELSE cursor
    /\ Enters(p, SyncFrom(run[p].hi + 1, run[p].top, FALSE))
    /\ UNCHANGED <<chain, tables, classed, lock, upsets>>

\* "cursor checkpoint SECOND", whatever the cursor is by now.
CommitCursor(p) ==
    /\ run[p].stage = "rows"
    /\ cursor' = run[p].hi
    /\ Enters(p, SyncFrom(run[p].hi + 1, run[p].top, FALSE))
    /\ UNCHANGED <<chain, tables, classed, lock, upsets>>

-----------------------------------------------------------------------------
(* _run_classify                                                            *)

\* Slip: the range ends at the settled head and not at the cursor.
MutOpenClassify(p) ==
    /\ run[p].stage = "classify"
    /\ Enters(p, ClassifyFrom(classed + 1, IF Ceiling >= 0 THEN Ceiling ELSE 0))
    /\ UNCHANGED <<chain, tables, cursor, classed, lock, upsets>>

\* Both cursors are read once, before the first chunk.
OpenClassify(p) ==
    /\ run[p].stage = "classify"
    /\ Enters(p, ClassifyFrom(classed + 1, cursor))
    /\ UNCHANGED <<chain, tables, cursor, classed, lock, upsets>>

ReadRows(p) ==
    /\ run[p].stage = "read"
    /\ run' = [run EXCEPT ![p].stage = "write",
                          ![p].rows = {r \in raw : r[1] \in run[p].lo..run[p].hi}]
    /\ UNCHANGED <<chain, tables, cursor, classed, lock, upsets>>

\* classify_bundle, replace_classified for every transaction, and the cursor, at once.
CommitChunk(p) ==
    /\ run[p].stage = "write"
    /\ cts' = cts \cup run[p].rows
    /\ classed' = run[p].hi
    /\ Enters(p, ClassifyFrom(run[p].hi + 1, run[p].top))
    /\ UNCHANGED <<chain, raw, cursor, lock, upsets>>

\* classify --from-block n: the reset is committed before the task asks for the lock.
ResetClassified(n) ==
    /\ Upset
    /\ classed' = n - 1
    /\ UNCHANGED <<chain, tables, cursor, lock, run>>

-----------------------------------------------------------------------------
Init ==
    /\ head = 0 /\ forked = {}
    /\ raw = {} /\ cts = {}
    /\ cursor = 0 /\ classed = 0
    /\ lock = Free
    /\ run = [p \in Procs |-> At("idle")]
    /\ upsets = 0

\* What the option is for.  A user who gives a block past the cursor leaves out what
\* lies between.
GoesBack(n) == n <= classed + 1

Works(p) ==
    \/ Release(p)
    \/ OpenSync(p) \/ Fetch(p) \/ Halve(p) \/ CommitRows(p) \/ CommitCursor(p)
    \/ OpenClassify(p) \/ ReadRows(p) \/ CommitChunk(p)

Next ==
    \/ Mine
    \/ \E b \in Blocks : Reorganise(b)
    \/ \E p \in Procs :
        \/ \E task \in {"sync", "full", "classify"} : Take(p, task)
        \/ Works(p)
        \/ Fail(p)
        \/ Crash(p)
    \/ Expire
    \/ \E n \in ResetTo : GoesBack(n) /\ ResetClassified(n)

Spec == Init /\ [][Next]_vars

\* The chain grows, a worker's task ends one way or the other, Redis expires keys, and
\* the nightly sync is not locked out every night.  Users and consoles owe nothing.
Fairness ==
    /\ WF_vars(Mine)
    /\ \A w \in Workers : WF_vars(Works(w))
    /\ WF_vars(Expire)
    /\ SF_vars(\E w \in Workers : Take(w, "sync"))

FairSpec == Spec /\ Fairness

-----------------------------------------------------------------------------
(* Properties                                                               *)

TypeOK ==
    /\ head \in Nat /\ head <= MaxHead
    /\ forked \subseteq Blocks
    /\ raw \subseteq Nat \X {0, 1} /\ cts \subseteq Nat \X {0, 1}
    /\ cursor \in Nat /\ classed \in Nat
    /\ lock \in Procs \cup {Free, Dead}
    /\ run \in [Procs -> Runs] /\ \A p \in Procs : InOrder(run[p])
    /\ upsets \in Nat

\* Whatever fails, dies, overlaps or starts over, every block up to last_synced_block
\* has its rows in the raw tables: the cursor never runs ahead of the data.
NoBlockSkipped == RowsOf(1..cursor) \subseteq raw

\* Nothing is stored, and so nothing classified, that a reorganisation can still take back.
RowsAreFinal == raw \subseteq RowsOf(1..Ceiling)

\* Every block up to last_classified_block is classified from complete, final data,
\* also after a full resync set last_synced_block back under a running task, as long as
\* users only ever reset the cursor backwards.
NoBlockUnclassified == RowsOf(1..classed) \subseteq cts

\* The blocks no reorganisation can reach whose rows are in a table.
Settled(table) == {b \in Blocks : b <= Ceiling /\ Row(b) \in table}

Sync == INSTANCE Crawl WITH frontier <- cursor, kept <- Settled(raw)
Classifying == INSTANCE Crawl WITH frontier <- classed, kept <- Settled(cts)

\* The sync is a resumable crawl: whatever overlaps, fails, dies or starts over, the
\* blocks stored only become more, and the cursor is never set past one that is missing,
\* though it may be set back.
SyncIsACrawl == Sync!Spec

\* So is the classification, on its own cursor, behind a sync that may be set back.
ClassifyingIsACrawl == Classifying!Spec

\* As long as a worker runs a task it holds the lock, also when a console lost the lock
\* to it and ends afterwards: so no two workers write the wallet at once.
WorkersHoldTheLock ==
    \A w \in Workers : run[w].stage # "idle" => lock = w

\* Once the chain rests, and faults and users do, the nightly sync reaches the last
\* settled block and stays there, even if whoever held the lock died with it.
SyncCatchesUp == <>[](cursor = MaxHead - Confirmations)
=============================================================================

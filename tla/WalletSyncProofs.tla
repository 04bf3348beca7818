-------------------------- MODULE WalletSyncProofs --------------------------
(***************************************************************************)
(* Proofs about WalletSync, for every number of processes, every chain and   *)
(* every size of chunk.                                                      *)
(***************************************************************************)
EXTENDS WalletSync, TLAPS

\* Blocks 1 to n are settled and stored, or settled and classified.
Kept(n, table) == \A b \in 1..n : b <= Ceiling /\ Row(b) \in table

\* Only rows of settled blocks, as they are on the chain.
Final(table) == \A r \in table : \E b \in 1..Ceiling : r = Row(b)

\* What a process may rely on while others work on the same wallet.
RunKeeps(r) ==
    /\ r.stage \in {"fetch", "rows"} => r.top <= Ceiling
    /\ r.stage = "fetch" =>
         /\ Kept(r.lo - 1, raw)
         /\ Final(r.rows)
         /\ \A b \in r.lo..(r.pos - 1) : b >= 1 => Row(b) \in r.rows
    /\ r.stage = "rows" => Kept(r.hi, raw)
    /\ r.stage \in {"read", "write"} => Kept(r.lo - 1, cts) /\ Kept(r.top, raw) /\ r.lo >= 1
    /\ r.stage = "write" =>
         /\ Final(r.rows)
         /\ \A b \in r.lo..r.hi : Row(b) \in r.rows

DataInv ==
    /\ Kept(cursor, raw) /\ Kept(classed, cts)
    /\ Final(raw) /\ Final(cts)
    /\ \A p \in Procs : RunKeeps(run[p])

IInv == TypeOK /\ DataInv

-----------------------------------------------------------------------------
(* Types                                                                    *)

LEMMA AtIsRun ==
    ASSUME NEW stage \in Stages \ {"fetch", "rows", "read", "write"}
    PROVE  At(stage) \in Runs /\ InOrder(At(stage)) /\ At(stage).stage = stage
  BY DEF At, Runs, Stages, InOrder

LEMMA SyncFromIsRun ==
    ASSUME NEW lo \in Nat, NEW top \in Nat, NEW reset \in BOOLEAN
    PROVE  SyncFrom(lo, top, reset) \in Runs /\ InOrder(SyncFrom(lo, top, reset))
  <1>1. CASE lo <= top
    <2> DEFINE hi == ChunkEnd(lo, top, SyncChunk)
    <2>1. hi \in Nat /\ lo <= hi /\ hi <= top
      BY <1>1, SizesAssumption DEF ChunkEnd
    <2>2. SyncFrom(lo, top, reset) =
            [stage |-> "fetch", lo |-> lo, hi |-> hi, top |-> top, pos |-> lo,
             ends |-> {hi}, rows |-> {}, reset |-> reset]
      BY <1>1 DEF SyncFrom, At
    <2> QED
      BY <2>1, <2>2 DEF Runs, Stages, InOrder
  <1>2. CASE ~(lo <= top)
    BY <1>2, AtIsRun DEF SyncFrom, Stages
  <1> QED
    BY <1>1, <1>2

LEMMA ClassifyFromIsRun ==
    ASSUME NEW lo \in Nat, NEW top \in Nat
    PROVE  ClassifyFrom(lo, top) \in Runs /\ InOrder(ClassifyFrom(lo, top))
  <1>1. CASE lo <= top
    <2> DEFINE hi == ChunkEnd(lo, top, ClassifyChunk)
    <2>1. hi \in Nat /\ lo <= hi /\ hi <= top
      BY <1>1, SizesAssumption DEF ChunkEnd
    <2>2. ClassifyFrom(lo, top) =
            [stage |-> "read", lo |-> lo, hi |-> hi, top |-> top, pos |-> 0,
             ends |-> {}, rows |-> {}, reset |-> FALSE]
      BY <1>1 DEF ClassifyFrom, At
    <2> QED
      BY <2>1, <2>2 DEF Runs, Stages, InOrder
  <1>2. CASE ~(lo <= top)
    BY <1>2, AtIsRun DEF ClassifyFrom, Stages
  <1> QED
    BY <1>1, <1>2

LEMMA InitTyped == Init => TypeOK
  BY SizesAssumption, AtIsRun DEF Init, TypeOK, Stages

\* A step that only moves one process on, and the lock, and counts.
LEMMA EntersTyped ==
    ASSUME TypeOK, NEW p \in Procs, NEW r \in Runs, InOrder(r), Enters(p, r)
    PROVE  run' \in [Procs -> Runs] /\ \A q \in Procs : InOrder(run'[q])
  BY DEF TypeOK, Enters

LEMMA RowsOfTyped ==
    ASSUME NEW S \in SUBSET Nat
    PROVE  RowsOf(S) \subseteq Nat \X {0, 1}
  BY DEF RowsOf, Row

LEMMA WorksTyped ==
    ASSUME TypeOK, NEW p \in Procs, Works(p)
    PROVE  TypeOK'
  <1>1. run[p] \in Runs /\ InOrder(run[p])
    BY DEF TypeOK
  <1>2. Ceiling \in Int /\ \A n \in Nat : Ceiling > n => Ceiling \in Nat
    BY SizesAssumption DEF TypeOK, Ceiling
  <1>3. CASE Release(p)
    BY <1>3, AtIsRun, EntersTyped DEF Release, Freed, TypeOK, Stages, chain, tables
  <1>4. CASE OpenSync(p)
    <2> DEFINE from == IF run[p].stage = "full" THEN 0 ELSE cursor
    <2>1. from \in Nat
      BY DEF TypeOK
    <2>2. CASE Ceiling <= from
      BY <1>4, <2>1, <2>2, AtIsRun, EntersTyped
      DEF OpenSync, TypeOK, Stages, chain, tables
    <2>3. CASE ~(Ceiling <= from)
      <3> DEFINE reset == run[p].stage = "full" /\ cursor # 0
      <3>1. reset \in BOOLEAN /\ Ceiling \in Nat
        BY <1>2, <2>1, <2>3
      <3>2. Enters(p, SyncFrom(from, Ceiling, reset)) /\ cursor' = cursor
        BY <1>4, <2>3 DEF OpenSync
      <3> HIDE DEF reset, from
      <3>3. SyncFrom(from, Ceiling, reset) \in Runs /\ InOrder(SyncFrom(from, Ceiling, reset))
        BY <2>1, <3>1, SyncFromIsRun
      <3> QED
        BY <1>4, <3>2, <3>3, EntersTyped DEF OpenSync, TypeOK, chain, tables
    <2> QED
      BY <2>2, <2>3
  <1>5. CASE Fetch(p)
    <2>1. PICK e \in run[p].ends : /\ run[p].stage = "fetch" /\ NextEnd(run[p], e)
                                  /\ run' = [run EXCEPT ![p].rows = @ \cup RowsOf(run[p].pos..e),
                                                        ![p].pos = e + 1,
                                                        ![p].ends = @ \ {e}]
      BY <1>5 DEF Fetch
    <2>2. e \in Nat /\ run[p].pos \in Nat /\ run[p].pos <= e /\ e <= run[p].hi
      BY <1>1, <2>1 DEF Runs, InOrder
    <2> DEFINE r == [run[p] EXCEPT !.rows = @ \cup RowsOf(run[p].pos..e),
                                   !.pos = e + 1, !.ends = @ \ {e}]
    <2>3. RowsOf(run[p].pos..e) \subseteq Nat \X {0, 1}
      BY <2>2, RowsOfTyped
    <2>4. r \in Runs
      <3> DEFINE rows == run[p].rows \cup RowsOf(run[p].pos..e)
                 ends == run[p].ends \ {e}
      <3>1. rows \subseteq Nat \X {0, 1} /\ ends \subseteq Nat /\ e + 1 \in Nat
        BY <1>1, <2>2, <2>3 DEF Runs
      <3> HIDE DEF rows, ends
      <3>2. [run[p] EXCEPT !.rows = rows, !.pos = e + 1, !.ends = ends] \in Runs
        BY <1>1, <3>1 DEF Runs
      <3> QED
        BY <3>2 DEF rows, ends
    <2>5. r.stage = "fetch" /\ r.lo = run[p].lo /\ r.hi = run[p].hi /\ r.top = run[p].top
          /\ r.pos = e + 1 /\ r.ends = run[p].ends \ {e}
      BY <1>1, <2>1 DEF Runs
    <2>6. \A f \in r.ends : f \in Nat /\ e <= f /\ f # e
      BY <1>1, <2>1, <2>5 DEF NextEnd, Runs
    <2>7. r.hi \in r.ends \/ r.hi = e
      BY <1>1, <2>1, <2>2, <2>5 DEF InOrder, Runs
    <2>8. InOrder(r)
      BY <1>1, <2>1, <2>2, <2>5, <2>6, <2>7 DEF InOrder, Runs
    <2>9. Enters(p, r)
      BY <2>1 DEF Enters
    <2> QED
      BY <1>5, <2>4, <2>8, <2>9, EntersTyped DEF Fetch, TypeOK, chain, tables
  <1>6. CASE Halve(p)
    <2>1. PICK e \in run[p].ends :
                /\ run[p].stage = "fetch" /\ <<run[p].pos, e>> \in Crowded
                /\ run' = [run EXCEPT ![p].ends = @ \cup {(run[p].pos + e) \div 2}]
      BY <1>6 DEF Halve
    <2>2. e \in Nat /\ run[p].pos \in Nat /\ run[p].pos <= e /\ e <= run[p].hi
      BY <1>1, <2>1 DEF Runs, InOrder
    <2> DEFINE mid == (run[p].pos + e) \div 2
               r == [run[p] EXCEPT !.ends = @ \cup {mid}]
    <2>3. mid \in Nat /\ run[p].pos <= mid /\ mid <= e
      BY <2>2
    <2> HIDE DEF mid
    <2>4. r \in Runs
      BY <1>1, <2>3 DEF Runs
    <2>5. r.stage = "fetch" /\ r.lo = run[p].lo /\ r.hi = run[p].hi /\ r.top = run[p].top
          /\ r.pos = run[p].pos /\ r.ends = run[p].ends \cup {mid}
      BY <1>1, <2>1 DEF Runs
    <2>6. InOrder(r)
      BY <1>1, <2>1, <2>2, <2>3, <2>5 DEF InOrder, Runs
    <2>7. Enters(p, r)
      BY <2>1 DEF Enters, mid
    <2> QED
      BY <1>6, <2>4, <2>6, <2>7, EntersTyped DEF Halve, TypeOK, chain, tables
  <1>7. CASE CommitRows(p)
    <2> DEFINE r == [run[p] EXCEPT !.stage = "rows", !.rows = {}, !.reset = FALSE]
    <2>1. r \in Runs /\ InOrder(r)
      BY <1>1, <1>7 DEF CommitRows, Runs, Stages, InOrder
    <2>2. Enters(p, r)
      BY <1>7 DEF CommitRows, Enters
    <2>3. run[p].rows \subseteq Nat \X {0, 1}
      BY <1>1 DEF Runs
    <2> QED
      BY <1>7, <2>1, <2>2, <2>3, EntersTyped DEF CommitRows, TypeOK, chain
  <1>8. CASE CommitCursor(p)
    <2>1. run[p].hi \in Nat /\ run[p].hi + 1 \in Nat /\ run[p].top \in Nat
      BY <1>1 DEF Runs
    <2> QED
      BY <1>8, <2>1, SyncFromIsRun, EntersTyped DEF CommitCursor, TypeOK, chain, tables
  <1>9. CASE OpenClassify(p)
    BY <1>9, ClassifyFromIsRun, EntersTyped DEF OpenClassify, TypeOK, chain, tables
  <1>10. CASE ReadRows(p)
    <2> DEFINE r == [run[p] EXCEPT !.stage = "write",
                                   !.rows = {row \in raw : row[1] \in run[p].lo..run[p].hi}]
    <2>1. r \in Runs /\ InOrder(r)
      BY <1>1, <1>10 DEF ReadRows, Runs, Stages, InOrder, TypeOK
    <2>2. Enters(p, r)
      BY <1>10 DEF ReadRows, Enters
    <2> QED
      BY <1>10, <2>1, <2>2, EntersTyped DEF ReadRows, TypeOK, chain, tables
  <1>11. CASE CommitChunk(p)
    <2>1. run[p].hi \in Nat /\ run[p].hi + 1 \in Nat /\ run[p].top \in Nat
          /\ run[p].rows \subseteq Nat \X {0, 1}
      BY <1>1 DEF Runs
    <2> QED
      BY <1>11, <2>1, ClassifyFromIsRun, EntersTyped DEF CommitChunk, TypeOK, chain
  <1> QED
    BY <1>3, <1>4, <1>5, <1>6, <1>7, <1>8, <1>9, <1>10, <1>11 DEF Works

\* Each step keeps the state typed and every chunk in order.
LEMMA NextTyped == TypeOK /\ [Next]_vars => TypeOK'
  <1> SUFFICES ASSUME TypeOK, [Next]_vars PROVE TypeOK'
    OBVIOUS
  <1>1. CASE Mine
    BY <1>1, SizesAssumption DEF Mine, TypeOK, tables
  <1>2. ASSUME NEW b \in Blocks, Reorganise(b) PROVE TypeOK'
    BY <1>2 DEF Reorganise, TypeOK, tables
  <1>3. ASSUME NEW p \in Procs, NEW task \in {"sync", "full", "classify"}, Take(p, task)
        PROVE  TypeOK'
    BY <1>3, AtIsRun, EntersTyped DEF Take, Upset, TypeOK, Stages, chain, tables
  <1>4. ASSUME NEW p \in Procs, Works(p) PROVE TypeOK'
    BY <1>4, WorksTyped
  <1>5. ASSUME NEW p \in Procs, Fail(p) \/ Crash(p) PROVE TypeOK'
    BY <1>5, AtIsRun, EntersTyped
    DEF Fail, Crash, Freed, Upset, TypeOK, Stages, chain, tables
  <1>6. CASE Expire
    BY <1>6 DEF Expire, TypeOK, chain, tables
  <1>7. ASSUME NEW n \in ResetTo, GoesBack(n) /\ ResetClassified(n) PROVE TypeOK'
    <2>1. n - 1 \in Nat
      BY SizesAssumption
    <2> QED
      BY <1>7, <2>1 DEF ResetClassified, Upset, TypeOK, chain, tables
  <1>8. CASE UNCHANGED vars
    BY <1>8 DEF vars, TypeOK
  <1> QED
    BY <1>1, <1>2, <1>3, <1>4, <1>5, <1>6, <1>7, <1>8 DEF Next

\* TypeOK of every reachable state: the chunk and its pending fetches included, so that no
\* task ever fetches, stores or classifies past the end it set itself.
THEOREM TypeCorrect == Spec => []TypeOK
  <1>1. Init => TypeOK
    BY InitTyped
  <1>2. TypeOK /\ [Next]_vars => TypeOK'
    BY NextTyped
  <1> QED
    BY <1>1, <1>2, PTL DEF Spec

-----------------------------------------------------------------------------
(* Data                                                                     *)

\* What is settled stays settled, and stays as it is.
LEMMA ChainSettles ==
    ASSUME TypeOK, [Next]_vars
    PROVE  /\ Ceiling \in Int /\ Ceiling' \in Int /\ Ceiling <= Ceiling' /\ Ceiling <= head
           /\ \A b \in Int : b <= Ceiling => (b \in forked' <=> b \in forked)
  <1>1. head \in Nat /\ Confirmations \in Nat
    BY SizesAssumption DEF TypeOK
  <1>2. \/ head' = head + 1 /\ forked' = forked
        \/ head' = head /\ \E b \in Int : Ceiling < b /\ forked' = forked \cup {b}
        \/ head' = head /\ forked' = forked
    <2>1. CASE Mine
      BY <2>1 DEF Mine
    <2>2. ASSUME NEW b \in Blocks, Reorganise(b) PROVE <1>2!:
      BY <2>2 DEF Reorganise, Blocks
    <2>3. ASSUME NEW p \in Procs, NEW task \in {"sync", "full", "classify"}, Take(p, task)
          PROVE  <1>2!:
      BY <2>3 DEF Take, chain
    <2>4. ASSUME NEW p \in Procs, Works(p) \/ Fail(p) \/ Crash(p) PROVE <1>2!:
      BY <2>4 DEF Works, Release, OpenSync, Fetch, Halve, CommitRows, CommitCursor,
                  OpenClassify, ReadRows, CommitChunk, Fail, Crash, chain
    <2>5. CASE Expire \/ UNCHANGED vars
      BY <2>5 DEF Expire, chain, vars
    <2>6. ASSUME NEW n \in ResetTo, GoesBack(n) /\ ResetClassified(n) PROVE <1>2!:
      BY <2>6 DEF ResetClassified, chain
    <2> QED
      BY <2>1, <2>2, <2>3, <2>4, <2>5, <2>6 DEF Next
  <1> QED
    BY <1>1, <1>2 DEF Ceiling

\* A settled row stays in the table it is in.
LEMMA RowSettles ==
    ASSUME TypeOK, [Next]_vars, NEW b \in Nat, b <= Ceiling, NEW T, Row(b) \in T
    PROVE  b <= Ceiling' /\ Row(b)' \in T
  BY ChainSettles DEF Row

\* What a process relies on stands while others only add to the tables.
LEMMA OthersKeep ==
    ASSUME IInv, [Next]_vars, raw \subseteq raw', cts \subseteq cts',
           NEW q \in Procs, run'[q] = run[q]
    PROVE  RunKeeps(run[q])'
  <1>1. /\ Ceiling \in Int /\ Ceiling' \in Int /\ Ceiling <= Ceiling'
        /\ \A b \in Int : b <= Ceiling => (b \in forked' <=> b \in forked)
    BY ChainSettles DEF IInv
  <1>2. run[q] \in Runs /\ RunKeeps(run[q])
    BY DEF IInv, TypeOK, DataInv
  <1> DEFINE r == run[q]
  <1>3. r.lo \in Nat /\ r.hi \in Nat /\ r.top \in Nat /\ r.pos \in Nat
    BY <1>2 DEF Runs
  <1>4. ASSUME Final(r.rows) PROVE \A row \in r.rows : \E b \in 1..Ceiling' : row = Row(b)'
    BY <1>1, <1>4 DEF Final, Row
  <1>5. ASSUME NEW b \in Nat, b <= Ceiling, NEW T, Row(b) \in T
        PROVE  b <= Ceiling' /\ Row(b)' \in T
    BY <1>5, RowSettles DEF IInv
  <1>6. r.stage \in {"fetch", "rows"} => r.top <= Ceiling'
    BY <1>1, <1>2, <1>3 DEF RunKeeps
  <1>7. ASSUME r.stage = "fetch"
        PROVE  /\ \A b \in 1..(r.lo - 1) : b <= Ceiling' /\ Row(b)' \in raw'
               /\ \A row \in r.rows : \E b \in 1..Ceiling' : row = Row(b)'
               /\ \A b \in r.lo..(r.pos - 1) : b >= 1 => Row(b)' \in r.rows
    <2>1. \A b \in r.lo..(r.pos - 1) : b <= Ceiling
      BY <1>1, <1>2, <1>3, <1>7 DEF RunKeeps, IInv, TypeOK, InOrder
    <2>2. \A b \in r.lo..(r.pos - 1) : b >= 1 => Row(b)' \in r.rows
      BY <1>2, <1>3, <1>5, <1>7, <2>1 DEF RunKeeps
    <2>3. \A b \in 1..(r.lo - 1) : b <= Ceiling' /\ Row(b)' \in raw'
      BY <1>2, <1>3, <1>5, <1>7 DEF RunKeeps, Kept
    <2> QED
      BY <1>2, <1>4, <1>7, <2>2, <2>3 DEF RunKeeps
  <1>8. ASSUME r.stage = "rows"
        PROVE  \A b \in 1..r.hi : b <= Ceiling' /\ Row(b)' \in raw'
    BY <1>2, <1>3, <1>5, <1>8 DEF RunKeeps, Kept
  <1>9. ASSUME r.stage \in {"read", "write"}
        PROVE  /\ \A b \in 1..(r.lo - 1) : b <= Ceiling' /\ Row(b)' \in cts'
               /\ \A b \in 1..r.top : b <= Ceiling' /\ Row(b)' \in raw'
               /\ r.lo >= 1
    BY <1>2, <1>3, <1>5, <1>9 DEF RunKeeps, Kept
  <1>10. ASSUME r.stage = "write"
         PROVE  /\ \A row \in r.rows : \E b \in 1..Ceiling' : row = Row(b)'
                /\ \A b \in r.lo..r.hi : Row(b)' \in r.rows
    <2>1. r.hi <= r.top
      BY <1>10 DEF IInv, TypeOK, InOrder
    <2>2. \A b \in r.lo..r.hi : b \in Nat /\ b <= Ceiling /\ Row(b) \in r.rows
      BY <1>1, <1>2, <1>3, <1>10, <2>1 DEF RunKeeps, Kept
    <2> QED
      BY <1>2, <1>4, <1>5, <1>10, <2>2 DEF RunKeeps
  <1> QED
    BY <1>6, <1>7, <1>8, <1>9, <1>10 DEF RunKeeps, Kept, Final

\* So does what the cursors and the tables say, as far as a step leaves them alone.
LEMMA TablesKeep ==
    ASSUME IInv, [Next]_vars
    PROVE  /\ cursor' = cursor /\ raw \subseteq raw' => Kept(cursor, raw)'
           /\ classed' = classed /\ cts \subseteq cts' => Kept(classed, cts)'
           /\ raw' = raw => Final(raw)'
           /\ cts' = cts => Final(cts)'
  <1>1. /\ Ceiling \in Int /\ Ceiling' \in Int /\ Ceiling <= Ceiling'
        /\ \A b \in Int : b <= Ceiling => (b \in forked' <=> b \in forked)
    BY ChainSettles DEF IInv
  <1>2. cursor \in Nat /\ classed \in Nat
    BY DEF IInv, TypeOK
  <1>3. Kept(cursor, raw) /\ Kept(classed, cts) /\ Final(raw) /\ Final(cts)
    BY DEF IInv, DataInv
  <1>4. ASSUME cursor' = cursor, raw \subseteq raw' PROVE Kept(cursor, raw)'
    <2>1. ASSUME NEW b \in 1..cursor PROVE b <= Ceiling' /\ Row(b)' \in raw
      BY <1>2, <1>3, <2>1, RowSettles DEF IInv, Kept
    <2> QED
      BY <1>4, <2>1 DEF Kept
  <1>5. ASSUME classed' = classed, cts \subseteq cts' PROVE Kept(classed, cts)'
    <2>1. ASSUME NEW b \in 1..classed PROVE b <= Ceiling' /\ Row(b)' \in cts
      BY <1>2, <1>3, <2>1, RowSettles DEF IInv, Kept
    <2> QED
      BY <1>5, <2>1 DEF Kept
  <1>6. raw' = raw => Final(raw)'
    BY <1>1, <1>3 DEF Final, Row
  <1>7. cts' = cts => Final(cts)'
    BY <1>1, <1>3 DEF Final, Row
  <1> QED
    BY <1>4, <1>5, <1>6, <1>7

LEMMA FinalRows ==
    ASSUME TypeOK, NEW S \in SUBSET Int, \A b \in S : b <= Ceiling
    PROVE  Final(RowsOf(S)) /\ \A b \in S : b >= 1 => Row(b) \in RowsOf(S)
  <1>1. Ceiling \in Int /\ head \in Nat /\ Ceiling <= head
    BY SizesAssumption DEF TypeOK, Ceiling
  <1> QED
    BY <1>1 DEF Final, RowsOf

\* The step of one process: the tables grow, and it keeps to RunKeeps itself.
LEMMA StepKeeps ==
    ASSUME IInv, [Next]_vars, raw \subseteq raw', cts \subseteq cts', NEW p \in Procs,
           \A q \in Procs \ {p} : run'[q] = run[q],
           RunKeeps(run[p])'
    PROVE  \A q \in Procs : RunKeeps(run[q])'
  BY OthersKeep

LEMMA EntersAlone ==
    ASSUME TypeOK, NEW p \in Procs, NEW r, Enters(p, r)
    PROVE  run'[p] = r /\ \A q \in Procs \ {p} : run'[q] = run[q]
  BY DEF TypeOK, Enters

\* A new chunk of the sync relies on the blocks before it being stored.
LEMMA SyncFromKeeps ==
    ASSUME IInv, [Next]_vars, NEW lo \in Nat, NEW top \in Nat, NEW reset \in BOOLEAN,
           top <= Ceiling, Kept(lo - 1, raw), raw \subseteq raw',
           NEW p \in Procs, run'[p] = SyncFrom(lo, top, reset)
    PROVE  RunKeeps(run[p])'
  <1>1. CASE lo <= top
    <2>1. /\ run'[p].stage = "fetch" /\ run'[p].lo = lo /\ run'[p].pos = lo
          /\ run'[p].top = top /\ run'[p].rows = {}
      BY <1>1 DEF SyncFrom, At
    <2>2. Ceiling \in Int /\ Ceiling' \in Int /\ Ceiling <= Ceiling'
      BY ChainSettles DEF IInv
    <2>3. ASSUME NEW b \in 1..(lo - 1) PROVE b <= Ceiling' /\ Row(b)' \in raw
      BY <2>3, RowSettles DEF IInv, Kept
    <2> QED
      BY <2>1, <2>2, <2>3 DEF RunKeeps, Kept, Final
  <1>2. CASE ~(lo <= top)
    BY <1>2 DEF SyncFrom, At, RunKeeps
  <1> QED
    BY <1>1, <1>2

\* A new chunk of the classifier relies on all before it being classified, and on all it
\* will come to being stored.
LEMMA ClassifyFromKeeps ==
    ASSUME IInv, [Next]_vars, NEW lo \in Nat, NEW top \in Nat, lo >= 1,
           NEW T, Kept(lo - 1, T), T \subseteq cts', Kept(top, raw), raw \subseteq raw',
           NEW p \in Procs, run'[p] = ClassifyFrom(lo, top)
    PROVE  RunKeeps(run[p])'
  <1>1. CASE lo <= top
    <2>1. run'[p].stage = "read" /\ run'[p].lo = lo /\ run'[p].top = top
      BY <1>1 DEF ClassifyFrom, At
    <2>2. ASSUME NEW b \in 1..(lo - 1) PROVE b <= Ceiling' /\ Row(b)' \in T
      BY <2>2, RowSettles DEF IInv, Kept
    <2>3. ASSUME NEW b \in 1..top PROVE b <= Ceiling' /\ Row(b)' \in raw
      BY <2>3, RowSettles DEF IInv, Kept
    <2> QED
      BY <2>1, <2>2, <2>3 DEF RunKeeps, Kept
  <1>2. CASE ~(lo <= top)
    BY <1>2 DEF ClassifyFrom, At, RunKeeps
  <1> QED
    BY <1>1, <1>2

\* _ingest_chunk's steps: a chunk's rows are complete up to pos, and final.
LEMMA FetchKeeps ==
    ASSUME IInv, [Next]_vars, NEW p \in Procs, Fetch(p)
    PROVE  DataInv'
  <1>1. PICK e \in run[p].ends :
              /\ run[p].stage = "fetch" /\ NextEnd(run[p], e)
              /\ run' = [run EXCEPT ![p].rows = @ \cup RowsOf(run[p].pos..e),
                                    ![p].pos = e + 1,
                                    ![p].ends = @ \ {e}]
    BY DEF Fetch
  <1>2. run[p] \in Runs /\ InOrder(run[p]) /\ RunKeeps(run[p])
    BY DEF IInv, TypeOK, DataInv
  <1>3. /\ e \in Nat /\ run[p].pos \in Nat /\ run[p].lo \in Nat /\ run[p].top \in Nat
        /\ run[p].lo <= run[p].pos /\ e <= run[p].top /\ run[p].top <= Ceiling
    BY <1>1, <1>2 DEF Runs, InOrder, RunKeeps
  <1>4. Ceiling \in Int /\ Ceiling' \in Int /\ Ceiling <= Ceiling'
    BY ChainSettles DEF IInv
  <1>5. UNCHANGED <<chain, raw, cts, cursor, classed>>
    BY DEF Fetch, tables
  <1>6. forked' = forked /\ Ceiling' = Ceiling
    BY <1>5 DEF chain, Ceiling
  <1> DEFINE new == RowsOf(run[p].pos..e)
  <1>7. Final(new) /\ \A b \in run[p].pos..e : b >= 1 => Row(b) \in new
    BY <1>3, <1>4, FinalRows DEF IInv
  <1>8. /\ run'[p].stage = "fetch" /\ run'[p].lo = run[p].lo /\ run'[p].top = run[p].top
        /\ run'[p].rows = run[p].rows \cup new /\ run'[p].pos = e + 1
        /\ \A q \in Procs \ {p} : run'[q] = run[q]
    BY <1>1, <1>2 DEF IInv, TypeOK, Runs
  <1> HIDE DEF new
  <1>9. Kept(run[p].lo - 1, raw) /\ Final(run[p].rows)
        /\ \A b \in run[p].lo..(run[p].pos - 1) : b >= 1 => Row(b) \in run[p].rows
    BY <1>1, <1>2 DEF RunKeeps
  <1>10. RunKeeps(run[p])'
    <2>1. \A b \in run[p].lo..e : b >= 1 => Row(b) \in run[p].rows \cup new
      BY <1>3, <1>7, <1>9
    <2>2. Final(run[p].rows \cup new)
      BY <1>7, <1>9 DEF Final
    <2> QED
      BY <1>3, <1>5, <1>6, <1>8, <1>9, <2>1, <2>2 DEF RunKeeps, Kept, Final, Row
  <1> QED
    BY <1>5, <1>8, <1>10, StepKeeps, TablesKeep DEF DataInv

LEMMA HalveKeeps ==
    ASSUME IInv, [Next]_vars, NEW p \in Procs, Halve(p)
    PROVE  DataInv'
  <1>1. PICK mid : run' = [run EXCEPT ![p].ends = @ \cup {mid}]
    BY DEF Halve
  <1>2. UNCHANGED <<chain, raw, cts, cursor, classed>>
    BY DEF Halve, tables
  <1>3. forked' = forked /\ Ceiling' = Ceiling
    BY <1>2 DEF chain, Ceiling
  <1>4. run[p] \in Runs /\ RunKeeps(run[p])
    BY DEF IInv, TypeOK, DataInv
  <1>5. /\ run'[p].stage = run[p].stage /\ run'[p].lo = run[p].lo /\ run'[p].hi = run[p].hi
        /\ run'[p].top = run[p].top /\ run'[p].pos = run[p].pos /\ run'[p].rows = run[p].rows
        /\ \A q \in Procs \ {p} : run'[q] = run[q]
    BY <1>1, <1>4 DEF IInv, TypeOK, Runs
  <1>6. RunKeeps(run[p])'
    BY <1>2, <1>3, <1>4, <1>5 DEF RunKeeps, Kept, Final, Row
  <1> QED
    BY <1>2, <1>5, <1>6, StepKeeps, TablesKeep DEF DataInv

\* "rows durable FIRST": when the chunk's last range is in, the chunk is stored.
LEMMA CommitRowsKeeps ==
    ASSUME IInv, [Next]_vars, NEW p \in Procs, CommitRows(p)
    PROVE  DataInv'
  <1>1. run[p] \in Runs /\ InOrder(run[p]) /\ RunKeeps(run[p])
    BY DEF IInv, TypeOK, DataInv
  <1>2. run[p].stage = "fetch" /\ run[p].pos = run[p].hi + 1
        /\ raw' = raw \cup run[p].rows /\ (cursor' = 0 \/ cursor' = cursor)
        /\ UNCHANGED <<chain, cts, classed>>
    BY <1>1 DEF CommitRows, InOrder
  <1>3. forked' = forked /\ Ceiling' = Ceiling
    BY <1>2 DEF chain, Ceiling
  <1>4. /\ run'[p].stage = "rows" /\ run'[p].hi = run[p].hi /\ run'[p].top = run[p].top
        /\ \A q \in Procs \ {p} : run'[q] = run[q]
    BY <1>1 DEF CommitRows, IInv, TypeOK, Runs
  <1>5. /\ run[p].lo \in Nat /\ run[p].hi \in Nat /\ run[p].top \in Nat
        /\ run[p].hi <= run[p].top /\ run[p].top <= Ceiling
        /\ Kept(run[p].lo - 1, raw) /\ Final(run[p].rows)
        /\ \A b \in run[p].lo..run[p].hi : b >= 1 => Row(b) \in run[p].rows
    BY <1>1, <1>2 DEF Runs, InOrder, RunKeeps
  <1>6. Ceiling \in Int /\ cursor \in Nat
    BY ChainSettles DEF IInv, TypeOK
  <1>7. Kept(run[p].hi, raw')
    BY <1>5, <1>6, <1>2 DEF Kept
  <1>8. Kept(cursor', raw')
    BY <1>2, <1>6 DEF Kept, IInv, DataInv
  <1>9. Final(raw')
    BY <1>2, <1>5 DEF Final, IInv, DataInv
  <1>10. RunKeeps(run[p])'
    BY <1>3, <1>4, <1>5, <1>7 DEF RunKeeps, Kept, Row
  <1>11. Kept(cursor, raw)' /\ Final(raw)'
    BY <1>3, <1>8, <1>9 DEF Kept, Final, Row
  <1> QED
    BY <1>2, <1>4, <1>10, <1>11, StepKeeps, TablesKeep DEF DataInv

LEMMA OpenSyncKeeps ==
    ASSUME IInv, [Next]_vars, NEW p \in Procs, OpenSync(p)
    PROVE  DataInv'
  <1> DEFINE from == IF run[p].stage = "full" THEN 0 ELSE cursor
             reset == run[p].stage = "full" /\ cursor # 0
  <1>1. UNCHANGED <<chain, raw, cts, classed>>
    BY DEF OpenSync, tables
  <1>2. from \in Nat /\ (from = 0 \/ from = cursor) /\ reset \in BOOLEAN
    BY DEF IInv, TypeOK
  <1>3. Ceiling \in Int /\ Ceiling' = Ceiling /\ forked' = forked
    BY <1>1, ChainSettles DEF IInv, chain, Ceiling
  <1>4. Kept(from, raw) /\ Kept(from - 1, raw)
    BY <1>2 DEF Kept, IInv, DataInv, TypeOK
  <1>5. CASE Ceiling <= from
    <2>1. Enters(p, At("done")) /\ cursor' = from
      BY <1>5 DEF OpenSync
    <2>2. run'[p] = At("done") /\ \A q \in Procs \ {p} : run'[q] = run[q]
      BY <2>1, EntersAlone DEF IInv
    <2>3. RunKeeps(run[p])'
      BY <2>2 DEF RunKeeps, At
    <2>4. Kept(cursor, raw)'
      BY <1>1, <1>3, <1>4, <2>1 DEF Kept, Row
    <2> QED
      BY <1>1, <2>2, <2>3, <2>4, StepKeeps, TablesKeep DEF DataInv
  <1>6. CASE ~(Ceiling <= from)
    <2>1. Enters(p, SyncFrom(from, Ceiling, reset)) /\ cursor' = cursor
      BY <1>6 DEF OpenSync
    <2>2. Ceiling \in Nat
      BY <1>2, <1>3, <1>6
    <2> HIDE DEF from, reset
    <2>3. /\ run'[p] = SyncFrom(from, Ceiling, reset)
          /\ \A q \in Procs \ {p} : run'[q] = run[q]
      BY <2>1, EntersAlone DEF IInv
    <2>4. RunKeeps(run[p])'
      BY <1>1, <1>2, <1>4, <2>2, <2>3, SyncFromKeeps
    <2> QED
      BY <1>1, <2>1, <2>3, <2>4, StepKeeps, TablesKeep DEF DataInv
  <1> QED
    BY <1>5, <1>6

\* "cursor checkpoint SECOND": what the cursor is set to has been stored.
LEMMA CommitCursorKeeps ==
    ASSUME IInv, [Next]_vars, NEW p \in Procs, CommitCursor(p)
    PROVE  DataInv'
  <1>1. run[p] \in Runs /\ RunKeeps(run[p])
    BY DEF IInv, TypeOK, DataInv
  <1>2. run[p].stage = "rows" /\ cursor' = run[p].hi /\ UNCHANGED <<chain, raw, cts, classed>>
    BY DEF CommitCursor, tables
  <1> DEFINE hi == run[p].hi
             top == run[p].top
  <1>3. hi \in Nat /\ hi + 1 \in Nat /\ top \in Nat /\ top <= Ceiling /\ Kept(hi, raw)
        /\ (hi + 1) - 1 = hi
    BY <1>1, <1>2 DEF Runs, RunKeeps
  <1>4. Enters(p, SyncFrom(hi + 1, top, FALSE))
    BY DEF CommitCursor
  <1>5. forked' = forked /\ Ceiling' = Ceiling
    BY <1>2 DEF chain, Ceiling
  <1>6. Kept(cursor, raw)'
    BY <1>2, <1>3, <1>5 DEF Kept, Row
  <1> HIDE DEF hi, top
  <1>7. /\ run'[p] = SyncFrom(hi + 1, top, FALSE)
        /\ \A q \in Procs \ {p} : run'[q] = run[q]
    BY <1>4, EntersAlone DEF IInv
  <1>8. RunKeeps(run[p])'
    <2>1. Kept((hi + 1) - 1, raw) /\ raw \subseteq raw'
      BY <1>2, <1>3
    <2> QED
      BY <1>3, <1>7, <2>1, SyncFromKeeps
  <1> QED
    BY <1>2, <1>6, <1>7, <1>8, StepKeeps, TablesKeep DEF DataInv

LEMMA OpenClassifyKeeps ==
    ASSUME IInv, [Next]_vars, NEW p \in Procs, OpenClassify(p)
    PROVE  DataInv'
  <1>1. UNCHANGED <<chain, raw, cts, cursor, classed>>
    BY DEF OpenClassify, tables
  <1>2. classed + 1 \in Nat /\ classed + 1 >= 1 /\ cursor \in Nat /\ (classed + 1) - 1 = classed
    BY DEF IInv, TypeOK
  <1>3. /\ run'[p] = ClassifyFrom(classed + 1, cursor)
        /\ \A q \in Procs \ {p} : run'[q] = run[q]
    BY EntersAlone DEF OpenClassify, IInv
  <1>4. Kept((classed + 1) - 1, cts) /\ Kept(cursor, raw)
    BY <1>2 DEF IInv, DataInv
  <1>5. RunKeeps(run[p])'
    BY <1>1, <1>2, <1>3, <1>4, ClassifyFromKeeps
  <1> QED
    BY <1>1, <1>3, <1>5, StepKeeps, TablesKeep DEF DataInv

\* What the classifier reads of a chunk is all there is of it.
LEMMA ReadRowsKeeps ==
    ASSUME IInv, [Next]_vars, NEW p \in Procs, ReadRows(p)
    PROVE  DataInv'
  <1> DEFINE rows == {r \in raw : r[1] \in run[p].lo..run[p].hi}
  <1>1. run[p] \in Runs /\ InOrder(run[p]) /\ RunKeeps(run[p])
    BY DEF IInv, TypeOK, DataInv
  <1>2. run[p].stage = "read" /\ UNCHANGED <<chain, raw, cts, cursor, classed>>
    BY DEF ReadRows, tables
  <1>3. forked' = forked /\ Ceiling' = Ceiling
    BY <1>2 DEF chain, Ceiling
  <1>4. /\ run'[p].stage = "write" /\ run'[p].lo = run[p].lo /\ run'[p].hi = run[p].hi
        /\ run'[p].top = run[p].top /\ run'[p].rows = rows
        /\ \A q \in Procs \ {p} : run'[q] = run[q]
    BY <1>1 DEF ReadRows, IInv, TypeOK, Runs
  <1>5. /\ run[p].lo \in Nat /\ run[p].hi \in Nat /\ run[p].top \in Nat
        /\ run[p].hi <= run[p].top /\ run[p].lo >= 1
        /\ Kept(run[p].lo - 1, cts) /\ Kept(run[p].top, raw)
    BY <1>1, <1>2 DEF Runs, InOrder, RunKeeps
  <1>6. \A b \in run[p].lo..run[p].hi : Row(b) \in rows
    BY <1>5 DEF Kept, Row
  <1>7. Final(rows)
    BY DEF Final, IInv, DataInv
  <1> HIDE DEF rows
  <1>8. RunKeeps(run[p])'
    BY <1>2, <1>3, <1>4, <1>5, <1>6, <1>7 DEF RunKeeps, Kept, Final, Row
  <1> QED
    BY <1>2, <1>4, <1>8, StepKeeps, TablesKeep DEF DataInv

\* The cursor moves with the rows it says are classified.
LEMMA CommitChunkKeeps ==
    ASSUME IInv, [Next]_vars, NEW p \in Procs, CommitChunk(p)
    PROVE  DataInv'
  <1>1. run[p] \in Runs /\ InOrder(run[p]) /\ RunKeeps(run[p])
    BY DEF IInv, TypeOK, DataInv
  <1>2. run[p].stage = "write" /\ cts' = cts \cup run[p].rows /\ classed' = run[p].hi
        /\ UNCHANGED <<chain, raw, cursor>>
    BY DEF CommitChunk
  <1> DEFINE lo == run[p].lo
             hi == run[p].hi
             top == run[p].top
  <1>3. /\ lo \in Nat /\ hi \in Nat /\ hi + 1 \in Nat /\ top \in Nat /\ hi <= top /\ lo >= 1
        /\ (hi + 1) - 1 = hi /\ hi + 1 >= 1
        /\ Kept(lo - 1, cts) /\ Kept(top, raw) /\ Final(run[p].rows)
        /\ \A b \in lo..hi : Row(b) \in run[p].rows
    BY <1>1, <1>2 DEF Runs, InOrder, RunKeeps
  <1>4. Enters(p, ClassifyFrom(hi + 1, top))
    BY DEF CommitChunk
  <1>5. forked' = forked /\ Ceiling' = Ceiling /\ Ceiling \in Int
    BY <1>2, ChainSettles DEF chain, Ceiling, IInv
  <1>6. Kept(hi, cts')
    BY <1>2, <1>3, <1>5 DEF Kept
  <1>7. Kept(classed, cts)'
    BY <1>2, <1>5, <1>6 DEF Kept, Row
  <1>8. Final(cts)'
    BY <1>2, <1>3, <1>5 DEF Final, IInv, DataInv, Row
  <1> HIDE DEF lo, hi, top
  <1>9. /\ run'[p] = ClassifyFrom(hi + 1, top)
        /\ \A q \in Procs \ {p} : run'[q] = run[q]
    BY <1>4, EntersAlone DEF IInv
  <1>10. RunKeeps(run[p])'
    <2>1. Kept((hi + 1) - 1, cts') /\ cts' \subseteq cts' /\ raw \subseteq raw'
      BY <1>2, <1>3, <1>6
    <2> QED
      BY <1>3, <1>9, <2>1, ClassifyFromKeeps
  <1> QED
    BY <1>2, <1>7, <1>8, <1>9, <1>10, StepKeeps, TablesKeep DEF DataInv

\* A process that takes the lock, or is done, or dies, relies on nothing.
LEMMA IdleKeeps ==
    ASSUME IInv, [Next]_vars, NEW p \in Procs,
           NEW stage \in Stages \ {"fetch", "rows", "read", "write"}, Enters(p, At(stage)),
           UNCHANGED <<chain, tables, cursor, classed>>
    PROVE  DataInv'
  <1>1. run'[p] = At(stage) /\ \A q \in Procs \ {p} : run'[q] = run[q]
    BY EntersAlone DEF IInv
  <1>2. RunKeeps(run[p])'
    BY <1>1 DEF RunKeeps, At
  <1> QED
    BY <1>1, <1>2, StepKeeps, TablesKeep DEF DataInv, tables

LEMMA InitData == Init => DataInv
  BY SizesAssumption DEF Init, DataInv, Kept, Final, RunKeeps, At

LEMMA NextData == IInv /\ [Next]_vars => DataInv'
  <1> SUFFICES ASSUME IInv, [Next]_vars PROVE DataInv'
    OBVIOUS
  <1>1. CASE Mine \/ Expire \/ UNCHANGED vars
    <2>1. UNCHANGED <<tables, cursor, classed, run>>
      BY <1>1 DEF Mine, Expire, vars, tables
    <2> QED
      BY <2>1, OthersKeep, TablesKeep DEF DataInv, tables
  <1>2. ASSUME NEW b \in Blocks, Reorganise(b) PROVE DataInv'
    BY <1>2, OthersKeep, TablesKeep DEF Reorganise, DataInv, tables
  <1>3. ASSUME NEW p \in Procs, NEW task \in {"sync", "full", "classify"}, Take(p, task)
        PROVE  DataInv'
    BY <1>3, IdleKeeps DEF Take, Stages
  <1>4. ASSUME NEW p \in Procs, Release(p) \/ Fail(p) \/ Crash(p) PROVE DataInv'
    BY <1>4, IdleKeeps DEF Release, Fail, Crash, Stages
  <1>5. ASSUME NEW p \in Procs, Works(p) PROVE DataInv'
    BY <1>4, <1>5, OpenSyncKeeps, FetchKeeps, HalveKeeps, CommitRowsKeeps, CommitCursorKeeps,
       OpenClassifyKeeps, ReadRowsKeeps, CommitChunkKeeps DEF Works
  <1>6. ASSUME NEW n \in ResetTo, GoesBack(n), ResetClassified(n) PROVE DataInv'
    <2>1. UNCHANGED <<chain, tables, cursor, run>> /\ classed' = n - 1
      BY <1>6 DEF ResetClassified
    <2>2. n - 1 \in Nat /\ classed \in Nat /\ n - 1 <= classed
      BY <1>6, SizesAssumption DEF GoesBack, IInv, TypeOK
    <2>3. forked' = forked /\ Ceiling' = Ceiling
      BY <2>1 DEF chain, Ceiling
    <2>4. Kept(classed, cts)'
      BY <2>1, <2>2, <2>3 DEF Kept, Row, IInv, DataInv, tables
    <2> QED
      BY <2>1, <2>4, OthersKeep, TablesKeep DEF DataInv, tables
  <1> QED
    BY <1>1, <1>2, <1>3, <1>4, <1>5, <1>6 DEF Next

\* The strengthening all of the data properties follow from.
THEOREM WalletSound == Spec => []IInv
  <1>1. Init => IInv
    BY InitTyped, InitData DEF IInv
  <1>2. IInv /\ [Next]_vars => IInv'
    BY NextTyped, NextData DEF IInv
  <1> QED
    BY <1>1, <1>2, PTL DEF Spec

\* sync_wallet: whatever fails, dies, overlaps or starts over, the rows of every block up
\* to last_synced_block are in the raw tables.
THEOREM SyncLeavesNoGap == Spec => []NoBlockSkipped
  <1>1. IInv => NoBlockSkipped
    BY DEF IInv, DataInv, Kept, NoBlockSkipped, RowsOf, TypeOK
  <1> QED
    BY <1>1, WalletSound, PTL

\* The confirmation depth: no row that is stored can be reorganised away.
THEOREM StoredRowsAreFinal == Spec => []RowsAreFinal
  <1>1. IInv => RowsAreFinal
    <2> SUFFICES ASSUME IInv, NEW r \in raw PROVE r \in RowsOf(1..Ceiling)
      BY DEF RowsAreFinal
    <2>1. PICK b \in 1..Ceiling : r = Row(b)
      BY DEF IInv, DataInv, Final
    <2>2. Ceiling \in Int /\ Ceiling <= head /\ head \in Nat
      BY SizesAssumption DEF IInv, TypeOK, Ceiling
    <2> QED
      BY <2>1, <2>2 DEF RowsOf
  <1> QED
    BY <1>1, WalletSound, PTL

\* classify_wallet_task: every block up to last_classified_block is classified, from the
\* rows that are final.
THEOREM ClassifierLeavesNoGap == Spec => []NoBlockUnclassified
  <1>1. IInv => NoBlockUnclassified
    BY DEF IInv, DataInv, Kept, NoBlockUnclassified, RowsOf, TypeOK
  <1> QED
    BY <1>1, WalletSound, PTL

-----------------------------------------------------------------------------
(* Both cursors are resumable crawls                                        *)

LEMMA TablesGrow ==
    ASSUME [Next]_vars
    PROVE  raw \subseteq raw' /\ cts \subseteq cts'
  <1>1. CASE UNCHANGED vars
    BY <1>1 DEF vars, tables
  <1>2. CASE \E p \in Procs : Works(p)
    BY <1>2 DEF Works, Release, OpenSync, Fetch, Halve, CommitRows, CommitCursor,
                OpenClassify, ReadRows, CommitChunk, tables
  <1>3. CASE Mine \/ Expire \/ \E b \in Blocks : Reorganise(b)
    BY <1>3 DEF Mine, Expire, Reorganise, tables
  <1>4. CASE \E n \in ResetTo : ResetClassified(n)
    BY <1>4 DEF ResetClassified, tables
  <1>5. CASE \E p \in Procs : \/ \E task \in {"sync", "full", "classify"} : Take(p, task)
                              \/ Fail(p) \/ Crash(p)
    BY <1>5 DEF Take, Fail, Crash, tables
  <1> QED
    BY <1>1, <1>2, <1>3, <1>4, <1>5 DEF Next

\* A block that is settled in a table stays so.
LEMMA SettledGrows ==
    ASSUME IInv, [Next]_vars, NEW S, NEW T, S \subseteq T
    PROVE  Settled(S) \subseteq {b \in Blocks : b <= Ceiling' /\ Row(b)' \in T}
  <1> SUFFICES ASSUME NEW b \in Blocks, b <= Ceiling, Row(b) \in S
               PROVE  b <= Ceiling' /\ Row(b)' \in T
    BY DEF Settled
  <1> QED
    BY RowSettles, SizesAssumption DEF IInv, Blocks

\* The sync implements Crawl: every step of it stores blocks, sets the cursor behind what
\* is stored, or is none of the crawl's business.
THEOREM SyncRefinesCrawl == Spec => SyncIsACrawl
  <1>1. Init => Sync!Init
    BY SizesAssumption DEF Init, Sync!Init, Settled, Blocks
  <1>2. IInv /\ IInv' /\ [Next]_vars => [Sync!Next]_<<cursor, Settled(raw)>>
    <2> SUFFICES ASSUME IInv, IInv', [Next]_vars
                 PROVE  Sync!Next
      OBVIOUS
    <2>1. Settled(raw) \subseteq Settled(raw)'
      BY SettledGrows, TablesGrow DEF Settled
    <2>2. cursor' \in Nat /\ 1..cursor' \subseteq Settled(raw)'
      <3>1. TypeOK' /\ Kept(cursor, raw)'
        BY DEF IInv, DataInv
      <3>2. \A b \in 1..cursor' : b <= Ceiling' /\ Row(b)' \in raw'
        BY <3>1 DEF Kept
      <3>3. cursor' \in Nat /\ head' \in Nat /\ head' <= MaxHead
        BY <3>1 DEF TypeOK
      <3>4. Ceiling' \in Int /\ Ceiling' <= MaxHead
        <4>1. \A c, h, top \in Nat : h <= top => h - c \in Int /\ h - c <= top
          OBVIOUS
        <4>2. head' - Confirmations \in Int /\ head' - Confirmations <= MaxHead
          BY <3>3, <4>1, SizesAssumption
        <4> QED
          BY <4>2 DEF Ceiling
      <3>5. \A b \in 1..cursor' : b \in Blocks
        BY <3>2, <3>3, <3>4, SizesAssumption DEF Blocks
      <3> QED
        BY <3>2, <3>3, <3>5 DEF Settled
    <2> QED
      BY <2>1, <2>2 DEF Sync!Next, Sync!Advance
  <1> QED
    BY <1>1, <1>2, WalletSound, PTL DEF Spec, SyncIsACrawl, Sync!Spec

\* The classification implements it as well, on a cursor a user may set back.
THEOREM ClassifierRefinesCrawl == Spec => ClassifyingIsACrawl
  <1>1. Init => Classifying!Init
    BY SizesAssumption DEF Init, Classifying!Init, Settled, Blocks
  <1>2. IInv /\ IInv' /\ [Next]_vars => [Classifying!Next]_<<classed, Settled(cts)>>
    <2> SUFFICES ASSUME IInv, IInv', [Next]_vars
                 PROVE  Classifying!Next
      OBVIOUS
    <2>1. Settled(cts) \subseteq Settled(cts)'
      BY SettledGrows, TablesGrow DEF Settled
    <2>2. classed' \in Nat /\ 1..classed' \subseteq Settled(cts)'
      <3>1. TypeOK' /\ Kept(classed, cts)'
        BY DEF IInv, DataInv
      <3>2. \A b \in 1..classed' : b <= Ceiling' /\ Row(b)' \in cts'
        BY <3>1 DEF Kept
      <3>3. classed' \in Nat /\ head' \in Nat /\ head' <= MaxHead
        BY <3>1 DEF TypeOK
      <3>4. Ceiling' \in Int /\ Ceiling' <= MaxHead
        <4>1. \A c, h, top \in Nat : h <= top => h - c \in Int /\ h - c <= top
          OBVIOUS
        <4>2. head' - Confirmations \in Int /\ head' - Confirmations <= MaxHead
          BY <3>3, <4>1, SizesAssumption
        <4> QED
          BY <4>2 DEF Ceiling
      <3>5. \A b \in 1..classed' : b \in Blocks
        BY <3>2, <3>3, <3>4, SizesAssumption DEF Blocks
      <3> QED
        BY <3>2, <3>3, <3>5 DEF Settled
    <2> QED
      BY <2>1, <2>2 DEF Classifying!Next, Classifying!Advance
  <1> QED
    BY <1>1, <1>2, WalletSound, PTL DEF Spec, ClassifyingIsACrawl, Classifying!Spec

-----------------------------------------------------------------------------
(* The lock                                                                 *)

\* wallet_sync_lock: a worker that runs a task holds the lock, whatever consoles do whose
\* lock has expired: no other process deletes or takes it.
THEOREM LockIsExclusive == Spec => []WorkersHoldTheLock
  <1>1. Init => WorkersHoldTheLock
    BY DEF Init, WorkersHoldTheLock, At, Procs
  <1>2. TypeOK /\ WorkersHoldTheLock /\ [Next]_vars => WorkersHoldTheLock'
    <2> SUFFICES ASSUME TypeOK, WorkersHoldTheLock, [Next]_vars,
                        NEW w \in Workers, run'[w].stage # "idle"
                 PROVE  lock' = w
      BY DEF WorkersHoldTheLock
    <2>1. w \in Procs /\ w # Free /\ w # Dead
      BY ProcsAssumption DEF Procs
    <2>2. run[w].stage # "idle" => lock = w
      BY DEF WorkersHoldTheLock
    <2>3. ASSUME NEW p \in Procs, NEW task \in {"sync", "full", "classify"}, Take(p, task)
          PROVE  lock' = w
      <3>1. CASE p = w
        BY <2>3, <3>1 DEF Take
      <3>2. CASE p # w
        BY <2>1, <2>2, <2>3, <3>2, EntersAlone DEF Take
      <3> QED
        BY <3>1, <3>2
    <2>4. ASSUME NEW p \in Procs, Release(p) \/ Fail(p) \/ Crash(p)
          PROVE  lock' = w
      <3>1. /\ Enters(p, At("idle"))
            /\ lock' = lock \/ lock = p
        BY <2>4 DEF Release, Fail, Crash, Freed
      <3>2. p # w /\ run'[w] = run[w]
        BY <2>1, <3>1, EntersAlone DEF At
      <3> QED
        BY <2>2, <3>1, <3>2
    <2>5. ASSUME NEW p \in Procs, Works(p), ~Release(p)
          PROVE  lock' = w
      <3>1. lock' = lock /\ run[p].stage # "idle"
        BY <2>5 DEF Works, OpenSync, Fetch, Halve, CommitRows, CommitCursor,
                    OpenClassify, ReadRows, CommitChunk
      <3>2. \E r : run' = [run EXCEPT ![p] = r]
        BY <2>5 DEF Works, OpenSync, Fetch, Halve, CommitRows, CommitCursor,
                    OpenClassify, ReadRows, CommitChunk, Enters
      <3>3. p # w => run'[w] = run[w]
        BY <2>1, <3>2 DEF TypeOK
      <3> QED
        BY <2>2, <3>1, <3>3
    <2>6. CASE Expire
      BY <2>2, <2>6 DEF Expire
    <2>7. CASE Mine \/ UNCHANGED vars
      BY <2>2, <2>7 DEF Mine, vars
    <2>8. ASSUME NEW b \in Blocks, Reorganise(b) PROVE lock' = w
      BY <2>2, <2>8 DEF Reorganise
    <2>9. ASSUME NEW n \in ResetTo, ResetClassified(n) PROVE lock' = w
      BY <2>2, <2>9 DEF ResetClassified
    <2> QED
      BY <2>3, <2>4, <2>5, <2>6, <2>7, <2>8, <2>9 DEF Next
  <1> QED
    BY <1>1, <1>2, TypeCorrect, PTL DEF Spec
=============================================================================

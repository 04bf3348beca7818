--------------------------- MODULE PricingProofs ----------------------------
(***************************************************************************)
(* Proofs about PriceCache and PriceHistory, the two halves of pricing that  *)
(* share no state: today's prices, for every number of callers and every     *)
(* market; the past's, for every log, every number of crawlers and every     *)
(* size of chunk.                                                            *)
(***************************************************************************)
EXTENDS PriceCache, PriceHistory, FiniteSetTheorems, SequenceTheorems, TLAPS

-----------------------------------------------------------------------------
(* Today: PriceCache                                                        *)

\* A call was made in the past, and what it is about to store as fresh was read since.
Dated ==
    \A c \in Callers :
        /\ calls[c].since <= now
        /\ At(c, "set_fresh") => calls[c].got \in Times /\ calls[c].since <= calls[c].got

CacheInv == TypeOK /\ StampedeBounded /\ Dated

-----------------------------------------------------------------------------
(* Calls                                                                    *)

LEMMA QuietIsCall == Quiet \in Calls
  <1>1. 0 \in Times
    BY BoundsAssumption DEF Times
  <1>2. <<>> \in Seq(Sources)
    BY EmptySeq
  <1> QED
    BY <1>1, <1>2 DEF Quiet, Calls, Stages

\* Every cascade is a sequence of sources.
LEMMA CascadeTyped ==
    ASSUME NEW sym, NEW use
    PROVE  SourcesFor(sym, use) \in Seq(Sources)
  <1> DEFINE oracle == IF use = "fmv" THEN <<"oracle_daily_avg">> ELSE <<"oracle_spot">>
             web == <<"coingecko", "coinmarketcap">>
             tail == IF use = "fmv" THEN <<>> ELSE <<"last_known_good">>
  <1>1. oracle \in Seq(Sources) /\ web \in Seq(Sources)
    <2>1. <<"oracle_daily_avg">> \in Seq(Sources)
      BY DEF Sources, Quotes
    <2>2. <<"oracle_spot">> \in Seq(Sources)
      BY DEF Sources, Quotes
    <2>3. web \in Seq(Sources)
      BY DEF Sources, Quotes
    <2>4. CASE use = "fmv"
      BY <2>1, <2>3, <2>4
    <2>5. CASE use # "fmv"
      BY <2>2, <2>3, <2>5
    <2> QED
      BY <2>4, <2>5
  <1>2. tail \in Seq(Sources)
    <2>1. <<"last_known_good">> \in Seq(Sources)
      BY DEF Sources
    <2>2. <<>> \in Seq(Sources)
      OBVIOUS
    <2>3. CASE use = "fmv"
      BY <2>2, <2>3
    <2>4. CASE use # "fmv"
      BY <2>1, <2>4
    <2> QED
      BY <2>3, <2>4
  <1>3. <<"stable_peg">> \in Seq(Sources)
    BY DEF Sources
  <1>4. SourcesFor(sym, use) = CASE sym = "LUSD" -> <<"stable_peg">>
         [] sym = "LEMX" -> oracle \o web \o tail
         [] OTHER -> oracle \o tail
    BY DEF SourcesFor
  <1> HIDE DEF oracle, web, tail
  <1>5. \A s, t \in Seq(Sources) : s \o t \in Seq(Sources)
    BY ConcatProperties
  <1>6. oracle \o tail \in Seq(Sources)
    BY <1>1, <1>2, <1>5
  <1>7. oracle \o web \o tail \in Seq(Sources)
    <2>1. oracle \o web \in Seq(Sources)
      BY <1>1, <1>5
    <2> QED
      BY <2>1, <1>2, <1>5
  <1>8. CASE sym = "LUSD"
    BY <1>3, <1>4, <1>8
  <1>9. CASE sym = "LEMX"
    BY <1>7, <1>4, <1>9
  <1> QED
    BY <1>6, <1>4, <1>8, <1>9

\* What a source answers is a time it was read at, and a live source answers now.
LEMMA AnswerTyped ==
    ASSUME TypeOK, NEW source
    PROVE  /\ Answer(source) \in Times \cup {None}
           /\ Answer(source) # None /\ source # "last_known_good" => Answer(source) = now
  <1>1. up \subseteq Quotes
    BY MarketsAssumption DEF TypeOK
  <1>2. "last_known_good" \notin up \cup {"stable_peg"}
    BY <1>1 DEF Quotes
  <1>3. CASE source = "last_known_good"
    BY <1>2, <1>3 DEF Answer, TypeOK
  <1>4. CASE source \in up \cup {"stable_peg"}
    BY <1>2, <1>4 DEF Answer, TypeOK
  <1>5. CASE source # "last_known_good" /\ source \notin up \cup {"stable_peg"}
    BY <1>5 DEF Answer
  <1> QED
    BY <1>3, <1>4, <1>5

\* A caller's step, in one place: the others' calls stay, its own is the given one.
LEMMA EntersTyped ==
    ASSUME TypeOK, NEW c \in Callers, NEW call \in Calls, Enters(c, call)
    PROVE  /\ calls' \in [Callers -> Calls] /\ calls'[c] = call
           /\ \A d \in Callers \ {c} : calls'[d] = calls[d]
  BY DEF TypeOK, Enters

LEMMA GoesTyped ==
    ASSUME TypeOK, NEW c \in Callers, NEW stage \in Stages, Goes(c, stage)
    PROVE  /\ calls' \in [Callers -> Calls]
           /\ calls'[c] = [calls[c] EXCEPT !.stage = stage]
           /\ \A d \in Callers \ {c} : calls'[d] = calls[d]
  <1>1. [calls[c] EXCEPT !.stage = stage] \in Calls
    BY DEF TypeOK, Calls
  <1> QED
    BY <1>1, EntersTyped DEF Goes

LEMMA ToldTyped ==
    ASSUME TypeOK, NEW c \in Callers, NEW stale \in BOOLEAN, Told(c, stale)
    PROVE  /\ calls' \in [Callers -> Calls]
           /\ calls'[c].stage = "idle" /\ calls'[c].since = 0
           /\ \A d \in Callers \ {c} : calls'[d] = calls[d]
  <1> DEFINE call == [Quiet EXCEPT !.use = calls[c].use, !.stale = stale]
  <1>1. calls[c].use \in {"spot", "fmv"}
    BY DEF TypeOK, Calls
  <1>2. call \in Calls
    BY <1>1, QuietIsCall DEF Calls
  <1>3. call.stage = "idle" /\ call.since = 0
    BY DEF Quiet
  <1>4. Enters(c, call)
    BY DEF Told
  <1> HIDE DEF call
  <1> QED
    BY <1>2, <1>3, <1>4, EntersTyped

-----------------------------------------------------------------------------
(* Types and dates                                                          *)

LEMMA InitSound == Init => CacheInv
  <1> SUFFICES ASSUME Init PROVE CacheInv
    OBVIOUS
  <1>1. 0 \in Times /\ 0 \in Nat
    BY BoundsAssumption DEF Times
  <1>2. calls \in [Callers -> Calls] /\ \A c \in Callers : calls[c] = Quiet
    BY QuietIsCall DEF Init
  <1>3. TypeOK
    BY <1>1, <1>2 DEF Init, TypeOK
  <1>4. Resolvers = {}
    BY <1>2 DEF Resolvers, Resolving, Quiet
  <1>5. StampedeBounded
    BY <1>4, FS_EmptySet DEF StampedeBounded, Init
  <1>6. Dated
    BY <1>2 DEF Init, Dated, At, Quiet
  <1> QED
    BY <1>3, <1>5, <1>6 DEF CacheInv

\* The caller of a step is as it should be: then all of them are, for the time stands.
LEMMA DatedStays ==
    ASSUME TypeOK, Dated, now' = now, NEW c \in Callers,
           \A d \in Callers \ {c} : calls'[d] = calls[d],
           calls'[c].since <= now,
           calls'[c].stage = "set_fresh" =>
              calls'[c].got \in Times /\ calls'[c].since <= calls'[c].got
    PROVE  Dated'
  <1> SUFFICES ASSUME NEW d \in Callers
               PROVE  /\ calls'[d].since <= now
                      /\ calls'[d].stage = "set_fresh" =>
                            calls'[d].got \in Times /\ calls'[d].since <= calls'[d].got
    BY DEF Dated, At
  <1>1. CASE d = c
    BY <1>1
  <1>2. CASE d # c
    BY <1>2 DEF Dated, At
  <1> QED
    BY <1>1, <1>2

\* A caller that goes on without a price.
LEMMA GoesSound ==
    ASSUME TypeOK, Dated, NEW c \in Callers, now' = now,
           NEW stage \in Stages \ {"set_fresh"}, Goes(c, stage)
    PROVE  calls' \in [Callers -> Calls] /\ Dated'
  <1>1. calls' \in [Callers -> Calls] /\ calls'[c] = [calls[c] EXCEPT !.stage = stage]
    BY GoesTyped
  <1>2. \A d \in Callers \ {c} : calls'[d] = calls[d]
    BY GoesTyped
  <1>3. calls'[c].stage = stage /\ calls'[c].since = calls[c].since
    BY <1>1 DEF TypeOK, Calls
  <1> QED
    BY <1>1, <1>2, <1>3, DatedStays DEF Dated

LEMMA ToldSound ==
    ASSUME TypeOK, Dated, NEW c \in Callers, now' = now, NEW stale \in BOOLEAN,
           Told(c, stale)
    PROVE  calls' \in [Callers -> Calls] /\ Dated'
  <1>1. 0 <= now
    BY DEF TypeOK, Times
  <1> QED
    BY <1>1, ToldTyped, DatedStays

LEMMA AskSound ==
    ASSUME TypeOK, Dated, NEW c \in Callers, NEW use \in {"spot", "fmv"}, Ask(c, use)
    PROVE  calls' \in [Callers -> Calls] /\ Dated'
  <1> DEFINE call == [Quiet EXCEPT !.stage = "fresh", !.use = use, !.since = now]
  <1>1. call \in Calls
    BY QuietIsCall DEF Calls, Stages, TypeOK
  <1>2. call.stage = "fresh" /\ call.since = now
    BY DEF Quiet
  <1>3. Enters(c, call) /\ now' = now
    BY DEF Ask, world
  <1>4. now <= now
    BY DEF TypeOK, Times
  <1> HIDE DEF call
  <1> QED
    BY <1>1, <1>2, <1>3, <1>4, EntersTyped, DatedStays

LEMMA AcquireSound ==
    ASSUME TypeOK, Dated, NEW c \in Callers, Acquire(c)
    PROVE  calls' \in [Callers -> Calls] /\ Dated'
  <1>1. CASE lock
    BY <1>1, GoesSound DEF Acquire, world, Stages
  <1>2. CASE ~lock
    <2> DEFINE cascade == SourcesFor(symbol, calls[c].use)
               call == [calls[c] EXCEPT !.stage = "sources", !.left = cascade]
    <2>1. cascade \in Seq(Sources)
      BY CascadeTyped
    <2> HIDE DEF cascade
    <2>2. call \in Calls
      BY <2>1 DEF Calls, Stages, TypeOK
    <2>3. call.stage = "sources" /\ call.since = calls[c].since
      BY DEF TypeOK, Calls
    <2>4. Enters(c, call) /\ now' = now
      BY <1>2 DEF Acquire, world, cascade
    <2> HIDE DEF call
    <2> QED
      BY <2>2, <2>3, <2>4, EntersTyped, DatedStays DEF Dated
  <1> QED
    BY <1>1, <1>2

\* One turn of the walk: only a live source leads to the fresh tier, with a price of now.
LEMMA TrySourceSound ==
    ASSUME TypeOK, Dated, NEW c \in Callers, TrySource(c)
    PROVE  calls' \in [Callers -> Calls] /\ Dated'
  <1> DEFINE left == calls[c].left
             price == Answer(Head(left))
             stale == Head(left) = "last_known_good"
  <1>1. now' = now /\ left \in Seq(Sources)
    BY DEF TrySource, world, TypeOK, Calls
  <1>2. price \in Times \cup {None} /\ (price # None /\ ~stale => price = now)
    BY AnswerTyped
  <1>3. CASE left = <<>>
    <2>1. Goes(c, "set_negative")
      BY <1>3 DEF TrySource
    <2> QED
      BY <1>1, <2>1, GoesSound DEF Stages
  <1>4. CASE left # <<>> /\ price = None
    <2> DEFINE call == [calls[c] EXCEPT !.left = Tail(left)]
    <2>1. Tail(left) \in Seq(Sources)
      BY <1>1, <1>4
    <2>2. call \in Calls
      BY <2>1 DEF TypeOK, Calls
    <2>3. call.stage = "sources" /\ call.since = calls[c].since
      BY DEF TrySource, At, TypeOK, Calls
    <2>4. Enters(c, call)
      BY <1>4 DEF TrySource
    <2> HIDE DEF call
    <2> QED
      BY <1>1, <2>2, <2>3, <2>4, EntersTyped, DatedStays DEF Dated
  <1>5. CASE left # <<>> /\ price # None
    <2> DEFINE call == [calls[c] EXCEPT !.stage = AfterSource(stale), !.left = <<>>,
                                        !.got = price, !.stale = stale]
    <2>1. Enters(c, call)
      BY <1>5 DEF TrySource
    <2> HIDE DEF price, stale
    <2>2. AfterSource(stale) \in Stages /\ (AfterSource(stale) = "set_fresh" => ~stale)
      BY DEF AfterSource, Stages
    <2>3. stale \in BOOLEAN
      BY DEF stale
    <2>4. call \in Calls
      BY <1>2, <2>2, <2>3, EmptySeq DEF TypeOK, Calls
    <2>5. /\ call.stage = AfterSource(stale) /\ call.since = calls[c].since
          /\ call.got = price
      BY DEF TypeOK, Calls
    <2>6. call.stage = "set_fresh" => call.got \in Times /\ call.since <= call.got
      BY <1>2, <1>5, <2>2, <2>5 DEF Dated, TypeOK
    <2> HIDE DEF call
    <2> QED
      BY <1>1, <2>1, <2>4, <2>5, <2>6, EntersTyped, DatedStays DEF Dated
  <1> QED
    BY <1>3, <1>4, <1>5

\* Every other step of a caller that is told something or goes on.
LEMMA WorkSound ==
    ASSUME TypeOK, Dated, NEW c \in Callers, Work(c)
    PROVE  calls' \in [Callers -> Calls] /\ Dated' /\ now' = now
  <1>1. now' = now
    BY DEF Work, ReadFresh, ReadNegative, Acquire, ReadLkg, TrySource, SetFresh, SetLkg,
           SetNegative, Release, world
  <1>2. CASE ReadFresh(c)
    BY <1>1, <1>2, GoesSound, ToldSound DEF ReadFresh, Stages
  <1>3. CASE ReadNegative(c)
    BY <1>1, <1>3, GoesSound, ToldSound DEF ReadNegative, Stages
  <1>4. CASE Acquire(c)
    BY <1>1, <1>4, AcquireSound
  <1>5. CASE ReadLkg(c)
    BY <1>1, <1>5, ToldSound DEF ReadLkg
  <1>6. CASE TrySource(c)
    BY <1>1, <1>6, TrySourceSound
  <1>7. CASE SetFresh(c)
    BY <1>1, <1>7, GoesSound DEF SetFresh, Stages
  <1>8. CASE SetLkg(c)
    BY <1>1, <1>8, GoesSound DEF SetLkg, Stages
  <1>9. CASE SetNegative(c)
    BY <1>1, <1>9, GoesSound DEF SetNegative, Stages
  <1>10. CASE Release(c)
    <2>1. calls[c].stale \in BOOLEAN
      BY DEF TypeOK, Calls
    <2> QED
      BY <1>1, <1>10, <2>1, ToldSound DEF Release
  <1> QED
    BY <1>1, <1>2, <1>3, <1>4, <1>5, <1>6, <1>7, <1>8, <1>9, <1>10 DEF Work

\* What a call has in hand to store is a time or nothing.
LEMMA GotTyped ==
    ASSUME TypeOK, NEW c \in Callers
    PROVE  calls[c].got \in Times \cup {None}
  BY DEF TypeOK, Calls

LEMMA NextSound ==
    ASSUME TypeOK, Dated, [Next]_vars
    PROVE  TypeOK' /\ Dated'
  <1>1. CASE UNCHANGED vars
    BY <1>1 DEF vars, world, cache, TypeOK, Dated, At
  <1>2. CASE \E S \in Markets : MarketMoves(S)
    <2>1. calls' = calls /\ now' = now + 1 /\ now' \in Times /\ now \in Nat
      BY <1>2, BoundsAssumption DEF MarketMoves, Times, TypeOK
    <2>2. Dated'
      <3>1. \A c \in Callers : calls[c].since \in Nat
        BY DEF TypeOK, Calls, Times
      <3> QED
        BY <2>1, <3>1 DEF Dated, At
    <2> QED
      BY <1>2, <2>1, <2>2 DEF MarketMoves, cache, TypeOK
  <1>3. CASE Expiry
    <2>1. UNCHANGED <<world, calls, deaths>>
      BY <1>3 DEF Expiry, FreshExpires, LkgExpires, NegativeExpires, LockRunsOut, cache
    <2>2. overruns' \in Nat /\ lock' \in BOOLEAN /\ negative' \in BOOLEAN
      <3>1. overruns \in Nat /\ lock \in BOOLEAN /\ negative \in BOOLEAN
        BY DEF TypeOK
      <3>2. overruns' \in {overruns, overruns + 1}
        BY <1>3 DEF Expiry, FreshExpires, LkgExpires, NegativeExpires, LockRunsOut
      <3>3. lock' \in {lock, FALSE} /\ negative' \in {negative, FALSE}
        BY <1>3 DEF Expiry, FreshExpires, LkgExpires, NegativeExpires, LockRunsOut, cache
      <3>4. overruns' \in Nat
        BY <3>1, <3>2
      <3> QED
        BY <3>1, <3>3, <3>4
    <2>3. fresh' \in {fresh, None} /\ lkg' \in {lkg, None}
      BY <1>3 DEF Expiry, FreshExpires, LkgExpires, NegativeExpires, LockRunsOut, cache
    <2> QED
      BY <2>1, <2>2, <2>3 DEF world, TypeOK, Dated, At
  <1>4. CASE \E c \in Callers, use \in {"spot", "fmv"} : Ask(c, use)
    <2>1. calls' \in [Callers -> Calls] /\ Dated'
      BY <1>4, AskSound
    <2> QED
      BY <1>4, <2>1 DEF Ask, world, cache, TypeOK
  <1>5. CASE \E c \in Callers : Work(c)
    <2> PICK c \in Callers : Work(c)
      BY <1>5
    <2>1. calls' \in [Callers -> Calls] /\ Dated' /\ UNCHANGED world
      BY WorkSound DEF Work, ReadFresh, ReadNegative, Acquire, ReadLkg, TrySource, SetFresh,
                       SetLkg, SetNegative, Release
    <2>2. /\ fresh' \in {fresh, calls[c].got} /\ lkg' \in {lkg, calls[c].got}
          /\ negative' \in {negative, TRUE} /\ lock' \in {lock, TRUE, FALSE}
          /\ UNCHANGED <<overruns, deaths>>
      BY DEF Work, ReadFresh, ReadNegative, Acquire, ReadLkg, TrySource, SetFresh, SetLkg,
             SetNegative, Release, cache
    <2> QED
      BY <2>1, <2>2, GotTyped DEF TypeOK, world
  <1>6. CASE \E c \in Callers : Die(c) \/ WriteFails(c)
    <2> PICK c \in Callers : Die(c) \/ WriteFails(c)
      BY <1>6
    <2>1. Told(c, FALSE) /\ UNCHANGED <<world, cache, overruns>>
      BY DEF Die, WriteFails
    <2>2. deaths' \in Nat
      <3>1. deaths' = deaths + 1 /\ deaths \in Nat
        BY DEF Die, WriteFails, TypeOK
      <3> QED
        BY <3>1
    <2>3. lock \in BOOLEAN /\ lock' \in {lock, FALSE}
      BY DEF Die, WriteFails, TypeOK
    <2>4. lock' \in BOOLEAN
      BY <2>3
    <2>5. calls' \in [Callers -> Calls] /\ Dated'
      BY <2>1, ToldSound DEF world
    <2> QED
      BY <2>1, <2>2, <2>4, <2>5 DEF TypeOK, world, cache
  <1> QED
    BY <1>1, <1>2, <1>3, <1>4, <1>5, <1>6 DEF Next

-----------------------------------------------------------------------------
(* The herd                                                                 *)

LEMMA HerdFinite ==
    ASSUME NEW T \in SUBSET Callers
    PROVE  IsFiniteSet(T) /\ Cardinality(T) \in Nat
  BY CallersAssumption, FS_Subset, FS_CardinalityType

\* One caller's step adds at most itself to the callers at the sources, and takes at most
\* itself away.
LEMMA OneStep ==
    ASSUME NEW c \in Callers, \A d \in Callers \ {c} : calls'[d] = calls[d]
    PROVE  /\ Cardinality(Resolvers) \in Nat /\ Cardinality(Resolvers') \in Nat
           /\ calls'[c].stage \in Resolving /\ calls[c].stage \notin Resolving =>
                Cardinality(Resolvers') = Cardinality(Resolvers) + 1
           /\ calls'[c].stage \notin Resolving /\ calls[c].stage \in Resolving =>
                Cardinality(Resolvers') = Cardinality(Resolvers) - 1
           /\ (calls'[c].stage \in Resolving <=> calls[c].stage \in Resolving) =>
                Cardinality(Resolvers') = Cardinality(Resolvers)
  <1>1. Resolvers \subseteq Callers /\ Resolvers' \subseteq Callers
    BY DEF Resolvers
  <1>2. IsFiniteSet(Resolvers) /\ Cardinality(Resolvers) \in Nat
    BY <1>1, HerdFinite
  <1>3. Cardinality(Resolvers') \in Nat
    BY <1>1, HerdFinite
  <1>4. ASSUME calls'[c].stage \in Resolving, calls[c].stage \notin Resolving
        PROVE  Cardinality(Resolvers') = Cardinality(Resolvers) + 1
    <2>1. Resolvers' = Resolvers \cup {c} /\ c \notin Resolvers
      BY <1>4 DEF Resolvers, Resolving
    <2> QED
      BY <1>2, <2>1, FS_AddElement
  <1>5. ASSUME calls'[c].stage \notin Resolving, calls[c].stage \in Resolving
        PROVE  Cardinality(Resolvers') = Cardinality(Resolvers) - 1
    <2>1. Resolvers' = Resolvers \ {c} /\ c \in Resolvers
      BY <1>5 DEF Resolvers, Resolving
    <2> QED
      BY <1>2, <2>1, FS_RemoveElement
  <1>6. ASSUME calls'[c].stage \in Resolving <=> calls[c].stage \in Resolving
        PROVE  Cardinality(Resolvers') = Cardinality(Resolvers)
    <2>1. Resolvers' = Resolvers
      BY <1>6 DEF Resolvers, Resolving
    <2> QED
      BY <2>1
  <1> QED
    BY <1>2, <1>3, <1>4, <1>5, <1>6

\* Where a caller goes to, and what becomes of the lock.  Only who has just set the lock
\* starts to resolve, and only who resolves deletes it.
LEMMA CallerMoves ==
    ASSUME TypeOK, TypeOK', NEW c \in Callers,
           \/ \E use \in {"spot", "fmv"} : Ask(c, use)
           \/ Work(c) \/ Die(c) \/ WriteFails(c)
    PROVE  /\ \A d \in Callers \ {c} : calls'[d] = calls[d]
           /\ overruns' = overruns
           /\ \/ /\ ~lock /\ lock'
                 /\ calls[c].stage \notin Resolving /\ calls'[c].stage \in Resolving
              \/ /\ lock' = lock
                 /\ calls'[c].stage \in Resolving => calls[c].stage \in Resolving
              \/ /\ ~lock'
                 /\ calls[c].stage \in Resolving /\ calls'[c].stage \notin Resolving
  <1>1. overruns' = overruns
    BY DEF Ask, Work, ReadFresh, ReadNegative, Acquire, ReadLkg, TrySource, SetFresh,
           SetLkg, SetNegative, Release, Die, WriteFails
  <1>2. \A d \in Callers \ {c} : calls'[d] = calls[d]
    BY DEF Ask, Work, ReadFresh, ReadNegative, Acquire, ReadLkg, TrySource, SetFresh, SetLkg,
           SetNegative, Release, Die, WriteFails, Goes, Told, Enters, TypeOK
  <1>3. calls'[c].stage = "idle" \/ Work(c) \/ \E use \in {"spot", "fmv"} : Ask(c, use)
    BY ToldTyped DEF Die, WriteFails
  <1> DEFINE Moves == \/ /\ ~lock /\ lock'
                         /\ calls[c].stage \notin Resolving /\ calls'[c].stage \in Resolving
                      \/ /\ lock' = lock
                         /\ calls'[c].stage \in Resolving => calls[c].stage \in Resolving
                      \/ /\ ~lock'
                         /\ calls[c].stage \in Resolving /\ calls'[c].stage \notin Resolving
  <1>4. ASSUME NEW stage \in Stages, Goes(c, stage) PROVE calls'[c].stage = stage
    <2>1. calls'[c] = [calls[c] EXCEPT !.stage = stage]
      BY <1>4, GoesTyped
    <2> QED
      BY <2>1 DEF TypeOK, Calls
  <1>5. CASE \E use \in {"spot", "fmv"} : Ask(c, use)
    <2>1. calls'[c].stage = "fresh" /\ lock' = lock
      BY <1>5 DEF Ask, Enters, Quiet, TypeOK
    <2> QED
      BY <1>1, <1>2, <2>1 DEF Resolving
  <1>6. CASE ReadFresh(c) \/ ReadNegative(c) \/ ReadLkg(c)
    <2>1. calls'[c].stage \in {"idle", "negative", "acquire"} /\ lock' = lock
      BY <1>4, <1>6, ToldTyped DEF ReadFresh, ReadNegative, ReadLkg, Stages
    <2> QED
      BY <1>1, <1>2, <2>1 DEF Resolving
  <1>7. CASE Acquire(c)
    <2>1. CASE lock
      <3>1. calls'[c].stage = "fallback" /\ lock' = lock
        BY <1>4, <1>7, <2>1 DEF Acquire, Stages, TypeOK
      <3> QED
        BY <1>1, <1>2, <3>1 DEF Resolving
    <2>2. CASE ~lock
      <3>1. calls'[c].stage = "sources" /\ lock' /\ calls[c].stage = "acquire"
        BY <1>7, <2>2 DEF Acquire, At, Enters, TypeOK, Calls
      <3> QED
        BY <1>1, <1>2, <2>2, <3>1 DEF Resolving
    <2> QED
      BY <2>1, <2>2
  <1>8. CASE TrySource(c) \/ SetFresh(c) \/ SetLkg(c) \/ SetNegative(c)
    <2>1. calls[c].stage \in Resolving /\ lock' = lock
      BY <1>8 DEF TrySource, SetFresh, SetLkg, SetNegative, At, Resolving
    <2> QED
      BY <1>1, <1>2, <2>1
  <1>9. CASE Release(c) \/ WriteFails(c)
    <2>1. calls[c].stage \in Resolving /\ ~lock'
      BY <1>9 DEF Release, WriteFails, At, Resolving
    <2>2. calls[c].stale \in BOOLEAN
      BY DEF TypeOK, Calls
    <2>3. calls'[c].stage = "idle"
      BY <1>9, <2>2, ToldTyped DEF Release, WriteFails
    <2> QED
      BY <1>1, <1>2, <2>1, <2>3 DEF Resolving
  <1>10. CASE Die(c)
    <2>1. calls'[c].stage = "idle" /\ lock' = lock
      BY <1>10, ToldTyped DEF Die
    <2> QED
      BY <1>1, <1>2, <2>1 DEF Resolving
  <1> QED
    BY <1>5, <1>6, <1>7, <1>8, <1>9, <1>10 DEF Work

LEMMA HerdStays ==
    ASSUME TypeOK, TypeOK', StampedeBounded, [Next]_vars
    PROVE  StampedeBounded'
  <1>1. CASE UNCHANGED vars \/ \E S \in Markets : MarketMoves(S)
    <2>1. UNCHANGED <<calls, lock, overruns>>
      BY <1>1 DEF vars, MarketMoves
    <2> QED
      BY <2>1 DEF StampedeBounded, Resolvers
  <1>2. CASE FreshExpires \/ LkgExpires \/ NegativeExpires
    <2>1. UNCHANGED <<calls, lock, overruns>>
      BY <1>2 DEF FreshExpires, LkgExpires, NegativeExpires
    <2> QED
      BY <2>1 DEF StampedeBounded, Resolvers
  <1>3. CASE LockRunsOut
    <2>1. Resolvers' = Resolvers /\ lock /\ ~lock' /\ overruns \in Nat /\ overruns' \in Nat
      BY <1>3 DEF LockRunsOut, Resolvers, TypeOK
    <2>2. Cardinality(Resolvers) <= overruns + 1 /\ Cardinality(Resolvers) \in Nat
      BY <2>1, HerdFinite DEF StampedeBounded, Resolvers
    <2>3. CASE Resolvers = {}
      BY <2>1, <2>3, FS_EmptySet DEF StampedeBounded
    <2>4. CASE Resolvers # {}
      BY <1>3, <2>1, <2>2, <2>4 DEF LockRunsOut, StampedeBounded
    <2> QED
      BY <2>3, <2>4
  <1>4. CASE \E c \in Callers : \/ \E use \in {"spot", "fmv"} : Ask(c, use)
                                \/ Work(c) \/ Die(c) \/ WriteFails(c)
    <2> PICK c \in Callers : \/ \E use \in {"spot", "fmv"} : Ask(c, use)
                             \/ Work(c) \/ Die(c) \/ WriteFails(c)
      BY <1>4
    <2> DEFINE herd == Cardinality(Resolvers)
    <2>1. overruns' = overruns /\ overruns \in Nat /\ lock \in BOOLEAN /\ lock' \in BOOLEAN
      BY CallerMoves DEF TypeOK
    <2>2. herd <= overruns + (IF lock THEN 1 ELSE 0) /\ herd \in Nat /\ herd' \in Nat
      BY CallerMoves, OneStep DEF StampedeBounded
    <2>3. \/ ~lock /\ lock' /\ herd' = herd + 1
          \/ lock' = lock /\ herd' <= herd
          \/ ~lock' /\ herd' = herd - 1
      BY CallerMoves, OneStep, <2>2
    <2> HIDE DEF herd
    <2>4. herd' <= overruns' + (IF lock' THEN 1 ELSE 0)
      BY <2>1, <2>2, <2>3
    <2> QED
      BY <2>4 DEF StampedeBounded, herd
  <1> QED
    BY <1>1, <1>2, <1>3, <1>4 DEF Next, Expiry

-----------------------------------------------------------------------------
(* The order of the tiers                                                   *)

Writing == {"set_fresh", "set_lkg"}

\* As long as no lock has run out under its holder, the price in a writer's hand is no
\* older than what it is going to replace.
Ordered ==
    overruns = 0 =>
        /\ fresh \in (0..now) \cup {None} /\ lkg \in (0..now) \cup {None}
        /\ \A c \in Callers : calls[c].stage \in Writing =>
              /\ calls[c].got \in 0..now
              /\ lkg # None => lkg <= calls[c].got
              /\ At(c, "set_fresh") /\ fresh # None => fresh <= calls[c].got

\* Who is at the sources then is there alone.
LEMMA AloneAtSources ==
    ASSUME TypeOK, StampedeBounded, overruns = 0, NEW c \in Resolvers, NEW d \in Resolvers
    PROVE  c = d
  <1> SUFFICES ASSUME c # d PROVE FALSE
    OBVIOUS
  <1>1. Resolvers \in SUBSET Callers
    BY DEF Resolvers
  <1>2. Cardinality(Resolvers) \in Nat /\ IsFiniteSet(Resolvers)
    BY <1>1, HerdFinite
  <1>3. Cardinality(Resolvers) <= 1
    BY <1>2 DEF StampedeBounded, TypeOK
  <1>4. IsFiniteSet({c}) /\ Cardinality({c}) = 1
    BY FS_Singleton
  <1>5. IsFiniteSet({c} \cup {d}) /\ Cardinality({c} \cup {d}) = 2
    BY <1>4, FS_AddElement
  <1>6. {c} \cup {d} \in SUBSET Resolvers
    OBVIOUS
  <1>7. Cardinality({c} \cup {d}) <= Cardinality(Resolvers)
    BY <1>2, <1>6, FS_Subset
  <1> QED
    BY <1>2, <1>3, <1>5, <1>7

\* A step after which its caller has nothing to write keeps the order.
LEMMA OrderedStays ==
    ASSUME TypeOK, Ordered, overruns' = overruns, now' = now, NEW c \in Callers,
           UNCHANGED <<fresh, lkg>>,
           \A d \in Callers \ {c} : calls'[d] = calls[d],
           calls'[c].stage \notin Writing
    PROVE  Ordered'
  BY DEF Ordered, At, Writing

\* What a source has answered is a price of now.
LEMMA SourceIsOfNow ==
    ASSUME TypeOK, NEW c \in Callers, TrySource(c)
    PROVE  /\ \A d \in Callers \ {c} : calls'[d] = calls[d]
           /\ calls'[c].stage \in Writing =>
                 calls'[c].stage = "set_fresh" /\ calls'[c].got = now
  <1> DEFINE left == calls[c].left
             price == Answer(Head(left))
             stale == Head(left) = "last_known_good"
  <1>1. calls[c] \in Calls /\ calls[c].stage = "sources"
    BY DEF TrySource, At, TypeOK
  <1>2. price # None /\ ~stale => price = now
    BY DEF Answer
  <1>3. \E call : /\ calls' = [calls EXCEPT ![c] = call]
                  /\ call.stage \in Writing =>
                        call.stage = "set_fresh" /\ call.got = now
    <2>1. CASE left = <<>>
      BY <1>1, <2>1 DEF TrySource, Goes, Enters, Calls, Writing
    <2>2. CASE left # <<>> /\ price = None
      BY <1>1, <2>2 DEF TrySource, Enters, Calls, Writing
    <2>3. CASE left # <<>> /\ price # None
      <3> DEFINE call == [calls[c] EXCEPT !.stage = AfterSource(stale), !.left = <<>>,
                                          !.got = price, !.stale = stale]
      <3>1. calls' = [calls EXCEPT ![c] = call]
        BY <2>3 DEF TrySource, Enters
      <3> HIDE DEF price, stale
      <3>2. call.stage = AfterSource(stale) /\ call.got = price
        BY <1>1 DEF Calls
      <3>3. AfterSource(stale) \in Writing => AfterSource(stale) = "set_fresh" /\ ~stale
        BY DEF AfterSource, Writing
      <3> HIDE DEF call
      <3> QED
        BY <1>2, <2>3, <3>1, <3>2, <3>3
    <2> QED
      BY <2>1, <2>2, <2>3
  <1> QED
    BY <1>3 DEF TypeOK

\* A caller's step: a source's price is newer than both tiers, and nobody else is
\* about to write when one tier is written.
LEMMA CallerKeepsOrder ==
    ASSUME CacheInv, Ordered, NEW c \in Callers,
           \/ \E use \in {"spot", "fmv"} : Ask(c, use)
           \/ Work(c) \/ Die(c) \/ WriteFails(c)
    PROVE  Ordered'
  <1>1. overruns' = overruns /\ now' = now /\ TypeOK /\ calls \in [Callers -> Calls]
    BY DEF CacheInv, TypeOK, Ask, Work, ReadFresh, ReadNegative, Acquire, ReadLkg, TrySource,
           SetFresh, SetLkg, SetNegative, Release, Die, WriteFails, world
  <1>2. CASE TrySource(c)
    <2>1. UNCHANGED <<fresh, lkg>>
      BY <1>2 DEF TrySource, cache
    <2>2. /\ \A d \in Callers \ {c} : calls'[d] = calls[d]
          /\ calls'[c].stage \in Writing =>
                calls'[c].stage = "set_fresh" /\ calls'[c].got = now
      BY <1>1, <1>2, SourceIsOfNow
    <2>3. now \in 0..now
      BY <1>1 DEF TypeOK, Times
    <2> QED
      BY <1>1, <2>1, <2>2, <2>3 DEF Ordered, At, Writing
  <1>3. CASE SetFresh(c)
    <2>1. /\ fresh' = calls[c].got /\ lkg' = lkg /\ calls[c].stage = "set_fresh"
          /\ calls' = [calls EXCEPT ![c] = [calls[c] EXCEPT !.stage = "set_lkg"]]
      BY <1>3 DEF SetFresh, Goes, Enters, At
    <2>2. calls'[c].stage = "set_lkg" /\ calls'[c].got = calls[c].got
      BY <1>1, <2>1 DEF Calls
    <2>3. ASSUME overruns = 0, NEW d \in Callers \ {c} PROVE calls'[d].stage \notin Writing
      BY <1>1, <2>1, <2>3, AloneAtSources DEF CacheInv, Resolvers, Resolving, Writing
    <2> QED
      BY <1>1, <2>1, <2>2, <2>3 DEF Ordered, At, Writing
  <1>4. CASE SetLkg(c)
    <2>1. /\ lkg' = calls[c].got /\ fresh' = fresh /\ calls[c].stage = "set_lkg"
          /\ calls' = [calls EXCEPT ![c] = [calls[c] EXCEPT !.stage = "release"]]
      BY <1>4 DEF SetLkg, Goes, Enters, At
    <2>2. calls'[c].stage = "release"
      BY <1>1, <2>1 DEF Calls
    <2>3. ASSUME overruns = 0, NEW d \in Callers \ {c} PROVE calls'[d].stage \notin Writing
      BY <1>1, <2>1, <2>3, AloneAtSources DEF CacheInv, Resolvers, Resolving, Writing
    <2> QED
      BY <1>1, <2>1, <2>2, <2>3 DEF Ordered, At, Writing
  <1>5. CASE \/ Die(c) \/ WriteFails(c) \/ ReadLkg(c) \/ Release(c)
             \/ ReadFresh(c) /\ fresh # None
             \/ ReadNegative(c) /\ negative
    <2>1. \E stale \in BOOLEAN : Told(c, stale)
      BY <1>1, <1>5 DEF Die, WriteFails, ReadLkg, Release, ReadFresh, ReadNegative, Calls
    <2>2. UNCHANGED <<fresh, lkg>>
      BY <1>5 DEF Die, WriteFails, ReadLkg, Release, ReadFresh, ReadNegative, cache
    <2>3. calls'[c].stage \notin Writing /\ \A d \in Callers \ {c} : calls'[d] = calls[d]
      BY <1>1, <2>1, ToldTyped DEF Writing
    <2> QED
      BY <1>1, <2>2, <2>3, OrderedStays
  <1>6. CASE \/ SetNegative(c)
             \/ ReadFresh(c) /\ fresh = None
             \/ ReadNegative(c) /\ ~negative
             \/ Acquire(c) /\ lock
    <2>1. \E stage \in Stages \ Writing : Goes(c, stage)
      BY <1>6 DEF SetNegative, ReadFresh, ReadNegative, Acquire, Stages, Writing
    <2>2. UNCHANGED <<fresh, lkg>>
      BY <1>6 DEF SetNegative, ReadFresh, ReadNegative, Acquire, cache
    <2>3. /\ \A d \in Callers \ {c} : calls'[d] = calls[d]
          /\ \E stage \in Stages \ Writing : calls'[c] = [calls[c] EXCEPT !.stage = stage]
      BY <1>1, <2>1, GoesTyped
    <2>4. calls'[c].stage \notin Writing
      BY <1>1, <2>3 DEF Calls
    <2> QED
      BY <1>1, <2>2, <2>3, <2>4, OrderedStays
  <1>7. CASE \/ Acquire(c) /\ ~lock
             \/ \E use \in {"spot", "fmv"} : Ask(c, use)
    <2>1. \E call : Enters(c, call) /\ call.stage \notin Writing
      <3>1. CASE Acquire(c) /\ ~lock
        <4> DEFINE call == [calls[c] EXCEPT !.stage = "sources",
                                            !.left = SourcesFor(symbol, calls[c].use)]
        <4>1. Enters(c, call)
          BY <3>1 DEF Acquire
        <4>2. call.stage = "sources"
          BY <1>1 DEF Calls
        <4> HIDE DEF call
        <4> QED
          BY <4>1, <4>2 DEF Writing
      <3>2. ASSUME NEW use \in {"spot", "fmv"}, Ask(c, use)
            PROVE  \E call : Enters(c, call) /\ call.stage \notin Writing
        <4> DEFINE call == [Quiet EXCEPT !.stage = "fresh", !.use = use, !.since = now]
        <4>1. Enters(c, call)
          BY <3>2 DEF Ask
        <4>2. call.stage = "fresh"
          BY DEF Quiet
        <4> HIDE DEF call
        <4> QED
          BY <4>1, <4>2 DEF Writing
      <3> QED
        BY <1>7, <3>1, <3>2
    <2>2. UNCHANGED <<fresh, lkg>>
      BY <1>7 DEF Acquire, Ask, cache
    <2>3. calls'[c].stage \notin Writing /\ \A d \in Callers \ {c} : calls'[d] = calls[d]
      BY <1>1, <2>1 DEF Enters
    <2> QED
      BY <1>1, <2>2, <2>3, OrderedStays
  <1> QED
    BY <1>2, <1>3, <1>4, <1>5, <1>6, <1>7 DEF Work

LEMMA OrderKept ==
    ASSUME CacheInv, Ordered, [Next]_vars PROVE Ordered'
  <1>1. CASE UNCHANGED vars
    BY <1>1 DEF vars, world, cache, Ordered, At
  <1>2. CASE \E S \in Markets : MarketMoves(S)
    <2>1. now' = now + 1 /\ UNCHANGED <<fresh, lkg, calls, overruns>> /\ now \in Nat
      BY <1>2 DEF MarketMoves, cache, CacheInv, TypeOK, Times
    <2>2. 0..now \subseteq 0..now'
      BY <2>1
    <2> QED
      BY <2>1, <2>2 DEF Ordered, At
  <1>3. CASE Expiry
    <2>1. /\ now' = now /\ calls' = calls
          /\ fresh' \in {fresh, None} /\ lkg' \in {lkg, None}
          /\ overruns \in Nat /\ overruns' \in {overruns, overruns + 1}
      BY <1>3 DEF Expiry, FreshExpires, LkgExpires, NegativeExpires, LockRunsOut,
                  cache, world, CacheInv, TypeOK
    <2>2. overruns' = 0 => overruns = 0
      BY <2>1
    <2> QED
      BY <2>1, <2>2 DEF Ordered, At
  <1> QED
    BY <1>1, <1>2, <1>3, CallerKeepsOrder DEF Next

-----------------------------------------------------------------------------
(* Theorems                                                                 *)

\* The inductive invariant: types, the herd and the dates of what is in hand.
THEOREM CacheSound == Spec => []CacheInv
  <1>1. CacheInv /\ [Next]_vars => CacheInv'
    BY NextSound, HerdStays DEF CacheInv
  <1> QED
    BY <1>1, InitSound, PTL DEF Spec

\* The cache's entries are prices and every call is well formed, whatever fails when.
THEOREM TypeCorrect == Spec => []TypeOK
  <1>1. CacheInv => TypeOK
    BY DEF CacheInv
  <1> QED
    BY <1>1, CacheSound, PTL

\* The single flight of cache.py, for any number of callers: at most one more caller is at
\* the sources than locks have run out under one.
THEOREM OverrunsBoundTheHerd == Spec => []StampedeBounded
  <1>1. CacheInv => StampedeBounded
    BY DEF CacheInv
  <1> QED
    BY <1>1, CacheSound, PTL

\* "if not result.stale": the fresh tier gets its prices from callers that have read them
\* since they were asked.
THEOREM FreshOnlyRead == Spec => FreshIsRead
  <1>1. CacheInv /\ [Next]_vars =>
          [fresh' \notin {fresh, None} =>
             \E c \in Callers : At(c, "set_fresh") /\ fresh' >= calls[c].since]_vars
    <2> SUFFICES ASSUME CacheInv, Next, fresh' \notin {fresh, None}
                 PROVE  \E c \in Callers : At(c, "set_fresh") /\ fresh' >= calls[c].since
      BY DEF vars, cache
    <2>1. PICK c \in Callers : SetFresh(c)
      BY DEF Next, MarketMoves, Expiry, FreshExpires, LkgExpires, NegativeExpires,
             LockRunsOut, Ask, Work, ReadFresh, ReadNegative, Acquire, ReadLkg, TrySource,
             SetLkg, SetNegative, Release, Die, WriteFails, cache
    <2>2. At(c, "set_fresh") /\ fresh' = calls[c].got
      BY <2>1 DEF SetFresh
    <2>3. calls[c].since <= calls[c].got /\ calls[c].since \in Nat /\ calls[c].got \in Nat
      BY <2>2 DEF CacheInv, Dated, TypeOK, Calls, Times
    <2> QED
      BY <2>2, <2>3
  <1> QED
    BY <1>1, CacheSound, PTL DEF Spec, FreshIsRead

\* While no lock has run out under its holder, neither tier is overwritten with an older
\* price than it or the other one holds, although the tiers are written apart and
\* whoever writes may die in between; for any number of callers.
THEOREM CacheGoesForward == Spec => CacheNeverStepsBack
  <1> DEFINE Forward ==
        overruns = 0 =>
          /\ fresh' # None =>
               \A old \in {fresh, lkg} \ {None} : old <= fresh' \/ fresh' = fresh
          /\ lkg' # None /\ lkg # None => lkg <= lkg'
  <1>1. CacheInv /\ Ordered /\ [Next]_vars => Forward
    <2> SUFFICES ASSUME CacheInv, Ordered, [Next]_vars, overruns = 0
                 PROVE  /\ fresh' # None => \A old \in {fresh, lkg} \ {None} :
                              old <= fresh' \/ fresh' = fresh
                        /\ lkg' # None /\ lkg # None => lkg <= lkg'
      OBVIOUS
    <2>1. CASE fresh' \in {fresh, None} /\ lkg' \in {lkg, None}
      BY <2>1 DEF CacheInv, TypeOK, Times
    <2>2. CASE \E c \in Callers : SetFresh(c)
      BY <2>2 DEF SetFresh, At, Ordered, Writing, CacheInv, TypeOK, Times
    <2>3. CASE \E c \in Callers : SetLkg(c)
      BY <2>3 DEF SetLkg, At, Ordered, Writing
    <2>4. \/ fresh' \in {fresh, None} /\ lkg' \in {lkg, None}
          \/ \E c \in Callers : SetFresh(c) \/ SetLkg(c)
      BY DEF Next, vars, MarketMoves, Expiry, FreshExpires, LkgExpires, NegativeExpires,
             LockRunsOut, Ask, Work, ReadFresh, ReadNegative, Acquire, ReadLkg, TrySource,
             SetNegative, Release, Die, WriteFails, cache
    <2> QED
      BY <2>1, <2>2, <2>3, <2>4
  <1>2. Init => Ordered
    BY DEF Init, Ordered, Quiet, Writing
  <1>3. Spec => []Ordered
    BY <1>2, OrderKept, CacheSound, PTL DEF Spec
  <1>4. CacheInv /\ Ordered /\ [Next]_vars => [Forward]_vars
    BY <1>1
  <1>5. Spec => [][Forward]_vars
    BY <1>3, <1>4, CacheSound, PTL DEF Spec
  <1> QED
    BY <1>5 DEF CacheNeverStepsBack

-----------------------------------------------------------------------------
(* The past: PriceHistory                                                   *)

\* What a crawl may rely on while other crawls, the nightly sync, single days and the
\* user write the same table: everything before its range is stored, and once its own
\* rows are committed, its range too.  That the crawl resumes or not makes no difference.
CrawlKeeps(s) ==
    s.stage # "idle" =>
        /\ 1 <= s.lo /\ s.lo <= s.top /\ s.top <= head
        /\ 1..(s.lo - 1) \subseteq Stored
        /\ s.stage = "save" => 1..Hi(s) \subseteq Stored

DataInv == HistoryComplete /\ \A c \in Crawlers : CrawlKeeps(crawl[c])

HistoryInv == HistoryTypeOK /\ DataInv

-----------------------------------------------------------------------------
(* Sizes and rows                                                           *)

LEMMA ChunkSizes ==
    /\ MinChunk \in Nat /\ MinChunk >= 1 /\ InitialChunk \in Nat /\ MaxChunk \in Nat
    /\ InitialChunk \in MinChunk..MaxChunk
    /\ MaxBlock \in Nat
  BY ChunksAssumption

LEMMA NarrowedSize ==
    ASSUME NEW chunk \in MinChunk..MaxChunk
    PROVE  Narrowed(chunk) \in MinChunk..MaxChunk
  <1>1. chunk \in Nat /\ chunk \div 2 \in Nat /\ chunk \div 2 <= chunk
    BY ChunkSizes
  <1> QED
    BY <1>1, ChunkSizes DEF Narrowed

LEMMA WidenedSize ==
    ASSUME NEW chunk \in MinChunk..MaxChunk
    PROVE  Widened(chunk) \in MinChunk..MaxChunk
  BY ChunkSizes DEF Widened

LEMMA RangeEnds ==
    ASSUME NEW s \in Crawls, s.chunk \in MinChunk..MaxChunk, s.lo <= s.top
    PROVE  Hi(s) \in Nat /\ s.lo <= Hi(s) /\ Hi(s) <= s.top
  BY ChunkSizes DEF Hi, Crawls

\* A batch of events leaves rows where there were some, and the user's as they are; and
\* it leaves a row for each of its events.
LEMMA UpsertedRows ==
    ASSUME HistoryTypeOK, NEW S \in SUBSET Finalized, hist' = Upserted(S)
    PROVE  /\ hist' \in [Keys -> Finalized \cup {NoRow, Manual}]
           /\ \A k \in Keys : hist'[k] \in Finalized => <<hist'[k].token, hist'[k].day>> = k
           /\ \A k \in Keys : hist[k] # NoRow => hist'[k] # NoRow
           /\ \A k \in Keys : hist[k] = Manual => hist'[k] = Manual
           /\ \A e \in S : e.token \in Listed => hist'[<<e.token, e.day>>] # NoRow
  <1> DEFINE Hits(k) == {e \in S : <<e.token, e.day>> = k}
  <1>1. ASSUME NEW k \in Keys
        PROVE  \/ hist'[k] = hist[k] /\ (hist[k] = Manual \/ Hits(k) = {})
               \/ /\ hist[k] # Manual /\ hist'[k] \in Finalized
                  /\ <<hist'[k].token, hist'[k].day>> = k
    <2>1. CASE hist[k] # Manual /\ \E e \in S : <<e.token, e.day>> = k
      <3>1. hist'[k] = CHOOSE e \in S : <<e.token, e.day>> = k
        BY <2>1 DEF Upserted
      <3>2. hist'[k] \in S /\ <<hist'[k].token, hist'[k].day>> = k
        BY <2>1, <3>1
      <3> QED
        BY <2>1, <3>2
    <2>2. CASE ~(hist[k] # Manual /\ \E e \in S : <<e.token, e.day>> = k)
      BY <2>2 DEF Upserted
    <2> QED
      BY <2>1, <2>2
  <1>2. \A e \in Finalized : e # NoRow /\ e # Manual
    BY LogAssumption
  <1>3. NoRow # Manual
    BY LogAssumption
  <1>4. DOMAIN hist' = Keys /\ hist' = [k \in Keys |-> hist'[k]]
    BY DEF Upserted
  <1>5. hist \in [Keys -> Finalized \cup {NoRow, Manual}]
    BY DEF HistoryTypeOK
  <1>6. \A k \in Keys : hist'[k] \in Finalized \cup {NoRow, Manual}
    BY <1>1, <1>5
  <1>7. \A k \in Keys : hist'[k] \in Finalized => <<hist'[k].token, hist'[k].day>> = k
    BY <1>1 DEF HistoryTypeOK
  <1>8. ASSUME NEW e \in S, e.token \in Listed
        PROVE  hist'[<<e.token, e.day>>] # NoRow
    <2>1. <<e.token, e.day>> \in Keys
      BY <1>8, LogAssumption DEF Keys
    <2>2. e \in Hits(<<e.token, e.day>>)
      OBVIOUS
    <2> QED
      BY <1>1, <1>2, <1>3, <2>1, <2>2
  <1> QED
    BY <1>1, <1>2, <1>4, <1>6, <1>7, <1>8

\* What is stored stays stored as long as no row goes.
LEMMA StoredGrows ==
    ASSUME \A k \in Keys : hist[k] # NoRow => hist'[k] # NoRow
    PROVE  Stored \subseteq Stored'
  <1> SUFFICES ASSUME NEW b \in Stored, NEW e \in Events(b, b), e.token \in Listed
               PROVE  hist'[<<e.token, e.day>>] # NoRow
    BY DEF Stored
  <1>1. <<e.token, e.day>> \in Keys
    BY LogAssumption DEF Keys, Events
  <1> QED
    BY <1>1 DEF Stored

-----------------------------------------------------------------------------
(* Types                                                                    *)

LEMMA IdleIsCrawl == Idle \in Crawls /\ Idle.chunk \in MinChunk..MaxChunk /\ Idle.stage = "idle"
  BY ChunkSizes DEF Idle, Crawls

LEMMA InitTyped == HistoryInit => HistoryTypeOK
  <1>1. 1 \in Blocks /\ 0 \in 0..1
    BY ChunksAssumption DEF Blocks
  <1>2. NoRow \notin Finalized
    BY LogAssumption
  <1> QED
    BY <1>1, <1>2, IdleIsCrawl DEF HistoryInit, HistoryTypeOK

\* One crawler goes on; the others stay where they are.
LEMMA TurnsTyped ==
    ASSUME HistoryTypeOK, NEW c \in Crawlers, NEW s \in Crawls,
           s.chunk \in MinChunk..MaxChunk, Turns(c, s)
    PROVE  /\ crawl' \in [Crawlers -> Crawls]
           /\ \A d \in Crawlers : crawl'[d].chunk \in MinChunk..MaxChunk
           /\ crawl'[c] = s /\ \A d \in Crawlers \ {c} : crawl'[d] = crawl[d]
  BY DEF HistoryTypeOK, Turns

LEMMA StartTyped ==
    ASSUME HistoryInv, NEW c \in Crawlers, NEW resume \in BOOLEAN, Start(c, resume)
    PROVE  HistoryTypeOK'
  <1> DEFINE s == [stage |-> "fetch", lo |-> IF resume /\ cursor # 0 THEN cursor ELSE 1,
                   chunk |-> InitialChunk, top |-> head, resume |-> resume]
  <1>1. head \in Nat /\ cursor \in Nat /\ Turns(c, s)
    BY ChunkSizes DEF HistoryInv, HistoryTypeOK, Blocks, Start, FirstBlock
  <1>2. s \in Crawls /\ s.chunk \in MinChunk..MaxChunk
    BY <1>1, ChunkSizes DEF Crawls
  <1> HIDE DEF s
  <1> QED
    BY <1>1, <1>2, TurnsTyped DEF HistoryInv, HistoryTypeOK, Start, FirstBlock

LEMMA FetchTyped ==
    ASSUME HistoryInv, NEW c \in Crawlers, Fetch(c)
    PROVE  HistoryTypeOK'
  <1>1. crawl[c] \in Crawls /\ crawl[c].chunk \in MinChunk..MaxChunk
    BY DEF HistoryInv, HistoryTypeOK
  <1>2. CASE TurnsTo(c, "store")
    <2>1. [crawl[c] EXCEPT !.stage = "store"] \in Crawls
      BY <1>1 DEF Crawls
    <2>2. [crawl[c] EXCEPT !.stage = "store"].chunk = crawl[c].chunk
      BY <1>1 DEF Crawls
    <2> QED
      BY <1>1, <1>2, <2>1, <2>2, TurnsTyped DEF HistoryInv, HistoryTypeOK, Fetch, TurnsTo
  <1>3. CASE Turns(c, [crawl[c] EXCEPT !.chunk = Narrowed(@)])
    <2>1. Narrowed(crawl[c].chunk) \in MinChunk..MaxChunk
      BY <1>1, NarrowedSize
    <2>2. [crawl[c] EXCEPT !.chunk = Narrowed(@)] \in Crawls
      BY <1>1, <2>1, ChunkSizes DEF Crawls
    <2>3. [crawl[c] EXCEPT !.chunk = Narrowed(@)].chunk = Narrowed(crawl[c].chunk)
      BY <1>1 DEF Crawls
    <2> QED
      BY <1>3, <2>1, <2>2, <2>3, TurnsTyped DEF HistoryInv, HistoryTypeOK, Fetch
  <1>4. CASE Turns(c, Idle)
    BY <1>4, IdleIsCrawl, TurnsTyped DEF HistoryInv, HistoryTypeOK, Fetch
  <1> QED
    BY <1>2, <1>3, <1>4 DEF Fetch

\* The table after a batch, whichever writer's it is.
LEMMA BatchTyped ==
    ASSUME HistoryTypeOK, NEW S \in SUBSET Finalized, hist' = Upserted(S),
           UNCHANGED <<head, cursor, upsets>>,
           crawl' \in [Crawlers -> Crawls],
           \A d \in Crawlers : crawl'[d].chunk \in MinChunk..MaxChunk
    PROVE  HistoryTypeOK'
  BY UpsertedRows DEF HistoryTypeOK

LEMMA StoreTyped ==
    ASSUME HistoryInv, NEW c \in Crawlers, Store(c)
    PROVE  HistoryTypeOK'
  <1>1. crawl[c] \in Crawls /\ crawl[c].chunk \in MinChunk..MaxChunk
    BY DEF HistoryInv, HistoryTypeOK
  <1>2. [crawl[c] EXCEPT !.stage = "save"] \in Crawls
    BY <1>1 DEF Crawls
  <1>3. [crawl[c] EXCEPT !.stage = "save"].chunk = crawl[c].chunk
    BY <1>1 DEF Crawls
  <1>4. Events(crawl[c].lo, Hi(crawl[c])) \in SUBSET Finalized
    BY DEF Events
  <1>5. HistoryTypeOK /\ Turns(c, [crawl[c] EXCEPT !.stage = "save"])
    BY DEF HistoryInv, Store, TurnsTo
  <1>6. /\ crawl' \in [Crawlers -> Crawls]
        /\ \A d \in Crawlers : crawl'[d].chunk \in MinChunk..MaxChunk
    BY <1>1, <1>2, <1>3, <1>5, TurnsTyped
  <1> QED
    BY <1>4, <1>5, <1>6, BatchTyped DEF Store

LEMMA SaveTyped ==
    ASSUME HistoryInv, NEW c \in Crawlers, Save(c)
    PROVE  HistoryTypeOK'
  <1>1. /\ crawl[c] \in Crawls /\ crawl[c].chunk \in MinChunk..MaxChunk
        /\ head \in Nat /\ cursor \in 0..head
    BY ChunkSizes DEF HistoryInv, HistoryTypeOK, Blocks
  <1>2. crawl[c].lo <= crawl[c].top /\ crawl[c].top <= head
    BY DEF HistoryInv, DataInv, CrawlKeeps, Save
  <1>3. /\ Hi(crawl[c]) \in Nat
        /\ crawl[c].lo <= Hi(crawl[c]) /\ Hi(crawl[c]) <= crawl[c].top
    BY <1>1, <1>2, RangeEnds
  <1>4. cursor' \in 0..head
    BY <1>1, <1>2, <1>3 DEF Save, Saved, Crawls
  <1>5. CASE Turns(c, Idle)
    BY <1>4, <1>5, IdleIsCrawl, TurnsTyped DEF HistoryInv, HistoryTypeOK, Save
  <1>6. CASE Turns(c, NextRange(crawl[c]))
    <2>1. Widened(crawl[c].chunk) \in MinChunk..MaxChunk
      BY <1>1, WidenedSize
    <2>2. NextRange(crawl[c]) \in Crawls /\ NextRange(crawl[c]).chunk \in MinChunk..MaxChunk
      BY <1>1, <1>3, <2>1, ChunkSizes DEF Crawls, NextRange
    <2> QED
      BY <1>4, <1>6, <2>2, TurnsTyped DEF HistoryInv, HistoryTypeOK, Save
  <1> QED
    BY <1>5, <1>6 DEF Save

LEMMA NextTyped ==
    ASSUME HistoryInv, [HistoryNext]_historyVars
    PROVE  HistoryTypeOK'
  <1>1. HistoryTypeOK
    BY DEF HistoryInv
  <1>2. CASE Mine
    BY <1>1, <1>2, ChunkSizes DEF Mine, HistoryTypeOK, Blocks
  <1>3. ASSUME NEW c \in Crawlers, NEW resume \in BOOLEAN, Start(c, resume)
        PROVE  HistoryTypeOK'
    BY <1>3, StartTyped
  <1>4. ASSUME NEW c \in Crawlers, Works(c) PROVE HistoryTypeOK'
    BY <1>4, FetchTyped, StoreTyped, SaveTyped DEF Works
  <1>5. ASSUME NEW c \in Crawlers, Crash(c) PROVE HistoryTypeOK'
    BY <1>1, <1>5, IdleIsCrawl, TurnsTyped DEF HistoryTypeOK, Crash, Upset
  <1>6. ASSUME NEW t \in Listed, Nightly(t) PROVE HistoryTypeOK'
    <2>1. OnChain(t) \in SUBSET Finalized
      BY DEF OnChain
    <2> QED
      BY <1>1, <1>6, <2>1, BatchTyped DEF Nightly, HistoryTypeOK
  <1>7. ASSUME NEW t \in Listed, NEW day \in Days, FetchDay(t, day) PROVE HistoryTypeOK'
    <2>1. {e \in Events(1, head) : e.token = t /\ DayOf[e.block] = day} \in SUBSET Finalized
      BY DEF Events
    <2> QED
      BY <1>1, <1>7, <2>1, BatchTyped DEF FetchDay, HistoryTypeOK
  <1>8. ASSUME NEW k \in Keys, Override(k) PROVE HistoryTypeOK'
    <2>1. Manual \notin Finalized
      BY LogAssumption
    <2> QED
      BY <1>1, <1>8, <2>1 DEF HistoryTypeOK, Override, Upset
  <1>9. CASE UNCHANGED historyVars
    BY <1>1, <1>9 DEF historyVars, HistoryTypeOK
  <1> QED
    BY <1>2, <1>3, <1>4, <1>5, <1>6, <1>7, <1>8, <1>9 DEF HistoryNext

-----------------------------------------------------------------------------
(* What is stored                                                           *)

\* No step takes a row away.
LEMMA RowsStay ==
    ASSUME HistoryTypeOK, [HistoryNext]_historyVars
    PROVE  /\ \A k \in Keys : hist[k] # NoRow => hist'[k] # NoRow
           /\ \A k \in Keys : hist[k] = Manual => hist'[k] = Manual
  <1>1. CASE hist' = hist
    BY <1>1
  <1>2. ASSUME NEW S \in SUBSET Finalized, hist' = Upserted(S)
        PROVE  /\ \A k \in Keys : hist[k] # NoRow => hist'[k] # NoRow
               /\ \A k \in Keys : hist[k] = Manual => hist'[k] = Manual
    BY <1>2, UpsertedRows
  <1>3. ASSUME NEW k \in Keys, Override(k)
        PROVE  /\ \A j \in Keys : hist[j] # NoRow => hist'[j] # NoRow
               /\ \A j \in Keys : hist[j] = Manual => hist'[j] = Manual
    <2>1. NoRow # Manual
      BY LogAssumption
    <2> QED
      BY <1>3, <2>1 DEF Override, HistoryTypeOK
  <1>4. \/ hist' = hist
        \/ \E S \in SUBSET Finalized : hist' = Upserted(S)
        \/ \E k \in Keys : Override(k)
    <2>1. CASE Mine \/ UNCHANGED historyVars
      BY <2>1 DEF Mine, historyVars
    <2>2. ASSUME NEW c \in Crawlers, NEW resume \in BOOLEAN, Start(c, resume)
          PROVE  hist' = hist
      BY <2>2 DEF Start
    <2>3. ASSUME NEW c \in Crawlers, Fetch(c) \/ Save(c) \/ Crash(c)
          PROVE  hist' = hist
      BY <2>3 DEF Fetch, Save, Crash
    <2>4. ASSUME NEW c \in Crawlers, Store(c)
          PROVE  \E S \in SUBSET Finalized : hist' = Upserted(S)
      <3>1. Events(crawl[c].lo, Hi(crawl[c])) \in SUBSET Finalized
        BY DEF Events
      <3> QED
        BY <2>4, <3>1 DEF Store
    <2>5. ASSUME NEW t \in Listed, Nightly(t)
          PROVE  \E S \in SUBSET Finalized : hist' = Upserted(S)
      <3>1. OnChain(t) \in SUBSET Finalized
        BY DEF OnChain
      <3> QED
        BY <2>5, <3>1 DEF Nightly
    <2>6. ASSUME NEW t \in Listed, NEW day \in Days, FetchDay(t, day)
          PROVE  \E S \in SUBSET Finalized : hist' = Upserted(S)
      <3>1. {e \in Events(1, head) : e.token = t /\ DayOf[e.block] = day} \in SUBSET Finalized
        BY DEF Events
      <3> QED
        BY <2>6, <3>1 DEF FetchDay
    <2> QED
      BY <2>1, <2>2, <2>3, <2>4, <2>5, <2>6 DEF HistoryNext, Works
  <1> QED
    BY <1>1, <1>2, <1>3, <1>4

\* A crawler that does not move relies on less than the others leave.
LEMMA OthersKeep ==
    ASSUME HistoryInv, [HistoryNext]_historyVars, NEW d \in Crawlers, crawl'[d] = crawl[d]
    PROVE  CrawlKeeps(crawl[d])'
  <1>1. Stored \subseteq Stored'
    BY RowsStay, StoredGrows DEF HistoryInv
  <1>2. head \in Nat /\ head' \in Nat /\ head <= head'
    <2>1. head \in Nat
      BY ChunkSizes DEF HistoryInv, HistoryTypeOK, Blocks
    <2>2. head' = head \/ head' = head + 1
      BY DEF HistoryNext, Mine, Start, Works, Fetch, Store, Save, Crash, Nightly,
             FetchDay, Override, historyVars
    <2> QED
      BY <2>1, <2>2
  <1>3. crawl[d] \in Crawls /\ CrawlKeeps(crawl[d])
    BY DEF HistoryInv, HistoryTypeOK, DataInv
  <1>4. Hi(crawl[d])' = Hi(crawl[d])
    BY DEF Hi
  <1> QED
    BY <1>1, <1>2, <1>3, <1>4 DEF CrawlKeeps, Crawls

\* The crawler that moves, when the cursor stays.
LEMMA TurnResult ==
    ASSUME HistoryTypeOK, NEW c \in Crawlers, NEW s, Turns(c, s)
    PROVE  crawl'[c] = s /\ \A d \in Crawlers \ {c} : crawl'[d] = crawl[d]
  BY DEF HistoryTypeOK, Turns

LEMMA TurnKeeps ==
    ASSUME HistoryInv, [HistoryNext]_historyVars, NEW c \in Crawlers, NEW s, Turns(c, s),
           cursor' = cursor, CrawlKeeps(crawl[c])'
    PROVE  DataInv'
  <1>1. Stored \subseteq Stored'
    BY RowsStay, StoredGrows DEF HistoryInv
  <1>2. \A d \in Crawlers : CrawlKeeps(crawl[d])'
    BY TurnResult, OthersKeep DEF HistoryInv
  <1> QED
    BY <1>1, <1>2 DEF DataInv, HistoryComplete, HistoryInv

LEMMA IdleKeeps ==
    ASSUME HistoryTypeOK, NEW c \in Crawlers, Turns(c, Idle)
    PROVE  CrawlKeeps(crawl[c])'
  BY TurnResult, IdleIsCrawl DEF CrawlKeeps

LEMMA StartKeeps ==
    ASSUME HistoryInv, NEW c \in Crawlers, NEW resume \in BOOLEAN, Start(c, resume),
           [HistoryNext]_historyVars
    PROVE  DataInv'
  <1> DEFINE lo == IF resume /\ cursor # 0 THEN cursor ELSE 1
             s == [stage |-> "fetch", lo |-> lo, chunk |-> InitialChunk, top |-> head,
                   resume |-> resume]
  <1>1. Stored' = Stored /\ head' = head /\ cursor' = cursor /\ Turns(c, s)
    BY DEF Start, FirstBlock, Stored
  <1>2. head \in Nat /\ 1 <= head /\ cursor \in 0..head
    BY ChunkSizes DEF HistoryInv, HistoryTypeOK, Blocks
  <1>3. 1 <= lo /\ lo <= head
    BY <1>2
  <1>4. 1..(lo - 1) \subseteq Stored
    BY <1>2 DEF HistoryInv, DataInv, HistoryComplete
  <1>5. crawl'[c] = s
    BY <1>1, TurnResult DEF HistoryInv
  <1>6. s.stage = "fetch" /\ s.lo = lo /\ s.top = head
    OBVIOUS
  <1> HIDE DEF s, lo
  <1>7. /\ crawl'[c].stage = "fetch" /\ crawl'[c].stage # "save"
        /\ 1 <= crawl'[c].lo /\ crawl'[c].lo <= crawl'[c].top /\ crawl'[c].top <= head'
        /\ 1..(crawl'[c].lo - 1) \subseteq Stored'
    BY <1>1, <1>2, <1>3, <1>4, <1>5, <1>6
  <1>8. CrawlKeeps(crawl[c])'
    BY <1>7 DEF CrawlKeeps
  <1> QED
    BY <1>1, <1>8, TurnKeeps

LEMMA FetchKeeps ==
    ASSUME HistoryInv, NEW c \in Crawlers, Fetch(c), [HistoryNext]_historyVars
    PROVE  DataInv'
  <1>1. Stored' = Stored /\ head' = head /\ cursor' = cursor
    BY DEF Fetch, Stored
  <1>2. crawl[c] \in Crawls /\ CrawlKeeps(crawl[c]) /\ crawl[c].stage = "fetch"
    BY DEF HistoryInv, HistoryTypeOK, DataInv, Fetch
  <1>3. ASSUME NEW s, Turns(c, s), s.lo = crawl[c].lo, s.top = crawl[c].top,
               s.stage \in {"fetch", "store"}
        PROVE  DataInv'
    <2>1. crawl'[c] = s
      BY <1>3, TurnResult DEF HistoryInv
    <2>2. CrawlKeeps(crawl[c])'
      BY <1>1, <1>2, <1>3, <2>1 DEF CrawlKeeps
    <2> QED
      BY <1>1, <1>3, <2>2, TurnKeeps
  <1>4. CASE TurnsTo(c, "store")
    <2> DEFINE s == [crawl[c] EXCEPT !.stage = "store"]
    <2>1. Turns(c, s) /\ s.lo = crawl[c].lo /\ s.top = crawl[c].top /\ s.stage = "store"
      BY <1>2, <1>4 DEF Crawls, TurnsTo
    <2> HIDE DEF s
    <2> QED
      BY <1>3, <2>1
  <1>5. CASE Turns(c, [crawl[c] EXCEPT !.chunk = Narrowed(@)])
    <2> DEFINE s == [crawl[c] EXCEPT !.chunk = Narrowed(@)]
    <2>1. Turns(c, s) /\ s.lo = crawl[c].lo /\ s.top = crawl[c].top /\ s.stage = "fetch"
      BY <1>2, <1>5 DEF Crawls
    <2> HIDE DEF s
    <2> QED
      BY <1>3, <2>1
  <1>6. CASE Turns(c, Idle)
    BY <1>1, <1>6, IdleKeeps, TurnKeeps DEF HistoryInv
  <1> QED
    BY <1>4, <1>5, <1>6 DEF Fetch

\* The commit of a batch: with what was stored before it, its whole range is.
LEMMA StoreKeeps ==
    ASSUME HistoryInv, NEW c \in Crawlers, Store(c), [HistoryNext]_historyVars
    PROVE  DataInv'
  <1> DEFINE r == crawl[c]
             s == [crawl[c] EXCEPT !.stage = "save"]
             batch == Events(r.lo, Hi(r))
  <1>1. Stored \subseteq Stored'
    BY RowsStay, StoredGrows DEF HistoryInv
  <1>2. /\ r \in Crawls /\ r.chunk \in MinChunk..MaxChunk /\ r.stage = "store"
        /\ 1 <= r.lo /\ r.lo <= r.top /\ r.top <= head /\ 1..(r.lo - 1) \subseteq Stored
        /\ head \in Blocks
    BY DEF HistoryInv, HistoryTypeOK, DataInv, CrawlKeeps, Store
  <1>3. Hi(r) \in Nat /\ r.lo <= Hi(r) /\ Hi(r) <= r.top
    BY <1>2, RangeEnds
  <1>4. /\ s.lo = r.lo /\ s.chunk = r.chunk /\ s.top = r.top /\ s.stage = "save"
        /\ Turns(c, s) /\ head' = head /\ cursor' = cursor
    BY <1>2 DEF Store, TurnsTo, Crawls
  <1>5. Hi(s) = Hi(r)
    BY <1>4 DEF Hi
  <1>6. \A e \in batch : e.token \in Listed => hist'[<<e.token, e.day>>] # NoRow
    <2>1. batch \in SUBSET Finalized /\ hist' = Upserted(batch)
      BY DEF Events, Store
    <2> QED
      BY <2>1, UpsertedRows DEF HistoryInv
  <1>7. 1..Hi(r) \subseteq Stored'
    <2> SUFFICES ASSUME NEW b \in 1..Hi(r) PROVE b \in Stored'
      OBVIOUS
    <2>1. CASE b <= r.lo - 1
      <3>1. b \in 1..(r.lo - 1)
        BY <1>2, <2>1 DEF Crawls
      <3> QED
        BY <1>1, <1>2, <3>1
    <2>2. CASE b >= r.lo
      <3>1. b \in Blocks
        BY <1>2, <1>3, ChunkSizes DEF Blocks, Crawls
      <3>2. Events(b, b) \subseteq batch
        BY <1>2, <1>3, <2>2 DEF Events, Crawls
      <3> QED
        BY <1>6, <3>1, <3>2 DEF Stored
    <2> QED
      BY <1>2, <2>1, <2>2 DEF Crawls
  <1>8. crawl'[c] = s
    BY <1>4, TurnResult DEF HistoryInv
  <1> HIDE DEF s
  <1>9. CrawlKeeps(crawl[c])'
    <2>1. 1..(s.lo - 1) \subseteq Stored'
      BY <1>1, <1>2, <1>4
    <2>2. 1 <= s.lo /\ s.lo <= s.top /\ s.top <= head'
      BY <1>2, <1>4
    <2>3. Hi(crawl[c])' = Hi(r)
      BY <1>5, <1>8 DEF Hi
    <2> QED
      BY <1>7, <1>8, <2>1, <2>2, <2>3 DEF CrawlKeeps
  <1> QED
    BY <1>4, <1>9, TurnKeeps

\* The cursor is set behind what is stored; the next range starts there.
LEMMA SaveKeeps ==
    ASSUME HistoryInv, NEW c \in Crawlers, Save(c), [HistoryNext]_historyVars
    PROVE  DataInv'
  <1> DEFINE r == crawl[c]
  <1>1. Stored' = Stored /\ head' = head
    BY DEF Save, Stored
  <1>2. /\ r \in Crawls /\ r.chunk \in MinChunk..MaxChunk /\ r.lo <= r.top /\ 1 <= r.lo
        /\ r.top <= head /\ 1..Hi(r) \subseteq Stored
    BY DEF HistoryInv, HistoryTypeOK, DataInv, CrawlKeeps, Save
  <1>3. Hi(r) \in Nat /\ r.lo <= Hi(r) /\ Hi(r) <= r.top
    BY <1>2, RangeEnds
  <1>4. HistoryComplete'
    BY <1>1, <1>2 DEF HistoryComplete, Save, Saved, HistoryInv, DataInv
  <1>5. CASE Turns(c, Idle)
    BY <1>4, <1>5, IdleKeeps, TurnResult, OthersKeep DEF HistoryInv, DataInv
  <1>6. CASE Hi(r) < r.top /\ Turns(c, NextRange(r))
    <2>1. crawl'[c] = NextRange(r)
      BY <1>6, TurnResult DEF HistoryInv
    <2>2. Hi(r) + 1 - 1 = Hi(r) /\ 1 <= Hi(r) + 1 /\ Hi(r) + 1 <= r.top
      BY <1>2, <1>3, <1>6 DEF Crawls
    <2>3. /\ NextRange(r).stage = "fetch" /\ NextRange(r).lo = Hi(r) + 1
          /\ NextRange(r).top = r.top
      BY DEF NextRange
    <2>4. /\ crawl'[c].stage = "fetch" /\ crawl'[c].lo = Hi(r) + 1
          /\ crawl'[c].top = r.top
      BY <2>1, <2>3
    <2>5. 1 <= crawl'[c].lo /\ crawl'[c].lo <= crawl'[c].top /\ crawl'[c].top <= head'
      BY <1>1, <1>2, <1>3, <2>2, <2>4
    <2>6. 1..(crawl'[c].lo - 1) \subseteq Stored'
      BY <1>1, <1>2, <1>3, <2>2, <2>4
    <2>7. crawl'[c].stage # "save"
      BY <2>4
    <2>8. CrawlKeeps(crawl[c])'
      BY <2>5, <2>6, <2>7 DEF CrawlKeeps
    <2> QED
      BY <1>4, <1>6, <2>8, TurnResult, OthersKeep DEF HistoryInv, DataInv
  <1> QED
    BY <1>5, <1>6 DEF Save

LEMMA NextData ==
    ASSUME HistoryInv, [HistoryNext]_historyVars
    PROVE  DataInv'
  <1>1. ASSUME crawl' = crawl, cursor' = cursor PROVE DataInv'
    <2>1. Stored \subseteq Stored'
      BY RowsStay, StoredGrows DEF HistoryInv
    <2> QED
      BY <1>1, <2>1, OthersKeep DEF HistoryInv, DataInv, HistoryComplete
  <1>2. ASSUME NEW c \in Crawlers, NEW resume \in BOOLEAN, Start(c, resume)
        PROVE  DataInv'
    BY <1>2, StartKeeps
  <1>3. ASSUME NEW c \in Crawlers, Works(c) PROVE DataInv'
    BY <1>3, FetchKeeps, StoreKeeps, SaveKeeps DEF Works
  <1>4. ASSUME NEW c \in Crawlers, Crash(c) PROVE DataInv'
    BY <1>4, IdleKeeps, TurnKeeps DEF Crash, HistoryInv
  <1>5. ASSUME \/ Mine \/ UNCHANGED historyVars
               \/ \E t \in Listed : Nightly(t) \/ \E day \in Days : FetchDay(t, day)
               \/ \E k \in Keys : Override(k)
        PROVE  DataInv'
    BY <1>1, <1>5 DEF Mine, historyVars, Nightly, FetchDay, Override
  <1> QED
    BY <1>2, <1>3, <1>4, <1>5 DEF HistoryNext

LEMMA InitData == HistoryInit => DataInv
  BY IdleIsCrawl DEF HistoryInit, DataInv, HistoryComplete, CrawlKeeps

-----------------------------------------------------------------------------
(* Theorems                                                                 *)

\* What the history may rely on, inductive: the types, the cursor, and what each crawl
\* under way has behind it.
THEOREM HistorySound == HistorySpec => []HistoryInv
  <1>1. HistoryInit => HistoryInv
    BY InitTyped, InitData DEF HistoryInv
  <1>2. HistoryInv /\ [HistoryNext]_historyVars => HistoryInv'
    BY NextTyped, NextData DEF HistoryInv
  <1> QED
    BY <1>1, <1>2, PTL DEF HistorySpec

\* historical_prices: every row is an event of its own token and day, and the crawls keep
\* the bounds of their chunks.
THEOREM HistoryTyped == HistorySpec => []HistoryTypeOK
  <1>1. HistoryInv => HistoryTypeOK
    BY DEF HistoryInv
  <1> QED
    BY <1>1, HistorySound, PTL

\* backfill --resume: nothing finalised up to the cursor is missing, whatever crawls
\* overlap and die.
THEOREM NothingSkipped == HistorySpec => []HistoryComplete
  <1>1. HistoryInv => HistoryComplete
    BY DEF HistoryInv, DataInv
  <1> QED
    BY <1>1, HistorySound, PTL

\* upsert_historical_prices: a price the user entered is never overwritten.
THEOREM UserPricesStand == HistorySpec => ManualStands
  <1>1. HistoryInv /\ [HistoryNext]_historyVars =>
            [\A k \in Keys : hist[k] = Manual => hist'[k] = Manual]_historyVars
    BY RowsStay DEF HistoryInv
  <1> QED
    BY <1>1, HistorySound, PTL DEF HistorySpec, ManualStands

\* The backfill implements the abstract crawl: every step of it, and of the other
\* writers, keeps days, sets the cursor behind what is kept, or is a stutter.
THEOREM BackfillRefinesCrawl == HistorySpec => BackfillIsACrawl
  <1>1. HistoryInit => Promise!Init
    BY ChunkSizes DEF HistoryInit, Promise!Init, Stored, Blocks
  <1>2. HistoryInv /\ HistoryInv' /\ [HistoryNext]_historyVars => [Promise!Next]_<<cursor, Stored>>
    <2> SUFFICES ASSUME HistoryInv, HistoryInv', [HistoryNext]_historyVars
                 PROVE  Promise!Next
      OBVIOUS
    <2>1. Stored \subseteq Stored'
      BY RowsStay, StoredGrows DEF HistoryInv
    <2>2. 1..cursor' \subseteq Stored'
      BY DEF HistoryInv, DataInv, HistoryComplete
    <2>3. cursor' \in Nat
      <3>1. cursor' \in 0..head'
        BY DEF HistoryInv, HistoryTypeOK
      <3> QED
        BY <3>1
    <2> QED
      BY <2>1, <2>2, <2>3 DEF Promise!Next, Promise!Advance
  <1> QED
    BY <1>1, <1>2, HistorySound, PTL DEF HistorySpec, BackfillIsACrawl, Promise!Spec
=============================================================================

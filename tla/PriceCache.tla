----------------------------- MODULE PriceCache ------------------------------
(***************************************************************************)
(* Today's price of one token: PricingService._resolve and the Redis cache   *)
(* of pricing/cache.py, shared by every process that asks.                   *)
(*                                                                         *)
(* A call walks the tiers: the fresh entry, the negative entry, then, under  *)
(* a single-flight lock, the token's sources; a caller that misses the lock  *)
(* takes the last known good entry (LKG).  Every Redis command and every     *)
(* source is a step, so other callers come in between.                       *)
(*                                                                         *)
(* The TTLs (60 s, 30 s, 7 days, 10 s) are steps that may happen at any      *)
(* time: nothing bounds how long a source takes.  The lock's key holds "1",  *)
(* whoever set it.                                                           *)
(*                                                                         *)
(* Of a price only the time it was read is kept.  The registry knows the     *)
(* token and its chain is not "bsc"; keys of other tokens are other instances *)
(* of this module.                                                           *)
(***************************************************************************)
EXTENDS Integers, Sequences, FiniteSets

CONSTANTS
    Callers,        \* processes that ask for the price
    Symbols,        \* the token classes to look at: a subset of {"LUSD", "LEMX", "L2"}
    Markets,        \* the sets of quotes that can be had together
    MaxTime,        \* bound: how often the market moves
    MaxOverruns,    \* bound: how often the lock runs out under a caller
    MaxDeaths,      \* bound: callers that die or meet a Redis error
    None

ASSUME CallersAssumption == IsFiniteSet(Callers)
ASSUME BoundsAssumption ==
    MaxTime \in Nat /\ MaxOverruns \in Nat /\ MaxDeaths \in Nat
ASSUME SymbolsAssumption == Symbols \subseteq {"LUSD", "LEMX", "L2"}

Quotes  == {"oracle_spot", "oracle_daily_avg", "coingecko", "coinmarketcap"}
Sources == Quotes \cup {"stable_peg", "last_known_good"}
Times   == 0..MaxTime

ASSUME NoneAssumption == None \notin Times
\* The oracle's daily average is its latest round, however old: a stale feed stops
\* only the spot price.
ASSUME MarketsAssumption ==
    /\ Markets \subseteq SUBSET Quotes
    /\ \A S \in Markets : "oracle_spot" \in S => "oracle_daily_avg" \in S

VARIABLES
    symbol,     \* the token's class
    now,        \* time, as far as prices tell it
    up,         \* the quotes that can be had now
    fresh,      \* price:fresh:<token>, or None
    lkg,        \* price:lkg:<token>, or None
    negative,   \* price:neg:<token> is set
    lock,       \* price:lock:<token> is set
    calls,      \* what each caller is doing, or was told last
    overruns, deaths

world == <<symbol, now, up>>
cache == <<fresh, lkg, negative>>
vars  == <<world, cache, lock, calls, overruns, deaths>>

Stages == {"idle", "fresh", "negative", "acquire", "fallback", "sources",
           "set_fresh", "set_lkg", "set_negative", "release"}

\* use is the request, "spot" (get_current_price) or "fmv" (get_historical_price
\* for today); left are the sources still to try; since is when it was asked.  Of an
\* answer only the request and whether it was stale are remembered.
Calls == [stage : Stages, use : {"spot", "fmv"}, left : Seq(Sources),
          got : Times \cup {None}, stale : BOOLEAN, since : Times]

Resolving == {"sources", "set_fresh", "set_lkg", "set_negative", "release"}
Resolvers == {c \in Callers : calls[c].stage \in Resolving}

\* The cascade of a token class; the stale tail is for current prices only.
SourcesFor(sym, use) ==
    LET oracle == IF use = "fmv" THEN <<"oracle_daily_avg">> ELSE <<"oracle_spot">>
        tail   == IF use = "fmv" THEN <<>> ELSE <<"last_known_good">>
    IN CASE sym = "LUSD" -> <<"stable_peg">>
         [] sym = "LEMX" -> oracle \o <<"coingecko", "coinmarketcap">> \o tail
         [] OTHER -> oracle \o tail

\* What a source answers now; an exception counts as no answer.
Answer(source) ==
    CASE source = "last_known_good" -> lkg
      [] source \in up \cup {"stable_peg"} -> now
      [] OTHER -> None

Quiet == [stage |-> "idle", use |-> "spot", left |-> <<>>, got |-> None,
          stale |-> FALSE, since |-> 0]

At(c, stage) == calls[c].stage = stage
Enters(c, call) == calls' = [calls EXCEPT ![c] = call]
Goes(c, stage) == Enters(c, [calls[c] EXCEPT !.stage = stage])
Told(c, stale) == Enters(c, [Quiet EXCEPT !.use = calls[c].use, !.stale = stale])

-----------------------------------------------------------------------------
(* The world                                                                *)

\* Prices move; feeds go stale, sites fail, either comes back.
MarketMoves(S) ==
    /\ now < MaxTime
    /\ now' = now + 1 /\ up' = S
    /\ UNCHANGED <<symbol, cache, lock, calls, overruns, deaths>>

FreshExpires ==
    /\ fresh # None /\ fresh' = None
    /\ UNCHANGED <<world, lkg, negative, lock, calls, overruns, deaths>>

LkgExpires ==
    /\ lkg # None /\ lkg' = None
    /\ UNCHANGED <<world, fresh, negative, lock, calls, overruns, deaths>>

NegativeExpires ==
    /\ negative /\ negative' = FALSE
    /\ UNCHANGED <<world, fresh, lkg, lock, calls, overruns, deaths>>

\* Slip: the key is set without EX.
MutLockRunsOut == FALSE /\ UNCHANGED vars

\* The lock's TTL: over a dead caller's key, or under one that is still resolving.
LockRunsOut ==
    /\ lock /\ lock' = FALSE
    /\ IF Resolvers = {} THEN UNCHANGED overruns
       ELSE overruns < MaxOverruns /\ overruns' = overruns + 1
    /\ UNCHANGED <<world, cache, calls, deaths>>

-----------------------------------------------------------------------------
(* A call                                                                   *)

Ask(c, use) ==
    /\ At(c, "idle")
    /\ Enters(c, [Quiet EXCEPT !.stage = "fresh", !.use = use, !.since = now])
    /\ UNCHANGED <<world, cache, lock, overruns, deaths>>

ReadFresh(c) ==
    /\ At(c, "fresh")
    /\ IF fresh # None THEN Told(c, FALSE) ELSE Goes(c, "negative")
    /\ UNCHANGED <<world, cache, lock, overruns, deaths>>

ReadNegative(c) ==
    /\ At(c, "negative")
    /\ IF negative THEN Told(c, FALSE) ELSE Goes(c, "acquire")
    /\ UNCHANGED <<world, cache, lock, overruns, deaths>>

\* Slip: SET without NX.
MutAcquire(c) ==
    /\ At(c, "acquire")
    /\ lock' = TRUE
    /\ Enters(c, [calls[c] EXCEPT !.stage = "sources",
                                  !.left = SourcesFor(symbol, calls[c].use)])
    /\ UNCHANGED <<world, cache, overruns, deaths>>

\* SET NX: one caller resolves, the others serve the last known good price.
Acquire(c) ==
    /\ At(c, "acquire")
    /\ lock' = TRUE
    /\ IF lock THEN Goes(c, "fallback")
       ELSE Enters(c, [calls[c] EXCEPT !.stage = "sources",
                                       !.left = SourcesFor(symbol, calls[c].use)])
    /\ UNCHANGED <<world, cache, overruns, deaths>>

\* Slip: the caller that lost the lock leaves by the finally clause too.
MutReadLkg(c) ==
    /\ At(c, "fallback")
    /\ lock' = FALSE
    /\ Told(c, lkg # None)
    /\ UNCHANGED <<world, cache, overruns, deaths>>

ReadLkg(c) ==
    /\ At(c, "fallback")
    /\ Told(c, lkg # None)
    /\ UNCHANGED <<world, cache, lock, overruns, deaths>>

\* Slip: a stale result is stored like any other.
MutAfterSource(stale) == "set_fresh"

AfterSource(stale) == IF stale THEN "release" ELSE "set_fresh"

\* One source after the other until one answers.
TrySource(c) ==
    /\ At(c, "sources")
    /\ LET left  == calls[c].left
           price == Answer(Head(left))
           stale == Head(left) = "last_known_good"
       IN IF left = <<>> THEN Goes(c, "set_negative")
          ELSE IF price = None
          THEN Enters(c, [calls[c] EXCEPT !.left = Tail(left)])
          ELSE Enters(c, [calls[c] EXCEPT !.stage = AfterSource(stale), !.left = <<>>,
                                          !.got = price, !.stale = stale])
    /\ UNCHANGED <<world, cache, lock, overruns, deaths>>

\* PriceCache.set is two commands.
SetFresh(c) ==
    /\ At(c, "set_fresh")
    /\ fresh' = calls[c].got
    /\ Goes(c, "set_lkg")
    /\ UNCHANGED <<world, lkg, negative, lock, overruns, deaths>>

SetLkg(c) ==
    /\ At(c, "set_lkg")
    /\ lkg' = calls[c].got
    /\ Goes(c, "release")
    /\ UNCHANGED <<world, fresh, negative, lock, overruns, deaths>>

SetNegative(c) ==
    /\ At(c, "set_negative")
    /\ negative' = TRUE
    /\ Goes(c, "release")
    /\ UNCHANGED <<world, fresh, lkg, lock, overruns, deaths>>

\* The finally clause deletes the key, whoever's it is by now.
Release(c) ==
    /\ At(c, "release")
    /\ lock' = FALSE
    /\ Told(c, calls[c].stale)
    /\ UNCHANGED <<world, cache, overruns, deaths>>

\* The process dies: the finally clause does not run.
Die(c) ==
    /\ ~At(c, "idle")
    /\ deaths < MaxDeaths /\ deaths' = deaths + 1
    /\ Told(c, FALSE)
    /\ UNCHANGED <<world, cache, lock, overruns>>

\* Redis refuses a write: the exception leaves _resolve by the finally clause.
WriteFails(c) ==
    /\ calls[c].stage \in {"set_fresh", "set_lkg", "set_negative"}
    /\ deaths < MaxDeaths /\ deaths' = deaths + 1
    /\ lock' = FALSE
    /\ Told(c, FALSE)
    /\ UNCHANGED <<world, cache, overruns>>

-----------------------------------------------------------------------------
Init ==
    /\ symbol \in Symbols
    /\ now = 0 /\ up \in Markets
    /\ fresh = None /\ lkg = None /\ negative = FALSE /\ lock = FALSE
    /\ calls = [c \in Callers |-> Quiet]
    /\ overruns = 0 /\ deaths = 0

Work(c) ==
    \/ ReadFresh(c) \/ ReadNegative(c) \/ Acquire(c) \/ ReadLkg(c) \/ TrySource(c)
    \/ SetFresh(c) \/ SetLkg(c) \/ SetNegative(c) \/ Release(c)

Expiry == FreshExpires \/ LkgExpires \/ NegativeExpires \/ LockRunsOut

Next ==
    \/ \E S \in Markets : MarketMoves(S)
    \/ Expiry
    \/ \E c \in Callers, use \in {"spot", "fmv"} : Ask(c, use)
    \/ \E c \in Callers : Work(c) \/ Die(c) \/ WriteFails(c)

Spec == Init /\ [][Next]_vars

\* Running callers go on, TTLs of the two keys that stand in the way pass, and
\* somebody keeps asking.  Nobody has to die, and nothing else has to expire.
Fairness ==
    /\ \A c \in Callers : WF_vars(Work(c))
    /\ WF_vars(LockRunsOut) /\ WF_vars(NegativeExpires)
    /\ WF_vars(\E c \in Callers : Ask(c, "spot"))

FairSpec == Spec /\ Fairness

-----------------------------------------------------------------------------
(* Properties                                                               *)

\* The cache holds prices and flags, and every call is well formed.
TypeOK ==
    /\ symbol \in Symbols /\ now \in Times /\ up \in Markets
    /\ fresh \in Times \cup {None} /\ lkg \in Times \cup {None}
    /\ negative \in BOOLEAN /\ lock \in BOOLEAN
    /\ calls \in [Callers -> Calls]
    /\ overruns \in Nat /\ deaths \in Nat

\* How far the single flight of cache.py:11 holds.  A caller whose lock has run out
\* goes on, and deletes the key of the next one when it is done, which lets a third
\* in: still every overrun costs one more caller at the sources, never a growing herd.
StampedeBounded ==
    Cardinality(Resolvers) <= overruns + (IF lock THEN 1 ELSE 0)

\* "if not result.stale" (service.py:222): a price enters the fresh tier only from a
\* caller that has read it from a source since it was asked; a last known good price
\* is never made young again, however often it is served.
FreshIsRead ==
    [][fresh' \notin {fresh, None} =>
        \E c \in Callers : At(c, "set_fresh") /\ fresh' >= calls[c].since]_vars

\* As long as no lock has run out under its holder, the cache never steps back: what
\* is stored was read no earlier than what it replaces, in either tier, although a
\* process may die between the two writes.
CacheNeverStepsBack ==
    [][overruns = 0 =>
        /\ fresh' # None =>
             \A old \in {fresh, lkg} \ {None} : old <= fresh' \/ fresh' = fresh
        /\ lkg' # None /\ lkg # None => lkg <= lkg']_vars

\* service.py:17: "fmv=True -- MUST NOT substitute stale; returns None".
FmvNeverStale == \A c \in Callers : ~(calls[c].use = "fmv" /\ calls[c].stale)

\* Outages, dead lock holders and negative entries pass: when the oracle is back for
\* good, a fresh price is there again and again.
PriceRecovers == <>[]("oracle_spot" \in up) => []<>(fresh # None)
=============================================================================

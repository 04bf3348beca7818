------------------------------ MODULE MCPricing -------------------------------
(***************************************************************************)
(* PricingService.get_historical_price answers today from the cache and its  *)
(* sources and the past from historical_prices.  The two share no state, so a *)
(* behaviour exercises one of them, and "day" says which.                    *)
(*                                                                         *)
(* Today: two callers; feeds that stop, go stale, and come back.             *)
(* The past: two crawls over a token of the registry with two finalised days  *)
(* and one the registry does not know.  The range 2..3 holds too many events; *)
(* block by block none does.                                                 *)
(***************************************************************************)
EXTENDS PriceCache, PriceHistory

MCMarkets ==
    {{"oracle_spot", "oracle_daily_avg"}, {"oracle_daily_avg"}, {"coingecko"}}

Event(b, t, d) == [block |-> b, token |-> t, day |-> d]

MCFinalized == {Event(2, "known", 1), Event(3, "known", 2), Event(3, "unknown", 2)}
MCDayOf == <<1, 2, 3, 4>>

VARIABLE day

Today == day = "today" /\ UNCHANGED <<day, historyVars>>
Past  == day = "past" /\ UNCHANGED <<day, vars>>
all   == <<vars, historyVars, day>>

PricingInit ==
    /\ Init /\ HistoryInit
    /\ \/ day = "today"
       \/ day = "past" /\ symbol = "LEMX" /\ up = {"coingecko"}

PricingNext == (Today /\ Next) \/ (Past /\ HistoryNext)

\* The fairness of both modules.
PricingSpec ==
    /\ PricingInit /\ [][PricingNext]_all
    /\ \A c \in Callers : WF_all(Today /\ Work(c))
    /\ WF_all(Today /\ LockRunsOut) /\ WF_all(Today /\ NegativeExpires)
    /\ WF_all(Today /\ \E c \in Callers : Ask(c, "spot"))
    /\ \A c \in Crawlers : WF_all(Past /\ Works(c))
=============================================================================

------------------------------- MODULE Bridge -------------------------------
(***************************************************************************)
(* domain/bridge: the pass that pairs what left one chain with what entered *)
(* another, the user's answers, and the nightly age-out.                     *)
(*                                                                         *)
(* A pass is one transaction of a Celery task, of one user, one at a time.   *)
(* It reads its legs once and then queries for every hypothesis, so it sees  *)
(* what other sessions commit meanwhile; nobody sees its rows before it       *)
(* commits, and the rows it changed are locked until then.  It commits in the *)
(* stage "score": one step per scored pair, and nobody else's in between.     *)
(*                                                                         *)
(* Rows are filed under their two legs.  A pair is made once: when it is      *)
(* rejected its legs are the user's, and never paired again.                 *)
(***************************************************************************)
EXTENDS Signals

CONSTANTS
    Bridgeable,     \* CTs of a token with a logical asset, worth a dollar or unpriced
    ChainOf, AssetOf, AmountOf, MinuteOf,
    CustodyOf,      \* recognize_custody of the CT's contract
    Disposers       \* the entities whose bridge_treatment is "disposition"

ASSUME LegsAssumption ==
    /\ Bridgeable \subseteq Events
    /\ AmountOf \in [Events -> Nat] /\ MinuteOf \in [Events -> Nat]
    /\ CustodyOf \in [Events -> {"recognized", "inferred", "unknown"}]
ASSUME ClassifierAssumption == \A e \in Events : FirstClass[e] \notin {"bridge-in", "bridge-out"}

Pairs == Events \X Events
Singles == (Events \X {None}) \cup ({None} \X Events)
Keys == Pairs \cup Singles
Legs(k) == {k[1], k[2]} \ {None}

Rows == [status : {"confirmed", "needs_confirmation", "rejected", "unmatched"},
         by : {"auto", "user", None}]
Row(status, by) == [status |-> status, by |-> by]

ASSUME LinksAssumption == Keys \subseteq BridgeLinks
ASSUME RowsAssumption == None \notin Rows \cup {"auto", "user"}

VARIABLES
    corr,       \* bridge_correlations: legs |-> row, or None
    audited,    \* singletons bridge_audit_log points at
    review,     \* CTs whose needs_review the bridge has set
    pass        \* the running pass

vars == <<ct, corr, audited, review, pass>>

\* left holds the hypotheses still to be looked at; made and gone are the rows the pass
\* has written and the singletons they replace; scored are the pairs it will score.
Passes == [stage : {"idle", "pair", "score"}, legs : SUBSET Events, left : SUBSET Pairs,
           used : SUBSET Events, made : SUBSET Keys, gone : SUBSET Keys, scored : SUBSET Pairs]
NoPass == [stage |-> "idle", legs |-> {}, left |-> {}, used |-> {},
           made |-> {}, gone |-> {}, scored |-> {}]

-----------------------------------------------------------------------------
(* Hypotheses and their score                                               *)

\* Decimal.to_integral_value: half to even.
Rounded(n, d) ==
    LET whole == n \div d
        rest == 2 * (n % d)
    IN IF rest > d \/ (rest = d /\ whole % 2 = 1) THEN whole + 1 ELSE whole

Gap(m, n) == IF m < n THEN n - m ELSE m - n

Bps(o, i) == IF AmountOf[o] = 0 THEN 0
             ELSE Rounded(Gap(AmountOf[o], AmountOf[i]) * 10000, AmountOf[o])
Minutes(o, i) == Gap(MinuteOf[o], MinuteOf[i])

Eligible(o, i) ==
    /\ ChainOf[o] # ChainOf[i] /\ AssetOf[o] = AssetOf[i]
    /\ Minutes(o, i) <= 240
    /\ Bps(o, i) <= 500

\* The order of the hypotheses; what is tied comes in any order.
Before(h, g) ==
    \/ Bps(h[1], h[2]) < Bps(g[1], g[2])
    \/ Bps(h[1], h[2]) = Bps(g[1], g[2]) /\ Minutes(h[1], h[2]) < Minutes(g[1], g[2])

\* score_pair with status_for_level: only HIGH is confirmed without the user.
ScoresHigh(o, i) ==
    /\ Bps(o, i) <= 50 /\ Minutes(o, i) <= 30
    /\ "recognized" \in {CustodyOf[o], CustodyOf[i]}

ScoredRow(k) == IF ScoresHigh(k[1], k[2])
                THEN Row("confirmed", "auto") ELSE Row("needs_confirmation", None)

-----------------------------------------------------------------------------
(* The signal columns                                                       *)

\* _get_entity_bridge_treatment; without an owner it is "relocate".
Relocates(o) == OwnerOf(o, o) \notin Disposers

Kept(k, confirmed, e) == e \notin Legs(k) \/ (confirmed /\ ~Relocates(k[1]))

\* Slip: a restored inflow keeps its link.
MutSetSignal(k, confirmed) ==
    ct' = [e \in Events |->
             IF Kept(k, confirmed, e) THEN ct[e]
             ELSE IF e = k[1]
             THEN [ct[e] EXCEPT !.class = IF confirmed THEN "bridge-out" ELSE "transfer-out"]
             ELSE [ct[e] EXCEPT !.class = IF confirmed THEN "bridge-in" ELSE "transfer-in",
                                !.src = IF confirmed THEN k[1] ELSE @]]

\* set_classification_signal; a confirmed disposition changes nothing but
\* bridge_correlation_id, which nobody reads.
SetSignal(k, confirmed) ==
    ct' = [e \in Events |->
             IF Kept(k, confirmed, e) THEN ct[e]
             ELSE IF e = k[1]
             THEN [ct[e] EXCEPT !.class = IF confirmed THEN "bridge-out" ELSE "transfer-out"]
             ELSE [ct[e] EXCEPT !.class = IF confirmed THEN "bridge-in" ELSE "transfer-in",
                                !.src = IF confirmed THEN k[1] ELSE None]]

-----------------------------------------------------------------------------
(* The pass                                                                 *)

Unlocked == pass.stage # "score"

Classify(e) ==
    /\ Unlocked
    /\ Arrives(e)
    /\ UNCHANGED <<corr, audited, review, pass>>

\* find_candidate_legs, from some moment on, and _build_hypotheses.
OpenPass(since) ==
    LET legs == {e \in Bridgeable \cap Arrived :
                   e >= since /\ ct[e].class \in {"transfer-out", "transfer-in"}}
    IN /\ pass.stage = "idle" /\ legs # {}
       /\ pass' = [NoPass EXCEPT
                     !.stage = "pair", !.legs = legs,
                     !.left = {h \in legs \X legs : /\ ct[h[1]].class = "transfer-out"
                                                    /\ ct[h[2]].class = "transfer-in"
                                                    /\ Eligible(h[1], h[2])}]
       /\ UNCHANGED <<ct, corr, audited, review>>

\* Slip: what the user said is not asked for.
MutUserResolved(e) == FALSE

\* _is_user_resolved.
UserResolved(e) == \E k \in Keys : e \in Legs(k) /\ corr[k] # None /\ corr[k].by = "user"

\* _existing_singleton.
OpenSingle(k) == k \in Singles /\ corr[k] = Row("unmatched", None)

Foremost(h) == h \in pass.left /\ \A g \in pass.left : ~Before(g, h)

\* What becomes of the pass when legs are used: their other hypotheses are skipped.
Using(legs) == [pass EXCEPT !.used = @ \cup legs,
                            !.left = {g \in @ : Legs(g) \cap legs = {}}]

PassOver(h) ==
    /\ pass.stage = "pair" /\ Foremost(h)
    /\ UserResolved(h[1]) \/ UserResolved(h[2])
    /\ pass' = Using(IF UserResolved(h[1]) THEN {h[1]} ELSE {h[2]})
    /\ UNCHANGED <<ct, corr, audited, review>>

Takes(h, new) ==
    /\ pass.stage = "pair" /\ Foremost(h)
    /\ ~UserResolved(h[1]) /\ ~UserResolved(h[2])
    /\ new <=> corr[h] = None \/ corr[h].status = "rejected"

\* _existing_pair: the row is scored again.
FindPair(h) ==
    /\ Takes(h, FALSE)
    /\ pass' = [Using(Legs(h)) EXCEPT !.scored = @ \cup {h}]
    /\ UNCHANGED <<ct, corr, audited, review>>

Replaced(h) == {k \in {<<h[1], None>>, <<None, h[2]>>} : OpenSingle(k)}

\* A merge deletes the inflow's singleton, which the audit log must not point at.
Refused(h) == Cardinality(Replaced(h)) = 2 /\ <<None, h[2]>> \in audited

\* A singleton is upgraded in place, two are merged, or a row is created.
MakePair(h) ==
    /\ Takes(h, TRUE) /\ ~Refused(h)
    /\ pass' = [Using(Legs(h)) EXCEPT !.scored = @ \cup {h}, !.made = @ \cup {h},
                                      !.gone = @ \cup Replaced(h)]
    /\ UNCHANGED <<ct, corr, audited, review>>

\* The delete fails on the foreign key, and the pass with it.
RefuseMerge(h) ==
    /\ Takes(h, TRUE) /\ Refused(h)
    /\ pass' = NoPass
    /\ UNCHANGED <<ct, corr, audited, review>>

\* Any other error, or the end of the worker.
AbortPass ==
    /\ pass.stage = "pair"
    /\ pass' = NoPass
    /\ UNCHANGED <<ct, corr, audited, review>>

Single(e) == IF ct[e].class \in Outflows THEN <<e, None>> ELSE <<None, e>>

\* Slip: a leg is not left to itself when its hypotheses went to others.
MutLeftOver == {Single(e) : e \in {l \in pass.legs \ pass.used : ~UserResolved(l)
                                   /\ \A g \in pass.legs : ~Eligible(l, g)}}

\* Legs nothing was found for; one that has an open singleton keeps it.
LeftOver == {Single(e) : e \in {l \in pass.legs \ pass.used : ~UserResolved(l)}}

\* The singletons are written, and the pass commits what it wrote.
Publish ==
    /\ pass.stage = "pair" /\ pass.left = {}
    /\ corr' = [k \in Keys |->
                  IF k \in pass.made THEN ScoredRow(k)
                  ELSE IF k \in pass.gone THEN None
                  ELSE IF k \in LeftOver THEN Row("unmatched", None)
                  ELSE corr[k]]
    /\ audited' = audited \ pass.gone
    /\ pass' = [pass EXCEPT !.stage = "score"]
    /\ UNCHANGED <<ct, review>>

\* A row found and not made comes out as it went in: its score is what it was, and only
\* columns that differ from what the pass had loaded are written.
Score(h) ==
    /\ pass.stage = "score" /\ h \in pass.scored
    /\ SetSignal(h, ScoresHigh(h[1], h[2]))
    /\ pass' = [pass EXCEPT !.scored = @ \ {h}]
    /\ UNCHANGED <<corr, audited, review>>

ClosePass ==
    /\ pass.stage = "score" /\ pass.scored = {}
    /\ pass' = NoPass
    /\ UNCHANGED <<ct, corr, audited, review>>

-----------------------------------------------------------------------------
(* Answers, and no answer                                                   *)

\* Slip: a rejection leaves the signals as they are.
MutResolvePair(k, decision) ==
    /\ Unlocked
    /\ k \in Pairs /\ corr[k] # None
    /\ corr[k] # Row(decision, "user")
    /\ corr' = [corr EXCEPT ![k] = Row(decision, "user")]
    /\ IF decision = "confirmed" THEN SetSignal(k, TRUE) ELSE UNCHANGED ct
    /\ UNCHANGED <<audited, review, pass>>

\* resolve_pair; the same answer again is nothing.
ResolvePair(k, decision) ==
    /\ Unlocked
    /\ k \in Pairs /\ corr[k] # None
    /\ corr[k] # Row(decision, "user")
    /\ corr' = [corr EXCEPT ![k] = Row(decision, "user")]
    /\ SetSignal(k, decision = "confirmed")
    /\ UNCHANGED <<audited, review, pass>>

\* resolve_unmatched.
ResolveUnmatched(k, resolution) ==
    /\ Unlocked
    /\ k \in Singles \ pass.gone /\ corr[k] # None
    /\ IF resolution \in {"sale", "third-party"}
       THEN /\ corr' = [corr EXCEPT ![k] = Row("rejected", "user")]
            /\ SetSignal(k, FALSE)
       ELSE /\ corr' = [corr EXCEPT ![k] = Row("unmatched", "user")]
            /\ UNCHANGED ct
    /\ review' = IF resolution = "other" THEN review \cup Legs(k) ELSE review
    /\ audited' = audited \cup {k}
    /\ UNCHANGED pass

\* The singletons a merge has deleted.
Deleted == {k \in pass.gone :
              k[1] = None /\ \E h \in pass.made : h[2] = k[2] /\ <<h[1], None>> \in pass.gone}

\* Slip: only what left is looked at.
MutSurface(k) ==
    /\ Unlocked
    /\ OpenSingle(k) /\ k \notin Deleted /\ k[1] # None
    /\ SetSignal(k, FALSE)
    /\ review' = review \cup Legs(k)
    /\ audited' = audited \cup {k}
    /\ UNCHANGED <<corr, pass>>

\* surface_aged_unmatched, one row at a time: the rows have nothing in common.  Any open
\* singleton may be a week old and its wallet synced a day past the leg; it is done again
\* every night.  Its audit row waits for a merge that has deleted the singleton.
Surface(k) ==
    /\ Unlocked
    /\ OpenSingle(k) /\ k \notin Deleted
    /\ SetSignal(k, FALSE)
    /\ review' = review \cup Legs(k)
    /\ audited' = audited \cup {k}
    /\ UNCHANGED <<corr, pass>>

-----------------------------------------------------------------------------
Init ==
    /\ SignalInit
    /\ corr = [k \in Keys |-> None]
    /\ audited = {} /\ review = {}
    /\ pass = NoPass

Works ==
    \/ \E h \in Pairs : PassOver(h) \/ FindPair(h) \/ MakePair(h) \/ RefuseMerge(h) \/ Score(h)
    \/ Publish
    \/ ClosePass

Answers ==
    \E k \in Keys :
        \/ \E decision \in {"confirmed", "rejected"} : ResolvePair(k, decision)
        \/ \E resolution \in {"sale", "third-party", "bridge-pending", "other"} :
              ResolveUnmatched(k, resolution)

Next ==
    \/ \E e \in Events : Classify(e) \/ OpenPass(e)
    \/ Works
    \/ AbortPass
    \/ Answers
    \/ \E k \in Keys : Surface(k)

Spec == Init /\ [][Next]_vars

\* A pass ends, and every night the age-out runs over what grew old: strong fairness, as a
\* commit only delays it and passes may come without end.  Nothing schedules a pass.
Fairness ==
    /\ WF_vars(Works)
    /\ \A e \in Events : SF_vars(Surface(<<e, None>>) \/ Surface(<<None, e>>))

FairSpec == Spec /\ Fairness

-----------------------------------------------------------------------------
(* Properties                                                               *)

TypeOK ==
    /\ ct \in [Events -> CTs \cup {None}]
    /\ corr \in [Keys -> Rows \cup {None}]
    /\ audited \subseteq Singles
    /\ review \subseteq Events
    /\ pass \in Passes

\* The engine moves lots across chains only for a correlation that is confirmed, by the
\* user or with a high score, and whose entity relocates: whatever order passes, answers,
\* later partners and age-outs come in, no signal outlives its confirmation.
MovesAreConfirmed ==
    \A e \in Arrived :
        /\ ct[e].class = "bridge-out" =>
              /\ Relocates(e)
              /\ \E i \in Events : corr[<<e, i>>] # None /\ corr[<<e, i>>].status = "confirmed"
        /\ ct[e].class = "bridge-in" =>
              /\ ct[e].src \in Events /\ Relocates(ct[e].src)
              /\ corr[<<ct[e].src, e>>] # None
              /\ corr[<<ct[e].src, e>>].status = "confirmed"

\* workflow.py:10: "Re-detection / learning may NEVER reopen a user-resolved row."  Not by
\* upgrading, merging, rescoring or rewriting it, also if the answer comes during a pass.
UserRowsStand ==
    [][\A k \in Keys : corr[k] # None /\ corr[k].by = "user" =>
          corr'[k] # None /\ corr'[k].by = "user"]_vars

\* A pass leaves no leg without a row, also one whose hypotheses all went to others or to
\* the user: somebody is asked about every one of them.
NoLegForgotten ==
    [][pass.stage = "pair" /\ pass'.stage = "score" =>
          \A e \in pass.legs : \E k \in Keys : e \in Legs(k) /\ corr'[k] # None]_vars

\* An unmatched leg does not stay unmentioned: in the end it is flagged, unless its row
\* was answered or its partner came.
Unmatched(e) == OpenSingle(<<e, None>>) \/ OpenSingle(<<None, e>>)

AgedLegsSurface ==
    \A e \in Events : Unmatched(e) ~> (e \in review \/ ~Unmatched(e))

\* workflow.py:14: "confirmed + relocate entity: outflow -> 'bridge-out', inflow ->
\* 'bridge-in' + stamp relocation_source_event_id on inflow CT": and once the user has
\* confirmed a pair, only the user's answers take that back.
ConfirmationsStand ==
    [][\A k \in Pairs :
          /\ corr[k] = Row("confirmed", "user") /\ ~Answers
          /\ ct[k[1]].class = "bridge-out"
          => ct'[k[1]].class = "bridge-out"]_vars
=============================================================================

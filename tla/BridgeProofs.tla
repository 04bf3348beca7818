---------------------------- MODULE BridgeProofs ----------------------------
(***************************************************************************)
(* The bridge keeps the contract the lot engine relies on (Bridge           *)
(* implements Signals), and what it promises itself, for any legs and any    *)
(* number of passes.  The argument rests on two things.  Between the moment  *)
(* a pass takes a hypothesis and its commit, the rows it makes and replaces   *)
(* stay as they were (PassHolds).  And a pair that was confirmed without the  *)
(* user still has both legs bridged and no open singleton, or the user has    *)
(* spoken since (AutoHolds): so no pass finds it again.                      *)
(***************************************************************************)
EXTENDS Bridge, SignalsProofs

LegsLinked ==
    /\ \A k \in Keys : corr[k] # None => Linked(k[1], k[2])
    /\ \A h \in pass.left \cup pass.scored : Linked(h[1], h[2])
    /\ \A e \in pass.legs : e \in Arrived /\ ct[e].class \in Outflows \cup Inflows

\* A row the user has not answered is as a pass wrote it.
RowsScored ==
    \A k \in Keys : corr[k] # None /\ corr[k].by # "user" =>
        corr[k] = IF k \in Pairs THEN ScoredRow(k) ELSE Row("unmatched", None)

\* The hypotheses of a pass share no leg with what it has used, nor its pairs with
\* each other.
PassDisjoint ==
    /\ pass.stage = "idle" => pass = NoPass
    /\ \A h \in pass.left \cup pass.scored : Legs(h) \subseteq pass.legs
    /\ \A h \in pass.left : Legs(h) \cap pass.used = {}
    /\ \A h \in pass.scored : Legs(h) \subseteq pass.used
    /\ \A h, g \in pass.scored : h # g => Legs(h) \cap Legs(g) = {}

PassHolds ==
    /\ pass.stage = "pair" =>
          /\ \A h \in pass.made :
                /\ h \in pass.scored /\ corr[h] = None
                /\ \A k \in Singles : OpenSingle(k) /\ Legs(k) \subseteq Legs(h) => k \in pass.gone
          /\ \A k \in pass.gone : OpenSingle(k) /\ Legs(k) \subseteq pass.used
          /\ \A e \in pass.used :
                \/ UserResolved(e)
                \/ \E h \in pass.scored : e \in Legs(h) /\ (h \in pass.made \/ corr[h] # None)
    /\ pass.stage = "score" =>
          \A h \in pass.scored \cap pass.made :
             /\ corr[h] = ScoredRow(h)
             /\ \A k \in Singles : Legs(k) \subseteq Legs(h) => ~OpenSingle(k)
    /\ \A h \in pass.scored \ pass.made : Relocates(h[1]) => ~ScoresHigh(h[1], h[2])

\* What was confirmed without the user is bridged, out of reach of the pass and of the
\* age-out.
Held(e) ==
    /\ ct[e].class \in {"bridge-out", "bridge-in"}
    /\ ~OpenSingle(<<e, None>>) /\ ~OpenSingle(<<None, e>>)
    /\ pass.stage = "pair" => e \notin pass.legs
    /\ \A h \in pass.scored : e \notin Legs(h)

Settles(k) == pass.stage = "score" /\ k \in pass.scored \cap pass.made

AutoHolds ==
    \A k \in Pairs : corr[k] = Row("confirmed", "auto") /\ Relocates(k[1]) /\ ~Settles(k) =>
        \A e \in Legs(k) : UserResolved(e) \/ Held(e)

IInv ==
    /\ TypeOK /\ MovesAreConfirmed
    /\ LegsLinked /\ RowsScored /\ PassDisjoint /\ PassHolds /\ AutoHolds

-----------------------------------------------------------------------------
\* A pair has two legs, a singleton one, and None is neither.
LEMMA KeyFacts ==
    /\ None \notin Events /\ None \notin Rows
    /\ \A k \in Pairs : k[1] \in Events /\ k[2] \in Events /\ k \in Keys /\ k \notin Singles
                        /\ k = <<k[1], k[2]>> /\ Legs(k) = {k[1], k[2]}
    /\ \A k \in Singles : k \in Keys /\ k \notin Pairs
    /\ \A k \in Keys : Legs(k) \subseteq Events /\ k[1] \in Events \cup {None}
                       /\ k[2] \in Events \cup {None} /\ k \in BridgeLinks
    /\ \A e \in Events : /\ <<e, None>> \in Singles /\ Legs(<<e, None>>) = {e}
                         /\ <<None, e>> \in Singles /\ Legs(<<None, e>>) = {e}
  BY NoneAssumption, RowsAssumption, LinksAssumption DEF Pairs, Singles, Keys, Legs

\* What a writer leaves of a CT: it stays, and on the side it was.
SidesKept ==
    \A e \in Arrived :
        /\ e \in Arrived'
        /\ ct[e].class \in Outflows => ct'[e].class \in Outflows
        /\ ct[e].class \in Inflows => ct'[e].class \in Inflows

\* No writer moves a CT from one side to the other.
LEMMA SignalKeepsSides ==
    ASSUME SignalsTyped, Signal \/ UNCHANGED ct
    PROVE  SignalsTyped' /\ SidesKept
  <1>1. CASE UNCHANGED ct
    BY <1>1 DEF SidesKept, SignalsTyped, Arrived
  <1>2. CASE Signal
    <2>1. SignalsTyped' /\ Arrived \subseteq Arrived'
      BY <1>2, SignalKeepsCTs
    <2>2. CASE \E e \in Events : Arrives(e)
      BY <2>1, <2>2 DEF SidesKept, Arrives, Arrived, SignalsTyped
    <2>3. ASSUME NEW o \in Events \cup {None}, NEW i \in Events \cup {None},
                 Confirms(o, i) \/ Rejects(o, i)
          PROVE  SidesKept
      <3>1. ASSUME NEW e \in Arrived
            PROVE  /\ ct[e].class \in Outflows => ct'[e].class \in Outflows
                   /\ ct[e].class \in Inflows => ct'[e].class \in Inflows
        <4>1. ct[e] \in CTs /\ e # None
          BY NoneAssumption DEF SignalsTyped, Arrived
        <4>2. CASE Confirms(o, i)
          BY <4>1, <4>2 DEF Confirms, Linked, Outflows, Inflows, CTs, Arrived
        <4>3. CASE Rejects(o, i)
          BY <4>1, <4>3 DEF Rejects, Linked, Outflows, Inflows, CTs, Arrived
        <4> QED
          BY <2>3, <4>2, <4>3
      <3> QED
        BY <2>1, <3>1 DEF SidesKept
    <2>4. ASSUME NEW o, NEW i, NEW res, Resolves(o, i, res)
          PROVE  SidesKept
      <3>1. ASSUME NEW e \in Arrived
            PROVE  ct'[e].class = ct[e].class
        BY <2>4 DEF Resolves, Stamped, SignalsTyped, Arrived, CTs
      <3> QED
        BY <2>1, <3>1 DEF SidesKept
    <2>5. ASSUME NEW link \in BridgeLinks
          PROVE  link[1] \in Events \cup {None} /\ link[2] \in Events \cup {None}
      BY SignalsAssumption
    <2> QED
      BY <1>2, <2>1, <2>2, <2>3, <2>4, <2>5 DEF Signal
  <1> QED
    BY <1>1, <1>2

\* The legs of a row or a hypothesis stay on their sides.
LEMMA LinkedStays ==
    ASSUME SidesKept, NEW o \in Events \cup {None}, NEW i \in Events \cup {None}, Linked(o, i)
    PROVE  Linked(o, i)'
  BY DEF SidesKept, Linked

\* set_classification_signal is one step of the contract, or none at all.
LEMMA SetSignalIsSignal ==
    ASSUME SignalsTyped, NEW k \in Keys, NEW confirmed \in BOOLEAN, Linked(k[1], k[2]),
           SetSignal(k, confirmed)
    PROVE  Signal \/ UNCHANGED ct
  <1>1. k \in BridgeLinks /\ None \notin Events
    BY KeyFacts
  <1>2. CASE confirmed /\ ~Relocates(k[1])
    BY <1>2 DEF SetSignal, Kept, SignalsTyped
  <1>3. CASE confirmed /\ Relocates(k[1])
    <2>1. ct' = [e \in Events |->
                   CASE e = k[1] -> [ct[e] EXCEPT !.class = "bridge-out"]
                     [] e = k[2] -> [ct[e] EXCEPT !.class = "bridge-in", !.src = k[1]]
                     [] OTHER -> ct[e]]
      BY <1>1, <1>3 DEF SetSignal, Kept, Legs, Linked, Outflows, Inflows
    <2> QED
      BY <1>1, <2>1 DEF Signal, Confirms
  <1>4. CASE ~confirmed
    <2>1. ct' = [e \in Events |->
                   CASE e = k[1] -> [ct[e] EXCEPT !.class = "transfer-out"]
                     [] e = k[2] -> [ct[e] EXCEPT !.class = "transfer-in", !.src = None]
                     [] OTHER -> ct[e]]
      BY <1>1, <1>4 DEF SetSignal, Kept, Legs, Linked, Outflows, Inflows
    <2> QED
      BY <1>1, <2>1 DEF Signal, Rejects
  <1> QED
    BY <1>2, <1>3, <1>4

-----------------------------------------------------------------------------
\* A leg left over gets a singleton of its own side.
LEMMA SingleFacts ==
    ASSUME LegsLinked, NEW e \in pass.legs
    PROVE  /\ e \in Events
           /\ Single(e) \in Singles /\ Legs(Single(e)) = {e}
           /\ Linked(Single(e)[1], Single(e)[2])
  <1>1. e \in Events /\ e # None /\ e \in Arrived /\ ct[e].class \in Outflows \cup Inflows
    BY KeyFacts DEF LegsLinked, Arrived
  <1> QED
    BY <1>1, KeyFacts DEF Single, Linked

\* Every write of the signal columns is a step of the contract.
LEMMA NextIsSignal ==
    ASSUME IInv, Next
    PROVE  Signal \/ UNCHANGED ct
  <1>1. SignalsTyped
    BY DEF IInv, TypeOK, SignalsTyped
  <1>2. \A k \in Keys : corr[k] # None => Linked(k[1], k[2])
    BY DEF IInv, LegsLinked
  <1>3. \A k \in Singles \cup Pairs : k \in Keys
    BY KeyFacts
  <1>4. ASSUME NEW e \in Events, Classify(e)
        PROVE  Signal
    BY <1>4 DEF Classify, Signal
  <1>5. ASSUME NEW h \in Pairs, Score(h)
        PROVE  Signal \/ UNCHANGED ct
    <2>1. Linked(h[1], h[2]) /\ SetSignal(h, ScoresHigh(h[1], h[2]))
      BY <1>5 DEF Score, IInv, LegsLinked
    <2>2. ScoresHigh(h[1], h[2]) \in BOOLEAN
      BY DEF ScoresHigh
    <2> QED
      BY <1>1, <1>3, <2>1, <2>2, SetSignalIsSignal
  <1>6. ASSUME NEW k \in Keys, NEW decision, ResolvePair(k, decision)
        PROVE  Signal \/ UNCHANGED ct
    <2>1. Linked(k[1], k[2]) /\ SetSignal(k, decision = "confirmed")
      BY <1>2, <1>6 DEF ResolvePair
    <2> QED
      BY <1>1, <2>1, SetSignalIsSignal
  <1>7. ASSUME NEW k \in Keys, NEW resolution, ResolveUnmatched(k, resolution)
        PROVE  Signal \/ UNCHANGED ct
    <2>1. Linked(k[1], k[2]) /\ (SetSignal(k, FALSE) \/ UNCHANGED ct)
      BY <1>2, <1>7 DEF ResolveUnmatched
    <2> QED
      BY <1>1, <2>1, SetSignalIsSignal
  <1>8. ASSUME NEW k \in Keys, Surface(k)
        PROVE  Signal \/ UNCHANGED ct
    <2>1. Linked(k[1], k[2]) /\ SetSignal(k, FALSE)
      <3>1. corr[k] # None
        BY <1>8, RowsAssumption DEF Surface, OpenSingle, Row, Rows
      <3> QED
        BY <1>2, <1>8, <3>1 DEF Surface
    <2> QED
      BY <1>1, <2>1, SetSignalIsSignal
  <1>9. ASSUME NEW e \in Events, OpenPass(e)
        PROVE  UNCHANGED ct
    BY <1>9 DEF OpenPass
  <1>10. ASSUME NEW h \in Pairs, PassOver(h) \/ FindPair(h) \/ MakePair(h) \/ RefuseMerge(h)
         PROVE  UNCHANGED ct
    BY <1>10 DEF PassOver, FindPair, MakePair, RefuseMerge
  <1>11. Publish \/ ClosePass \/ AbortPass => UNCHANGED ct
    BY DEF Publish, ClosePass, AbortPass
  <1> QED
    BY <1>4, <1>5, <1>6, <1>7, <1>8, <1>9, <1>10, <1>11 DEF Next, Works, Answers

\* UserRowsStand, for one step.
LEMMA UserRowsStay ==
    ASSUME IInv, Next, NEW k \in Keys, corr[k] # None, corr[k].by = "user"
    PROVE  corr'[k] # None /\ corr'[k].by = "user"
  <1>1. None \notin Rows
    BY KeyFacts
  <1>2. ASSUME NEW j \in Keys, NEW decision \in {"confirmed", "rejected"}, ResolvePair(j, decision)
        PROVE  corr'[k] # None /\ corr'[k].by = "user"
    BY <1>1, <1>2 DEF ResolvePair, Row, Rows, IInv, TypeOK
  <1>3. ASSUME NEW j \in Keys, NEW resolution, ResolveUnmatched(j, resolution)
        PROVE  corr'[k] # None /\ corr'[k].by = "user"
    <2>1. PICK status \in {"rejected", "unmatched"} :
                 corr' = [corr EXCEPT ![j] = Row(status, "user")]
      BY <1>3 DEF ResolveUnmatched
    <2> QED
      BY <1>1, <2>1 DEF Row, Rows, IInv, TypeOK
  <1>4. CASE Publish
    <2>1. k \notin pass.made
      BY <1>4 DEF Publish, IInv, PassHolds
    <2>2. k \notin pass.gone
      BY <1>4, RowsAssumption DEF Publish, IInv, PassHolds, OpenSingle, Row
    <2>3. k \notin LeftOver
      <3>1. ASSUME NEW e \in pass.legs, k = Single(e)
            PROVE  UserResolved(e)
        BY <3>1, SingleFacts DEF IInv, UserResolved
      <3> QED
        BY <3>1 DEF LeftOver
    <2> QED
      BY <1>4, <2>1, <2>2, <2>3 DEF Publish
  <1>5. ASSUME NEW e \in Events, Classify(e) \/ OpenPass(e)
        PROVE  UNCHANGED corr
    BY <1>5 DEF Classify, OpenPass
  <1>6. ASSUME NEW h \in Pairs,
               PassOver(h) \/ FindPair(h) \/ MakePair(h) \/ RefuseMerge(h) \/ Score(h)
        PROVE  UNCHANGED corr
    BY <1>6 DEF PassOver, FindPair, MakePair, RefuseMerge, Score
  <1>7. ClosePass \/ AbortPass \/ (\E j \in Keys : Surface(j)) => UNCHANGED corr
    BY DEF ClosePass, AbortPass, Surface
  <1> QED
    BY <1>2, <1>3, <1>4, <1>5, <1>6, <1>7 DEF Next, Works, Answers

-----------------------------------------------------------------------------
(* What each step does to the pass and to the rows                          *)

\* The steps that leave the pass alone.
Outside ==
    \/ \E e \in Events : Classify(e)
    \/ Answers
    \/ \E k \in Keys : Surface(k)

\* The steps that throw it away.
Drops == AbortPass \/ ClosePass \/ \E h \in Pairs : RefuseMerge(h)

\* The steps that take a hypothesis.
Picks(h) == PassOver(h) \/ FindPair(h) \/ MakePair(h)

\* Next, by what becomes of the pass.
LEMMA NextCases ==
    ASSUME Next
    PROVE  \/ Outside \/ Drops \/ Publish
           \/ \E e \in Events : OpenPass(e)
           \/ \E h \in Pairs : Picks(h) \/ Score(h)
  BY DEF Next, Outside, Drops, Picks, Works

\* What is around the pass does not touch it, and waits while it commits.
LEMMA OutsideFacts ==
    ASSUME Outside
    PROVE  pass' = pass /\ (pass.stage = "score" => UNCHANGED corr /\ UNCHANGED ct)
  BY DEF Outside, Answers, Classify, ResolvePair, ResolveUnmatched, Surface, Unlocked

\* A dropped pass leaves everything else as it is.
LEMMA DropsFacts ==
    ASSUME Drops
    PROVE  pass' = NoPass /\ UNCHANGED <<ct, corr, audited, review>>
  BY DEF Drops, AbortPass, ClosePass, RefuseMerge

\* What taking a hypothesis does to the pass: legs are used, and the pair is passed over,
\* found or made.
Taken(h, legs) ==
    /\ pass'.used = pass.used \cup legs
    /\ pass'.left = {g \in pass.left : Legs(g) \cap legs = {}}
    /\ \/ /\ \A e \in legs : UserResolved(e)
          /\ pass'.scored = pass.scored /\ pass'.made = pass.made /\ pass'.gone = pass.gone
       \/ /\ ~UserResolved(h[1]) /\ ~UserResolved(h[2])
          /\ legs = Legs(h) /\ pass'.scored = pass.scored \cup {h}
          /\ \/ /\ corr[h] # None
                /\ pass'.made = pass.made /\ pass'.gone = pass.gone
             \/ /\ corr[h] = None \/ corr[h].status = "rejected"
                /\ pass'.made = pass.made \cup {h}
                /\ pass'.gone = pass.gone \cup Replaced(h)

\* And what it leaves.
LEMMA PicksFacts ==
    ASSUME TypeOK, NEW h \in Pairs, Picks(h)
    PROVE  /\ pass.stage = "pair" /\ h \in pass.left
           /\ UNCHANGED <<ct, corr, audited, review>>
           /\ pass'.stage = "pair" /\ pass'.legs = pass.legs
           /\ \E legs \in SUBSET Legs(h) : Taken(h, legs)
  <1>1. pass \in Passes /\ Legs(h) = {h[1], h[2]}
    BY KeyFacts DEF TypeOK
  <1>2. CASE PassOver(h)
    <2>1. PICK e \in {h[1], h[2]} : UserResolved(e) /\ pass' = Using({e})
      BY <1>2 DEF PassOver
    <2>2. /\ pass.stage = "pair" /\ h \in pass.left
          /\ UNCHANGED <<ct, corr, audited, review>>
          /\ UserResolved(h[1]) \/ UserResolved(h[2])
      BY <1>2 DEF PassOver, Foremost
    <2>3. {e} \in SUBSET Legs(h) /\ \A l \in {e} : UserResolved(l)
      BY <1>1, <2>1
    <2>4. /\ pass'.stage = "pair" /\ pass'.legs = pass.legs
          /\ pass'.used = pass.used \cup {e}
          /\ pass'.left = {g \in pass.left : Legs(g) \cap {e} = {}}
          /\ pass'.scored = pass.scored /\ pass'.made = pass.made /\ pass'.gone = pass.gone
      BY <1>1, <2>1, <2>2 DEF Using, Passes
    <2> QED
      BY <2>2, <2>3, <2>4 DEF Taken
  <1>3. CASE FindPair(h)
    <2>1. Taken(h, Legs(h))
      BY <1>1, <1>3 DEF FindPair, Takes, Using, Passes, Taken
    <2> QED
      BY <1>1, <1>3, <2>1 DEF FindPair, Takes, Foremost, Using, Passes
  <1>4. CASE MakePair(h)
    <2>1. Taken(h, Legs(h))
      BY <1>1, <1>4 DEF MakePair, Takes, Using, Passes, Taken
    <2> QED
      BY <1>1, <1>4, <2>1 DEF MakePair, Takes, Foremost, Using, Passes
  <1> QED
    BY <1>2, <1>3, <1>4 DEF Picks

\* The hypotheses a pass opens with.
LEMMA OpenPassFacts ==
    ASSUME TypeOK, NEW since \in Events, OpenPass(since)
    PROVE  /\ pass'.stage = "pair" /\ pass'.legs \subseteq Arrived
           /\ \A e \in pass'.legs : ct[e].class \in {"transfer-out", "transfer-in"}
           /\ pass'.left \subseteq pass'.legs \X pass'.legs
           /\ \A h \in pass'.left : ct[h[1]].class = "transfer-out" /\ ct[h[2]].class = "transfer-in"
           /\ pass'.used = {} /\ pass'.made = {} /\ pass'.gone = {} /\ pass'.scored = {}
           /\ pass.stage = "idle" /\ UNCHANGED <<ct, corr, audited, review>>
  BY DEF OpenPass, NoPass

\* A pass changes rows only when it publishes.
LEMMA RowsWritten ==
    ASSUME IInv, Next, NEW k \in Keys, corr'[k] # corr[k]
    PROVE  \/ corr[k] # None /\ corr'[k] # None /\ corr'[k].by = "user" /\ Answers
           \/ /\ Publish
              /\ \/ k \in pass.made /\ k \in pass.scored /\ corr'[k] = ScoredRow(k)
                 \/ k \in pass.gone /\ k \in Singles /\ OpenSingle(k) /\ corr'[k] = None
                 \/ k \in LeftOver /\ corr'[k] = Row("unmatched", None)
  <1>1. None \notin Rows /\ corr \in [Keys -> Rows \cup {None}]
    BY KeyFacts DEF IInv, TypeOK
  <1>2. CASE Answers
    <2>1. PICK j \in Keys, status \in {"confirmed", "rejected", "unmatched"} :
                 corr[j] # None /\ corr' = [corr EXCEPT ![j] = Row(status, "user")]
      BY <1>2 DEF Answers, ResolvePair, ResolveUnmatched
    <2>2. Row(status, "user") \in Rows
      BY DEF Row, Rows
    <2> QED
      BY <1>1, <1>2, <2>1, <2>2 DEF Row
  <1>3. CASE Publish
    BY <1>3 DEF Publish, IInv, PassHolds, OpenSingle
  <1>4. CASE Outside /\ ~Answers
    BY <1>4 DEF Outside, Classify, Surface
  <1>5. CASE Drops
    BY <1>5, DropsFacts
  <1>6. ASSUME NEW h \in Pairs, Picks(h) \/ Score(h)
        PROVE  UNCHANGED corr
    BY <1>6, PicksFacts DEF Score, IInv
  <1>7. ASSUME NEW e \in Events, OpenPass(e)
        PROVE  UNCHANGED corr
    BY <1>7 DEF OpenPass
  <1> QED
    BY <1>2, <1>3, <1>4, <1>5, <1>6, <1>7, NextCases

-----------------------------------------------------------------------------
(* The invariant, part by part                                              *)

\* A step writes rows and a pass of the right shape.
LEMMA TypeStays == ASSUME IInv, Next PROVE TypeOK'
  <1>1. TypeOK /\ SignalsTyped
    BY DEF IInv, TypeOK, SignalsTyped
  <1>2. ct' \in [Events -> CTs \cup {None}]
    BY <1>1, NextIsSignal, SignalKeepsSides DEF SignalsTyped
  <1>3. corr' \in [Keys -> Rows \cup {None}]
    <2>1. CASE Publish
      <3>1. \A k \in Keys : ScoredRow(k) \in Rows /\ Row("unmatched", None) \in Rows
        BY DEF ScoredRow, Row, Rows
      <3> QED
        BY <1>1, <2>1, <3>1 DEF Publish, TypeOK
    <2>2. CASE Answers
      <3>1. PICK j \in Keys, status \in {"confirmed", "rejected", "unmatched"} :
                   corr' = [corr EXCEPT ![j] = Row(status, "user")]
        BY <2>2 DEF Answers, ResolvePair, ResolveUnmatched
      <3>2. Row(status, "user") \in Rows
        BY DEF Row, Rows
      <3> QED
        BY <1>1, <3>1, <3>2 DEF TypeOK
    <2>3. CASE ~Publish /\ ~Answers
      <3>1. corr' = corr
        <4>1. CASE Outside
          BY <2>3, <4>1 DEF Outside, Classify, Surface
        <4>2. CASE Drops
          BY <4>2, DropsFacts
        <4>3. ASSUME NEW h \in Pairs, Picks(h) \/ Score(h)
              PROVE  corr' = corr
          BY <1>1, <4>3, PicksFacts DEF Score
        <4> QED
          BY <2>3, <4>1, <4>2, <4>3, NextCases DEF OpenPass
      <3> QED
        BY <1>1, <3>1 DEF TypeOK
    <2> QED
      BY <2>1, <2>2, <2>3
  <1>4. audited' \subseteq Singles /\ review' \subseteq Events
    <2>1. \A k \in Keys : Legs(k) \subseteq Events
      BY KeyFacts
    <2>2. ASSUME NEW k \in Keys, NEW resolution, ResolveUnmatched(k, resolution)
          PROVE  audited' \subseteq Singles /\ review' \subseteq Events
      BY <1>1, <2>1, <2>2 DEF ResolveUnmatched, TypeOK
    <2>3. ASSUME NEW k \in Keys, Surface(k)
          PROVE  audited' \subseteq Singles /\ review' \subseteq Events
      BY <1>1, <2>1, <2>3 DEF Surface, OpenSingle, TypeOK
    <2>4. CASE UNCHANGED <<audited, review>> \/ Publish
      BY <1>1, <2>4 DEF Publish, TypeOK
    <2>5. ASSUME NEW h \in Pairs, Picks(h) \/ Score(h)
          PROVE  UNCHANGED <<audited, review>>
      BY <1>1, <2>5, PicksFacts DEF Score
    <2>6. Drops => UNCHANGED <<audited, review>>
      BY DropsFacts
    <2> QED
      BY <2>2, <2>3, <2>4, <2>5, <2>6, NextCases
      DEF Outside, Answers, Classify, ResolvePair, OpenPass
  <1>5. pass' \in Passes
    <2>1. NoPass \in Passes
      BY DEF NoPass, Passes
    <2>2. CASE Outside
      BY <1>1, <2>2, OutsideFacts DEF TypeOK
    <2>3. CASE Drops
      BY <2>1, <2>3, DropsFacts
    <2>4. CASE Publish
      BY <1>1, <2>4 DEF Publish, TypeOK, Passes
    <2>5. ASSUME NEW e \in Events, OpenPass(e)
          PROVE  pass' \in Passes
      BY <1>1, <2>5 DEF OpenPass, NoPass, Passes, Pairs, Arrived
    <2>6. ASSUME NEW h \in Pairs, Score(h)
          PROVE  pass' \in Passes
      BY <1>1, <2>6 DEF Score, TypeOK, Passes
    <2>7. ASSUME NEW h \in Pairs, Picks(h)
          PROVE  pass' \in Passes
      <3>1. h \in Keys /\ {h[1], h[2]} \subseteq Events /\ Legs(h) = {h[1], h[2]}
            /\ Replaced(h) \subseteq Keys
        BY KeyFacts DEF Replaced
      <3>2. ASSUME NEW legs \in SUBSET Legs(h)
            PROVE  Using(legs) \in Passes
        BY <1>1, <3>1, <3>2 DEF Using, TypeOK, Passes
      <3>3. CASE PassOver(h)
        BY <3>1, <3>2, <3>3 DEF PassOver
      <3>4. CASE FindPair(h)
        BY <3>2, <3>4 DEF FindPair, Passes
      <3>5. CASE MakePair(h)
        BY <3>1, <3>2, <3>5, ZenonT(60) DEF MakePair, Passes
      <3> QED
        BY <2>7, <3>3, <3>4, <3>5 DEF Picks
    <2> QED
      BY <2>2, <2>3, <2>4, <2>5, <2>6, <2>7, NextCases
  <1> QED
    BY <1>2, <1>3, <1>4, <1>5 DEF TypeOK

\* Legs stay on their sides, and new rows and hypotheses start that way.
LEMMA LegsStayLinked == ASSUME IInv, Next PROVE LegsLinked'
  <1>1. TypeOK /\ SidesKept
    BY NextIsSignal, SignalKeepsSides DEF IInv, TypeOK, SignalsTyped
  <1>2. ASSUME NEW k \in Keys, corr'[k] # None
        PROVE  Linked(k[1], k[2])'
    <2>1. Linked(k[1], k[2])
      <3>1. CASE corr[k] # None
        BY <3>1 DEF IInv, LegsLinked
      <3>2. CASE corr[k] = None
        <4>1. k \in pass.scored \/ k \in LeftOver
          BY <1>2, <3>2, RowsWritten
        <4> QED
          BY <4>1, SingleFacts DEF LeftOver, IInv, LegsLinked
      <3> QED
        BY <3>1, <3>2
    <2> QED
      BY <1>1, <2>1, KeyFacts, LinkedStays
  <1> DEFINE Sided(p) ==
               /\ \A h \in p.left \cup p.scored : Linked(h[1], h[2])
               /\ \A e \in p.legs : e \in Arrived /\ ct[e].class \in Outflows \cup Inflows
  <1>3. Sided(pass')
    <2>1. Sided(pass)
      BY DEF IInv, LegsLinked
    <2>2. CASE Outside
      BY <2>1, <2>2, OutsideFacts
    <2>3. CASE Drops
      BY <2>3, DropsFacts DEF NoPass
    <2>4. CASE Publish \/ \E h \in Pairs : Score(h)
      BY <1>1, <2>1, <2>4 DEF Publish, Score, TypeOK, Passes
    <2>5. ASSUME NEW h \in Pairs, Picks(h)
          PROVE  Sided(pass')
      BY <1>1, <2>1, <2>5, PicksFacts DEF Taken
    <2>6. ASSUME NEW since \in Events, OpenPass(since)
          PROVE  Sided(pass')
      BY <1>1, <2>6, OpenPassFacts DEF Linked, Outflows, Inflows
    <2> QED
      BY <2>2, <2>3, <2>4, <2>5, <2>6, NextCases
  <1>4. ASSUME NEW h \in pass'.left \cup pass'.scored
        PROVE  Linked(h[1], h[2])'
    <2>1. h \in Pairs
      BY TypeStays DEF TypeOK, Passes
    <2> QED
      BY <1>1, <1>3, <2>1, KeyFacts, LinkedStays
  <1>5. ASSUME NEW e \in pass'.legs
        PROVE  e \in Arrived' /\ ct'[e].class \in Outflows \cup Inflows
    BY <1>1, <1>3 DEF SidesKept
  <1> QED
    BY <1>2, <1>4, <1>5 DEF LegsLinked

\* Rows are written as scored, as unmatched, or by the user.
LEMMA RowsStayScored == ASSUME IInv, Next PROVE RowsScored'
  <1> SUFFICES ASSUME NEW k \in Keys, corr'[k] # None, corr'[k].by # "user"
               PROVE  corr'[k] = IF k \in Pairs THEN ScoredRow(k) ELSE Row("unmatched", None)
    BY DEF RowsScored, ScoredRow
  <1>1. CASE corr'[k] = corr[k]
    BY <1>1 DEF IInv, RowsScored
  <1>2. CASE corr'[k] # corr[k]
    <2>1. CASE k \in pass.scored /\ corr'[k] = ScoredRow(k)
      BY <2>1 DEF IInv, TypeOK, Passes
    <2>2. CASE k \in LeftOver /\ corr'[k] = Row("unmatched", None)
      BY <2>2, SingleFacts, KeyFacts DEF LeftOver, IInv
    <2> QED
      BY <1>2, <2>1, <2>2, RowsWritten
  <1> QED
    BY <1>1, <1>2

\* Taking a hypothesis leaves none that shares a leg with it.
LEMMA PassStaysDisjoint == ASSUME IInv, Next PROVE PassDisjoint'
  <1>1. TypeOK /\ PassDisjoint /\ pass \in Passes
    BY DEF IInv, TypeOK
  <1>2. CASE Outside
    BY <1>1, <1>2, OutsideFacts DEF PassDisjoint
  <1>3. CASE Drops
    BY <1>3, DropsFacts DEF PassDisjoint, NoPass
  <1>4. CASE Publish \/ \E h \in Pairs : Score(h)
    BY <1>1, <1>4 DEF Publish, Score, Passes, PassDisjoint
  <1>5. ASSUME NEW since \in Events, OpenPass(since)
        PROVE  PassDisjoint'
    <2>1. \A h \in pass'.left : Legs(h) \subseteq pass'.legs
      BY <1>1, <1>5, OpenPassFacts DEF Legs
    <2> QED
      BY <1>1, <1>5, <2>1, OpenPassFacts DEF PassDisjoint
  <1>6. ASSUME NEW h \in Pairs, Picks(h)
        PROVE  PassDisjoint'
    <2>1. PICK legs \in SUBSET Legs(h) :
                 /\ pass'.used = pass.used \cup legs
                 /\ pass'.left = {g \in pass.left : Legs(g) \cap legs = {}}
                 /\ \/ pass'.scored = pass.scored
                    \/ legs = Legs(h) /\ pass'.scored = pass.scored \cup {h}
      BY <1>1, <1>6, PicksFacts DEF Taken
    <2>2. h \in pass.left /\ pass'.stage = "pair" /\ pass'.legs = pass.legs
      BY <1>1, <1>6, PicksFacts
    <2> QED
      BY <1>1, <2>1, <2>2 DEF PassDisjoint
  <1> QED
    BY <1>2, <1>3, <1>4, <1>5, <1>6, NextCases

\* A row that is there stays, but for the singletons a pass replaces; and nothing
\* opens a singleton but a pass, for a leg it has not used.
LEMMA RowsStay ==
    ASSUME IInv, Next, NEW k \in Keys
    PROVE  /\ corr[k] # None => corr'[k] # None \/ (Publish /\ k \in pass.gone)
           /\ OpenSingle(k)' => OpenSingle(k) \/ (Publish /\ k \in LeftOver)
           /\ ~Publish /\ corr[k] = None => corr'[k] = None
  <1>1. None \notin Rows /\ \A j \in Keys : ScoredRow(j) \in Rows
    BY KeyFacts DEF ScoredRow, Row, Rows
  <1>2. Row("unmatched", None) \in Rows /\ "user" # None
    BY RowsAssumption DEF Row, Rows
  <1>3. CASE corr'[k] = corr[k]
    BY <1>3 DEF OpenSingle
  <1>4. CASE corr'[k] # corr[k]
    <2>1. corr'[k].by = "user" => corr'[k] # Row("unmatched", None)
      BY <1>2 DEF Row
    <2>2. k \in pass.scored => k \notin Singles
      BY KeyFacts DEF IInv, TypeOK, Passes
    <2> QED
      BY <1>1, <1>2, <1>4, <2>1, <2>2, RowsWritten DEF OpenSingle
  <1> QED
    BY <1>3, <1>4

\* Answers leave the singletons a running pass replaces.
LEMMA GoneStay ==
    ASSUME IInv, Outside, NEW k \in pass.gone, k \in Singles
    PROVE  corr'[k] = corr[k]
  <1>1. k \notin Pairs /\ corr \in [Keys -> Rows \cup {None}]
    BY KeyFacts DEF IInv, TypeOK
  <1>2. ASSUME NEW j \in Keys, NEW decision, ResolvePair(j, decision)
        PROVE  corr'[k] = corr[k]
    BY <1>1, <1>2 DEF ResolvePair
  <1>3. ASSUME NEW j \in Keys, NEW resolution, ResolveUnmatched(j, resolution)
        PROVE  corr'[k] = corr[k]
    <2>1. j # k
      BY <1>3 DEF ResolveUnmatched
    <2>2. \E row : corr' = [corr EXCEPT ![j] = row]
      BY <1>3 DEF ResolveUnmatched
    <2> QED
      BY <1>1, <2>1, <2>2, KeyFacts
  <1> QED
    BY <1>2, <1>3 DEF Outside, Answers, Classify, Surface

\* What the user has answered stays answered.
LEMMA ResolvedStays ==
    ASSUME IInv, Next, NEW e, UserResolved(e)
    PROVE  UserResolved(e)'
  BY UserRowsStay DEF UserResolved

\* Between the moment it takes a hypothesis and its commit, a pass can rely on what it
\* has seen.
LEMMA PassStillHolds == ASSUME IInv, Next PROVE PassHolds'
  <1>1. /\ TypeOK /\ PassDisjoint /\ PassHolds /\ RowsScored /\ LegsLinked /\ AutoHolds
        /\ pass \in Passes /\ corr \in [Keys -> Rows \cup {None}] /\ None \notin Rows
    BY KeyFacts DEF IInv, TypeOK
  <1>2. Row("unmatched", None) \in Rows
    BY DEF Row, Rows
  <1>3. CASE Outside /\ pass.stage # "score"
    <2>1. pass' = pass /\ ~Publish
      BY <1>1, <1>3, OutsideFacts DEF Publish, Passes
    <2>2. ASSUME pass.stage = "pair", NEW h \in pass.made
          PROVE  /\ h \in pass.scored /\ corr'[h] = None
                 /\ \A k \in Singles : OpenSingle(k)' /\ Legs(k) \subseteq Legs(h) => k \in pass.gone
      BY <1>1, <2>1, <2>2, RowsStay, KeyFacts DEF PassHolds, Passes
    <2>3. ASSUME pass.stage = "pair", NEW k \in pass.gone
          PROVE  OpenSingle(k)' /\ Legs(k) \subseteq pass.used
      BY <1>1, <1>3, <2>3, GoneStay DEF PassHolds, OpenSingle
    <2>4. ASSUME pass.stage = "pair", NEW e \in pass.used
          PROVE  \/ UserResolved(e)'
                 \/ \E h \in pass.scored : e \in Legs(h) /\ (h \in pass.made \/ corr'[h] # None)
      <3>1. CASE UserResolved(e)
        BY <3>1, ResolvedStays
      <3>2. CASE ~UserResolved(e)
        <4>1. PICK h \in pass.scored : e \in Legs(h) /\ (h \in pass.made \/ corr[h] # None)
          BY <1>1, <2>4, <3>2 DEF PassHolds
        <4>2. h \in Keys
          BY <1>1, KeyFacts DEF Passes
        <4> QED
          BY <2>1, <4>1, <4>2, RowsStay
      <3> QED
        BY <3>1, <3>2
    <2> QED
      BY <1>1, <1>3, <2>1, <2>2, <2>3, <2>4 DEF PassHolds
  <1>4. CASE Outside /\ pass.stage = "score"
    BY <1>1, <1>4, OutsideFacts DEF PassHolds, OpenSingle
  <1>5. CASE Drops
    BY <1>5, DropsFacts DEF PassHolds, NoPass
  <1>6. CASE Publish
    <2>1. /\ pass.stage = "pair" /\ pass'.stage = "score"
          /\ pass'.scored = pass.scored /\ pass'.made = pass.made
      BY <1>1, <1>6 DEF Publish, Passes
    <2>2. ASSUME NEW h \in pass.scored \cap pass.made, NEW k \in Singles, Legs(k) \subseteq Legs(h)
          PROVE  ~OpenSingle(k)'
      <3>1. k \notin LeftOver
        <4>1. ASSUME NEW e \in pass.legs, k = Single(e)
              PROVE  e \in pass.used
          BY <1>1, <2>2, <4>1, SingleFacts DEF PassDisjoint
        <4> QED
          BY <4>1 DEF LeftOver
      <3>2. k \in Keys /\ k \notin pass.made
        BY <1>1, <2>1, KeyFacts DEF PassHolds, Passes
      <3>3. CASE OpenSingle(k)
        <4>1. k \in pass.gone
          BY <1>1, <2>1, <2>2, <3>3 DEF PassHolds
        <4>2. corr'[k] = None
          BY <1>6, <3>2, <4>1 DEF Publish
        <4> QED
          BY <1>1, <1>2, <4>2 DEF OpenSingle
      <3> QED
        BY <3>1, <3>2, <3>3, RowsStay
    <2>3. ASSUME NEW h \in pass.scored \cap pass.made
          PROVE  corr'[h] = ScoredRow(h)
      BY <1>1, <1>6, KeyFacts DEF Publish, Passes
    <2> QED
      BY <1>1, <2>1, <2>2, <2>3 DEF PassHolds, ScoredRow, ScoresHigh, Relocates
  <1>7. ASSUME NEW h \in Pairs, Score(h)
        PROVE  PassHolds'
    BY <1>1, <1>7 DEF Score, Passes, PassHolds, OpenSingle
  <1>8. ASSUME NEW since \in Events, OpenPass(since)
        PROVE  PassHolds'
    BY <1>1, <1>8, OpenPassFacts DEF PassHolds
  <1>9. ASSUME NEW h \in Pairs, Picks(h)
        PROVE  PassHolds'
    <2>1. PICK legs \in SUBSET Legs(h) : Taken(h, legs)
      BY <1>1, <1>9, PicksFacts
    <2>2. /\ pass.stage = "pair" /\ h \in pass.left /\ pass'.stage = "pair"
          /\ corr' = corr /\ ct' = ct
      BY <1>1, <1>9, PicksFacts
    <2>3. h \in Keys /\ h[1] \in Events /\ h[2] \in Events /\ Legs(h) = {h[1], h[2]}
          /\ Linked(h[1], h[2]) /\ h[1] \in pass.legs
      BY <1>1, <2>2, KeyFacts DEF LegsLinked, PassDisjoint
    <2>4. \A e : UserResolved(e)' <=> UserResolved(e)
      BY <2>2 DEF UserResolved
    <2>5. \A k : OpenSingle(k)' <=> OpenSingle(k)
      BY <2>2 DEF OpenSingle
    <2>6. CASE pass'.scored = pass.scored /\ pass'.made = pass.made /\ pass'.gone = pass.gone
               /\ \A e \in legs : UserResolved(e)
      BY <1>1, <2>1, <2>2, <2>4, <2>5, <2>6 DEF PassHolds, Taken
    <2>7. CASE /\ ~UserResolved(h[1]) /\ legs = Legs(h) /\ pass'.scored = pass.scored \cup {h}
               /\ corr[h] # None /\ pass'.made = pass.made /\ pass'.gone = pass.gone
      <3>1. corr[h].by # "user" /\ corr[h] = ScoredRow(h)
        BY <1>1, <2>3, <2>7 DEF UserResolved, RowsScored
      <3>2. Relocates(h[1]) => ~ScoresHigh(h[1], h[2])
        <4>1. ScoresHigh(h[1], h[2]) => corr[h] = Row("confirmed", "auto")
          BY <3>1 DEF ScoredRow
        <4>2. ~Settles(h)
          BY <2>2 DEF Settles
        <4>3. ~Held(h[1])
          BY <2>2, <2>3 DEF Held
        <4> QED
          BY <1>1, <2>3, <2>7, <4>1, <4>2, <4>3 DEF AutoHolds
      <3> QED
        BY <1>1, <2>1, <2>2, <2>4, <2>5, <2>7, <3>2 DEF PassHolds, Taken, ScoresHigh, Relocates
    <2>8. CASE /\ ~UserResolved(h[1]) /\ legs = Legs(h) /\ pass'.scored = pass.scored \cup {h}
               /\ corr[h] = None \/ corr[h].status = "rejected"
               /\ pass'.made = pass.made \cup {h} /\ pass'.gone = pass.gone \cup Replaced(h)
      <3>1. corr[h] = None
        <4>1. corr[h] # None => corr[h].by # "user" /\ corr[h] = ScoredRow(h)
          BY <1>1, <2>3, <2>8 DEF UserResolved, RowsScored
        <4> QED
          BY <2>8, <4>1 DEF ScoredRow, Row
      <3>2. ASSUME NEW k \in Singles, OpenSingle(k), Legs(k) \subseteq Legs(h)
            PROVE  k \in Replaced(h)
        <4>1. Linked(k[1], k[2])
          BY <1>1, <1>2, <3>2, KeyFacts DEF OpenSingle, LegsLinked
        <4>2. PICK e \in Events : k = <<e, None>> \/ k = <<None, e>>
          BY DEF Singles
        <4>3. Legs(k) = {e} /\ e # None
          BY <4>2, KeyFacts
        <4>4. ct[h[1]].class \in Outflows /\ ct[h[2]].class \in Inflows /\ Outflows \cap Inflows = {}
          BY <2>3, KeyFacts DEF Linked, Outflows, Inflows
        <4>5. k = <<e, None>> => ct[e].class \in Outflows
          BY <4>1, <4>3 DEF Linked
        <4>6. k = <<None, e>> => ct[e].class \in Inflows
          BY <4>1, <4>3 DEF Linked
        <4>7. k \in {<<h[1], None>>, <<None, h[2]>>}
          BY <2>3, <3>2, <4>2, <4>3, <4>4, <4>5, <4>6
        <4> QED
          BY <3>2, <4>7 DEF Replaced
      <3>3. \A k \in Replaced(h) : OpenSingle(k) /\ Legs(k) \subseteq Legs(h)
        <4>1. Legs(<<h[1], None>>) = {h[1]} /\ Legs(<<None, h[2]>>) = {h[2]}
          BY <2>3, KeyFacts
        <4> QED
          BY <2>3, <4>1 DEF Replaced
      <3> QED
        BY <1>1, <2>1, <2>2, <2>4, <2>5, <2>8, <3>1, <3>2, <3>3
        DEF PassHolds, Taken, ScoresHigh, Relocates
    <2> QED
      BY <2>1, <2>6, <2>7, <2>8 DEF Taken
  <1> QED
    BY <1>3, <1>4, <1>5, <1>6, <1>7, <1>8, <1>9, NextCases

-----------------------------------------------------------------------------
\* What set_classification_signal makes of a CT.
LEMMA SetSignalFacts ==
    ASSUME SignalsTyped, NEW k \in Keys, NEW confirmed \in BOOLEAN, Linked(k[1], k[2]),
           SetSignal(k, confirmed), NEW e \in Events
    PROVE  \/ /\ ct'[e] = ct[e]
              /\ e \in Legs(k) => confirmed /\ ~Relocates(k[1])
           \/ /\ ~confirmed /\ e \in Legs(k)
              /\ ct'[e].class \in {"transfer-out", "transfer-in"}
           \/ /\ confirmed /\ Relocates(k[1])
              /\ \/ e = k[1] /\ ct'[e].class = "bridge-out"
                 \/ e = k[2] /\ ct'[e].class = "bridge-in" /\ ct'[e].src = k[1]
  <1>1. e \in Legs(k) => ct[e] \in CTs
    BY NoneAssumption DEF SignalsTyped, Legs, Linked, Arrived
  <1>2. CASE Kept(k, confirmed, e)
    BY <1>2 DEF SetSignal, Kept
  <1>3. CASE ~Kept(k, confirmed, e)
    <2>1. e = k[1] \/ e = k[2]
      BY <1>3 DEF Kept, Legs
    <2>2. CASE e = k[1]
      BY <1>1, <1>3, <2>2 DEF SetSignal, Kept, CTs
    <2>3. CASE e # k[1]
      BY <1>1, <1>3, <2>1, <2>3 DEF SetSignal, Kept, CTs
    <2> QED
      BY <2>2, <2>3
  <1> QED
    BY <1>2, <1>3

\* A bridged leg out of reach of the pass stays so, unless the user speaks of it.
LEMMA HeldStays ==
    ASSUME IInv, Next, NEW e \in Arrived, Held(e)
    PROVE  UserResolved(e)' \/ Held(e)'
  <1> SUFFICES ASSUME ~UserResolved(e)' PROVE Held(e)'
    OBVIOUS
  <1>1. /\ SignalsTyped /\ TypeOK /\ PassDisjoint /\ LegsLinked /\ pass \in Passes
        /\ e \in Events /\ ct[e] # None /\ None \notin Rows
        /\ Legs(<<e, None>>) = {e} /\ Legs(<<None, e>>) = {e}
        /\ <<e, None>> \in Keys /\ <<None, e>> \in Keys
    BY KeyFacts DEF IInv, TypeOK, SignalsTyped, Arrived
  <1>2. ct'[e] = ct[e]
    <2>1. ASSUME NEW k \in Keys, NEW decision \in {"confirmed", "rejected"},
                 ResolvePair(k, decision)
          PROVE  ct'[e] = ct[e]
      <3>1. corr[k] # None /\ corr' = [corr EXCEPT ![k] = Row(decision, "user")]
            /\ SetSignal(k, decision = "confirmed")
        BY <2>1 DEF ResolvePair
      <3>2. e \notin Legs(k)
        <4>1. corr'[k] = Row(decision, "user")
          BY <1>1, <3>1 DEF TypeOK
        <4> QED
          BY <1>1, <4>1 DEF UserResolved, Row, Rows
      <3> QED
        BY <1>1, <3>1, <3>2 DEF SetSignal, Kept
    <2>2. ASSUME NEW k \in Keys, NEW resolution, ResolveUnmatched(k, resolution)
          PROVE  ct'[e] = ct[e]
      <3>1. PICK status \in {"rejected", "unmatched"} :
                   corr' = [corr EXCEPT ![k] = Row(status, "user")]
        BY <2>2 DEF ResolveUnmatched
      <3>2. e \notin Legs(k)
        <4>1. corr'[k] = Row(status, "user")
          BY <1>1, <3>1 DEF TypeOK
        <4> QED
          BY <1>1, <4>1 DEF UserResolved, Row, Rows
      <3> QED
        BY <1>1, <2>2, <3>2 DEF ResolveUnmatched, SetSignal, Kept
    <2>3. ASSUME NEW k \in Keys, Surface(k)
          PROVE  ct'[e] = ct[e]
      <3>1. e \notin Legs(k)
        <4>1. k \in Singles /\ OpenSingle(k)
          BY <2>3 DEF Surface, OpenSingle
        <4>2. PICK f \in Events : k = <<f, None>> \/ k = <<None, f>>
          BY <4>1 DEF Singles
        <4>3. Legs(k) = {f}
          BY <4>2, KeyFacts
        <4> QED
          BY <4>1, <4>2, <4>3 DEF Held
      <3> QED
        BY <1>1, <2>3, <3>1 DEF Surface, SetSignal, Kept
    <2>4. ASSUME NEW f \in Events, Classify(f)
          PROVE  ct'[e] = ct[e]
      BY <1>1, <2>4 DEF Classify, Arrives, SignalsTyped
    <2>5. ASSUME NEW h \in Pairs, Score(h)
          PROVE  ct'[e] = ct[e]
      BY <1>1, <2>5 DEF Score, SetSignal, Kept, Held
    <2>6. ASSUME NEW h \in Pairs, Picks(h)
          PROVE  ct'[e] = ct[e]
      BY <1>1, <2>6, PicksFacts
    <2> QED
      BY <2>1, <2>2, <2>3, <2>4, <2>5, <2>6, NextCases, DropsFacts
      DEF Outside, Answers, Publish, OpenPass
  <1>3. ASSUME NEW k \in Singles, Legs(k) = {e}, ~OpenSingle(k)
        PROVE  ~OpenSingle(k)'
    <2>1. ASSUME Publish
          PROVE  k \notin LeftOver
      <3>1. \A l \in pass.legs : k # Single(l)
        BY <1>1, <1>3, <2>1, SingleFacts DEF Publish, Held
      <3> QED
        BY <3>1 DEF LeftOver
    <2> QED
      BY <1>3, <2>1, RowsStay, KeyFacts
  <1> DEFINE Clear(p) == (p.stage = "pair" => e \notin p.legs) /\ \A h \in p.scored : e \notin Legs(h)
  <1>4. Clear(pass')
    <2>1. CASE Outside
      BY <2>1, OutsideFacts DEF Held
    <2>2. CASE Drops
      BY <2>2, DropsFacts DEF NoPass
    <2>3. CASE Publish \/ \E h \in Pairs : Score(h)
      BY <1>1, <2>3 DEF Publish, Score, Passes, Held
    <2>4. ASSUME NEW since \in Events, OpenPass(since)
          PROVE  Clear(pass')
      BY <1>1, <2>4, OpenPassFacts DEF Held
    <2>5. ASSUME NEW h \in Pairs, Picks(h)
          PROVE  Clear(pass')
      <3>1. pass.stage = "pair" /\ pass'.legs = pass.legs /\ h \in pass.left
            /\ pass'.scored \subseteq pass.scored \cup {h}
        BY <1>1, <2>5, PicksFacts DEF Taken
      <3> QED
        BY <1>1, <3>1 DEF Held, PassDisjoint
    <2> QED
      BY <2>1, <2>2, <2>3, <2>4, <2>5, NextCases
  <1> QED
    BY <1>1, <1>2, <1>3, <1>4, KeyFacts DEF Held

\* A pair confirmed without the user stays bridged until the user speaks.
LEMMA AutoStillHolds == ASSUME IInv, Next PROVE AutoHolds'
  <1>1. /\ SignalsTyped /\ TypeOK /\ PassDisjoint /\ LegsLinked /\ PassHolds /\ pass \in Passes
    BY DEF IInv, TypeOK, SignalsTyped
  <1> SUFFICES ASSUME NEW k \in Pairs, corr'[k] = Row("confirmed", "auto"), Relocates(k[1]),
                      ~Settles(k)', NEW e \in Legs(k)
               PROVE  UserResolved(e)' \/ Held(e)'
    BY DEF AutoHolds, Relocates
  <1>2. k \in Keys /\ k \notin Singles /\ k[1] \in Events /\ k[2] \in Events
        /\ Legs(k) = {k[1], k[2]} /\ e \in Events
    BY KeyFacts
  <1>3. Row("confirmed", "auto") \in Rows /\ None \notin Rows
    BY KeyFacts DEF Row, Rows
  <1>4. corr[k] = corr'[k]
    <2>1. Row("unmatched", None) # Row("confirmed", "auto") /\ Row("confirmed", "auto").by # "user"
      BY DEF Row
    <2>2. ASSUME Publish, k \in pass.made, k \in pass.scored
          PROVE  FALSE
      BY <1>1, <2>2 DEF Publish, Settles, Passes
    <2> QED
      BY <1>2, <1>3, <2>1, <2>2, RowsWritten
  <1>5. e \in Arrived
    BY <1>1, <1>2, <1>3, <1>4, KeyFacts DEF LegsLinked, Linked
  <1>6. CASE ~Settles(k)
    <2>1. UserResolved(e) \/ Held(e)
      BY <1>4, <1>6 DEF IInv, AutoHolds
    <2> QED
      BY <1>5, <2>1, ResolvedStays, HeldStays
  <1>7. CASE Settles(k)
    <2>1. Score(k)
      <3>1. ~Outside
        BY <1>7, OutsideFacts DEF Settles
      <3>2. ~Drops /\ ~Publish /\ \A f \in Events : ~OpenPass(f)
        BY <1>7 DEF Settles, Drops, AbortPass, ClosePass, RefuseMerge, Takes, Publish, OpenPass
      <3>3. \A h \in Pairs : ~Picks(h)
        BY <1>1, <1>7, PicksFacts DEF Settles
      <3>4. ASSUME NEW h \in Pairs, h # k
            PROVE  ~Score(h)
        BY <1>1, <1>7, <3>4 DEF Settles, Score, Passes
      <3> QED
        BY <3>1, <3>2, <3>3, <3>4, NextCases
    <2>2. /\ corr' = corr /\ pass'.stage = "score" /\ pass'.scored = pass.scored \ {k}
          /\ SetSignal(k, ScoresHigh(k[1], k[2]))
      BY <1>1, <2>1 DEF Score, Passes
    <2>3. ScoresHigh(k[1], k[2])
      BY <1>1, <1>4, <1>7 DEF PassHolds, Settles, ScoredRow, Row
    <2>4. ct'[e].class \in {"bridge-out", "bridge-in"}
      <3>1. Linked(k[1], k[2]) /\ e \in Legs(k)
        BY <1>1, <1>7 DEF LegsLinked, Settles
      <3> QED
        BY <1>1, <1>2, <2>2, <2>3, <3>1, SetSignalFacts
    <2>5. ~OpenSingle(<<e, None>>) /\ ~OpenSingle(<<None, e>>)
      <3>1. \A j \in Singles : Legs(j) \subseteq Legs(k) => ~OpenSingle(j)
        BY <1>1, <1>7 DEF PassHolds, Settles
      <3> QED
        BY <1>2, <3>1, KeyFacts
    <2>6. \A h \in pass'.scored : e \notin Legs(h)
      BY <1>1, <1>7, <2>2 DEF PassDisjoint, Settles
    <2> QED
      BY <2>2, <2>4, <2>5, <2>6 DEF Held, OpenSingle
  <1> QED
    BY <1>6, <1>7

\* MovesAreConfirmed, for one step: whatever takes a confirmation back takes the signals
\* back with it.
LEMMA MovesStayConfirmed == ASSUME IInv, Next PROVE MovesAreConfirmed'
  <1>1. /\ SignalsTyped /\ TypeOK /\ LegsLinked /\ PassHolds /\ MovesAreConfirmed
        /\ corr \in [Keys -> Rows \cup {None}] /\ None \notin Rows
    BY KeyFacts DEF IInv, TypeOK, SignalsTyped
  <1> DEFINE Backs(k, e) ==
               /\ corr[k] # None /\ corr[k].status = "confirmed" /\ Relocates(k[1])
               /\ \/ ct[e].class = "bridge-out" /\ e = k[1]
                  \/ ct[e].class = "bridge-in" /\ e = k[2] /\ ct[e].src = k[1]
  <1>2. \A o, i \in Events : <<o, i>>[1] = o /\ <<o, i>>[2] = i /\ <<o, i>> \in Pairs
    BY DEF Pairs
  <1>3. SUFFICES ASSUME NEW e \in Arrived', ct'[e].class \in {"bridge-out", "bridge-in"}
                 PROVE  \E k \in Pairs : Backs(k, e)'
    BY <1>2, KeyFacts DEF MovesAreConfirmed, Relocates
  <1>4. ASSUME e \in Arrived, ct'[e] = ct[e]
        PROVE  \E k \in Pairs : Backs(k, e)
    <2> e \in Events
      BY <1>4 DEF Arrived
    <2>1. CASE ct[e].class = "bridge-out"
      <3>1. PICK i \in Events : /\ Relocates(e)
                               /\ corr[<<e, i>>] # None /\ corr[<<e, i>>].status = "confirmed"
        BY <1>1, <1>4, <2>1 DEF MovesAreConfirmed
      <3>2. Backs(<<e, i>>, e)
        BY <1>2, <2>1, <3>1
      <3> QED
        BY <1>2, <3>2
    <2>2. CASE ct[e].class = "bridge-in"
      <3> DEFINE o == ct[e].src
      <3>1. /\ o \in Events /\ Relocates(o)
            /\ corr[<<o, e>>] # None /\ corr[<<o, e>>].status = "confirmed"
        BY <1>1, <1>4, <2>2 DEF MovesAreConfirmed
      <3>2. Backs(<<o, e>>, e)
        BY <1>2, <2>2, <3>1
      <3> QED
        BY <1>2, <3>1, <3>2
    <2> QED
      BY <1>3, <1>4, <2>1, <2>2
  <1>5. ASSUME ct' = ct, \A k \in Pairs : corr[k] # None /\ corr[k].status = "confirmed" => corr'[k] = corr[k]
        PROVE  \E k \in Pairs : Backs(k, e)'
    <2>1. PICK k \in Pairs : Backs(k, e)
      BY <1>3, <1>4, <1>5 DEF Arrived
    <2> QED
      BY <1>5, <2>1 DEF Relocates
  <1>6. ASSUME NEW f \in Events, Classify(f)
        PROVE  \E k \in Pairs : Backs(k, e)'
    <2>1. e # f
      BY <1>1, <1>3, <1>6, ClassifierAssumption DEF Classify, Arrives, SignalsTyped, Arrived
    <2>2. e \in Arrived /\ ct'[e] = ct[e]
      BY <1>1, <1>3, <1>6, <2>1 DEF Classify, Arrives, SignalsTyped, Arrived
    <2>3. PICK k \in Pairs : Backs(k, e)
      BY <1>4, <2>2
    <2> QED
      BY <1>6, <2>2, <2>3 DEF Classify, Relocates
  <1>7. ASSUME NEW j \in Keys, NEW confirmed \in BOOLEAN, Linked(j[1], j[2]), SetSignal(j, confirmed),
               \A k \in Pairs : corr[k] # None /\ corr[k].status = "confirmed" =>
                   corr'[k] = corr[k] \/ (k = j /\ (~confirmed \/ corr'[k].status = "confirmed")),
               confirmed /\ Relocates(j[1]) =>
                   j \in Pairs /\ corr'[j] # None /\ corr'[j].status = "confirmed"
        PROVE  \E k \in Pairs : Backs(k, e)'
    <2>1. e \in Events /\ e \in Arrived
      BY <1>1, <1>3, <1>7 DEF Arrived, SetSignal, Kept, Legs, Linked
    <2>2. CASE ct'[e] = ct[e] /\ (e \in Legs(j) => confirmed /\ ~Relocates(j[1]))
      <3>1. PICK k \in Pairs : Backs(k, e)
        BY <1>4, <2>1, <2>2
      <3>2. e \in Legs(k)
        BY <3>1, KeyFacts
      <3>3. corr'[k] # None /\ corr'[k].status = "confirmed"
        BY <1>7, <2>2, <3>1, <3>2, TypeStays, KeyFacts DEF TypeOK
      <3> QED
        BY <2>2, <3>1, <3>3 DEF Relocates
    <2>3. CASE /\ confirmed /\ Relocates(j[1])
               /\ \/ e = j[1] /\ ct'[e].class = "bridge-out"
                  \/ e = j[2] /\ ct'[e].class = "bridge-in" /\ ct'[e].src = j[1]
      BY <1>7, <2>3 DEF Relocates
    <2> QED
      BY <1>1, <1>3, <1>7, <2>1, <2>2, <2>3, SetSignalFacts
  <1>8. ASSUME NEW j \in Keys, NEW decision \in {"confirmed", "rejected"}, ResolvePair(j, decision)
        PROVE  \E k \in Pairs : Backs(k, e)'
    <2>1. /\ j \in Pairs /\ Linked(j[1], j[2]) /\ SetSignal(j, decision = "confirmed")
          /\ corr' = [corr EXCEPT ![j] = Row(decision, "user")]
      BY <1>1, <1>8 DEF ResolvePair, LegsLinked
    <2>2. corr'[j] = Row(decision, "user") /\ Row(decision, "user") \in Rows
      BY <1>1, <2>1 DEF Row, Rows
    <2>3. (decision = "confirmed") \in BOOLEAN
      OBVIOUS
    <2> QED
      BY <1>1, <1>7, <2>1, <2>2, <2>3, KeyFacts DEF Row
  <1>9. ASSUME NEW j \in Singles, Linked(j[1], j[2]), SetSignal(j, FALSE) \/ UNCHANGED ct,
               \A k \in Pairs : corr'[k] = corr[k]
        PROVE  \E k \in Pairs : Backs(k, e)'
    BY <1>5, <1>7, <1>9, KeyFacts
  <1>10. ASSUME NEW j \in Keys, NEW resolution, ResolveUnmatched(j, resolution)
         PROVE  \E k \in Pairs : Backs(k, e)'
    <2>1. /\ j \in Singles /\ Linked(j[1], j[2])
          /\ SetSignal(j, FALSE) \/ UNCHANGED ct
          /\ \E row : corr' = [corr EXCEPT ![j] = row]
      BY <1>1, <1>10 DEF ResolveUnmatched, LegsLinked
    <2> QED
      BY <1>1, <1>9, <2>1, KeyFacts, ZenonT(60)
  <1>11. ASSUME NEW j \in Keys, Surface(j)
         PROVE  \E k \in Pairs : Backs(k, e)'
    <2>1. j \in Singles /\ SetSignal(j, FALSE) /\ corr' = corr /\ corr[j] = Row("unmatched", None)
      BY <1>11 DEF Surface, OpenSingle
    <2>2. Linked(j[1], j[2])
      BY <1>1, <2>1 DEF LegsLinked, Row, Rows
    <2> QED
      BY <1>9, <2>1, <2>2
  <1>12. ASSUME NEW h \in Pairs, Score(h)
         PROVE  \E k \in Pairs : Backs(k, e)'
    <2>1. /\ pass.stage = "score" /\ h \in pass.scored /\ corr' = corr
          /\ SetSignal(h, ScoresHigh(h[1], h[2]))
      BY <1>12 DEF Score
    <2>2. Linked(h[1], h[2]) /\ ScoresHigh(h[1], h[2]) \in BOOLEAN
      BY <1>1, <2>1 DEF LegsLinked, ScoresHigh
    <2>3. ASSUME ScoresHigh(h[1], h[2]), Relocates(h[1])
          PROVE  corr[h] = Row("confirmed", "auto")
      BY <1>1, <2>1, <2>3 DEF PassHolds, ScoredRow
    <2>4. Row("confirmed", "auto") \in Rows /\ Row("confirmed", "auto").status = "confirmed"
      BY DEF Row, Rows
    <2> QED
      BY <1>1, <1>7, <2>1, <2>2, <2>3, <2>4, KeyFacts
  <1>13. CASE Publish
    <2>1. ASSUME NEW k \in Pairs, corr[k] # None, corr[k].status = "confirmed"
          PROVE  corr'[k] = corr[k]
      <3>1. k \notin pass.made /\ k \notin pass.gone
        BY <1>1, <1>13, <2>1, KeyFacts DEF Publish, PassHolds, OpenSingle
      <3>2. k \notin LeftOver
        BY <1>1, <2>1, SingleFacts, KeyFacts DEF LeftOver
      <3> QED
        BY <1>13, <2>1, <3>1, <3>2, KeyFacts DEF Publish
    <2> QED
      BY <1>5, <1>13, <2>1 DEF Publish
  <1>14. ASSUME NEW h \in Pairs, Picks(h)
         PROVE  ct' = ct /\ corr' = corr
    BY <1>1, <1>14, PicksFacts
  <1> QED
    BY <1>5, <1>6, <1>8, <1>10, <1>11, <1>12, <1>13, <1>14, NextCases, DropsFacts
    DEF Outside, Answers, OpenPass

-----------------------------------------------------------------------------
\* Nothing is there at first.
LEMMA InitInv == Init => IInv
  <1> SUFFICES ASSUME Init PROVE IInv
    OBVIOUS
  <1>1. /\ Arrived = {} /\ pass = NoPass /\ \A k \in Keys : corr[k] = None
    BY DEF Init, SignalInit, Arrived
  <1>2. TypeOK
    BY DEF Init, SignalInit, TypeOK, NoPass, Passes
  <1>3. MovesAreConfirmed /\ LegsLinked /\ RowsScored /\ PassDisjoint /\ PassHolds
    BY <1>1 DEF MovesAreConfirmed, LegsLinked, RowsScored, PassDisjoint, PassHolds, NoPass
  <1>4. AutoHolds
    BY <1>1, KeyFacts DEF AutoHolds, Row, Rows
  <1> QED
    BY <1>2, <1>3, <1>4 DEF IInv

\* The parts together.
LEMMA NextInv == IInv /\ [Next]_vars => IInv'
  <1>1. ASSUME IInv, Next
        PROVE  IInv'
    BY <1>1, TypeStays, MovesStayConfirmed, LegsStayLinked, RowsStayScored, PassStaysDisjoint,
       PassStillHolds, AutoStillHolds DEF IInv
  <1>2. ASSUME IInv, UNCHANGED vars
        PROVE  IInv'
    <2>1. ct' = ct /\ corr' = corr /\ audited' = audited /\ review' = review /\ pass' = pass
      BY <1>2 DEF vars
    <2>2. TypeOK' /\ MovesAreConfirmed'
      BY <1>2, <2>1 DEF IInv, TypeOK, MovesAreConfirmed, Arrived, Relocates
    <2>3. LegsLinked' /\ RowsScored' /\ PassDisjoint'
      BY <1>2, <2>1 DEF IInv, LegsLinked, Linked, Arrived, RowsScored, PassDisjoint, ScoredRow
    <2>4. \A e : (UserResolved(e)' <=> UserResolved(e)) /\ (Held(e)' <=> Held(e))
      BY <2>1 DEF UserResolved, Held, OpenSingle
    <2>5. PassHolds'
      BY <1>2, <2>1, <2>4 DEF IInv, PassHolds, OpenSingle, ScoredRow, ScoresHigh, Relocates
    <2>6. AutoHolds'
      BY <1>2, <2>1, <2>4 DEF IInv, AutoHolds, Settles, Relocates
    <2> QED
      BY <2>2, <2>3, <2>5, <2>6 DEF IInv
  <1> QED
    BY <1>1, <1>2

\* The bridge's rows and signals are sound, whatever order passes, answers, later
\* partners and age-outs come in.
THEOREM BridgeSound == Spec => []IInv
  BY InitInv, NextInv, PTL DEF Spec

\* The bridge's rows are typed.
THEOREM TypeCorrect == Spec => []TypeOK
  <1>1. IInv => TypeOK
    BY DEF IInv
  <1> QED
    BY <1>1, BridgeSound, PTL

\* No event moves lots across chains without a correlation that is confirmed.
THEOREM MovesStandConfirmed == Spec => []MovesAreConfirmed
  <1>1. IInv => MovesAreConfirmed
    BY DEF IInv
  <1> QED
    BY <1>1, BridgeSound, PTL

\* The bridge writes the signal columns as the lot engine expects it.
THEOREM ImplementsSignals == Spec => SignalSpec
  <1>1. Init => SignalInit
    BY DEF Init
  <1>2. IInv /\ [Next]_vars => [Signal]_ct
    BY NextIsSignal DEF vars
  <1> QED
    BY <1>1, <1>2, BridgeSound, PTL DEF Spec, SignalSpec

\* A row the user has answered is never reopened, replaced or deleted.
THEOREM AnswersStand == Spec => UserRowsStand
  <1>1. IInv /\ [Next]_vars =>
          [\A k \in Keys : corr[k] # None /\ corr[k].by = "user" =>
              corr'[k] # None /\ corr'[k].by = "user"]_vars
    BY UserRowsStay DEF vars
  <1> QED
    BY <1>1, BridgeSound, PTL DEF Spec, UserRowsStand

\* When a pass publishes, every leg it read has a row.
LEMMA EveryLegHasRow ==
    ASSUME IInv, Next, pass.stage = "pair", pass'.stage = "score", NEW e \in pass.legs
    PROVE  \E k \in Keys : e \in Legs(k) /\ corr'[k] # None
  <1>1. /\ TypeOK /\ PassHolds /\ PassDisjoint /\ LegsLinked
        /\ pass \in Passes /\ None \notin Rows
    BY KeyFacts DEF IInv, TypeOK
  <1>2. Row("unmatched", None) \in Rows /\ \A k \in Keys : ScoredRow(k) \in Rows
    BY DEF Row, Rows, ScoredRow
  <1>3. Publish
    <2>1. ~Outside /\ ~Drops /\ \A f \in Events : ~OpenPass(f)
      BY OutsideFacts, DropsFacts DEF NoPass, OpenPass
    <2>2. \A h \in Pairs : ~Picks(h) /\ ~Score(h)
      BY <1>1, PicksFacts DEF Score
    <2> QED
      BY <2>1, <2>2, NextCases
  <1>4. CASE e \in pass.used /\ UserResolved(e)
    BY <1>4, UserRowsStay DEF UserResolved
  <1>5. CASE e \in pass.used /\ ~UserResolved(e)
    <2>1. PICK h \in pass.scored : e \in Legs(h) /\ (h \in pass.made \/ corr[h] # None)
      BY <1>1, <1>5 DEF PassHolds
    <2>2. h \in Keys /\ h \notin Singles
      BY <1>1, KeyFacts DEF Passes
    <2>3. corr'[h] # None
      BY <1>1, <1>2, <1>3, <2>1, <2>2 DEF Publish, PassHolds, OpenSingle
    <2> QED
      BY <2>1, <2>2, <2>3
  <1>6. CASE e \notin pass.used
    <2>1. Single(e) \in Singles /\ Single(e) \in Keys /\ Legs(Single(e)) = {e} /\ e \in Events
      BY <1>1, SingleFacts, KeyFacts
    <2>2. CASE UserResolved(e)
      BY <2>2, UserRowsStay DEF UserResolved
    <2>3. CASE ~UserResolved(e)
      <3>1. Single(e) \in LeftOver
        BY <1>6, <2>3 DEF LeftOver
      <3>2. Single(e) \notin pass.gone
        BY <1>1, <1>3, <1>6, <2>1 DEF PassHolds, Publish
      <3>3. corr'[Single(e)] # None
        BY <1>1, <1>2, <1>3, <2>1, <3>1, <3>2 DEF Publish
      <3> QED
        BY <2>1, <3>3
    <2> QED
      BY <2>2, <2>3
  <1> QED
    BY <1>4, <1>5, <1>6

\* A pass forgets no leg.
THEOREM NoLegIsForgotten == Spec => NoLegForgotten
  <1>1. IInv /\ [Next]_vars =>
          [pass.stage = "pair" /\ pass'.stage = "score" =>
              \A e \in pass.legs : \E k \in Keys : e \in Legs(k) /\ corr'[k] # None]_vars
    BY EveryLegHasRow DEF vars
  <1> QED
    BY <1>1, BridgeSound, PTL DEF Spec, NoLegForgotten
=============================================================================

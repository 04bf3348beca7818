-------------------------- MODULE ClassifiedProofs ---------------------------
(***************************************************************************)
(* Proofs about CrossEntity and Decoding, which write classified            *)
(* transactions: decoding makes them, detection and the resolve service give *)
(* the transfers among them their signals.                                   *)
(***************************************************************************)
EXTENDS CrossEntity, Decoding, SignalsProofs

-----------------------------------------------------------------------------
(***************************************************************************)
(* CrossEntity: detection and the resolve service keep the contract the lot  *)
(* engine relies on (CrossEntity implements Signals), and what they promise  *)
(* themselves.  The argument rests on what a row remembers: when it was      *)
(* written its outflow had an owner, and a cross-entity row's to_wallet an   *)
(* inflow of another owner.  CTs never leave and no step here changes a      *)
(* class, so whenever the answer comes, both are still so.                   *)
(***************************************************************************)

RowJustified(o) ==
    /\ o \in Arrived /\ ct[o].class \in Outflows /\ OwnerOf(o, o) # None
    /\ pending[o].kind = "cross-entity" =>
          \E i \in OwnInflows(o, {pending[o].to}) :
              OwnerOf(i, o) \notin {OwnerOf(o, o), None}

RowsJustified == \A o \in Events : pending[o] # None => RowJustified(o)

ScanJustified == \A o \in scan.outflows : o \in Arrived /\ ct[o].class \in Outflows

Justified == TypeOK /\ RowsJustified /\ ScanJustified

\* What a step may do to the signal columns.
StampsPair ==
    \E o \in Arrived : \E i \in InflowsOf[o] \cup {None} :
        \E res \in ResolutionsFor(o, i) : Resolves(o, i, res)
CtStep == (\E e \in Events : Arrives(e)) \/ StampsPair \/ UNCHANGED ct

-----------------------------------------------------------------------------
\* Every write keeps the CTs that are there and their classes.
LEMMA CtStepKeepsClasses ==
    ASSUME SignalsTyped, CtStep
    PROVE  /\ SignalsTyped'
           /\ \A e \in Arrived : e \in Arrived' /\ ct'[e].class = ct[e].class
  <1>1. CASE UNCHANGED ct
    BY <1>1 DEF SignalsTyped, Arrived
  <1>2. CASE \E e \in Events : Arrives(e)
    <2>1. Signal
      BY <1>2 DEF Signal
    <2>2. \A e \in Arrived : ct'[e].class = ct[e].class
      BY <1>2 DEF Arrives, Arrived, SignalsTyped
    <2> QED
      BY <2>1, <2>2, SignalKeepsCTs
  <1>3. CASE StampsPair
    <2>1. Signal
      BY <1>3 DEF Signal, StampsPair
    <2>2. PICK o \in Arrived : \E i \in InflowsOf[o] \cup {None} :
                 \E res \in ResolutionsFor(o, i) : Resolves(o, i, res)
      BY <1>3 DEF StampsPair
    <2>3. PICK i \in InflowsOf[o] \cup {None} :
                 \E res \in ResolutionsFor(o, i) : Resolves(o, i, res)
      BY <2>2
    <2>4. PICK res : Resolves(o, i, res)
      BY <2>3
    <2>5. \A e \in Arrived : ct'[e].class = ct[e].class
      BY <2>4 DEF Resolves, Stamped, Arrived, SignalsTyped, CTs
    <2> QED
      BY <2>1, <2>5, SignalKeepsCTs
  <1> QED
    BY <1>1, <1>2, <1>3 DEF CtStep

\* So what detection saw of an outflow is still there when the answer comes.
LEMMA OwnInflowsStay ==
    ASSUME SignalsTyped, CtStep, NEW o \in Events, NEW ws,
           NEW i \in OwnInflows(o, ws)
    PROVE  i \in OwnInflows(o, ws)'
  BY CtStepKeepsClasses DEF OwnInflows

\* An answer to a row stamps what the row's owners call for.
LEMMA AnswerStampsPair ==
    ASSUME Justified, NEW o \in Events, NEW choice \in Choices, pending[o] # None,
           choice \in Allowed(pending[o].kind), StampLegs(o, choice)
    PROVE  \E i \in InflowsOf[o] \cup {None} :
             LET res == OutflowResolution(pending[o].kind, choice) IN
             /\ res \in ResolutionsFor(o, i)
             /\ Resolves(o, i, res)
             /\ i = None => res \notin RelocateResolutions
  <1> DEFINE row == pending[o]
             res == OutflowResolution(row.kind, choice)
             located == IF StampsInflow(row.kind, choice)
                        THEN OwnInflows(o, {row.to}) ELSE {}
  <1>1. RowJustified(o) /\ row.kind \in Kinds
    BY NoneAssumption DEF Justified, RowsJustified, TypeOK, Rows
  <1>2. PICK i \in located \cup {None} :
               (i = None => located = {}) /\ ct' = Stamped(o, i, res)
    BY DEF StampLegs
  <1>3. None \notin Events
    BY NoneAssumption
  <1>4. CASE StampsInflow(row.kind, choice)
    <2>1. row.kind = "cross-entity"
          /\ res \in {"relocate-contribution", "relocate-reassignment", "relocate-gift"}
      BY <1>4 DEF StampsInflow, OutflowResolution
    <2>2. PICK j \in OwnInflows(o, {row.to}) :
                 OwnerOf(j, o) \notin {OwnerOf(o, o), None}
      BY <1>1, <2>1 DEF RowJustified
    <2>3. i \in OwnInflows(o, {row.to}) /\ i # None
      BY <1>2, <1>3, <1>4, <2>2 DEF OwnInflows, Arrived
    <2>4. WalletOf[i] = WalletOf[j]
      BY <2>2, <2>3 DEF OwnInflows
    <2>5. OwnerOf(i, o) \notin {OwnerOf(o, o), None}
      BY <2>2, <2>4 DEF OwnerOf
    <2>6. res \in ResolutionsFor(o, i)
      BY <1>1, <2>1, <2>3, <2>5
      DEF ResolutionsFor, PairResolutions, RelocateResolutions, RowJustified
    <2>7. i \in InflowsOf[o] /\ Resolves(o, i, res)
      BY <1>1, <1>2, <2>3 DEF Resolves, RowJustified, OwnInflows
    <2> QED
      BY <2>3, <2>6, <2>7
  <1>5. CASE ~StampsInflow(row.kind, choice)
    <2>1. i = None
      BY <1>2, <1>5
    <2>2. Resolves(o, None, res)
      BY <1>1, <1>2, <2>1 DEF Resolves, RowJustified
    <2>3. CASE row.kind = "cross-entity"
      <3>1. res \in OutflowResolutions
        BY <1>5, <2>3 DEF StampsInflow, OutflowResolution, Allowed, OutflowResolutions
      <3>2. \E x \in InflowsOf[o] : OwnerOf(x, o) \notin {OwnerOf(o, o), None}
        BY <1>1, <2>3 DEF RowJustified, OwnInflows
      <3>3. ResolutionsFor(o, None) = OutflowResolutions
        BY <1>1, <3>2 DEF ResolutionsFor, SoloResolutions, RowJustified
      <3> QED
        BY <2>2, <3>1, <3>3 DEF OutflowResolutions, RelocateResolutions
    <2>4. CASE row.kind # "cross-entity"
      <3>1. res \in {"disposal", "gift-out"}
        BY <2>4 DEF OutflowResolution, Allowed
      <3>2. res \in ResolutionsFor(o, None)
        BY <1>1, <3>1
        DEF ResolutionsFor, SoloResolutions, RowJustified, OutflowResolutions
      <3> QED
        BY <2>2, <3>1, <3>2 DEF RelocateResolutions
    <2> QED
      BY <2>3, <2>4
  <1> QED
    BY <1>4, <1>5

\* Detection's own stamp is the internal relocation of a pair.
LEMMA DetectionStampsPair ==
    ASSUME Justified, NEW o \in Events, NEW i \in InflowsOf[o], DetectInternal(o, i)
    PROVE  /\ "relocate-internal" \in ResolutionsFor(o, i)
           /\ Resolves(o, i, "relocate-internal")
           /\ o \in Arrived
  <1>1. o \in Arrived /\ ct[o].class \in Outflows
    BY DEF Justified, ScanJustified, DetectInternal, Scanned
  <1>2. i # None
    BY NoneAssumption, SignalsAssumption
  <1>3. "relocate-internal" \in ResolutionsFor(o, i)
    BY <1>2 DEF DetectInternal, ResolutionsFor, PairResolutions
  <1> QED
    BY <1>1, <1>2, <1>3 DEF DetectInternal, Resolves, OwnInflows

\* No step writes the signal columns in any other way.
LEMMA StepWritesCt ==
    ASSUME Justified, [Next]_vars
    PROVE  CtStep
  <1>1. ASSUME NEW w \in Wallets, AddWallet(w) PROVE CtStep
    BY <1>1 DEF AddWallet, CtStep
  <1>2. ASSUME NEW e \in Events, Classify(e) PROVE CtStep
    BY <1>2 DEF Classify, CtStep
  <1>3. CASE StartScan
    BY <1>3 DEF StartScan, CtStep
  <1>4. ASSUME NEW o \in Events, NEW i \in InflowsOf[o], DetectInternal(o, i)
        PROVE  CtStep
    BY <1>4, DetectionStampsPair DEF CtStep, StampsPair
  <1>5. ASSUME NEW o \in Events, NEW i \in InflowsOf[o], DetectBetween(o, i)
        PROVE  CtStep
    BY <1>5 DEF DetectBetween, CtStep
  <1>6. ASSUME NEW o \in Events, DetectExternal(o) \/ DetectNothing(o)
        PROVE  CtStep
    BY <1>6 DEF DetectExternal, DetectNothing, CtStep
  <1>7. ASSUME NEW o \in Events, NEW choice \in Choices, NEW by,
               Resolve(o, choice, by) \/ Reclassify(o, choice, by)
        PROVE  CtStep
    <2>1. pending[o] # None /\ choice \in Allowed(pending[o].kind) /\ StampLegs(o, choice)
      BY <1>7 DEF Resolve, Reclassify
    <2>2. o \in Arrived
      BY <2>1 DEF Justified, RowsJustified, RowJustified
    <2> QED
      BY <2>1, <2>2, AnswerStampsPair DEF CtStep, StampsPair
  <1>8. ASSUME NEW o \in Events, Dismiss(o) PROVE CtStep
    BY <1>8 DEF Dismiss, CtStep
  <1>9. CASE UNCHANGED vars
    BY <1>9 DEF vars, CtStep
  <1> QED
    BY <1>1, <1>2, <1>3, <1>4, <1>5, <1>6, <1>7, <1>8, <1>9 DEF Next, Detect, Decide

\* A row that is there, and one that is written or answered, has its outflow and,
\* between entities, its inflow.
LEMMA RowsStayJustified ==
    ASSUME Justified, CtStep, NEW o \in Events, RowJustified(o), pending'[o] # None,
           pending'[o].kind = pending[o].kind, pending'[o].to = pending[o].to
    PROVE  RowJustified(o)'
  <1>1. SignalsTyped
    BY DEF Justified, TypeOK, SignalsTyped
  <1>2. o \in Arrived' /\ ct'[o].class \in Outflows /\ OwnerOf(o, o) # None
    BY <1>1, CtStepKeepsClasses DEF RowJustified
  <1>3. OwnInflows(o, {pending[o].to}) \subseteq OwnInflows(o, {pending[o].to})'
    BY <1>1, OwnInflowsStay
  <1> QED
    BY <1>2, <1>3 DEF RowJustified, OwnerOf

\* The rows of a step: as they were, opened, or answered.
RowsStep ==
    \A o \in Events :
        \/ pending'[o] = pending[o]
        \/ pending[o] # None /\ pending'[o] # None
           /\ pending'[o].kind = pending[o].kind /\ pending'[o].to = pending[o].to
        \/ /\ o \in scan.outflows /\ OwnerOf(o, o) # None /\ UNCHANGED ct
           /\ pending[o] = None
           /\ \/ pending'[o].kind = "external-outflow"
              \/ \E i \in OwnInflows(o, {pending'[o].to}) :
                    OwnerOf(i, o) \notin {OwnerOf(o, o), None}

LEMMA RowStepIsTyped ==
    ASSUME Justified, [Next]_vars
    PROVE  pending' \in [Events -> Rows \cup {None}] /\ RowsStep
  <1>1. ASSUME UNCHANGED pending
        PROVE  pending' \in [Events -> Rows \cup {None}] /\ RowsStep
    BY <1>1 DEF Justified, TypeOK, RowsStep
  <1>2. ASSUME NEW o \in Events, NEW row \in Rows, pending' = [pending EXCEPT ![o] = row],
               \/ pending[o] # None /\ row.kind = pending[o].kind /\ row.to = pending[o].to
               \/ /\ o \in scan.outflows /\ OwnerOf(o, o) # None /\ UNCHANGED ct
                  /\ pending[o] = None
                  /\ \/ row.kind = "external-outflow"
                     \/ \E i \in OwnInflows(o, {row.to}) :
                           OwnerOf(i, o) \notin {OwnerOf(o, o), None}
        PROVE  pending' \in [Events -> Rows \cup {None}] /\ RowsStep
    <2>1. pending \in [Events -> Rows \cup {None}] /\ row # None
      BY <1>2, RowsAssumption DEF Justified, TypeOK
    <2> QED
      BY <1>2, <2>1 DEF RowsStep
  <1>3. ASSUME NEW o \in Events, NEW kind \in Kinds, NEW to \in Wallets \cup {None},
               pending' = WithRow(o, kind, to),
               o \in scan.outflows, OwnerOf(o, o) # None, UNCHANGED ct,
               kind = "cross-entity" => \E i \in OwnInflows(o, {to}) :
                                           OwnerOf(i, o) \notin {OwnerOf(o, o), None}
        PROVE  pending' \in [Events -> Rows \cup {None}] /\ RowsStep
    <2>1. Row(kind, to) \in Rows
      BY DEF Row, Rows
    <2>2. CASE pending[o] = None /\ o \notin Tokenless
      BY <1>2, <1>3, <2>1, <2>2 DEF WithRow, Row, Kinds
    <2>3. CASE ~(pending[o] = None /\ o \notin Tokenless)
      BY <1>1, <1>3, <2>3 DEF WithRow
    <2> QED
      BY <2>2, <2>3
  <1>4. ASSUME NEW o \in Events, NEW i \in InflowsOf[o], DetectBetween(o, i)
        PROVE  pending' \in [Events -> Rows \cup {None}] /\ RowsStep
    <2>1. WalletOf[i] \in Wallets /\ i \in OwnInflows(o, {WalletOf[i]})
      BY <1>4, SignalsAssumption DEF DetectBetween, OwnInflows
    <2> QED
      BY <1>3, <1>4, <2>1 DEF DetectBetween, Scanned, Kinds
  <1>5. ASSUME NEW o \in Events, DetectExternal(o)
        PROVE  pending' \in [Events -> Rows \cup {None}] /\ RowsStep
    BY <1>3, <1>5 DEF DetectExternal, Scanned, Kinds
  <1>6. ASSUME NEW o \in Events, NEW choice \in Choices, NEW by \in {"user", "rule"},
               Resolve(o, choice, by) \/ Reclassify(o, choice, by) \/ Dismiss(o)
        PROVE  pending' \in [Events -> Rows \cup {None}] /\ RowsStep
    <2>1. pending[o] # None /\ pending[o] \in Rows
      BY <1>6 DEF Resolve, Reclassify, Dismiss, Justified, TypeOK
    <2>2. CASE Resolve(o, choice, by)
      BY <1>2, <2>1, <2>2 DEF Resolve, Rows
    <2>3. CASE Reclassify(o, choice, by)
      BY <1>2, <2>1, <2>3 DEF Reclassify, Rows
    <2>4. CASE Dismiss(o)
      BY <1>2, <2>1, <2>4, ZenonT(60) DEF Dismiss, Rows
    <2> QED
      BY <1>6, <2>2, <2>3, <2>4
  <1>7. CASE Next
    <2>1. ASSUME \E w \in Wallets : AddWallet(w) PROVE UNCHANGED pending
      BY <2>1 DEF AddWallet
    <2>2. ASSUME \E e \in Events : Classify(e) PROVE UNCHANGED pending
      BY <2>2 DEF Classify
    <2>3. ASSUME StartScan PROVE UNCHANGED pending
      BY <2>3 DEF StartScan
    <2>4. ASSUME \E o \in Events : DetectNothing(o) PROVE UNCHANGED pending
      BY <2>4 DEF DetectNothing
    <2>5. ASSUME \E o \in Events : \E i \in InflowsOf[o] : DetectInternal(o, i)
          PROVE  UNCHANGED pending
      BY <2>5 DEF DetectInternal
    <2>6. ASSUME NEW o \in Events, Dismiss(o)
          PROVE  pending' \in [Events -> Rows \cup {None}] /\ RowsStep
      <3>1. "sale" \in Choices
        BY DEF Choices, Kinds, Allowed
      <3> QED
        BY <1>6, <2>6, <3>1
    <2> QED
      BY <1>1, <1>4, <1>5, <1>6, <1>7, <2>1, <2>2, <2>3, <2>4, <2>5, <2>6
      DEF Next, Detect, Decide
  <1> QED
    BY <1>1, <1>7 DEF vars

\* A pass looks only at outflows that are there.
LEMMA ScanStaysJustified ==
    ASSUME Justified, [Next]_vars, CtStep
    PROVE  ScanJustified' /\ scan' \in [wallets : SUBSET Wallets, outflows : SUBSET Events]
  <1>1. ASSUME scan'.outflows \subseteq scan.outflows \cup Unresolved
        PROVE  ScanJustified'
    <2>1. \A o \in scan'.outflows : o \in Arrived /\ ct[o].class \in Outflows
      BY <1>1 DEF Justified, ScanJustified, Unresolved, Outflows
    <2>2. SignalsTyped
      BY DEF Justified, TypeOK, SignalsTyped
    <2> QED
      BY <2>1, <2>2, CtStepKeepsClasses DEF ScanJustified
  <1>2. CASE UNCHANGED scan
    BY <1>1, <1>2 DEF Justified, TypeOK
  <1>3. CASE StartScan
    BY <1>1, <1>3 DEF StartScan, Unresolved, Arrived, Justified, TypeOK
  <1>4. ASSUME NEW o \in Events, Scanned(o)
        PROVE  ScanJustified' /\ scan' \in [wallets : SUBSET Wallets, outflows : SUBSET Events]
    BY <1>1, <1>4 DEF Scanned, NoScan, Justified, TypeOK
  <1>5. CASE \E w \in Wallets : AddWallet(w)
    BY <1>2, <1>5 DEF AddWallet
  <1>6. CASE \E e \in Events : Classify(e)
    BY <1>2, <1>6 DEF Classify
  <1>7. CASE Detect
    BY <1>3, <1>4, <1>7
    DEF Detect, DetectInternal, DetectBetween, DetectExternal, DetectNothing
  <1>8. CASE Decide
    BY <1>2, <1>8 DEF Decide, Resolve, Reclassify, Dismiss
  <1> QED
    BY <1>2, <1>5, <1>6, <1>7, <1>8 DEF Next, vars

LEMMA JustifiedInit == Init => Justified
  BY NoneAssumption
  DEF Init, SignalInit, Justified, TypeOK, RowsJustified, ScanJustified, NoScan

LEMMA JustifiedStep == Justified /\ [Next]_vars => Justified'
  <1> SUFFICES ASSUME Justified, [Next]_vars PROVE Justified'
    OBVIOUS
  <1>1. CtStep
    BY StepWritesCt
  <1>2. SignalsTyped /\ SignalsTyped'
    BY <1>1, CtStepKeepsClasses DEF Justified, TypeOK, SignalsTyped
  <1>3. known' \subseteq Wallets
    BY DEF Justified, TypeOK, Next, vars, AddWallet, Classify, Detect, StartScan,
           DetectInternal, DetectBetween, DetectExternal, DetectNothing, Scanned,
           Decide, Resolve, Reclassify, Dismiss
  <1>4. TypeOK'
    BY <1>1, <1>2, <1>3, RowStepIsTyped, ScanStaysJustified DEF TypeOK, SignalsTyped
  <1>5. ASSUME NEW o \in Events, pending'[o] # None
        PROVE  RowJustified(o)'
    <2>1. CASE pending[o] # None /\ pending'[o].kind = pending[o].kind
               /\ pending'[o].to = pending[o].to
      BY <1>1, <1>5, <2>1, RowsStayJustified DEF Justified, RowsJustified
    <2>2. CASE /\ o \in scan.outflows /\ OwnerOf(o, o) # None /\ UNCHANGED ct
               /\ \/ pending'[o].kind = "external-outflow"
                  \/ \E i \in OwnInflows(o, {pending'[o].to}) :
                        OwnerOf(i, o) \notin {OwnerOf(o, o), None}
      BY <2>2 DEF Justified, ScanJustified, RowJustified, OwnInflows, Arrived, OwnerOf
    <2> QED
      BY <1>5, <2>1, <2>2, RowStepIsTyped DEF RowsStep
  <1> QED
    BY <1>1, <1>4, <1>5, ScanStaysJustified DEF Justified, RowsJustified

-----------------------------------------------------------------------------
\* Every row goes back to an outflow with an owner and, between entities, to an inflow
\* in its to_wallet; and every table is typed.
THEOREM RowsAreJustified == Spec => []Justified
  BY JustifiedInit, JustifiedStep, PTL DEF Spec

\* Every table is typed.
THEOREM TypeCorrect == Spec => []TypeOK
  BY RowsAreJustified, PTL DEF Justified

\* Whatever detection and the resolve service write to the signal columns, the lot
\* engine was proved to cope with.
THEOREM ImplementsSignals == Spec => SignalSpec
  <1>1. Init => SignalInit
    BY DEF Init
  <1>2. Justified /\ [Next]_vars => [Signal]_ct
    BY StepWritesCt DEF CtStep, StampsPair, Signal
  <1> QED
    BY <1>1, <1>2, RowsAreJustified, PTL DEF Spec, SignalSpec

-----------------------------------------------------------------------------
\* A row of another kind of step keeps its choice; the stamps move only with the row.
LEMMA StampedAsRecordedStep ==
    Justified /\ StampedAsRecorded /\ [Next]_vars => StampedAsRecorded'
  <1> SUFFICES ASSUME Justified, StampedAsRecorded, [Next]_vars
               PROVE  StampedAsRecorded'
    OBVIOUS
  <1> DEFINE Kept(o) ==
               LET row == pending[o] IN
               /\ row # None /\ row.state = "classified" => ct[o].res # None
               /\ o \in Arrived /\ ct[o].class \in Outflows
                  /\ ct[o].res \notin {None, "relocate-internal"}
                  => /\ row # None /\ row.choice # None
                     /\ ct[o].res = OutflowResolution(row.kind, row.choice)
  <1>1. \A o \in Events : Kept(o)
    BY DEF StampedAsRecorded
  <1>2. CtStep
    BY StepWritesCt
  <1>3. SignalsTyped /\ SignalsTyped' /\ pending \in [Events -> Rows \cup {None}]
    BY <1>2, CtStepKeepsClasses DEF Justified, TypeOK, SignalsTyped
  <1>4. \A o \in Events : pending[o] # None => o \in Arrived /\ ct[o].class \in Outflows
    BY DEF Justified, RowsJustified, RowJustified
  <1>5. ASSUME UNCHANGED <<ct, pending>>
        PROVE  StampedAsRecorded'
    BY <1>5 DEF StampedAsRecorded, Arrived
  <1>6. ASSUME NEW e \in Events, Classify(e) PROVE StampedAsRecorded'
    <2>1. ASSUME NEW o \in Events PROVE Kept(o)'
      <3>1. CASE o = e
        <4>1. pending'[o] = None
          BY <1>4, <1>6, <3>1 DEF Classify, Arrives, Arrived
        <4>2. ct'[o].res = None
          BY <1>3, <1>6, <3>1 DEF Classify, Arrives, SignalsTyped
        <4> QED
          BY <4>1, <4>2
      <3>2. CASE o # e
        <4>1. ct'[o] = ct[o] /\ pending'[o] = pending[o]
          BY <1>3, <1>6, <3>2 DEF Classify, Arrives, SignalsTyped
        <4> QED
          BY <1>1, <4>1 DEF Arrived
      <3> QED
        BY <3>1, <3>2
    <2> QED
      BY <2>1 DEF StampedAsRecorded
  <1>7. ASSUME NEW o \in Events, NEW i \in InflowsOf[o] \cup {None}, NEW res \in Resolutions,
               Resolves(o, i, res), o \in Arrived, o # i,
               \A x \in Events \ {o} : pending'[x] = pending[x],
               \/ res = "relocate-internal" /\ UNCHANGED pending
               \/ /\ pending'[o] # None /\ pending'[o].choice # None
                  /\ res = OutflowResolution(pending'[o].kind, pending'[o].choice)
        PROVE  StampedAsRecorded'
    <2>1. ASSUME NEW x \in Events PROVE Kept(x)'
      <3>1. CASE x = o
        <4>1. res # None
          BY NoneAssumption
        <4>2. ct'[o] = [ct[o] EXCEPT !.res = res] /\ ct[o] \in CTs
          BY <1>3, <1>7 DEF Resolves, Stamped, SignalsTyped, Arrived
        <4>3. ct'[o].res = res
          BY <4>2 DEF CTs
        <4> QED
          BY <1>7, <3>1, <4>1, <4>3 DEF OutflowResolution
      <3>2. CASE x = i
        <4>1. ct[i].class \in Inflows /\ i \in Arrived
          BY <1>7, <3>2, NoneAssumption DEF Resolves
        <4>2. ct'[i].class \notin Outflows
          BY <1>2, <1>3, <4>1, CtStepKeepsClasses DEF Inflows, Outflows
        <4>3. pending[i] = None
          BY <1>4, <3>2, <4>1 DEF Inflows, Outflows
        <4> QED
          BY <1>7, <3>2, <4>2, <4>3
      <3>3. CASE x # o /\ x # i
        <4>1. ct'[x] = ct[x] /\ pending'[x] = pending[x]
          BY <1>7, <3>3 DEF Resolves, Stamped
        <4> QED
          BY <1>1, <4>1 DEF Arrived
      <3> QED
        BY <3>1, <3>2, <3>3
    <2> QED
      BY <2>1 DEF StampedAsRecorded
  <1>8. ASSUME NEW o \in Events, NEW i \in InflowsOf[o], DetectInternal(o, i)
        PROVE  StampedAsRecorded'
    <2>1. o # i
      BY SignalsAssumption
    <2>2. Resolves(o, i, "relocate-internal") /\ o \in Arrived
      BY <1>8, DetectionStampsPair
    <2> QED
      BY <1>7, <1>8, <2>1, <2>2 DEF DetectInternal, Resolutions, RelocateResolutions
  <1>9. ASSUME NEW o \in Events, NEW kind, NEW to, pending' = WithRow(o, kind, to),
               UNCHANGED ct
        PROVE  StampedAsRecorded'
    <2>1. ASSUME NEW x \in Events PROVE Kept(x)'
      <3>1. CASE pending'[x] = pending[x]
        BY <1>1, <1>9, <3>1 DEF Arrived
      <3>2. CASE pending'[x] # pending[x]
        <4>1. pending[x] = None /\ pending'[x].state = "needs_classification"
          BY <1>3, <1>9, <3>2 DEF WithRow, Row
        <4> QED
          BY <1>1, <1>9, <4>1 DEF Arrived
      <3> QED
        BY <3>1, <3>2
    <2> QED
      BY <2>1 DEF StampedAsRecorded
  <1>10. ASSUME NEW o \in Events, NEW choice \in Choices, NEW by,
                Resolve(o, choice, by) \/ Reclassify(o, choice, by)
         PROVE  StampedAsRecorded'
    <2>1. /\ pending[o] # None /\ pending[o] \in Rows
          /\ choice \in Allowed(pending[o].kind) /\ StampLegs(o, choice)
      BY <1>3, <1>10 DEF Resolve, Reclassify
    <2>2. /\ pending'[o] # None /\ pending'[o].choice = choice
          /\ pending'[o].kind = pending[o].kind
          /\ \A x \in Events \ {o} : pending'[x] = pending[x]
      <3>1. [pending[o] EXCEPT !.choice = choice] # None
        <4>1. [pending[o] EXCEPT !.choice = choice] \in Rows
          BY <2>1 DEF Rows
        <4> QED
          BY <4>1, RowsAssumption
      <3>2. CASE Reclassify(o, choice, by)
        BY <1>3, <2>1, <3>1, <3>2 DEF Reclassify, Rows
      <3>3. CASE Resolve(o, choice, by)
        <4>1. pending' \in [Events -> Rows \cup {None}]
          BY RowStepIsTyped
        <4>2. pending'[o] = [pending[o] EXCEPT !.state = "classified",
                                               !.choice = choice, !.by = by]
          BY <1>3, <3>3 DEF Resolve
        <4>3. /\ pending'[o].choice = choice /\ pending'[o].kind = pending[o].kind
              /\ \A x \in Events \ {o} : pending'[x] = pending[x]
          BY <1>3, <2>1, <3>3, <4>2 DEF Resolve, Rows
        <4>4. pending'[o] # None
          BY <2>1, RowStepIsTyped DEF RowsStep
        <4> QED
          BY <4>3, <4>4
      <3> QED
        BY <1>10, <3>2, <3>3
    <2>3. PICK i \in InflowsOf[o] \cup {None} :
                 /\ OutflowResolution(pending[o].kind, choice) \in ResolutionsFor(o, i)
                 /\ Resolves(o, i, OutflowResolution(pending[o].kind, choice))
      BY <2>1, AnswerStampsPair
    <2>4. o # i /\ o \in Arrived /\ choice # None
      BY <1>4, <2>1, SignalsAssumption, NoneAssumption, RowsAssumption
    <2>5. OutflowResolution(pending[o].kind, choice) \in Resolutions
      BY DEF OutflowResolution, Resolutions, RelocateResolutions, OutflowResolutions
    <2> QED
      BY <1>7, <2>2, <2>3, <2>4, <2>5
  <1>11. ASSUME NEW o \in Events, Dismiss(o) PROVE StampedAsRecorded'
    <2>1. pending[o] # None /\ pending[o] \in Rows /\ UNCHANGED ct
      BY <1>3, <1>11 DEF Dismiss
    <2>2. \A x \in Events \ {o} : pending'[x] = pending[x]
      BY <1>3, <1>11 DEF Dismiss
    <2>3. /\ pending'[o] # None /\ pending'[o].choice = pending[o].choice
          /\ pending'[o].kind = pending[o].kind /\ pending'[o].state = "dismissed"
      <3>1. pending'[o] = [pending[o] EXCEPT !.state = "dismissed", !.by = "user"]
        BY <1>3, <1>11 DEF Dismiss
      <3>2. pending'[o] \in Rows
        BY <2>1, <3>1 DEF Rows
      <3> QED
        BY <2>1, <3>1, <3>2, RowsAssumption DEF Rows
    <2>4. ASSUME NEW x \in Events PROVE Kept(x)'
      BY <1>1, <2>1, <2>2, <2>3 DEF Arrived
    <2> QED
      BY <2>4 DEF StampedAsRecorded
  <1>12. CASE Next
    BY <1>5, <1>6, <1>8, <1>9, <1>10, <1>11, <1>12
    DEF Next, Detect, Decide, AddWallet, StartScan, DetectBetween, DetectExternal,
        DetectNothing
  <1> QED
    BY <1>5, <1>12 DEF vars

\* The engine never acts on a choice other than the one on record.
THEOREM StampsFollowRows == Spec => []StampedAsRecorded
  <1>1. Init => StampedAsRecorded
    BY NoneAssumption DEF Init, SignalInit, StampedAsRecorded, Arrived
  <1> QED
    BY <1>1, StampedAsRecordedStep, RowsAreJustified, PTL DEF Spec

-----------------------------------------------------------------------------
\* RelocationsPaired, with the inflow still an inflow: no outflow's own stamp can
\* then take the link away.
PairedWith(o, i) ==
    /\ i \in InflowsOf[o] \cap Arrived
    /\ ct[i].class \in Inflows /\ ct[i].src = o /\ ct[i].res = ct[o].res

PairsStand ==
    \A o \in Arrived :
        /\ ct[o].class \in Outflows /\ ct[o].res \in RelocateResolutions
        /\ \A other \in Events \ {o} : InflowsOf[o] \cap InflowsOf[other] = {}
        => \E i \in Events : PairedWith(o, i)

LEMMA PairsStandStep == Justified /\ PairsStand /\ [Next]_vars => PairsStand'
  <1> SUFFICES ASSUME Justified, PairsStand, [Next]_vars,
                      NEW o \in Arrived', ct'[o].class \in Outflows,
                      ct'[o].res \in RelocateResolutions,
                      \A other \in Events \ {o} : InflowsOf[o] \cap InflowsOf[other] = {}
               PROVE  \E i \in Events : PairedWith(o, i)'
    BY DEF PairsStand
  <1>1. CtStep /\ o \in Events
    BY StepWritesCt DEF Arrived
  <1>2. SignalsTyped /\ SignalsTyped'
    BY <1>1, CtStepKeepsClasses DEF Justified, TypeOK, SignalsTyped
  <1>3. None \notin RelocateResolutions /\ None \notin Events
    BY NoneAssumption DEF Resolutions
  <1>4. CASE UNCHANGED ct
    BY <1>4 DEF PairsStand, PairedWith, Arrived
  <1>5. ASSUME NEW e \in Events, Arrives(e)
        PROVE  \E i \in Events : PairedWith(o, i)'
    <2>1. o # e
      BY <1>2, <1>3, <1>5 DEF Arrives, SignalsTyped
    <2>2. o \in Arrived /\ ct'[o] = ct[o]
      BY <1>1, <1>2, <1>5, <2>1 DEF Arrives, Arrived, SignalsTyped
    <2>3. PICK i \in Events : PairedWith(o, i)
      BY <2>2 DEF PairsStand
    <2>4. i # e /\ ct'[i] = ct[i]
      BY <1>2, <1>5, <2>3 DEF PairedWith, Arrives, Arrived, SignalsTyped
    <2> QED
      BY <2>2, <2>3, <2>4 DEF PairedWith, Arrived
  <1>6. ASSUME NEW x \in Arrived, NEW j \in InflowsOf[x] \cup {None},
               NEW res \in ResolutionsFor(x, j), Resolves(x, j, res)
        PROVE  \E i \in Events : PairedWith(o, i)'
    <2>1. x \in Events /\ ct[x].class \in Outflows /\ x # j
      BY <1>3, <1>6, SignalsAssumption DEF Arrived, Resolves
    <2>2. j # None => j \in Arrived /\ ct[j].class \in Inflows /\ j \in InflowsOf[x]
      BY <1>6 DEF Resolves
    <2>3. CASE o = x
      <3>1. ct[o] \in CTs /\ ct'[o] = [ct[o] EXCEPT !.res = res]
        BY <1>2, <1>6, <2>1, <2>3 DEF Resolves, Stamped, SignalsTyped, Arrived
      <3>2. ct'[o].res = res
        BY <3>1 DEF CTs
      <3>3. j # None
        BY <1>6, <3>2 DEF ResolutionsFor, SoloResolutions, OutflowResolutions,
                          RelocateResolutions
      <3>4. j \in Events /\ ct[j] \in CTs
            /\ ct'[j] = [ct[j] EXCEPT !.res = res, !.src = o]
        BY <1>2, <1>6, <2>1, <2>2, <2>3, <3>3 DEF Resolves, Stamped, SignalsTyped, Arrived
      <3>5. ct'[j].res = res /\ ct'[j].src = o /\ ct'[j].class = ct[j].class
        BY <3>4 DEF CTs
      <3>6. j \in Arrived'
        BY <1>1, <1>2, <2>2, <3>3, CtStepKeepsClasses
      <3> QED
        BY <2>2, <2>3, <3>2, <3>3, <3>4, <3>5, <3>6 DEF PairedWith
    <2>4. CASE o # x
      <3>1. o # j
        <4>1. j # None => ct'[j].class = ct[j].class
          BY <1>1, <1>2, <2>2, CtStepKeepsClasses
        <4> QED
          BY <1>1, <1>3, <2>2, <4>1 DEF Inflows, Outflows
      <3>2. o \in Arrived /\ ct'[o] = ct[o]
        BY <1>1, <1>6, <2>4, <3>1 DEF Resolves, Stamped, Arrived
      <3>3. PICK i \in Events : PairedWith(o, i)
        BY <3>2 DEF PairsStand
      <3>4. i # x
        BY <2>1, <3>3 DEF PairedWith, Inflows, Outflows
      <3>5. i # j
        BY <1>3, <2>1, <2>2, <2>4, <3>3 DEF PairedWith
      <3>6. ct'[i] = ct[i]
        BY <1>6, <3>4, <3>5 DEF Resolves, Stamped
      <3> QED
        BY <3>2, <3>3, <3>6 DEF PairedWith, Arrived
    <2> QED
      BY <2>3, <2>4
  <1> QED
    BY <1>1, <1>4, <1>5, <1>6 DEF CtStep, StampsPair

\* No relocation is stamped by half.
THEOREM NoHalfRelocations == Spec => []RelocationsPaired
  <1>1. Init => PairsStand
    BY NoneAssumption DEF Init, SignalInit, PairsStand, Arrived
  <1>2. PairsStand => RelocationsPaired
    BY DEF PairsStand, PairedWith, RelocationsPaired
  <1> QED
    BY <1>1, <1>2, PairsStandStep, RowsAreJustified, PTL DEF Spec

-----------------------------------------------------------------------------
LEMMA RowAdvances ==
    ASSUME Justified, [Next]_vars, NEW o \in Events, pending[o] # None
    PROVE  LET row == pending[o]
               new == pending'[o]
           IN
           /\ new # None
           /\ <<new.kind, new.to>> = <<row.kind, row.to>>
           /\ new.state = "needs_classification" => row.state = "needs_classification"
           /\ row.state = "dismissed" =>
                 <<new.state, new.choice>> = <<"dismissed", row.choice>>
  <1> DEFINE row == pending[o]
             new == pending'[o]
  <1>1. row \in Rows /\ new # None /\ new.kind = row.kind /\ new.to = row.to
    BY RowStepIsTyped DEF RowsStep, Justified, TypeOK
  <1>2. CASE UNCHANGED pending
    BY <1>1, <1>2
  <1>3. ASSUME NEW x \in Events, NEW kind, NEW to, pending' = WithRow(x, kind, to)
        PROVE  pending'[o] = pending[o]
    BY <1>3 DEF WithRow
  <1>4. ASSUME NEW x \in Events, NEW choice, NEW by,
               Resolve(x, choice, by) \/ Reclassify(x, choice, by) \/ Dismiss(x)
        PROVE  /\ new.state = "needs_classification" => row.state = "needs_classification"
               /\ row.state = "dismissed" =>
                     new.state = "dismissed" /\ new.choice = row.choice
    <2>1. CASE x # o
      BY <1>4, <2>1 DEF Resolve, Reclassify, Dismiss, Justified, TypeOK
    <2>2. CASE x = o /\ Resolve(x, choice, by)
      <3>1. new = [row EXCEPT !.state = "classified", !.choice = choice, !.by = by]
        BY <2>2 DEF Resolve, Justified, TypeOK
      <3> QED
        BY <1>1, <2>2, <3>1 DEF Resolve, Rows
    <2>3. CASE x = o /\ Reclassify(x, choice, by)
      <3>1. new = [row EXCEPT !.choice = choice] /\ row.state = "classified"
        BY <2>3 DEF Reclassify, Justified, TypeOK
      <3> QED
        BY <1>1, <3>1 DEF Rows
    <2>4. CASE x = o /\ Dismiss(x)
      <3>1. new = [row EXCEPT !.state = "dismissed", !.by = "user"]
        BY <2>4 DEF Dismiss, Justified, TypeOK
      <3> QED
        BY <1>1, <3>1 DEF Rows
    <2> QED
      BY <1>4, <2>1, <2>2, <2>3, <2>4
  <1>5. CASE Next
    <2>1. CASE Decide
      BY <1>1, <1>4, <2>1 DEF Decide
    <2>2. CASE ~Decide
      <3>1. pending'[o] = pending[o]
        BY <1>3, <1>5, <2>2
        DEF Next, Detect, AddWallet, Classify, StartScan, DetectInternal, DetectBetween,
            DetectExternal, DetectNothing
      <3> QED
        BY <1>1, <3>1
    <2> QED
      BY <2>1, <2>2
  <1> QED
    BY <1>2, <1>5 DEF vars

\* A row is never removed, re-kinded or reopened, and a dismissed row is final.
THEOREM RowsOnlyGoForward == Spec => RowsOnlyAdvance
  <1>1. Justified /\ [Next]_vars =>
           [\A o \in Events : pending[o] # None =>
              LET row == pending[o]
                  new == pending'[o]
              IN
              /\ new # None
              /\ <<new.kind, new.to>> = <<row.kind, row.to>>
              /\ new.state = "needs_classification" => row.state = "needs_classification"
              /\ row.state = "dismissed" =>
                    <<new.state, new.choice>> = <<"dismissed", row.choice>>]_vars
    BY RowAdvances
  <1> QED
    BY <1>1, RowsAreJustified, PTL DEF Spec, RowsOnlyAdvance

-----------------------------------------------------------------------------
(***************************************************************************)
(* Decoding: whatever the wallets' tasks propose, overwrite and lose, every  *)
(* row is booked once, income that asks for no review comes from a confirmed *)
(* address, and transactions that are held stay as they are.                 *)
(*                                                                         *)
(* The argument: what a task holds of a configuration is confirmed only if   *)
(* somebody confirmed it, for confirmations are never taken back from        *)
(* "vouched" and a column pair is written together; and the events a bundle  *)
(* has so far share no row, for each detector takes its rows from the free   *)
(* ones.                                                                   *)
(***************************************************************************)

Found    == Addresses \cup {NoAddress}
Config   == [staking : Found, status : {"unknown", "discovered", "confirmed"},
             nft : Found, complete : BOOLEAN]
EventKinds == {"wrap", "unwrap", "swap-credit-redemption", "reward", "stake", "unstake",
               "mint", "pending", "transfer-in", "transfer-out", "burn"}
EventRecords   == [kind : EventKinds, of : SUBSET RawRows, review : BOOLEAN]
Bookings == (SUBSET EventRecords) \cup {Unclassified}
Books    == UNION {[DOMAIN History[a] -> Bookings] : a \in Accounts}
Jobs     == [stage : {"idle", "between", "open"}, at : Nat,
             events : SUBSET EventRecords, todo : SUBSET Tokens]

WellTyped ==
    /\ config \in [Tokens -> Config]
    /\ view \in [Accounts -> [Tokens -> Config \cup {Unread}]]
    /\ news \in [Accounts -> SUBSET (Tokens \X {"staking", "nft"})]
    /\ job \in [Accounts -> Jobs]
    /\ booked \in [Accounts -> Books] /\ drafts \in [Accounts -> Books]
    /\ \A a \in Accounts : /\ booked[a] \in [DOMAIN History[a] -> Bookings]
                           /\ drafts[a] \in [DOMAIN History[a] -> Bookings]
    /\ done \in [Accounts -> Nat]
    /\ held \in [Deeds -> {"no", "pinned", "lots"}]

\* A task is at one of its wallet's transactions.
InPlace ==
    \A a \in Accounts :
        /\ job[a].stage = "between" => job[a].at # 0
        /\ job[a].stage = "open" => job[a].at \in DOMAIN History[a]

Vouches(c, t, v) == c.status = "confirmed" => <<t, c.staking>> \in v

Confirmed(S, v) ==
    \A e \in S : e.kind = "reward" /\ ~e.review =>
        \A r \in e.of : \E t \in Tokens : Erc20[t] = r.asset /\ <<t, r.from>> \in v

Disjoint(S) == \A e, f \in S : \A r \in e.of \cap f.of : e = f

\* The events made so far of a bundle with these rows.
Sound(S, rows, v) ==
    S \in SUBSET EventRecords /\ Confirmed(S, v) /\ Disjoint(S) /\ Claimed(S) \subseteq rows

Complete(S, rows, v) == Sound(S, rows, v) /\ rows \subseteq Claimed(S)

ConfigsVouched ==
    /\ \A t \in Tokens : Vouches(config[t], t, vouched)
    /\ \A a \in Accounts, t \in Tokens :
          /\ view[a][t] # Unread => Vouches(view[a][t], t, vouched)
          /\ <<t, "staking">> \in news[a] \/ <<t, "nft">> \in news[a] =>
                view[a][t] \in Config /\ Vouches(view[a][t], t, vouched)

BooksSound ==
    \A a \in Accounts :
        /\ job[a].stage = "open" => Sound(job[a].events, Bundle(a).rows, vouched)
        /\ \A n \in DOMAIN History[a] :
              /\ booked[a][n] # Unclassified =>
                    Complete(booked[a][n], History[a][n].rows, vouched)
              /\ drafts[a][n] # Unclassified =>
                    Complete(drafts[a][n], History[a][n].rows, vouched)

HeldUntouched ==
    \A d \in Deeds : held[d] # "no" => drafts[d[1]][d[2]] = Unclassified

DecodedInv == WellTyped /\ InPlace /\ ConfigsVouched /\ BooksSound /\ HeldUntouched

-----------------------------------------------------------------------------
(* EventRecords                                                                   *)

LEMMA BundlesTyped ==
    ASSUME NEW a \in Accounts, NEW n \in DOMAIN History[a]
    PROVE  History[a][n] \in Bundles /\ n \in Nat \ {0}
  <1>1. History[a] \in Seq(Bundles)
    BY HistoryAssumption
  <1> QED
    BY <1>1

LEMMA EventTyped ==
    ASSUME NEW kind \in EventKinds, NEW some \in SUBSET RawRows, NEW review \in BOOLEAN
    PROVE  [kind |-> kind, of |-> some, review |-> review] \in EventRecords
  BY DEF EventRecords

LEMMA EachClaims ==
    ASSUME NEW S, NEW kind, NEW review, NEW new
    PROVE  /\ Claimed(Each(kind, new, review)) = new
           /\ Claimed(S \cup Each(kind, new, review)) = Claimed(S) \cup new
  <1> DEFINE E == Each(kind, new, review)
  <1>1. \A e \in E : \E r \in new : e = [kind |-> kind, of |-> {r}, review |-> review]
    BY DEF Each
  <1>2. \A r \in new : [kind |-> kind, of |-> {r}, review |-> review] \in E
    BY DEF Each
  <1>3. \A e \in E : \A r \in e.of : r \in new
    BY <1>1
  <1>4. \A r \in new : \E e \in E : r \in e.of
    BY <1>2
  <1>5. Claimed(E) = new
    BY <1>3, <1>4 DEF Claimed
  <1>6. Claimed(S \cup E) = Claimed(S) \cup Claimed(E)
    BY DEF Claimed
  <1> QED
    BY <1>5, <1>6

\* One event for each of some free rows.
LEMMA EachSound ==
    ASSUME NEW S, NEW rows, NEW v, NEW kind \in EventKinds, NEW review \in BOOLEAN, NEW new,
           Sound(S, rows, v), new \subseteq rows \ Claimed(S), new \subseteq RawRows,
           kind = "reward" /\ ~review =>
             \A r \in new : \E t \in Tokens : Erc20[t] = r.asset /\ <<t, r.from>> \in v
    PROVE  Sound(S \cup Each(kind, new, review), rows, v)
  <1> DEFINE E == Each(kind, new, review)
  <1>1. \A e \in E : \E r \in new : e = [kind |-> kind, of |-> {r}, review |-> review]
    BY DEF Each
  <1>2. \A r \in new : [kind |-> kind, of |-> {r}, review |-> review] \in E
    BY DEF Each
  <1>3. E \subseteq EventRecords
    BY <1>1 DEF EventRecords
  <1>4. Claimed(E) = new /\ Claimed(S \cup E) = Claimed(S) \cup Claimed(E)
    BY EachClaims DEF E
  <1>6. Confirmed(S \cup E, v)
    BY <1>1 DEF Confirmed, Sound
  <1>7. Disjoint(S \cup E)
    <2> SUFFICES ASSUME NEW e \in S \cup E, NEW f \in S \cup E, NEW r \in e.of \cap f.of
                 PROVE  e = f
      BY DEF Disjoint
    <2>1. CASE e \in S /\ f \in S
      BY <2>1 DEF Sound, Disjoint
    <2>2. CASE e \in E /\ f \in E
      BY <2>2, <1>1
    <2>3. CASE e \in S /\ f \in E
      <3>1. r \in Claimed(S)
        BY <2>3 DEF Claimed
      <3>2. r \in new
        BY <2>3, <1>1
      <3> QED
        BY <3>1, <3>2
    <2>4. CASE f \in S /\ e \in E
      <3>1. r \in Claimed(S)
        BY <2>4 DEF Claimed
      <3>2. r \in new
        BY <2>4, <1>1
      <3> QED
        BY <3>1, <3>2
    <2> QED
      BY <2>1, <2>2, <2>3, <2>4
  <1> HIDE DEF E
  <1>8. S \cup E \in SUBSET EventRecords /\ Claimed(S \cup E) \subseteq rows
    BY <1>3, <1>4 DEF Sound
  <1>9. Sound(S \cup E, rows, v)
    BY <1>6, <1>7, <1>8 DEF Sound
  <1> QED
    BY <1>9 DEF E

LEMMA ParkedSound ==
    ASSUME NEW S, NEW rows, NEW v, NEW new, Sound(S, rows, v),
           new \subseteq rows \ Claimed(S), new \subseteq RawRows
    PROVE  /\ Sound(S \cup Each("pending", new, TRUE), rows, v)
           /\ Claimed(S \cup Each("pending", new, TRUE)) = Claimed(S) \cup new
  <1>1. "pending" \in EventKinds /\ "pending" # "reward"
    BY DEF EventKinds
  <1>2. ASSUME NEW review \in BOOLEAN
        PROVE  /\ Sound(S \cup Each("pending", new, review), rows, v)
               /\ Claimed(S \cup Each("pending", new, review)) = Claimed(S) \cup new
    <2>1. Sound(S \cup Each("pending", new, review), rows, v)
      BY <1>1, <1>2, EachSound, Zenon
    <2>2. Claimed(S \cup Each("pending", new, review)) = Claimed(S) \cup new
      BY EachClaims
    <2> QED
      BY <2>1, <2>2
  <1> QED
    BY <1>2

\* The recognizers' wrap comes first.
LEMMA WrapsSound ==
    ASSUME NEW a \in Accounts, NEW b \in Bundles, NEW v, NEW wrap \in Wraps(a, b)
    PROVE  Sound(wrap, b.rows, v)
  <1> DEFINE free == Free(b, {})
             in   == {r \in free : r.asset = Wlemx /\ r.from = Zero /\ r.to = a}
             out  == {r \in free : r.asset = Wlemx /\ r.from = a /\ r.to = Zero}
  <1>1. free \subseteq b.rows /\ b.rows \subseteq RawRows
    BY DEF Free, Bundles
  <1>2. \/ wrap = {}
        \/ \E kind \in {"wrap", "unwrap"}, some \in SUBSET free :
              wrap = {[kind |-> kind, of |-> some, review |-> FALSE]}
    <2>1. CASE b.to = Wlemx /\ b.call = "deposit" /\ \E r \in b.rows : r.part = "envelope"
      <3>1. wrap = {[kind |-> "wrap", of |-> {r \in {s \in free : s.asset = Wlemx} :
                        r.from = Zero /\ r.to = a}, review |-> FALSE]}
        BY <2>1 DEF Wraps
      <3> QED
        BY <3>1
    <2>2. CASE b.to = Wlemx /\ b.call = "withdraw"
      BY <2>2 DEF Wraps
    <2>3. CASE ~(b.to = Wlemx /\ b.call \in {"deposit", "withdraw"})
      BY <2>3 DEF Wraps
    <2>4. CASE b.to = Wlemx /\ b.call = "deposit" /\ ~ \E r \in b.rows : r.part = "envelope"
      BY <2>4 DEF Wraps
    <2> QED
      BY <2>1, <2>2, <2>3, <2>4
  <1> HIDE DEF free
  <1>3. CASE wrap = {}
    BY <1>3 DEF Sound, Confirmed, Disjoint, Claimed
  <1>4. CASE wrap # {}
    <2>1. PICK kind \in {"wrap", "unwrap"}, some \in SUBSET free :
              wrap = {[kind |-> kind, of |-> some, review |-> FALSE]}
      BY <1>2, <1>4
    <2>2. some \subseteq b.rows /\ some \subseteq RawRows
      BY <1>1
    <2>3. wrap \in SUBSET EventRecords
      <3>1. kind \in EventKinds /\ some \in SUBSET RawRows /\ FALSE \in BOOLEAN
        BY <2>2 DEF EventKinds
      <3>2. [kind |-> kind, of |-> some, review |-> FALSE] \in EventRecords
        BY <3>1, EventTyped, Zenon
      <3> QED
        BY <2>1, <3>2
    <2>4. \A e \in wrap : e.of = some /\ e.kind # "reward"
      BY <2>1
    <2>5. Confirmed(wrap, v)
      BY <2>4 DEF Confirmed
    <2>6. Disjoint(wrap)
      BY <2>1 DEF Disjoint
    <2>7. Claimed(wrap) \subseteq b.rows
      BY <2>2, <2>4 DEF Claimed
    <2> QED
      BY <2>3, <2>5, <2>6, <2>7 DEF Sound
  <1> QED
    BY <1>3, <1>4

LEMMA CreditsSound ==
    ASSUME NEW S, NEW rows \in SUBSET RawRows, NEW v, NEW a \in Accounts,
           NEW free \in SUBSET (rows \ Claimed(S)), NEW priced \in BOOLEAN,
           Sound(S, rows, v)
    PROVE  Sound(S \cup Credits(a, free, priced), rows, v)
  <1> DEFINE out == {r \in free : r.part = "nft" /\ r.asset = Scdt /\ r.from = a}
             in  == {r \in free : r.part = "nft" /\ r.asset # Scdt /\ r.to = a}
  <1>1. CASE Cardinality(in) = Cardinality(out)
    <2>1. Credits(a, free, priced) = Each("swap-credit-redemption", in \cup out, ~priced)
      BY <1>1 DEF Credits
    <2>2. in \cup out \subseteq rows \ Claimed(S) /\ in \cup out \subseteq RawRows
      OBVIOUS
    <2> HIDE DEF in, out
    <2>3. "swap-credit-redemption" \in EventKinds /\ "swap-credit-redemption" # "reward"
          /\ (~priced) \in BOOLEAN
      BY DEF EventKinds
    <2>4. Sound(S \cup Each("swap-credit-redemption", in \cup out, ~priced), rows, v)
      BY <2>2, <2>3, EachSound, Zenon
    <2> QED
      BY <2>1, <2>4
  <1>2. CASE Cardinality(in) # Cardinality(out)
    <2>1. Credits(a, free, priced) = {}
      BY <1>2 DEF Credits
    <2>2. S \cup {} = S
      OBVIOUS
    <2> QED
      BY <2>1, <2>2
  <1> QED
    BY <1>1, <1>2

\* What is proposed is never confirmed.
LEMMA ProposalsVouched ==
    ASSUME NEW c \in Config, NEW t, NEW v, NEW addr \in Addresses, Vouches(c, t, v)
    PROVE  /\ ProposeStaking(c, addr) \in Config /\ ProposeNft(c, addr) \in Config
           /\ Vouches(ProposeStaking(c, addr), t, v) /\ Vouches(ProposeNft(c, addr), t, v)
  BY DEF ProposeStaking, ProposeNft, Config, Found, Vouches

\* Income that asks for no review comes from the confirmed address.
LEMMA IncomeSound ==
    ASSUME NEW S, NEW rows \in SUBSET RawRows, NEW v, NEW t \in Tokens, NEW d \in Config,
           NEW mine \in SUBSET (rows \ Claimed(S)), NEW priced \in BOOLEAN,
           \A r \in mine : r.asset = Erc20[t],
           Sound(S, rows, v), Vouches(d, t, v)
    PROVE  Sound(S \cup Income(d, mine, priced), rows, v)
  <1> DEFINE new == {r \in mine : r.from = d.staking}
             review == d.status # "confirmed" \/ d.complete \/ ~priced
  <1>1. new \subseteq rows \ Claimed(S) /\ new \subseteq RawRows
    OBVIOUS
  <1>2. review \in BOOLEAN
    BY DEF Config
  <1>3. ~review => \A r \in new : Erc20[t] = r.asset /\ <<t, r.from>> \in v
    BY DEF Vouches
  <1>4. "reward" = "reward" /\ ~review =>
          \A r \in new : \E u \in Tokens : Erc20[u] = r.asset /\ <<u, r.from>> \in v
    BY <1>3
  <1> HIDE DEF new, review
  <1>5. "reward" \in EventKinds
    BY DEF EventKinds
  <1>6. Sound(S \cup Each("reward", new, review), rows, v)
    BY <1>1, <1>2, <1>4, <1>5, EachSound, Zenon
  <1> QED
    BY <1>6 DEF new, review, Income

LEMMA RewardsSound ==
    ASSUME NEW S, NEW rows \in SUBSET RawRows, NEW v, NEW t \in Tokens, NEW a \in Accounts,
           NEW c \in Config, NEW free \in SUBSET (rows \ Claimed(S)), NEW priced \in BOOLEAN,
           Sound(S, rows, v), Vouches(c, t, v),
           NEW o \in Rewards(t, a, c, free, priced)
    PROVE  /\ o.cfg \in Config /\ Vouches(o.cfg, t, v)
           /\ Sound(S \cup o.events, rows, v)
  <1> DEFINE mine == {r \in free : /\ r.part = "erc20" /\ r.asset = Erc20[t]
                                   /\ r.to = a /\ r.from \notin Accounts \cup {Zero}}
  <1>0. mine \in SUBSET (rows \ Claimed(S)) /\ \A r \in mine : r.asset = Erc20[t]
    OBVIOUS
  <1>1. CASE c.staking = NoAddress /\ mine # {}
    <2>1. PICK r \in mine :
            o = [cfg |-> ProposeStaking(c, r.from),
                 events |-> Each("pending", {r}, TRUE)
                            \cup Income(ProposeStaking(c, r.from), mine \ {r}, priced)]
      BY <1>1 DEF Rewards
    <2> DEFINE d == ProposeStaking(c, r.from)
               T == S \cup Each("pending", {r}, TRUE)
    <2> HIDE DEF mine
    <2>2. r \in rows /\ r \in RawRows /\ r \notin Claimed(S)
      BY <1>0
    <2>3. r.from \in Addresses
      BY <2>2 DEF RawRows
    <2>4. d \in Config /\ Vouches(d, t, v)
      BY <2>3, ProposalsVouched
    <2>5. Sound(T, rows, v) /\ Claimed(T) = Claimed(S) \cup {r}
      <3> HIDE DEF d, T
      <3>1. {r} \subseteq rows \ Claimed(S) /\ {r} \subseteq RawRows
        BY <2>2
      <3> QED
        BY <3>1, ParkedSound, ZenonT(60) DEF T
    <2> HIDE DEF T
    <2>6. mine \ {r} \in SUBSET (rows \ Claimed(T)) /\ \A s \in mine \ {r} : s.asset = Erc20[t]
      BY <1>0, <2>5
    <2> HIDE DEF d
    <2>7. Sound(T \cup Income(d, mine \ {r}, priced), rows, v)
      BY <2>4, <2>5, <2>6, IncomeSound, Zenon
    <2>8. S \cup o.events = T \cup Income(d, mine \ {r}, priced) /\ o.cfg = d
      BY <2>1 DEF T, d
    <2> QED
      BY <2>4, <2>7, <2>8
  <1>2. CASE ~(c.staking = NoAddress /\ mine # {})
    <2>1. o = [cfg |-> c, events |-> Income(c, mine, priced)]
      BY <1>2 DEF Rewards
    <2> HIDE DEF mine
    <2>2. Sound(S \cup Income(c, mine, priced), rows, v)
      BY <1>0, IncomeSound, Zenon
    <2> QED
      BY <2>1, <2>2
  <1> QED
    BY <1>1, <1>2

LEMMA StakesSound ==
    ASSUME NEW S, NEW rows \in SUBSET RawRows, NEW v, NEW t, NEW a \in Accounts,
           NEW c \in Config, NEW free \in SUBSET (rows \ Claimed(S)),
           Sound(S, rows, v), Vouches(c, t, v), NEW o \in Stakes(a, c, free)
    PROVE  /\ o.cfg \in Config /\ Vouches(o.cfg, t, v)
           /\ Sound(S \cup o.events, rows, v)
  <1> DEFINE out == {r \in free : OfNft(c, r) /\ r.from = a /\ r.to \notin Accounts}
  <1>1. CASE out = {}
    <2>1. o = [cfg |-> c, events |-> {}]
      BY <1>1 DEF Stakes
    <2>2. S \cup {} = S
      OBVIOUS
    <2> QED
      BY <2>1, <2>2
  <1>2. CASE out # {}
    <2>1. PICK r \in out :
            o = [cfg |-> ProposeNft(ProposeStaking(c, r.to), r.asset),
                 events |-> Each("stake",
                     {s \in out : OfNft(ProposeNft(ProposeStaking(c, r.to), r.asset), s)},
                     FALSE)]
      BY <1>2 DEF Stakes
    <2> DEFINE d == ProposeNft(ProposeStaking(c, r.to), r.asset)
               new == {s \in out : OfNft(d, s)}
    <2>2. out \in SUBSET (rows \ Claimed(S)) /\ out \subseteq RawRows
      OBVIOUS
    <2> HIDE DEF out
    <2>3. r.to \in Addresses /\ r.asset \in Addresses
      BY <2>2 DEF RawRows
    <2>4. ProposeStaking(c, r.to) \in Config /\ Vouches(ProposeStaking(c, r.to), t, v)
      BY <2>3, ProposalsVouched
    <2>5. d \in Config /\ Vouches(d, t, v)
      BY <2>3, <2>4, ProposalsVouched
    <2> HIDE DEF d
    <2>6. new \subseteq rows \ Claimed(S) /\ new \subseteq RawRows
      BY <2>2
    <2> HIDE DEF new
    <2>7. Sound(S \cup Each("stake", new, FALSE), rows, v)
      <3>1. "stake" \in EventKinds /\ "stake" # "reward" /\ FALSE \in BOOLEAN
        BY DEF EventKinds
      <3> QED
        BY <2>6, <3>1, EachSound, Zenon
    <2>8. o = [cfg |-> d, events |-> Each("stake", new, FALSE)]
      BY <2>1 DEF d, new
    <2> QED
      BY <2>5, <2>7, <2>8
  <1> QED
    BY <1>1, <1>2

\* The common layer books the rest.
LEMMA CommonComplete ==
    ASSUME NEW S, NEW b \in Bundles, NEW v, NEW a \in Accounts, Sound(S, b.rows, v)
    PROVE  Complete(S \cup Common(a, b, S), b.rows, v)
  <1> DEFINE rest == b.rows \ Claimed(S)
             E == Common(a, b, S)
  <1>0. b.rows \subseteq RawRows
    BY DEF Bundles
  <1>1. \A e \in E : \E r \in rest :
          e = [kind |-> CommonKind(a, r), of |-> {r}, review |-> FALSE]
    BY DEF Common, Each
  <1>2. \A r \in rest : \E e \in E : e.of = {r}
    <2> SUFFICES ASSUME NEW r \in rest PROVE \E e \in E : e.of = {r}
      OBVIOUS
    <2>1. [kind |-> CommonKind(a, r), of |-> {r}, review |-> FALSE]
            \in Each(CommonKind(a, r), {r}, FALSE)
      BY DEF Each
    <2>2. [kind |-> CommonKind(a, r), of |-> {r}, review |-> FALSE] \in E
      BY <2>1 DEF Common
    <2> QED
      BY <2>2
  <1>3. \A r \in rest : CommonKind(a, r) \in {"transfer-in", "transfer-out", "burn"}
    BY DEF CommonKind
  <1> HIDE DEF E
  <1>4. E \in SUBSET EventRecords
    <2> SUFFICES ASSUME NEW e \in E PROVE e \in EventRecords
      OBVIOUS
    <2>1. PICK r \in rest : e = [kind |-> CommonKind(a, r), of |-> {r}, review |-> FALSE]
      BY <1>1
    <2>2. CommonKind(a, r) \in EventKinds
      <3>1. CommonKind(a, r) \in {"transfer-in", "transfer-out", "burn"}
        BY <1>3
      <3> HIDE DEF rest
      <3> QED
        BY <3>1 DEF EventKinds
    <2>3. {r} \in SUBSET RawRows /\ FALSE \in BOOLEAN
      BY <1>0
    <2> QED
      BY <2>1, <2>2, <2>3, EventTyped, Zenon
  <1>5. Claimed(E) = rest
    BY <1>1, <1>2 DEF Claimed
  <1>6. Claimed(S \cup E) = Claimed(S) \cup rest
    BY <1>5 DEF Claimed
  <1>7. Confirmed(S \cup E, v)
    <2>1. \A e \in E : e.kind # "reward"
      BY <1>1, <1>3
    <2> QED
      BY <2>1 DEF Confirmed, Sound
  <1>8. Disjoint(S \cup E)
    <2> SUFFICES ASSUME NEW e \in S \cup E, NEW f \in S \cup E, NEW r \in e.of \cap f.of
                 PROVE  e = f
      BY DEF Disjoint
    <2>1. CASE e \in S /\ f \in S
      BY <2>1 DEF Sound, Disjoint
    <2>2. CASE e \in E /\ f \in E
      <3>1. PICK x \in rest : e = [kind |-> CommonKind(a, x), of |-> {x}, review |-> FALSE]
        BY <2>2, <1>1
      <3>2. PICK y \in rest : f = [kind |-> CommonKind(a, y), of |-> {y}, review |-> FALSE]
        BY <2>2, <1>1
      <3>3. x = y
        BY <3>1, <3>2
      <3> QED
        BY <3>1, <3>2, <3>3
    <2>3. CASE e \in S /\ f \in E
      BY <2>3, <1>1 DEF Claimed
    <2>4. CASE f \in S /\ e \in E
      BY <2>4, <1>1 DEF Claimed
    <2> QED
      BY <2>1, <2>2, <2>3, <2>4
  <1>9. S \cup E \in SUBSET EventRecords /\ Claimed(S \cup E) = b.rows
    BY <1>4, <1>6 DEF Sound
  <1> QED
    BY <1>7, <1>8, <1>9 DEF Complete, Sound, E

\* More confirmations take nothing back.
LEMMA SoundGrows ==
    ASSUME NEW S, NEW rows, NEW v, NEW w, v \subseteq w
    PROVE  /\ Sound(S, rows, v) => Sound(S, rows, w)
           /\ Complete(S, rows, v) => Complete(S, rows, w)
           /\ \A c, t : Vouches(c, t, v) => Vouches(c, t, w)
  BY DEF Complete, Sound, Confirmed, Vouches

\* Any other event for each of some free rows.
LEMMA OtherSound ==
    ASSUME NEW S, NEW rows, NEW v, NEW kind \in EventKinds \ {"reward"},
           NEW review \in BOOLEAN, NEW new, Sound(S, rows, v),
           new \subseteq rows \ Claimed(S), new \subseteq RawRows
    PROVE  Sound(S \cup Each(kind, new, review), rows, v)
  <1>1. kind \in EventKinds /\ kind # "reward" /\ review \in BOOLEAN
    OBVIOUS
  <1> QED
    BY <1>1, EachSound, Zenon

LEMMA ClaimedTogether ==
    ASSUME NEW S, NEW T
    PROVE  Claimed(S \cup T) = Claimed(S) \cup Claimed(T)
  BY DEF Claimed

\* What the four detectors find, one after the other, among what is free.
LEMMA DecodeSound ==
    ASSUME NEW S, NEW b \in Bundles, NEW v, NEW t \in Tokens, NEW a \in Accounts,
           NEW c \in Config, Vouches(c, t, v), Sound(S, b.rows, v),
           NEW reward \in Rewards(t, a, c, Free(b, S), b.priced),
           NEW free2, free2 = Free(b, S) \ Claimed(reward.events),
           NEW stake \in Stakes(a, reward.cfg, free2),
           NEW free3, free3 = free2 \ Claimed(stake.events),
           NEW back, back = Unstakes(a, stake.cfg, free3),
           NEW mint, mint = Mints(a, b, stake.cfg, free3 \ Claimed(back))
    PROVE  /\ stake.cfg \in Config /\ Vouches(stake.cfg, t, v)
           /\ Sound(S \cup reward.events \cup stake.events \cup back \cup mint, b.rows, v)
  <1> DEFINE rows == b.rows
             S2 == S \cup reward.events
             S3 == S2 \cup stake.events
             S4 == S3 \cup back
  <1>1. rows \in SUBSET RawRows /\ b.priced \in BOOLEAN
    BY DEF Bundles
  <1>2. Free(b, S) \in SUBSET (rows \ Claimed(S))
    BY DEF Free
  <1>3. reward.cfg \in Config /\ Vouches(reward.cfg, t, v) /\ Sound(S2, rows, v)
    <2> HIDE DEF rows
    <2> QED
      BY <1>1, <1>2, RewardsSound, Zenon DEF rows
  <1>4. free2 \in SUBSET (rows \ Claimed(S2))
    BY <1>2, ClaimedTogether
  <1> HIDE DEF S2
  <1>5. stake.cfg \in Config /\ Vouches(stake.cfg, t, v) /\ Sound(S3, rows, v)
    BY <1>1, <1>3, <1>4, StakesSound, Zenon
  <1>6. free3 \in SUBSET (rows \ Claimed(S3))
    BY <1>4, ClaimedTogether
  <1> HIDE DEF S3
  <1>7. Sound(S4, rows, v)
    <2> DEFINE out == {r \in free3 : OfNft(stake.cfg, r) /\ r.to = a /\ r.from = stake.cfg.staking}
               no == FALSE
    <2>1. back = Each("unstake", out, no)
      BY DEF Unstakes
    <2>2. out \subseteq rows \ Claimed(S3) /\ out \subseteq RawRows
      BY <1>1, <1>6
    <2>3. "unstake" \in EventKinds \ {"reward"} /\ no \in BOOLEAN
      BY DEF EventKinds
    <2> HIDE DEF out, no
    <2> QED
      BY <1>5, <2>1, <2>2, <2>3, OtherSound, Zenon
  <1>8. free3 \ Claimed(back) \subseteq rows \ Claimed(S4)
    <2>1. Claimed(S4) = Claimed(S3) \cup Claimed(back)
      BY ClaimedTogether
    <2> HIDE DEF S4, rows
    <2> QED
      BY <1>6, <2>1
  <1> HIDE DEF S4
  <1>9. Sound(S4 \cup mint, rows, v)
    <2> DEFINE out == MintedNfts(a, stake.cfg, free3 \ Claimed(back))
               asks == ~b.priced /\ b.to # NoAddress
    <2>1. mint = Each("mint", out, asks)
      BY DEF Mints
    <2>2. out \subseteq rows \ Claimed(S4) /\ out \subseteq RawRows
      BY <1>1, <1>8 DEF MintedNfts
    <2>3. "mint" \in EventKinds \ {"reward"} /\ asks \in BOOLEAN
      BY DEF EventKinds
    <2> HIDE DEF out, asks
    <2> QED
      BY <1>7, <2>1, <2>2, <2>3, OtherSound, Zenon
  <1>10. S4 \cup mint = S \cup reward.events \cup stake.events \cup back \cup mint
    BY DEF S2, S3, S4
  <1> QED
    BY <1>5, <1>9, <1>10

\* The mint-only decoder.
LEMMA MintOnlySound ==
    ASSUME NEW S, NEW b \in Bundles, NEW v, NEW a \in Accounts, NEW c \in Config,
           Sound(S, b.rows, v)
    PROVE  /\ Sound(S \cup Each("mint", MintedNfts(a, c, Free(b, S)), ~b.priced), b.rows, v)
           /\ Sound(S \cup Each("pending", MintedNfts(a, c, Free(b, S)), TRUE), b.rows, v)
  <1> DEFINE out == MintedNfts(a, c, Free(b, S))
             asks == ~b.priced
  <1>1. out \subseteq b.rows \ Claimed(S) /\ out \subseteq RawRows
    BY DEF MintedNfts, Free, Bundles
  <1>2. "mint" \in EventKinds \ {"reward"} /\ asks \in BOOLEAN
    BY DEF EventKinds
  <1> HIDE DEF out
  <1>3. Sound(S \cup Each("pending", out, TRUE), b.rows, v)
    BY <1>1, ParkedSound, Zenon
  <1> HIDE DEF asks
  <1>4. Sound(S \cup Each("mint", out, asks), b.rows, v)
    BY <1>1, <1>2, OtherSound, Zenon
  <1> QED
    BY <1>3, <1>4 DEF out, asks

-----------------------------------------------------------------------------
(* The steps                                                                *)

LEMMA LookVouched ==
    ASSUME DecodedInv, NEW a \in Accounts, NEW t \in Tokens
    PROVE  Look(a, t) \in Config /\ Vouches(Look(a, t), t, vouched)
  <1>1. config[t] \in Config /\ Vouches(config[t], t, vouched)
    BY DEF DecodedInv, WellTyped, ConfigsVouched
  <1>2. view[a][t] \in Config \cup {Unread}
    BY DEF DecodedInv, WellTyped
  <1>3. view[a][t] # Unread => Vouches(view[a][t], t, vouched)
    BY DEF DecodedInv, ConfigsVouched
  <1>4. CASE view[a][t] = Unread
    BY <1>1, <1>4 DEF Look
  <1>5. CASE view[a][t] # Unread
    <2>1. Look(a, t) = view[a][t]
      BY <1>5 DEF Look
    <2> QED
      BY <1>2, <1>3, <1>5, <2>1
  <1> QED
    BY <1>4, <1>5

LEMMA BlankTyped ==
    ASSUME NEW a \in Accounts
    PROVE  Blank(a) \in [DOMAIN History[a] -> Bookings] /\ Blank(a) \in Books
  <1>1. Unclassified \in Bookings
    BY DEF Bookings
  <1> DEFINE Of(c) == [DOMAIN History[c] -> Bookings]
  <1>2. Blank(a) \in Of(a)
    BY <1>1 DEF Blank
  <1> HIDE DEF Of
  <1>3. Blank(a) \in UNION {Of(c) : c \in Accounts}
    BY <1>2
  <1> QED
    BY <1>2, <1>3 DEF Books, Of

\* A configuration, as it is seeded, has nothing to vouch for.
LEMMA InitSound == DecodingInit => DecodedInv
  <1> SUFFICES ASSUME DecodingInit PROVE DecodedInv
    OBVIOUS
  <1> USE DEF DecodingInit
  <1>1. \A t \in Tokens : Seeded(t) \in Config /\ Seeded(t).status # "confirmed"
    BY TokensAssumption DEF Seeded, Config, Found
  <1>2. Asleep \in Jobs /\ Asleep.stage = "idle"
    BY DEF Asleep, Jobs
  <1>3. WellTyped
    BY <1>1, <1>2, BlankTyped DEF WellTyped, NothingRead
  <1>4. InPlace
    BY <1>2 DEF InPlace
  <1>5. ConfigsVouched
    BY <1>1 DEF ConfigsVouched, Vouches, NothingRead
  <1>6. BooksSound
    BY <1>2 DEF BooksSound, Blank
  <1>7. HeldUntouched
    BY DEF HeldUntouched, Deeds, Blank
  <1> QED
    BY <1>3, <1>4, <1>5, <1>6, <1>7 DEF DecodedInv

LEMMA BeginSound ==
    ASSUME DecodedInv, NEW a \in Accounts, Begin(a)
    PROVE  DecodedInv'
  <1> USE DEF Begin, Places
  <1>1. done[a] \in Nat /\ Len(History[a]) \in Nat /\ DOMAIN History[a] = 1..Len(History[a])
    BY HistoryAssumption DEF DecodedInv, WellTyped
  <1>2. job'[a].stage = "between" /\ job'[a].at = done[a] + 1 /\ job'[a] \in Jobs
    <2>1. job'[a] = [stage |-> "between", at |-> done[a] + 1, events |-> {}, todo |-> {}]
      BY DEF DecodedInv, WellTyped, Asleep
    <2> DEFINE next == done[a] + 1
    <2>2. next \in Nat /\ {} \in SUBSET EventRecords /\ {} \in SUBSET Tokens
      BY <1>1
    <2> HIDE DEF next
    <2>3. [stage |-> "between", at |-> next, events |-> {}, todo |-> {}] \in Jobs
      BY <2>2 DEF Jobs
    <2> QED
      BY <2>1, <2>3 DEF next
  <1>3. WellTyped'
    BY <1>2 DEF DecodedInv, WellTyped
  <1>4. InPlace'
    BY <1>1, <1>2 DEF DecodedInv, WellTyped, InPlace
  <1>5. ConfigsVouched' /\ HeldUntouched'
    BY DEF DecodedInv, ConfigsVouched, HeldUntouched
  <1>6. BooksSound'
    BY <1>2 DEF DecodedInv, WellTyped, BooksSound, Bundle
  <1> QED
    BY <1>3, <1>4, <1>5, <1>6 DEF DecodedInv

LEMMA OpenSound ==
    ASSUME DecodedInv, NEW a \in Accounts, Open(a)
    PROVE  DecodedInv'
  <1> DEFINE b == Bundle(a)
  <1>1. PICK wrap \in Wraps(a, b) :
          job' = [job EXCEPT ![a] = [job[a] EXCEPT
              !.stage  = "open",
              !.events = wrap \cup Credits(a, Free(b, wrap), b.priced),
              !.todo   = Dispatched(a, b)]]
    BY DEF Open, Places
  <1>2. UNCHANGED <<config, booked, done, view, news, drafts, held, vouched>>
    BY DEF Open
  <1>3. job[a] \in Jobs /\ job[a].at \in DOMAIN History[a]
    <2>1. job[a].at \in Nat \ {0} /\ job[a].at <= Len(History[a])
      BY DEF DecodedInv, WellTyped, InPlace, Jobs, Open
    <2> QED
      BY <2>1, HistoryAssumption DEF DecodedInv, WellTyped
  <1>4. b \in Bundles
    BY <1>3, BundlesTyped DEF Bundle
  <1> HIDE DEF b
  <1> DEFINE S == wrap \cup Credits(a, Free(b, wrap), b.priced)
  <1>5. Sound(S, b.rows, vouched)
    <2>1. b.rows \in SUBSET RawRows /\ b.priced \in BOOLEAN
      BY <1>4 DEF Bundles
    <2>2. Sound(wrap, b.rows, vouched)
      BY <1>4, WrapsSound
    <2>3. Free(b, wrap) \in SUBSET (b.rows \ Claimed(wrap))
      BY DEF Free
    <2> QED
      BY <2>1, <2>2, <2>3, CreditsSound, Zenon
  <1>6. Dispatched(a, b) \subseteq Tokens
    BY DEF Dispatched
  <1> HIDE DEF S
  <1>7. /\ job' = [job EXCEPT ![a] = [job[a] EXCEPT !.stage = "open", !.events = S,
                                      !.todo = Dispatched(a, b)]]
        /\ S \in SUBSET EventRecords
    BY <1>1, <1>5 DEF S, Sound
  <1>8. job'[a] \in Jobs /\ job'[a].events = S /\ job'[a].at = job[a].at
    BY <1>3, <1>6, <1>7 DEF DecodedInv, WellTyped, Jobs
  <1>9. WellTyped'
    BY <1>2, <1>7, <1>8 DEF DecodedInv, WellTyped
  <1>10. InPlace'
    BY <1>3, <1>7, <1>8 DEF DecodedInv, WellTyped, InPlace, Jobs
  <1>11. ConfigsVouched' /\ HeldUntouched'
    BY <1>2 DEF DecodedInv, ConfigsVouched, HeldUntouched
  <1>12. BooksSound'
    <2>1. Sound(job'[a].events, Bundle(a)'.rows, vouched')
      BY <1>2, <1>5, <1>8 DEF Bundle, b
    <2> QED
      BY <1>2, <1>7, <2>1 DEF DecodedInv, WellTyped, BooksSound, Bundle
  <1> QED
    BY <1>9, <1>10, <1>11, <1>12 DEF DecodedInv

\* What a decoder leaves behind, given that its configuration and its events are sound.
LEMMA DecodedSound ==
    ASSUME DecodedInv, NEW a \in Accounts, NEW t \in Tokens, NEW d \in Config, NEW E,
           Vouches(d, t, vouched), Sound(job[a].events \cup E, Bundle(a).rows, vouched),
           job[a].stage = "open", Decoded(a, t, d, E)
    PROVE  DecodedInv'
  <1>1. /\ job' = [job EXCEPT ![a] = [job[a] EXCEPT !.events = @ \cup E, !.todo = @ \ {t}]]
        /\ view' = [view EXCEPT ![a] = [view[a] EXCEPT ![t] = d]]
        /\ news' = [news EXCEPT ![a] = news[a] \cup Changed(t, Look(a, t), d)]
        /\ UNCHANGED <<config, booked, done, drafts, held, vouched>>
    BY DEF Decoded, Places
  <1>2. job[a] \in Jobs /\ job[a].events \cup E \in SUBSET EventRecords
    BY DEF DecodedInv, WellTyped, Sound
  <1>3. /\ job'[a] \in Jobs /\ job'[a].events = job[a].events \cup E
        /\ job'[a].at = job[a].at /\ job'[a].stage = "open"
    BY <1>1, <1>2 DEF DecodedInv, WellTyped, Jobs
  <1>4. Changed(t, Look(a, t), d) \in SUBSET ({t} \X {"staking", "nft"})
    BY DEF Changed
  <1>5. WellTyped'
    <2>1. view' \in [Accounts -> [Tokens -> Config \cup {Unread}]]
      BY <1>1 DEF DecodedInv, WellTyped
    <2>2. news' \in [Accounts -> SUBSET (Tokens \X {"staking", "nft"})]
      BY <1>1, <1>4 DEF DecodedInv, WellTyped
    <2>3. job' \in [Accounts -> Jobs]
      BY <1>1, <1>3 DEF DecodedInv, WellTyped
    <2> QED
      BY <1>1, <2>1, <2>2, <2>3 DEF DecodedInv, WellTyped
  <1>6. InPlace'
    BY <1>1, <1>3 DEF DecodedInv, WellTyped, InPlace
  <1>7. ConfigsVouched'
    <2> SUFFICES ASSUME NEW c \in Accounts, NEW u \in Tokens
                 PROVE  /\ view'[c][u] # Unread => Vouches(view'[c][u], u, vouched)
                        /\ <<u, "staking">> \in news'[c] \/ <<u, "nft">> \in news'[c] =>
                             view'[c][u] \in Config /\ Vouches(view'[c][u], u, vouched)
      BY <1>1 DEF DecodedInv, ConfigsVouched
    <2>1. CASE c = a /\ u = t
      BY <1>1, <2>1 DEF DecodedInv, WellTyped
    <2>2. CASE ~(c = a /\ u = t)
      <3>1. view'[c][u] = view[c][u]
        BY <1>1, <2>2 DEF DecodedInv, WellTyped
      <3>2. <<u, "staking">> \in news'[c] \/ <<u, "nft">> \in news'[c] =>
              <<u, "staking">> \in news[c] \/ <<u, "nft">> \in news[c]
        BY <1>1, <1>4, <2>2 DEF DecodedInv, WellTyped
      <3> QED
        BY <3>1, <3>2 DEF DecodedInv, ConfigsVouched
    <2> QED
      BY <2>1, <2>2
  <1>8. BooksSound'
    <2>1. Sound(job'[a].events, Bundle(a)'.rows, vouched')
      BY <1>1, <1>3 DEF Bundle
    <2> QED
      BY <1>1, <2>1 DEF DecodedInv, WellTyped, BooksSound, Bundle
  <1>9. HeldUntouched'
    BY <1>1 DEF DecodedInv, HeldUntouched
  <1> QED
    BY <1>5, <1>6, <1>7, <1>8, <1>9 DEF DecodedInv

LEMMA DecodeKeeps ==
    ASSUME DecodedInv, NEW a \in Accounts, NEW t \in Tokens,
           Decode(a, t) \/ DecodeMintOnly(a, t)
    PROVE  DecodedInv'
  <1> DEFINE S == job[a].events
             b == Bundle(a)
             c == Look(a, t)
             free == Free(b, S)
  <1>1. job[a].stage = "open"
    BY DEF Decode, DecodeMintOnly
  <1>2. b \in Bundles
    BY <1>1, BundlesTyped DEF DecodedInv, InPlace, Bundle
  <1>3. Sound(S, b.rows, vouched)
    BY <1>1 DEF DecodedInv, BooksSound
  <1>4. c \in Config /\ Vouches(c, t, vouched)
    BY LookVouched
  <1>5. CASE Decode(a, t)
    <2>1. PICK reward \in Rewards(t, a, c, free, b.priced) :
             LET free2 == free \ Claimed(reward.events)
             IN \E stake \in Stakes(a, reward.cfg, free2) :
                LET free3 == free2 \ Claimed(stake.events)
                    back  == Unstakes(a, stake.cfg, free3)
                IN Decoded(a, t, stake.cfg,
                       reward.events \cup stake.events \cup back
                       \cup Mints(a, b, stake.cfg, free3 \ Claimed(back)))
      BY <1>5 DEF Decode
    <2> DEFINE free2 == free \ Claimed(reward.events)
    <2>2. PICK stake \in Stakes(a, reward.cfg, free2) :
             LET free3 == free2 \ Claimed(stake.events)
                 back  == Unstakes(a, stake.cfg, free3)
             IN Decoded(a, t, stake.cfg,
                    reward.events \cup stake.events \cup back
                    \cup Mints(a, b, stake.cfg, free3 \ Claimed(back)))
      BY <2>1
    <2> DEFINE free3 == free2 \ Claimed(stake.events)
               back  == Unstakes(a, stake.cfg, free3)
               mint  == Mints(a, b, stake.cfg, free3 \ Claimed(back))
               E == reward.events \cup stake.events \cup back \cup mint
    <2>3. Decoded(a, t, stake.cfg, E)
      BY <2>2
    <2> HIDE DEF S, b, c
    <2>4. /\ stake.cfg \in Config /\ Vouches(stake.cfg, t, vouched)
          /\ Sound(S \cup reward.events \cup stake.events \cup back \cup mint, b.rows, vouched)
      BY <1>2, <1>3, <1>4, DecodeSound
    <2>5. S \cup reward.events \cup stake.events \cup back \cup mint = S \cup E
      OBVIOUS
    <2> HIDE DEF E
    <2>6. Sound(S \cup E, b.rows, vouched)
      BY <2>4, <2>5
    <2> QED
      BY <1>1, <2>3, <2>4, <2>6, DecodedSound DEF S, b
  <1>6. CASE DecodeMintOnly(a, t)
    <2> DEFINE mint == Each("mint", MintedNfts(a, c, free), ~b.priced)
               park == Each("pending", MintedNfts(a, c, free), TRUE)
    <2>1. Decoded(a, t, c, mint) \/ Decoded(a, t, c, park)
      BY <1>6 DEF DecodeMintOnly
    <2> HIDE DEF S, b, c
    <2>2. Sound(S \cup mint, b.rows, vouched) /\ Sound(S \cup park, b.rows, vouched)
      BY <1>2, <1>3, <1>4, MintOnlySound
    <2> HIDE DEF mint, park
    <2> QED
      BY <1>1, <1>4, <2>1, <2>2, DecodedSound DEF S, b
  <1> QED
    BY <1>5, <1>6

\* A task that is over takes what it has not committed with it.
LEMMA AbandonSound ==
    ASSUME DecodedInv, NEW a \in Accounts, Abandon(a)
    PROVE  DecodedInv'
  <1>1. /\ job' = [job EXCEPT ![a] = Asleep] /\ view' = [view EXCEPT ![a] = NothingRead]
        /\ news' = [news EXCEPT ![a] = {}] /\ drafts' = [drafts EXCEPT ![a] = Blank(a)]
        /\ UNCHANGED <<config, booked, done, held, vouched>>
    BY DEF Abandon, Places
  <1>2. Asleep \in Jobs /\ Asleep.stage = "idle"
    BY DEF Asleep, Jobs
  <1>3. NothingRead \in [Tokens -> Config \cup {Unread}]
    BY DEF NothingRead
  <1>4. WellTyped'
    BY <1>1, <1>2, <1>3, BlankTyped DEF DecodedInv, WellTyped
  <1>5. InPlace'
    BY <1>1, <1>2 DEF DecodedInv, WellTyped, InPlace
  <1>6. ConfigsVouched'
    BY <1>1 DEF DecodedInv, WellTyped, ConfigsVouched, NothingRead
  <1>7. \A c \in Accounts : \A n \in DOMAIN History[c] :
          drafts'[c][n] = drafts[c][n] \/ drafts'[c][n] = Unclassified
    BY <1>1 DEF DecodedInv, WellTyped, Blank
  <1>8. BooksSound'
    <2>1. \A c \in Accounts : job'[c].stage = "open" => job'[c] = job[c]
      BY <1>1, <1>2 DEF DecodedInv, WellTyped
    <2> QED
      BY <1>1, <1>7, <2>1 DEF DecodedInv, BooksSound, Bundle
  <1>9. HeldUntouched'
    BY <1>1, <1>7 DEF DecodedInv, HeldUntouched, Deeds
  <1> QED
    BY <1>4, <1>5, <1>6, <1>8, <1>9 DEF DecodedInv

LEMMA ReplaceSound ==
    ASSUME DecodedInv, NEW a \in Accounts, Replace(a)
    PROVE  DecodedInv'
  <1> DEFINE n == job[a].at
             b == Bundle(a)
             rows == job[a].events \cup Common(a, b, job[a].events)
  <1>1. /\ job[a].stage = "open" /\ held[<<a, n>>] # "lots"
        /\ job' = [job EXCEPT ![a] = [Asleep EXCEPT !.stage = "between", !.at = n + 1]]
        /\ drafts' = [drafts EXCEPT ![a] = Replaced(a, n, rows)]
        /\ UNCHANGED <<config, booked, done, view, news, held, vouched>>
    BY DEF Replace, Places
  <1>2. n \in DOMAIN History[a] /\ n \in Nat /\ b \in Bundles /\ b = History[a][n]
    BY <1>1, BundlesTyped DEF DecodedInv, InPlace, Bundle
  <1>3. Complete(rows, b.rows, vouched)
    BY <1>1, <1>2, CommonComplete DEF DecodedInv, BooksSound
  <1> HIDE DEF rows, b
  <1>4. rows \in Bookings
    BY <1>3 DEF Complete, Sound, Bookings
  <1>5. \A m \in DOMAIN History[a] :
          \/ Replaced(a, n, rows)[m] = drafts[a][m]
          \/ m = n /\ Replaced(a, n, rows)[m] = rows /\ held[<<a, m>>] # "pinned"
    BY DEF Replaced, DecodedInv, WellTyped
  <1>6. Replaced(a, n, rows) \in [DOMAIN History[a] -> Bookings]
    BY <1>4 DEF Replaced, DecodedInv, WellTyped
  <1>7. Replaced(a, n, rows) \in Books
    <2> DEFINE Of(c) == [DOMAIN History[c] -> Bookings]
    <2>1. Replaced(a, n, rows) \in Of(a)
      BY <1>6
    <2> HIDE DEF Of
    <2>2. Replaced(a, n, rows) \in UNION {Of(c) : c \in Accounts}
      BY <2>1
    <2> QED
      BY <2>2 DEF Books, Of
  <1>8. /\ job'[a] = [stage |-> "between", at |-> n + 1, events |-> {}, todo |-> {}]
        /\ job'[a] \in Jobs
    <2>1. job'[a] = [stage |-> "between", at |-> n + 1, events |-> {}, todo |-> {}]
      BY <1>1 DEF DecodedInv, WellTyped, Asleep
    <2> DEFINE next == n + 1
    <2>2. next \in Nat /\ {} \in SUBSET EventRecords /\ {} \in SUBSET Tokens
      BY <1>2
    <2> HIDE DEF next
    <2>3. [stage |-> "between", at |-> next, events |-> {}, todo |-> {}] \in Jobs
      BY <2>2 DEF Jobs
    <2> QED
      BY <2>1, <2>3 DEF next
  <1>9. \A c \in Accounts : \A m \in DOMAIN History[c] :
          \/ drafts'[c][m] = drafts[c][m]
          \/ c = a /\ m = n /\ drafts'[c][m] = rows /\ held[<<c, m>>] = "no"
    <2> SUFFICES ASSUME NEW c \in Accounts, NEW m \in DOMAIN History[c]
                 PROVE  \/ drafts'[c][m] = drafts[c][m]
                        \/ /\ c = a /\ m = n /\ drafts'[c][m] = rows
                           /\ held[<<c, m>>] = "no"
      OBVIOUS
    <2>1. CASE c = a
      <3>1. drafts'[c] = Replaced(a, n, rows)
        BY <1>1, <2>1 DEF DecodedInv, WellTyped
      <3>2. held[<<c, m>>] \in {"no", "pinned", "lots"}
        BY DEF DecodedInv, WellTyped, Deeds
      <3> QED
        BY <1>1, <1>5, <2>1, <3>1, <3>2
    <2>2. CASE c # a
      BY <1>1, <2>2 DEF DecodedInv, WellTyped
    <2> QED
      BY <2>1, <2>2
  <1>10. WellTyped'
    <2>1. drafts' \in [Accounts -> Books]
      BY <1>1, <1>7 DEF DecodedInv, WellTyped
    <2>2. \A c \in Accounts : drafts'[c] \in [DOMAIN History[c] -> Bookings]
      BY <1>1, <1>6 DEF DecodedInv, WellTyped
    <2>3. job' \in [Accounts -> Jobs]
      BY <1>1, <1>8 DEF DecodedInv, WellTyped
    <2> QED
      BY <1>1, <2>1, <2>2, <2>3 DEF DecodedInv, WellTyped
  <1>11. InPlace'
    BY <1>1, <1>2, <1>8 DEF DecodedInv, WellTyped, InPlace
  <1>12. ConfigsVouched'
    BY <1>1 DEF DecodedInv, ConfigsVouched
  <1>13. BooksSound'
    <2>1. \A c \in Accounts : job'[c].stage = "open" => job'[c] = job[c]
      BY <1>1, <1>8 DEF DecodedInv, WellTyped
    <2>2. \A c \in Accounts : \A m \in DOMAIN History[c] :
            drafts'[c][m] # Unclassified => Complete(drafts'[c][m], History[c][m].rows, vouched)
      BY <1>2, <1>3, <1>9 DEF DecodedInv, BooksSound
    <2> QED
      BY <1>1, <2>1, <2>2 DEF DecodedInv, BooksSound, Bundle
  <1>14. HeldUntouched'
    BY <1>1, <1>9 DEF DecodedInv, HeldUntouched, Deeds
  <1> QED
    BY <1>10, <1>11, <1>12, <1>13, <1>14 DEF DecodedInv

\* A confirmed status is written together with the address it was read with.
LEMMA CommitSound ==
    ASSUME DecodedInv, NEW a \in Accounts, Commit(a)
    PROVE  DecodedInv'
  <1>1. /\ booked' = [booked EXCEPT ![a] = [n \in DOMAIN History[a] |->
                IF drafts[a][n] = Unclassified THEN booked[a][n] ELSE drafts[a][n]]]
        /\ config' = [t \in Tokens |-> Written(a, t)]
        /\ done' = [done EXCEPT ![a] = job[a].at - 1]
        /\ drafts' = [drafts EXCEPT ![a] = Blank(a)]
        /\ news' = [news EXCEPT ![a] = {}]
        /\ \/ UNCHANGED <<job, view>>
           \/ /\ job' = [job EXCEPT ![a] = Asleep]
              /\ view' = [view EXCEPT ![a] = NothingRead]
        /\ UNCHANGED <<held, vouched>> /\ job[a].stage = "between"
    BY DEF Commit, Places, DecodedInv, WellTyped
  <1>2. \A t \in Tokens : Written(a, t) \in Config /\ Vouches(Written(a, t), t, vouched)
    <2> SUFFICES ASSUME NEW t \in Tokens
                 PROVE  Written(a, t) \in Config /\ Vouches(Written(a, t), t, vouched)
      OBVIOUS
    <2>1. config[t] \in Config /\ Vouches(config[t], t, vouched)
      BY DEF DecodedInv, WellTyped, ConfigsVouched
    <2>2. <<t, "staking">> \in news[a] \/ <<t, "nft">> \in news[a] =>
            view[a][t] \in Config /\ Vouches(view[a][t], t, vouched)
      BY DEF DecodedInv, ConfigsVouched
    <2> DEFINE s == IF <<t, "staking">> \in news[a] THEN view[a][t].staking ELSE config[t].staking
               x == IF <<t, "staking">> \in news[a] THEN view[a][t].status ELSE config[t].status
               n == IF <<t, "nft">> \in news[a] THEN view[a][t].nft ELSE config[t].nft
    <2>3. Written(a, t) = [config[t] EXCEPT !.staking = s, !.status = x, !.nft = n]
      BY <2>1 DEF Written, Config
    <2>4. /\ s \in Found /\ n \in Found /\ x \in {"unknown", "discovered", "confirmed"}
          /\ x = "confirmed" => <<t, s>> \in vouched
      <3>1. CASE <<t, "staking">> \in news[a]
        BY <2>1, <2>2, <3>1 DEF Config, Vouches
      <3>2. CASE <<t, "staking">> \notin news[a]
        BY <2>1, <2>2, <3>2 DEF Config, Vouches
      <3> QED
        BY <3>1, <3>2
    <2> HIDE DEF s, x, n
    <2>5. Written(a, t) = [staking |-> s, status |-> x, nft |-> n, complete |-> config[t].complete]
      BY <2>1, <2>3 DEF Config
    <2> QED
      BY <2>1, <2>4, <2>5 DEF Config, Vouches
  <1>3. \A c \in Accounts : \A n \in DOMAIN History[c] :
          /\ booked'[c][n] = booked[c][n] \/ booked'[c][n] = drafts[c][n]
          /\ drafts[c][n] = Unclassified => booked'[c][n] = booked[c][n]
          /\ drafts'[c][n] = drafts[c][n] \/ drafts'[c][n] = Unclassified
    BY <1>1 DEF DecodedInv, WellTyped, Blank
  <1>4. Asleep \in Jobs /\ Asleep.stage = "idle"
    BY DEF Asleep, Jobs
  <1>5. WellTyped'
    <2>1. config' \in [Tokens -> Config]
      BY <1>1, <1>2
    <2>2. view' \in [Accounts -> [Tokens -> Config \cup {Unread}]]
      <3>1. NothingRead \in [Tokens -> Config \cup {Unread}]
        BY DEF NothingRead
      <3> QED
        BY <1>1, <3>1 DEF DecodedInv, WellTyped
    <2>3. job' \in [Accounts -> Jobs]
      BY <1>1, <1>4 DEF DecodedInv, WellTyped
    <2>4. done' \in [Accounts -> Nat]
      <3>1. job[a].at \in Nat /\ job[a].at # 0
        BY <1>1 DEF DecodedInv, WellTyped, InPlace, Jobs
      <3>2. job[a].at - 1 \in Nat
        BY <3>1
      <3> QED
        BY <1>1, <3>2 DEF DecodedInv, WellTyped
    <2> DEFINE new == [n \in DOMAIN History[a] |->
                  IF drafts[a][n] = Unclassified THEN booked[a][n] ELSE drafts[a][n]]
    <2>5. new \in [DOMAIN History[a] -> Bookings] /\ new \in Books
      <3> DEFINE Of(c) == [DOMAIN History[c] -> Bookings]
      <3>1. \A n \in DOMAIN History[a] : booked[a][n] \in Bookings /\ drafts[a][n] \in Bookings
        BY DEF DecodedInv, WellTyped
      <3>2. new \in Of(a)
        BY <3>1
      <3> HIDE DEF Of, new
      <3>3. new \in UNION {Of(c) : c \in Accounts}
        BY <3>2
      <3> QED
        BY <3>2, <3>3 DEF Books, Of
    <2> HIDE DEF new
    <2>6. booked' = [booked EXCEPT ![a] = new]
      BY <1>1 DEF new
    <2>7. booked' \in [Accounts -> Books] /\ drafts' \in [Accounts -> Books]
      <3>1. booked \in [Accounts -> Books] /\ drafts \in [Accounts -> Books]
        BY DEF DecodedInv, WellTyped
      <3>2. Blank(a) \in Books /\ drafts' = [drafts EXCEPT ![a] = Blank(a)]
        BY <1>1, BlankTyped
      <3> QED
        BY <2>5, <2>6, <3>1, <3>2
    <2>8. \A c \in Accounts : /\ booked'[c] \in [DOMAIN History[c] -> Bookings]
                              /\ drafts'[c] \in [DOMAIN History[c] -> Bookings]
      BY <1>1, <2>5, <2>6, BlankTyped DEF DecodedInv, WellTyped
    <2>9. news' \in [Accounts -> SUBSET (Tokens \X {"staking", "nft"})]
      BY <1>1 DEF DecodedInv, WellTyped
    <2> QED
      BY <1>1, <2>1, <2>2, <2>3, <2>4, <2>7, <2>8, <2>9 DEF DecodedInv, WellTyped
  <1>6. InPlace'
    BY <1>1, <1>4 DEF DecodedInv, WellTyped, InPlace
  <1>7. ConfigsVouched'
    BY <1>1, <1>2 DEF DecodedInv, WellTyped, ConfigsVouched, NothingRead
  <1>8. BooksSound'
    <2>1. \A c \in Accounts : job'[c].stage = "open" => job'[c] = job[c]
      <3>1. CASE job' = job
        BY <3>1
      <3>2. CASE job' = [job EXCEPT ![a] = Asleep]
        BY <1>4, <3>2 DEF DecodedInv, WellTyped
      <3> QED
        BY <1>1, <3>1, <3>2
    <2>2. \A c \in Accounts :
             job'[c].stage = "open" => Sound(job'[c].events, Bundle(c)'.rows, vouched')
      BY <1>1, <2>1 DEF DecodedInv, BooksSound, Bundle
    <2>3. \A c \in Accounts : \A n \in DOMAIN History[c] :
             /\ booked'[c][n] # Unclassified =>
                   Complete(booked'[c][n], History[c][n].rows, vouched)
             /\ drafts'[c][n] # Unclassified =>
                   Complete(drafts'[c][n], History[c][n].rows, vouched)
      BY <1>3 DEF DecodedInv, BooksSound
    <2>4. vouched' = vouched
      BY <1>1
    <2> QED
      BY <2>2, <2>3, <2>4 DEF BooksSound
  <1>9. HeldUntouched'
    <2>1. \A d \in Deeds : d[1] \in Accounts /\ d[2] \in DOMAIN History[d[1]]
      BY DEF Deeds
    <2>2. held' = held
      BY <1>1
    <2> QED
      BY <1>3, <2>1, <2>2 DEF DecodedInv, HeldUntouched
  <1> QED
    BY <1>5, <1>6, <1>7, <1>8, <1>9 DEF DecodedInv

LEMMA ClassifyFromSound ==
    ASSUME DecodedInv, NEW a \in Accounts, NEW n \in 0..Len(History[a]), ClassifyFrom(a, n)
    PROVE  DecodedInv'
  <1>1. n \in Nat
    BY HistoryAssumption
  <1> QED
    BY <1>1 DEF ClassifyFrom, DecodedInv, WellTyped, InPlace, ConfigsVouched, BooksSound,
                HeldUntouched, Bundle

LEMMA VouchSound ==
    ASSUME DecodedInv, NEW t \in Tokens, Vouch(t)
    PROVE  DecodedInv'
  <1>1. /\ config' = [config EXCEPT ![t].status = "confirmed"]
        /\ vouched' = vouched \cup {<<t, config[t].staking>>}
        /\ UNCHANGED <<booked, done, job, view, news, drafts, held>>
    BY DEF Vouch
  <1>2. vouched \subseteq vouched'
    BY <1>1
  <1>3. WellTyped'
    <2>1. config \in [Tokens -> Config]
      BY DEF DecodedInv, WellTyped
    <2>2. config[t] \in Config
      BY <2>1
    <2>3. [config[t] EXCEPT !.status = "confirmed"] \in Config
      BY <2>2 DEF Config
    <2>4. config' = [config EXCEPT ![t] = [config[t] EXCEPT !.status = "confirmed"]]
      BY <1>1
    <2>5. config' \in [Tokens -> Config]
      BY <2>1, <2>3, <2>4
    <2> QED
      BY <1>1, <2>5 DEF DecodedInv, WellTyped
  <1>4. InPlace' /\ HeldUntouched'
    BY <1>1 DEF DecodedInv, InPlace, HeldUntouched
  <1>5. ConfigsVouched'
    <2>1. \A u \in Tokens : Vouches(config'[u], u, vouched')
      BY <1>1 DEF DecodedInv, WellTyped, Config, ConfigsVouched, Vouches
    <2>2. \A c, u : Vouches(c, u, vouched) => Vouches(c, u, vouched')
      BY <1>2, SoundGrows
    <2> QED
      BY <1>1, <2>1, <2>2 DEF DecodedInv, ConfigsVouched
  <1>6. BooksSound'
    <2> DEFINE w == vouched'
    <2>1. vouched \subseteq w
      BY <1>2
    <2> HIDE DEF w
    <2>2. ASSUME NEW S, NEW rows, Sound(S, rows, vouched) PROVE Sound(S, rows, w)
      BY <2>1, <2>2, SoundGrows, Zenon
    <2>3. ASSUME NEW S, NEW rows, Complete(S, rows, vouched) PROVE Complete(S, rows, w)
      BY <2>1, <2>3, SoundGrows, Zenon
    <2>4. \A c \in Accounts :
             /\ job[c].stage = "open" => Sound(job[c].events, Bundle(c).rows, w)
             /\ \A n \in DOMAIN History[c] :
                   /\ booked[c][n] # Unclassified =>
                         Complete(booked[c][n], History[c][n].rows, w)
                   /\ drafts[c][n] # Unclassified =>
                         Complete(drafts[c][n], History[c][n].rows, w)
      BY <2>2, <2>3 DEF DecodedInv, BooksSound
    <2> QED
      BY <1>1, <2>4 DEF BooksSound, Bundle, w
  <1> QED
    BY <1>3, <1>4, <1>5, <1>6 DEF DecodedInv

LEMMA AroundSound ==
    ASSUME DecodedInv,
           \/ \E t \in Tokens : CompleteDistribution(t)
           \/ \E d \in Deeds, how \in {"pinned", "lots"} : Hold(d, how)
    PROVE  DecodedInv'
  <1>1. ASSUME NEW t \in Tokens, CompleteDistribution(t) PROVE DecodedInv'
    <2>1. /\ config' = [config EXCEPT ![t].complete = TRUE]
          /\ UNCHANGED <<booked, done, job, view, news, drafts, held, vouched>>
      BY <1>1 DEF CompleteDistribution
    <2> DEFINE new == [config[t] EXCEPT !.complete = TRUE]
    <2>2. /\ new \in Config /\ config \in [Tokens -> Config]
          /\ new.status = config[t].status /\ new.staking = config[t].staking
      BY DEF DecodedInv, WellTyped, Config
    <2>3. WellTyped'
      <3>1. config' = [config EXCEPT ![t] = new]
        BY <2>1
      <3> HIDE DEF new
      <3>2. config' \in [Tokens -> Config]
        BY <2>2, <3>1
      <3> QED
        BY <2>1, <3>2 DEF DecodedInv, WellTyped
    <2>5. \A u \in Tokens : /\ config'[u].status = config[u].status
                            /\ config'[u].staking = config[u].staking
      BY <2>1, <2>2
    <2>4. ConfigsVouched'
      BY <2>1, <2>5 DEF DecodedInv, ConfigsVouched, Vouches
    <2> QED
      BY <2>1, <2>3, <2>4 DEF DecodedInv, InPlace, HeldUntouched, BooksSound, Bundle
  <1>2. ASSUME NEW d \in Deeds, NEW how \in {"pinned", "lots"}, Hold(d, how) PROVE DecodedInv'
    <2>1. /\ held' = [held EXCEPT ![d] = how] /\ drafts[d[1]][d[2]] = Unclassified
          /\ UNCHANGED <<config, booked, done, job, view, news, drafts, vouched>>
      BY <1>2 DEF Hold
    <2>2. WellTyped' /\ HeldUntouched'
      BY <2>1 DEF DecodedInv, WellTyped, HeldUntouched
    <2> QED
      BY <2>1, <2>2 DEF DecodedInv, InPlace, ConfigsVouched, BooksSound, Bundle
  <1> QED
    BY <1>1, <1>2

LEMMA NextSound == DecodedInv /\ [DecodingNext]_decodingVars => DecodedInv'
  <1> SUFFICES ASSUME DecodedInv, [DecodingNext]_decodingVars PROVE DecodedInv'
    OBVIOUS
  <1>1. CASE UNCHANGED decodingVars
    BY <1>1 DEF decodingVars, DecodedInv, WellTyped, InPlace, ConfigsVouched, BooksSound,
                HeldUntouched, Bundle
  <1>2. ASSUME NEW a \in Accounts, TaskSteps(a) PROVE DecodedInv'
    <2>1. CASE Begin(a)
      BY <2>1, BeginSound
    <2>2. CASE NothingToClassify(a)
      BY <2>2, <1>1 DEF NothingToClassify
    <2>3. CASE Open(a)
      BY <2>3, OpenSound
    <2>4. CASE Replace(a)
      BY <2>4, ReplaceSound
    <2>5. CASE RefuseReplace(a) \/ Fails(a)
      BY <2>5, AbandonSound DEF RefuseReplace, Fails
    <2>6. CASE Commit(a)
      BY <2>6, CommitSound
    <2>7. CASE \E t \in Tokens : Decode(a, t) \/ DecodeMintOnly(a, t)
      BY <2>7, DecodeKeeps
    <2>8. CASE \E n \in 0..Len(History[a]) : ClassifyFrom(a, n)
      BY <2>8, ClassifyFromSound
    <2> QED
      BY <1>2, <2>1, <2>2, <2>3, <2>4, <2>5, <2>6, <2>7, <2>8 DEF TaskSteps
  <1>3. CASE \E t \in Tokens : Vouch(t)
    BY <1>3, VouchSound
  <1>4. CASE \/ \E t \in Tokens : CompleteDistribution(t)
             \/ \E d \in Deeds, how \in {"pinned", "lots"} : Hold(d, how)
    BY <1>4, AroundSound
  <1> QED
    BY <1>1, <1>2, <1>3, <1>4 DEF DecodingNext

-----------------------------------------------------------------------------
(* The theorems                                                             *)

\* Whatever the tasks and the people around them do, the books are sound.
THEOREM DecodingSound == DecodingSpec => []DecodedInv
  BY InitSound, NextSound, PTL DEF DecodingSpec

\* Every row of a classified transaction is booked by exactly one event.
THEOREM RowsAreBookedOnce == DecodingSpec => []RowsBookedOnce
  <1>1. DecodedInv => RowsBookedOnce
    BY DEF DecodedInv, BooksSound, RowsBookedOnce, Complete, Sound, Disjoint, Claimed
  <1> QED
    BY <1>1, DecodingSound, PTL

\* A reward that asks for no review came from a confirmed address.
THEOREM IncomeStaysConfirmed == DecodingSpec => []IncomeIsConfirmed
  <1>1. DecodedInv => IncomeIsConfirmed
    BY DEF DecodedInv, BooksSound, IncomeIsConfirmed, Complete, Sound, Confirmed
  <1> QED
    BY <1>1, DecodingSound, PTL

\* No step changes the rows of a transaction that is held.
THEOREM HeldStand == DecodingSpec => HeldRowsStand
  <1> DEFINE Stand == \A d \in Deeds : held[d] # "no" => booked'[d[1]][d[2]] = booked[d[1]][d[2]]
  <1>1. DecodedInv /\ [DecodingNext]_decodingVars => [Stand]_decodingVars
    <2> SUFFICES ASSUME DecodedInv, DecodingNext PROVE Stand
      OBVIOUS
    <2>1. ASSUME NEW a \in Accounts, Commit(a) PROVE Stand
      BY <2>1 DEF Commit, DecodedInv, WellTyped, HeldUntouched, Deeds
    <2>2. CASE ~ \E a \in Accounts : Commit(a)
      <3>1. ASSUME NEW a \in Accounts, TaskSteps(a) PROVE UNCHANGED booked
        <4>1. ASSUME NEW t \in Tokens, Decode(a, t) \/ DecodeMintOnly(a, t)
              PROVE  UNCHANGED booked
          BY <4>1 DEF Decode, DecodeMintOnly, Decoded
        <4> QED
          BY <2>2, <3>1, <4>1 DEF TaskSteps, Begin, NothingToClassify, Open, Replace,
             RefuseReplace, Fails, Abandon, ClassifyFrom, decodingVars
      <3>2. CASE ~ \E a \in Accounts : TaskSteps(a)
        BY <3>2 DEF DecodingNext, Vouch, CompleteDistribution, Hold
      <3> QED
        BY <3>1, <3>2
    <2> QED
      BY <2>1, <2>2
  <1> QED
    BY <1>1, DecodingSound, PTL DEF DecodingSpec, HeldRowsStand
=============================================================================

---------------------------- MODULE SignalsProofs ----------------------------
(***************************************************************************)
(* What every writer of the signal columns may be relied on to keep.        *)
(***************************************************************************)
EXTENDS Signals, TLAPS

\* The signal columns of every CT that is there are typed.
SignalsTyped == ct \in [Events -> CTs \cup {None}]

\* Writers keep the signal columns typed and take no CT away.
LEMMA SignalKeepsCTs ==
    ASSUME SignalsTyped, Signal
    PROVE  SignalsTyped' /\ Arrived \subseteq Arrived'
  <1>1. None \notin CTs /\ None \notin Events
    BY NoneAssumption
  <1>2. ASSUME ct' = [e \in Events |-> ct'[e]],
               \A e \in Events : ct'[e] = ct[e] \/ ct'[e] \in CTs
        PROVE  SignalsTyped' /\ Arrived \subseteq Arrived'
    BY <1>1, <1>2 DEF SignalsTyped, Arrived
  <1>3. CASE \E e \in Events : Arrives(e)
    <2>1. PICK f \in Events : Arrives(f)
      BY <1>3
    <2>2. [class |-> FirstClass[f], res |-> None, src |-> None] \in CTs
      BY SignalsAssumption DEF CTs
    <2> QED
      BY <1>1, <2>1, <2>2 DEF Arrives, Arrived, SignalsTyped
  <1>4. ASSUME NEW o \in Events \cup {None}, NEW i \in Events \cup {None},
               Confirms(o, i) \/ Rejects(o, i)
        PROVE  SignalsTyped' /\ Arrived \subseteq Arrived'
    <2>1. Linked(o, i)
      BY <1>4 DEF Confirms, Rejects
    <2>2. ct' = [e \in Events |-> ct'[e]]
      BY <1>4 DEF Confirms, Rejects
    <2>3. ASSUME NEW e \in Events
          PROVE  ct'[e] = ct[e] \/ ct'[e] \in CTs
      <3>1. e \in {o, i} => ct[e] \in CTs
        BY <1>1, <2>1 DEF Linked, Arrived, SignalsTyped
      <3>2. CASE Confirms(o, i)
        BY <3>1, <3>2 DEF Confirms, Classes, CTs
      <3>3. CASE Rejects(o, i)
        BY <3>1, <3>3 DEF Rejects, Classes, CTs
      <3> QED
        BY <1>4, <3>2, <3>3
    <2> QED
      BY <1>2, <2>2, <2>3
  <1>5. ASSUME NEW o \in Arrived, NEW i \in InflowsOf[o] \cup {None},
               NEW res \in ResolutionsFor(o, i), Resolves(o, i, res)
        PROVE  SignalsTyped' /\ Arrived \subseteq Arrived'
    <2> DEFINE Stamp(e) == CASE e = o -> [ct[e] EXCEPT !.res = res]
                             [] e = i -> [ct[e] EXCEPT !.res = res, !.src = o]
                             [] OTHER -> ct[e]
    <2> o \in Events /\ res \in Resolutions
      BY DEF Arrived, ResolutionsFor, SoloResolutions, PairResolutions, Resolutions,
             RelocateResolutions, OutflowResolutions
    <2>1. ct' = [e \in Events |-> Stamp(e)]
      BY <1>5 DEF Resolves, Stamped
    <2>2. ASSUME NEW e \in Events
          PROVE  Stamp(e) = ct[e] \/ Stamp(e) \in CTs
      <3>1. e \in {o, i} => ct[e] \in CTs
        BY <1>1, <1>5 DEF Resolves, Arrived, SignalsTyped
      <3>2. CASE e = o
        BY <3>1, <3>2 DEF CTs
      <3>3. CASE e # o /\ e = i
        BY <3>1, <3>3 DEF CTs
      <3>4. CASE e # o /\ e # i
        BY <3>4
      <3> QED
        BY <3>2, <3>3, <3>4
    <2> HIDE DEF Stamp
    <2>3. ct' = [e \in Events |-> ct'[e]]
      BY <2>1
    <2>4. \A e \in Events : ct'[e] = ct[e] \/ ct'[e] \in CTs
      BY <2>1, <2>2
    <2> QED
      BY <1>2, <2>3, <2>4
  <1>6. ASSUME NEW link \in BridgeLinks
        PROVE  link[1] \in Events \cup {None} /\ link[2] \in Events \cup {None}
    BY SignalsAssumption
  <1> QED
    BY <1>3, <1>4, <1>5, <1>6 DEF Signal

\* The signal columns are typed under every behaviour of the writers.
THEOREM SignalsAreTyped == SignalSpec => []SignalsTyped
  <1>1. SignalInit => SignalsTyped
    BY DEF SignalInit, SignalsTyped
  <1>2. SignalsTyped /\ [Signal]_ct => SignalsTyped'
    <2>1. CASE Signal
      BY <2>1, SignalKeepsCTs
    <2>2. CASE UNCHANGED ct
      BY <2>2 DEF SignalsTyped
    <2> QED
      BY <2>1, <2>2
  <1> QED
    BY <1>1, <1>2, PTL DEF SignalSpec
=============================================================================

----------------------------- MODULE CrossEntity -----------------------------
(***************************************************************************)
(* domain/cross_entity: the detection pass over unresolved outflows and the *)
(* resolve service behind pending_classifications.                          *)
(*                                                                         *)
(* The pass is one transaction of a Celery task.  It loads the outflows     *)
(* without a resolution and the user's wallets once, then looks at each      *)
(* outflow in turn, while other sessions go on committing: what it loaded    *)
(* may be stale when it comes to it.  Its writes show at once: only the      *)
(* commit publishes them, but no later turn of the pass reads them, so an   *)
(* answer that must wait for the commit may as well come at once.  The      *)
(* resolve service's calls are serial; each is one transaction.             *)
(*                                                                         *)
(* An outflow has at most one pending row (logical_transfer_key is its      *)
(* transaction, wallet and event_seq): the row is filed under the outflow.   *)
(* No code moves a row to the "applied" state.                              *)
(***************************************************************************)
EXTENDS Signals

CONSTANT Tokenless      \* the CTs without a token_id

Kinds == {"cross-entity", "external-outflow"}

\* resolve.py's ALLOWED.
Allowed(kind) ==
    IF kind = "cross-entity"
    THEN {"capital-contribution", "sale", "gift", "loan", "reassignment"}
    ELSE {"sale", "gift", "payment"}
Choices == UNION {Allowed(kind) : kind \in Kinds}

\* _OUTFLOW_RESOLUTION.
OutflowResolution(kind, choice) ==
    CASE choice = "capital-contribution" -> "relocate-contribution"
      [] choice = "reassignment" -> "relocate-reassignment"
      [] choice = "loan" -> "no-op-loan"
      [] choice = "gift" /\ kind = "cross-entity" -> "relocate-gift"
      [] choice = "gift" /\ kind # "cross-entity" -> "gift-out"
      [] choice = "sale" /\ kind = "cross-entity" -> "disposal-related-party"
      [] OTHER -> "disposal"

StampsInflow(kind, choice) ==
    kind = "cross-entity" /\ choice \in {"capital-contribution", "reassignment", "gift"}

Rows == [kind : Kinds, to : Wallets \cup {None},
         state : {"needs_classification", "classified", "dismissed"},
         choice : Choices \cup {None}, by : {"user", "rule", None}]

ASSUME TokenlessAssumption == Tokenless \subseteq Events
ASSUME RowsAssumption == None \notin Rows \cup Wallets \cup Choices \cup {"user", "rule"}

VARIABLES
    pending,    \* pending_classifications: outflow |-> row, or None
    known,      \* the user's active wallets
    scan        \* the running pass: the wallets it loaded, the outflows it has to look at

vars == <<ct, pending, known, scan>>

NoScan == [wallets |-> {}, outflows |-> {}]

-----------------------------------------------------------------------------
(* Wallets and their events come in                                         *)

AddWallet(w) ==
    /\ known' = known \cup {w}
    /\ UNCHANGED <<ct, pending, scan>>

Classify(e) ==
    /\ WalletOf[e] \in known
    /\ Arrives(e)
    /\ UNCHANGED <<pending, known, scan>>

-----------------------------------------------------------------------------
(* Detection                                                                *)

Unresolved == {o \in Arrived : /\ WalletOf[o] \in known
                               /\ ct[o].class = "transfer-out"
                               /\ ct[o].res = None}

StartScan ==
    /\ scan = NoScan /\ Unresolved # {}
    /\ scan' = [wallets |-> known, outflows |-> Unresolved]
    /\ UNCHANGED <<ct, pending, known>>

Scanned(o) ==
    /\ o \in scan.outflows
    /\ scan' = IF scan.outflows = {o} THEN NoScan
               ELSE [scan EXCEPT !.outflows = @ \ {o}]
    /\ UNCHANGED known

\* _find_own_inflow; its LIMIT 1 has no order, so any of these may be the one.
OwnInflows(o, wallets) ==
    {i \in InflowsOf[o] \cap Arrived : WalletOf[i] \in wallets /\ ct[i].class \in Inflows}

Row(kind, to) == [kind |-> kind, to |-> to, state |-> "needs_classification",
                  choice |-> None, by |-> None]

\* Slip: a row that is there is opened again.
MutWithRow(o, kind, to) ==
    IF o \notin Tokenless THEN [pending EXCEPT ![o] = Row(kind, to)] ELSE pending

\* _write_pending_if_absent never reopens a row.
WithRow(o, kind, to) ==
    IF pending[o] = None /\ o \notin Tokenless
    THEN [pending EXCEPT ![o] = Row(kind, to)] ELSE pending

\* Slip: the owner of the receiving wallet is not looked up.
MutDetectInternal(o, i) ==
    /\ Scanned(o)
    /\ i \in OwnInflows(o, scan.wallets)
    /\ OwnerOf(o, o) # None
    /\ ct' = Stamped(o, i, "relocate-internal")
    /\ UNCHANGED pending

\* Branch 1: one entity owns both ends.
DetectInternal(o, i) ==
    /\ Scanned(o)
    /\ i \in OwnInflows(o, scan.wallets)
    /\ OwnerOf(o, o) # None /\ OwnerOf(i, o) = OwnerOf(o, o)
    /\ ct' = Stamped(o, i, "relocate-internal")
    /\ UNCHANGED pending

\* Branch 2: two entities.
DetectBetween(o, i) ==
    /\ Scanned(o)
    /\ i \in OwnInflows(o, scan.wallets)
    /\ OwnerOf(o, o) # None /\ OwnerOf(i, o) \notin {OwnerOf(o, o), None}
    /\ pending' = WithRow(o, "cross-entity", WalletOf[i])
    /\ UNCHANGED ct

\* Branch 3: no own inflow, and the raw transfer does not go to an own address; the
\* raw row is again any one of the transaction's.
DetectExternal(o) ==
    /\ Scanned(o)
    /\ OwnInflows(o, scan.wallets) = {}
    /\ InflowsOf[o] = {} \/ \E i \in InflowsOf[o] : WalletOf[i] \notin scan.wallets
    /\ OwnerOf(o, o) # None
    /\ pending' = WithRow(o, "external-outflow", None)
    /\ UNCHANGED ct

\* Skipped: an end no assignment covers, or an own wallet not yet classified.
DetectNothing(o) ==
    /\ Scanned(o)
    /\ \/ \E i \in OwnInflows(o, scan.wallets) : None \in {OwnerOf(o, o), OwnerOf(i, o)}
       \/ /\ OwnInflows(o, scan.wallets) = {}
          /\ \/ OwnerOf(o, o) = None
             \/ \E i \in InflowsOf[o] : WalletOf[i] \in scan.wallets
    /\ UNCHANGED <<ct, pending>>

-----------------------------------------------------------------------------
(* The resolve service                                                      *)

\* Slip: the inflow is left alone.
MutStampLegs(o, choice) ==
    ct' = Stamped(o, None, OutflowResolution(pending[o].kind, choice))

\* _stamp_legs; the inflow is any match in the row's to_wallet.
StampLegs(o, choice) ==
    LET row == pending[o]
        located == IF StampsInflow(row.kind, choice) THEN OwnInflows(o, {row.to}) ELSE {}
    IN
    \E i \in located \cup {None} :
        /\ i = None => located = {}
        /\ ct' = Stamped(o, i, OutflowResolution(row.kind, choice))

Resolve(o, choice, by) ==
    LET row == pending[o] IN
    /\ row # None /\ row.state # "dismissed"
    /\ choice \in Allowed(row.kind)
    /\ ~(row.choice = choice /\ row.state = "classified")
    /\ pending' = [pending EXCEPT ![o] =
                     [row EXCEPT !.state = "classified", !.choice = choice, !.by = by]]
    /\ StampLegs(o, choice)
    /\ UNCHANGED <<known, scan>>

\* Slip: the new choice is never stamped.
MutReclassify(o, choice, actor) ==
    /\ pending[o] # None /\ pending[o].state = "classified"
    /\ choice \in Allowed(pending[o].kind)
    /\ pending' = [pending EXCEPT ![o].choice = choice]
    /\ UNCHANGED <<ct, known, scan>>

\* The row keeps resolved_by; automation may not touch what a user resolved.
Reclassify(o, choice, actor) ==
    LET row == pending[o] IN
    /\ row # None /\ row.state = "classified"
    /\ choice \in Allowed(row.kind)
    /\ ~(row.by = "user" /\ actor = "rule")
    /\ pending' = [pending EXCEPT ![o].choice = choice]
    /\ StampLegs(o, choice)
    /\ UNCHANGED <<known, scan>>

\* From any state, and the stamps stay.
Dismiss(o) ==
    /\ pending[o] # None
    /\ pending' = [pending EXCEPT ![o].state = "dismissed", ![o].by = "user"]
    /\ UNCHANGED <<ct, known, scan>>

-----------------------------------------------------------------------------
Init ==
    /\ SignalInit
    /\ pending = [o \in Events |-> None]
    /\ known = {}
    /\ scan = NoScan

Detect ==
    \/ StartScan
    \/ \E o \in Events :
          \/ \E i \in InflowsOf[o] : DetectInternal(o, i) \/ DetectBetween(o, i)
          \/ DetectExternal(o)
          \/ DetectNothing(o)

Decide ==
    \E o \in Events :
        \/ \E choice \in Choices, by \in {"user", "rule"} :
              Resolve(o, choice, by) \/ Reclassify(o, choice, by)
        \/ Dismiss(o)

Next ==
    \/ \E w \in Wallets : AddWallet(w)
    \/ \E e \in Events : Classify(e)
    \/ Detect
    \/ Decide

Spec == Init /\ [][Next]_vars

-----------------------------------------------------------------------------
(* Properties                                                               *)

\* Every row and signal is of its type.
TypeOK ==
    /\ ct \in [Events -> CTs \cup {None}]
    /\ pending \in [Events -> Rows \cup {None}]
    /\ known \subseteq Wallets
    /\ scan \in [wallets : SUBSET Wallets, outflows : SUBSET Events]

\* The engine never acts on a choice other than the one on record: an outflow's stamp
\* is that of its row's choice, through resolves, reclassifications, dismissals and
\* later passes (only detection's own stamp may stand over a row), and a classified
\* row has one, so that leaving the gate means the engine has been told.
StampedAsRecorded ==
    \A o \in Events :
        LET row == pending[o] IN
        /\ row # None /\ row.state = "classified" => ct[o].res # None
        /\ o \in Arrived /\ ct[o].class \in Outflows
           /\ ct[o].res \notin {None, "relocate-internal"}
           => /\ row # None /\ row.choice # None
              /\ ct[o].res = OutflowResolution(row.kind, row.choice)

\* No relocation is stamped by half: when an outflow's lots are to move, an inflow is
\* there to move them, so they do not stay behind while the inflow opens new lots.
\* Outflows that could take each other's inflow are excepted: the second stamp takes
\* the link from the first.
RelocationsPaired ==
    \A o \in Arrived :
        /\ ct[o].class \in Outflows /\ ct[o].res \in RelocateResolutions
        /\ \A other \in Events \ {o} : InflowsOf[o] \cap InflowsOf[other] = {}
        => \E i \in InflowsOf[o] \cap Arrived : ct[i].src = o /\ ct[i].res = ct[o].res

\* A row is never removed or turned into one of another kind, none goes back to
\* needs_classification, and a dismissed row stays as it was decided: neither a new
\* pass nor the arrival of the other leg reopens it.
RowsOnlyAdvance ==
    [][\A o \in Events : pending[o] # None =>
          LET row == pending[o]
              new == pending'[o]
          IN
          /\ new # None
          /\ <<new.kind, new.to>> = <<row.kind, row.to>>
          /\ new.state = "needs_classification" => row.state = "needs_classification"
          /\ row.state = "dismissed" =>
                <<new.state, new.choice>> = <<"dismissed", row.choice>>]_vars
=============================================================================

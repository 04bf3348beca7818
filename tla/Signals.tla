------------------------------- MODULE Signals -------------------------------
(***************************************************************************)
(* The signal columns of classified_transactions (CTs): what the classifier,*)
(* the bridge pass, transfer detection and the resolve service write there, *)
(* and all the lot engine reads of them ("the engine materialises lots from *)
(* CT signals only", ADR-0003).                                             *)
(*                                                                         *)
(* This is the contract between the writers and the engine: LotEngine runs  *)
(* under any behaviour of it, and each writer's own module implements it.   *)
(*                                                                         *)
(* An event id is its place in the canonical order (occurred_at,           *)
(* block_number, event_seq, id).                                           *)
(***************************************************************************)
EXTENDS Integers, FiniteSets

CONSTANTS
    Wallets, Entities,
    Events,         \* CT ids, naturals in canonical order
    WalletOf,       \* the wallet each CT belongs to
    FirstClass,     \* the classification the classifier commits it with
    OwnerAt,        \* OwnerAt[w][e]: entity owning w when e occurred, or None
    BridgeLinks,    \* <<outflow, inflow>> correlations the bridge may hold;
                    \* an unmatched leg has None for the other one
    InflowsOf,      \* the CTs of other own wallets with an outflow's transaction
                    \* and contract
    None

\* swap-credit-redemption is split by the prefix of its notes column, the only
\* part of the notes the engine reads.
Classes == {"reward", "mint", "transfer-in", "transfer-out", "burn", "stake",
            "scdt-out", "l2-nft-in", "bridge-in", "bridge-out", "pending"}
Outflows == {"transfer-out", "bridge-out"}
Inflows  == {"transfer-in", "bridge-in"}

RelocateResolutions == {"relocate-internal", "relocate-contribution",
                        "relocate-gift", "relocate-reassignment"}
OutflowResolutions  == {"disposal", "disposal-related-party", "gift-out", "no-op-loan"}
Resolutions == RelocateResolutions \cup OutflowResolutions

CTs == [class : Classes, res : Resolutions \cup {None}, src : Events \cup {None}]

ASSUME EventsAssumption == Events \subseteq Nat
ASSUME SignalsAssumption ==
    /\ WalletOf \in [Events -> Wallets]
    /\ FirstClass \in [Events -> Classes]
    /\ OwnerAt \in [Wallets -> [Events -> Entities \cup {None}]]
    /\ BridgeLinks \subseteq (Events \cup {None}) \X (Events \cup {None})
    /\ InflowsOf \in [Events -> SUBSET Events]
    /\ \A o \in Events : \A i \in InflowsOf[o] : WalletOf[i] # WalletOf[o]
ASSUME NoneAssumption == None \notin Events \cup Nat \cup Entities \cup CTs \cup Resolutions

VARIABLE ct     \* classified_transactions: event |-> signal columns, or None

Arrived == {e \in Events : ct[e] # None}
\* The entity that owned the wallet of x when e occurred.
OwnerOf(x, e) == OwnerAt[WalletOf[x]][e]

\* The classifier commits a wallet's events in block order.
Arrives(e) ==
    /\ ct[e] = None
    /\ \A f \in Events : WalletOf[f] = WalletOf[e] /\ f < e => ct[f] # None
    /\ ct' = [ct EXCEPT ![e] = [class |-> FirstClass[e], res |-> None, src |-> None]]

\* The legs of a correlation are rows that left or entered a wallet.
Linked(o, i) ==
    /\ o # None => o \in Arrived /\ ct[o].class \in Outflows
    /\ i # None => i \in Arrived /\ ct[i].class \in Inflows

\* set_classification_signal(confirmed=True) for an entity that relocates; under
\* the "disposition" treatment it changes nothing the engine reads.
Confirms(o, i) ==
    /\ Linked(o, i)
    /\ ct' = [e \in Events |->
                CASE e = o -> [ct[e] EXCEPT !.class = "bridge-out"]
                  [] e = i -> [ct[e] EXCEPT !.class = "bridge-in", !.src = o]
                  [] OTHER -> ct[e]]

\* set_classification_signal(confirmed=False): rejected, aged out, or scored below
\* the confirmation threshold.
Rejects(o, i) ==
    /\ Linked(o, i)
    /\ ct' = [e \in Events |->
                CASE e = o -> [ct[e] EXCEPT !.class = "transfer-out"]
                  [] e = i -> [ct[e] EXCEPT !.class = "transfer-in", !.src = None]
                  [] OTHER -> ct[e]]

\* The outflow alone is stamped with what happened to it outside, or between entities
\* with a sale or a loan.
SoloResolutions(o) ==
    IF \E x \in InflowsOf[o] : OwnerOf(x, o) \notin {OwnerOf(o, o), None}
    THEN OutflowResolutions ELSE {"disposal", "gift-out"}

\* Both legs are stamped with a relocation, internal when one entity owns both ends.
PairResolutions(o, i) ==
    CASE OwnerOf(i, o) = None -> {}
      [] OwnerOf(i, o) = OwnerOf(o, o) -> {"relocate-internal"}
      [] OTHER -> RelocateResolutions \ {"relocate-internal"}

\* Nothing is resolved while nobody owns the sending wallet.
ResolutionsFor(o, i) ==
    CASE OwnerOf(o, o) = None -> {}
      [] OwnerOf(o, o) # None /\ i = None -> SoloResolutions(o)
      [] OTHER -> PairResolutions(o, i)

\* An inflow is linked by a relocation, and no later resolution unlinks it.
Stamped(o, i, res) ==
    [e \in Events |-> CASE e = o -> [ct[e] EXCEPT !.res = res]
                        [] e = i -> [ct[e] EXCEPT !.res = res, !.src = o]
                        [] OTHER -> ct[e]]

\* Detection's Branch 1 and _stamp_legs.
Resolves(o, i, res) ==
    /\ ct[o].class \in Outflows
    /\ i # None => i \in Arrived /\ ct[i].class \in Inflows
    /\ ct' = Stamped(o, i, res)

SignalInit == ct = [e \in Events |-> None]

Signal ==
    \/ \E e \in Events : Arrives(e)
    \/ \E link \in BridgeLinks : Confirms(link[1], link[2]) \/ Rejects(link[1], link[2])
    \/ \E o \in Arrived : \E i \in InflowsOf[o] \cup {None} :
          \E res \in ResolutionsFor(o, i) : Resolves(o, i, res)

SignalSpec == SignalInit /\ [][Signal]_ct
=============================================================================

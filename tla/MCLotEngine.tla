----------------------------- MODULE MCLotEngine -----------------------------
(***************************************************************************)
(* Wallet A of entity p earns two lots and sends more than B receives: the  *)
(* difference is the bridge's fee.  Wallet B of entity q passes one unit on, *)
(* at a time no assignment covers.  The transfer may be bridged, resolved,  *)
(* or neither.                                                              *)
(***************************************************************************)
EXTENDS LotEngine, TLC

CONSTANTS A, B, p, q, lemx

\* 1, 2  A is rewarded two lots          3  A sends 4 to B
\* 4     B receives 3, value unknown     5  B sends 1 to a third party
MCEvents     == 1..5
MCWalletOf   == <<A, A, A, B, B>>
MCFirstClass == <<"reward", "reward", "transfer-out", "transfer-in", "transfer-out">>
MCTxOf       == <<1, 2, 3, 3, 5>>
MCAmount     == <<2, 2, 4, 3, 1>>
MCValueOf    == <<2, 3, 4, None, 1>>
MCPoolOf     == [e \in MCEvents |-> lemx]
MCOwnerAt    == [w \in {A, B} |-> [e \in MCEvents |-> CASE w = A -> p
                                                        [] e = 5 -> None
                                                        [] OTHER -> q]]
MCBridge     == {<<3, 4>>}
MCInflowsOf  == [e \in MCEvents |-> IF e = 3 THEN {4} ELSE {}]
==============================================================================

----------------------------- MODULE MCLotReplay -----------------------------
(***************************************************************************)
(* LotReplay twice: with the transfer of MCLotEngine ("Moves"), and with    *)
(* wallets that only acquire and dispose ("Local").                         *)
(***************************************************************************)
EXTENDS LotReplay, MCLotEngine

CONSTANTS credit, nft

MovesOwnerAt == [w \in {A, B} |-> [e \in MCEvents |-> p]]

\* 1, 2  A earns two lots, the dearer one later     3  A sends 3 to a third party
\* 4     A earns again
\* 5     B mints a credit    6, 7  B redeems it for an NFT (one transaction)
LocalEvents     == 1..7
LocalWalletOf   == [e \in LocalEvents |-> IF e > 4 THEN B ELSE A]
LocalFirstClass == <<"reward", "reward", "transfer-out", "reward",
                     "mint", "scdt-out", "l2-nft-in">>
LocalTxOf       == <<1, 2, 3, 4, 5, 6, 6>>
LocalAmount     == <<2, 2, 3, 2, 1, 1, 1>>
LocalValueOf    == <<2, 6, 5, 4, 1, 2, None>>
LocalPoolOf     == [e \in LocalEvents |-> CASE e < 5 -> lemx
                                            [] e = 7 -> nft
                                            [] OTHER -> credit]
LocalOwnerAt    == [w \in {A, B} |-> [e \in LocalEvents |-> IF w = A THEN p ELSE q]]
LocalInflowsOf  == [e \in LocalEvents |-> {}]
==============================================================================

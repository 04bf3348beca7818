-------------------------------- MODULE Crawl --------------------------------
(***************************************************************************)
(* What a resumable crawl of the chain promises.  Blocks are dealt with in   *)
(* any order and stay dealt with; the cursor it resumes from may go back,    *)
(* but a block up to the cursor has been dealt with.                         *)
(*                                                                         *)
(* The sync and the classification of a wallet (WalletSync) and the price    *)
(* history's backfill (PriceHistory) each implement it.                      *)
(***************************************************************************)
EXTENDS Integers

VARIABLES
    frontier,   \* the cursor: where a crash lets the next run resume
    kept        \* the blocks whose contents are stored

Init == frontier = 0 /\ kept \subseteq Nat

\* Some blocks' contents are stored.
Keep == kept \subseteq kept' /\ frontier' = frontier

\* The cursor is set, perhaps in the transaction that stores.
Advance == kept \subseteq kept' /\ frontier' \in Nat /\ 1..frontier' \subseteq kept'

Next == Keep \/ Advance

Spec == Init /\ [][Next]_<<frontier, kept>>

\* No block behind the cursor is missing.
Gapless == frontier \in Nat /\ 1..frontier \subseteq kept
=============================================================================

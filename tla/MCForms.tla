------------------------------- MODULE MCForms -------------------------------
(***************************************************************************)
(* Wallet A of entity p earns a lot, burns half of it in the first year and  *)
(* bridges the other half the next, one unit more of it than it has left;    *)
(* the half arrives in wallet B of entity q.                                 *)
(***************************************************************************)
EXTENDS Forms, TLC

CONSTANTS A, B, p, q, lemx

MCEvents     == 1..4
MCWalletOf   == <<A, A, A, B>>
MCFirstClass == <<"reward", "burn", "transfer-out", "transfer-in">>
MCTxOf       == <<1, 2, 3, 3>>
MCAmount     == <<2, 1, 2, 1>>
MCValueOf    == <<2, 1, 2, 1>>
MCPoolOf     == [e \in MCEvents |-> lemx]
MCOwnerAt    == [w \in {A, B} |-> [e \in MCEvents |-> IF w = A THEN p ELSE q]]
MCBridge     == {<<3, 4>>}
MCInflowsOf  == [e \in MCEvents |-> {}]
MCYearOf     == <<1, 1, 2, 2>>
MCCommands   == {[kind |-> "generate", draft |-> FALSE, recompute |-> TRUE],
                 [kind |-> "reconcile", draft |-> TRUE, recompute |-> FALSE],
                 [kind |-> "report", draft |-> FALSE, recompute |-> FALSE],
                 [kind |-> "expect_held", draft |-> FALSE, recompute |-> FALSE]}
==============================================================================

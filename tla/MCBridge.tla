------------------------------ MODULE MCBridge ------------------------------
(***************************************************************************)
(* Event 1 leaves chain X, from an entity that disposes, and 2 enters chain Y *)
(* a quarter of an hour later; then 3 leaves X from another entity with a     *)
(* better amount, so that it takes 2 from 1, and scores high where the         *)
(* custody of 2 is known.                                                     *)
(***************************************************************************)
EXTENDS Bridge

CONSTANTS A, B, C, p, q, X, Y

MCEvents     == 1..3
MCWalletOf   == <<A, B, C>>
MCFirstClass == <<"transfer-out", "transfer-in", "transfer-out">>
MCOwnerAt    == [w \in {A, B, C} |-> [e \in MCEvents |-> IF w = A THEN q ELSE p]]
MCInflowsOf  == [e \in MCEvents |-> {}]
MCChainOf    == <<X, Y, X>>
MCAssetOf    == [e \in MCEvents |-> 0]
MCAmountOf   == <<200, 195, 195>>
MCMinuteOf   == <<0, 15, 20>>
MCCustodyOf  == <<"unknown", "recognized", "unknown">>
MCUnknown    == <<"unknown", "unknown", "unknown">>
MCLinks      == (MCEvents \X MCEvents) \cup (MCEvents \X {None}) \cup ({None} \X MCEvents)
=============================================================================

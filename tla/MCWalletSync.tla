---------------------------- MODULE MCWalletSync ----------------------------
(***************************************************************************)
(* Three blocks, the last one never settled; the first chunk of a sync that  *)
(* starts over is too much for the explorer.                                 *)
(***************************************************************************)
EXTENDS WalletSync

MCCrowded == {<<0, 1>>, <<1, 2>>}
=============================================================================

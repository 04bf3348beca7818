------------------------------ MODULE LotReplay ------------------------------
(***************************************************************************)
(* An observer of LotEngine: it remembers the ledger the last rebuild of    *)
(* every wallet committed and the signals that rebuild read, so that two    *)
(* replays of the same signals can be compared.                             *)
(***************************************************************************)
EXTENDS LotEngine

VARIABLE replayed       \* [ct, rows] of the last committed full rebuild, or None

Rows == <<lots, disposals, relocs, excs>>

FullRebuild == Commit /\ job.kind = "rebuild" /\ job.scope = Wallets

ReplayInit == Init /\ replayed = None

ReplayNext ==
    /\ Next
    /\ replayed' = IF FullRebuild THEN [ct |-> ct, rows |-> Rows] ELSE replayed

ReplaySpec == ReplayInit /\ [][ReplayNext]_<<vars, replayed>>

-----------------------------------------------------------------------------
\* rebuild_wallet "replays to the same ledger state" (test_engine_integration.py:424)
\* and is "idempotent (replay is safe)" (engine.py:827): two full rebuilds that read
\* the same signals commit the same lots, disposals, relocations and exceptions,
\* whatever was committed, rolled back or partly rebuilt in between.
RebuildIsDeterministic ==
    [][FullRebuild /\ replayed # None /\ replayed.ct = ct
        => Rows = replayed.rows]_<<vars, replayed>>
=============================================================================

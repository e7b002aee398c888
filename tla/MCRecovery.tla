----------------------------- MODULE MCRecovery -----------------------------
(***************************************************************************)
(* Instances of Recovery for TLC.  The extensions share the log and        *)
(* nothing else: each is in use on its own, and signals, which are not     *)
(* flushed, together with custom_wal, which flushes.  What pg_wal_blocks   *)
(* reads is on disk, out of reach of a crash.                              *)
(***************************************************************************)
EXTENDS Recovery, TLC

MCMaxWal ==
  ({"signal_rmgr"} :> 3) @@ ({"custom_wal"} :> 3) @@ ({"signal_rmgr", "custom_wal"} :> 2)
    @@ ({"pg_swap_pages"} :> 2) @@ ({"pg_fix_truncation"} :> 2) @@ ({"pg_wal_blocks"} :> 3)
MCMaxCrashes == [load \in DOMAIN MCMaxWal |-> IF load = {"pg_wal_blocks"} THEN 0 ELSE 1]
MCBlocks == 0..1
MCMapBlocks == 0..5
=============================================================================

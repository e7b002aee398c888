---------------------------- MODULE MCBgWorkers ----------------------------
(***************************************************************************)
(* Instances of BgWorkers for TLC.  The workers only meet through          *)
(* kill_idle, which terminates idle ones: each is loaded on its own, and   *)
(* kill_idle with each of the two others that show as idle, with fewer     *)
(* reloads.                                                                *)
(***************************************************************************)
EXTENDS BgWorkers

WithKillIdle == {{"kill_idle", w} : w \in {"hello_notify", "receiver_raw"}}

MCReloads ==
  [preload \in {{w} : w \in AllWorkers} \cup WithKillIdle |->
    IF preload \in WithKillIdle THEN 1 ELSE 2]
=============================================================================

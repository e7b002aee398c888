------------------------------ MODULE Recovery ------------------------------
(***************************************************************************)
(* The extensions that write WAL, on a primary and its standby that crash, *)
(* are stopped, start and replay: signal_rmgr, pg_swap_pages, custom_wal,  *)
(* pg_fix_truncation, and pg_wal_blocks reading the files.                 *)
(***************************************************************************)
EXTENDS SignalRmgr, PageWal, WalBlocks

vars == <<logVars, pageVars, tool>>

Init == LogInit /\ PageInit /\ ToolInit

\* The sessions and the buffers end with the primary.
KillSessions(s) ==
  /\ IF s = "primary"
       THEN op' = [b \in Sessions |-> NoOp] /\ lsn' = [blk \in Blocks |-> 0]
       ELSE UNCHANGED <<op, lsn>>
  /\ UNCHANGED <<calls, exposed, tool>>

\* One record is replayed: page images are restored, the map is truncated, the
\* signal is sent.
Redo(s) ==
  /\ status[s] = "recovering" /\ replayed[s] < Available(s)
  /\ LET record == wal[replayed[s] + 1]
     IN /\ replayed' = [replayed EXCEPT ![s] = @ + 1]
        /\ pages' = [pages EXCEPT ![s] = [blk \in Blocks |->
             IF blk \in DOMAIN record.image THEN record.image[blk] ELSE @[blk]]]
        /\ fsm' = IF record.kind = "truncate_fsm" THEN [fsm EXCEPT ![s] = @ \cap Blocks] ELSE fsm
        /\ IF record.kind = "signal"
             THEN /\ pending' = signal_rmgr_redo(s, record)
                  /\ status' = IF signal_rmgr_redo_fails(record)
                                 THEN [status EXCEPT ![s] = "failed"] ELSE status
             ELSE UNCHANGED <<pending, status>>
  /\ UNCHANGED <<loaded, wal, flushed, redo, disk, crashes, pageVars, tool>>

\* Sessions finish what they hold locks for before the server stops.
SessionsDone(s) == s = "primary" => \A b \in Sessions : op[b] = NoOp

Serve ==
  \/ \E n \in 1..Len(wal) : Flush(n) /\ UNCHANGED <<pageVars, tool>>
  \/ /\ Checkpoint /\ \A blk \in Blocks : Writable(blk)
     /\ exposed' = (exposed \/ \E blk \in Blocks : Unlogged(blk))
     /\ UNCHANGED <<op, lsn, calls, tool>>
  \/ Restartpoint /\ UNCHANGED <<pageVars, tool>>
  \/ \E blk \in Blocks : PageWrite(blk) /\ UNCHANGED tool

Recover(s) ==
  \/ Redo(s)
  \/ s = "primary" /\ EndRecovery /\ UNCHANGED <<pageVars, tool>>

Postmaster(s) ==
  \/ PostmasterReload(s) /\ UNCHANGED <<pageVars, tool>>
  \/ PostmasterStop(s) /\ SessionsDone(s) /\ KillSessions(s)
  \/ PostmasterKilled(s) /\ KillSessions(s)

Next ==
  \/ Serve
  \/ \E s \in Servers :
       \/ Recover(s) \/ Postmaster(s)
       \/ Crash(s) /\ KillSessions(s)
       \/ Start(s) /\ UNCHANGED <<pageVars, tool>>
  \/ \E signal \in Signals : signal_rmgr(signal) /\ Room(1) /\ UNCHANGED <<pageVars, tool>>
  \/ PageNext /\ UNCHANGED tool
  \/ ToolNext /\ UNCHANGED pageVars

\* Recoveries go on and postmasters handle their signals; nobody has to start a
\* server, and nobody has to crash one.
Spec == Init /\ [][Next]_vars /\ \A s \in Servers : WF_vars(Recover(s)) /\ WF_vars(Postmaster(s))

-----------------------------------------------------------------------------
(* Properties.                                                             *)

Contents == Blocks \X Nat
Phases == {"none", "lock1", "lock2", "register", "register2", "apply1", "apply2", "insert", "loop"}

\* Types.  The states of a server do not include a recovery that fails: signal_rmgr
\* writes no record that signal_rmgr_redo refuses.
TypeOK ==
  /\ loaded \in Loads /\ flushed \in 0..Len(wal)
  /\ status \in [Servers -> {"up", "recovering", "crashed", "stopped"}]
  /\ redo \in [Servers -> 0..flushed] /\ replayed \in [Servers -> 0..Len(wal)]
  /\ pages \in [Servers -> [Blocks -> Contents]] /\ disk \in [Servers -> [Blocks -> Contents]]
  /\ fsm \in [Servers -> SUBSET MapBlocks]
  /\ \A s \in Servers : \A signal \in pending[s] : check_signal_value(signal)
  /\ \A b \in Sessions : op[b].phase \in Phases
  /\ lsn \in [Blocks -> 0..Len(wal)]

\* No page is in the middle of a swap.
Settled == \A blk \in Blocks : ~Unlogged(blk)

\* pg_swap_pages moves pages and loses none: each is in some block, and none is in
\* two, also after a crash and recovery, unless two swaps of one block overlapped or a
\* page was written out in the middle of one (its locks are shared ones and exclude
\* neither).
SwapLosesNothing ==
  status["primary"] = "up" /\ Settled /\ ~exposed =>
    \A blk \in Blocks : \E at \in Blocks : pages["primary"][at][1] = blk

InStep ==
  /\ status["primary"] = "up" /\ Settled
  /\ status["standby"] = "recovering" /\ replayed["standby"] = Len(wal)

\* A standby that has replayed everything agrees with a primary that is up, however
\* often either has crashed: same pages, and a free space map that offers no block the
\* primary's does not (apart from the entries of its last page, which the primary
\* clears without a record of its own).
StandbyAgrees ==
  InStep /\ ~exposed =>
    pages["standby"] = pages["primary"] /\ fsm["standby"] \ MapTail \subseteq fsm["primary"]

\* Two sessions that wait for each other's buffer locks wait forever: this takes a
\* call of pg_swap_pages that asks for its blocks in descending order, against a
\* writer in ascending order.
DeadlockNeedsDescending ==
  \A b, c \in Sessions :
    Waits(b, c) /\ Waits(c, b) =>
      \E d \in {b, c} : op[d].kind = "swap" /\ op[d].asked[1] > op[d].asked[2]

Messages(call) == {i \in 1..flushed : wal[i].kind = "message" /\ wal[i].call = call}

\* custom_wal flushes once, after all its records: when it has returned they are all
\* on disk, whatever other sessions inserted in between and through every crash.
CustomWalDurable ==
  \A call \in DOMAIN calls :
    calls[call].returned => Cardinality(Messages(call)) = calls[call].number

\* The blocks that pg_wal_blocks prints for a segment that was full when it started
\* are those of all records that lie whole in it; it fails only if there is none.
Whole(seg) == {i \in 1..Len(wal) : Inside(i, seg)}
BlocksReported ==
  tool.sealed =>
    /\ tool.pc = "end" => /\ tool.at - Len(tool.out) = Min(Whole(tool.seg))
                          /\ Len(tool.out) = Cardinality(Whole(tool.seg))
                          /\ \A n \in DOMAIN tool.out :
                               tool.out[n] = DOMAIN wal[tool.at - Len(tool.out) + n - 1].image
    /\ tool.pc = "failed" => Whole(tool.seg) = {}

Stops(i) == wal[i].kind = "signal" /\ wal[i].signal # "HUP"
AskedToStop(s) ==
  \/ \E i \in (replayed[s] + 1)..Available(s) : Stops(i)
  \/ pending[s] \ {"HUP"} # {}

\* A recovery that meets no record of a signal to stop brings the primary up, whatever
\* other records it replays, unless the server crashes.
RecoversUnlessAsked ==
  status["primary"] = "recovering" /\ ~AskedToStop("primary") ~>
    status["primary"] \in {"up", "crashed"}

\* A record of a signal to stop that is on the disk of the primary stops the standby,
\* which replays it sooner or later.
StandbyObeys ==
  status["standby"] = "recovering" /\ AskedToStop("standby") ~> status["standby"] # "recovering"
=============================================================================

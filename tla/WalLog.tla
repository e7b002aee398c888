------------------------------- MODULE WalLog -------------------------------
(***************************************************************************)
(* A primary and its standby as the extensions that write WAL see them:    *)
(* the log, what of it is on disk, the pages of one relation in memory and *)
(* on disk, and where a recovery starts and stands.  All of this is        *)
(* PostgreSQL's; the extensions' part is in SignalRmgr, PageWal and        *)
(* WalBlocks, and Recovery puts them together.                             *)
(***************************************************************************)
EXTENDS Naturals, Sequences, FiniteSetsExt

CONSTANTS
  Blocks,      \* blocks of the relation, from 0
  MapBlocks,   \* blocks its free space map has an entry for
  MapPage,     \* number of entries of a page of the map
  Signals,     \* signals a caller may ask for
  MaxWal,      \* bound: records, for each set of extensions that may be in use
  MaxCrashes   \* bound: crashes, for each of these sets

Loads == DOMAIN MaxWal
Servers == {"primary", "standby"}

ASSUME WalLogAssumption ==
  /\ Blocks # {} /\ IsFiniteSet(Blocks) /\ MapPage \in Nat \ {0}
  /\ MaxWal \in [Loads -> Nat] /\ MaxCrashes \in [Loads -> Nat]
  /\ Blocks = 0..Max(Blocks) /\ Blocks \subseteq MapBlocks /\ MapBlocks \subseteq Nat

VARIABLES
  loaded,    \* extensions in use
  wal,       \* log of the primary, buffers included
  flushed,   \* number of records on disk; the standby receives no other
  status,    \* status[s]: "up" (the primary), "recovering", "crashed" or "stopped"
  redo,      \* redo[s]: number of records a recovery need not replay
  replayed,  \* replayed[s]: number of records the recovery has behind it
  pages,     \* pages[s]: content of the blocks in memory: origin and version
  disk,      \* disk[s]: content of the blocks on disk
  fsm,       \* fsm[s]: blocks that the free space map offers
  pending,   \* pending[s]: signals sent to the postmaster, not handled yet
  crashes    \* crashes so far

logVars == <<loaded, wal, flushed, status, redo, replayed, pages, disk, fsm, pending, crashes>>

Record(kind) == [kind |-> kind, signal |-> "none", call |-> 0, image |-> <<>>]

LogInit ==
  /\ loaded \in Loads
  /\ wal = <<>> /\ flushed = 0 /\ crashes = 0
  /\ status = [s \in Servers |-> IF s = "primary" THEN "up" ELSE "recovering"]
  /\ redo = [s \in Servers |-> 0] /\ replayed = [s \in Servers |-> 0]
  /\ pages = [s \in Servers |-> [blk \in Blocks |-> <<blk, 0>>]]
  /\ disk = pages
  /\ fsm = [s \in Servers |-> MapBlocks]
  /\ pending = [s \in Servers |-> {}]

\* What a recovering server can replay.
Available(s) == IF s = "standby" THEN flushed ELSE Len(wal)

\* Entries of the map that are in the page of its last block but past the end of
\* the relation.
MapTail == {k \in MapBlocks : k \notin Blocks /\ k \div MapPage = Max(Blocks) \div MapPage}

-----------------------------------------------------------------------------
(* Steps of the servers.  Those that end a server leave the postmaster and  *)
(* the sessions to the caller.                                              *)

Flush(n) ==
  /\ status["primary"] = "up" /\ n \in (flushed + 1)..Len(wal)
  /\ flushed' = n
  /\ UNCHANGED <<loaded, wal, status, redo, replayed, pages, disk, fsm, pending, crashes>>

\* A checkpoint writes all pages, after the log they depend on.
Checkpoint ==
  /\ status["primary"] = "up" /\ redo["primary"] < Len(wal)
  /\ flushed' = Len(wal)
  /\ redo' = [redo EXCEPT !["primary"] = Len(wal)]
  /\ disk' = [disk EXCEPT !["primary"] = pages["primary"]]
  /\ UNCHANGED <<loaded, wal, status, replayed, pages, fsm, pending, crashes>>

\* A standby can start over where a checkpoint it has replayed did.
Restartpoint ==
  /\ status["standby"] = "recovering"
  /\ redo["standby"] < redo["primary"] /\ redo["primary"] <= replayed["standby"]
  /\ redo' = [redo EXCEPT !["standby"] = redo["primary"]]
  /\ disk' = [disk EXCEPT !["standby"] = pages["standby"]]
  /\ UNCHANGED <<loaded, wal, flushed, status, replayed, pages, fsm, pending, crashes>>

\* What is lost when the processes of s are gone: its memory, and for the primary
\* the log in it.  A map page is not logged: a change of it may be lost or not.
LoseMemory(s) ==
  /\ wal' = IF s = "primary" THEN SubSeq(wal, 1, flushed) ELSE wal
  /\ \E back \in {{}, MapTail} : fsm' = [fsm EXCEPT ![s] = @ \cup back]
  /\ pending' = [pending EXCEPT ![s] = {}]
  /\ UNCHANGED <<loaded, flushed, redo, replayed, pages, disk>>

Crash(s) ==
  /\ status[s] \in {"up", "recovering"} /\ crashes < MaxCrashes[loaded]
  /\ crashes' = crashes + 1
  /\ status' = [status EXCEPT ![s] = "crashed"]
  /\ LoseMemory(s)

\* A stop with a checkpoint, of a primary that is up, or without one.
Stop(s) ==
  /\ status' = [status EXCEPT ![s] = "stopped"]
  /\ pending' = [pending EXCEPT ![s] = {}]
  /\ IF status[s] = "up"
       THEN /\ flushed' = Len(wal) /\ redo' = [redo EXCEPT ![s] = Len(wal)]
            /\ disk' = [disk EXCEPT ![s] = pages[s]]
       ELSE UNCHANGED <<flushed, redo, disk>>
  /\ UNCHANGED <<loaded, wal, replayed, pages, fsm, crashes>>

Start(s) ==
  /\ status[s] \in {"crashed", "stopped"}
  /\ status' = [status EXCEPT ![s] = "recovering"]
  /\ replayed' = [replayed EXCEPT ![s] = redo[s]]
  /\ pages' = [pages EXCEPT ![s] = disk[s]]
  /\ UNCHANGED <<loaded, wal, flushed, redo, disk, fsm, pending, crashes>>

\* Recovery of a primary ends with a checkpoint.
EndRecovery ==
  /\ status["primary"] = "recovering" /\ replayed["primary"] = Len(wal)
  /\ status' = [status EXCEPT !["primary"] = "up"]
  /\ redo' = [redo EXCEPT !["primary"] = Len(wal)]
  /\ disk' = [disk EXCEPT !["primary"] = pages["primary"]]
  /\ UNCHANGED <<loaded, wal, flushed, replayed, pages, fsm, pending, crashes>>
=============================================================================

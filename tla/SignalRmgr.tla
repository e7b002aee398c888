----------------------------- MODULE SignalRmgr -----------------------------
(***************************************************************************)
(* signal_rmgr/signal_rmgr.c: a WAL record that carries a signal, and its  *)
(* redo, which sends the signal to the postmaster of the server that       *)
(* replays it.  The postmaster (external) acts on it later.                *)
(***************************************************************************)
EXTENDS WalLog

check_signal_value(signal) == signal \in {"KILL", "HUP", "INT", "TERM"}

\* Mutant: the value is left to the redo to check.
signal_rmgr_unchecked(signal) ==
  /\ status["primary"] = "up" /\ "signal_rmgr" \in loaded
  /\ wal' = Append(wal, [Record("signal") EXCEPT !.signal = signal])
  /\ UNCHANGED <<loaded, flushed, status, redo, replayed, pages, disk, fsm, pending, crashes>>

\* The record is inserted, not flushed.
signal_rmgr(signal) ==
  /\ status["primary"] = "up" /\ "signal_rmgr" \in loaded
  /\ check_signal_value(signal)
  /\ wal' = Append(wal, [Record("signal") EXCEPT !.signal = signal])
  /\ UNCHANGED <<loaded, flushed, status, redo, replayed, pages, disk, fsm, pending, crashes>>

\* An unknown operation is a PANIC, a signal that is not allowed an ERROR: both
\* end the startup process, and the recovery with it.
signal_rmgr_redo_fails(record) == ~check_signal_value(record.signal)

\* Mutant: every signal asks the postmaster to stop.
signal_rmgr_redo_stops(s, record) == [pending EXCEPT ![s] = @ \cup {"INT"}]

\* Mutant: the signal goes to the process itself, which ignores it.
signal_rmgr_redo_self(s, record) == pending

\* kill(PostmasterPid, ...): signals of one number that are pending are one.  The kill
\* of a checked signal by the same user fails only if there is no postmaster any more;
\* the WARNING then changes nothing, and the startup process ends as well.
signal_rmgr_redo(s, record) == [pending EXCEPT ![s] = @ \cup {record.signal}]

\* SIGHUP reloads the configuration, SIGINT and SIGTERM stop the server, SIGKILL
\* ends the postmaster and, when they notice, its children.  SIGTERM waits for the
\* clients to leave first, and the replay goes on meanwhile: a delay of PostmasterStop.
PostmasterReload(s) ==
  /\ status[s] \in {"up", "recovering"} /\ "HUP" \in pending[s]
  /\ pending' = [pending EXCEPT ![s] = @ \ {"HUP"}]
  /\ UNCHANGED <<loaded, wal, flushed, status, redo, replayed, pages, disk, fsm, crashes>>

PostmasterStop(s) ==
  /\ status[s] \in {"up", "recovering"} /\ pending[s] \cap {"INT", "TERM"} # {}
  /\ Stop(s)

PostmasterKilled(s) ==
  /\ status[s] \in {"up", "recovering"} /\ "KILL" \in pending[s]
  /\ status' = [status EXCEPT ![s] = "stopped"]
  /\ LoseMemory(s)
  /\ UNCHANGED crashes
=============================================================================

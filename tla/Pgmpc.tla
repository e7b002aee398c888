------------------------------- MODULE Pgmpc -------------------------------
(***************************************************************************)
(* pgmpc/pgmpc.c: SQL functions that drive an mpd server, called by the    *)
(* sessions of a PostgreSQL instance.  Each session keeps mpd_conn and     *)
(* mpd_status in static variables; a function connects (pgmpc_init), reads *)
(* the status if it needs it, runs one command and cleans up (pgmpc_reset).*)
(*                                                                         *)
(* Of the server only the four modes are kept, the one thing pgmpc reads   *)
(* in order to write it.  Calls that pgmpc refuses before it connects (a   *)
(* missing argument, a volume above 100) change nothing and are left out.  *)
(***************************************************************************)
EXTENDS Naturals, FiniteSets

CONSTANTS
  Sessions,     \* PostgreSQL sessions
  Functions,    \* functions they call
  MaxCalls,     \* bound: calls
  MaxFailures,  \* bound: errors of the connection to mpd
  MaxEscapes    \* bound: errors of PostgreSQL inside a function

Modes == {"random", "repeat", "single", "consume"}
PlayerCommands == {"play", "pause", "next", "prev", "update"}
VolumeCommand == {"set_volume"}
PlaylistCommands == {"load", "save", "rm", "clear"}
Listings == {"ls", "playlist", "lsplaylists"}
ReadsStatus == Modes \cup {"status"}

ASSUME ConstantsAssumption ==
  /\ Functions \subseteq ReadsStatus \cup PlayerCommands \cup VolumeCommand
                         \cup PlaylistCommands \cup Listings \cup {"add"}
  /\ MaxCalls \in Nat /\ MaxFailures \in Nat /\ MaxEscapes \in Nat

VARIABLES
  mode,        \* mode[m]: mode m of the mpd server is on
  fn,          \* fn[s]: function session s is in, or "none"
  pc,          \* pc[s]: "idle", "init", "status" or "run"
  mpd_conn,    \* mpd_conn[s]: the static variable is not NULL
  mpd_status,  \* mpd_status[s]: mode read, or "null"
  conns,       \* conns[s]: connections of s the server holds
  stats,       \* stats[s]: status objects s has allocated and not freed
  escapes,     \* history: errors of PostgreSQL that left a function of s
  toggles,     \* history: calls that switched mode m and returned
  doubt,       \* history: two switches of m overlapped, or the reply to one was lost
  calls, failures

session == <<fn, pc, mpd_conn, mpd_status, conns, stats, escapes>>
history == <<toggles, doubt>>
vars == <<mode, session, history, calls, failures>>

Init ==
  /\ mode = [m \in Modes |-> FALSE]
  /\ fn = [s \in Sessions |-> "none"] /\ pc = [s \in Sessions |-> "idle"]
  /\ mpd_conn = [s \in Sessions |-> FALSE] /\ mpd_status = [s \in Sessions |-> "null"]
  /\ conns = [s \in Sessions |-> 0] /\ stats = [s \in Sessions |-> 0] /\ escapes = [s \in Sessions |-> 0]
  /\ toggles = [m \in Modes |-> 0] /\ doubt = [m \in Modes |-> FALSE]
  /\ calls = 0 /\ failures = 0

-----------------------------------------------------------------------------
FreeConnection(s) ==
  /\ conns' = [conns EXCEPT ![s] = IF mpd_conn[s] THEN @ - 1 ELSE @]
  /\ mpd_conn' = [mpd_conn EXCEPT ![s] = FALSE]

FreeStatus(s) ==
  /\ stats' = [stats EXCEPT ![s] = IF mpd_status[s] # "null" THEN @ - 1 ELSE @]
  /\ mpd_status' = [mpd_status EXCEPT ![s] = "null"]

\* Mutant: the connection is freed and mpd_conn left dangling.
pgmpc_reset_dangles(s) ==
  /\ conns' = [conns EXCEPT ![s] = IF mpd_conn[s] THEN @ - 1 ELSE @]
  /\ FreeStatus(s)
  /\ UNCHANGED mpd_conn

pgmpc_reset(s) == FreeConnection(s) /\ FreeStatus(s)

Return(s) == fn' = [fn EXCEPT ![s] = "none"] /\ pc' = [pc EXCEPT ![s] = "idle"]

\* Mutant: the error is reported without the cleanup.
pgmpc_print_error_only(s) == Return(s) /\ UNCHANGED <<mpd_conn, mpd_status, conns, stats>>

pgmpc_print_error(s) == pgmpc_reset(s) /\ Return(s)

\* pgmpc_add does not reach its pgmpc_init.
Call(s, f) ==
  /\ pc[s] = "idle" /\ calls < MaxCalls
  /\ fn' = [fn EXCEPT ![s] = f]
  /\ pc' = [pc EXCEPT ![s] = IF f = "add" THEN "run" ELSE "init"]
  /\ calls' = calls + 1
  /\ UNCHANGED <<mode, mpd_conn, mpd_status, conns, stats, escapes, history, failures>>

\* mpd_conn is overwritten: the assertion that it is NULL is for debug builds.
pgmpc_init(s) ==
  /\ pc[s] = "init"
  /\ mpd_conn' = [mpd_conn EXCEPT ![s] = TRUE]
  /\ conns' = [conns EXCEPT ![s] = @ + 1]
  /\ pc' = [pc EXCEPT ![s] = IF fn[s] \in ReadsStatus THEN "status" ELSE "run"]
  /\ UNCHANGED <<mode, fn, mpd_status, stats, escapes, history, calls, failures>>

\* No connection, or a wrong password: what was opened is freed, and a status that an
\* earlier call left behind.
InitFails(s) ==
  /\ pc[s] = "init" /\ failures < MaxFailures
  /\ failures' = failures + 1
  /\ mpd_conn' = [mpd_conn EXCEPT ![s] = FALSE]
  /\ FreeStatus(s)
  /\ Return(s)
  /\ UNCHANGED <<mode, conns, escapes, history, calls>>

\* mpd_run_status, or the first half of the command list of pgmpc_status.  What
\* mpd_status pointed to is not freed.
GetStatus(s) ==
  /\ pc[s] = "status"
  /\ mpd_status' = [mpd_status EXCEPT ![s] = IF fn[s] \in Modes /\ mode[fn[s]] THEN "on" ELSE "off"]
  /\ stats' = [stats EXCEPT ![s] = @ + 1]
  /\ pc' = [pc EXCEPT ![s] = "run"]
  /\ UNCHANGED <<mode, fn, mpd_conn, conns, escapes, history, calls, failures>>

\* The connection fails before the status is read: mpd_status is NULL then, whatever
\* it was; or, in pgmpc_status, when the commands are sent.
StatusFails(s) ==
  /\ pc[s] = "status" /\ failures < MaxFailures
  /\ failures' = failures + 1
  /\ \/ /\ FreeConnection(s) /\ UNCHANGED stats
        /\ mpd_status' = [mpd_status EXCEPT ![s] = "null"]
     \/ fn[s] = "status" /\ pgmpc_reset(s)
  /\ Return(s)
  /\ UNCHANGED <<mode, escapes, history, calls>>

\* Mutant: the mode is switched on rather than switched.
SwitchOn(s) == [mode EXCEPT ![fn[s]] = TRUE]

\* The opposite of the mode that was read.
Switch(s) == [mode EXCEPT ![fn[s]] = mpd_status[s] = "off"]

\* Other sessions that have read mode m and not yet written it.
Overlapped(s) == \E r \in Sessions \ {s} : fn[r] = fn[s] /\ pc[r] = "run"

\* The command runs on the server and the function returns.
RunCommand(s) ==
  /\ pc[s] = "run" /\ mpd_conn[s]
  /\ IF fn[s] \in Modes
       THEN /\ mode' = Switch(s)
            /\ toggles' = [toggles EXCEPT ![fn[s]] = @ + 1]
            /\ doubt' = [doubt EXCEPT ![fn[s]] = @ \/ Overlapped(s)]
       ELSE UNCHANGED <<mode, history>>
  /\ pgmpc_reset(s) /\ Return(s)
  /\ UNCHANGED <<escapes, calls, failures>>

\* The connection fails before or after the server has run the command.
CommandFails(s) ==
  /\ pc[s] = "run" /\ mpd_conn[s] /\ failures < MaxFailures
  /\ failures' = failures + 1
  /\ \/ UNCHANGED <<mode, doubt>>
     \/ /\ fn[s] \in Modes
        /\ mode' = Switch(s) /\ doubt' = [doubt EXCEPT ![fn[s]] = TRUE]
  /\ pgmpc_print_error(s)
  /\ UNCHANGED <<escapes, toggles, calls>>

\* An error of PostgreSQL (out of memory, a cancelled statement) while the rows of a
\* listing are stored or the values of pgmpc_status built: no cleanup.
ErrorEscapes(s) ==
  /\ pc[s] = "run" /\ fn[s] \in Listings \cup {"status"} /\ escapes[s] < MaxEscapes
  /\ escapes' = [escapes EXCEPT ![s] = @ + 1]
  /\ Return(s)
  /\ UNCHANGED <<mode, mpd_conn, mpd_status, conns, stats, history, calls, failures>>

\* pgmpc_add without a connection: the backend crashes and with it, as the
\* postmaster restarts, every session.
AddCrashes(s) ==
  /\ pc[s] = "run" /\ fn[s] = "add" /\ ~mpd_conn[s]
  /\ fn' = [r \in Sessions |-> "none"] /\ pc' = [r \in Sessions |-> "idle"]
  /\ mpd_conn' = [r \in Sessions |-> FALSE] /\ mpd_status' = [r \in Sessions |-> "null"]
  /\ conns' = [r \in Sessions |-> 0] /\ stats' = [r \in Sessions |-> 0] /\ escapes' = [r \in Sessions |-> 0]
  /\ UNCHANGED <<mode, history, calls, failures>>

Next ==
  \E s \in Sessions :
    \/ \E f \in Functions : Call(s, f)
    \/ pgmpc_init(s) \/ InitFails(s) \/ GetStatus(s) \/ StatusFails(s) \/ RunCommand(s)
    \/ CommandFails(s) \/ ErrorEscapes(s) \/ AddCrashes(s)

Spec == Init /\ [][Next]_vars

-----------------------------------------------------------------------------
(* Properties.                                                             *)

\* Types; and mpd_conn and mpd_status never point at what was freed.
TypeOK ==
  /\ mode \in [Modes -> BOOLEAN] /\ doubt \in [Modes -> BOOLEAN]
  /\ toggles \in [Modes -> Nat]
  /\ fn \in [Sessions -> Functions \cup {"none"}]
  /\ pc \in [Sessions -> {"idle", "init", "status", "run"}]
  /\ mpd_conn \in [Sessions -> BOOLEAN] /\ mpd_status \in [Sessions -> {"null", "on", "off"}]
  /\ conns \in [Sessions -> Nat] /\ stats \in [Sessions -> Nat] /\ escapes \in [Sessions -> Nat]
  /\ calls \in Nat /\ failures \in Nat
  /\ \A s \in Sessions : (mpd_conn[s] => conns[s] > 0) /\ (mpd_status[s] # "null" => stats[s] > 0)

\* Between calls, whatever failed before, a session holds no more connections, and no
\* more status objects, than errors of PostgreSQL escaped from its functions: one each,
\* at most.  (These do leak: the assertion of pgmpc_init would stop a debug build.)
NoLeak ==
  \A s \in Sessions : pc[s] = "idle" => conns[s] <= escapes[s] /\ stats[s] <= escapes[s]

\* A mode is on exactly after an odd number of calls that switched it, however the
\* sessions interleave and fail, unless two of them read it before either wrote it
\* or the reply to one was lost.
TogglesCount == \A m \in Modes : ~doubt[m] => (mode[m] <=> toggles[m] % 2 = 1)
=============================================================================

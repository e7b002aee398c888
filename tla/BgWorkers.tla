------------------------------ MODULE BgWorkers ------------------------------
(***************************************************************************)
(* The signal-driven background workers: hello_world, hello_signal,        *)
(* hello_notify, count_relations, kill_idle and receiver_raw, under the    *)
(* postmaster that starts, signals and restarts them.  A batch of          *)
(* receiver_raw, the matter of ReceiverRaw, is here one query.             *)
(*                                                                         *)
(* They share one shape: nap on the process latch, reset it, handle SIGHUP *)
(* (reload the configuration, rebuild the query), handle SIGTERM, run one  *)
(* query.  Signal handlers run between any two steps.  They differ in what *)
(* the predicates below say, in one order (hello_notify clears got_sighup  *)
(* before it reloads, the others after), and in that receiver_raw has a    *)
(* second sleep, a select() on its connection that the latch does not end. *)
(***************************************************************************)
EXTENDS Naturals, Sequences

CONSTANTS
  Values,      \* values of the one reloadable parameter
  MaxReloads,  \* bound: reloads, for each set of workers shared_preload_libraries may name
  MaxErrors    \* bound: queries that raise an error

AllWorkers == {"hello_world", "hello_signal", "hello_notify", "count_relations", "kill_idle",
               "receiver_raw"}
Preloads == DOMAIN MaxReloads

ASSUME ConstantsAssumption ==
  /\ Preloads \subseteq SUBSET AllWorkers /\ MaxReloads \in [Preloads -> Nat]
  /\ Values # {} /\ MaxErrors \in Nat

VARIABLES
  conf,         \* parameter value in the configuration file
  hups,         \* hups[w]: a SIGHUP is on its way to w
  pc,           \* pc[w]: where w is in its main function
  latch,        \* latch[w]: w's process latch is set
  got_sighup,   \* got_sighup[w]: flag of w's SIGHUP handler
  got_sigterm,  \* got_sigterm[w]: flag of w's SIGTERM handler
  loaded,       \* loaded[w]: parameter value w has loaded
  query,        \* query[w]: values the text in w's query buffer was built with
  idle,         \* idle[w]: pg_stat_activity shows w as idle
  raced,        \* history: a SIGHUP reached w between its reload and its clear
  reloads,      \* reloads left
  errors        \* query errors so far

sigVars == <<hups, latch, got_sighup, got_sigterm>>
vars == <<conf, sigVars, pc, loaded, query, idle, raced, reloads, errors>>

Places == {"down", "wait", "hup", "load", "clear", "term", "query", "select", "top", "gone"}

HandlesSighup(w) == w \in {"hello_signal", "hello_notify", "kill_idle", "receiver_raw"}
\* The latch alone is set by count_relations; hello_world ignores SIGHUP.
WakesOnSighup(w) == HandlesSighup(w) \/ w = "count_relations"
ClearsFirst(w) == w = "hello_notify"
ChecksSigtermInside(w) == HandlesSighup(w)
ChecksSigtermOnTop(w) == w # "hello_signal"
RunsQuery(w) == w \in {"hello_notify", "count_relations", "kill_idle", "receiver_raw"}
Selects(w) == w = "receiver_raw"
ReportsIdle(w) == w \in {"hello_notify", "kill_idle", "receiver_raw"}
Restarts(w) == w \in {"hello_signal", "hello_notify", "kill_idle", "receiver_raw"}

Running(w) == pc[w] \notin {"down", "gone"}
Exited(w) == IF Restarts(w) THEN "down" ELSE "gone"
Goto(w, place) == pc' = [pc EXCEPT ![w] = place]
AfterQuery(w) == IF Selects(w) THEN "select" ELSE "top"

Init ==
  /\ conf \in Values
  /\ \E preload \in Preloads :
       /\ pc = [w \in AllWorkers |-> IF w \in preload THEN "down" ELSE "gone"]
       /\ reloads = MaxReloads[preload]
  /\ hups = [w \in AllWorkers |-> FALSE] /\ latch = [w \in AllWorkers |-> FALSE]
  /\ got_sighup = [w \in AllWorkers |-> FALSE] /\ got_sigterm = [w \in AllWorkers |-> FALSE]
  /\ loaded = [w \in AllWorkers |-> conf] /\ query = [w \in AllWorkers |-> <<>>]
  /\ idle = [w \in AllWorkers |-> FALSE] /\ raced = [w \in AllWorkers |-> FALSE]
  /\ errors = 0

-----------------------------------------------------------------------------
(* The postmaster (external) and the signal handlers.                      *)

\* The configuration file changes, or is touched, and is reloaded: the
\* postmaster re-reads it and signals its children.
Reload(v) ==
  /\ reloads > 0
  /\ conf' = v /\ reloads' = reloads - 1
  /\ hups' = [w \in AllWorkers |-> hups[w] \/ (Running(w) /\ WakesOnSighup(w))]
  /\ UNCHANGED <<latch, got_sighup, got_sigterm, pc, loaded, query, idle, raced, errors>>

sighup_handler(w) ==
  /\ hups[w] /\ Running(w)
  /\ hups' = [hups EXCEPT ![w] = FALSE]
  /\ latch' = [latch EXCEPT ![w] = TRUE]
  /\ got_sighup' = [got_sighup EXCEPT ![w] = HandlesSighup(w)]
  /\ raced' = [raced EXCEPT ![w] = @ \/ pc[w] = "clear"]
  /\ UNCHANGED <<conf, got_sigterm, pc, loaded, query, idle, reloads, errors>>

sigterm_handler(w) ==
  /\ Running(w) /\ ~got_sigterm[w]
  /\ latch' = [latch EXCEPT ![w] = TRUE]
  /\ got_sigterm' = [got_sigterm EXCEPT ![w] = TRUE]
  /\ UNCHANGED <<conf, hups, got_sighup, pc, loaded, query, idle, raced, reloads, errors>>

\* A process starts with the postmaster's configuration and with a new buffer
\* holding the query; its flags are clear.
StartWorker(w) ==
  /\ pc[w] = "down"
  /\ Goto(w, "top")
  /\ loaded' = [loaded EXCEPT ![w] = conf]
  /\ query' = [query EXCEPT ![w] = <<conf>>]
  /\ UNCHANGED <<conf, sigVars, idle, raced, reloads, errors>>

-----------------------------------------------------------------------------
(* The main functions.                                                     *)

\* What dies with a process: its flags, its buffer, its signals under way.
Forget(w) ==
  /\ hups' = [hups EXCEPT ![w] = FALSE]
  /\ latch' = [latch EXCEPT ![w] = FALSE]
  /\ got_sighup' = [got_sighup EXCEPT ![w] = FALSE]
  /\ got_sigterm' = [got_sigterm EXCEPT ![w] = FALSE]
  /\ query' = [query EXCEPT ![w] = <<>>]
  /\ raced' = [raced EXCEPT ![w] = FALSE]

\* Mutant: the entry of pg_stat_activity outlives the process.
ExitStaysIdle(w, place) == Goto(w, place) /\ Forget(w) /\ UNCHANGED <<conf, loaded, idle, reloads>>

Exit(w, place) ==
  /\ Goto(w, place)
  /\ Forget(w)
  /\ idle' = [idle EXCEPT ![w] = FALSE]
  /\ UNCHANGED <<conf, loaded, reloads>>

LoopTop(w) ==
  /\ pc[w] = "top"
  /\ IF got_sigterm[w] /\ ChecksSigtermOnTop(w)
       THEN Exit(w, "gone") /\ UNCHANGED errors
       ELSE Goto(w, "wait")
            /\ UNCHANGED <<conf, sigVars, loaded, query, idle, raced, reloads, errors>>

\* Mutant: the flag is reset along with the latch.
NapClears(w) ==
  /\ pc[w] = "wait"
  /\ latch' = [latch EXCEPT ![w] = FALSE]
  /\ got_sighup' = [got_sighup EXCEPT ![w] = FALSE]
  /\ Goto(w, "hup")
  /\ UNCHANGED <<conf, hups, got_sigterm, loaded, query, idle, raced, reloads, errors>>

\* WaitLatch returns on the latch or after the nap; ResetLatch follows.
Nap(w) ==
  /\ pc[w] = "wait"
  /\ latch' = [latch EXCEPT ![w] = FALSE]
  /\ Goto(w, "hup")
  /\ UNCHANGED <<conf, hups, got_sighup, got_sigterm, loaded, query, idle, raced, reloads, errors>>

CheckSighup(w) ==
  /\ pc[w] = "hup"
  /\ IF got_sighup[w] /\ HandlesSighup(w)
       THEN /\ Goto(w, "load")
            /\ got_sighup' = [got_sighup EXCEPT ![w] = ~ClearsFirst(w)]
       ELSE /\ Goto(w, "term")
            /\ UNCHANGED got_sighup
  /\ UNCHANGED <<conf, hups, latch, got_sigterm, loaded, query, idle, raced, reloads, errors>>

\* Mutant: kill_idle rebuilds its query without resetting the buffer.
RebuildAppends(w) ==
  CASE w = "hello_notify" -> Append(query[w], conf)
    [] w = "kill_idle" /\ loaded[w] # conf -> Append(query[w], conf)
    [] OTHER -> query[w]

\* The buffer after the reload.  kill_idle resets it, and only if the parameter
\* has changed; hello_notify appends to what it holds.  (kill_idle rebuilds after it
\* has cleared got_sighup: the buffer is its own, so the order is not observable.)
Rebuild(w) ==
  CASE w = "hello_notify" -> Append(query[w], conf)
    [] w = "kill_idle" /\ loaded[w] # conf -> <<conf>>
    [] OTHER -> query[w]

ProcessConfigFile(w) ==
  /\ pc[w] = "load"
  /\ loaded' = [loaded EXCEPT ![w] = conf]
  /\ query' = [query EXCEPT ![w] = Rebuild(w)]
  /\ Goto(w, IF ClearsFirst(w) THEN "term" ELSE "clear")
  /\ UNCHANGED <<conf, sigVars, idle, raced, reloads, errors>>

ClearSighup(w) ==
  /\ pc[w] = "clear"
  /\ got_sighup' = [got_sighup EXCEPT ![w] = FALSE]
  /\ Goto(w, "term")
  /\ UNCHANGED <<conf, hups, latch, got_sigterm, loaded, query, idle, raced, reloads, errors>>

\* Mutant: SIGTERM is looked at on top of the loop only.
CheckSigtermNever(w) ==
  /\ pc[w] = "term"
  /\ Goto(w, IF RunsQuery(w) THEN "query" ELSE "top")
  /\ UNCHANGED <<conf, sigVars, loaded, query, idle, raced, reloads, errors>>

CheckSigterm(w) ==
  /\ pc[w] = "term"
  /\ IF got_sigterm[w] /\ ChecksSigtermInside(w)
       THEN Exit(w, "gone") /\ UNCHANGED errors
       ELSE Goto(w, IF RunsQuery(w) THEN "query" ELSE "top")
            /\ UNCHANGED <<conf, sigVars, loaded, query, idle, raced, reloads, errors>>

\* kill_idle terminates other backends that show as idle, workers included.
Victims(w) == {v \in AllWorkers \ {w} : w = "kill_idle" /\ idle[v] /\ Running(v)}

\* Mutant: the latch is reset after the query rather than after the nap.
RunQueryResetsLatch(w) ==
  /\ pc[w] = "query" /\ Len(query[w]) = 1
  /\ latch' = [latch EXCEPT ![w] = FALSE]
  /\ idle' = [idle EXCEPT ![w] = ReportsIdle(w)]
  /\ Goto(w, AfterQuery(w))
  /\ UNCHANGED <<conf, hups, got_sighup, got_sigterm, loaded, query, raced, reloads, errors>>

\* The query runs; those of kill_idle's victims that have been idle for long
\* enough get a SIGTERM.
RunQuery(w) ==
  /\ pc[w] = "query" /\ Len(query[w]) = 1
  /\ \E killed \in SUBSET Victims(w) :
       /\ latch' = [v \in AllWorkers |-> latch[v] \/ v \in killed]
       /\ got_sigterm' = [v \in AllWorkers |-> got_sigterm[v] \/ v \in killed]
  /\ idle' = [idle EXCEPT ![w] = ReportsIdle(w)]
  /\ Goto(w, AfterQuery(w))
  /\ UNCHANGED <<conf, hups, got_sighup, loaded, query, raced, reloads, errors>>

\* receiver_raw has read all there was: it sleeps on its socket, for a second at
\* least, until data comes, a signal interrupts the call or the time is up.  The
\* latch is not looked at: a signal handled before the call does not shorten it.
Select(w) ==
  /\ pc[w] = "select"
  /\ Goto(w, "top")
  /\ UNCHANGED <<conf, sigVars, loaded, query, idle, raced, reloads, errors>>

\* Two queries run together are a syntax error: exit 1.
RunBadQuery(w) ==
  /\ pc[w] = "query" /\ Len(query[w]) # 1
  /\ Exit(w, Exited(w)) /\ UNCHANGED errors

\* The query fails for a reason of its own, or the connection of receiver_raw is
\* found broken after its select: exit 1.
QueryFails(w) ==
  /\ pc[w] \in {"query", "select"} /\ errors < MaxErrors
  /\ Exit(w, Exited(w)) /\ errors' = errors + 1

\* The stream of receiver_raw ends: exit 0.
StreamEnds(w) ==
  /\ pc[w] = "query" /\ w = "receiver_raw"
  /\ Exit(w, "gone") /\ UNCHANGED errors

-----------------------------------------------------------------------------
WorkerStep(w) ==
  \/ LoopTop(w) \/ Nap(w) \/ CheckSighup(w) \/ ProcessConfigFile(w)
  \/ ClearSighup(w) \/ CheckSigterm(w) \/ RunQuery(w) \/ Select(w) \/ RunBadQuery(w)

Next ==
  \/ \E v \in Values : Reload(v)
  \/ \E w \in AllWorkers :
       \/ sighup_handler(w) \/ sigterm_handler(w) \/ StartWorker(w)
       \/ WorkerStep(w) \/ QueryFails(w) \/ StreamEnds(w)

\* Naps end (WL_TIMEOUT) and so does select (its timeout), processes run, signals are
\* delivered, and the postmaster restarts what may restart (bgw_restart_time).
Spec ==
  /\ Init /\ [][Next]_vars
  /\ \A w \in AllWorkers :
       WF_vars(WorkerStep(w)) /\ WF_vars(sighup_handler(w)) /\ WF_vars(StartWorker(w))

-----------------------------------------------------------------------------
(* Properties.                                                             *)

\* Types; and pg_stat_activity shows only running workers as idle, so that kill_idle
\* never picks one that has exited.
TypeOK ==
  /\ conf \in Values
  /\ hups \in [AllWorkers -> BOOLEAN] /\ latch \in [AllWorkers -> BOOLEAN]
  /\ got_sighup \in [AllWorkers -> BOOLEAN] /\ got_sigterm \in [AllWorkers -> BOOLEAN]
  /\ pc \in [AllWorkers -> Places] /\ loaded \in [AllWorkers -> Values]
  /\ query \in [AllWorkers -> Seq(Values)]
  /\ idle \in [AllWorkers -> BOOLEAN] /\ raced \in [AllWorkers -> BOOLEAN]
  /\ reloads \in Nat /\ errors \in Nat
  /\ \A w \in AllWorkers : idle[w] => Running(w)

\* No worker naps on a signal it has not handled: when a flag is set and the worker
\* is about to nap, its latch is set and the nap ends at once.  The select of
\* receiver_raw does sleep on a signal that came after the checks of the flags; the
\* latch is still set there, so that the nap after it adds no second wait.
NoNapOnSignal ==
  \A w \in AllWorkers :
    pc[w] \in {"wait", "select"} /\ (got_sigterm[w] \/ got_sighup[w]) => latch[w]

Quiet(w) == pc[w] = "wait" /\ ~hups[w] /\ ~got_sighup[w]

\* A napping worker with no SIGHUP left to handle has loaded the current
\* configuration, unless a SIGHUP fell between ProcessConfigFile and the clearing
\* of got_sighup (hello_notify, which clears first, has no such gap).
FreshConfig ==
  \A w \in AllWorkers : HandlesSighup(w) /\ Quiet(w) => loaded[w] = conf \/ raced[w]

\* The query kill_idle runs is built with the parameter it has loaded, once.
KillQueryCurrent ==
  pc["kill_idle"] = "query" => query["kill_idle"] = <<loaded["kill_idle"]>>

\* SIGTERM makes every worker leave, whatever else it is told meanwhile.
SigtermLeaves == \A w \in AllWorkers : got_sigterm[w] ~> ~Running(w)

\* hello_notify.c:83-84: the buffer "should be initialized properly before calling"
\* hello_notify_build_query: the query it runs is one query.
NotifyQueryWellFormed ==
  pc["hello_notify"] = "query" => Len(query["hello_notify"]) = 1
=============================================================================

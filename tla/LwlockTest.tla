----------------------------- MODULE LwlockTest -----------------------------
(***************************************************************************)
(* lwlock_test/lwlock_test.c: two backends play ping-pong with two LWLocks *)
(* and two variables in shared memory.  Backend "updater" holds the lock   *)
(* updater across SQL calls and increments updater_var; backend "waiter"   *)
(* holds the lock waiter during lwlock_test_wait and increments waiter_var *)
(* in reply.  A lock and its variable are indexed here by their owner.     *)
(*                                                                         *)
(* The LWLock routines are PostgreSQL's.  LWLockWaitForVar reads the lock, *)
(* then the variable; LWLockReleaseClearVar clears the variable, then      *)
(* releases the lock; only an update or a release wakes a sleeper.         *)
(***************************************************************************)
EXTENDS Naturals

CONSTANTS
  MaxLoops,        \* bound: argument of lwlock_test_update and lwlock_test_wait
  MaxAcquires,     \* bound: calls of lwlock_test_acquire
  MaxUpdateCalls,  \* bound: calls of lwlock_test_update
  MaxWaitCalls     \* bound: calls of lwlock_test_wait

ASSUME BoundsAssumption ==
  /\ MaxLoops \in Nat /\ MaxAcquires \in Nat
  /\ MaxUpdateCalls \in Nat /\ MaxWaitCalls \in Nat

VARIABLES
  held,      \* held[b]: backend b holds its lock
  var,       \* var[b]: updater_var or waiter_var
  pc,        \* pc[b]: where backend b is
  oldval,    \* oldval[b]: last value seen of the peer's variable, in this call
  n,         \* n[b]: argument of b's current or last call
  count,     \* loops done by the current lwlock_test_update
  done,      \* updates_done of the current or last lwlock_test_wait
  calls,     \* acquire, update and wait calls made so far
  sent,      \* history: updates of updater_var so far
  clears,    \* history: releases of the lock updater begun so far
  paired,    \* history: the waiter was waiting, unanswered, when update was called
  mark       \* history: sent and done when lwlock_test_update was last called

vars == <<held, var, pc, oldval, n, count, done, calls, sent, clears, paired, mark>>

Backends == {"updater", "waiter"}
Peer(b) == IF b = "updater" THEN "waiter" ELSE "updater"

\* "idle": no lock, no call.  "held": the updater between two calls.  "loop",
\* "wait", "read", "asleep", "changed", "free": in a loop of update or wait.
\* "exit", "clear": on the way out, before and after the variable is cleared.
Places == {"idle", "held", "loop", "wait", "read", "asleep", "changed", "free",
           "exit", "clear"}

Goto(b, place) == pc' = [pc EXCEPT ![b] = place]

\* Backend b goes to a place and wakes its peer if that sleeps on b's lock.
GotoAndWake(b, place) ==
  pc' = [pc EXCEPT ![b] = place,
                   ![Peer(b)] = IF pc[Peer(b)] = "asleep" THEN "wait" ELSE pc[Peer(b)]]

Init ==
  /\ held = [b \in Backends |-> FALSE] /\ var = [b \in Backends |-> 0]
  /\ pc = [b \in Backends |-> "idle"] /\ oldval = [b \in Backends |-> 0]
  /\ n = [b \in Backends |-> 0] /\ count = 0 /\ done = 0
  /\ calls = [acquire |-> 0, update |-> 0, wait |-> 0]
  /\ sent = 0 /\ clears = 0 /\ paired = FALSE /\ mark = [sent |-> 0, done |-> 0]

-----------------------------------------------------------------------------
(* LWLockWaitForVar on the peer's lock and variable, for either backend.   *)

WaitForVarLock(b) ==
  /\ pc[b] = "wait"
  /\ Goto(b, IF held[Peer(b)] THEN "read" ELSE "free")
  /\ UNCHANGED <<held, var, oldval, n, count, done, calls, sent, clears, paired, mark>>

\* Mutant: the value seen is not remembered, the next wait returns at once.
WaitForVarReadForgets(b) ==
  /\ pc[b] = "read"
  /\ IF var[Peer(b)] # oldval[b]
       THEN Goto(b, "changed")
       ELSE Goto(b, IF held[Peer(b)] THEN "asleep" ELSE "wait")
  /\ UNCHANGED <<held, var, oldval, n, count, done, calls, sent, clears, paired, mark>>

\* A release between the two reads has queued a wakeup: the sleep ends at once.
WaitForVarRead(b) ==
  /\ pc[b] = "read"
  /\ IF var[Peer(b)] # oldval[b]
       THEN /\ oldval' = [oldval EXCEPT ![b] = var[Peer(b)]]
            /\ Goto(b, "changed")
       ELSE /\ UNCHANGED oldval
            /\ Goto(b, IF held[Peer(b)] THEN "asleep" ELSE "wait")
  /\ UNCHANGED <<held, var, n, count, done, calls, sent, clears, paired, mark>>

(* LWLockReleaseClearVar, in two steps.                                    *)

ClearVar(b) ==
  /\ var' = [var EXCEPT ![b] = 0]
  /\ Goto(b, "clear")

\* Mutant: the lock is released without waking those who wait for it.
ReleaseLockSilently(b) ==
  /\ pc[b] = "clear"
  /\ held' = [held EXCEPT ![b] = FALSE]
  /\ Goto(b, "idle")
  /\ UNCHANGED <<var, oldval, n, count, done, calls, sent, clears, paired, mark>>

ReleaseLock(b) ==
  /\ pc[b] = "clear"
  /\ held' = [held EXCEPT ![b] = FALSE]
  /\ GotoAndWake(b, "idle")
  /\ UNCHANGED <<var, oldval, n, count, done, calls, sent, clears, paired, mark>>

-----------------------------------------------------------------------------
(* Backend 1.                                                              *)

lwlock_test_acquire ==
  /\ pc["updater"] = "idle" /\ calls.acquire < MaxAcquires
  /\ held' = [held EXCEPT !["updater"] = TRUE]
  /\ Goto("updater", "held")
  /\ calls' = [calls EXCEPT !.acquire = @ + 1]
  /\ UNCHANGED <<var, oldval, n, count, done, sent, clears, paired, mark>>

lwlock_test_update(loops) ==
  /\ pc["updater"] = "held" /\ calls.update < MaxUpdateCalls
  /\ Goto("updater", "loop")
  /\ n' = [n EXCEPT !["updater"] = loops] /\ count' = 0
  /\ oldval' = [oldval EXCEPT !["updater"] = 0]
  /\ calls' = [calls EXCEPT !.update = @ + 1]
  /\ paired' = (pc["waiter"] \in {"wait", "read", "asleep"} /\ \A b \in Backends : var[b] = 0)
  /\ mark' = [sent |-> sent, done |-> done]
  /\ UNCHANGED <<held, var, done, sent, clears>>

\* Mutant: the reply to an update is not waited for.
UpdateLoopNoWait ==
  /\ pc["updater"] = "loop" /\ count < n["updater"]
  /\ var' = [var EXCEPT !["updater"] = @ + 1] /\ sent' = sent + 1
  /\ GotoAndWake("updater", "loop") /\ count' = count + 1
  /\ UNCHANGED <<held, oldval, n, done, calls, clears, paired, mark>>

UpdateLoop ==
  /\ pc["updater"] = "loop" /\ count < n["updater"]
  /\ var' = [var EXCEPT !["updater"] = @ + 1] /\ sent' = sent + 1
  /\ GotoAndWake("updater", "wait")
  /\ UNCHANGED <<held, oldval, n, count, done, calls, clears, paired, mark>>

\* The wait returned a new value (next loop), or found the lock free (break).
UpdateAnswered ==
  /\ pc["updater"] = "changed"
  /\ count' = count + 1 /\ Goto("updater", "loop")
  /\ UNCHANGED <<held, var, oldval, n, done, calls, sent, clears, paired, mark>>

UpdateReturn ==
  /\ \/ pc["updater"] = "free"
     \/ pc["updater"] = "loop" /\ count >= n["updater"]
  /\ Goto("updater", "held")
  /\ UNCHANGED <<held, var, oldval, n, count, done, calls, sent, clears, paired, mark>>

lwlock_test_release ==
  /\ pc["updater"] = "held"
  /\ ClearVar("updater") /\ clears' = clears + 1
  /\ UNCHANGED <<held, oldval, n, count, done, calls, sent, paired, mark>>

-----------------------------------------------------------------------------
(* Backend 2.                                                              *)

lwlock_test_wait(waits_to_do) ==
  /\ pc["waiter"] = "idle" /\ calls.wait < MaxWaitCalls
  /\ held' = [held EXCEPT !["waiter"] = TRUE]
  /\ Goto("waiter", "wait")
  /\ n' = [n EXCEPT !["waiter"] = waits_to_do] /\ done' = 0
  /\ oldval' = [oldval EXCEPT !["waiter"] = 0]
  /\ calls' = [calls EXCEPT !.wait = @ + 1]
  /\ paired' = FALSE
  /\ UNCHANGED <<var, count, sent, clears, mark>>

\* One update seen: count it, reply, and leave after waits_to_do of them.
WaitAnswer ==
  /\ pc["waiter"] = "changed"
  /\ done' = done + 1
  /\ var' = [var EXCEPT !["waiter"] = @ + 1]
  /\ GotoAndWake("waiter", IF done' >= n["waiter"] THEN "exit" ELSE "wait")
  /\ UNCHANGED <<held, oldval, n, count, calls, sent, clears, paired, mark>>

\* Mutant: the function returns without releasing the lock waiter.
WaitExitKeepsLock ==
  /\ pc["waiter"] \in {"exit", "free"}
  /\ Goto("waiter", "idle")
  /\ UNCHANGED <<held, var, oldval, n, count, done, calls, sent, clears, paired, mark>>

WaitExit ==
  /\ pc["waiter"] \in {"exit", "free"}
  /\ ClearVar("waiter")
  /\ UNCHANGED <<held, oldval, n, count, done, calls, sent, clears, paired, mark>>

-----------------------------------------------------------------------------
\* The steps inside a call; a call, once made, keeps running.
Running ==
  \/ \E b \in Backends : WaitForVarLock(b) \/ WaitForVarRead(b) \/ ReleaseLock(b)
  \/ UpdateLoop \/ UpdateAnswered \/ UpdateReturn \/ WaitAnswer \/ WaitExit

Call ==
  \/ lwlock_test_acquire \/ lwlock_test_release
  \/ \E i \in 0..MaxLoops : lwlock_test_update(i) \/ lwlock_test_wait(i)

Next == Running \/ Call

StepOf(b) ==
  \/ WaitForVarLock(b) \/ WaitForVarRead(b) \/ ReleaseLock(b)
  \/ b = "updater" /\ (UpdateLoop \/ UpdateAnswered \/ UpdateReturn)
  \/ b = "waiter" /\ (WaitAnswer \/ WaitExit)

\* Each backend is a process the kernel schedules; nobody owes another call.
Spec == Init /\ [][Next]_vars /\ \A b \in Backends : WF_vars(StepOf(b))

-----------------------------------------------------------------------------
(* Properties.                                                             *)

InUpdate == pc["updater"] \in {"loop", "wait", "read", "asleep", "changed", "free"}
InWaitLoop == pc["waiter"] \in {"wait", "read", "asleep", "changed"}

\* Types; and a backend holds its lock exactly while the SQL functions say so.
TypeOK ==
  /\ held \in [Backends -> BOOLEAN] /\ var \in [Backends -> Nat]
  /\ pc \in [Backends -> Places] /\ oldval \in [Backends -> Nat]
  /\ n \in [Backends -> 0..MaxLoops] /\ count \in Nat /\ done \in Nat
  /\ calls \in [acquire : Nat, update : Nat, wait : Nat]
  /\ sent \in Nat /\ clears \in Nat /\ paired \in BOOLEAN
  /\ mark \in [sent : Nat, done : Nat]
  /\ \A b \in Backends : held[b] <=> pc[b] # "idle"

\* An upper bound: lwlock_test_wait never counts more than the updates of updater_var
\* and the clearings of it by lwlock_test_release, which look like updates to it.  No
\* update is counted twice, whichever of its reads it is seen by.
NoOvercount == done <= sent + clears

\* When the waiter was already waiting at the call of lwlock_test_update, the
\* updater is never more than one update ahead of it as long as both loop.
PingPong ==
  paired /\ InUpdate /\ InWaitLoop => sent - mark.sent <= done - mark.done + 1

\* lwlock_test_update returns, as long as lwlock_test_wait has been called only
\* once: the two backends do not wait on each other.  (A second wait restarts
\* waiter_var at 0 and may reply with the very value the updater saw last.)
UpdateReturns == InUpdate ~> (pc["updater"] = "held" \/ calls.wait > 1)

\* Once the lock updater stays free, lwlock_test_wait returns.
WaitReturns == <>[](~held["updater"]) => <>[](pc["waiter"] = "idle")
=============================================================================

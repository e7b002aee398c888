-------------------------- MODULE LwlockTest_proofs --------------------------
(***************************************************************************)
(* Proofs about LwlockTest, for every number of calls of each function and *)
(* every argument they are given.                                          *)
(***************************************************************************)
EXTENDS LwlockTest, TLAPS

\* updater_var counts updates since the lock was last released.
UpdatesSent == var["updater"] <= sent

\* waiter_var is the number of updates the current lwlock_test_wait has counted.
Replies == var["waiter"] = IF pc["waiter"] \in {"idle", "clear"} THEN 0 ELSE done

\* Before it has counted anything, lwlock_test_wait has seen nothing.
NothingSeen == pc["waiter"] \in {"wait", "read", "asleep"} /\ done = 0 => oldval["waiter"] = 0

\* A change of updater_var that lwlock_test_wait has seen and not counted yet, and
\* one that it can still see.
Seen == IF pc["waiter"] = "changed" THEN 1 ELSE 0
Unseen == IF var["updater"] # oldval["waiter"] THEN 1 ELSE 0

\* What was counted, seen or can be seen was sent or cleared.
ChangesCounted == done + Seen + Unseen <= sent + clears

\* The game: updater_var counts the updates of this call, waiter_var the replies, and
\* each side is at most one behind the value it waits for.
Game ==
  paired /\ InUpdate /\ InWaitLoop =>
    /\ mark.done = 0 /\ sent = mark.sent + var["updater"]
    /\ done + Seen <= oldval["waiter"] /\ oldval["waiter"] <= var["updater"]
    /\ oldval["updater"] <= done /\ pc["updater"] # "free"
    /\ pc["updater"] \in {"loop", "changed"} => var["updater"] = oldval["updater"]
    /\ pc["updater"] \in {"wait", "read", "asleep"} => var["updater"] = oldval["updater"] + 1

IInv == TypeOK /\ UpdatesSent /\ Replies /\ NothingSeen /\ ChangesCounted /\ Game

-----------------------------------------------------------------------------
\* Where the backends are after a step of one of them.
LEMMA GotoPlaces ==
  ASSUME pc \in [Backends -> Places], NEW b \in Backends, NEW place \in Places, Goto(b, place)
  PROVE  /\ pc' \in [Backends -> Places]
         /\ pc'[b] = place /\ pc'[Peer(b)] = pc[Peer(b)]
  BY DEF Goto, Backends, Peer

LEMMA WakePlaces ==
  ASSUME pc \in [Backends -> Places], NEW b \in Backends, NEW place \in Places,
         GotoAndWake(b, place)
  PROVE  /\ pc' \in [Backends -> Places]
         /\ pc'[b] = place
         /\ pc'[Peer(b)] = IF pc[Peer(b)] = "asleep" THEN "wait" ELSE pc[Peer(b)]
  BY DEF GotoAndWake, Backends, Peer, Places

LEMMA TwoBackends ==
  /\ Peer("updater") = "waiter" /\ Peer("waiter") = "updater"
  /\ "updater" \in Backends /\ "waiter" \in Backends
  /\ \A b \in Backends : b = "updater" \/ b = "waiter"
  BY DEF Peer, Backends

LEMMA InitIInv == Init => IInv
<1> SUFFICES ASSUME Init PROVE IInv
  OBVIOUS
<1>1. TypeOK
  <2>1. 0 \in 0..MaxLoops
    BY BoundsAssumption
  <2>2. \A b \in Backends : held[b] <=> pc[b] # "idle"
    BY DEF Init
  <2>3. held \in [Backends -> BOOLEAN] /\ pc \in [Backends -> Places]
    BY DEF Init, Places
  <2> QED
    BY <2>1, <2>2, <2>3 DEF Init, TypeOK
<1>2. UpdatesSent /\ Replies /\ NothingSeen /\ ChangesCounted /\ Game
  BY DEF Init, UpdatesSent, Replies, NothingSeen, ChangesCounted, Seen, Unseen, Game, Backends
<1> QED
  BY <1>1, <1>2 DEF IInv

\* LWLockWaitForVar: the lock is read.
LEMMA WaitLockIInv == ASSUME IInv, NEW b \in Backends, WaitForVarLock(b) PROVE IInv'
<1> DEFINE place == IF held[Peer(b)] THEN "read" ELSE "free"
<1>1. /\ pc[b] = "wait" /\ Goto(b, place)
      /\ UNCHANGED <<held, var, oldval, n, count, done, calls, sent, clears, paired, mark>>
  BY DEF WaitForVarLock
<1>2. pc' \in [Backends -> Places] /\ pc'[b] = place /\ pc'[Peer(b)] = pc[Peer(b)]
  BY <1>1, GotoPlaces DEF IInv, TypeOK, Places
<1> USE TwoBackends DEF IInv
<1>3. TypeOK'
  BY <1>1, <1>2 DEF TypeOK
<1>4. UpdatesSent' /\ Replies' /\ NothingSeen'
  BY <1>1, <1>2 DEF UpdatesSent, Replies, NothingSeen
<1>5. ChangesCounted'
  BY <1>1, <1>2 DEF ChangesCounted, Seen, Unseen
<1>6. Game'
  BY <1>1, <1>2 DEF Game, Seen, InUpdate, InWaitLoop, TypeOK
<1> QED
  BY <1>3, <1>4, <1>5, <1>6

\* LWLockWaitForVar: the variable is read.
LEMMA WaitReadIInv == ASSUME IInv, NEW b \in Backends, WaitForVarRead(b) PROVE IInv'
<1> DEFINE place == IF var[Peer(b)] # oldval[b] THEN "changed"
                    ELSE IF held[Peer(b)] THEN "asleep" ELSE "wait"
<1>1. /\ pc[b] = "read" /\ Goto(b, place)
      /\ UNCHANGED <<held, var, n, count, done, calls, sent, clears, paired, mark>>
  BY DEF WaitForVarRead
<1>2. pc' \in [Backends -> Places] /\ pc'[b] = place /\ pc'[Peer(b)] = pc[Peer(b)]
  BY <1>1, GotoPlaces DEF IInv, TypeOK, Places
<1>3. /\ oldval' \in [Backends -> Nat]
      /\ oldval'[b] = var[Peer(b)] /\ oldval'[Peer(b)] = oldval[Peer(b)]
  BY TwoBackends DEF WaitForVarRead, IInv, TypeOK
<1> USE TwoBackends DEF IInv
<1>4. TypeOK'
  BY <1>1, <1>2, <1>3 DEF TypeOK
<1>5. UpdatesSent' /\ Replies' /\ NothingSeen'
  BY <1>1, <1>2, <1>3 DEF UpdatesSent, Replies, NothingSeen
<1>6. ChangesCounted'
  BY <1>1, <1>2, <1>3 DEF ChangesCounted, Seen, Unseen, TypeOK
<1>7. Game'
  BY <1>1, <1>2, <1>3 DEF Game, Seen, InUpdate, InWaitLoop, TypeOK, Replies
<1> QED
  BY <1>4, <1>5, <1>6, <1>7

\* LWLockReleaseClearVar: the lock is released and its waiters are woken.
LEMMA ReleaseIInv == ASSUME IInv, NEW b \in Backends, ReleaseLock(b) PROVE IInv'
<1>1. /\ pc[b] = "clear" /\ GotoAndWake(b, "idle") /\ held' = [held EXCEPT ![b] = FALSE]
      /\ UNCHANGED <<var, oldval, n, count, done, calls, sent, clears, paired, mark>>
  BY DEF ReleaseLock
<1>2. /\ pc' \in [Backends -> Places] /\ pc'[b] = "idle"
      /\ pc'[Peer(b)] = IF pc[Peer(b)] = "asleep" THEN "wait" ELSE pc[Peer(b)]
  BY <1>1, WakePlaces DEF IInv, TypeOK, Places
<1> USE TwoBackends DEF IInv
<1>3. TypeOK'
  <2>0. held \in [Backends -> BOOLEAN] /\ Peer(b) \in Backends /\ Peer(b) # b
    <3>1. held \in [Backends -> BOOLEAN]
      BY DEF TypeOK
    <3>2. Peer(b) \in Backends /\ Peer(b) # b
      BY TwoBackends
    <3> QED
      BY <3>1, <3>2
  <2>1. held' \in [Backends -> BOOLEAN] /\ ~held'[b] /\ held'[Peer(b)] = held[Peer(b)]
    <3> HIDE TwoBackends DEF IInv
    <3>1. held' = [held EXCEPT ![b] = FALSE]
      BY <1>1
    <3> QED
      BY <2>0, <3>1
  <2>2. \A c \in Backends : held'[c] <=> pc'[c] # "idle"
    BY <1>2, <2>1 DEF TypeOK
  <2> QED
    BY <1>1, <1>2, <2>1, <2>2 DEF TypeOK
<1>4. UpdatesSent' /\ Replies' /\ NothingSeen'
  BY <1>1, <1>2 DEF UpdatesSent, Replies, NothingSeen
<1>5. ChangesCounted'
  BY <1>1, <1>2 DEF ChangesCounted, Seen, Unseen
<1>6. Game'
  BY <1>1, <1>2 DEF Game, Seen, InUpdate, InWaitLoop, TypeOK
<1> QED
  BY <1>3, <1>4, <1>5, <1>6

-----------------------------------------------------------------------------
(* Backend 1.                                                              *)

LEMMA AcquireIInv == ASSUME IInv, lwlock_test_acquire PROVE IInv'
<1>1. /\ pc["updater"] = "idle" /\ Goto("updater", "held")
      /\ held' = [held EXCEPT !["updater"] = TRUE]
      /\ calls' = [calls EXCEPT !.acquire = @ + 1]
      /\ UNCHANGED <<var, oldval, n, count, done, sent, clears, paired, mark>>
  BY DEF lwlock_test_acquire
<1> USE TwoBackends DEF IInv
<1>2. pc' \in [Backends -> Places] /\ pc'["updater"] = "held" /\ pc'["waiter"] = pc["waiter"]
  BY <1>1, GotoPlaces DEF TypeOK, Places
<1>3. TypeOK'
  <2>1. held' \in [Backends -> BOOLEAN] /\ held'["updater"] /\ held'["waiter"] = held["waiter"]
    BY <1>1 DEF TypeOK
  <2>2. \A c \in Backends : held'[c] <=> pc'[c] # "idle"
    BY <1>2, <2>1 DEF TypeOK
  <2> QED
    BY <1>1, <1>2, <2>1, <2>2 DEF TypeOK
<1>4. UpdatesSent' /\ Replies' /\ NothingSeen' /\ ChangesCounted'
  BY <1>1, <1>2 DEF UpdatesSent, Replies, NothingSeen, ChangesCounted, Seen, Unseen
<1>5. Game'
  BY <1>2 DEF Game, InUpdate
<1> QED
  BY <1>3, <1>4, <1>5

\* The call that begins a game: nothing was sent or replied in it yet.
LEMMA UpdateIInv ==
  ASSUME IInv, NEW loops \in 0..MaxLoops, lwlock_test_update(loops) PROVE IInv'
<1>1. /\ pc["updater"] = "held" /\ Goto("updater", "loop")
      /\ n' = [n EXCEPT !["updater"] = loops] /\ count' = 0
      /\ oldval' = [oldval EXCEPT !["updater"] = 0]
      /\ calls' = [calls EXCEPT !.update = @ + 1]
      /\ paired' = (pc["waiter"] \in {"wait", "read", "asleep"} /\ \A b \in Backends : var[b] = 0)
      /\ mark' = [sent |-> sent, done |-> done]
      /\ UNCHANGED <<held, var, done, sent, clears>>
  BY DEF lwlock_test_update
<1> USE TwoBackends DEF IInv
<1>2. pc' \in [Backends -> Places] /\ pc'["updater"] = "loop" /\ pc'["waiter"] = pc["waiter"]
  BY <1>1, GotoPlaces DEF TypeOK, Places
<1>3. /\ oldval' \in [Backends -> Nat]
      /\ oldval'["updater"] = 0 /\ oldval'["waiter"] = oldval["waiter"]
  BY <1>1 DEF TypeOK
<1>4. TypeOK'
  <2>1. paired' \in BOOLEAN
    BY <1>1
  <2> QED
    BY <1>1, <1>2, <1>3, <2>1 DEF TypeOK
<1>5. UpdatesSent' /\ Replies' /\ NothingSeen' /\ ChangesCounted'
  BY <1>1, <1>2, <1>3 DEF UpdatesSent, Replies, NothingSeen, ChangesCounted, Seen, Unseen
<1>6. Game'
  <2>1. SUFFICES ASSUME paired' PROVE Game'
    BY DEF Game
  <2>2. pc["waiter"] \in {"wait", "read", "asleep"} /\ var["updater"] = 0 /\ var["waiter"] = 0
    BY <1>1, <2>1
  <2>3. done = 0 /\ oldval["waiter"] = 0
    BY <2>2 DEF Replies, NothingSeen
  <2> QED
    BY <1>1, <1>2, <1>3, <2>2, <2>3 DEF Game, Seen, TypeOK
<1> QED
  BY <1>4, <1>5, <1>6

LEMMA UpdateLoopIInv == ASSUME IInv, UpdateLoop PROVE IInv'
<1>1. /\ pc["updater"] = "loop" /\ GotoAndWake("updater", "wait")
      /\ var' = [var EXCEPT !["updater"] = @ + 1] /\ sent' = sent + 1
      /\ UNCHANGED <<held, oldval, n, count, done, calls, clears, paired, mark>>
  BY DEF UpdateLoop
<1> USE TwoBackends DEF IInv
<1>2. /\ pc' \in [Backends -> Places] /\ pc'["updater"] = "wait"
      /\ pc'["waiter"] = IF pc["waiter"] = "asleep" THEN "wait" ELSE pc["waiter"]
  BY <1>1, WakePlaces DEF TypeOK, Places
<1>3. /\ var' \in [Backends -> Nat] /\ var'["updater"] = var["updater"] + 1
      /\ var'["waiter"] = var["waiter"]
  BY <1>1 DEF TypeOK
<1>4. TypeOK'
  <2>1. \A c \in Backends : held'[c] <=> pc'[c] # "idle"
    BY <1>1, <1>2 DEF TypeOK
  <2> QED
    BY <1>1, <1>2, <1>3, <2>1 DEF TypeOK
<1>5. UpdatesSent' /\ Replies' /\ NothingSeen'
  BY <1>1, <1>2, <1>3 DEF UpdatesSent, Replies, NothingSeen, TypeOK
<1>6. ChangesCounted'
  BY <1>1, <1>2, <1>3 DEF ChangesCounted, Seen, Unseen, TypeOK
<1>7. Game'
  BY <1>1, <1>2, <1>3 DEF Game, Seen, InUpdate, InWaitLoop, TypeOK
<1> QED
  BY <1>4, <1>5, <1>6, <1>7

LEMMA UpdateAnsweredIInv == ASSUME IInv, UpdateAnswered PROVE IInv'
<1>1. /\ pc["updater"] = "changed" /\ Goto("updater", "loop") /\ count' = count + 1
      /\ UNCHANGED <<held, var, oldval, n, done, calls, sent, clears, paired, mark>>
  BY DEF UpdateAnswered
<1> USE TwoBackends DEF IInv
<1>2. pc' \in [Backends -> Places] /\ pc'["updater"] = "loop" /\ pc'["waiter"] = pc["waiter"]
  BY <1>1, GotoPlaces DEF TypeOK, Places
<1>3. TypeOK'
  BY <1>1, <1>2 DEF TypeOK
<1>4. UpdatesSent' /\ Replies' /\ NothingSeen' /\ ChangesCounted'
  BY <1>1, <1>2 DEF UpdatesSent, Replies, NothingSeen, ChangesCounted, Seen, Unseen
<1>5. Game'
  BY <1>1, <1>2 DEF Game, Seen, InUpdate, InWaitLoop
<1> QED
  BY <1>3, <1>4, <1>5

LEMMA UpdateReturnIInv == ASSUME IInv, UpdateReturn PROVE IInv'
<1>1. /\ pc["updater"] # "idle" /\ Goto("updater", "held")
      /\ UNCHANGED <<held, var, oldval, n, count, done, calls, sent, clears, paired, mark>>
  BY DEF UpdateReturn
<1> USE TwoBackends DEF IInv
<1>2. pc' \in [Backends -> Places] /\ pc'["updater"] = "held" /\ pc'["waiter"] = pc["waiter"]
  BY <1>1, GotoPlaces DEF TypeOK, Places
<1>3. TypeOK'
  BY <1>1, <1>2 DEF TypeOK
<1>4. UpdatesSent' /\ Replies' /\ NothingSeen' /\ ChangesCounted'
  BY <1>1, <1>2 DEF UpdatesSent, Replies, NothingSeen, ChangesCounted, Seen, Unseen
<1>5. Game'
  BY <1>2 DEF Game, InUpdate
<1> QED
  BY <1>3, <1>4, <1>5

\* The clearing of updater_var is a change lwlock_test_wait can see.
LEMMA TestReleaseIInv == ASSUME IInv, lwlock_test_release PROVE IInv'
<1>1. /\ pc["updater"] = "held" /\ Goto("updater", "clear") /\ clears' = clears + 1
      /\ var' = [var EXCEPT !["updater"] = 0]
      /\ UNCHANGED <<held, oldval, n, count, done, calls, sent, paired, mark>>
  BY DEF lwlock_test_release, ClearVar
<1> USE TwoBackends DEF IInv
<1>2. pc' \in [Backends -> Places] /\ pc'["updater"] = "clear" /\ pc'["waiter"] = pc["waiter"]
  BY <1>1, GotoPlaces DEF TypeOK, Places
<1>3. var' \in [Backends -> Nat] /\ var'["updater"] = 0 /\ var'["waiter"] = var["waiter"]
  BY <1>1 DEF TypeOK
<1>4. TypeOK'
  BY <1>1, <1>2, <1>3 DEF TypeOK
<1>5. UpdatesSent' /\ Replies' /\ NothingSeen' /\ ChangesCounted'
  BY <1>1, <1>2, <1>3 DEF UpdatesSent, Replies, NothingSeen, ChangesCounted, Seen, Unseen, TypeOK
<1>6. Game'
  BY <1>2 DEF Game, InUpdate
<1> QED
  BY <1>4, <1>5, <1>6

-----------------------------------------------------------------------------
(* Backend 2.                                                              *)

LEMMA TestWaitIInv ==
  ASSUME IInv, NEW waits \in 0..MaxLoops, lwlock_test_wait(waits) PROVE IInv'
<1>1. /\ pc["waiter"] = "idle" /\ Goto("waiter", "wait")
      /\ held' = [held EXCEPT !["waiter"] = TRUE]
      /\ n' = [n EXCEPT !["waiter"] = waits] /\ done' = 0
      /\ oldval' = [oldval EXCEPT !["waiter"] = 0]
      /\ calls' = [calls EXCEPT !.wait = @ + 1] /\ paired' = FALSE
      /\ UNCHANGED <<var, count, sent, clears, mark>>
  BY DEF lwlock_test_wait
<1> USE TwoBackends DEF IInv
<1>2. pc' \in [Backends -> Places] /\ pc'["waiter"] = "wait" /\ pc'["updater"] = pc["updater"]
  BY <1>1, GotoPlaces DEF TypeOK, Places
<1>3. oldval' \in [Backends -> Nat] /\ oldval'["waiter"] = 0
  BY <1>1 DEF TypeOK
<1>4. TypeOK'
  <2>3. n' \in [Backends -> 0..MaxLoops]
    BY <1>1 DEF TypeOK
  <2>4. calls' \in [acquire : Nat, update : Nat, wait : Nat]
    BY <1>1 DEF TypeOK
  <2>1. /\ held' \in [Backends -> BOOLEAN]
        /\ held'["waiter"] /\ held'["updater"] = held["updater"]
    BY <1>1 DEF TypeOK
  <2>2. \A c \in Backends : held'[c] <=> pc'[c] # "idle"
    BY <1>2, <2>1 DEF TypeOK
  <2> QED
    BY <1>1, <1>2, <1>3, <2>1, <2>2, <2>3, <2>4 DEF TypeOK
<1>5. UpdatesSent' /\ Replies' /\ NothingSeen' /\ ChangesCounted'
  BY <1>1, <1>2, <1>3 DEF UpdatesSent, Replies, NothingSeen, ChangesCounted, Seen, Unseen, TypeOK
<1>6. Game'
  BY <1>1 DEF Game
<1> QED
  BY <1>4, <1>5, <1>6

LEMMA WaitAnswerIInv == ASSUME IInv, WaitAnswer PROVE IInv'
<1> DEFINE place == IF done' >= n["waiter"] THEN "exit" ELSE "wait"
<1>1. /\ pc["waiter"] = "changed" /\ GotoAndWake("waiter", place) /\ done' = done + 1
      /\ var' = [var EXCEPT !["waiter"] = @ + 1]
      /\ UNCHANGED <<held, oldval, n, count, calls, sent, clears, paired, mark>>
  BY DEF WaitAnswer
<1> USE TwoBackends DEF IInv
<1>2. /\ pc' \in [Backends -> Places] /\ pc'["waiter"] = place /\ place \in {"exit", "wait"}
      /\ pc'["updater"] = IF pc["updater"] = "asleep" THEN "wait" ELSE pc["updater"]
  BY <1>1, WakePlaces DEF TypeOK, Places
<1>3. /\ var' \in [Backends -> Nat] /\ var'["waiter"] = var["waiter"] + 1
      /\ var'["updater"] = var["updater"]
  BY <1>1 DEF TypeOK
<1> HIDE DEF place
<1>4. TypeOK'
  <2>1. \A c \in Backends : held'[c] <=> pc'[c] # "idle"
    BY <1>1, <1>2 DEF TypeOK
  <2> QED
    BY <1>1, <1>2, <1>3, <2>1 DEF TypeOK
<1>5. UpdatesSent' /\ Replies' /\ NothingSeen'
  BY <1>1, <1>2, <1>3 DEF UpdatesSent, Replies, NothingSeen, TypeOK
<1>6. ChangesCounted'
  BY <1>1, <1>2, <1>3 DEF ChangesCounted, Seen, Unseen, TypeOK
<1>7. Game'
  BY <1>1, <1>2, <1>3 DEF Game, Seen, InUpdate, InWaitLoop, TypeOK
<1> QED
  BY <1>4, <1>5, <1>6, <1>7

LEMMA WaitExitIInv == ASSUME IInv, WaitExit PROVE IInv'
<1>1. /\ pc["waiter"] \in {"exit", "free"} /\ Goto("waiter", "clear")
      /\ var' = [var EXCEPT !["waiter"] = 0]
      /\ UNCHANGED <<held, oldval, n, count, done, calls, sent, clears, paired, mark>>
  BY DEF WaitExit, ClearVar
<1> USE TwoBackends DEF IInv
<1>2. pc' \in [Backends -> Places] /\ pc'["waiter"] = "clear" /\ pc'["updater"] = pc["updater"]
  BY <1>1, GotoPlaces DEF TypeOK, Places
<1>3. var' \in [Backends -> Nat] /\ var'["waiter"] = 0 /\ var'["updater"] = var["updater"]
  BY <1>1 DEF TypeOK
<1>4. TypeOK'
  BY <1>1, <1>2, <1>3 DEF TypeOK
<1>5. UpdatesSent' /\ Replies' /\ NothingSeen' /\ ChangesCounted'
  BY <1>1, <1>2, <1>3 DEF UpdatesSent, Replies, NothingSeen, ChangesCounted, Seen, Unseen
<1>6. Game'
  BY <1>2 DEF Game, InWaitLoop
<1> QED
  BY <1>4, <1>5, <1>6

-----------------------------------------------------------------------------
\* The inductive invariant: one step per action.
LEMMA NextIInv == ASSUME IInv, [Next]_vars PROVE IInv'
<1>1. CASE UNCHANGED vars
  BY <1>1 DEF IInv, vars, TypeOK, UpdatesSent, Replies, NothingSeen, ChangesCounted, Seen, Unseen,
              Game, InUpdate, InWaitLoop
<1>2. CASE Running
  BY <1>2, WaitLockIInv, WaitReadIInv, ReleaseIInv, UpdateLoopIInv, UpdateAnsweredIInv,
     UpdateReturnIInv, WaitAnswerIInv, WaitExitIInv DEF Running
<1>3. CASE Call
  BY <1>3, AcquireIInv, TestReleaseIInv, UpdateIInv, TestWaitIInv DEF Call
<1> QED
  BY <1>1, <1>2, <1>3 DEF Next

LEMMA InvariantIInv == Spec => []IInv
  BY InitIInv, NextIInv, PTL DEF Spec

\* The state is well typed, and a backend holds its lock exactly from the function
\* that acquires it to the end of the one that releases it.
THEOREM TypeCorrect == Spec => []TypeOK
<1>1. IInv => TypeOK
  BY DEF IInv
<1> QED
  BY <1>1, InvariantIInv, PTL

\* lwlock_test_wait returns no more than the updates sent and the releases made,
\* whatever changes of updater_var it sees and misses.
THEOREM CountBounded == Spec => []NoOvercount
<1>1. IInv => NoOvercount
  BY DEF IInv, NoOvercount, ChangesCounted, Seen, Unseen, TypeOK
<1> QED
  BY <1>1, InvariantIInv, PTL

\* With the waiter waiting at the call of lwlock_test_update, every update is replied
\* to before the next one: neither side skips a value of the other's variable.
THEOREM InStep == Spec => []PingPong
<1>1. IInv => PingPong
  <2>1. SUFFICES ASSUME IInv, paired, InUpdate, InWaitLoop
                 PROVE  sent - mark.sent <= done - mark.done + 1
    BY DEF PingPong
  <2>2. /\ mark.done = 0 /\ sent = mark.sent + var["updater"] /\ oldval["updater"] <= done
        /\ var["updater"] = oldval["updater"] \/ var["updater"] = oldval["updater"] + 1
    BY <2>1 DEF IInv, Game, InUpdate
  <2> QED
    BY <2>1, <2>2 DEF IInv, TypeOK, Backends
<1> QED
  BY <1>1, InvariantIInv, PTL
=============================================================================

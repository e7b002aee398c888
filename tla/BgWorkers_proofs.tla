-------------------------- MODULE BgWorkers_proofs --------------------------
(***************************************************************************)
(* Proofs about BgWorkers, for every set of preloaded workers, every       *)
(* number of reloads and query errors, and every place a signal falls.     *)
(***************************************************************************)
EXTENDS BgWorkers, TLAPS

\* A process that does not run has no flag set.
Forgotten ==
  \A w \in AllWorkers : ~Running(w) => ~got_sighup[w] /\ ~got_sigterm[w]

\* Where a worker may be with SIGTERM flagged and its latch reset: between the nap
\* and the check of the flag, in the loop or on top of it.
TermAhead(w) ==
  IF ChecksSigtermInside(w) THEN {"hup", "load", "clear", "term"}
                            ELSE {"hup", "load", "clear", "term", "query", "top"}

\* The same for SIGHUP: hello_notify clears the flag when it takes it.
HupAhead(w) == IF ClearsFirst(w) THEN {"hup"} ELSE {"hup", "load", "clear"}

\* A flag without the latch is one that a check ahead in this loop will find.
LatchOrAhead ==
  \A w \in AllWorkers :
    /\ got_sigterm[w] /\ ~latch[w] => pc[w] \in TermAhead(w)
    /\ got_sighup[w] /\ ~latch[w] => pc[w] \in HupAhead(w)

\* count_relations, whose SIGHUP handler sets the latch alone, and hello_world have
\* no SIGHUP flagged.
SighupHandled == \A w \in AllWorkers : got_sighup[w] => HandlesSighup(w)

\* A stale configuration is announced: a SIGHUP is under way, or flagged and not
\* about to be cleared, or being handled; else it was lost to the race.
Announced ==
  \A w \in AllWorkers : HandlesSighup(w) /\ Running(w) =>
    \/ loaded[w] = conf \/ hups[w] \/ raced[w]
    \/ got_sighup[w] /\ pc[w] # "clear"
    \/ pc[w] = "load"

\* hello_notify is never between its reload and a clear.
NotifyNeverClears == pc["hello_notify"] # "clear" /\ ~raced["hello_notify"]

\* The buffer of kill_idle, wherever it is.
KillBuffer == Running("kill_idle") => query["kill_idle"] = <<loaded["kill_idle"]>>

IInv ==
  /\ TypeOK /\ Forgotten /\ LatchOrAhead /\ SighupHandled
  /\ Announced /\ NotifyNeverClears /\ KillBuffer

-----------------------------------------------------------------------------
\* The buffer after a reload holds values of the parameter.
LEMMA RebuildType ==
  ASSUME TypeOK, NEW w \in AllWorkers
  PROVE  Rebuild(w) \in Seq(Values)
<1>1. query[w] \in Seq(Values) /\ conf \in Values
  BY DEF TypeOK
<1>2. Append(query[w], conf) \in Seq(Values) /\ <<conf>> \in Seq(Values)
  BY <1>1
<1> QED
  BY <1>1, <1>2 DEF Rebuild

\* The initial states.
LEMMA InitIInv == Init => IInv
<1> SUFFICES ASSUME Init PROVE IInv
  OBVIOUS
<1>1. reloads \in Nat
  BY ConstantsAssumption DEF Init, Preloads
<1>2. TypeOK
  BY <1>1 DEF Init, TypeOK, Places, Running
<1>3. Forgotten /\ SighupHandled /\ LatchOrAhead /\ Announced /\ NotifyNeverClears /\ KillBuffer
  BY DEF Init, Forgotten, SighupHandled, LatchOrAhead, Announced, NotifyNeverClears, KillBuffer, Running,
         AllWorkers
<1> QED
  BY <1>2, <1>3 DEF IInv

\* The postmaster signals its children.
LEMMA ReloadIInv == ASSUME IInv, NEW v \in Values, Reload(v) PROVE IInv'
<1> USE DEF IInv, Reload
<1>1. TypeOK'
  BY DEF TypeOK, Running
<1>2. Forgotten' /\ SighupHandled' /\ LatchOrAhead'
  BY DEF Forgotten, SighupHandled, LatchOrAhead, TermAhead, HupAhead, Running
<1>3. Announced'
  BY DEF Announced, Running, WakesOnSighup, TypeOK
<1>4. NotifyNeverClears' /\ KillBuffer'
  BY DEF NotifyNeverClears, KillBuffer, Running
<1> QED
  BY <1>1, <1>2, <1>3, <1>4

\* The handlers: a flag is set together with the latch.
LEMMA SighupIInv == ASSUME IInv, NEW w \in AllWorkers, sighup_handler(w) PROVE IInv'
<1> USE DEF IInv, sighup_handler
<1>1. TypeOK'
  BY DEF TypeOK, Running, HandlesSighup
<1>2. Forgotten' /\ SighupHandled'
  BY DEF Forgotten, SighupHandled, Running, TypeOK
<1>3. LatchOrAhead'
  BY DEF LatchOrAhead, TermAhead, HupAhead, TypeOK
<1>4. Announced'
  BY DEF Announced, Running, TypeOK
<1>5. NotifyNeverClears' /\ KillBuffer'
  BY DEF NotifyNeverClears, KillBuffer, Running, TypeOK
<1> QED
  BY <1>1, <1>2, <1>3, <1>4, <1>5

LEMMA SigtermIInv == ASSUME IInv, NEW w \in AllWorkers, sigterm_handler(w) PROVE IInv'
<1> USE DEF IInv, sigterm_handler
<1>1. TypeOK'
  BY DEF TypeOK, Running
<1>2. Forgotten' /\ SighupHandled'
  BY DEF Forgotten, SighupHandled, Running, TypeOK
<1>3. LatchOrAhead'
  BY DEF LatchOrAhead, TermAhead, HupAhead, TypeOK
<1>4. Announced' /\ NotifyNeverClears' /\ KillBuffer'
  BY DEF Announced, NotifyNeverClears, KillBuffer, Running
<1> QED
  BY <1>1, <1>2, <1>3, <1>4

LEMMA StartIInv == ASSUME IInv, NEW w \in AllWorkers, StartWorker(w) PROVE IInv'
<1> USE DEF IInv, StartWorker, Goto, sigVars
<1>1. TypeOK'
  <2>1. <<conf>> \in Seq(Values)
    BY DEF TypeOK
  <2> QED
    BY <2>1 DEF TypeOK, Running, Places
<1>2. Forgotten' /\ SighupHandled' /\ LatchOrAhead'
  BY DEF Forgotten, SighupHandled, LatchOrAhead, TermAhead, HupAhead, Running, TypeOK
<1>3. Announced'
  BY DEF Announced, Running, TypeOK
<1>4. NotifyNeverClears' /\ KillBuffer'
  BY DEF NotifyNeverClears, KillBuffer, Running, TypeOK
<1> QED
  BY <1>1, <1>2, <1>3, <1>4

\* Every way out forgets the process.
LEMMA ExitIInv ==
  ASSUME IInv, NEW w \in AllWorkers, NEW place \in {"down", "gone"}, Exit(w, place),
         errors' \in Nat
  PROVE  IInv'
<1> USE DEF IInv, Exit, Forget, Goto
<1>1. TypeOK'
  <2>1. <<>> \in Seq(Values)
    OBVIOUS
  <2> QED
    BY <2>1 DEF TypeOK, Running, Places
<1>2. Forgotten' /\ SighupHandled' /\ LatchOrAhead'
  BY DEF Forgotten, SighupHandled, LatchOrAhead, TermAhead, HupAhead, Running, TypeOK
<1>3. Announced'
  BY DEF Announced, Running, TypeOK
<1>4. NotifyNeverClears' /\ KillBuffer'
  BY DEF NotifyNeverClears, KillBuffer, Running, TypeOK
<1> QED
  BY <1>1, <1>2, <1>3, <1>4

-----------------------------------------------------------------------------
(* The main functions.                                                     *)

LEMMA LoopTopIInv == ASSUME IInv, NEW w \in AllWorkers, LoopTop(w) PROVE IInv'
<1>1. CASE got_sigterm[w] /\ ChecksSigtermOnTop(w)
  <2>1. Exit(w, "gone") /\ errors' \in Nat
    BY <1>1 DEF LoopTop, IInv, TypeOK
  <2> QED
    BY <2>1, ExitIInv
<1>2. CASE ~(got_sigterm[w] /\ ChecksSigtermOnTop(w))
  <2>1. /\ pc[w] = "top" /\ Goto(w, "wait")
        /\ UNCHANGED <<conf, sigVars, loaded, query, idle, raced, reloads, errors>>
    BY <1>2 DEF LoopTop
  <2> USE DEF IInv, Goto, sigVars
  <2>2. TypeOK'
    BY <2>1 DEF TypeOK, Running, Places
  <2>3. Forgotten' /\ SighupHandled'
    BY <2>1 DEF Forgotten, SighupHandled, Running, TypeOK
  <2>4. LatchOrAhead'
    BY <2>1, <1>2 DEF LatchOrAhead, TermAhead, HupAhead, TypeOK, AllWorkers,
       ChecksSigtermOnTop, ChecksSigtermInside, HandlesSighup
  <2>5. Announced' /\ NotifyNeverClears' /\ KillBuffer'
    BY <2>1 DEF Announced, NotifyNeverClears, KillBuffer, Running, TypeOK
  <2> QED
    BY <2>2, <2>3, <2>4, <2>5
<1> QED
  BY <1>1, <1>2

\* The latch is reset before the flags are looked at.
LEMMA NapIInv == ASSUME IInv, NEW w \in AllWorkers, Nap(w) PROVE IInv'
<1> USE DEF IInv, Nap, Goto
<1>1. TypeOK'
  BY DEF TypeOK, Running, Places
<1>2. Forgotten' /\ SighupHandled'
  BY DEF Forgotten, SighupHandled, Running, TypeOK
<1>3. LatchOrAhead'
  <2>1. got_sighup[w] => HandlesSighup(w)
    BY DEF SighupHandled
  <2> QED
    BY <2>1 DEF LatchOrAhead, TermAhead, HupAhead, TypeOK
<1>4. Announced' /\ NotifyNeverClears' /\ KillBuffer'
  BY DEF Announced, NotifyNeverClears, KillBuffer, Running, TypeOK
<1> QED
  BY <1>1, <1>2, <1>3, <1>4

LEMMA CheckSighupIInv == ASSUME IInv, NEW w \in AllWorkers, CheckSighup(w) PROVE IInv'
<1> USE DEF IInv, CheckSighup, Goto
<1>1. TypeOK'
  BY DEF TypeOK, Running, Places, ClearsFirst
<1>2. Forgotten' /\ SighupHandled'
  BY DEF Forgotten, SighupHandled, Running, TypeOK
<1>3. LatchOrAhead'
  BY DEF LatchOrAhead, TermAhead, HupAhead, TypeOK, SighupHandled
<1>4. Announced'
  BY DEF Announced, Running, TypeOK
<1>5. NotifyNeverClears' /\ KillBuffer'
  BY DEF NotifyNeverClears, KillBuffer, Running, TypeOK, AllWorkers
<1> QED
  BY <1>1, <1>2, <1>3, <1>4, <1>5

LEMMA ProcessConfigFileIInv ==
  ASSUME IInv, NEW w \in AllWorkers, ProcessConfigFile(w) PROVE IInv'
<1> USE DEF IInv, ProcessConfigFile, Goto, sigVars
<1>1. TypeOK'
  <2>1. Rebuild(w) \in Seq(Values)
    BY RebuildType
  <2> QED
    BY <2>1 DEF TypeOK, Running, Places
<1>2. Forgotten' /\ SighupHandled'
  BY DEF Forgotten, SighupHandled, Running, TypeOK
<1>3. LatchOrAhead'
  BY DEF LatchOrAhead, TermAhead, HupAhead, TypeOK
<1>4. Announced'
  BY DEF Announced, Running, TypeOK
<1>5. NotifyNeverClears'
  BY DEF NotifyNeverClears, TypeOK, ClearsFirst
<1>6. KillBuffer'
  <2>1. w = "kill_idle" => Rebuild(w) = <<conf>>
    BY DEF Rebuild, KillBuffer, Running
  <2> QED
    BY <2>1 DEF KillBuffer, Running, TypeOK
<1> QED
  BY <1>1, <1>2, <1>3, <1>4, <1>5, <1>6

LEMMA ClearSighupIInv == ASSUME IInv, NEW w \in AllWorkers, ClearSighup(w) PROVE IInv'
<1> USE DEF IInv, ClearSighup, Goto
<1>1. TypeOK'
  BY DEF TypeOK, Running, Places
<1>2. Forgotten' /\ SighupHandled'
  BY DEF Forgotten, SighupHandled, Running, TypeOK
<1>3. LatchOrAhead'
  BY DEF LatchOrAhead, TermAhead, HupAhead, TypeOK
<1>4. Announced'
  BY DEF Announced, Running, TypeOK
<1>5. NotifyNeverClears' /\ KillBuffer'
  BY DEF NotifyNeverClears, KillBuffer, Running, TypeOK
<1> QED
  BY <1>1, <1>2, <1>3, <1>4, <1>5

LEMMA CheckSigtermIInv == ASSUME IInv, NEW w \in AllWorkers, CheckSigterm(w) PROVE IInv'
<1>1. CASE got_sigterm[w] /\ ChecksSigtermInside(w)
  <2>1. Exit(w, "gone") /\ errors' \in Nat
    BY <1>1 DEF CheckSigterm, IInv, TypeOK
  <2> QED
    BY <2>1, ExitIInv
<1>2. CASE ~(got_sigterm[w] /\ ChecksSigtermInside(w))
  <2>1. /\ pc[w] = "term" /\ (Goto(w, "query") \/ Goto(w, "top"))
        /\ UNCHANGED <<conf, sigVars, loaded, query, idle, raced, reloads, errors>>
    BY <1>2 DEF CheckSigterm
  <2> USE DEF IInv, Goto, sigVars
  <2>2. TypeOK'
    BY <2>1 DEF TypeOK, Running, Places
  <2>3. Forgotten' /\ SighupHandled'
    BY <2>1 DEF Forgotten, SighupHandled, Running, TypeOK
  <2>4. LatchOrAhead'
    BY <2>1, <1>2 DEF LatchOrAhead, TermAhead, HupAhead, TypeOK
  <2>5. Announced'
    BY <2>1 DEF Announced, Running, TypeOK
  <2>6. NotifyNeverClears' /\ KillBuffer'
    BY <2>1 DEF NotifyNeverClears, KillBuffer, Running, TypeOK, AllWorkers
  <2> QED
    BY <2>2, <2>3, <2>4, <2>5, <2>6
<1> QED
  BY <1>1, <1>2

\* The victims of kill_idle get the flag and the latch, whatever they do meanwhile.
LEMMA RunQueryIInv == ASSUME IInv, NEW w \in AllWorkers, RunQuery(w) PROVE IInv'
<1> PICK killed \in SUBSET Victims(w) :
      /\ latch' = [v \in AllWorkers |-> latch[v] \/ v \in killed]
      /\ got_sigterm' = [v \in AllWorkers |-> got_sigterm[v] \/ v \in killed]
  BY DEF RunQuery
<1>1. /\ pc[w] = "query" /\ Goto(w, AfterQuery(w)) /\ idle' = [idle EXCEPT ![w] = ReportsIdle(w)]
      /\ UNCHANGED <<conf, hups, got_sighup, loaded, query, raced, reloads, errors>>
  BY DEF RunQuery
<1> USE DEF IInv, Goto
<1>2. TypeOK'
  BY <1>1 DEF TypeOK, Running, Places, ReportsIdle, AfterQuery
<1>3. Forgotten' /\ SighupHandled'
  BY <1>1 DEF Forgotten, SighupHandled, Running, TypeOK, Victims, AfterQuery
<1>4. LatchOrAhead'
  BY <1>1 DEF LatchOrAhead, TermAhead, HupAhead, TypeOK, AfterQuery, Selects,
              ChecksSigtermInside, HandlesSighup
<1>5. Announced' /\ NotifyNeverClears' /\ KillBuffer'
  BY <1>1 DEF Announced, NotifyNeverClears, KillBuffer, Running, TypeOK, AfterQuery
<1> QED
  BY <1>2, <1>3, <1>4, <1>5

\* What a worker leaves its select with is what it entered it with.
LEMMA SelectIInv == ASSUME IInv, NEW w \in AllWorkers, Select(w) PROVE IInv'
<1> USE DEF IInv, Select, Goto, sigVars
<1>1. TypeOK'
  BY DEF TypeOK, Running, Places
<1>2. Forgotten' /\ SighupHandled'
  BY DEF Forgotten, SighupHandled, Running, TypeOK
<1>3. LatchOrAhead'
  BY DEF LatchOrAhead, TermAhead, HupAhead, TypeOK
<1>4. Announced' /\ NotifyNeverClears' /\ KillBuffer'
  BY DEF Announced, NotifyNeverClears, KillBuffer, Running, TypeOK
<1> QED
  BY <1>1, <1>2, <1>3, <1>4

-----------------------------------------------------------------------------
\* The inductive invariant: one step per action.
LEMMA NextIInv == ASSUME IInv, [Next]_vars PROVE IInv'
<1>1. CASE UNCHANGED vars
  BY <1>1 DEF IInv, vars, sigVars, TypeOK, Forgotten, LatchOrAhead, Announced, NotifyNeverClears,
              KillBuffer, SighupHandled, Running, TermAhead, HupAhead
<1>2. ASSUME NEW v \in Values, Reload(v) PROVE IInv'
  BY <1>2, ReloadIInv
<1>3. ASSUME NEW w \in AllWorkers,
             sighup_handler(w) \/ sigterm_handler(w) \/ StartWorker(w)
      PROVE  IInv'
  BY <1>3, SighupIInv, SigtermIInv, StartIInv
<1>4. ASSUME NEW w \in AllWorkers, RunBadQuery(w) \/ QueryFails(w) \/ StreamEnds(w) PROVE IInv'
  <2>1. errors' \in Nat /\ \E place \in {"down", "gone"} : Exit(w, place)
    BY <1>4 DEF RunBadQuery, QueryFails, StreamEnds, Exited, IInv, TypeOK
  <2> QED
    BY <2>1, ExitIInv
<1>5. ASSUME NEW w \in AllWorkers, WorkerStep(w) PROVE IInv'
  BY <1>4, <1>5, LoopTopIInv, NapIInv, CheckSighupIInv, ProcessConfigFileIInv, ClearSighupIInv,
     CheckSigtermIInv, RunQueryIInv, SelectIInv DEF WorkerStep
<1> QED
  BY <1>1, <1>2, <1>3, <1>4, <1>5 DEF Next

LEMMA InvariantIInv == Spec => []IInv
  BY InitIInv, NextIInv, PTL DEF Spec

\* The state of the workers is well typed, and pg_stat_activity never shows as idle a
\* worker that has exited (pgstat_report_activity in the main functions).
THEOREM TypeCorrect == Spec => []TypeOK
<1>1. IInv => TypeOK
  BY DEF IInv
<1> QED
  BY <1>1, InvariantIInv, PTL

\* No worker naps on a signal it has not handled, and receiver_raw leaves its select
\* with the latch still set for it: the handlers set flag and latch together, and the
\* loop resets the latch before it looks at the flags.
THEOREM NoNap == Spec => []NoNapOnSignal
<1>1. IInv => NoNapOnSignal
  BY DEF IInv, LatchOrAhead, TermAhead, HupAhead, NoNapOnSignal
<1> QED
  BY <1>1, InvariantIInv, PTL

\* A napping worker with no SIGHUP left has loaded the current configuration, or a
\* SIGHUP was lost between its ProcessConfigFile and its got_sighup = false.
THEOREM ConfigFresh == Spec => []FreshConfig
<1>1. IInv => FreshConfig
  BY DEF IInv, Announced, FreshConfig, Quiet, Running
<1> QED
  BY <1>1, InvariantIInv, PTL

\* hello_notify, which clears got_sighup before it reloads, loses no SIGHUP at all.
NotifyFresh == Quiet("hello_notify") => loaded["hello_notify"] = conf

THEOREM NotifyLosesNothing == Spec => []NotifyFresh
<1>1. IInv => NotifyFresh
  BY DEF IInv, Announced, NotifyNeverClears, NotifyFresh, Quiet, Running, HandlesSighup,
         AllWorkers
<1> QED
  BY <1>1, InvariantIInv, PTL

\* The query kill_idle runs is built, once, with the kill_max_idle_time it has loaded
\* (kill_idle_build_query runs only when the parameter has changed).
THEOREM KillQuery == Spec => []KillQueryCurrent
<1>1. IInv => KillQueryCurrent
  BY DEF IInv, KillBuffer, KillQueryCurrent, Running
<1> QED
  BY <1>1, InvariantIInv, PTL
=============================================================================

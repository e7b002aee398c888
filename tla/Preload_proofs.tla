--------------------------- MODULE Preload_proofs ---------------------------
(***************************************************************************)
(* Proofs about the preloaded libraries, for every set and order of them,  *)
(* every number of sessions and statements, and every size of the pipe.    *)
(***************************************************************************)
EXTENDS Preload, FiniteSetTheorems, TLAPS

-----------------------------------------------------------------------------
(* The chains of hooks.                                                    *)

On(i, point) == point \in HookedBy(libraries[i])
Done == Len(libraries) - Len(toload)

\* lib is the last of the first k libraries that hooks the point, or "core" if none does.
Top(k, point, lib) ==
  \/ lib = "core" /\ \A m \in 1..k : ~On(m, point)
  \/ \E m \in 1..k : lib = libraries[m] /\ On(m, point) /\ \A n \in (m + 1)..k : ~On(n, point)

\* A hook variable holds the last library loaded that hooks the point, and each library
\* that saves the hook has the one before it.
ChainsShape ==
  /\ libraries \in Seq(Libraries) /\ IsInjective(libraries)
  /\ toload \in Seq(Libraries) /\ Len(toload) <= Len(libraries)
  /\ \A i \in 1..Len(toload) : toload[i] = libraries[Done + i]
  /\ hook \in [Points -> Libraries \cup {"core"}]
  /\ prev \in [Libraries -> [Points -> Libraries \cup {"core"}]]
  /\ \A point \in Points : Top(Done, point, hook[point])
  /\ \A i \in 1..Done, point \in Points :
       On(i, point) /\ SavesPrevious(libraries[i]) => Top(i - 1, point, prev[libraries[i]][point])

-----------------------------------------------------------------------------
(* A session on its way.                                                   *)

Rows == (Processes \cup {"before"}) \X Nat
Statements == offered \cup {Statement("none")}
SessTypes ==
  [pc : {"idle", "hook", "commit", "panic", "dead"}, stmt : Statements, point : Points \cup {"none"},
   at : Libraries \cup {"core", "none"}, locks : SUBSET (Rels \X {"exclusive", "shared"}),
   snapshot : SUBSET Rows, seen : SUBSET Points]

StatementOK(stmt) ==
  /\ stmt.kind \in {"select", "insert", "drop_db", "object", "truncate", "password", "do"}
  /\ stmt.rels \in Seq(Rels) /\ stmt.internal \in BOOLEAN
  /\ stmt.kind \in {"insert", "truncate"} => stmt.rels # <<>>
  /\ stmt.kind = "password" => stmt.pw.length \in Nat

HooksTypes ==
  /\ sess \in [Processes -> SessTypes] /\ rows \in [Rels -> SUBSET Rows] /\ statements \in Nat
  /\ \A stmt \in offered : StatementOK(stmt)
  /\ toload # <<>> => dropped = {} /\ passwords = {} /\ \A p \in Processes : sess[p] = Idle

Deletes(stmt) == stmt.kind = "truncate" /\ Loaded("pg_trunc2del")
Forbidden(stmt) ==
  stmt.kind = "drop_db" /\ stmt.db = "hook_dbname" /\ stmt.user # "hook_username"

\* The chain a statement is in.
OnRoute(s) ==
  /\ s.point \in Points \ {"log"}
  /\ s.point = "utility" => s.stmt.kind \notin {"select", "insert"}
  /\ s.point = "planner" => s.stmt.kind \in {"select", "insert"} \/ Deletes(s.stmt)
  /\ s.point = "object" => s.stmt.kind \in {"drop_db", "object", "truncate"} /\ ~Deletes(s.stmt)
  /\ s.point = "password" => s.stmt.kind = "password"
  /\ s.point = "plpgsql" => s.stmt.kind = "do"
  /\ s.at = "core" \/ (Loaded(s.at) /\ s.point \in HookedBy(s.at))

\* The session is at the library or will come to it.
Ahead(lib, s) == s.at # "core" /\ Position(s.at) >= Position(lib)

\* No statement gets past the libraries that refuse it, take it over or keep it.
NoWayRound(s) ==
  /\ Loaded("hook_utility") /\ Forbidden(s.stmt) => s.point = "utility" /\ Ahead("hook_utility", s)
  /\ Loaded("pg_trunc2del") /\ s.point = "utility" /\ s.stmt.kind = "truncate" => Ahead("pg_trunc2del", s)
  /\ Loaded("object_hooks") /\ s.point = "object" /\ LeavesChain(s.stmt) =>
       s.at = "core" \/ Ahead("object_hooks", s)
  /\ Loaded("passwordcheck_extra") /\ s.point = "password" =>
       (s.at = "core" /\ ~PasswordRefused(s.stmt.pw)) \/ Ahead("passwordcheck_extra", s)
  /\ Loaded("plpgsql_cb") /\ s.point = "plpgsql" => s.at = "core" \/ Ahead("plpgsql_cb", s)

\* Where "other" has been called so far.
SeenSoFar(s) ==
  /\ s.seen \subseteq {s.point, "utility"}
  /\ s.point # "utility" =>
       ("utility" \in s.seen <=> s.stmt.kind \notin {"select", "insert"} /\ "utility" \notin Withheld(s.stmt))
  /\ s.point \in s.seen <=>
       IF s.at = "core" THEN s.point \notin Withheld(s.stmt) ELSE Position(s.at) < Position("other")

\* The locks of a TRUNCATE that is past the utility hooks, and of an INSERT.
Locked(s) ==
  /\ s.stmt.kind = "truncate" /\ (s.pc = "commit" \/ (s.pc = "hook" /\ s.point # "utility")) =>
       <<s.stmt.rels[1], "exclusive">> \in s.locks
  /\ s.stmt.kind = "insert" /\ s.pc = "commit" => <<s.stmt.rels[1], "shared">> \in s.locks

SessionOK(s) ==
  /\ s.pc \in {"hook", "commit"} => s.stmt \in offered
  /\ s.pc = "hook" => OnRoute(s) /\ NoWayRound(s) /\ (Loaded("other") => SeenSoFar(s))
  /\ s.pc = "commit" /\ Loaded("other") => Passed(s.stmt) \ Withheld(s.stmt) = s.seen
  /\ Locked(s)

\* Of two sessions with a lock on a relation neither has it exclusively.
LocksExclude ==
  \A p, q \in Processes : p # q =>
    \A one \in sess[p].locks, two \in sess[q].locks :
      one[1] = two[1] => one[2] = "shared" /\ two[2] = "shared"

HInv ==
  /\ ChainsShape /\ HooksTypes /\ (\A p \in Processes : SessionOK(sess[p]))
  /\ LocksExclude /\ Guarded /\ TruncateEmpties
-----------------------------------------------------------------------------
(* The log.                                                                *)

Chunks == [pid : Emitters, n : Nat, last : BOOLEAN]
Said == {"NOTICE", "ERROR", "LOG", "PANIC"}

JsonTypes ==
  /\ logging.log_min_messages \in ToSet(Severity)
  /\ logging.stderr \in BOOLEAN /\ logging.redirection_done \in BOOLEAN
  /\ out \in [Emitters -> Seq(Said)] /\ unsent \in [Emitters -> Seq(Chunks)]
  /\ emitted \in [Emitters -> Nat] /\ pipe \in Seq(Chunks) /\ Len(pipe) <= PipeSize
  /\ partial \in [Emitters -> 0..1] /\ file \in Seq(Emitters \X Nat) /\ torn \subseteq Processes
  /\ unheard = {}

\* What p has still to write is the end of its newest entry.
UnsentShape ==
  \A p \in Emitters :
    /\ Len(unsent[p]) <= 2
    /\ \A i \in 1..Len(unsent[p]) :
         unsent[p][i] = [pid |-> p, n |-> emitted[p], last |-> i = Len(unsent[p])]

\* The pipe is used by the processes that write to it.
PipeUsers ==
  /\ \A p \in Emitters : unsent[p] # <<>> => ToPipe(p)
  /\ \A i \in 1..Len(pipe) : ToPipe(pipe[i].pid)

\* A process that was killed in the middle of an entry says nothing any more.
TornSilent == \A p \in torn : sess[p].pc = "dead" /\ out[p] = <<>> /\ unsent[p] = <<>>

\* An entry of p is open after the i-th chunk of the pipe (or after what was read, for 0).
OpenAt(p, i) == IF i = 0 THEN partial[p] = 1 ELSE pipe[i].pid = p /\ ~pipe[i].last

\* The next chunk of p completes it, in the pipe or to be written.
Closed(p, i) ==
  \/ \E k \in (i + 1)..Len(pipe) :
       pipe[k].pid = p /\ pipe[k].last /\ \A m \in (i + 1)..(k - 1) : pipe[m].pid # p
  \/ /\ \A m \in (i + 1)..Len(pipe) : pipe[m].pid # p
     /\ p \in torn \/ Len(unsent[p]) = 1

Framed == \A p \in Emitters : \A i \in 0..Len(pipe) : OpenAt(p, i) => Closed(p, i)

\* The places up to i, and the places when the first one goes.
Upto(S, i) == {k \in S : k <= i}
Shift(S) == {i \in Nat \ {0} : i + 1 \in S}

\* With the collector: the entries of p in the file are numbered, those in the pipe follow them, and these
\* and the one it has in hand are all.
FileInOrder(p) == \A i \in Own(p) : file[i][2] = Cardinality(Upto(Own(p), i))
PipeInOrder(p) == \A i \in InPipe(p) : pipe[i].n = Cardinality(Own(p)) + Cardinality(Upto(InPipe(p), i))
InHand(p) == IF unsent[p] # <<>> \/ p \in torn THEN 1 ELSE 0
Accounted(p) == emitted[p] = Cardinality(Own(p)) + Cardinality(InPipe(p)) + InHand(p)

JInv ==
  /\ JsonTypes /\ UnsentShape /\ PipeUsers /\ TornSilent /\ Framed
  /\ logging.redirection_done => \A p \in Emitters : FileInOrder(p) /\ PipeInOrder(p) /\ Accounted(p)
-----------------------------------------------------------------------------
(* Lemmas about chains.                                                    *)

\* Which libraries are on which chain.
LEMMA HookedByWhom ==
  /\ "core" \notin Libraries /\ Libraries # {}
  /\ HookedBy("hook_utility") = {"utility"} /\ HookedBy("pg_trunc2del") = {"utility"}
  /\ HookedBy("pg_panic") = {"planner"} /\ HookedBy("object_hooks") = {"object"}
  /\ HookedBy("passwordcheck_extra") = {"password"} /\ HookedBy("plpgsql_cb") = {"plpgsql"}
  /\ HookedBy("jsonlog") = {"log"} /\ HookedBy("other") = Points
  BY DEF HookedBy, Libraries

LEMMA WhoHooks ==
  ASSUME NEW lib \in Libraries
  PROVE  /\ "utility" \in HookedBy(lib) => lib \in {"hook_utility", "pg_trunc2del", "other"}
         /\ "planner" \in HookedBy(lib) => lib \in {"pg_panic", "other"}
         /\ "object" \in HookedBy(lib) => lib \in {"object_hooks", "other"}
         /\ "password" \in HookedBy(lib) => lib \in {"passwordcheck_extra", "other"}
         /\ "plpgsql" \in HookedBy(lib) => lib \in {"plpgsql_cb", "other"}
  BY HookedByWhom DEF Libraries

\* A library that is loaded has its place in the parameter.
LEMMA LoadedPlace ==
  ASSUME ChainsShape, NEW lib
  PROVE  /\ Loaded(lib) => /\ lib \in Libraries /\ Position(lib) \in 1..Len(libraries)
                           /\ libraries[Position(lib)] = lib
         /\ toload = <<>> => \A i \in 1..Len(libraries) :
              libraries[i] = lib => Loaded(lib) /\ Position(lib) = i
<1>1. libraries \in Seq(Libraries) /\ DOMAIN libraries = 1..Len(libraries)
  BY DEF ChainsShape
<1>2. \A i, j \in 1..Len(libraries) : libraries[i] = libraries[j] => i = j
  BY <1>1 DEF ChainsShape, IsInjective
<1>3. ASSUME NEW i \in 1..Len(libraries), libraries[i] = lib PROVE Position(lib) = i
  BY <1>1, <1>2, <1>3 DEF Position
<1>4. Loaded(lib) <=> toload = <<>> /\ \E i \in 1..Len(libraries) : libraries[i] = lib
  BY <1>1 DEF Loaded, ToSet
<1> QED
  BY <1>1, <1>3, <1>4

LEMMA PlacesApart ==
  ASSUME ChainsShape, NEW a, NEW b, Loaded(a), Loaded(b), a # b
  PROVE  Position(a) # Position(b) /\ Position(a) \in Nat /\ Position(b) \in Nat
<1>1. libraries[Position(a)] = a /\ libraries[Position(b)] = b
  BY LoadedPlace
<1>2. Position(a) \in 1..Len(libraries) /\ Position(b) \in 1..Len(libraries)
  BY LoadedPlace
<1> QED
  BY <1>1, <1>2

\* What Top finds among the first k libraries.
LEMMA TopFound ==
  ASSUME ChainsShape, toload = <<>>, NEW k \in 0..Len(libraries), NEW point \in Points, NEW at,
         Top(k, point, at)
  PROVE  /\ at = "core" \/ (Loaded(at) /\ point \in HookedBy(at) /\ Position(at) <= k)
         /\ \A lib : Loaded(lib) /\ point \in HookedBy(lib) /\ Position(lib) <= k =>
              at # "core" /\ Position(at) >= Position(lib)
<1>1. /\ Len(libraries) \in Nat /\ \A i \in 1..Len(libraries) : libraries[i] \in Libraries
      /\ "core" \notin Libraries
  BY HookedByWhom DEF ChainsShape
<1>2. CASE at = "core" /\ \A m \in 1..k : ~On(m, point)
  <2>1. ASSUME NEW lib, Loaded(lib), point \in HookedBy(lib), Position(lib) <= k PROVE FALSE
    <3>1. Position(lib) \in 1..k /\ libraries[Position(lib)] = lib
      BY <2>1, <1>1, LoadedPlace
    <3> QED
      BY <3>1, <2>1, <1>2 DEF On
  <2> QED
    BY <2>1, <1>2
<1>3. ASSUME NEW m \in 1..k, at = libraries[m], On(m, point), \A n \in (m + 1)..k : ~On(n, point)
      PROVE  /\ at # "core" /\ Loaded(at) /\ point \in HookedBy(at) /\ Position(at) = m
             /\ \A lib : Loaded(lib) /\ point \in HookedBy(lib) /\ Position(lib) <= k => Position(lib) <= m
  <2>1. m \in 1..Len(libraries) /\ m \in Nat /\ k \in Nat
    BY <1>1
  <2>2. at # "core" /\ Loaded(at) /\ Position(at) = m
    BY <2>1, <1>1, <1>3, LoadedPlace
  <2>3. point \in HookedBy(at)
    BY <1>3 DEF On
  <2>4. ASSUME NEW lib, Loaded(lib), point \in HookedBy(lib), Position(lib) <= k, ~(Position(lib) <= m)
        PROVE  FALSE
    <3>1. Position(lib) \in Nat /\ libraries[Position(lib)] = lib
      BY <2>4, LoadedPlace
    <3>2. Position(lib) \in (m + 1)..k
      BY <3>1, <2>1, <2>4
    <3> QED
      BY <3>1, <3>2, <2>4, <1>3 DEF On
  <2> QED
    BY <2>2, <2>3, <2>4
<1>4. CASE \E m \in 1..k : at = libraries[m] /\ On(m, point) /\ \A n \in (m + 1)..k : ~On(n, point)
  BY <1>3, <1>4
<1> QED
  BY <1>2, <1>4 DEF Top

\* A hook variable leads to the first library of the chain.
LEMMA EnterChain ==
  ASSUME ChainsShape, toload = <<>>, NEW point \in Points
  PROVE  /\ hook[point] = "core" \/ (Loaded(hook[point]) /\ point \in HookedBy(hook[point]))
         /\ \A lib : Loaded(lib) /\ point \in HookedBy(lib) =>
              hook[point] # "core" /\ Position(hook[point]) >= Position(lib)
<1>1. Len(libraries) \in Nat /\ Done = Len(libraries) /\ Done \in 0..Len(libraries)
  BY DEF ChainsShape, Done
<1>2. Top(Done, point, hook[point])
  BY DEF ChainsShape
<1>3. \A lib : Loaded(lib) => Position(lib) <= Done
  BY <1>1, LoadedPlace
<1> QED
  BY <1>1, <1>2, <1>3, TopFound

\* A library that saved the hook leads to the next one, without a gap.
LEMMA NextInChain ==
  ASSUME ChainsShape, toload = <<>>, NEW point \in Points, NEW a, Loaded(a),
         point \in HookedBy(a), SavesPrevious(a)
  PROVE  /\ \/ prev[a][point] = "core"
            \/ /\ Loaded(prev[a][point]) /\ point \in HookedBy(prev[a][point])
               /\ Position(prev[a][point]) < Position(a)
         /\ \A lib : Loaded(lib) /\ point \in HookedBy(lib) /\ Position(lib) < Position(a) =>
              prev[a][point] # "core" /\ Position(prev[a][point]) >= Position(lib)
<1> DEFINE i == Position(a)
<1>1. Len(libraries) \in Nat /\ Done = Len(libraries)
  BY DEF ChainsShape, Done
<1>2. i \in 1..Len(libraries) /\ libraries[i] = a
  BY LoadedPlace
<1> HIDE DEF i
<1>3. i - 1 \in 0..Len(libraries) /\ i \in 1..Done
  BY <1>1, <1>2
<1>4. Top(i - 1, point, prev[a][point])
  BY <1>2, <1>3 DEF ChainsShape, On
<1>5. \A lib : Loaded(lib) => Position(lib) \in Nat
  BY LoadedPlace
<1>6. \A lib : Loaded(lib) => (Position(lib) <= i - 1 <=> Position(lib) < i)
  BY <1>2, <1>5
<1> QED
  BY <1>3, <1>4, <1>6, TopFound DEF i

-----------------------------------------------------------------------------
(* Where "other" is not called.                                            *)

LEMMA WithheldAt ==
  ASSUME NEW stmt
  PROVE  /\ Withheld(stmt) \subseteq Points /\ "planner" \notin Withheld(stmt) /\ "log" \notin Withheld(stmt)
         /\ "utility" \in Withheld(stmt) <=> stmt.kind = "truncate" /\ LoadedAfterOther("pg_trunc2del")
         /\ "object" \in Withheld(stmt) <=> LeavesChain(stmt) /\ LoadedAfterOther("object_hooks")
         /\ "password" \in Withheld(stmt) <=> LoadedAfterOther("passwordcheck_extra")
         /\ "plpgsql" \in Withheld(stmt) <=> LoadedAfterOther("plpgsql_cb")
  BY DEF Withheld, Points, LeavesChain

LEMMA PassedAt ==
  ASSUME NEW stmt
  PROVE  /\ Passed(stmt) \subseteq Points /\ "log" \notin Passed(stmt)
         /\ "utility" \in Passed(stmt) <=> stmt.kind \notin {"select", "insert"}
         /\ "planner" \in Passed(stmt) <=> stmt.kind \in {"select", "insert"} \/ Deletes(stmt)
         /\ "object" \in Passed(stmt) <=>
              stmt.kind \in {"drop_db", "object", "truncate"} /\ ~Deletes(stmt)
         /\ "password" \in Passed(stmt) <=> stmt.kind = "password"
         /\ "plpgsql" \in Passed(stmt) <=> stmt.kind = "do"
  BY DEF Passed, Points, Deletes

-----------------------------------------------------------------------------
(* What a session does on a chain.                                         *)

\* It goes on to the next library from one that neither refuses nor keeps its statement.
LEMMA PassedOn ==
  ASSUME ChainsShape, toload = <<>>, NEW s, NEW t, SessionOK(s), s.pc = "hook",
         s.at # "core", SavesPrevious(s.at),
         s.at = "hook_utility" => ~Forbidden(s.stmt),
         s.at = "pg_trunc2del" => s.stmt.kind # "truncate",
         s.at = "object_hooks" => ~LeavesChain(s.stmt),
         t.pc = "hook", t.stmt = s.stmt, t.point = s.point, t.at = prev[s.at][s.point],
         t.locks = s.locks, t.seen = IF s.at = "other" THEN s.seen \cup {s.point} ELSE s.seen
  PROVE  SessionOK(t)
<1>1. /\ s.stmt \in offered /\ OnRoute(s) /\ NoWayRound(s) /\ (Loaded("other") => SeenSoFar(s))
      /\ Loaded(s.at) /\ s.point \in HookedBy(s.at) /\ s.point \in Points /\ s.point # "log"
  BY DEF SessionOK, OnRoute
<1>2. s.at \in Libraries /\ Position(s.at) \in Nat
  BY <1>1, LoadedPlace
<1>3. /\ s.at # "passwordcheck_extra" /\ s.at # "plpgsql_cb"
  BY DEF SavesPrevious
<1>4. /\ t.at = "core" \/ (Loaded(t.at) /\ t.point \in HookedBy(t.at) /\ Position(t.at) < Position(s.at))
      /\ \A lib : Loaded(lib) /\ s.point \in HookedBy(lib) /\ Position(lib) < Position(s.at) =>
           t.at # "core" /\ Position(t.at) >= Position(lib)
  BY <1>1, NextInChain
<1>5. ASSUME NEW lib, Loaded(lib), s.point \in HookedBy(lib), Ahead(lib, s), s.at # lib
      PROVE  Ahead(lib, t)
  <2>1. Position(lib) < Position(s.at)
    BY <1>1, <1>5, PlacesApart DEF Ahead
  <2> QED
    BY <2>1, <1>4, <1>5 DEF Ahead
<1>6. OnRoute(t)
  BY <1>1, <1>4 DEF OnRoute
<1>7. NoWayRound(t)
  <2>1. Loaded("hook_utility") /\ Forbidden(t.stmt) => t.point = "utility" /\ Ahead("hook_utility", t)
    BY <1>1, <1>5, HookedByWhom DEF NoWayRound
  <2>2. Loaded("pg_trunc2del") /\ t.point = "utility" /\ t.stmt.kind = "truncate" => Ahead("pg_trunc2del", t)
    BY <1>1, <1>5, HookedByWhom DEF NoWayRound
  <2>3. Loaded("object_hooks") /\ t.point = "object" /\ LeavesChain(t.stmt) =>
          t.at = "core" \/ Ahead("object_hooks", t)
    BY <1>1, <1>5, HookedByWhom DEF NoWayRound
  <2>4. Loaded("passwordcheck_extra") /\ t.point = "password" => Ahead("passwordcheck_extra", t)
    BY <1>1, <1>3, <1>5, HookedByWhom DEF NoWayRound
  <2>5. Loaded("plpgsql_cb") /\ t.point = "plpgsql" => t.at = "core" \/ Ahead("plpgsql_cb", t)
    BY <1>1, <1>3, <1>5, HookedByWhom DEF NoWayRound
  <2> QED
    BY <2>1, <2>2, <2>3, <2>4, <2>5 DEF NoWayRound
<1>8. ASSUME Loaded("other") PROVE SeenSoFar(t)
  <2>1. "other" # "core" /\ Position("other") \in Nat /\ s.point \in HookedBy("other")
    BY <1>1, <1>8, HookedByWhom, LoadedPlace
  <2>2. SeenSoFar(s)
    BY <1>1, <1>8
  <2>3. s.point \in s.seen <=> Position(s.at) < Position("other")
    BY <2>2 DEF SeenSoFar
  <2>4. s.point \in t.seen <=> ~(Position("other") < Position(s.at))
    <3>1. CASE s.at = "other"
      BY <3>1, <2>1
    <3>2. CASE s.at # "other"
      BY <3>2, <2>1, <2>3, <1>1, <1>2, <1>8, PlacesApart
    <3> QED
      BY <3>1, <3>2
  <2>5. CASE t.at # "core"
    <3>1. Loaded(t.at) /\ Position(t.at) < Position(s.at) /\ Position(t.at) \in Nat
      BY <2>5, <1>4, LoadedPlace
    <3>2. Position("other") < Position(s.at) => Position(t.at) >= Position("other")
      BY <2>1, <1>4, <1>8
    <3>3. s.point \in t.seen <=> Position(t.at) < Position("other")
      BY <3>1, <3>2, <2>1, <2>4, <1>2
    <3> QED
      BY <3>3, <2>2, <2>5 DEF SeenSoFar
  <2>6. CASE t.at = "core"
    <3>1. ~(Position("other") < Position(s.at))
      BY <2>1, <2>6, <1>4, <1>8
    <3>2. s.point \notin Withheld(s.stmt)
      <4>1. ASSUME NEW lib, LoadedAfterOther(lib), s.point \in HookedBy(lib), Ahead(lib, s) PROVE FALSE
        <5>1. Loaded(lib) /\ Position(lib) > Position("other") /\ Position(lib) \in Nat
          BY <4>1, LoadedPlace DEF LoadedAfterOther
        <5> QED
          BY <5>1, <4>1, <3>1, <2>1, <1>2 DEF Ahead
      <4>2. CASE s.point = "utility"
        BY <4>1, <4>2, <1>1, WithheldAt, HookedByWhom DEF NoWayRound, LoadedAfterOther
      <4>3. CASE s.point = "object"
        BY <4>1, <4>3, <1>1, WithheldAt, HookedByWhom DEF NoWayRound, LoadedAfterOther
      <4>4. CASE s.point = "password"
        BY <4>1, <4>4, <1>1, WithheldAt, HookedByWhom DEF NoWayRound, LoadedAfterOther
      <4>5. CASE s.point = "plpgsql"
        BY <4>1, <4>5, <1>1, WithheldAt, HookedByWhom DEF NoWayRound, LoadedAfterOther
      <4> QED
        BY <4>2, <4>3, <4>4, <4>5, <1>1, WithheldAt DEF Points
    <3> QED
      BY <3>1, <3>2, <2>2, <2>4, <2>6 DEF SeenSoFar
  <2> QED
    BY <2>5, <2>6
<1>9. Locked(t)
  BY DEF SessionOK, Locked
<1> QED
  BY <1>1, <1>6, <1>7, <1>8, <1>9 DEF SessionOK

\* It leaves the chain of a library that does not call the one before it.
LEMMA LeftChain ==
  ASSUME ChainsShape, toload = <<>>, NEW s, NEW t, SessionOK(s), s.pc = "hook",
         \/ s.at = "object_hooks" /\ s.point = "object" /\ LeavesChain(s.stmt)
         \/ s.at = "passwordcheck_extra" /\ s.point = "password" /\ ~PasswordRefused(s.stmt.pw)
         \/ s.at = "plpgsql_cb" /\ s.point = "plpgsql",
         t.pc = "hook", t.stmt = s.stmt, t.point = s.point, t.at = "core",
         t.locks = s.locks, t.seen = s.seen
  PROVE  SessionOK(t)
<1>1. /\ s.stmt \in offered /\ OnRoute(s) /\ NoWayRound(s) /\ (Loaded("other") => SeenSoFar(s))
      /\ Loaded(s.at) /\ s.at # "core" /\ s.point # "utility" /\ s.at # "other"
  BY DEF SessionOK, OnRoute
<1>2. OnRoute(t)
  BY <1>1 DEF OnRoute
<1>3. NoWayRound(t)
  BY <1>1 DEF NoWayRound
<1>4. ASSUME Loaded("other") PROVE SeenSoFar(t)
  <2>1. SeenSoFar(s) /\ Position(s.at) # Position("other") /\ Position(s.at) \in Nat /\ Position("other") \in Nat
    BY <1>1, <1>4, PlacesApart
  <2>2. LoadedAfterOther(s.at) <=> ~(Position(s.at) < Position("other"))
    BY <2>1, <1>1 DEF LoadedAfterOther
  <2>3. s.point \notin Withheld(s.stmt) <=> Position(s.at) < Position("other")
    BY <2>2, WithheldAt
  <2> QED
    BY <2>1, <2>3, <1>1 DEF SeenSoFar
<1>5. Locked(t)
  BY DEF SessionOK, Locked
<1> QED
  BY <1>1, <1>2, <1>3, <1>4, <1>5 DEF SessionOK

\* It enters a chain.
LEMMA Entered ==
  ASSUME ChainsShape, toload = <<>>, NEW t, t.pc = "hook", t.stmt \in offered,
         t.point \in Points \ {"log"}, t.at = hook[t.point],
         t.point = "utility" => t.stmt.kind \notin {"select", "insert"},
         t.point = "planner" => t.stmt.kind \in {"select", "insert"} \/ Deletes(t.stmt),
         t.point = "object" => t.stmt.kind \in {"drop_db", "object", "truncate"} /\ ~Deletes(t.stmt),
         t.point = "password" => t.stmt.kind = "password",
         t.point = "plpgsql" => t.stmt.kind = "do",
         Loaded("hook_utility") /\ Forbidden(t.stmt) => t.point = "utility",
         Loaded("other") => t.seen = IF t.point # "utility" /\ t.stmt.kind \notin {"select", "insert"}
                                       THEN {"utility"} \ Withheld(t.stmt) ELSE {},
         Locked(t)
  PROVE  SessionOK(t)
<1>1. /\ t.at = "core" \/ (Loaded(t.at) /\ t.point \in HookedBy(t.at))
      /\ \A lib : Loaded(lib) /\ t.point \in HookedBy(lib) => Ahead(lib, t)
  BY EnterChain DEF Ahead
<1>2. OnRoute(t)
  BY <1>1 DEF OnRoute
<1>3. NoWayRound(t)
  BY <1>1, HookedByWhom DEF NoWayRound
<1>4. ASSUME Loaded("other") PROVE SeenSoFar(t)
  <2>1. Ahead("other", t) /\ Position("other") \in Nat /\ Position(t.at) \in Nat
    BY <1>1, <1>4, HookedByWhom, LoadedPlace DEF Ahead
  <2>2. t.at # "core" /\ ~(Position(t.at) < Position("other"))
    BY <2>1 DEF Ahead
  <2>3. t.point \notin t.seen
    BY <1>4
  <2>4. t.seen \subseteq {t.point, "utility"}
    BY <1>4
  <2>5. t.point # "utility" =>
          ("utility" \in t.seen <=> t.stmt.kind \notin {"select", "insert"} /\ "utility" \notin Withheld(t.stmt))
    BY <1>4
  <2> QED
    BY <2>2, <2>3, <2>4, <2>5 DEF SeenSoFar
<1> QED
  BY <1>2, <1>3, <1>4 DEF SessionOK

\* It has come to the end of its last chain.
LEMMA Finished ==
  ASSUME NEW s, NEW t, SessionOK(s), s.pc = "hook", s.at = "core", s.point # "utility",
         t.pc = "commit", t.stmt = s.stmt, t.seen = s.seen, Locked(t)
  PROVE  SessionOK(t)
<1>1. /\ s.stmt \in offered /\ OnRoute(s) /\ (Loaded("other") => SeenSoFar(s))
  BY DEF SessionOK
<1>2. ASSUME Loaded("other") PROVE Passed(s.stmt) \ Withheld(s.stmt) = s.seen
  <2>1. SeenSoFar(s) /\ s.point \in Points
    BY <1>1, <1>2 DEF OnRoute
  <2>2. s.seen \subseteq {s.point, "utility"}
    BY <2>1 DEF SeenSoFar
  <2>3. "utility" \in s.seen <=> s.stmt.kind \notin {"select", "insert"} /\ "utility" \notin Withheld(s.stmt)
    BY <2>1 DEF SeenSoFar
  <2>4. s.point \in s.seen <=> s.point \notin Withheld(s.stmt)
    BY <2>1 DEF SeenSoFar
  <2>5. s.point \in Passed(s.stmt) /\ Passed(s.stmt) \subseteq {s.point, "utility"}
    BY <1>1, PassedAt DEF OnRoute, Points, Deletes
  <2>6. "utility" \in Passed(s.stmt) <=> s.stmt.kind \notin {"select", "insert"}
    BY PassedAt
  <2> QED
    BY <2>2, <2>3, <2>4, <2>5, <2>6
<1> QED
  BY <1>1, <1>2 DEF SessionOK

-----------------------------------------------------------------------------
(* What stays as it is once the libraries are loaded.                      *)

LEMMA SamePlaces ==
  ASSUME UNCHANGED fixedVars
  PROVE  /\ ChainsShape => ChainsShape'
         /\ \A lib : Loaded(lib)' = Loaded(lib) /\ Position(lib)' = Position(lib)
<1>1. /\ libraries' = libraries /\ toload' = toload /\ hook' = hook /\ prev' = prev /\ Done' = Done
  BY DEF fixedVars, Done
<1>2. \A i, point : On(i, point)' = On(i, point)
  BY <1>1 DEF On
<1>3. \A k, point, lib : Top(k, point, lib)' = Top(k, point, lib)
  BY <1>1, <1>2 DEF Top
<1>4. ChainsShape => ChainsShape'
  BY <1>1, <1>2, <1>3 DEF ChainsShape
<1>5. \A lib : Loaded(lib)' = Loaded(lib) /\ Position(lib)' = Position(lib)
  BY <1>1 DEF Loaded, Position
<1> QED
  BY <1>4, <1>5

LEMMA SameSession ==
  ASSUME UNCHANGED fixedVars, NEW s, SessionOK(s)
  PROVE  SessionOK(s)'
<1>1. /\ \A lib : Loaded(lib)' = Loaded(lib) /\ Position(lib)' = Position(lib)
      /\ offered' = offered
  BY SamePlaces DEF fixedVars
<1>2. \A lib : LoadedAfterOther(lib)' = LoadedAfterOther(lib)
  BY <1>1 DEF LoadedAfterOther
<1>3. \A stmt : Deletes(stmt)' = Deletes(stmt)
  BY <1>1 DEF Deletes
<1>4. \A stmt : Withheld(stmt)' = Withheld(stmt)
  BY <1>2 DEF Withheld
<1>5. \A stmt : Passed(stmt)' = Passed(stmt)
  BY <1>1 DEF Passed
<1>6. \A lib : Ahead(lib, s)' = Ahead(lib, s)
  BY <1>1 DEF Ahead
<1>7. OnRoute(s) => OnRoute(s)'
  BY <1>1, <1>3 DEF OnRoute
<1>8. NoWayRound(s) => NoWayRound(s)'
  BY <1>1, <1>6 DEF NoWayRound
<1>9. SeenSoFar(s) => SeenSoFar(s)'
  BY <1>1, <1>4 DEF SeenSoFar
<1>10. Loaded("other")' => Loaded("other")
  BY <1>1
<1> QED
  BY <1>1, <1>4, <1>5, <1>7, <1>8, <1>9, <1>10 DEF SessionOK

\* A session takes a step that is right for it, and the others take none.
LEMMA OneSession ==
  ASSUME ChainsShape, HooksTypes, \A q \in Processes : SessionOK(sess[q]),
         toload = <<>>, UNCHANGED fixedVars, NEW p \in Processes, NEW t \in SessTypes,
         sess' = [sess EXCEPT ![p] = t], SessionOK(t),
         rows' \in [Rels -> SUBSET Rows], statements' \in Nat
  PROVE  /\ ChainsShape' /\ HooksTypes' /\ (\A q \in Processes : SessionOK(sess[q]))'
         /\ sess'[p] = t /\ \A q \in Processes \ {p} : sess'[q] = sess[q]
<1>1. offered' = offered /\ toload' = toload
  BY DEF fixedVars
<1>2. /\ sess \in [Processes -> SessTypes] /\ SessTypes' = SessTypes
      /\ \A stmt \in offered : StatementOK(stmt)
  BY <1>1 DEF HooksTypes, SessTypes, Statements
<1>3. sess' \in [Processes -> SessTypes]
  BY <1>2
<1>4. sess'[p] = t /\ \A q \in Processes \ {p} : sess'[q] = sess[q]
  BY <1>2
<1>5. HooksTypes'
  BY <1>1, <1>2, <1>3 DEF HooksTypes
<1>6. \A q \in Processes : SessionOK(sess'[q])
  BY <1>4
<1>7. (\A q \in Processes : SessionOK(sess[q]))'
  BY <1>6, SameSession
<1> QED
  BY <1>4, <1>5, <1>7, SamePlaces

\* A session that takes no lock, or none that another one's is in the way of.
LEMMA LocksKept ==
  ASSUME LocksExclude, HooksTypes, NEW p \in Processes,
         \A q \in Processes \ {p} : sess'[q] = sess[q],
         \A lock \in sess'[p].locks :
           lock \in sess[p].locks \/ (lock \in Rels \X {"exclusive", "shared"} /\ ~Conflict(p, lock[1], lock[2]))
  PROVE  LocksExclude'
<1>1. ASSUME NEW q \in Processes \ {p}, NEW one \in sess'[p].locks, NEW two \in sess[q].locks,
             one[1] = two[1]
      PROVE  one[2] = "shared" /\ two[2] = "shared"
  <2>1. CASE one \in sess[p].locks
    BY <2>1, <1>1 DEF LocksExclude
  <2>2. CASE one \in Rels \X {"exclusive", "shared"} /\ ~Conflict(p, one[1], one[2])
    <3>1. two \in Rels \X {"exclusive", "shared"}
      BY DEF HooksTypes, SessTypes
    <3>2. "exclusive" \notin {two[2], one[2]}
      BY <1>1, <2>2 DEF Conflict
    <3> QED
      BY <2>2, <3>1, <3>2
  <2> QED
    BY <2>1, <2>2
<1>2. ASSUME NEW q \in Processes \ {p}, NEW r \in Processes \ {p}, q # r,
             NEW one \in sess[q].locks, NEW two \in sess[r].locks, one[1] = two[1]
      PROVE  one[2] = "shared" /\ two[2] = "shared"
  BY <1>2 DEF LocksExclude
<1>3. ASSUME NEW q \in Processes, NEW r \in Processes, q # r,
             NEW one \in sess'[q].locks, NEW two \in sess'[r].locks, one[1] = two[1]
      PROVE  one[2] = "shared" /\ two[2] = "shared"
  <2>1. CASE q = p
    BY <2>1, <1>1, <1>3
  <2>2. CASE r = p
    BY <2>2, <1>1, <1>3
  <2>3. CASE q # p /\ r # p
    BY <2>3, <1>2, <1>3
  <2> QED
    BY <2>1, <2>2, <2>3
<1> QED
  BY <1>3 DEF LocksExclude

\* A step of one session that keeps the invariant.
LEMMA Moved ==
  ASSUME HInv, toload = <<>>, UNCHANGED fixedVars, statements' \in Nat, NEW p \in Processes,
         NEW t \in SessTypes, Become(p, t), SessionOK(t),
         \A lock \in t.locks :
           lock \in sess[p].locks \/ (lock \in Rels \X {"exclusive", "shared"} /\ ~Conflict(p, lock[1], lock[2])),
         rows' \in [Rels -> SUBSET Rows],
         \A q \in Processes \ {p} : Truncated(q) => rows'[sess[q].stmt.rels[1]] \subseteq rows[sess[q].stmt.rels[1]],
         t.pc = "commit" /\ t.stmt.kind = "truncate" =>
           rows'[t.stmt.rels[1]] \cap
             (IF t.stmt.iso = "read committed" THEN rows'[t.stmt.rels[1]] ELSE t.snapshot) = {},
         Guarded'
  PROVE  HInv'
<1>1. /\ ChainsShape' /\ HooksTypes' /\ (\A q \in Processes : SessionOK(sess[q]))'
      /\ sess'[p] = t /\ \A q \in Processes \ {p} : sess'[q] = sess[q]
  BY OneSession DEF HInv, Become
<1>2. LocksExclude'
  BY <1>1, LocksKept DEF HInv
<1>3. TruncateEmpties'
  <2>1. ASSUME NEW q \in Processes, Truncated(q)'
        PROVE  rows'[sess'[q].stmt.rels[1]] \cap
                 (IF sess'[q].stmt.iso = "read committed" THEN rows'[sess'[q].stmt.rels[1]]
                  ELSE sess'[q].snapshot) = {}
    <3>1. CASE q = p
      BY <3>1, <2>1, <1>1 DEF Truncated
    <3>2. CASE q # p
      <4>1. sess'[q] = sess[q] /\ Truncated(q)
        BY <3>2, <2>1, <1>1 DEF Truncated
      <4>2. rows'[sess[q].stmt.rels[1]] \subseteq rows[sess[q].stmt.rels[1]]
        BY <4>1, <3>2
      <4>3. rows[sess[q].stmt.rels[1]] \cap
              (IF sess[q].stmt.iso = "read committed" THEN rows[sess[q].stmt.rels[1]]
               ELSE sess[q].snapshot) = {}
        BY <4>1 DEF HInv, TruncateEmpties
      <4> QED
        BY <4>1, <4>2, <4>3
    <3> QED
      BY <3>1, <3>2
  <2> QED
    BY <2>1 DEF TruncateEmpties
<1> QED
  BY <1>1, <1>2, <1>3 DEF HInv

LEMMA GuardedKept ==
  ASSUME Guarded, UNCHANGED fixedVars, dropped' = dropped, passwords' = passwords
  PROVE  Guarded'
<1>1. \A lib : Loaded(lib)' = Loaded(lib)
  BY SamePlaces
<1> QED
  BY <1>1 DEF Guarded

\* ... that touches nothing but the session.
LEMMA MovedOnly ==
  ASSUME HInv, toload = <<>>, UNCHANGED <<fixedVars, catalogVars>>, statements' \in Nat,
         NEW p \in Processes, NEW t \in SessTypes, Become(p, t), SessionOK(t),
         \A lock \in t.locks :
           lock \in sess[p].locks \/ (lock \in Rels \X {"exclusive", "shared"} /\ ~Conflict(p, lock[1], lock[2])),
         ~(t.pc = "commit" /\ t.stmt.kind = "truncate")
  PROVE  HInv'
<1>1. rows' = rows /\ dropped' = dropped /\ passwords' = passwords /\ UNCHANGED fixedVars
  BY DEF catalogVars
<1>2. Guarded'
  BY <1>1, GuardedKept DEF HInv
<1>3. rows' \in [Rels -> SUBSET Rows]
  BY <1>1 DEF HInv, HooksTypes
<1> QED
  BY <1>1, <1>2, <1>3, Moved

\* A session in a hook, and what its record holds.
LEMMA InHook ==
  ASSUME HInv, NEW p \in Processes, sess[p].pc # "idle"
  PROVE  /\ toload = <<>> /\ ChainsShape /\ sess[p] \in SessTypes /\ SessionOK(sess[p]) /\ statements \in Nat
         /\ sess[p].pc = "hook" => OnRoute(sess[p]) /\ sess[p].stmt \in offered /\ StatementOK(sess[p].stmt)
<1>1. sess[p] # Idle
  BY DEF Idle
<1>2. toload = <<>> /\ ChainsShape /\ sess[p] \in SessTypes /\ SessionOK(sess[p]) /\ statements \in Nat
  BY <1>1 DEF HInv, HooksTypes
<1> QED
  BY <1>2 DEF HInv, HooksTypes, SessionOK

LEMMA IdleFits == Idle \in SessTypes /\ SessionOK(Idle) /\ [Idle EXCEPT !.pc = "panic"] \in SessTypes
                  /\ SessionOK([Idle EXCEPT !.pc = "panic"])
  BY DEF Idle, SessTypes, Statements, Statement, Rows, SessionOK, Locked

\* A statement that is refused.
LEMMA ErrorKeeps ==
  ASSUME HInv, NEW p \in Processes, sess[p].pc # "idle", Error(p),
         UNCHANGED <<fixedVars, catalogVars, statements>>
  PROVE  HInv'
<1>1. toload = <<>> /\ statements' \in Nat /\ UNCHANGED <<fixedVars, catalogVars>>
  BY InHook
<1>2. Become(p, Idle) /\ Idle.locks = {} /\ Idle.pc = "idle"
  BY DEF Error, Idle
<1> QED
  BY <1>1, <1>2, IdleFits, MovedOnly

\* The moves along a chain.
LEMMA ChainKeeps ==
  ASSUME HInv, NEW p \in Processes, sess[p].pc = "hook", sess[p].at # "core", SavesPrevious(sess[p].at),
         sess[p].at = "hook_utility" => ~Forbidden(sess[p].stmt),
         sess[p].at = "pg_trunc2del" => sess[p].stmt.kind # "truncate",
         sess[p].at = "object_hooks" => ~LeavesChain(sess[p].stmt),
         Become(p, IF sess[p].at = "other" THEN [Chain(sess[p]) EXCEPT !.seen = @ \cup {sess[p].point}]
                   ELSE Chain(sess[p])),
         UNCHANGED <<fixedVars, catalogVars, statements>>
  PROVE  HInv'
<1> DEFINE s == sess[p]
           t == IF sess[p].at = "other" THEN [Chain(sess[p]) EXCEPT !.seen = @ \cup {sess[p].point}]
                ELSE Chain(sess[p])
<1>1. /\ toload = <<>> /\ ChainsShape /\ s \in SessTypes /\ SessionOK(s) /\ statements \in Nat
      /\ OnRoute(s)
  BY InHook
<1>2. Loaded(s.at) /\ s.point \in Points /\ s.at \in Libraries
  BY <1>1, LoadedPlace DEF OnRoute
<1>3. prev[s.at][s.point] \in Libraries \cup {"core"}
  BY <1>1, <1>2 DEF ChainsShape
<1>4. /\ t \in SessTypes /\ t.pc = s.pc /\ t.stmt = s.stmt /\ t.point = s.point /\ t.at = prev[s.at][s.point]
      /\ t.locks = s.locks /\ t.seen = IF s.at = "other" THEN s.seen \cup {s.point} ELSE s.seen
  BY <1>1, <1>2, <1>3 DEF SessTypes, Chain
<1>5. Become(p, t)
  OBVIOUS
<1> HIDE DEF t
<1>6. SessionOK(t)
  BY <1>1, <1>4, PassedOn
<1>7. UNCHANGED <<fixedVars, catalogVars>> /\ statements' \in Nat
  BY <1>1
<1> QED
  BY <1>1, <1>4, <1>5, <1>6, <1>7, MovedOnly

LEMMA CoreKeeps ==
  ASSUME HInv, NEW p \in Processes, sess[p].pc = "hook",
         \/ sess[p].at = "object_hooks" /\ sess[p].point = "object" /\ LeavesChain(sess[p].stmt)
         \/ sess[p].at = "passwordcheck_extra" /\ sess[p].point = "password" /\ ~PasswordRefused(sess[p].stmt.pw)
         \/ sess[p].at = "plpgsql_cb" /\ sess[p].point = "plpgsql",
         Become(p, [sess[p] EXCEPT !.at = "core"]),
         UNCHANGED <<fixedVars, catalogVars, statements>>
  PROVE  HInv'
<1> DEFINE s == sess[p]
           t == [sess[p] EXCEPT !.at = "core"]
<1>1. toload = <<>> /\ ChainsShape /\ s \in SessTypes /\ SessionOK(s) /\ statements \in Nat
  BY InHook
<1>2. /\ t \in SessTypes /\ t.pc = s.pc /\ t.stmt = s.stmt /\ t.point = s.point /\ t.at = "core"
      /\ t.locks = s.locks /\ t.seen = s.seen
  BY <1>1 DEF SessTypes
<1>3. Become(p, t)
  OBVIOUS
<1> HIDE DEF t
<1>4. SessionOK(t)
  BY <1>1, <1>2, LeftChain
<1>5. UNCHANGED <<fixedVars, catalogVars>> /\ statements' \in Nat
  BY <1>1
<1> QED
  BY <1>1, <1>2, <1>3, <1>4, <1>5, MovedOnly

\* A session that enters a chain with some locks.
Into(s, point, locks) == [Enter(s, point) EXCEPT !.locks = locks]

LEMMA EnterTypes ==
  ASSUME ChainsShape, NEW s \in SessTypes, NEW point \in Points,
         NEW locks \in SUBSET (Rels \X {"exclusive", "shared"}),
         NEW t, t = Into(s, point, locks)
  PROVE  /\ t \in SessTypes /\ t.pc = "hook" /\ t.stmt = s.stmt /\ t.point = point /\ t.at = hook[point]
         /\ t.locks = locks /\ t.seen = s.seen
<1>1. hook[point] \in Libraries \cup {"core"}
  BY DEF ChainsShape
<1> QED
  BY <1>1 DEF SessTypes, Enter, Into

-----------------------------------------------------------------------------
(* The steps of a session, one by one.                                     *)

LEMMA dbrestrict_utilityKeeps ==
  ASSUME HInv, NEW p \in Processes, dbrestrict_utility(p)
  PROVE  HInv'
<1>1. sess[p].pc = "hook" /\ sess[p].at = "hook_utility" /\ UNCHANGED <<fixedVars, catalogVars, statements>>
  BY DEF dbrestrict_utility, At
<1>2. CASE Forbidden(sess[p].stmt)
  <2>1. Error(p)
    BY <1>2 DEF dbrestrict_utility, Forbidden
  <2> QED
    BY <2>1, <1>1, ErrorKeeps
<1>3. CASE ~Forbidden(sess[p].stmt)
  <2>1. Become(p, Chain(sess[p]))
    BY <1>3 DEF dbrestrict_utility, Forbidden
  <2>2. SavesPrevious(sess[p].at)
    BY <1>1 DEF SavesPrevious
  <2> QED
    BY <2>1, <2>2, <1>1, <1>3, ChainKeeps
<1> QED
  BY <1>2, <1>3

LEMMA panic_hookKeeps ==
  ASSUME HInv, NEW p \in Processes, panic_hook(p)
  PROVE  HInv'
<1>1. sess[p].pc = "hook" /\ sess[p].at = "pg_panic" /\ UNCHANGED <<fixedVars, catalogVars, statements>>
  BY DEF panic_hook, At
<1>2. CASE Become(p, Chain(sess[p]))
  <2>1. SavesPrevious(sess[p].at)
    BY <1>1 DEF SavesPrevious
  <2> QED
    BY <2>1, <1>1, <1>2, ChainKeeps
<1>3. CASE Become(p, [Idle EXCEPT !.pc = "panic"])
  <2> DEFINE t == [Idle EXCEPT !.pc = "panic"]
  <2>1. toload = <<>> /\ statements' \in Nat /\ UNCHANGED <<fixedVars, catalogVars>>
    BY <1>1, InHook
  <2>2. t.locks = {} /\ t.pc = "panic"
    BY DEF Idle
  <2>3. Become(p, t) /\ t \in SessTypes /\ SessionOK(t)
    BY <1>3, IdleFits
  <2> HIDE DEF t
  <2> QED
    BY <2>1, <2>2, <2>3, MovedOnly
<1> QED
  BY <1>2, <1>3 DEF panic_hook

LEMMA object_hooksKeeps ==
  ASSUME HInv, NEW p \in Processes, object_hooks_access_entry(p)
  PROVE  HInv'
<1>1. /\ sess[p].pc = "hook" /\ sess[p].point = "object" /\ sess[p].at = "object_hooks"
      /\ UNCHANGED <<fixedVars, catalogVars, statements>>
  BY DEF object_hooks_access_entry, At
<1>2. CASE LeavesChain(sess[p].stmt)
  <2>1. Become(p, [sess[p] EXCEPT !.at = "core"])
    BY <1>2 DEF object_hooks_access_entry
  <2> QED
    BY <2>1, <1>1, <1>2, CoreKeeps
<1>3. CASE ~LeavesChain(sess[p].stmt)
  <2>1. Become(p, Chain(sess[p]))
    BY <1>3 DEF object_hooks_access_entry
  <2>2. SavesPrevious(sess[p].at)
    BY <1>1 DEF SavesPrevious
  <2> QED
    BY <2>1, <2>2, <1>1, <1>3, ChainKeeps
<1> QED
  BY <1>2, <1>3

LEMMA check_passwordKeeps ==
  ASSUME HInv, NEW p \in Processes, check_password(p)
  PROVE  HInv'
<1>1. /\ sess[p].pc = "hook" /\ sess[p].point = "password" /\ sess[p].at = "passwordcheck_extra"
      /\ UNCHANGED <<fixedVars, catalogVars, statements>>
  BY DEF check_password, At
<1>2. CASE PasswordRefused(sess[p].stmt.pw)
  <2>1. Error(p)
    BY <1>2 DEF check_password
  <2> QED
    BY <2>1, <1>1, ErrorKeeps
<1>3. CASE ~PasswordRefused(sess[p].stmt.pw)
  <2>1. Become(p, [sess[p] EXCEPT !.at = "core"])
    BY <1>3 DEF check_password
  <2> QED
    BY <2>1, <1>1, <1>3, CoreKeeps
<1> QED
  BY <1>2, <1>3

LEMMA plugin_funcsKeeps ==
  ASSUME HInv, NEW p \in Processes, plugin_funcs(p)
  PROVE  HInv'
<1>1. /\ sess[p].pc = "hook" /\ sess[p].point = "plpgsql" /\ sess[p].at = "plpgsql_cb"
      /\ UNCHANGED <<fixedVars, catalogVars, statements>> /\ Become(p, [sess[p] EXCEPT !.at = "core"])
  BY DEF plugin_funcs, At
<1> QED
  BY <1>1, CoreKeeps

LEMMA OtherHookKeeps ==
  ASSUME HInv, NEW p \in Processes, OtherHook(p)
  PROVE  HInv'
<1>1. /\ sess[p].pc = "hook" /\ sess[p].at = "other" /\ UNCHANGED <<fixedVars, catalogVars, statements>>
      /\ Become(p, [Chain(sess[p]) EXCEPT !.seen = @ \cup {sess[p].point}])
  BY DEF OtherHook, At
<1>2. SavesPrevious(sess[p].at)
  BY <1>1 DEF SavesPrevious
<1> QED
  BY <1>1, <1>2, ChainKeeps

LEMMA trunc2delKeeps ==
  ASSUME HInv, NEW p \in Processes, trunc2del(p)
  PROVE  HInv'
<1> DEFINE s == sess[p]
           t == Into(sess[p], "planner", {<<sess[p].stmt.rels[1], TruncateLock>>})
<1>1. /\ s.pc = "hook" /\ s.at = "pg_trunc2del" /\ s.point = "utility"
      /\ UNCHANGED <<fixedVars, catalogVars, statements>>
  BY DEF trunc2del, At
<1>2. CASE s.stmt.kind # "truncate"
  <2>1. Become(p, Chain(s)) /\ SavesPrevious(s.at)
    BY <1>1, <1>2 DEF trunc2del, SavesPrevious
  <2> QED
    BY <2>1, <1>1, <1>2, ChainKeeps
<1>3. CASE s.stmt.kind = "truncate"
  <2>1. /\ toload = <<>> /\ ChainsShape /\ s \in SessTypes /\ SessionOK(s) /\ statements \in Nat
        /\ OnRoute(s) /\ s.stmt \in offered /\ StatementOK(s.stmt)
    BY <1>1, InHook
  <2>2. s.stmt.rels[1] \in Rels
    BY <2>1, <1>3 DEF StatementOK
  <2>3. "planner" \in Points /\ {<<s.stmt.rels[1], TruncateLock>>} \in SUBSET (Rels \X {"exclusive", "shared"})
    BY <2>2 DEF Points, TruncateLock
  <2>4. /\ t \in SessTypes /\ t.pc = "hook" /\ t.stmt = s.stmt /\ t.point = "planner" /\ t.at = hook["planner"]
        /\ t.locks = {<<s.stmt.rels[1], "exclusive">>} /\ t.seen = s.seen
    BY <2>1, <2>3, EnterTypes DEF TruncateLock
  <2>5. Become(p, t) /\ ~Conflict(p, s.stmt.rels[1], "exclusive")
    BY <1>3 DEF trunc2del, TruncateLock, Into
  <2> HIDE DEF t
  <2>6. Loaded("pg_trunc2del") /\ Deletes(s.stmt)
    BY <1>1, <1>3, <2>1 DEF OnRoute, Deletes
  <2>7. ASSUME Loaded("other") PROVE s.seen = {"utility"} \ Withheld(s.stmt)
    <3>1. SeenSoFar(s)
      BY <2>1, <2>7, <1>1 DEF SessionOK
    <3>2. Position("other") # Position("pg_trunc2del") /\ Position("other") \in Nat /\ Position("pg_trunc2del") \in Nat
      BY <2>1, <2>6, <2>7, PlacesApart
    <3>3. "utility" \in Withheld(s.stmt) <=> ~(Position("pg_trunc2del") < Position("other"))
      BY <3>2, <2>6, <1>3, WithheldAt DEF LoadedAfterOther
    <3>4. s.seen \subseteq {"utility"} /\ ("utility" \in s.seen <=> Position("pg_trunc2del") < Position("other"))
      BY <3>1, <1>1 DEF SeenSoFar
    <3> QED
      BY <3>3, <3>4
  <2>8. Locked(t)
    BY <2>4, <1>3 DEF Locked
  <2>9. ~Forbidden(t.stmt)
    BY <2>4, <1>3 DEF Forbidden
  <2>10. SessionOK(t)
    BY <2>1, <2>3, <2>4, <2>6, <2>7, <2>8, <2>9, <1>3, Entered
  <2>11. \A lock \in t.locks : lock \in Rels \X {"exclusive", "shared"} /\ ~Conflict(p, lock[1], lock[2])
    BY <2>2, <2>4, <2>5
  <2> QED
    BY <2>1, <2>4, <2>5, <2>10, <2>11, <1>1, MovedOnly
<1> QED
  BY <1>2, <1>3

LEMMA trunc2del_failsKeeps ==
  ASSUME HInv, NEW p \in Processes, trunc2del_fails(p)
  PROVE  HInv'
<1>1. sess[p].pc = "hook" /\ Error(p) /\ UNCHANGED <<fixedVars, catalogVars, statements>>
  BY DEF trunc2del_fails, At
<1> QED
  BY <1>1, ErrorKeeps

LEMMA BeginStatementKeeps ==
  ASSUME HInv, NEW p \in Processes, NEW stmt \in offered, BeginStatement(p, stmt)
  PROVE  HInv'
<1> DEFINE point == IF stmt.kind \in {"select", "insert"} THEN "planner" ELSE "utility"
           snap == UNION {rows[rel] : rel \in Rels}
           t == Enter([Idle EXCEPT !.stmt = stmt, !.snapshot = snap], point)
<1>1. toload = <<>> /\ UNCHANGED <<fixedVars, catalogVars>> /\ Become(p, t) /\ statements' = statements - 1 /\ statements > 0
  BY DEF BeginStatement
<1>2. ChainsShape /\ statements \in Nat /\ rows \in [Rels -> SUBSET Rows]
  BY DEF HInv, HooksTypes
<1>3. statements' \in Nat
  BY <1>1, <1>2
<1>4. snap \subseteq Rows
  BY <1>2
<1>5. hook[point] \in Libraries \cup {"core"} /\ point \in Points \ {"log"}
  BY <1>2 DEF ChainsShape, Points
<1> HIDE DEF snap
<1>6. /\ t \in SessTypes /\ t.pc = "hook" /\ t.stmt = stmt /\ t.point = point /\ t.at = hook[point]
      /\ t.locks = {} /\ t.seen = {}
  BY <1>4, <1>5 DEF SessTypes, Enter, Idle, Statements
<1> HIDE DEF t
<1>7. Locked(t)
  BY <1>6 DEF Locked
<1>8. Forbidden(t.stmt) => point = "utility"
  BY <1>6 DEF Forbidden
<1>9. SessionOK(t)
  BY <1>1, <1>2, <1>5, <1>6, <1>7, <1>8, Entered
<1> QED
  BY <1>1, <1>3, <1>6, <1>9, MovedOnly

LEMMA standard_ProcessUtilityKeeps ==
  ASSUME HInv, NEW p \in Processes, standard_ProcessUtility(p)
  PROVE  HInv'
<1> DEFINE s == sess[p]
           rels == s.stmt.rels
           taken == {<<rels[n], "exclusive">> : n \in DOMAIN rels}
<1>1. /\ s.pc = "hook" /\ s.at = "core" /\ s.point = "utility"
      /\ UNCHANGED <<fixedVars, catalogVars, statements>>
  BY DEF standard_ProcessUtility, At
<1>2. /\ toload = <<>> /\ ChainsShape /\ s \in SessTypes /\ SessionOK(s) /\ statements \in Nat
      /\ OnRoute(s) /\ s.stmt \in offered /\ StatementOK(s.stmt) /\ NoWayRound(s)
  BY <1>1, InHook DEF SessionOK
<1>3. /\ s.stmt.kind \in {"drop_db", "object", "truncate", "password", "do"} /\ rels \in Seq(Rels)
      /\ s.stmt.kind = "truncate" => rels # <<>>
  BY <1>1, <1>2 DEF OnRoute, StatementOK
<1>4. ~Deletes(s.stmt) /\ (Loaded("hook_utility") => ~Forbidden(s.stmt))
  BY <1>1, <1>2 DEF NoWayRound, Ahead, Deletes
<1>5. ASSUME Loaded("other") PROVE s.seen = {"utility"} \ Withheld(s.stmt)
  <2>1. SeenSoFar(s)
    BY <1>1, <1>2, <1>5 DEF SessionOK
  <2> QED
    BY <2>1, <1>1 DEF SeenSoFar
<1>6. ASSUME NEW point \in {"password", "plpgsql", "object"}, NEW locks \in SUBSET (Rels \X {"exclusive", "shared"}),
             \A lock \in locks : lock \in s.locks \/ ~Conflict(p, lock[1], lock[2]),
             Become(p, Into(s, point, locks)),
             point = "password" => s.stmt.kind = "password", point = "plpgsql" => s.stmt.kind = "do",
             point = "object" => s.stmt.kind \in {"drop_db", "object", "truncate"},
             s.stmt.kind = "truncate" => <<rels[1], "exclusive">> \in locks
      PROVE  HInv'
  <2> DEFINE t == Into(s, point, locks)
  <2>1. point \in Points \ {"log"} /\ point # "utility" /\ point # "planner"
    BY DEF Points
  <2>2. /\ t \in SessTypes /\ t.pc = "hook" /\ t.stmt = s.stmt /\ t.point = point /\ t.at = hook[point]
        /\ t.locks = locks /\ t.seen = s.seen
    BY <2>1, <1>2, EnterTypes
  <2>3. Become(p, t)
    BY <1>6
  <2> HIDE DEF t
  <2>4. Locked(t)
    BY <2>2, <1>3, <1>6 DEF Locked
  <2>5. t.stmt \in offered /\ t.point \in Points \ {"log"}
    BY <2>1, <2>2, <1>2
  <2>6. SessionOK(t)
    BY <2>1, <2>2, <2>4, <2>5, <1>2, <1>3, <1>4, <1>5, <1>6, Entered
  <2> QED
    BY <2>2, <2>3, <2>6, <1>1, <1>2, <1>6, MovedOnly
<1>7. ASSUME NEW point PROVE Into(s, point, s.locks) = Enter(s, point)
  BY <1>2 DEF Enter, SessTypes, Into
<1>8. s.locks \in SUBSET (Rels \X {"exclusive", "shared"})
  BY <1>2 DEF SessTypes
<1>9. CASE s.stmt.kind = "truncate"
  <2>1. Become(p, Into(s, "object", taken)) /\ \A n \in DOMAIN rels : ~Conflict(p, rels[n], "exclusive")
    BY <1>9 DEF standard_ProcessUtility, Into
  <2>2. \A n \in DOMAIN rels : <<rels[n], "exclusive">> \in Rels \X {"exclusive", "shared"}
    BY <1>3
  <2>3. taken \in SUBSET (Rels \X {"exclusive", "shared"})
    BY <2>2
  <2>4. 1 \in DOMAIN rels
    BY <1>3, <1>9
  <2>5. <<rels[1], "exclusive">> \in taken
    BY <2>4
  <2>6. \A lock \in taken : ~Conflict(p, lock[1], lock[2])
    BY <2>1
  <2> HIDE DEF taken
  <2> QED
    BY <2>1, <2>3, <2>5, <2>6, <1>6, <1>9
<1>10. CASE s.stmt.kind = "password"
  <2>1. Become(p, Into(s, "password", s.locks))
    BY <1>10, <1>7 DEF standard_ProcessUtility
  <2> QED
    BY <2>1, <1>6, <1>8, <1>10
<1>11. CASE s.stmt.kind = "do"
  <2>1. Become(p, Into(s, "plpgsql", s.locks))
    BY <1>11, <1>7 DEF standard_ProcessUtility
  <2> QED
    BY <2>1, <1>6, <1>8, <1>11
<1>12. CASE s.stmt.kind \in {"drop_db", "object"}
  <2>1. Become(p, Enter(s, "object"))
    BY <1>12 DEF standard_ProcessUtility
  <2>2. Become(p, Into(s, "object", s.locks))
    BY <2>1, <1>7
  <2> QED
    BY <2>2, <1>6, <1>8, <1>12
<1> QED
  BY <1>3, <1>9, <1>10, <1>11, <1>12

\* A statement at its end.
LEMMA FinishTypes ==
  ASSUME NEW s \in SessTypes
  PROVE  /\ Finish(s) \in SessTypes /\ Finish(s).pc = "commit" /\ Finish(s).stmt = s.stmt
         /\ Finish(s).seen = s.seen /\ Finish(s).locks = s.locks /\ Finish(s).snapshot = s.snapshot
  BY DEF Finish, SessTypes

LEMMA FinishFits ==
  ASSUME NEW s \in SessTypes, SessionOK(s), s.pc = "hook", s.at = "core", s.point # "utility",
         s.stmt.kind # "insert"
  PROVE  SessionOK(Finish(s))
<1>1. Locked(Finish(s))
  BY FinishTypes DEF SessionOK, Locked
<1> QED
  BY <1>1, FinishTypes, Finished

LEMMA FunctionEndsKeeps ==
  ASSUME HInv, NEW p \in Processes, FunctionEnds(p)
  PROVE  HInv'
<1> DEFINE s == sess[p]
           t == Finish(sess[p])
<1>1. /\ s.pc = "hook" /\ s.at = "core" /\ s.point = "plpgsql" /\ Become(p, t)
      /\ UNCHANGED <<fixedVars, catalogVars, statements>>
  BY DEF FunctionEnds, At
<1>2. /\ toload = <<>> /\ s \in SessTypes /\ SessionOK(s) /\ statements \in Nat /\ s.stmt.kind = "do"
  BY <1>1, InHook DEF OnRoute
<1>3. /\ t \in SessTypes /\ t.pc = "commit" /\ t.stmt = s.stmt /\ t.locks = s.locks /\ SessionOK(t)
  BY <1>1, <1>2, FinishTypes, FinishFits
<1> HIDE DEF t
<1> QED
  BY <1>1, <1>2, <1>3, MovedOnly

LEMMA PolicyTypes == Policy.min \in Nat /\ Policy.max \in Nat
<1>1. Policy.min \in Lengths /\ Policy.max \in Lengths
  BY HooksAssumption DEF Policies
<1>2. \A n \in Lengths : n \in Nat
  BY DEF Lengths
<1> QED
  BY <1>1, <1>2

\* With passwordcheck_extra a password that comes to this point was not refused.
LEMMA SetPasswordKeeps ==
  ASSUME HInv, NEW p \in Processes, SetPassword(p)
  PROVE  HInv'
<1> DEFINE s == sess[p]
           t == Finish(sess[p])
<1>1. /\ s.pc = "hook" /\ s.at = "core" /\ s.point = "password" /\ Become(p, t)
      /\ UNCHANGED <<fixedVars, rows, dropped, statements>> /\ passwords' = passwords \cup {s.stmt.pw}
  BY DEF SetPassword, At
<1>2. /\ toload = <<>> /\ s \in SessTypes /\ SessionOK(s) /\ statements \in Nat /\ s.stmt.kind = "password"
      /\ StatementOK(s.stmt) /\ NoWayRound(s)
  BY <1>1, InHook DEF OnRoute, SessionOK
<1>3. /\ t \in SessTypes /\ t.pc = "commit" /\ t.stmt = s.stmt /\ t.locks = s.locks /\ SessionOK(t)
  BY <1>1, <1>2, FinishTypes, FinishFits
<1> HIDE DEF t
<1>4. Guarded'
  <2>1. \A lib : Loaded(lib)' = Loaded(lib)
    BY <1>1, SamePlaces
  <2>2. Loaded("passwordcheck_extra") => ~PasswordRefused(s.stmt.pw)
    BY <1>1, <1>2 DEF NoWayRound, Ahead
  <2>3. s.stmt.pw.length \in Nat /\ Policy.min \in Nat /\ Policy.max \in Nat
    BY <1>2, PolicyTypes DEF StatementOK
  <2>4. ASSUME ~PasswordRefused(s.stmt.pw)
        PROVE  /\ ~s.stmt.pw.hasUsername /\ s.stmt.pw.type \in {"md5", "plaintext"}
               /\ s.stmt.pw.type = "plaintext" =>
                    /\ s.stmt.pw.length \in Policy.min..Policy.max
                    /\ Policy.required \subseteq s.stmt.pw.classes /\ "invalid" \notin s.stmt.pw.classes
    BY <2>3, <2>4 DEF PasswordRefused
  <2> QED
    BY <2>1, <2>2, <2>4, <1>1 DEF Guarded, HInv
<1>5. rows' \in [Rels -> SUBSET Rows]
  BY <1>1 DEF HInv, HooksTypes
<1> QED
  BY <1>1, <1>2, <1>3, <1>4, <1>5, Moved

\* With hook_utility a DROP DATABASE that comes to this point is not of its database, or
\* of its user; a TRUNCATE has locked the relation it empties.
LEMMA AfterObjectAccessKeeps ==
  ASSUME HInv, NEW p \in Processes, AfterObjectAccess(p)
  PROVE  HInv'
<1> DEFINE s == sess[p]
           t == Finish(sess[p])
<1>1. /\ s.pc = "hook" /\ s.at = "core" /\ s.point = "object" /\ Become(p, t)
      /\ UNCHANGED <<fixedVars, passwords, statements>>
      /\ rows' = [rel \in Rels |-> IF <<rel, "exclusive">> \in s.locks THEN {} ELSE rows[rel]]
      /\ dropped' = IF s.stmt.kind = "drop_db" THEN dropped \cup {<<s.stmt.db, s.stmt.user>>} ELSE dropped
  BY DEF AfterObjectAccess, At
<1>2. /\ toload = <<>> /\ s \in SessTypes /\ SessionOK(s) /\ statements \in Nat /\ OnRoute(s)
      /\ s.stmt.kind \in {"drop_db", "object", "truncate"} /\ StatementOK(s.stmt) /\ NoWayRound(s) /\ Locked(s)
  BY <1>1, InHook DEF OnRoute, SessionOK
<1>3. /\ t \in SessTypes /\ t.pc = "commit" /\ t.stmt = s.stmt /\ t.locks = s.locks /\ SessionOK(t)
  BY <1>1, <1>2, FinishTypes, FinishFits
<1> HIDE DEF t
<1>4. Guarded'
  <2>1. \A lib : Loaded(lib)' = Loaded(lib)
    BY <1>1, SamePlaces
  <2>2. Loaded("hook_utility") => ~Forbidden(s.stmt)
    BY <1>1, <1>2 DEF NoWayRound
  <2>3. Loaded("hook_utility") => \A drop \in dropped' : drop[1] = "hook_dbname" => drop[2] = "hook_username"
    BY <2>2, <1>1 DEF Guarded, HInv, Forbidden
  <2> QED
    BY <2>1, <2>3, <1>1 DEF Guarded, HInv
<1>5. rows \in [Rels -> SUBSET Rows]
  BY DEF HInv, HooksTypes
<1>6. rows' \in [Rels -> SUBSET Rows] /\ \A rel \in Rels : rows'[rel] \subseteq rows[rel]
  BY <1>1, <1>5
<1>7. \A q \in Processes : Truncated(q) => sess[q].stmt.rels[1] \in Rels
  BY DEF HInv, HooksTypes, StatementOK, SessionOK, Truncated
<1>8. s.stmt.kind = "truncate" => s.stmt.rels[1] \in Rels /\ rows'[s.stmt.rels[1]] = {}
  <2>1. s.stmt.kind = "truncate" => s.stmt.rels[1] \in Rels
    BY <1>2 DEF StatementOK
  <2>2. s.stmt.kind = "truncate" => <<s.stmt.rels[1], "exclusive">> \in s.locks
    BY <1>1, <1>2 DEF Locked
  <2> QED
    BY <2>1, <2>2, <1>1
<1>9. t.stmt.kind = "truncate" =>
        rows'[t.stmt.rels[1]] \cap
          (IF t.stmt.iso = "read committed" THEN rows'[t.stmt.rels[1]] ELSE t.snapshot) = {}
  BY <1>8, <1>3
<1> QED
  BY <1>1, <1>2, <1>3, <1>4, <1>6, <1>7, <1>9, Moved

LEMMA standard_plannerKeeps ==
  ASSUME HInv, NEW p \in Processes, standard_planner(p)
  PROVE  HInv'
<1> DEFINE s == sess[p]
           rel == s.stmt.rels[1]
<1>1. /\ s.pc = "hook" /\ s.at = "core" /\ s.point = "planner"
      /\ UNCHANGED <<fixedVars, passwords, dropped, statements>>
  BY DEF standard_planner, At
<1>2. /\ toload = <<>> /\ s \in SessTypes /\ SessionOK(s) /\ statements \in Nat /\ OnRoute(s)
      /\ StatementOK(s.stmt) /\ Locked(s)
  BY <1>1, InHook DEF SessionOK
<1>3. s.stmt.kind \in {"insert", "truncate"} => rel \in Rels
  BY <1>2 DEF StatementOK
<1>4. rows \in [Rels -> SUBSET Rows]
  BY DEF HInv, HooksTypes
<1>5. Guarded'
  BY <1>1, GuardedKept DEF HInv
<1>6. \A q \in Processes : Truncated(q) => sess[q].stmt.rels[1] \in Rels
  BY DEF HInv, HooksTypes, StatementOK, SessionOK, Truncated
<1>7. CASE s.stmt.kind = "truncate"
  <2> DEFINE t == Finish(sess[p])
             visible == IF s.stmt.iso = "read committed" THEN rows[rel] ELSE s.snapshot
  <2>1. rows' = [rows EXCEPT ![rel] = @ \ visible] /\ Become(p, t)
    BY <1>7 DEF standard_planner
  <2>2. /\ t \in SessTypes /\ t.pc = "commit" /\ t.stmt = s.stmt /\ t.locks = s.locks /\ SessionOK(t)
        /\ t.snapshot = s.snapshot
    BY <1>1, <1>2, <1>7, FinishTypes, FinishFits
  <2> HIDE DEF t
  <2>3. /\ rows' \in [Rels -> SUBSET Rows] /\ \A r \in Rels : rows'[r] \subseteq rows[r]
        /\ rows'[rel] = rows[rel] \ visible
    BY <2>1, <1>3, <1>4, <1>7
  <2>4. rows'[t.stmt.rels[1]] \cap
          (IF t.stmt.iso = "read committed" THEN rows'[t.stmt.rels[1]] ELSE t.snapshot) = {}
    <3>1. rows'[rel] \cap visible = {} /\ rows'[rel] \subseteq rows[rel]
      BY <2>3
    <3> QED
      BY <3>1, <2>2
  <2> QED
    BY <2>1, <2>2, <2>3, <2>4, <1>1, <1>2, <1>5, <1>6, Moved
<1>8. CASE s.stmt.kind = "insert"
  <2> DEFINE t == [Finish(sess[p]) EXCEPT !.locks = {<<sess[p].stmt.rels[1], "shared">>}]
  <2>1. rows' = rows /\ Become(p, t) /\ ~Conflict(p, rel, "shared")
    BY <1>8 DEF standard_planner
  <2>2. {<<rel, "shared">>} \in SUBSET (Rels \X {"exclusive", "shared"})
    BY <1>3, <1>8
  <2>3. /\ t \in SessTypes /\ t.pc = "commit" /\ t.stmt = s.stmt /\ t.locks = {<<rel, "shared">>}
        /\ t.seen = s.seen
    BY <2>2, <1>2 DEF SessTypes, Finish
  <2> HIDE DEF t
  <2>4. Locked(t)
    BY <2>3, <1>8 DEF Locked
  <2>5. SessionOK(t)
    BY <2>3, <2>4, <1>1, <1>2, Finished
  <2>6. \A lock \in t.locks : lock \in Rels \X {"exclusive", "shared"} /\ ~Conflict(p, lock[1], lock[2])
    BY <2>1, <2>2, <2>3
  <2>7. UNCHANGED <<fixedVars, catalogVars>>
    BY <2>1, <1>1 DEF catalogVars
  <2> QED
    BY <2>1, <2>3, <2>5, <2>6, <2>7, <1>1, <1>2, <1>8, MovedOnly
<1>9. CASE s.stmt.kind \notin {"insert", "truncate"}
  <2> DEFINE t == Finish(sess[p])
  <2>1. rows' = rows /\ Become(p, t)
    BY <1>9 DEF standard_planner
  <2>2. /\ t \in SessTypes /\ t.pc = "commit" /\ t.stmt = s.stmt /\ t.locks = s.locks /\ SessionOK(t)
    BY <1>1, <1>2, <1>9, FinishTypes, FinishFits
  <2> HIDE DEF t
  <2>3. UNCHANGED <<fixedVars, catalogVars>>
    BY <2>1, <1>1 DEF catalogVars
  <2> QED
    BY <2>1, <2>2, <2>3, <1>1, <1>2, <1>9, MovedOnly
<1> QED
  BY <1>7, <1>8, <1>9

\* A row is inserted only where no TRUNCATE has the lock.
LEMMA CommitKeeps ==
  ASSUME HInv, NEW p \in Processes, Commit(p)
  PROVE  HInv'
<1> DEFINE s == sess[p]
           rel == s.stmt.rels[1]
<1>1. /\ s.pc = "commit" /\ Become(p, Idle) /\ UNCHANGED <<fixedVars, statements, dropped, passwords>>
      /\ rows' = IF s.stmt.kind = "insert" THEN [rows EXCEPT ![rel] = @ \cup {<<p, statements>>}] ELSE rows
  BY DEF Commit
<1>2. toload = <<>> /\ statements \in Nat /\ SessionOK(s) /\ s.stmt \in offered /\ Locked(s)
  BY <1>1, InHook DEF SessionOK
<1>3. Guarded'
  BY <1>1, GuardedKept DEF HInv
<1>4. rows \in [Rels -> SUBSET Rows] /\ (s.stmt.kind = "insert" => rel \in Rels)
  BY <1>2 DEF HInv, HooksTypes, StatementOK
<1>5. <<p, statements>> \in Rows
  BY <1>2 DEF Rows
<1>6. rows' \in [Rels -> SUBSET Rows]
  BY <1>1, <1>4, <1>5
<1>7. ASSUME NEW q \in Processes \ {p}, Truncated(q)
      PROVE  rows'[sess[q].stmt.rels[1]] \subseteq rows[sess[q].stmt.rels[1]]
  <2>1. CASE s.stmt.kind # "insert"
    BY <2>1, <1>1
  <2>2. CASE s.stmt.kind = "insert"
    <3>1. <<sess[q].stmt.rels[1], "exclusive">> \in sess[q].locks
      BY <1>7 DEF HInv, Truncated, SessionOK, Locked
    <3>2. <<rel, "shared">> \in s.locks
      BY <2>2, <1>1, <1>2 DEF Locked
    <3>3. sess[q].stmt.rels[1] # rel
      BY <3>1, <3>2 DEF HInv, LocksExclude
    <3> QED
      BY <3>3, <2>2, <1>1, <1>4
  <2> QED
    BY <2>1, <2>2
<1>8. Idle.locks = {} /\ Idle.pc = "idle"
  BY DEF Idle
<1> QED
  BY <1>1, <1>2, <1>3, <1>6, <1>7, <1>8, IdleFits, Moved

\* Nobody is left.
LEMMA AbortKeeps ==
  ASSUME HInv, NEW p \in Processes, Abort(p)
  PROVE  HInv'
<1> DEFINE dead == [Idle EXCEPT !.pc = "dead"]
<1>1. /\ sess[p].pc = "panic" /\ sess' = [q \in Processes |-> dead]
      /\ UNCHANGED fixedVars /\ rows' = rows /\ statements' = statements /\ dropped' = dropped /\ passwords' = passwords
  BY DEF Abort, catalogVars
<1>2. toload = <<>> /\ ChainsShape
  BY <1>1, InHook
<1>3. /\ dead \in SessTypes /\ SessionOK(dead) /\ dead.locks = {} /\ dead.pc = "dead"
  BY DEF Idle, SessTypes, Statements, Statement, Rows, SessionOK, Locked
<1> HIDE DEF dead
<1>4. offered' = offered /\ SessTypes' = SessTypes /\ toload' = toload
  BY <1>1 DEF fixedVars, SessTypes, Statements
<1>5. HooksTypes'
  BY <1>1, <1>2, <1>3, <1>4 DEF HooksTypes, HInv
<1>6. (\A q \in Processes : SessionOK(sess[q]))'
  BY <1>1, <1>3, SameSession
<1>7. LocksExclude'
  BY <1>1, <1>3 DEF LocksExclude
<1>8. TruncateEmpties'
  BY <1>1, <1>3 DEF TruncateEmpties, Truncated
<1>9. Guarded'
  BY <1>1, GuardedKept DEF HInv
<1> QED
  BY <1>1, <1>2, <1>5, <1>6, <1>7, <1>8, <1>9, SamePlaces DEF HInv

-----------------------------------------------------------------------------
(* Loading, and all steps together.                                        *)

LEMMA PG_initChains ==
  ASSUME ChainsShape, PG_init
  PROVE  ChainsShape'
<1> DEFINE lib == Head(toload)
           k == Done
<1>1. /\ toload # <<>> /\ toload' = Tail(toload) /\ libraries' = libraries
      /\ prev' = [prev EXCEPT ![lib] = [point \in Points |->
                   IF point \in HookedBy(lib) /\ SavesPrevious(lib) THEN hook[point] ELSE "core"]]
      /\ hook' = [point \in Points |-> IF point \in HookedBy(lib) THEN lib ELSE hook[point]]
  BY DEF PG_init
<1>2. /\ libraries \in Seq(Libraries) /\ toload \in Seq(Libraries) /\ Len(toload) <= Len(libraries)
      /\ Len(libraries) \in Nat /\ Len(toload) \in Nat /\ Len(toload) > 0
  BY <1>1 DEF ChainsShape
<1>3. /\ Len(toload') = Len(toload) - 1 /\ toload' \in Seq(Libraries) /\ lib \in Libraries
      /\ lib = toload[1] /\ \A i \in 1..Len(toload') : toload'[i] = toload[i + 1]
  BY <1>1, <1>2
<1>4. k \in Nat /\ k + 1 \in 1..Len(libraries) /\ Done' = k + 1
  BY <1>1, <1>2, <1>3 DEF Done
<1>5. lib = libraries[k + 1]
  BY <1>2, <1>3 DEF ChainsShape
<1>6. \A i \in 1..Len(toload') : toload'[i] = libraries[(k + 1) + i]
  <2>1. ASSUME NEW i \in 1..Len(toload') PROVE toload[i + 1] = libraries[k + (i + 1)]
    <3>1. i + 1 \in 1..Len(toload)
      BY <1>2, <1>3
    <3> QED
      BY <3>1 DEF ChainsShape
  <2>2. \A i \in 1..Len(toload') : k + (i + 1) = (k + 1) + i
    BY <1>2, <1>3, <1>4
  <2> QED
    BY <2>1, <2>2, <1>3
<1>7. hook' \in [Points -> Libraries \cup {"core"}]
  BY <1>1, <1>3 DEF ChainsShape
<1>8. prev' \in [Libraries -> [Points -> Libraries \cup {"core"}]]
  BY <1>1, <1>3 DEF ChainsShape
<1>9. /\ \A i, point : On(i, point)' = On(i, point)
      /\ \A n, point, at : Top(n, point, at)' = Top(n, point, at)
  BY <1>1 DEF On, Top
<1>10. ASSUME NEW point \in Points PROVE Top(k + 1, point, hook'[point])
  <2>1. CASE point \in HookedBy(lib)
    <3>1. hook'[point] = libraries[k + 1] /\ On(k + 1, point) /\ k + 1 \in 1..(k + 1)
      BY <2>1, <1>1, <1>4, <1>5 DEF On
    <3>2. \A n \in ((k + 1) + 1)..(k + 1) : ~On(n, point)
      BY <1>4
    <3> QED
      BY <3>1, <3>2 DEF Top
  <2>2. CASE point \notin HookedBy(lib)
    <3>1. hook'[point] = hook[point] /\ ~On(k + 1, point)
      BY <2>2, <1>1, <1>5 DEF On
    <3>2. Top(k, point, hook[point])
      BY DEF ChainsShape
    <3>3. CASE hook[point] = "core" /\ \A m \in 1..k : ~On(m, point)
      <4>1. \A m \in 1..(k + 1) : ~On(m, point)
        BY <3>1, <3>3, <1>4
      <4> QED
        BY <4>1, <3>1, <3>3 DEF Top
    <3>4. CASE \E m \in 1..k : hook[point] = libraries[m] /\ On(m, point) /\ \A n \in (m + 1)..k : ~On(n, point)
      <4>1. PICK m \in 1..k : hook[point] = libraries[m] /\ On(m, point) /\ \A n \in (m + 1)..k : ~On(n, point)
        BY <3>4
      <4>2. m \in 1..(k + 1) /\ \A n \in (m + 1)..(k + 1) : ~On(n, point)
        BY <4>1, <3>1, <1>4
      <4> QED
        BY <4>1, <4>2, <3>1 DEF Top
    <3> QED
      BY <3>2, <3>3, <3>4 DEF Top
  <2> QED
    BY <2>1, <2>2
<1>11. ASSUME NEW i \in 1..(k + 1), NEW point \in Points, On(i, point), SavesPrevious(libraries[i])
       PROVE  Top(i - 1, point, prev'[libraries[i]][point])
  <2>1. CASE i = k + 1
    <3>1. prev'[lib][point] = hook[point]
      BY <2>1, <1>1, <1>3, <1>5, <1>11 DEF On, ChainsShape
    <3>2. Top(k, point, hook[point]) /\ i - 1 = k
      BY <2>1, <1>4 DEF ChainsShape
    <3> QED
      BY <3>1, <3>2, <2>1, <1>5
  <2>2. CASE i # k + 1
    <3>1. i \in 1..k /\ i \in 1..Len(libraries)
      BY <2>2, <1>4
    <3>2. libraries[i] # lib
      BY <3>1, <2>2, <1>2, <1>4, <1>5 DEF ChainsShape, IsInjective
    <3>3. libraries[i] \in Libraries
      BY <3>1, <1>2
    <3>4. prev'[libraries[i]] = prev[libraries[i]]
      BY <3>2, <3>3, <1>1 DEF ChainsShape
    <3> QED
      BY <3>1, <3>4, <1>11 DEF ChainsShape
  <2> QED
    BY <2>1, <2>2
<1> HIDE DEF lib, k
<1>12. Len(toload') <= Len(libraries')
  BY <1>1, <1>2, <1>3
<1>13. \A point \in Points : Top(Done, point, hook[point])'
  BY <1>4, <1>9, <1>10
<1>14. ASSUME NEW i \in 1..Done', NEW point \in Points, On(i, point)', SavesPrevious(libraries'[i])
       PROVE  Top(i - 1, point, prev[libraries[i]][point])'
  BY <1>1, <1>4, <1>9, <1>11, <1>14
<1> QED
  BY <1>1, <1>2, <1>3, <1>4, <1>6, <1>7, <1>8, <1>12, <1>13, <1>14 DEF ChainsShape

LEMMA PG_initKeeps ==
  ASSUME HInv, PG_init
  PROVE  HInv'
<1>1. /\ toload # <<>> /\ offered' = offered /\ sess' = sess /\ statements' = statements /\ rows' = rows
      /\ dropped' = dropped /\ passwords' = passwords
  BY DEF PG_init
<1>2. dropped = {} /\ passwords = {} /\ \A p \in Processes : sess[p] = Idle
  BY <1>1 DEF HInv, HooksTypes
<1>3. ChainsShape'
  BY PG_initChains DEF HInv
<1>4. SessTypes' = SessTypes
  BY <1>1 DEF SessTypes, Statements
<1>5. HooksTypes'
  BY <1>1, <1>2, <1>4 DEF HInv, HooksTypes
<1>6. SessionOK(Idle)'
  BY DEF SessionOK, Locked, Idle
<1>7. (\A p \in Processes : SessionOK(sess[p]))'
  BY <1>1, <1>2, <1>6
<1>8. LocksExclude'
  BY <1>1, <1>2 DEF LocksExclude, Idle
<1>9. TruncateEmpties'
  <2>1. \A p \in Processes : ~Truncated(p)'
    BY <1>1, <1>2 DEF Truncated, Idle
  <2> QED
    BY <2>1 DEF TruncateEmpties
<1>10. Guarded'
  BY <1>1, <1>2 DEF Guarded
<1> QED
  BY <1>3, <1>5, <1>7, <1>8, <1>9, <1>10 DEF HInv

LEMMA HooksInitInv == Init => HInv
<1> SUFFICES ASSUME Init PROVE HInv
  OBVIOUS
<1>1. PICK c \in Configs : /\ libraries = c.libraries /\ toload = c.libraries /\ logging = c.logging
                           /\ offered = c.offered /\ statements = c.statements
  BY DEF Init
<1>2. /\ libraries \in Seq(Libraries) /\ IsInjective(libraries) /\ statements \in Nat
      /\ \A stmt \in offered : StatementOK(stmt)
  BY <1>1, ConfigsAssumption DEF StatementOK
<1>3. /\ hook = [point \in Points |-> "core"] /\ prev = [lib \in Libraries |-> [point \in Points |-> "core"]]
      /\ sess = [p \in Processes |-> Idle] /\ dropped = {} /\ passwords = {}
      /\ rows = [rel \in Rels |-> {<<"before", 0>>}]
  BY DEF Init, HooksInit
<1>4. Done = 0 /\ Len(libraries) \in Nat /\ toload = libraries
  BY <1>1, <1>2 DEF Done
<1>5. ChainsShape
  <2>1. \A i \in 1..Len(toload) : toload[i] = libraries[Done + i]
    BY <1>4
  <2>2. \A point \in Points : Top(Done, point, hook[point])
    BY <1>3, <1>4 DEF Top
  <2>3. 1..Done = {}
    BY <1>4
  <2>4. hook \in [Points -> Libraries \cup {"core"}] /\ prev \in [Libraries -> [Points -> Libraries \cup {"core"}]]
    BY <1>3
  <2> QED
    BY <2>1, <2>2, <2>3, <2>4, <1>2, <1>4 DEF ChainsShape
<1>6. HooksTypes
  <2>1. <<"before", 0>> \in Rows
    BY DEF Rows
  <2>2. rows \in [Rels -> SUBSET Rows]
    BY <2>1, <1>3
  <2> QED
    BY <2>2, <1>2, <1>3, IdleFits DEF HooksTypes
<1>7. \A p \in Processes : SessionOK(sess[p])
  BY <1>3, IdleFits
<1>8. LocksExclude /\ Guarded /\ TruncateEmpties
  BY <1>3 DEF LocksExclude, Guarded, TruncateEmpties, Truncated, Idle
<1> QED
  BY <1>5, <1>6, <1>7, <1>8 DEF HInv

\* The log is no concern of the hooks.
LEMMA HooksUnchanged ==
  ASSUME HInv, UNCHANGED hookVars
  PROVE  HInv'
<1>1. /\ UNCHANGED fixedVars /\ sess' = sess /\ statements' = statements /\ rows' = rows
      /\ dropped' = dropped /\ passwords' = passwords /\ offered' = offered /\ toload' = toload
  BY DEF hookVars, fixedVars
<1>2. ChainsShape' /\ Guarded'
  BY <1>1, SamePlaces, GuardedKept DEF HInv
<1>3. SessTypes' = SessTypes
  BY <1>1 DEF SessTypes, Statements
<1>4. HooksTypes'
  BY <1>1, <1>3 DEF HInv, HooksTypes
<1>5. (\A p \in Processes : SessionOK(sess[p]))'
  BY <1>1, SameSession DEF HInv
<1>6. LocksExclude /\ TruncateEmpties
  BY DEF HInv
<1>7. LocksExclude'
  BY <1>1, <1>6 DEF LocksExclude
<1>8. TruncateEmpties'
  BY <1>1, <1>6 DEF TruncateEmpties, Truncated
<1> QED
  BY <1>2, <1>4, <1>5, <1>7, <1>8 DEF HInv

LEMMA HooksStep == HInv /\ [Next]_vars => HInv'
<1> SUFFICES ASSUME HInv, [Next]_vars PROVE HInv'
  OBVIOUS
<1>1. CASE PG_init
  BY <1>1, PG_initKeeps
<1>2. ASSUME NEW p \in Processes, SessionStep(p) PROVE HInv'
  <2>1. CASE Commit(p)
    BY <2>1, CommitKeeps
  <2>2. CASE Abort(p)
    BY <2>2, AbortKeeps
  <2>3. CASE dbrestrict_utility(p)
    BY <2>3, dbrestrict_utilityKeeps
  <2>4. CASE trunc2del(p)
    BY <2>4, trunc2delKeeps
  <2>5. CASE panic_hook(p)
    BY <2>5, panic_hookKeeps
  <2>6. CASE object_hooks_access_entry(p)
    BY <2>6, object_hooksKeeps
  <2>7. CASE check_password(p)
    BY <2>7, check_passwordKeeps
  <2>8. CASE plugin_funcs(p)
    BY <2>8, plugin_funcsKeeps
  <2>9. CASE OtherHook(p)
    BY <2>9, OtherHookKeeps
  <2>10. CASE standard_ProcessUtility(p)
    BY <2>10, standard_ProcessUtilityKeeps
  <2>11. CASE AfterObjectAccess(p)
    BY <2>11, AfterObjectAccessKeeps
  <2>12. CASE standard_planner(p)
    BY <2>12, standard_plannerKeeps
  <2>13. CASE SetPassword(p)
    BY <2>13, SetPasswordKeeps
  <2>14. CASE FunctionEnds(p)
    BY <2>14, FunctionEndsKeeps
  <2>15. CASE trunc2del_fails(p)
    BY <2>15, trunc2del_failsKeeps
  <2> QED
    BY <1>2, <2>15, <2>1, <2>2, <2>3, <2>4, <2>5, <2>6, <2>7, <2>8, <2>9, <2>10, <2>11, <2>12, <2>13, <2>14
       DEF SessionStep
<1>3. ASSUME NEW p \in Processes, NEW stmt \in offered, BeginStatement(p, stmt) PROVE HInv'
  BY <1>3, BeginStatementKeeps
<1>4. ASSUME NEW p \in Emitters, LogStep(p) PROVE HInv'
  BY <1>4, HooksUnchanged DEF LogStep
<1>5. CASE Collect
  BY <1>5, HooksUnchanged DEF Collect
<1>6. CASE UNCHANGED hookVars
  BY <1>6, HooksUnchanged
<1> QED
  BY <1>1, <1>2, <1>3, <1>4, <1>5, <1>6 DEF Next, vars

\* Whatever the order of the libraries and whatever the sessions do: hook_utility keeps
\* its database from everybody but its user (dbrestrict_utility), and passwordcheck_extra
\* lets no password through that breaks a rule (check_password).
THEOREM PreloadGuarded == Spec => []Guarded
<1>1. HInv => Guarded
  BY DEF HInv
<1> QED
  BY <1>1, HooksInitInv, HooksStep, PTL DEF Spec

\* The DELETE that pg_trunc2del makes of a TRUNCATE leaves no row that it is to remove.
THEOREM PreloadTruncateEmpties == Spec => []TruncateEmpties
<1>1. HInv => TruncateEmpties
  BY DEF HInv
<1> QED
  BY <1>1, HooksInitInv, HooksStep, PTL DEF Spec

-----------------------------------------------------------------------------
(* Sets of places.                                                         *)

LEMMA PlacesFinite ==
  ASSUME NEW n \in Nat, NEW S \in SUBSET (1..n)
  PROVE  IsFiniteSet(S) /\ Cardinality(S) \in Nat /\ S \in SUBSET Int
<1>1. IsFiniteSet(1..n)
  BY FS_Interval
<1>2. IsFiniteSet(S)
  BY <1>1, FS_Subset
<1> QED
  BY <1>2, FS_CardinalityType

LEMMA PlaceAdded ==
  ASSUME NEW n \in Nat, NEW S \in SUBSET (1..n)
  PROVE  /\ Cardinality(S \cup {n + 1}) = Cardinality(S) + 1
         /\ \A i \in 1..n : Upto(S \cup {n + 1}, i) = Upto(S, i)
         /\ Upto(S \cup {n + 1}, n + 1) = S \cup {n + 1}
<1>1. \A k \in S : k \in Int /\ k <= n
  OBVIOUS
<1>2. IsFiniteSet(S) /\ n + 1 \notin S
  <2>1. IsFiniteSet(S)
    BY PlacesFinite
  <2>2. ~(n + 1 <= n)
    OBVIOUS
  <2> QED
    BY <2>1, <2>2, <1>1
<1>3. Cardinality(S \cup {n + 1}) = Cardinality(S) + 1
  BY <1>2, FS_AddElement
<1>4. \A i \in 1..n : Upto(S \cup {n + 1}, i) = Upto(S, i)
  BY DEF Upto
<1>5. Upto(S \cup {n + 1}, n + 1) = S \cup {n + 1}
  <2>1. \A k \in S \cup {n + 1} : k <= n + 1
    BY <1>1
  <2> QED
    BY <2>1 DEF Upto
<1> QED
  BY <1>3, <1>4, <1>5

LEMMA PlacesShifted ==
  ASSUME NEW n \in Nat, NEW S \in SUBSET (1..n)
  PROVE  Cardinality(Shift(S)) = IF 1 \in S THEN Cardinality(S) - 1 ELSE Cardinality(S)
<1> DEFINE f == [k \in S \ {1} |-> k - 1]
<1>1. IsFiniteSet(S)
  BY PlacesFinite
<1>2. /\ IsFiniteSet(S \ {1})
      /\ Cardinality(S \ {1}) = IF 1 \in S THEN Cardinality(S) - 1 ELSE Cardinality(S)
  BY <1>1, FS_RemoveElement
<1>3. \A k \in S \ {1} : k - 1 \in Shift(S)
  BY DEF Shift
<1>4. f \in [S \ {1} -> Shift(S)]
  BY <1>3
<1>5. \A a, b \in S \ {1} : f[a] = f[b] => a = b
  OBVIOUS
<1>6. \A i \in Shift(S) : \E k \in S \ {1} : f[k] = i
  <2> SUFFICES ASSUME NEW i \in Shift(S) PROVE \E k \in S \ {1} : f[k] = i
    OBVIOUS
  <2>1. i + 1 \in S \ {1} /\ f[i + 1] = i
    BY DEF Shift
  <2> QED
    BY <2>1
<1> HIDE DEF f
<1>7. IsInjective(f)
  BY <1>4, <1>5 DEF IsInjective
<1>8. f \in Bijection(S \ {1}, Shift(S))
  BY <1>4, <1>6, <1>7 DEF Bijection, Injection, Surjection
<1>9. Cardinality(Shift(S)) = Cardinality(S \ {1})
  BY <1>2, <1>8, FS_Bijection DEF ExistsBijection
<1> QED
  BY <1>2, <1>9

LEMMA UptoShift ==
  ASSUME NEW n \in Nat, NEW S \in SUBSET (1..n), NEW i \in Nat \ {0}
  PROVE  Upto(Shift(S), i) = Shift(Upto(S, i + 1)) /\ Upto(S, i + 1) \in SUBSET (1..n)
<1>1. \A k \in Nat : k <= i <=> k + 1 <= i + 1
  OBVIOUS
<1>2. \A k : k \in Upto(Shift(S), i) <=> k \in Shift(Upto(S, i + 1))
  BY <1>1 DEF Upto, Shift
<1>3. Upto(Shift(S), i) = Shift(Upto(S, i + 1))
  BY <1>2
<1>4. Upto(S, i + 1) \in SUBSET (1..n)
  BY DEF Upto
<1> QED
  BY <1>3, <1>4

-----------------------------------------------------------------------------
(* Levels.                                                                 *)

LEMMA Ranks ==
  /\ Rank("DEBUG") = 1 /\ Rank("INFO") = 2 /\ Rank("NOTICE") = 3 /\ Rank("WARNING") = 4
  /\ Rank("ERROR") = 5 /\ Rank("LOG") = 6 /\ Rank("FATAL") = 7 /\ Rank("PANIC") = 8
<1>1. DOMAIN Severity = {1, 2, 3, 4, 5, 6, 7, 8}
  BY DEF Severity
<1>2. /\ Severity[1] = "DEBUG" /\ Severity[2] = "INFO" /\ Severity[3] = "NOTICE" /\ Severity[4] = "WARNING"
      /\ Severity[5] = "ERROR" /\ Severity[6] = "LOG" /\ Severity[7] = "FATAL" /\ Severity[8] = "PANIC"
  BY DEF Severity
<1> QED
  BY <1>1, <1>2 DEF Rank

\* What errstart lets through is not held back by jsonlog: its test is the server's own.
LEMMA SameTest ==
  ASSUME logging.log_min_messages \in ToSet(Severity), NEW elevel \in Said, ToServer(elevel)
  PROVE  is_log_level_output(elevel, logging.log_min_messages)
<1> DEFINE min == logging.log_min_messages
<1>1. min \in {"DEBUG", "INFO", "NOTICE", "WARNING", "ERROR", "LOG", "FATAL", "PANIC"}
  BY DEF ToSet, Severity
<1>2. /\ Level["DEBUG"] = 14 /\ Level["LOG"] = 15 /\ Level["INFO"] = 17 /\ Level["NOTICE"] = 18
      /\ Level["WARNING"] = 19 /\ Level["ERROR"] = 21 /\ Level["FATAL"] = 22 /\ Level["PANIC"] = 23
  BY DEF Level
<1>3. Rank(elevel) >= Rank(min)
  BY DEF ToServer
<1> HIDE DEF min
<1>4. is_log_level_output(elevel, min)
  <2>1. CASE elevel = "LOG"
    BY <2>1, <1>1, <1>2, <1>3, Ranks DEF is_log_level_output
  <2>2. CASE elevel = "NOTICE"
    BY <2>2, <1>1, <1>2, <1>3, Ranks DEF is_log_level_output
  <2>3. CASE elevel = "ERROR"
    BY <2>3, <1>1, <1>2, <1>3, Ranks DEF is_log_level_output
  <2>4. CASE elevel = "PANIC"
    BY <2>4, <1>1, <1>2, <1>3, Ranks DEF is_log_level_output
  <2> QED
    BY <2>1, <2>2, <2>3, <2>4 DEF Said
<1> QED
  BY <1>4 DEF min

-----------------------------------------------------------------------------
(* The file and the pipe.                                                  *)

LEMMA Places ==
  ASSUME JsonTypes, NEW p
  PROVE  /\ Len(file) \in Nat /\ Own(p) \in SUBSET (1..Len(file)) /\ Cardinality(Own(p)) \in Nat
         /\ Len(pipe) \in Nat /\ InPipe(p) \in SUBSET (1..Len(pipe)) /\ Cardinality(InPipe(p)) \in Nat
<1>1. file \in Seq(Emitters \X Nat) /\ pipe \in Seq(Chunks)
  BY DEF JsonTypes
<1>2. Len(file) \in Nat /\ Own(p) \in SUBSET (1..Len(file))
  BY <1>1 DEF Own
<1>3. Len(pipe) \in Nat /\ InPipe(p) \in SUBSET (1..Len(pipe))
  BY <1>1 DEF InPipe
<1> QED
  BY <1>2, <1>3, PlacesFinite

LEMMA FileSame ==
  ASSUME NEW p, file' = file
  PROVE  Own(p)' = Own(p) /\ (FileInOrder(p) => FileInOrder(p)')
<1>1. Own(p)' = Own(p)
  BY DEF Own
<1> QED
  BY <1>1 DEF FileInOrder

LEMMA PipeSame ==
  ASSUME NEW p, pipe' = pipe, Own(p)' = Own(p)
  PROVE  InPipe(p)' = InPipe(p) /\ (PipeInOrder(p) => PipeInOrder(p)')
<1>1. InPipe(p)' = InPipe(p)
  BY DEF InPipe
<1> QED
  BY <1>1 DEF PipeInOrder

\* An entry is added to the file.
LEMMA FileGrows ==
  ASSUME JsonTypes, NEW q \in Emitters, NEW n \in Nat, file' = Append(file, <<q, n>>)
  PROVE  /\ file' \in Seq(Emitters \X Nat)
         /\ \A p : p # q => Own(p)' = Own(p) /\ (FileInOrder(p) => FileInOrder(p)')
         /\ Cardinality(Own(q)') = Cardinality(Own(q)) + 1
         /\ FileInOrder(q) /\ n = Cardinality(Own(q)) + 1 => FileInOrder(q)'
<1> DEFINE len == Len(file)
<1>1. file \in Seq(Emitters \X Nat) /\ len \in Nat /\ <<q, n>> \in Emitters \X Nat
  BY DEF JsonTypes
<1>2. /\ file' \in Seq(Emitters \X Nat) /\ Len(file') = len + 1 /\ file'[len + 1] = <<q, n>>
      /\ \A i \in 1..len : file'[i] = file[i]
      /\ DOMAIN file = 1..len /\ DOMAIN file' = 1..(len + 1)
  BY <1>1
<1>3. 1..(len + 1) = (1..len) \cup {len + 1}
  BY <1>1
<1>4. len + 1 \notin 1..len
  BY <1>1
<1> HIDE DEF len
<1>5. ASSUME NEW p, p # q PROVE Own(p)' = Own(p) /\ (FileInOrder(p) => FileInOrder(p)')
  <2>1. \A i : i \in Own(p)' <=> i \in Own(p)
    BY <1>2, <1>3, <1>5 DEF Own
  <2>2. Own(p)' = Own(p)
    BY <2>1
  <2>3. \A i \in Own(p) : file'[i] = file[i]
    BY <1>2 DEF Own
  <2> QED
    BY <2>2, <2>3 DEF FileInOrder
<1>6. Own(q)' = Own(q) \cup {len + 1}
  <2>1. \A i : i \in Own(q)' <=> i \in Own(q) \cup {len + 1}
    BY <1>2, <1>3 DEF Own
  <2> QED
    BY <2>1
<1>7. Own(q) \in SUBSET (1..len)
  BY <1>2 DEF Own
<1>8. /\ Cardinality(Own(q)') = Cardinality(Own(q)) + 1
      /\ \A i \in 1..len : Upto(Own(q)', i) = Upto(Own(q), i)
      /\ Upto(Own(q)', len + 1) = Own(q)'
  <2>1. /\ Cardinality(Own(q) \cup {len + 1}) = Cardinality(Own(q)) + 1
        /\ \A i \in 1..len : Upto(Own(q) \cup {len + 1}, i) = Upto(Own(q), i)
        /\ Upto(Own(q) \cup {len + 1}, len + 1) = Own(q) \cup {len + 1}
    BY <1>1, <1>7, PlaceAdded
  <2> QED
    BY <2>1, <1>6
<1>9. ASSUME FileInOrder(q), n = Cardinality(Own(q)) + 1 PROVE FileInOrder(q)'
  <2>1. ASSUME NEW i \in Own(q) PROVE file'[i][2] = Cardinality(Upto(Own(q)', i))
    <3>1. i \in 1..len /\ file'[i] = file[i]
      BY <1>2, <1>7
    <3>2. Upto(Own(q)', i) = Upto(Own(q), i)
      BY <3>1, <1>8
    <3> QED
      BY <3>1, <3>2, <1>9 DEF FileInOrder
  <2>2. file'[len + 1][2] = Cardinality(Upto(Own(q)', len + 1))
    <3>1. Upto(Own(q)', len + 1) = Own(q)'
      BY <1>8
    <3> QED
      BY <3>1, <1>2, <1>8, <1>9
  <2> QED
    BY <2>1, <2>2, <1>6 DEF FileInOrder
<1> QED
  BY <1>2, <1>5, <1>8, <1>9

\* A chunk is written to the pipe.
LEMMA PipeGrows ==
  ASSUME JsonTypes, NEW chunk \in Chunks, pipe' = Append(pipe, chunk), file' = file
  PROVE  /\ Len(pipe') = Len(pipe) + 1 /\ pipe' \in Seq(Chunks) /\ pipe'[Len(pipe) + 1] = chunk
         /\ \A i \in 1..Len(pipe) : pipe'[i] = pipe[i]
         /\ \A p : ~(chunk.pid = p /\ chunk.last) =>
              InPipe(p)' = InPipe(p) /\ (PipeInOrder(p) => PipeInOrder(p)')
         /\ \A p : chunk.pid = p /\ chunk.last =>
              /\ Cardinality(InPipe(p)') = Cardinality(InPipe(p)) + 1
              /\ PipeInOrder(p) /\ chunk.n = Cardinality(Own(p)) + (Cardinality(InPipe(p)) + 1) => PipeInOrder(p)'
<1> DEFINE len == Len(pipe)
<1>1. pipe \in Seq(Chunks) /\ len \in Nat
  BY DEF JsonTypes
<1>2. /\ pipe' \in Seq(Chunks) /\ Len(pipe') = len + 1 /\ pipe'[len + 1] = chunk
      /\ \A i \in 1..len : pipe'[i] = pipe[i]
      /\ DOMAIN pipe = 1..len /\ DOMAIN pipe' = 1..(len + 1)
  BY <1>1
<1>3. 1..(len + 1) = (1..len) \cup {len + 1}
  BY <1>1
<1>4. \A p : Own(p)' = Own(p)
  BY FileSame
<1> HIDE DEF len
<1>5. ASSUME NEW p, ~(chunk.pid = p /\ chunk.last)
      PROVE  InPipe(p)' = InPipe(p) /\ (PipeInOrder(p) => PipeInOrder(p)')
  <2>1. \A i : i \in InPipe(p)' <=> i \in InPipe(p)
    BY <1>2, <1>3, <1>5 DEF InPipe
  <2>2. InPipe(p)' = InPipe(p)
    BY <2>1
  <2>3. \A i \in InPipe(p) : pipe'[i] = pipe[i]
    BY <1>2 DEF InPipe
  <2> QED
    BY <2>2, <2>3, <1>4 DEF PipeInOrder
<1>6. ASSUME NEW p, chunk.pid = p, chunk.last
      PROVE  /\ Cardinality(InPipe(p)') = Cardinality(InPipe(p)) + 1
             /\ PipeInOrder(p) /\ chunk.n = Cardinality(Own(p)) + (Cardinality(InPipe(p)) + 1) => PipeInOrder(p)'
  <2>1. \A i : i \in InPipe(p)' <=> i \in InPipe(p) \cup {len + 1}
    BY <1>2, <1>3, <1>6 DEF InPipe
  <2>2. InPipe(p)' = InPipe(p) \cup {len + 1}
    BY <2>1
  <2>3. InPipe(p) \in SUBSET (1..len)
    BY <1>2 DEF InPipe
  <2>4. /\ Cardinality(InPipe(p)') = Cardinality(InPipe(p)) + 1
        /\ \A i \in 1..len : Upto(InPipe(p)', i) = Upto(InPipe(p), i)
        /\ Upto(InPipe(p)', len + 1) = InPipe(p)'
    <3>1. /\ Cardinality(InPipe(p) \cup {len + 1}) = Cardinality(InPipe(p)) + 1
          /\ \A i \in 1..len : Upto(InPipe(p) \cup {len + 1}, i) = Upto(InPipe(p), i)
          /\ Upto(InPipe(p) \cup {len + 1}, len + 1) = InPipe(p) \cup {len + 1}
      BY <2>3, <1>1, PlaceAdded
    <3> QED
      BY <3>1, <2>2
  <2>5. ASSUME PipeInOrder(p), chunk.n = Cardinality(Own(p)) + (Cardinality(InPipe(p)) + 1)
        PROVE  PipeInOrder(p)'
    <3>1. ASSUME NEW i \in InPipe(p)
          PROVE  pipe'[i].n = Cardinality(Own(p)') + Cardinality(Upto(InPipe(p)', i))
      <4>1. i \in 1..len /\ pipe'[i] = pipe[i]
        BY <2>3, <1>2
      <4>2. Upto(InPipe(p)', i) = Upto(InPipe(p), i)
        BY <4>1, <2>4
      <4> QED
        BY <4>1, <4>2, <2>5, <1>4 DEF PipeInOrder
    <3>2. pipe'[len + 1].n = Cardinality(Own(p)') + Cardinality(Upto(InPipe(p)', len + 1))
      <4>1. Upto(InPipe(p)', len + 1) = InPipe(p)'
        BY <2>4
      <4> QED
        BY <4>1, <2>4, <2>5, <1>2, <1>4
    <3> QED
      BY <3>1, <3>2, <2>2 DEF PipeInOrder
  <2> QED
    BY <2>4, <2>5
<1> QED
  BY <1>2, <1>5, <1>6 DEF len

\* The first chunk of the pipe is read; what the file gets then is another matter.
LEMMA PipeShrinks ==
  ASSUME JsonTypes, pipe # <<>>, pipe' = Tail(pipe)
  PROVE  /\ Len(pipe') = Len(pipe) - 1 /\ pipe' \in Seq(Chunks) /\ pipe[1] \in Chunks /\ Head(pipe) = pipe[1]
         /\ \A i \in 1..Len(pipe') : i + 1 \in 1..Len(pipe) /\ pipe'[i] = pipe[i + 1]
         /\ \A p : InPipe(p)' = Shift(InPipe(p))
<1>1. pipe \in Seq(Chunks) /\ Len(pipe) \in Nat \ {0}
  BY DEF JsonTypes
<1>2. /\ Len(pipe') = Len(pipe) - 1 /\ pipe' \in Seq(Chunks) /\ pipe[1] \in Chunks /\ Head(pipe) = pipe[1]
      /\ \A i \in 1..Len(pipe') : i + 1 \in 1..Len(pipe) /\ pipe'[i] = pipe[i + 1]
      /\ DOMAIN pipe = 1..Len(pipe) /\ DOMAIN pipe' = 1..Len(pipe')
  BY <1>1
<1>3. \A i \in Nat \ {0} : i + 1 \in 1..Len(pipe) <=> i \in 1..Len(pipe')
  BY <1>1, <1>2
<1>4. 1..Len(pipe') \subseteq Nat \ {0}
  BY <1>1, <1>2
<1>5. ASSUME NEW p PROVE InPipe(p)' = Shift(InPipe(p))
  <2>1. \A i : i \in InPipe(p)' <=> i \in Shift(InPipe(p))
    BY <1>2, <1>3, <1>4 DEF InPipe, Shift
  <2> QED
    BY <2>1
<1> QED
  BY <1>2, <1>5

-----------------------------------------------------------------------------
(* The steps of the log, one by one.                                       *)

LEMMA FramedKept ==
  ASSUME Framed, pipe' = pipe, partial' = partial,
         \A p \in Emitters : p \in torn \/ Len(unsent[p]) = 1 => p \in torn' \/ Len(unsent'[p]) = 1
  PROVE  Framed'
<1>1. \A p, i : OpenAt(p, i)' = OpenAt(p, i)
  BY DEF OpenAt
<1>2. \A p \in Emitters : \A i : Closed(p, i) => Closed(p, i)'
  BY DEF Closed
<1> QED
  BY <1>1, <1>2 DEF Framed

\* Nothing but what is to be said changes.
LEMMA SaidKeeps ==
  ASSUME JInv, out' \in [Emitters -> Seq(Said)],
         \A q \in torn : sess'[q].pc = "dead" /\ out'[q] = <<>>,
         UNCHANGED <<logging, unsent, emitted, pipe, partial, file, torn, unheard>>
  PROVE  JInv'
<1>1. JsonTypes'
  BY DEF JInv, JsonTypes
<1>2. UnsentShape' /\ PipeUsers'
  BY DEF JInv, UnsentShape, PipeUsers, ToPipe
<1>3. TornSilent'
  BY DEF JInv, TornSilent
<1>4. Framed'
  BY FramedKept DEF JInv
<1>5. ASSUME logging.redirection_done, NEW p \in Emitters
      PROVE  FileInOrder(p)' /\ PipeInOrder(p)' /\ Accounted(p)'
  <2>1. Own(p)' = Own(p) /\ InPipe(p)' = InPipe(p) /\ FileInOrder(p)' /\ PipeInOrder(p)'
    BY <1>5, FileSame, PipeSame DEF JInv
  <2> QED
    BY <2>1, <1>5 DEF JInv, Accounted, InHand
<1> QED
  BY <1>1, <1>2, <1>3, <1>4, <1>5 DEF JInv

LEMMA SayKeeps ==
  ASSUME JInv, NEW p \in Processes, NEW levels \in Seq(Said), Say(p, levels),
         p \notin torn, \A q \in torn : sess'[q] = sess[q]
  PROVE  JInv'
<1>1. out \in [Emitters -> Seq(Said)] /\ p \in Emitters /\ torn \subseteq Emitters
  BY DEF JInv, JsonTypes, Emitters
<1>2. out' \in [Emitters -> Seq(Said)] /\ \A q \in torn : out'[q] = out[q]
  BY <1>1 DEF Say
<1>3. UNCHANGED <<logging, unsent, emitted, pipe, partial, file, torn, unheard>>
  BY DEF Say
<1>4. \A q \in torn : sess[q].pc = "dead" /\ out[q] = <<>>
  BY DEF JInv, TornSilent
<1> QED
  BY <1>2, <1>3, <1>4, SaidKeeps

LEMMA QuietKeeps ==
  ASSUME JInv, UNCHANGED jsonVars, \A q \in torn : sess'[q] = sess[q]
  PROVE  JInv'
<1>1. UNCHANGED <<logging, unsent, emitted, pipe, partial, file, torn, unheard>> /\ out' = out
  BY DEF jsonVars
<1>2. out' \in [Emitters -> Seq(Said)]
  BY <1>1 DEF JInv, JsonTypes
<1>3. \A q \in torn : sess'[q].pc = "dead" /\ out'[q] = <<>>
  BY <1>1 DEF JInv, TornSilent
<1> QED
  BY <1>1, <1>2, <1>3, SaidKeeps

LEMMA LoggerMessageKeeps ==
  ASSUME JInv, LoggerMessage("LOG"), sess' = sess
  PROVE  JInv'
<1>1. out \in [Emitters -> Seq(Said)] /\ "logger" \in Emitters /\ "logger" \notin torn /\ torn \subseteq Emitters
  BY JsonLogAssumption DEF JInv, JsonTypes, Emitters
<1>2. <<"LOG">> \in Seq(Said)
  BY DEF Said
<1>3. out' = [out EXCEPT !["logger"] = <<"LOG">>] /\ UNCHANGED <<logging, unsent, emitted, pipe, partial, file, torn, unheard>>
  BY DEF LoggerMessage
<1>4. out' \in [Emitters -> Seq(Said)]
  BY <1>1, <1>2, <1>3
<1>5. \A q \in torn : sess'[q].pc = "dead" /\ out'[q] = <<>>
  BY <1>1, <1>3 DEF JInv, TornSilent
<1> QED
  BY <1>3, <1>4, <1>5, SaidKeeps

\* What dies with the processes is at most the end of an entry each.
LEMMA KilledKeeps ==
  ASSUME JInv, NEW p \in Processes, p \notin torn, Killed(Processes \ {p}),
         \A q \in Processes : sess'[q].pc = "dead"
  PROVE  JInv'
<1> DEFINE ps == Processes \ {p}
<1>1. /\ torn' = torn \cup {q \in ps : unsent[q] # <<>>}
      /\ out' = [q \in Emitters |-> IF q \in ps THEN <<>> ELSE out[q]]
      /\ unsent' = [q \in Emitters |-> IF q \in ps THEN <<>> ELSE unsent[q]]
      /\ logging' = logging /\ emitted' = emitted /\ pipe' = pipe /\ partial' = partial /\ file' = file
      /\ unheard' = unheard
  BY DEF Killed
<1>2. /\ JsonTypes /\ UnsentShape /\ PipeUsers /\ TornSilent /\ Framed
      /\ out \in [Emitters -> Seq(Said)] /\ unsent \in [Emitters -> Seq(Chunks)] /\ torn \subseteq Processes
  BY DEF JInv, JsonTypes
<1>3. ps \subseteq Processes /\ Processes \subseteq Emitters /\ torn \subseteq ps
  BY <1>2 DEF Emitters
<1> HIDE DEF ps
<1>4. /\ out' \in [Emitters -> Seq(Said)] /\ unsent' \in [Emitters -> Seq(Chunks)] /\ torn' \subseteq Processes
      /\ \A q \in Emitters : unsent'[q] = IF q \in ps THEN <<>> ELSE unsent[q]
      /\ \A q \in Emitters : out'[q] = IF q \in ps THEN <<>> ELSE out[q]
  <2>1. <<>> \in Seq(Said) /\ <<>> \in Seq(Chunks)
    OBVIOUS
  <2> QED
    BY <2>1, <1>1, <1>2, <1>3
<1>5. JsonTypes'
  BY <1>1, <1>2, <1>4 DEF JsonTypes
<1>6. UnsentShape'
  <2>1. Len(<<>>) = 0 /\ 1..0 = {}
    OBVIOUS
  <2>2. ASSUME NEW q \in Emitters
        PROVE  /\ Len(unsent'[q]) <= 2
               /\ \A i \in 1..Len(unsent'[q]) :
                    unsent'[q][i] = [pid |-> q, n |-> emitted'[q], last |-> i = Len(unsent'[q])]
    <3>1. CASE q \in ps
      BY <3>1, <2>1, <1>4
    <3>2. CASE q \notin ps
      BY <3>2, <1>1, <1>2, <1>4 DEF UnsentShape
    <3> QED
      BY <3>1, <3>2
  <2> QED
    BY <2>2 DEF UnsentShape
<1>7. PipeUsers'
  BY <1>1, <1>2, <1>4 DEF PipeUsers, ToPipe
<1>8. TornSilent'
  <2>1. torn' \subseteq ps
    BY <1>1, <1>3
  <2> QED
    BY <2>1, <1>3, <1>4 DEF TornSilent
<1>9. Framed'
  <2>1. ASSUME NEW q \in Emitters, q \in torn \/ Len(unsent[q]) = 1 PROVE q \in torn' \/ Len(unsent'[q]) = 1
    BY <2>1, <1>1, <1>4
  <2> QED
    BY <2>1, <1>1, <1>2, FramedKept
<1>10. ASSUME logging.redirection_done, NEW q \in Emitters PROVE FileInOrder(q)' /\ PipeInOrder(q)' /\ Accounted(q)'
  <2>1. Own(q)' = Own(q) /\ InPipe(q)' = InPipe(q) /\ FileInOrder(q)' /\ PipeInOrder(q)'
    BY <1>1, <1>10, FileSame, PipeSame DEF JInv
  <2>2. InHand(q)' = InHand(q)
    <3>1. unsent'[q] # <<>> \/ q \in torn' <=> unsent[q] # <<>> \/ q \in torn
      BY <1>1, <1>4
    <3> QED
      BY <3>1 DEF InHand
  <2> QED
    BY <2>1, <2>2, <1>1, <1>10 DEF JInv, Accounted
<1> QED
  BY <1>1, <1>5, <1>6, <1>7, <1>8, <1>9, <1>10 DEF JInv

\* An entry goes to the pipe, or to the file, or nowhere, and is counted accordingly.
LEMMA EmitKeeps ==
  ASSUME JInv, NEW p \in Emitters, NEW hooked \in BOOLEAN, NEW length \in EntryLengths,
         Emit(p, hooked, length), sess' = sess
  PROVE  JInv'
<1> DEFINE n == emitted[p] + 1
           elevel == Head(out[p])
<1>1. /\ out[p] # <<>> /\ unsent[p] = <<>> /\ out' = [out EXCEPT ![p] = Tail(@)]
      /\ logging' = logging /\ pipe' = pipe /\ partial' = partial /\ torn' = torn
  BY DEF Emit
<1>2. /\ JsonTypes /\ UnsentShape /\ PipeUsers /\ TornSilent /\ Framed
      /\ out \in [Emitters -> Seq(Said)] /\ unsent \in [Emitters -> Seq(Chunks)] /\ torn \subseteq Processes
      /\ emitted \in [Emitters -> Nat]
  BY DEF JInv, JsonTypes
<1>3. p \notin torn /\ elevel \in Said /\ n \in Nat /\ Tail(out[p]) \in Seq(Said)
  <2>1. out[p] \in Seq(Said) /\ emitted[p] \in Nat
    BY <1>2
  <2> QED
    BY <2>1, <1>1, <1>2 DEF TornSilent
<1>4. out' \in [Emitters -> Seq(Said)] /\ \A q \in torn : sess'[q].pc = "dead" /\ out'[q] = <<>>
  <2>1. torn \subseteq Emitters
    BY <1>2 DEF Emitters
  <2> QED
    BY <2>1, <1>1, <1>2, <1>3 DEF TornSilent
<1>5. CASE UNCHANGED <<unsent, emitted, file, unheard>>
  BY <1>1, <1>4, <1>5, SaidKeeps
<1>6. ASSUME hooked, ToServer(elevel), logging.stderr, ToPipe(p) PROVE JInv'
  <2>1. is_log_level_output(elevel, logging.log_min_messages)
    BY <1>2, <1>3, <1>6, SameTest DEF JsonTypes
  <2>2. jsonlog_write_json(p, elevel, length)
    BY <1>6 DEF Emit
  <2>3. /\ emitted' = [emitted EXCEPT ![p] = n] /\ file' = file /\ unheard' = unheard
        /\ unsent' = [unsent EXCEPT ![p] = jsonlog_write_pipe_chunks(p, n, length)]
    BY <2>1, <2>2, <1>6 DEF jsonlog_write_json, ToPipe
  <2> DEFINE chunks == jsonlog_write_pipe_chunks(p, n, length)
  <2>4. length \in 1..2
    BY DEF EntryLengths
  <2>5. /\ chunks \in Seq(Chunks) /\ Len(chunks) = length
        /\ \A i \in 1..Len(chunks) : chunks[i] = [pid |-> p, n |-> n, last |-> i = Len(chunks)]
    <3>1. \A i \in 1..length : [pid |-> p, n |-> n, last |-> i = length] \in Chunks
      BY <1>3 DEF Chunks
    <3> QED
      BY <3>1, <2>4 DEF jsonlog_write_pipe_chunks
  <2> HIDE DEF n, chunks, elevel
  <2>6. /\ unsent' \in [Emitters -> Seq(Chunks)] /\ unsent'[p] = chunks /\ emitted' \in [Emitters -> Nat]
        /\ emitted'[p] = n /\ \A q \in Emitters \ {p} : unsent'[q] = unsent[q] /\ emitted'[q] = emitted[q]
    BY <2>3, <2>5, <1>2, <1>3 DEF chunks
  <2>7. JsonTypes'
    BY <2>3, <2>6, <1>1, <1>2, <1>4 DEF JsonTypes
  <2>8. UnsentShape'
    <3>1. ASSUME NEW q \in Emitters
          PROVE  /\ Len(unsent'[q]) <= 2
                 /\ \A i \in 1..Len(unsent'[q]) :
                      unsent'[q][i] = [pid |-> q, n |-> emitted'[q], last |-> i = Len(unsent'[q])]
      <4>1. CASE q = p
        BY <4>1, <2>4, <2>5, <2>6
      <4>2. CASE q # p
        BY <4>2, <2>6, <1>2 DEF UnsentShape
      <4> QED
        BY <4>1, <4>2
    <3> QED
      BY <3>1 DEF UnsentShape
  <2>9. PipeUsers'
    BY <2>6, <1>1, <1>2, <1>6 DEF PipeUsers, ToPipe
  <2>10. TornSilent'
    <3>1. \A q \in torn : q \in Emitters \ {p}
      BY <1>2, <1>3 DEF Emitters
    <3> QED
      BY <3>1, <2>6, <1>1, <1>2, <1>4 DEF TornSilent
  <2>11. Framed'
    <3>1. ASSUME NEW q \in Emitters, q \in torn \/ Len(unsent[q]) = 1 PROVE q \in torn' \/ Len(unsent'[q]) = 1
      <4>1. Len(<<>>) # 1
        OBVIOUS
      <4> QED
        BY <4>1, <3>1, <2>6, <1>1, <1>3
    <3> QED
      BY <3>1, <1>1, <1>2, FramedKept
  <2>12. ASSUME logging.redirection_done, NEW q \in Emitters PROVE FileInOrder(q)' /\ PipeInOrder(q)' /\ Accounted(q)'
    <3>1. Own(q)' = Own(q) /\ InPipe(q)' = InPipe(q) /\ FileInOrder(q)' /\ PipeInOrder(q)'
      BY <2>3, <2>12, <1>1, FileSame, PipeSame DEF JInv
    <3>2. CASE q # p
      BY <3>1, <3>2, <2>6, <2>12, <1>1 DEF JInv, Accounted, InHand
    <3>3. CASE q = p
      <4>1. chunks # <<>>
        BY <2>4, <2>5
      <4>2. InHand(p) = 0 /\ InHand(p)' = 1
        BY <4>1, <2>6, <1>1, <1>3 DEF InHand
      <4>3. emitted[p] = Cardinality(Own(p)) + Cardinality(InPipe(p)) + InHand(p)
        BY <2>12 DEF JInv, Accounted
      <4>4. Cardinality(Own(p)) \in Nat /\ Cardinality(InPipe(p)) \in Nat
        BY <1>2, Places
      <4>5. emitted'[p] = Cardinality(Own(p)) + Cardinality(InPipe(p)) + 1
        BY <4>2, <4>3, <4>4, <2>6 DEF n
      <4> QED
        BY <4>2, <4>5, <3>1, <3>3 DEF Accounted
    <3> QED
      BY <3>1, <3>2, <3>3
  <2> QED
    BY <2>7, <2>8, <2>9, <2>10, <2>11, <2>12, <1>1 DEF JInv
<1>7. ASSUME hooked, ToServer(elevel), ~ToPipe(p), logging.stderr \/ p = "logger" PROVE JInv'
  <2>1. is_log_level_output(elevel, logging.log_min_messages)
    BY <1>2, <1>3, <1>7, SameTest DEF JsonTypes
  <2>2. jsonlog_write_json(p, elevel, length)
    BY <1>7 DEF Emit
  <2>3. /\ emitted' = [emitted EXCEPT ![p] = n] /\ unsent' = unsent /\ unheard' = unheard
        /\ file' = file \/ file' = Append(file, <<p, n>>)
        /\ logging.redirection_done => file' = Append(file, <<p, n>>)
    BY <2>1, <2>2, <1>7 DEF jsonlog_write_json, ToPipe
  <2>4. InPipe(p) = {} /\ Cardinality(InPipe(p)) = 0
    <3>1. pipe \in Seq(Chunks) /\ DOMAIN pipe = 1..Len(pipe)
      BY <1>2 DEF JsonTypes
    <3>2. \A i \in DOMAIN pipe : pipe[i].pid # p
      BY <3>1, <1>2, <1>7 DEF PipeUsers
    <3>3. InPipe(p) = {}
      BY <3>2 DEF InPipe
    <3> QED
      BY <3>3, FS_EmptySet
  <2>5. InHand(p) = 0 /\ Cardinality(Own(p)) \in Nat
    BY <1>1, <1>2, <1>3, Places DEF InHand
  <2>6. logging.redirection_done => emitted[p] = Cardinality(Own(p))
    <3>1. logging.redirection_done => emitted[p] = Cardinality(Own(p)) + Cardinality(InPipe(p)) + InHand(p)
      BY DEF JInv, Accounted
    <3> QED
      BY <3>1, <2>4, <2>5
  <2>7. logging.redirection_done => n = Cardinality(Own(p)) + 1
    BY <2>6
  <2> HIDE DEF n, elevel
  <2>8. file' \in Seq(Emitters \X Nat)
    <3>1. file \in Seq(Emitters \X Nat)
      BY <1>2 DEF JsonTypes
    <3> QED
      BY <3>1, <2>3, <1>2, <1>3, FileGrows
  <2>9. emitted' \in [Emitters -> Nat] /\ emitted'[p] = n /\ \A q \in Emitters \ {p} : emitted'[q] = emitted[q]
    BY <2>3, <1>2, <1>3
  <2>10. JsonTypes'
    BY <2>3, <2>8, <2>9, <1>1, <1>2, <1>4 DEF JsonTypes
  <2>11. UnsentShape'
    <3>1. Len(<<>>) = 0 /\ 1..0 = {}
      OBVIOUS
    <3>2. ASSUME NEW q \in Emitters
          PROVE  /\ Len(unsent'[q]) <= 2
                 /\ \A i \in 1..Len(unsent'[q]) :
                      unsent'[q][i] = [pid |-> q, n |-> emitted'[q], last |-> i = Len(unsent'[q])]
      <4>1. CASE q = p
        BY <4>1, <3>1, <2>3, <1>1
      <4>2. CASE q # p
        BY <4>2, <2>3, <2>9, <1>2 DEF UnsentShape
      <4> QED
        BY <4>1, <4>2
    <3> QED
      BY <3>2 DEF UnsentShape
  <2>12. PipeUsers'
    BY <2>3, <1>1, <1>2 DEF PipeUsers, ToPipe
  <2>13. TornSilent'
    BY <2>3, <1>1, <1>2, <1>4 DEF TornSilent
  <2>14. Framed'
    BY <2>3, <1>1, <1>2, FramedKept
  <2>15. ASSUME logging.redirection_done, NEW q \in Emitters PROVE FileInOrder(q)' /\ PipeInOrder(q)' /\ Accounted(q)'
    <3>0. /\ \A other : other # p => Own(other)' = Own(other) /\ (FileInOrder(other) => FileInOrder(other)')
          /\ Cardinality(Own(p)') = n /\ FileInOrder(p)'
      BY <2>3, <2>7, <2>15, <1>2, <1>3, FileGrows DEF JInv
    <3>1. CASE q # p
      <4>1. Own(q)' = Own(q) /\ InPipe(q)' = InPipe(q) /\ FileInOrder(q)' /\ PipeInOrder(q)'
        BY <3>0, <3>1, <2>15, <1>1, PipeSame DEF JInv
      <4> QED
        BY <4>1, <3>1, <2>3, <2>9, <2>15, <1>1 DEF JInv, Accounted, InHand
    <3>2. CASE q = p
      <4>1. InPipe(p)' = InPipe(p)
        BY <1>1 DEF InPipe
      <4>2. PipeInOrder(p)'
        BY <4>1, <2>4 DEF PipeInOrder
      <4>3. InHand(p)' = 0
        BY <2>3, <1>1, <1>3 DEF InHand
      <4>4. Cardinality(Own(p)') + Cardinality(InPipe(p)') + InHand(p)' = n
        BY <4>1, <4>3, <3>0, <2>4, <1>3
      <4> QED
        BY <4>2, <4>4, <3>0, <3>2, <2>9 DEF Accounted
    <3> QED
      BY <3>1, <3>2
  <2> QED
    BY <2>10, <2>11, <2>12, <2>13, <2>14, <2>15, <1>1 DEF JInv
<1>8. CASE hooked /\ ToServer(elevel) /\ ~logging.stderr /\ p # "logger"
  <2>1. jsonlog_write_json(p, elevel, length)
    BY <1>8 DEF Emit
  <2>0. is_log_level_output(elevel, logging.log_min_messages)
    BY <1>2, <1>3, <1>8, SameTest DEF JsonTypes
  <2>2. emitted' = [emitted EXCEPT ![p] = emitted[p]] /\ unsent' = unsent /\ file' = file /\ unheard' = unheard
    BY <2>0, <2>1, <1>8 DEF jsonlog_write_json
  <2>3. emitted' = emitted
    BY <2>2, <1>2
  <2> QED
    BY <2>2, <2>3, <1>5
<1>9. CASE ~(hooked /\ ToServer(elevel))
  <2>1. UNCHANGED <<unsent, emitted, file, unheard>>
    BY <1>9 DEF Emit
  <2> QED
    BY <2>1, <1>5
<1> QED
  BY <1>6, <1>7, <1>8, <1>9 DEF ToPipe

\* A chunk follows those of its process in the pipe; a last one completes an entry.
LEMMA WriteChunkKeeps ==
  ASSUME JInv, NEW p \in Emitters, WriteChunk(p), sess' = sess
  PROVE  JInv'
<1> DEFINE chunk == Head(unsent[p])
<1>1. /\ unsent[p] # <<>> /\ Len(pipe) < PipeSize /\ pipe' = Append(pipe, chunk)
      /\ unsent' = [unsent EXCEPT ![p] = Tail(@)]
      /\ logging' = logging /\ out' = out /\ emitted' = emitted /\ partial' = partial /\ file' = file /\ torn' = torn
      /\ unheard' = unheard
  BY DEF WriteChunk
<1>2. /\ JsonTypes /\ UnsentShape /\ PipeUsers /\ TornSilent /\ Framed
      /\ unsent \in [Emitters -> Seq(Chunks)] /\ emitted \in [Emitters -> Nat] /\ PipeSize \in Nat
      /\ pipe \in Seq(Chunks)
  BY JsonLogAssumption DEF JInv, JsonTypes
<1> PICK len \in Nat : len = Len(pipe)
  BY <1>2
<1>3. /\ unsent[p] \in Seq(Chunks) /\ Len(unsent[p]) \in 1..2 /\ chunk = unsent[p][1] /\ chunk \in Chunks
      /\ Tail(unsent[p]) \in Seq(Chunks) /\ Len(Tail(unsent[p])) = Len(unsent[p]) - 1
      /\ \A i \in 1..Len(Tail(unsent[p])) : Tail(unsent[p])[i] = unsent[p][i + 1]
  <2>1. unsent[p] \in Seq(Chunks) /\ unsent[p] # <<>> /\ Len(unsent[p]) <= 2
    BY <1>1, <1>2 DEF UnsentShape
  <2>2. Len(unsent[p]) \in 1..2
    <3>1. \A s \in Seq(Chunks) : s # <<>> => Len(s) \in Nat /\ Len(s) # 0
      OBVIOUS
    <3>2. \A k \in Nat : k # 0 /\ k <= 2 => k \in 1..2
      OBVIOUS
    <3> QED
      BY <3>1, <3>2, <2>1
  <2>3. chunk = unsent[p][1] /\ chunk \in Chunks
    BY <2>1
  <2>4. /\ Tail(unsent[p]) \in Seq(Chunks) /\ Len(Tail(unsent[p])) = Len(unsent[p]) - 1
        /\ \A i \in 1..Len(Tail(unsent[p])) : Tail(unsent[p])[i] = unsent[p][i + 1]
    BY <2>1
  <2> QED
    BY <2>1, <2>2, <2>3, <2>4
<1>4. chunk.pid = p /\ chunk.n = emitted[p] /\ (chunk.last <=> Len(unsent[p]) = 1)
  <2>1. unsent[p][1] = [pid |-> p, n |-> emitted[p], last |-> 1 = Len(unsent[p])]
    BY <1>2, <1>3 DEF UnsentShape
  <2>2. chunk.pid = p /\ chunk.n = emitted[p]
    BY <2>1, <1>3
  <2>3. chunk.last = (1 = Len(unsent[p]))
    BY <2>1, <1>3
  <2> HIDE DEF chunk
  <2> QED
    BY <2>2, <2>3
<1>5. p \notin torn /\ ToPipe(p)
  BY <1>1, <1>2 DEF TornSilent, PipeUsers
<1>6. /\ unsent' \in [Emitters -> Seq(Chunks)] /\ unsent'[p] = Tail(unsent[p])
      /\ \A q \in Emitters \ {p} : unsent'[q] = unsent[q]
  BY <1>1, <1>2, <1>3
<1> HIDE DEF chunk
<1>7. /\ Len(pipe') = len + 1 /\ pipe' \in Seq(Chunks) /\ pipe'[len + 1] = chunk
      /\ \A i \in 1..len : pipe'[i] = pipe[i]
  BY <1>1, <1>2, <1>3, PipeGrows
<1>8. JsonTypes'
  <2>1. Len(pipe') <= PipeSize
    BY <1>1, <1>2, <1>7
  <2> QED
    BY <2>1, <1>1, <1>2, <1>6, <1>7 DEF JsonTypes
<1>9. UnsentShape'
  <2>1. ASSUME NEW q \in Emitters
        PROVE  /\ Len(unsent'[q]) <= 2
               /\ \A i \in 1..Len(unsent'[q]) :
                    unsent'[q][i] = [pid |-> q, n |-> emitted'[q], last |-> i = Len(unsent'[q])]
    <3>1. CASE q = p
      <4> DEFINE left == Tail(unsent[p])
      <4>1. ASSUME NEW i \in 1..Len(left)
            PROVE  left[i] = [pid |-> p, n |-> emitted[p], last |-> i = Len(left)]
        <5>1. i + 1 \in 1..Len(unsent[p]) /\ (i + 1 = Len(unsent[p]) <=> i = Len(left))
          BY <1>3
        <5>2. unsent[p][i + 1] = [pid |-> p, n |-> emitted[p], last |-> i + 1 = Len(unsent[p])]
          BY <5>1, <1>2 DEF UnsentShape
        <5> QED
          BY <5>1, <5>2, <1>3
      <4>2. Len(left) <= 2
        <5>1. \A k \in 1..2 : k - 1 <= 2
          OBVIOUS
        <5> QED
          BY <5>1, <1>3
      <4> HIDE DEF left
      <4> QED
        BY <4>1, <4>2, <3>1, <1>1, <1>6 DEF left
    <3>2. CASE q # p
      BY <3>2, <1>1, <1>2, <1>6 DEF UnsentShape
    <3> QED
      BY <3>1, <3>2
  <2> QED
    BY <2>1 DEF UnsentShape
<1>10. PipeUsers'
  <2>1. \A q \in Emitters : unsent'[q] # <<>> => ToPipe(q)
    BY <1>2, <1>5, <1>6 DEF PipeUsers
  <2>2. \A i \in 1..Len(pipe') : ToPipe(pipe'[i].pid)
    <3>1. \A i \in 1..Len(pipe') : i \in 1..len \/ i = len + 1
      BY <1>2, <1>7
    <3> QED
      BY <3>1, <1>2, <1>4, <1>5, <1>7 DEF PipeUsers
  <2>3. \A q : ToPipe(q)' = ToPipe(q)
    BY <1>1 DEF ToPipe
  <2> QED
    BY <2>1, <2>2, <2>3 DEF PipeUsers
<1>11. TornSilent'
  <2>1. \A q \in torn : q \in Emitters \ {p}
    BY <1>2, <1>5 DEF JsonTypes, Emitters
  <2> QED
    BY <2>1, <1>1, <1>2, <1>6 DEF TornSilent
<1>12. Framed'
  <2>1. ASSUME NEW q \in Emitters, NEW i \in 0..len, OpenAt(q, i)' PROVE Closed(q, i)'
    <3>1. OpenAt(q, i)
      BY <2>1, <1>1, <1>2, <1>7 DEF OpenAt
    <3>2. Closed(q, i)
      BY <3>1, <1>2 DEF Framed
    <3>3. CASE \E k \in (i + 1)..len : pipe[k].pid = q /\ pipe[k].last /\ \A m \in (i + 1)..(k - 1) : pipe[m].pid # q
      <4>1. PICK k \in (i + 1)..len : pipe[k].pid = q /\ pipe[k].last /\ \A m \in (i + 1)..(k - 1) : pipe[m].pid # q
        BY <3>3
      <4>2. /\ k \in (i + 1)..Len(pipe') /\ k \in 1..len
            /\ \A m \in (i + 1)..(k - 1) : m \in 1..len
        BY <1>2, <1>7
      <4>3. pipe'[k].pid = q /\ pipe'[k].last /\ \A m \in (i + 1)..(k - 1) : pipe'[m].pid # q
        BY <4>1, <4>2, <1>7
      <4> QED
        BY <4>2, <4>3 DEF Closed
    <3>4. CASE (\A m \in (i + 1)..len : pipe[m].pid # q) /\ (q \in torn \/ Len(unsent[q]) = 1)
      <4>1. \A m \in (i + 1)..len : m \in 1..len /\ pipe'[m].pid # q
        BY <3>4, <1>2, <1>7
      <4>2. CASE q = p
        <5>1. /\ len + 1 \in (i + 1)..Len(pipe') /\ pipe'[len + 1].pid = q /\ pipe'[len + 1].last
          BY <4>2, <3>4, <1>2, <1>4, <1>5, <1>7
        <5>2. (len + 1) - 1 = len
          BY <1>2
        <5> QED
          BY <5>1, <5>2, <4>1 DEF Closed
      <4>3. CASE q # p
        <5>1. \A m \in (i + 1)..Len(pipe') : m \in (i + 1)..len \/ m = len + 1
          BY <1>2, <1>7
        <5>2. \A m \in (i + 1)..Len(pipe') : pipe'[m].pid # q
          BY <5>1, <4>1, <4>3, <1>4, <1>7
        <5>3. q \in torn' \/ Len(unsent'[q]) = 1
          BY <4>3, <3>4, <1>1, <1>6
        <5> QED
          BY <5>2, <5>3 DEF Closed
      <4> QED
        BY <4>2, <4>3
    <3> QED
      BY <3>2, <3>3, <3>4 DEF Closed
  <2>2. ASSUME NEW q \in Emitters, OpenAt(q, len + 1)' PROVE Closed(q, len + 1)'
    <3>1. len + 1 # 0
      BY <1>2
    <3>2. pipe'[len + 1].pid = q /\ ~pipe'[len + 1].last
      BY <3>1, <2>2 DEF OpenAt
    <3>3. q = p /\ ~chunk.last
      BY <3>2, <1>4, <1>7
    <3>4. Len(unsent'[p]) = 1
      BY <3>3, <1>3, <1>4, <1>6
    <3>5. ((len + 1) + 1)..Len(pipe') = {}
      BY <1>2, <1>7
    <3> QED
      BY <3>3, <3>4, <3>5 DEF Closed
  <2>3. \A i \in 0..Len(pipe') : i \in 0..len \/ i = len + 1
    BY <1>2, <1>7
  <2> QED
    BY <2>1, <2>2, <2>3 DEF Framed
<1>13. ASSUME logging.redirection_done, NEW q \in Emitters PROVE FileInOrder(q)' /\ PipeInOrder(q)' /\ Accounted(q)'
  <2>1. Own(q)' = Own(q) /\ FileInOrder(q)' /\ FileInOrder(q) /\ PipeInOrder(q)
    BY <1>1, <1>13, FileSame DEF JInv
  <2>2. emitted[q] = Cardinality(Own(q)) + Cardinality(InPipe(q)) + InHand(q)
    BY <1>13 DEF JInv, Accounted
  <2>3. Cardinality(Own(q)) \in Nat /\ Cardinality(InPipe(q)) \in Nat
    BY <1>2, Places
  <2>4. CASE q = p /\ chunk.last
    <3>1. InHand(q) = 1
      BY <2>4, <1>1 DEF InHand
    <3>2. Cardinality(InPipe(q)') = Cardinality(InPipe(q)) + 1
      BY <2>4, <1>1, <1>2, <1>3, <1>4, PipeGrows
    <3>3. chunk.n = Cardinality(Own(q)) + (Cardinality(InPipe(q)) + 1)
      BY <3>1, <2>2, <2>3, <2>4, <1>4
    <3>4. PipeInOrder(q)'
      BY <3>3, <2>1, <2>4, <1>1, <1>2, <1>3, <1>4, PipeGrows
    <3>5. unsent'[p] = <<>>
      BY <2>4, <1>3, <1>4, <1>6
    <3>6. InHand(q)' = 0
      BY <3>5, <2>4, <1>1, <1>5 DEF InHand
    <3>7. emitted[q] = Cardinality(Own(q)) + Cardinality(InPipe(q)') + 0
      BY <3>1, <3>2, <2>2, <2>3
    <3> QED
      BY <3>4, <3>6, <3>7, <2>1, <1>1 DEF Accounted
  <2>5. CASE ~(q = p /\ chunk.last)
    <3>1. InPipe(q)' = InPipe(q) /\ PipeInOrder(q)'
      BY <2>1, <2>5, <1>1, <1>2, <1>3, <1>4, PipeGrows
    <3>2. InHand(q)' = InHand(q)
      <4>1. CASE q = p
        <5>1. Len(unsent'[p]) = 1
          BY <4>1, <2>5, <1>3, <1>4, <1>6
        <5>2. unsent'[p] # <<>>
          <6>1. Len(<<>>) # 1
            OBVIOUS
          <6> QED
            BY <6>1, <5>1
        <5> QED
          BY <5>2, <4>1, <1>1 DEF InHand
      <4>2. CASE q # p
        BY <4>2, <1>1, <1>6 DEF InHand
      <4> QED
        BY <4>1, <4>2
    <3> QED
      BY <3>1, <3>2, <2>1, <2>2, <1>1 DEF Accounted
  <2> QED
    BY <2>4, <2>5
<1> QED
  BY <1>1, <1>8, <1>9, <1>10, <1>11, <1>12, <1>13 DEF JInv

\* The collector keeps the first chunk of an entry of two, and writes complete ones.
LEMMA LoggerReadKeeps ==
  ASSUME JInv, LoggerRead, sess' = sess
  PROVE  JInv'
<1> DEFINE chunk == pipe[1]
           p == pipe[1].pid
<1>1. /\ pipe # <<>> /\ pipe' = Tail(pipe)
      /\ logging' = logging /\ out' = out /\ emitted' = emitted /\ unsent' = unsent /\ torn' = torn
      /\ unheard' = unheard
  BY DEF LoggerRead
<1>2. /\ JsonTypes /\ UnsentShape /\ PipeUsers /\ TornSilent /\ Framed
      /\ pipe \in Seq(Chunks) /\ Len(pipe) \in Nat \ {0} /\ PipeSize \in Nat /\ partial \in [Emitters -> 0..1]
  BY <1>1, JsonLogAssumption DEF JInv, JsonTypes
<1>3. /\ Len(pipe') = Len(pipe) - 1 /\ pipe' \in Seq(Chunks) /\ pipe[1] \in Chunks /\ Head(pipe) = pipe[1]
      /\ \A i \in 1..Len(pipe') : i + 1 \in 1..Len(pipe) /\ pipe'[i] = pipe[i + 1]
      /\ \A q : InPipe(q)' = Shift(InPipe(q))
  BY <1>1, <1>2, PipeShrinks
<1>4. p \in Emitters /\ chunk.n \in Nat /\ chunk.last \in BOOLEAN
  BY <1>3 DEF Chunks
<1>5. /\ chunk.last => file' = Append(file, <<p, chunk.n>>) /\ partial' = [partial EXCEPT ![p] = 0]
      /\ ~chunk.last => file' = file /\ partial' = [partial EXCEPT ![p] = @ + 1]
  BY <1>3 DEF LoggerRead
<1>6. 1 \in InPipe(p) <=> chunk.last
  BY <1>2 DEF InPipe
<1>7. \A q : q # p => 1 \notin InPipe(q)
  BY DEF InPipe
<1>8. ~chunk.last => partial[p] = 0
  <2>1. ASSUME ~chunk.last, partial[p] = 1 PROVE FALSE
    <3>1. 0 \in 0..Len(pipe) /\ 1 \in (0 + 1)..Len(pipe)
      BY <1>2
    <3>2. OpenAt(p, 0)
      BY <2>1 DEF OpenAt
    <3>3. Closed(p, 0)
      BY <3>1, <3>2, <1>2, <1>4 DEF Framed
    <3>4. PICK k \in (0 + 1)..Len(pipe) : pipe[k].pid = p /\ pipe[k].last /\ \A m \in (0 + 1)..(k - 1) : pipe[m].pid # p
      BY <3>1, <3>3 DEF Closed
    <3>5. k # 1
      BY <3>4, <2>1
    <3>6. 1 \in (0 + 1)..(k - 1)
      BY <3>5
    <3> QED
      BY <3>4, <3>6
  <2> QED
    BY <2>1, <1>2, <1>4
<1>9. /\ partial' \in [Emitters -> 0..1] /\ \A q \in Emitters \ {p} : partial'[q] = partial[q]
      /\ partial'[p] = IF chunk.last THEN 0 ELSE 1
  BY <1>2, <1>4, <1>5, <1>8
<1> HIDE DEF chunk, p
<1>10. file' \in Seq(Emitters \X Nat)
  BY <1>2, <1>4, <1>5, FileGrows DEF JsonTypes
<1>11. JsonTypes'
  <2>1. Len(pipe') <= PipeSize
    BY <1>2, <1>3 DEF JsonTypes
  <2> QED
    BY <2>1, <1>1, <1>2, <1>3, <1>9, <1>10 DEF JsonTypes
<1>12. UnsentShape' /\ TornSilent'
  BY <1>1, <1>2 DEF UnsentShape, TornSilent
<1>13. PipeUsers'
  BY <1>1, <1>2, <1>3 DEF PipeUsers, ToPipe
<1>14. Framed'
  <2>1. ASSUME NEW q \in Emitters, NEW i \in 0..Len(pipe'), Closed(q, i + 1) PROVE Closed(q, i)'
    <3>1. CASE \E k \in ((i + 1) + 1)..Len(pipe) :
                 pipe[k].pid = q /\ pipe[k].last /\ \A m \in ((i + 1) + 1)..(k - 1) : pipe[m].pid # q
      <4>1. PICK k \in ((i + 1) + 1)..Len(pipe) :
                   pipe[k].pid = q /\ pipe[k].last /\ \A m \in ((i + 1) + 1)..(k - 1) : pipe[m].pid # q
        BY <3>1
      <4>2. k - 1 \in (i + 1)..Len(pipe') /\ (k - 1) + 1 = k /\ k - 1 \in 1..Len(pipe')
        BY <1>2, <1>3
      <4>3. \A m \in (i + 1)..((k - 1) - 1) : m + 1 \in ((i + 1) + 1)..(k - 1) /\ m \in 1..Len(pipe')
        BY <1>2, <1>3
      <4>4. pipe'[k - 1].pid = q /\ pipe'[k - 1].last /\ \A m \in (i + 1)..((k - 1) - 1) : pipe'[m].pid # q
        BY <4>1, <4>2, <4>3, <1>3
      <4> QED
        BY <4>2, <4>4 DEF Closed
    <3>2. CASE (\A m \in ((i + 1) + 1)..Len(pipe) : pipe[m].pid # q) /\ (q \in torn \/ Len(unsent[q]) = 1)
      <4>1. \A m \in (i + 1)..Len(pipe') : m + 1 \in ((i + 1) + 1)..Len(pipe) /\ m \in 1..Len(pipe')
        BY <1>2, <1>3
      <4>2. \A m \in (i + 1)..Len(pipe') : pipe'[m].pid # q
        BY <4>1, <3>2, <1>3
      <4> QED
        BY <4>2, <3>2, <1>1 DEF Closed
    <3> QED
      BY <3>1, <3>2, <2>1 DEF Closed
  <2>2. ASSUME NEW q \in Emitters, NEW i \in 0..Len(pipe'), OpenAt(q, i)' PROVE Closed(q, i + 1)
    <3>1. i + 1 \in 0..Len(pipe) /\ i + 1 # 0 /\ 0 \in 0..Len(pipe)
      BY <1>2, <1>3
    <3>2. CASE OpenAt(q, i + 1)
      BY <3>1, <3>2, <1>2 DEF Framed
    <3>3. CASE i = 0 /\ q # p
      <4>1. partial[q] = 1
        BY <3>3, <2>2, <1>9 DEF OpenAt
      <4>2. Closed(q, 0)
        BY <4>1, <3>1, <1>2 DEF Framed, OpenAt
      <4>3. CASE \E k \in (0 + 1)..Len(pipe) :
                   pipe[k].pid = q /\ pipe[k].last /\ \A m \in (0 + 1)..(k - 1) : pipe[m].pid # q
        <5>1. PICK k \in (0 + 1)..Len(pipe) :
                     pipe[k].pid = q /\ pipe[k].last /\ \A m \in (0 + 1)..(k - 1) : pipe[m].pid # q
          BY <4>3
        <5>2. k # 1
          BY <5>1, <3>3 DEF p
        <5>3. k \in ((0 + 1) + 1)..Len(pipe) /\ \A m \in ((0 + 1) + 1)..(k - 1) : m \in (0 + 1)..(k - 1)
          BY <5>2, <1>2
        <5> QED
          BY <5>1, <5>3, <3>3 DEF Closed
      <4>4. CASE (\A m \in (0 + 1)..Len(pipe) : pipe[m].pid # q) /\ (q \in torn \/ Len(unsent[q]) = 1)
        <5>1. \A m \in ((0 + 1) + 1)..Len(pipe) : m \in (0 + 1)..Len(pipe)
          BY <1>2
        <5> QED
          BY <5>1, <4>4, <3>3 DEF Closed
      <4> QED
        BY <4>2, <4>3, <4>4 DEF Closed
    <3>4. CASE i = 0 /\ q = p
      <4>1. ~chunk.last
        BY <3>4, <2>2, <1>9 DEF OpenAt
      <4>2. OpenAt(q, i + 1)
        BY <4>1, <3>4 DEF OpenAt, chunk, p
      <4> QED
        BY <4>2, <3>2
    <3>5. CASE i # 0
      <4>1. i \in 1..Len(pipe')
        BY <3>5, <1>2, <1>3
      <4>2. OpenAt(q, i + 1)
        BY <4>1, <3>1, <3>5, <2>2, <1>3 DEF OpenAt
      <4> QED
        BY <4>2, <3>2
    <3> QED
      BY <3>3, <3>4, <3>5
  <2> QED
    BY <2>1, <2>2 DEF Framed
<1>15. ASSUME logging.redirection_done, NEW q \in Emitters PROVE FileInOrder(q)' /\ PipeInOrder(q)' /\ Accounted(q)'
  <2> DEFINE own == Cardinality(Own(q))
             piped == Cardinality(InPipe(q))
             S == InPipe(q)
             gone == IF 1 \in S THEN 1 ELSE 0
  <2>1. FileInOrder(q) /\ PipeInOrder(q) /\ emitted[q] = own + piped + InHand(q) /\ InHand(q)' = InHand(q)
    BY <1>1, <1>15 DEF JInv, Accounted, InHand
  <2>2. own \in Nat /\ piped \in Nat /\ S \in SUBSET (1..Len(pipe)) /\ InHand(q) \in {0, 1}
    BY <1>2, Places DEF InHand
  <2>3. 1 \in S => q = p /\ chunk.last
    BY <1>6, <1>7
  <2>4. 1 \in S => Cardinality(Upto(S, 1)) = 1 /\ pipe[1].n = own + Cardinality(Upto(S, 1))
    <3>1. ASSUME 1 \in S PROVE Upto(S, 1) = {1}
      BY <3>1, <2>2 DEF Upto
    <3>2. 1 \in S => pipe[1].n = own + Cardinality(Upto(S, 1))
      BY <2>1 DEF PipeInOrder
    <3> QED
      BY <3>1, <3>2, FS_Singleton
  <2>5. FileInOrder(q)' /\ Cardinality(Own(q)') = own + gone
    <3>1. CASE q = p /\ chunk.last
      <4>1. chunk.n = own + 1 /\ gone = 1
        BY <3>1, <2>4, <1>6 DEF chunk
      <4> HIDE DEF own, piped, S, gone
      <4> QED
        BY <4>1, <3>1, <2>1, <1>2, <1>4, <1>5, FileGrows DEF own
    <3>2. CASE q # p /\ chunk.last
      <4>1. gone = 0 /\ Own(q)' = Own(q) /\ FileInOrder(q)'
        BY <3>2, <2>1, <2>3, <1>2, <1>4, <1>5, FileGrows
      <4> QED
        BY <4>1, <2>2
    <3>3. CASE ~chunk.last
      <4>1. gone = 0 /\ Own(q)' = Own(q) /\ FileInOrder(q)'
        BY <3>3, <2>1, <2>3, <1>5, FileSame
      <4> QED
        BY <4>1, <2>2
    <3> QED
      BY <3>1, <3>2, <3>3
  <2>6. Cardinality(InPipe(q)') = piped - gone /\ InPipe(q)' = Shift(S)
    BY <2>2, <1>2, <1>3, PlacesShifted
  <2>7. PipeInOrder(q)'
    <3>1. ASSUME NEW i \in Shift(S)
          PROVE  pipe'[i].n = Cardinality(Own(q)') + Cardinality(Upto(Shift(S), i))
      <4>1. i \in Nat \ {0} /\ i + 1 \in S
        BY DEF Shift
      <4>2. i \in 1..Len(pipe') /\ pipe'[i] = pipe[i + 1]
        BY <4>1, <2>2, <1>2, <1>3
      <4>3. pipe[i + 1].n = own + Cardinality(Upto(S, i + 1))
        BY <4>1, <2>1 DEF PipeInOrder
      <4>4. Upto(Shift(S), i) = Shift(Upto(S, i + 1)) /\ Upto(S, i + 1) \in SUBSET (1..Len(pipe))
        BY <4>1, <2>2, <1>2, UptoShift
      <4>5. 1 \in Upto(S, i + 1) <=> 1 \in S
        BY <4>1 DEF Upto
      <4>6. Cardinality(Shift(Upto(S, i + 1))) = Cardinality(Upto(S, i + 1)) - gone
            /\ Cardinality(Upto(S, i + 1)) \in Nat
        <5>1. Cardinality(Upto(S, i + 1)) \in Nat
          BY <4>4, <1>2, PlacesFinite
        <5>2. Cardinality(Shift(Upto(S, i + 1))) =
                IF 1 \in Upto(S, i + 1) THEN Cardinality(Upto(S, i + 1)) - 1 ELSE Cardinality(Upto(S, i + 1))
          BY <4>4, <1>2, PlacesShifted
        <5> QED
          BY <5>1, <5>2, <4>5
      <4> DEFINE up == Cardinality(Upto(S, i + 1))
      <4>7. gone \in {0, 1}
        OBVIOUS
      <4> HIDE DEF own, piped, S, gone, up
      <4>8. own + up = (own + gone) + (up - gone)
        BY <4>6, <4>7, <2>2 DEF up
      <4> QED
        BY <4>2, <4>3, <4>4, <4>6, <4>8, <2>5 DEF up
    <3> QED
      BY <3>1, <2>6 DEF PipeInOrder
  <2>8. gone \in {0, 1}
    OBVIOUS
  <2> HIDE DEF own, piped, S, gone
  <2>9. own + piped + InHand(q) = (own + gone) + (piped - gone) + InHand(q)
    BY <2>2, <2>8
  <2>10. Accounted(q)'
    BY <2>1, <2>5, <2>6, <2>9, <1>1 DEF Accounted
  <2> QED
    BY <2>5, <2>7, <2>10
<1> QED
  BY <1>1, <1>11, <1>12, <1>13, <1>14, <1>15 DEF JInv

LEMMA JsonInitInv == Init => JInv
<1> SUFFICES ASSUME Init PROVE JInv
  OBVIOUS
<1>1. /\ out = [p \in Emitters |-> <<>>] /\ unsent = [p \in Emitters |-> <<>>]
      /\ emitted = [p \in Emitters |-> 0] /\ partial = [p \in Emitters |-> 0]
      /\ pipe = <<>> /\ file = <<>> /\ torn = {} /\ unheard = {}
  BY DEF Init, JsonInit
<1>2. PICK c \in Configs : logging = c.logging
  BY DEF Init
<1>3. /\ logging.log_min_messages \in ToSet(Severity)
      /\ logging.stderr \in BOOLEAN /\ logging.redirection_done \in BOOLEAN
  BY <1>2, ConfigsAssumption
<1>4. PipeSize \in Nat /\ Len(<<>>) = 0 /\ 1..0 = {} /\ 0..0 = {0} /\ DOMAIN <<>> = {}
  BY JsonLogAssumption
<1>5. Len(pipe) <= PipeSize
  BY <1>1, <1>4
<1>6. <<>> \in Seq(Said) /\ <<>> \in Seq(Chunks) /\ <<>> \in Seq(Emitters \X Nat)
  OBVIOUS
<1>7. JsonTypes
  BY <1>1, <1>3, <1>5, <1>6 DEF JsonTypes
<1>8. UnsentShape /\ PipeUsers /\ TornSilent
  BY <1>1, <1>4 DEF UnsentShape, PipeUsers, TornSilent
<1>9. Framed
  <2>1. \A p \in Emitters : ~OpenAt(p, 0)
    BY <1>1 DEF OpenAt
  <2> QED
    BY <2>1, <1>1, <1>4 DEF Framed
<1>10. ASSUME NEW p \in Emitters PROVE FileInOrder(p) /\ PipeInOrder(p) /\ Accounted(p)
  <2>1. Own(p) = {} /\ InPipe(p) = {} /\ InHand(p) = 0
    BY <1>1, <1>4 DEF Own, InPipe, InHand
  <2>2. emitted[p] = 0
    BY <1>1
  <2> QED
    BY <2>1, <2>2, FS_EmptySet DEF FileInOrder, PipeInOrder, Accounted
<1> QED
  BY <1>7, <1>8, <1>9, <1>10 DEF JInv

LEMMA JsonStep == HInv /\ JInv /\ [Next]_vars => JInv'
<1> SUFFICES ASSUME HInv, JInv, [Next]_vars PROVE JInv'
  OBVIOUS
<1>1. /\ sess \in [Processes -> SessTypes] /\ torn \subseteq Processes
      /\ \A q \in torn : sess[q].pc = "dead"
  BY DEF HInv, HooksTypes, JInv, JsonTypes, TornSilent
<1>2. CASE PG_init
  <2>1. UNCHANGED jsonVars /\ sess' = sess
    BY <1>2 DEF PG_init
  <2> QED
    BY <2>1, QuietKeeps
<1>3. ASSUME NEW p \in Processes, NEW s, Become(p, s), sess[p].pc # "dead"
      PROVE  p \notin torn /\ \A q \in torn : sess'[q] = sess[q]
  BY <1>1, <1>3 DEF Become
<1>4. ASSUME NEW p \in Processes, NEW s, Become(p, s), sess[p].pc # "dead", UNCHANGED jsonVars PROVE JInv'
  BY <1>3, <1>4, QuietKeeps
<1>5. ASSUME NEW p \in Processes, NEW s, Become(p, s), sess[p].pc # "dead",
             NEW levels \in Seq(Said), Say(p, levels)
      PROVE  JInv'
  BY <1>3, <1>5, SayKeeps
<1>6. /\ <<"ERROR">> \in Seq(Said) /\ <<"PANIC">> \in Seq(Said) /\ <<"NOTICE">> \in Seq(Said)
      /\ <<"NOTICE", "NOTICE", "NOTICE", "NOTICE", "NOTICE">> \in Seq(Said)
  BY DEF Said
<1>7. ASSUME NEW p \in Processes, Error(p), sess[p].pc # "dead" PROVE JInv'
  BY <1>5, <1>6, <1>7 DEF Error
<1>8. ASSUME NEW p \in Processes, SessionStep(p) PROVE JInv'
  <2>1. CASE Commit(p)
    BY <2>1, <1>4 DEF Commit
  <2>2. CASE Abort(p)
    <3>1. Killed(Processes \ {p}) /\ sess' = [q \in Processes |-> [Idle EXCEPT !.pc = "dead"]]
      BY <2>2 DEF Abort
    <3>2. \A q \in Processes : sess'[q].pc = "dead"
      BY <3>1 DEF Idle
    <3>3. p \notin torn
      BY <2>2, <1>1 DEF Abort
    <3> QED
      BY <3>1, <3>2, <3>3, KilledKeeps
  <2>3. CASE dbrestrict_utility(p)
    <3>1. sess[p].pc # "dead" /\ (Error(p) \/ (Become(p, Chain(sess[p])) /\ UNCHANGED jsonVars))
      BY <2>3 DEF dbrestrict_utility, At
    <3> QED
      BY <3>1, <1>4, <1>7
  <2>4. CASE trunc2del(p)
    <3>1. sess[p].pc # "dead" /\ UNCHANGED jsonVars
      BY <2>4 DEF trunc2del, At
    <3>2. \E s : Become(p, s)
      BY <2>4 DEF trunc2del
    <3> QED
      BY <3>1, <3>2, <1>4
  <2>5. CASE panic_hook(p)
    <3>1. /\ sess[p].pc # "dead"
          /\ \/ Become(p, Chain(sess[p])) /\ UNCHANGED jsonVars
             \/ Become(p, [Idle EXCEPT !.pc = "panic"]) /\ Say(p, <<"PANIC">>)
      BY <2>5 DEF panic_hook, At
    <3> QED
      BY <3>1, <1>4, <1>5, <1>6
  <2>6. CASE object_hooks_access_entry(p)
    <3>1. sess[p].pc # "dead" /\ (UNCHANGED jsonVars \/ Say(p, <<"NOTICE">>))
      BY <2>6 DEF object_hooks_access_entry, At
    <3>2. \E s : Become(p, s)
      BY <2>6 DEF object_hooks_access_entry
    <3> QED
      BY <3>1, <3>2, <1>4, <1>5, <1>6
  <2>7. CASE check_password(p)
    <3>1. /\ sess[p].pc # "dead"
          /\ Error(p) \/ (Become(p, [sess[p] EXCEPT !.at = "core"]) /\ UNCHANGED jsonVars)
      BY <2>7 DEF check_password, At
    <3> QED
      BY <3>1, <1>4, <1>7
  <2>8. CASE plugin_funcs(p)
    <3>1. /\ sess[p].pc # "dead" /\ Become(p, [sess[p] EXCEPT !.at = "core"])
          /\ Say(p, <<"NOTICE", "NOTICE", "NOTICE", "NOTICE", "NOTICE">>)
      BY <2>8 DEF plugin_funcs, At
    <3> QED
      BY <3>1, <1>5, <1>6
  <2>9. CASE OtherHook(p)
    <3>1. /\ sess[p].pc # "dead" /\ UNCHANGED jsonVars
          /\ Become(p, [Chain(sess[p]) EXCEPT !.seen = @ \cup {sess[p].point}])
      BY <2>9 DEF OtherHook, At
    <3> QED
      BY <3>1, <1>4
  <2>10. CASE standard_ProcessUtility(p)
    <3>1. sess[p].pc # "dead" /\ UNCHANGED jsonVars
      BY <2>10 DEF standard_ProcessUtility, At
    <3>2. \E s : Become(p, s)
      BY <2>10 DEF standard_ProcessUtility
    <3> QED
      BY <3>1, <3>2, <1>4
  <2>11. CASE AfterObjectAccess(p)
    <3>1. sess[p].pc # "dead" /\ UNCHANGED jsonVars /\ Become(p, Finish(sess[p]))
      BY <2>11 DEF AfterObjectAccess, At
    <3> QED
      BY <3>1, <1>4
  <2>12. CASE standard_planner(p)
    <3>1. sess[p].pc # "dead" /\ UNCHANGED jsonVars
      BY <2>12 DEF standard_planner, At
    <3>2. \E s : Become(p, s)
      BY <2>12 DEF standard_planner
    <3> QED
      BY <3>1, <3>2, <1>4
  <2>13. CASE SetPassword(p)
    <3>1. sess[p].pc # "dead" /\ UNCHANGED jsonVars /\ Become(p, Finish(sess[p]))
      BY <2>13 DEF SetPassword, At
    <3> QED
      BY <3>1, <1>4
  <2>14. CASE FunctionEnds(p)
    <3>1. sess[p].pc # "dead" /\ UNCHANGED jsonVars /\ Become(p, Finish(sess[p]))
      BY <2>14 DEF FunctionEnds, At
    <3> QED
      BY <3>1, <1>4
  <2>15. CASE trunc2del_fails(p)
    <3>1. sess[p].pc # "dead" /\ Error(p)
      BY <2>15 DEF trunc2del_fails, At
    <3> QED
      BY <3>1, <1>7
  <2> QED
    BY <1>8, <2>15, <2>1, <2>2, <2>3, <2>4, <2>5, <2>6, <2>7, <2>8, <2>9, <2>10, <2>11, <2>12, <2>13, <2>14
       DEF SessionStep
<1>9. ASSUME NEW p \in Processes, NEW stmt \in offered, BeginStatement(p, stmt) PROVE JInv'
  <2>1. sess[p].pc # "dead" /\ UNCHANGED jsonVars
    BY <1>9 DEF BeginStatement
  <2>2. \E s : Become(p, s)
    BY <1>9 DEF BeginStatement
  <2> QED
    BY <2>1, <2>2, <1>4
<1>10. ASSUME NEW p \in Emitters, LogStep(p) PROVE JInv'
  <2>1. sess' = sess
    BY <1>10 DEF LogStep, hookVars
  <2>2. OnChain("jsonlog", "log") \in BOOLEAN
    BY DEF OnChain
  <2>3. ASSUME NEW length \in EntryLengths, Emit(p, OnChain("jsonlog", "log"), length) PROVE JInv'
    BY <2>1, <2>2, <2>3, EmitKeeps
  <2> QED
    BY <2>1, <2>3, <1>10, WriteChunkKeeps DEF LogStep
<1>11. CASE Collect
  BY <1>11, LoggerReadKeeps DEF Collect, hookVars
<1>12. CASE LoggerMessage("LOG") /\ UNCHANGED hookVars
  BY <1>12, LoggerMessageKeeps DEF hookVars
<1>13. CASE UNCHANGED vars
  BY <1>13, QuietKeeps DEF vars, hookVars
<1> QED
  BY <1>2, <1>8, <1>9, <1>10, <1>11, <1>12, <1>13 DEF Next

\* Both invariants hold together.
LEMMA PreloadInv == Spec => [](HInv /\ JInv)
<1> QED
  BY HooksInitInv, JsonInitInv, HooksStep, JsonStep, PTL DEF Spec

\* Types, and that the collector never holds more than the first chunk of an entry of a
\* process, and only while the rest is still to come or the process was killed.
THEOREM PreloadTypes == Spec => []TypeOK
<1>1. ASSUME HInv, JInv PROVE TypeOK
  <2>1. hook \in [Points -> Libraries \cup {"core"}]
    BY <1>1 DEF HInv, ChainsShape
  <2>2. \A p \in Processes : sess[p].pc \in {"idle", "hook", "commit", "panic", "dead"}
    BY <1>1 DEF HInv, HooksTypes, SessTypes
  <2>3. \A rel \in Rels : \A row \in rows[rel] : row[1] \in Processes \cup {"before"}
    <3>1. \A rel \in Rels : rows[rel] \subseteq (Processes \cup {"before"}) \X Nat
      BY <1>1 DEF HInv, HooksTypes, Rows
    <3> QED
      BY <3>1
  <2>4. Len(pipe) <= PipeSize /\ partial \in [Emitters -> 0..1] /\ pipe \in Seq(Chunks) /\ Framed
    BY <1>1 DEF JInv, JsonTypes
  <2>5. ASSUME NEW p \in Emitters, partial[p] > 0
        PROVE  unsent[p] # <<>> \/ InPipe(p) # {} \/ p \in torn
    <3>1. 0 \in 0..Len(pipe) /\ OpenAt(p, 0)
      BY <2>4, <2>5 DEF OpenAt
    <3>2. Closed(p, 0)
      BY <3>1, <2>4 DEF Framed
    <3>3. CASE \E k \in (0 + 1)..Len(pipe) : pipe[k].pid = p /\ pipe[k].last
      <4>1. PICK k \in (0 + 1)..Len(pipe) : pipe[k].pid = p /\ pipe[k].last
        BY <3>3
      <4>2. k \in DOMAIN pipe
        BY <2>4
      <4> QED
        BY <4>1, <4>2 DEF InPipe
    <3>4. CASE p \in torn \/ Len(unsent[p]) = 1
      <4>1. Len(<<>>) # 1
        OBVIOUS
      <4> QED
        BY <4>1, <3>4
    <3> QED
      BY <3>2, <3>3, <3>4 DEF Closed
  <2> QED
    BY <2>1, <2>2, <2>3, <2>4, <2>5 DEF TypeOK
<1> QED
  BY <1>1, PreloadInv, PTL

\* With the collector, the log holds the entries of each process in order and each once;
\* with what is in the pipe and in hand they are all that jsonlog was to write, but for
\* one that its process was killed in the middle of.
THEOREM PreloadLogFaithful == Spec => []LogFaithful
<1>1. ASSUME JInv PROVE LogFaithful
  BY <1>1 DEF JInv, FileInOrder, Accounted, InHand, Upto, LogFaithful
<1> QED
  BY <1>1, PreloadInv, PTL

\* A library of another origin is called at exactly the points that a statement passes
\* and no library loaded later keeps to itself, and for every message that goes to the
\* log: jsonlog never takes its early return (jsonlog.c:325-330) for one.
THEOREM PreloadOtherSees == Spec => []OtherSees
<1>1. ASSUME HInv, JInv PROVE OtherSees
  BY <1>1 DEF HInv, JInv, JsonTypes, OtherSees, SessionOK
<1> QED
  BY <1>1, PreloadInv, PTL

=============================================================================

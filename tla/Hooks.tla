-------------------------------- MODULE Hooks --------------------------------
(***************************************************************************)
(* Libraries of shared_preload_libraries that hook into the server, and    *)
(* sessions whose statements run through them: hook_utility, pg_trunc2del, *)
(* pg_panic, object_hooks, passwordcheck_extra and plpgsql_cb, with a      *)
(* library of another origin ("other") that hooks every point and calls    *)
(* the hook before it.                                                     *)
(*                                                                         *)
(* A hook point is a chain: its variable names the library loaded last,    *)
(* each library knows the one before it, and the server's own code ("core")*)
(* is at the end.  A session is at one library of one chain at a time.     *)
(***************************************************************************)
EXTENDS JsonLog

CONSTANTS
  Policy   \* settings of passwordcheck_extra: min, max, and the classes required

\* Its parameters and their ranges.
Lengths == 1..10000
Policies == [min : Lengths, max : Lengths, required : SUBSET {"lower", "upper", "number", "special"}]

ASSUME HooksAssumption == Policy \in Policies

Libraries == {"hook_utility", "pg_trunc2del", "pg_panic", "object_hooks",
              "passwordcheck_extra", "plpgsql_cb", "jsonlog", "other"}
Points == {"utility", "planner", "object", "password", "plpgsql", "log"}

VARIABLES
  toload,     \* libraries not loaded yet, in the order of the parameter
  libraries,  \* libraries of the parameter, in its order
  offered,    \* statements that clients may send
  hook,       \* hook[point]: library the hook variable points to
  prev,       \* prev[library][point]: hook the library found there
  sess,       \* sess[p]: what session p is doing
  statements, \* statements left, of all sessions together
  rows,       \* rows[rel]: committed rows
  dropped,    \* <<database, user>> of the DROP DATABASE commands that took effect
  passwords   \* passwords that were set

hookVars == <<toload, libraries, offered, hook, prev, sess, statements, rows, dropped, passwords>>

Rels == {"a", "b"}

\* A statement: a database and a user, relations, an isolation level, a password, or
\* what happens to an object, whether internally, and whether it has a name.
Statement(kind) ==
  [kind |-> kind, db |-> "none", user |-> "none", rels |-> <<>>, iso |-> "read committed",
   pw |-> <<>>, event |-> "none", internal |-> FALSE, named |-> TRUE]

\* A session: where it is, its statement, the chain and the library in it, the locks
\* it holds, the rows of its snapshot, the points where "other" was called.
Idle == [pc |-> "idle", stmt |-> Statement("none"), point |-> "none", at |-> "none",
         locks |-> {}, snapshot |-> {}, seen |-> {}]

HooksInit ==
  /\ hook = [point \in Points |-> "core"]
  /\ prev = [lib \in Libraries |-> [point \in Points |-> "core"]]
  /\ sess = [p \in Processes |-> Idle]
  /\ rows = [rel \in Rels |-> {<<"before", 0>>}] /\ dropped = {} /\ passwords = {}

-----------------------------------------------------------------------------
(* Loading.                                                                *)

HookedBy(lib) ==
  CASE lib \in {"hook_utility", "pg_trunc2del"} -> {"utility"}
    [] lib = "pg_panic" -> {"planner"}
    [] lib = "object_hooks" -> {"object"}
    [] lib = "passwordcheck_extra" -> {"password"}
    [] lib = "plpgsql_cb" -> {"plpgsql"}
    [] lib = "jsonlog" -> {"log"}
    [] OTHER -> Points

\* Mutant: pg_trunc2del does not keep the hook it replaces.
SavesPreviousLess(lib) == lib \notin {"passwordcheck_extra", "plpgsql_cb", "pg_trunc2del"}

\* These two overwrite the variable.
SavesPrevious(lib) == lib \notin {"passwordcheck_extra", "plpgsql_cb"}

PG_init ==
  /\ toload # <<>>
  /\ toload' = Tail(toload)
  /\ LET lib == Head(toload)
     IN /\ prev' = [prev EXCEPT ![lib] = [point \in Points |->
                      IF point \in HookedBy(lib) /\ SavesPrevious(lib) THEN hook[point] ELSE "core"]]
        /\ hook' = [point \in Points |-> IF point \in HookedBy(lib) THEN lib ELSE hook[point]]
  /\ UNCHANGED <<libraries, offered, sess, statements, rows, dropped, passwords, jsonVars>>

-----------------------------------------------------------------------------
(* Moves of a session.  It takes a step only when it has nothing to say.   *)

At(p, point, lib) == sess[p].pc = "hook" /\ sess[p].point = point /\ sess[p].at = lib /\ Silent(p)

Become(p, s) == sess' = [sess EXCEPT ![p] = s]

Enter(s, point) == [s EXCEPT !.pc = "hook", !.point = point, !.at = hook[point]]
Chain(s) == [s EXCEPT !.at = prev[s.at][s.point]]
Finish(s) == [s EXCEPT !.pc = "commit"]

Say(p, levels) ==
  /\ out' = [out EXCEPT ![p] = levels]
  /\ UNCHANGED <<logging, unsent, emitted, pipe, partial, file, torn, unheard>>

\* ereport(ERROR): the transaction aborts and releases its locks.
Error(p) == Become(p, Idle) /\ Say(p, <<"ERROR">>)

catalogVars == <<rows, dropped, passwords>>
fixedVars == <<toload, libraries, offered, hook, prev>>

Conflict(p, rel, mode) ==
  \E q \in Processes \ {p} : \E lock \in sess[q].locks :
    lock[1] = rel /\ "exclusive" \in {lock[2], mode}

BeginStatement(p, stmt) ==
  /\ toload = <<>> /\ sess[p].pc = "idle" /\ Silent(p) /\ statements > 0
  /\ statements' = statements - 1
  /\ Become(p, Enter([Idle EXCEPT !.stmt = stmt, !.snapshot = UNION {rows[rel] : rel \in Rels}],
                     IF stmt.kind \in {"select", "insert"} THEN "planner" ELSE "utility"))
  /\ UNCHANGED <<fixedVars, catalogVars, jsonVars>>

\* The transaction ends with the statement.
Commit(p) ==
  /\ sess[p].pc = "commit" /\ Silent(p)
  /\ Become(p, Idle)
  /\ rows' = IF sess[p].stmt.kind = "insert"
               THEN [rows EXCEPT ![sess[p].stmt.rels[1]] = @ \cup {<<p, statements>>}] ELSE rows
  /\ UNCHANGED <<fixedVars, statements, dropped, passwords, jsonVars>>

-----------------------------------------------------------------------------
(* The hooks.                                                              *)

dbrestrict_utility(p) ==
  /\ At(p, "utility", "hook_utility")
  /\ IF sess[p].stmt.kind = "drop_db" /\ sess[p].stmt.db = "hook_dbname"
           /\ sess[p].stmt.user # "hook_username"
       THEN Error(p)
       ELSE Become(p, Chain(sess[p])) /\ UNCHANGED jsonVars
  /\ UNCHANGED <<fixedVars, catalogVars, statements>>

\* Mutant: the lock is that of an ordinary DELETE.
TruncateLockShared == "shared"

TruncateLock == "exclusive"

\* TRUNCATE: the first relation is locked, and a DELETE of it planned; the hooks
\* before this one are not called.  (The DELETE takes in the children of the relation,
\* with TRUNCATE ONLY too: the relations of the model have none.)
trunc2del(p) ==
  /\ At(p, "utility", "pg_trunc2del")
  /\ IF sess[p].stmt.kind = "truncate"
       THEN /\ ~Conflict(p, sess[p].stmt.rels[1], TruncateLock)
            /\ Become(p, [Enter(sess[p], "planner") EXCEPT
                            !.locks = {<<sess[p].stmt.rels[1], TruncateLock>>}])
       ELSE Become(p, Chain(sess[p]))
  /\ UNCHANGED <<fixedVars, catalogVars, statements, jsonVars>>

\* The DELETE fails or, by a rule, turns out to be something else: ERROR.
trunc2del_fails(p) ==
  /\ At(p, "planner", "core") /\ sess[p].stmt.kind = "truncate"
  /\ Error(p)
  /\ UNCHANGED <<fixedVars, catalogVars, statements>>

\* luck_factor decides.  PANIC: the entry is written, then all sessions end.
panic_hook(p) ==
  /\ At(p, "planner", "pg_panic")
  /\ \/ Become(p, Chain(sess[p])) /\ UNCHANGED jsonVars
     \/ Become(p, [Idle EXCEPT !.pc = "panic"]) /\ Say(p, <<"PANIC">>)
  /\ UNCHANGED <<fixedVars, catalogVars, statements>>

Abort(p) ==
  /\ sess[p].pc = "panic" /\ Silent(p)
  /\ sess' = [q \in Processes |-> [Idle EXCEPT !.pc = "dead"]]
  /\ Killed(Processes \ {p})
  /\ UNCHANGED <<fixedVars, catalogVars, statements>>

\* Mutant: an internal ALTER leaves as the others do.
LeavesChainAlways(stmt) == stmt.internal

\* An internal CREATE or DROP is not passed on to the hook before; an ALTER is.
LeavesChain(stmt) == stmt.internal /\ stmt.event \in {"POST_CREATE", "DROP"}

\* What is internal, or has no identity any more, is not reported.
Reported(stmt) == stmt.named /\ ~(stmt.internal /\ stmt.event \in {"POST_CREATE", "DROP", "POST_ALTER"})

object_hooks_access_entry(p) ==
  /\ At(p, "object", "object_hooks")
  /\ LET stmt == sess[p].stmt
     IN /\ Become(p, IF LeavesChain(stmt) THEN [sess[p] EXCEPT !.at = "core"] ELSE Chain(sess[p]))
        /\ IF Reported(stmt) THEN Say(p, <<"NOTICE">>) ELSE UNCHANGED jsonVars
  /\ UNCHANGED <<fixedVars, catalogVars, statements>>

\* What check_password refuses.
PasswordRefused(pw) ==
  CASE pw.type = "md5" -> pw.hasUsername
    [] pw.type = "plaintext" ->
         \/ pw.length < Policy.min \/ pw.length > Policy.max \/ pw.hasUsername
         \/ "invalid" \in pw.classes \/ ~(Policy.required \subseteq pw.classes)
    [] OTHER -> TRUE

\* It does not call a hook before it: there is none.
check_password(p) ==
  /\ At(p, "password", "passwordcheck_extra")
  /\ IF PasswordRefused(sess[p].stmt.pw)
       THEN Error(p)
       ELSE Become(p, [sess[p] EXCEPT !.at = "core"]) /\ UNCHANGED jsonVars
  /\ UNCHANGED <<fixedVars, catalogVars, statements>>

\* Function setup and begin, statement begin and end, function end.
plugin_funcs(p) ==
  /\ At(p, "plpgsql", "plpgsql_cb")
  /\ Become(p, [sess[p] EXCEPT !.at = "core"])
  /\ Say(p, <<"NOTICE", "NOTICE", "NOTICE", "NOTICE", "NOTICE">>)
  /\ UNCHANGED <<fixedVars, catalogVars, statements>>

OtherHook(p) ==
  /\ \E point \in Points : At(p, point, "other")
  /\ Become(p, [Chain(sess[p]) EXCEPT !.seen = @ \cup {sess[p].point}])
  /\ UNCHANGED <<fixedVars, catalogVars, statements, jsonVars>>

-----------------------------------------------------------------------------
(* The end of each chain (external).                                       *)

standard_ProcessUtility(p) ==
  /\ At(p, "utility", "core")
  /\ LET stmt == sess[p].stmt
     IN CASE stmt.kind = "password" -> Become(p, Enter(sess[p], "password"))
          [] stmt.kind = "do" -> Become(p, Enter(sess[p], "plpgsql"))
          [] stmt.kind = "truncate" ->
               /\ \A n \in DOMAIN stmt.rels : ~Conflict(p, stmt.rels[n], "exclusive")
               /\ Become(p, [Enter(sess[p], "object") EXCEPT
                               !.locks = {<<stmt.rels[n], "exclusive">> : n \in DOMAIN stmt.rels}])
          [] OTHER -> Become(p, Enter(sess[p], "object"))
  /\ UNCHANGED <<fixedVars, catalogVars, statements, jsonVars>>

AfterObjectAccess(p) ==
  /\ At(p, "object", "core")
  /\ Become(p, Finish(sess[p]))
  /\ LET stmt == sess[p].stmt
     IN /\ rows' = [rel \in Rels |-> IF <<rel, "exclusive">> \in sess[p].locks THEN {} ELSE rows[rel]]
        /\ dropped' = IF stmt.kind = "drop_db" THEN dropped \cup {<<stmt.db, stmt.user>>} ELSE dropped
  /\ UNCHANGED <<fixedVars, statements, passwords, jsonVars>>

\* The executor.  A DELETE removes the rows of its snapshot, which is a new one
\* under READ COMMITTED.
standard_planner(p) ==
  /\ At(p, "planner", "core")
  /\ LET stmt == sess[p].stmt
     IN CASE stmt.kind = "truncate" ->
               LET visible == IF stmt.iso = "read committed" THEN rows[stmt.rels[1]] ELSE sess[p].snapshot
               IN rows' = [rows EXCEPT ![stmt.rels[1]] = @ \ visible]
                  /\ Become(p, Finish(sess[p]))
          [] stmt.kind = "insert" ->
               /\ ~Conflict(p, stmt.rels[1], "shared") /\ UNCHANGED rows
               /\ Become(p, [Finish(sess[p]) EXCEPT !.locks = {<<stmt.rels[1], "shared">>}])
          [] OTHER -> Become(p, Finish(sess[p])) /\ UNCHANGED rows
  /\ UNCHANGED <<fixedVars, statements, dropped, passwords, jsonVars>>

SetPassword(p) ==
  /\ At(p, "password", "core")
  /\ passwords' = passwords \cup {sess[p].stmt.pw}
  /\ Become(p, Finish(sess[p]))
  /\ UNCHANGED <<fixedVars, statements, rows, dropped, jsonVars>>

FunctionEnds(p) ==
  /\ At(p, "plpgsql", "core")
  /\ Become(p, Finish(sess[p]))
  /\ UNCHANGED <<fixedVars, statements, catalogVars, jsonVars>>

-----------------------------------------------------------------------------
SessionStep(p) ==
  \/ Commit(p) \/ Abort(p)
  \/ dbrestrict_utility(p) \/ trunc2del(p) \/ trunc2del_fails(p) \/ panic_hook(p)
  \/ object_hooks_access_entry(p)
  \/ check_password(p) \/ plugin_funcs(p) \/ OtherHook(p)
  \/ standard_ProcessUtility(p) \/ AfterObjectAccess(p) \/ standard_planner(p)
  \/ SetPassword(p) \/ FunctionEnds(p)
=============================================================================

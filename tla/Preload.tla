------------------------------ MODULE Preload ------------------------------
(***************************************************************************)
(* The preloaded libraries together: statements of concurrent sessions go  *)
(* through the chains of hooks (Hooks), and what these report goes through *)
(* jsonlog to the collector (JsonLog).                                     *)
(***************************************************************************)
EXTENDS Hooks

CONSTANTS
  Configs   \* configurations: libraries in order, logging, statements offered, and how many

\* A library is loaded once; log_min_messages takes the levels of guc.c; a TRUNCATE or an
\* INSERT has a relation.
ASSUME ConfigsAssumption ==
  \A c \in Configs :
    /\ c.libraries \in Seq(Libraries) /\ IsInjective(c.libraries)
    /\ c.logging.log_min_messages \in ToSet(Severity)
    /\ c.logging.stderr \in BOOLEAN /\ c.logging.redirection_done \in BOOLEAN
    /\ c.statements \in Nat
    /\ \A stmt \in c.offered :
         /\ stmt.kind \in {"select", "insert", "drop_db", "object", "truncate", "password", "do"}
         /\ stmt.rels \in Seq(Rels) /\ stmt.internal \in BOOLEAN
         /\ stmt.kind \in {"insert", "truncate"} => stmt.rels # <<>>
         /\ stmt.kind = "password" => stmt.pw.length \in Nat

vars == <<hookVars, jsonVars>>

Init ==
  /\ HooksInit /\ JsonInit
  /\ \E c \in Configs :
       /\ libraries = c.libraries /\ toload = c.libraries /\ logging = c.logging
       /\ offered = c.offered /\ statements = c.statements

\* The library is on the chain of the hook (chains are two libraries long at most).
OnChain(lib, point) == hook[point] = lib \/ (hook[point] # "core" /\ prev[hook[point]][point] = lib)

LogStep(p) ==
  \/ (\E length \in EntryLengths : Emit(p, OnChain("jsonlog", "log"), length)) /\ UNCHANGED hookVars
  \/ WriteChunk(p) /\ UNCHANGED hookVars

Collect == LoggerRead /\ UNCHANGED hookVars

Next ==
  \/ PG_init
  \/ \E p \in Processes : SessionStep(p) \/ \E stmt \in offered : BeginStatement(p, stmt)
  \/ \E p \in Emitters : LogStep(p)
  \/ Collect
  \/ toload = <<>> /\ LoggerMessage("LOG") /\ UNCHANGED hookVars

\* Writes and reads of the pipe go on as long as they can.
Spec ==
  /\ Init /\ [][Next]_vars
  /\ WF_vars(Collect) /\ \A p \in Emitters : WF_vars(LogStep(p))

-----------------------------------------------------------------------------
(* Properties.                                                             *)

\* Types.  The collector keeps at most one chunk of an incomplete entry for a process,
\* and only of one that is still writing, has the rest in the pipe, or has died.
TypeOK ==
  /\ hook \in [Points -> Libraries \cup {"core"}]
  /\ \A p \in Processes : sess[p].pc \in {"idle", "hook", "commit", "panic", "dead"}
  /\ \A rel \in Rels : \A row \in rows[rel] : row[1] \in Processes \cup {"before"}
  /\ Len(pipe) <= PipeSize /\ partial \in [Emitters -> 0..1]
  /\ \A p \in Emitters : partial[p] > 0 => unsent[p] # <<>> \/ InPipe(p) # {} \/ p \in torn

Loaded(lib) == toload = <<>> /\ lib \in ToSet(libraries)

\* Whatever the order of the libraries: hook_utility keeps its database from everybody
\* but its user, and with passwordcheck_extra no password is set that breaks a rule.
Guarded ==
  /\ Loaded("hook_utility") =>
       \A drop \in dropped : drop[1] = "hook_dbname" => drop[2] = "hook_username"
  /\ Loaded("passwordcheck_extra") =>
       \A pw \in passwords :
         /\ ~pw.hasUsername /\ pw.type \in {"md5", "plaintext"}
         /\ pw.type = "plaintext" => /\ pw.length \in Policy.min..Policy.max
                                     /\ Policy.required \subseteq pw.classes /\ "invalid" \notin pw.classes

Truncated(p) == sess[p].pc = "commit" /\ sess[p].stmt.kind = "truncate"

\* The DELETE that pg_trunc2del makes of a TRUNCATE leaves no row in the (first)
\* relation: sessions that insert wait for its lock, and what they committed before it
\* was granted is deleted too.  Under REPEATABLE READ that last part fails, only the
\* rows of the snapshot go.
TruncateEmpties ==
  \A p \in Processes :
    Truncated(p) =>
      rows[sess[p].stmt.rels[1]] \cap
        (IF sess[p].stmt.iso = "read committed" THEN rows[sess[p].stmt.rels[1]] ELSE sess[p].snapshot) = {}

Position(lib) == CHOOSE n \in DOMAIN libraries : libraries[n] = lib
LoadedAfterOther(lib) == Loaded(lib) /\ Position(lib) > Position("other")

\* The hook points a statement passes.
Passed(stmt) ==
  LET deletes == stmt.kind = "truncate" /\ Loaded("pg_trunc2del")
  IN {point \in Points :
        CASE point = "utility" -> stmt.kind \notin {"select", "insert"}
          [] point = "planner" -> stmt.kind \in {"select", "insert"} \/ deletes
          [] point = "object" -> stmt.kind \in {"drop_db", "object", "truncate"} /\ ~deletes
          [] point = "password" -> stmt.kind = "password"
          [] point = "plpgsql" -> stmt.kind = "do"
          [] OTHER -> FALSE}

\* The points where a library loaded later keeps it to itself.
Withheld(stmt) ==
  {point \in Points :
     CASE point = "utility" -> stmt.kind = "truncate" /\ LoadedAfterOther("pg_trunc2del")
       [] point = "object" -> /\ stmt.internal /\ stmt.event \in {"POST_CREATE", "DROP"}
                              /\ LoadedAfterOther("object_hooks")
       [] point = "password" -> LoadedAfterOther("passwordcheck_extra")
       [] point = "plpgsql" -> LoadedAfterOther("plpgsql_cb")
       [] OTHER -> FALSE}

\* A library that was loaded with these sees every statement that succeeds at every
\* point it passes, except the TRUNCATE that pg_trunc2del takes over, the internal
\* creations and drops that object_hooks drops, and the points that passwordcheck_extra
\* and plpgsql_cb overwrite, each only if loaded later.  And it sees every message that
\* goes to the log: the early return of jsonlog is for messages the server has sorted
\* out before, by the same order of levels.
OtherSees ==
  Loaded("other") =>
    /\ \A p \in Processes :
         sess[p].pc = "commit" => Passed(sess[p].stmt) \ Withheld(sess[p].stmt) = sess[p].seen
    /\ LoadedAfterOther("jsonlog") => unheard = {}

\* With the collector, which jsonlog/README:11-12 asks for ("to ensure consistent log
\* outputs": on the console entries may be cut short), the log holds, for each process,
\* its entries in order, each once; with those in the pipe and the one being written
\* they are all the entries that jsonlog was to write (LOG taken as more severe than
\* ERROR), except one whose process was killed in the middle of it.
LogFaithful ==
  logging.redirection_done => \A p \in Emitters :
    /\ \A i \in Own(p) : file[i][2] = Cardinality({k \in Own(p) : k <= i})
    /\ emitted[p] = Cardinality(Own(p)) + Cardinality(InPipe(p))
                      + (IF unsent[p] # <<>> \/ p \in torn THEN 1 ELSE 0)

\* With the collector every entry gets to the log, also when the pipe is full and when
\* the collector has something to say itself, unless its process is killed in the
\* middle of it.
EntriesReachLog ==
  \A p \in Emitters, n \in 1..2 :
    logging.redirection_done /\ emitted[p] >= n ~> Cardinality(Own(p)) >= n \/ p \in torn
=============================================================================

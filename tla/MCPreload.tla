----------------------------- MODULE MCPreload -----------------------------
(***************************************************************************)
(* Instances of Preload for TLC: the libraries of one hook point in every  *)
(* order, with the statements that reach it, and jsonlog with statements   *)
(* that report something, for each place its entries may go.               *)
(***************************************************************************)
EXTENDS Preload

Drops == {[Statement("drop_db") EXCEPT !.event = "DROP", !.db = db, !.user = user] :
            db \in {"hook_dbname", "mydb"}, user \in {"hook_username", "me"}}
Inserts == {[Statement("insert") EXCEPT !.rels = <<"a">>]}
Truncates == {[Statement("truncate") EXCEPT !.event = "TRUNCATE", !.rels = rels, !.iso = iso] :
                rels \in {<<"a">>, <<"b", "a">>}, iso \in {"read committed", "repeatable read"}}
Objects == {[Statement("object") EXCEPT !.event = event, !.internal = internal, !.named = named] :
              event \in {"POST_CREATE", "DROP", "POST_ALTER", "NAMESPACE_SEARCH"},
              internal \in BOOLEAN, named \in BOOLEAN}
Passwords == {[Statement("password") EXCEPT !.pw = pw] :
                pw \in [type : {"md5", "plaintext", "scram"}, length : 1..4, hasUsername : BOOLEAN,
                        classes : {{"lower"}, {"lower", "special"}, {"lower", "special", "invalid"}}]}

Quiet == [log_min_messages |-> "FATAL", stderr |-> TRUE, redirection_done |-> TRUE]
Loggings == {[log_min_messages |-> level, stderr |-> stderr, redirection_done |-> redirected] :
               level \in {"NOTICE", "WARNING", "LOG"}, stderr \in BOOLEAN, redirected \in BOOLEAN}

Config(order, logs, stmts, count) ==
  [libraries |-> order, logging |-> logs, offered |-> stmts, statements |-> count]

Orders(libs) == SetToSeqs(libs)

MCConfigs ==
  {Config(order, Quiet, Drops, 2) : order \in Orders({"hook_utility", "pg_trunc2del", "other"})}
  \cup {Config(order, Quiet, Truncates \cup Inserts, 3) :
          order \in {<<"other">>} \cup Orders({"pg_trunc2del", "other"})}
  \cup {Config(order, Quiet, Objects, 1) : order \in Orders({"object_hooks", "other"})}
  \cup {Config(order, Quiet, Passwords, 1) : order \in Orders({"passwordcheck_extra", "other"})}
  \cup {Config(order, Quiet, {Statement("do")}, 1) : order \in Orders({"plpgsql_cb", "other"})}
  \cup {Config(<<"pg_panic", "hook_utility", "jsonlog", "object_hooks">>, logs,
               {Statement("select"), CHOOSE d \in Drops : d.user = "me" /\ d.db = "hook_dbname",
                CHOOSE o \in Objects : o.named /\ ~o.internal}, 2) : logs \in Loggings}
  \cup {Config(order, [log_min_messages |-> "NOTICE", stderr |-> TRUE, redirection_done |-> TRUE],
               {CHOOSE o \in Objects : o.named /\ ~o.internal}, 2) : order \in
          {<<"other", "jsonlog", "object_hooks">>, <<"jsonlog", "other", "object_hooks">>}}

MCPolicy == [min |-> 2, max |-> 3, required |-> {"lower", "special"}]
=============================================================================

----------------------------- MODULE DecoderRaw -----------------------------
(***************************************************************************)
(* decoder_raw/decoder_raw.c: the output plugin that turns decoded changes *)
(* into SQL statements, between a publisher that changes one table and a   *)
(* subscriber that executes the statements.                                *)
(*                                                                         *)
(* The table has a key column k, NOT NULL, and a column v that may be null *)
(* or hold a value stored out of line (TOAST).  A table is a bag of rows.  *)
(* A statement is what it does: the columns it sets and the conjuncts of   *)
(* its WHERE clause; literals are the values they denote (print_literal,   *)
(* print_relname).  The publisher, the logging of tuples, the reordering   *)
(* of changes by transaction and the subscriber are PostgreSQL's.          *)
(***************************************************************************)
EXTENDS Naturals, Sequences, FiniteSetsExt

CONSTANTS
  Keys,         \* values of column k
  Plain,        \* values of column v stored in the row
  Toasted,      \* values of column v stored out of line
  Null,         \* SQL's null
  Unchanged,    \* the on-disk TOAST pointer the log holds for an unchanged value
  NoTuple,      \* a tuple the log does not hold
  Relations,    \* the initial replica identities and keys of the table
  MaxChanges,   \* bound: changes made by the publisher
  MaxTxn,       \* bound: changes in one transaction
  MaxQueue,     \* bound: transactions the publisher may be ahead
  MaxDdl,       \* bound: changes of the replica identity or key
  MaxSessions   \* bound: decoding sessions

Idents == {"default", "index", "full", "nothing"}
\* "covering": the primary key has INCLUDE (v).
KeyKinds == {"none", "plain", "covering"}

ASSUME ConstantsAssumption ==
  /\ IsFiniteSet(Keys) /\ IsFiniteSet(Plain) /\ IsFiniteSet(Toasted)
  /\ Plain \cap Toasted = {} /\ {Null, Unchanged} \cap (Keys \cup Plain \cup Toasted) = {}
  /\ Null # Unchanged /\ NoTuple \notin [k : Keys, v : Plain \cup Toasted \cup {Null, Unchanged}]
  /\ Relations \subseteq {r \in [ident : Idents, key : KeyKinds] : r.ident = "index" => r.key # "none"}
  /\ MaxChanges \in Nat /\ MaxTxn \in Nat /\ MaxQueue \in Nat
  /\ MaxDdl \in Nat /\ MaxSessions \in Nat

VARIABLES
  rel,       \* replica identity and key of the table
  pub,       \* the publisher's table
  base,      \* the publisher's table at its last commit
  open,      \* changes of the publisher's open transaction
  queue,     \* committed transactions the subscriber has not confirmed
  session,   \* decoding session: "off", "on" or "failed"
  include_transaction,  \* option of the session
  pos,       \* callbacks run for the first transaction of the queue
  sub,       \* the subscriber's table, as others see it
  work,      \* the subscriber's table, as its session sees it
  tainted,   \* history: a change that decoder_raw cannot express was sent
  budget     \* changes, DDLs and sessions left

pubVars == <<rel, pub, base, open>>
subVars == <<sub, work, tainted>>
vars == <<pubVars, queue, session, include_transaction, pos, subVars, budget>>

Columns == {"k", "v"}
Rows == [k : Keys, v : Plain \cup Toasted \cup {Null}]
Empty == [row \in Rows |-> 0]

-----------------------------------------------------------------------------
(* The subscriber (external): what a statement does to a table.            *)

\* "column = null" is never true.
Matches(row, where) == \A c \in DOMAIN where : where[c] # Null /\ row[c] = where[c]

Overwrite(row, set) == [c \in Columns |-> IF c \in DOMAIN set THEN set[c] ELSE row[c]]

Execute(table, stmt) ==
  CASE stmt.op = "INSERT" -> [table EXCEPT ![stmt.set] = @ + 1]
    [] stmt.op = "TRUNCATE" -> Empty
    [] stmt.op = "DELETE" -> [row \in Rows |-> IF Matches(row, stmt.where) THEN 0 ELSE table[row]]
    [] stmt.op = "UPDATE" ->
         [row \in Rows |->
           (IF Matches(row, stmt.where) THEN 0 ELSE table[row])
           + MapThenSumSet(LAMBDA old : table[old],
               {old \in Rows : Matches(old, stmt.where) /\ Overwrite(old, stmt.set) = row})]

\* A literal "unchanged-toast-datum" is an error.
Rejected(stmt) == \E c \in DOMAIN stmt.where : stmt.where[c] = Unchanged

-----------------------------------------------------------------------------
(* decoder_raw: from a change to a statement.                              *)

\* rd_replidindex after RelationGetIndexList.
ReplidIndex(r) == r.key # "none" /\ r.ident \in {"default", "index"}

\* Mutant: only NOTHING is non-selective.
is_rel_nothing(r) == r.ident = "nothing"

is_rel_non_selective(r) == r.ident = "nothing" \/ (r.ident = "default" /\ ~ReplidIndex(r))

\* indkey, all indnatts of it: the included columns too.
IndexColumns(r) == IF r.key = "covering" THEN Columns ELSE {"k"}

\* Mutant: the new values are used even if the key has changed.
print_where_clause_new(r, oldtuple, newtuple) ==
  IF ReplidIndex(r)
    THEN LET tuple == IF newtuple # NoTuple THEN newtuple ELSE oldtuple
         IN [c \in IndexColumns(r) |-> tuple[c]]
    ELSE oldtuple

print_where_clause(r, oldtuple, newtuple) ==
  IF ReplidIndex(r)
    THEN LET tuple == IF oldtuple # NoTuple THEN oldtuple ELSE newtuple
         IN [c \in IndexColumns(r) |-> tuple[c]]
    ELSE oldtuple

decoder_raw_insert(newtuple) == [op |-> "INSERT", set |-> newtuple, where |-> <<>>]

decoder_raw_delete(r, oldtuple) ==
  [op |-> "DELETE", set |-> <<>>, where |-> print_where_clause(r, oldtuple, oldtuple)]

\* Columns whose TOAST pointer is unchanged are left out of the SET clause.
decoder_raw_update(r, oldtuple, newtuple) ==
  [op |-> "UPDATE",
   set |-> [c \in {d \in Columns : newtuple[d] # Unchanged} |-> newtuple[c]],
   where |-> print_where_clause(r, oldtuple, newtuple)]

decoder_raw_truncate == [op |-> "TRUNCATE", set |-> <<>>, where |-> <<>>]

\* A WHERE clause is needed and there is no tuple to take its values from: the
\* assertion of print_where_clause, or a crash in a build without assertions.
NoSelectivity(c) ==
  /\ c.op \in {"UPDATE", "DELETE"} /\ ~is_rel_non_selective(c.rel)
  /\ ~ReplidIndex(c.rel) /\ c.old = NoTuple

Skipped(c) == c.op \in {"UPDATE", "DELETE"} /\ is_rel_non_selective(c.rel)

Decoded(c) ==
  CASE c.op = "INSERT" -> decoder_raw_insert(c.new)
    [] c.op = "UPDATE" -> decoder_raw_update(c.rel, c.old, c.new)
    [] c.op = "DELETE" -> decoder_raw_delete(c.rel, c.old)
    [] c.op = "TRUNCATE" -> decoder_raw_truncate

-----------------------------------------------------------------------------
(* The publisher (external).                                               *)

\* The old tuple in the log: the row under FULL; else the key, if an index gives
\* one, of a deleted row or of a row whose key changes.
LoggedOld(op, old, new) ==
  CASE rel.ident = "full" -> old
    [] ReplidIndex(rel) /\ (op = "DELETE" \/ old.k # new.k) -> [k |-> old.k, v |-> Null]
    [] OTHER -> NoTuple

LoggedNew(old, new) ==
  IF new.v = old.v /\ new.v \in Toasted THEN [new EXCEPT !.v = Unchanged] ELSE new

\* The updates and deletions that a statement cannot express: those of tables
\* without replica identity; under FULL, those of a row with a null or a twin; those
\* of a key with included columns.
Inexpressible(old) ==
  CASE rel.ident = "full" -> old.v = Null \/ pub[old] > 1
    [] ReplidIndex(rel) -> rel.key = "covering"
    [] OTHER -> TRUE

Change(op, old, new, table, lossy) ==
  /\ budget.changes > 0 /\ Len(open) < MaxTxn /\ Len(queue) < MaxQueue
  /\ pub' = table
  /\ open' = Append(open, [op |-> op, rel |-> rel, old |-> old, new |-> new,
                           after |-> table, lossy |-> lossy])
  /\ budget' = [budget EXCEPT !.changes = @ - 1]
  /\ UNCHANGED <<rel, base, queue, session, include_transaction, pos, subVars>>

KeyFree(table, k) == rel.key # "none" => \A row \in Rows : row.k = k => table[row] = 0

PubInsert(row) ==
  /\ KeyFree(pub, row.k)
  /\ Change("INSERT", NoTuple, row, [pub EXCEPT ![row] = @ + 1], FALSE)

PubUpdate(old, new) ==
  /\ pub[old] > 0
  /\ LET without == [pub EXCEPT ![old] = @ - 1]
     IN /\ KeyFree(without, new.k)
        /\ Change("UPDATE", LoggedOld("UPDATE", old, new), LoggedNew(old, new),
                  [without EXCEPT ![new] = @ + 1], Inexpressible(old))

PubDelete(old) ==
  /\ pub[old] > 0
  /\ Change("DELETE", LoggedOld("DELETE", old, old), NoTuple,
            [pub EXCEPT ![old] = @ - 1], Inexpressible(old))

PubTruncate == Change("TRUNCATE", NoTuple, NoTuple, Empty, FALSE)

PubCommit ==
  /\ open # <<>>
  /\ queue' = Append(queue, [before |-> base, changes |-> open])
  /\ base' = pub /\ open' = <<>>
  /\ UNCHANGED <<rel, pub, session, include_transaction, pos, subVars, budget>>

\* ALTER TABLE ... REPLICA IDENTITY, ADD or DROP of the key.  Dropping the index
\* of REPLICA IDENTITY USING INDEX is allowed and leaves the identity as it is.
PubDdl(ident, key) ==
  /\ budget.ddl > 0 /\ open = <<>> /\ Len(queue) < MaxQueue
  /\ rel # [ident |-> ident, key |-> key]
  /\ ident # rel.ident /\ ident = "index" => key # "none"
  /\ key # "none" => \A k \in Keys : MapThenSumSet(LAMBDA row : pub[row], {row \in Rows : row.k = k}) <= 1
  /\ rel' = [ident |-> ident, key |-> key]
  /\ budget' = [budget EXCEPT !.ddl = @ - 1]
  /\ UNCHANGED <<pub, base, open, queue, session, include_transaction, pos, subVars>>

-----------------------------------------------------------------------------
(* The callbacks of decoder_raw, each with the subscriber's execution of   *)
(* what it writes.                                                         *)

Options ==
  [name : {"include_transaction"}, arg : {"none", "on", "off", "bad"}]
  \cup [name : {"output_format"}, arg : {"none", "textual", "binary", "bad"}]
  \cup [name : {"unknown"}, arg : {"none"}]

OptionOK(o) ==
  \/ o.name = "include_transaction" /\ o.arg # "bad"
  \/ o.name = "output_format" /\ o.arg \in {"textual", "binary"}

\* Given without a value, include_transaction is on; given twice, the last counts.
OptionOn(options) ==
  LET given == {i \in DOMAIN options : options[i].name = "include_transaction"}
  IN given # {} /\ options[Max(given)].arg \in {"none", "on"}

\* An unknown option or a bad value raises an error: no session.
decoder_raw_startup(options) ==
  /\ session = "off" /\ budget.sessions > 0
  /\ \A i \in DOMAIN options : OptionOK(options[i])
  /\ session' = "on" /\ include_transaction' = OptionOn(options)
  /\ budget' = [budget EXCEPT !.sessions = @ - 1]
  /\ UNCHANGED <<pubVars, queue, pos, subVars>>

\* The session ends, between two callbacks: the subscriber's open transaction is
\* rolled back and the transaction will be decoded again from its start.
decoder_raw_shutdown ==
  /\ session = "on"
  /\ session' = "off" /\ pos' = 0 /\ work' = sub
  /\ tainted' = (tainted \/ (~include_transaction /\ pos > 1))
  /\ UNCHANGED <<pubVars, queue, include_transaction, sub, budget>>

decoder_raw_begin_txn ==
  /\ session = "on" /\ queue # <<>> /\ pos = 0
  /\ pos' = 1
  /\ UNCHANGED <<pubVars, queue, session, include_transaction, subVars, budget>>

\* A statement ends its own transaction unless BEGIN was sent before it.
Write(stmt) ==
  /\ work' = Execute(work, stmt)
  /\ sub' = IF include_transaction THEN sub ELSE work'

Fail ==
  /\ session' = "failed" /\ work' = sub
  /\ UNCHANGED <<sub, tainted, pos>>

decoder_raw_change ==
  /\ session = "on" /\ queue # <<>> /\ pos \in 1..Len(Head(queue).changes)
  /\ LET c == Head(queue).changes[pos]
     IN IF NoSelectivity(c) \/ (~Skipped(c) /\ Rejected(Decoded(c)))
          THEN Fail
          ELSE /\ IF Skipped(c) THEN UNCHANGED <<sub, work>> ELSE Write(Decoded(c))
               /\ pos' = pos + 1 /\ tainted' = (tainted \/ c.lossy)
               /\ UNCHANGED session
  /\ UNCHANGED <<pubVars, queue, include_transaction, budget>>

\* Mutant: the next transaction starts where this one ended.
decoder_raw_commit_keeps ==
  /\ session = "on" /\ queue # <<>> /\ pos > Len(Head(queue).changes)
  /\ sub' = work /\ queue' = Tail(queue)
  /\ UNCHANGED <<pubVars, session, include_transaction, pos, work, tainted, budget>>

\* The subscriber confirms the transaction with its commit.
decoder_raw_commit_txn ==
  /\ session = "on" /\ queue # <<>> /\ pos > Len(Head(queue).changes)
  /\ sub' = work /\ queue' = Tail(queue) /\ pos' = 0
  /\ UNCHANGED <<pubVars, session, include_transaction, work, tainted, budget>>

-----------------------------------------------------------------------------
Init ==
  /\ rel \in Relations
  /\ pub = Empty /\ base = Empty /\ open = <<>> /\ queue = <<>>
  /\ session = "off" /\ include_transaction = FALSE /\ pos = 0
  /\ sub = Empty /\ work = Empty /\ tainted = FALSE
  /\ budget = [changes |-> MaxChanges, ddl |-> MaxDdl, sessions |-> MaxSessions]

Publisher ==
  \/ \E row \in Rows : PubInsert(row) \/ PubDelete(row)
  \/ \E old \in Rows, new \in Rows : PubUpdate(old, new)
  \/ PubTruncate \/ PubCommit
  \/ \E ident \in Idents, key \in KeyKinds : PubDdl(ident, key)

Decoder ==
  \/ \E o1 \in Options, o2 \in Options : decoder_raw_startup(<<o1, o2>>)
  \/ decoder_raw_startup(<<>>)
  \/ decoder_raw_shutdown \/ decoder_raw_begin_txn
  \/ decoder_raw_change \/ decoder_raw_commit_txn

Next == Publisher \/ Decoder

Spec == Init /\ [][Next]_vars

-----------------------------------------------------------------------------
(* Properties.                                                             *)

\* Types; and no callback has been run for a transaction once it is confirmed:
\* each transaction starts at its BEGIN.
TypeOK ==
  /\ rel \in [ident : Idents, key : KeyKinds]
  /\ pub \in [Rows -> Nat] /\ base \in [Rows -> Nat]
  /\ sub \in [Rows -> Nat] /\ work \in [Rows -> Nat]
  /\ session \in {"off", "on", "failed"}
  /\ include_transaction \in BOOLEAN /\ tainted \in BOOLEAN
  /\ pos \in Nat /\ (queue = <<>> => pos = 0)

\* The publisher's table at the point the subscriber has been told of.
Replayed(visible) ==
  IF queue = <<>> THEN base
  ELSE IF (visible /\ include_transaction) \/ pos <= 1 THEN Head(queue).before
  ELSE Head(queue).changes[pos - 1].after

\* The subscriber's table is the publisher's, change by change; what others see of
\* it is, with include_transaction, the publisher's table at a commit, whatever
\* sessions are cut.  This holds until a change of a kind named by Inexpressible
\* is sent, or a session without include_transaction is cut inside a transaction.
InSync ==
  ~tainted => sub = Replayed(TRUE) /\ (session = "on" => work = Replayed(FALSE))

\* Decoding stops at an UPDATE or DELETE only when the replica identity index has
\* been dropped, or when it includes a column whose TOAST pointer is unchanged; a
\* plain key, FULL and NOTHING never stop it.
FailsOnlyOnIndex ==
  session = "failed" =>
    LET c == Head(queue).changes[pos]
    IN \/ c.op \in {"UPDATE", "DELETE"} /\ c.rel.ident = "index" /\ c.rel.key = "none"
       \/ c.op = "UPDATE" /\ c.rel.key = "covering" /\ c.new.v = Unchanged

\* README: FULL is a "level of REPLICA IDENTITY sufficient to ensure that tuple
\* selectivity is guaranteed": each statement changes the rows the publisher did.
SelectivityGuaranteed ==
  session = "on" /\ include_transaction => work = Replayed(FALSE)
=============================================================================

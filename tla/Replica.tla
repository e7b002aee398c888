------------------------------- MODULE Replica -------------------------------
(***************************************************************************)
(* What receiver_raw promises its publisher, without connection, messages  *)
(* or restarts: changes of committed transactions are executed in commit   *)
(* order, nothing is ever skipped on the way; executed changes become      *)
(* durable (or are lost) a batch at a time; and the confirmed position     *)
(* only passes what has been executed.  It promises less than one might    *)
(* wish: a batch may hold a part of a transaction, a change may be         *)
(* executed again after it was lost or even made durable, and a position   *)
(* may be confirmed before its changes are durable.                        *)
(***************************************************************************)
EXTENDS Naturals, Sequences

CONSTANT Txns    \* transactions of the publisher

VARIABLES
  wal,        \* the publisher's WAL: change and commit records
  open,       \* changes executed in the open local transaction
  durable,    \* changes committed in the local database
  lost,       \* changes executed in a local transaction that was aborted
  confirmed   \* position up to which the publisher may forget its WAL

replicaVars == <<wal, open, durable, lost, confirmed>>

executed == open \cup durable \cup lost

\* The set S holds every change of every transaction of the WAL w that committed
\* before the position p.
Complete(w, S, p) ==
  \A i, j \in 1..Len(w) :
    w[i].commit /\ i < p /\ ~w[j].commit /\ w[j].txn = w[i].txn => j \in S

\* The change j belongs to a committed transaction, and S holds all that comes
\* before it in commit order.
Ready(w, S, j) ==
  /\ j \in 1..Len(w) /\ ~w[j].commit
  /\ \E b \in 1..Len(w) :
       w[b].commit /\ w[b].txn = w[j].txn /\ Complete(w, S, b)
  /\ \A k \in 1..(j - 1) : ~w[k].commit /\ w[k].txn = w[j].txn => k \in S

Init == wal = <<>> /\ open = {} /\ durable = {} /\ lost = {} /\ confirmed = 1

\* The publisher writes a record of a transaction that has not committed.
Publish(t, commit) ==
  /\ \A i \in 1..Len(wal) : wal[i].commit => wal[i].txn # t
  /\ wal' = Append(wal, [txn |-> t, commit |-> commit])
  /\ UNCHANGED <<open, durable, lost, confirmed>>

Execute(j) ==
  /\ Ready(wal, executed, j)
  /\ open' = open \cup {j}
  /\ UNCHANGED <<wal, durable, lost, confirmed>>

CommitLocal ==
  /\ durable' = durable \cup open /\ open' = {}
  /\ UNCHANGED <<wal, lost, confirmed>>

AbortLocal ==
  /\ lost' = lost \cup open /\ open' = {}
  /\ UNCHANGED <<wal, durable, confirmed>>

Confirm(p) ==
  /\ p > confirmed /\ Complete(wal, executed, p)
  /\ confirmed' = p
  /\ UNCHANGED <<wal, open, durable, lost>>

Next ==
  \/ \E t \in Txns, commit \in BOOLEAN : Publish(t, commit)
  \/ \E j \in 1..Len(wal) : Execute(j)
  \/ CommitLocal \/ AbortLocal
  \/ \E p \in 1..(Len(wal) + 1) : Confirm(p)

Spec == Init /\ [][Next]_replicaVars
=============================================================================

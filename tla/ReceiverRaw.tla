----------------------------- MODULE ReceiverRaw -----------------------------
(***************************************************************************)
(* receiver_raw/receiver_raw.c: a background worker that streams the       *)
(* changes of a logical replication slot (decoded by decoder_raw) and runs *)
(* them through SPI in its own database, one local transaction per batch   *)
(* of messages.  The other end of the connection, the publisher's WAL, its *)
(* walsender and its slot, is not in this repository: it is modelled from  *)
(* what the worker asks of it (START_REPLICATION at 0/0, 'w' and 'k'       *)
(* messages, standby status updates).                                      *)
(*                                                                         *)
(* An LSN is the index of a WAL record.  A position p stands for "every    *)
(* record before p": the walsender's sentPtr, the slot's confirmed         *)
(* position and the worker's output_*_lsn are such positions.  The three   *)
(* output_*_lsn are always assigned together and are one variable here.    *)
(***************************************************************************)
EXTENDS Naturals, Sequences, FiniteSets

CONSTANTS
  MaxTxns,      \* bound: transactions of the publisher
  SyncModes,    \* values receiver_raw.sync_mode takes, it can be reloaded
  MaxWal,       \* bound: WAL records written by the publisher
  MaxChan,      \* bound: messages in flight on the connection
  MaxKeepalives,\* bound: keepalives sent by the walsender
  MaxFailures   \* bound: exits of the worker with status 1

ASSUME BoundsAssumption ==
  /\ SyncModes \subseteq BOOLEAN
  /\ MaxTxns \in Nat
  /\ MaxWal \in Nat
  /\ MaxChan \in Nat
  /\ MaxKeepalives \in Nat
  /\ MaxFailures \in Nat

VARIABLES
  \* publisher (external)
  wal,          \* the WAL: a sequence of change and commit records
  confirmed,    \* confirmed position of the replication slot
  sentPtr,      \* position the walsender has decoded and sent up to
  decoding,     \* TRUE while the commit record at sentPtr is being decoded
  pending,      \* LSNs of that transaction's changes that are not sent yet
  \* connection
  chan,         \* messages sent to the worker, in order
  avail,        \* how many of them libpq has already read from the socket
  reply,        \* last status update sent and not read yet, 0 if none
  \* worker
  pc,           \* where the worker is in receiver_raw_main
  got_sigterm,  \* flag of the SIGTERM handler
  output_lsn,   \* output_written_lsn = output_fsync_lsn = output_applied_lsn
  xact,         \* LSNs of the changes executed in the open local transaction
  db,           \* LSNs of the changes committed in the local database
  \* history
  aborted,      \* changes executed in a local transaction that was aborted
  start,        \* slot position the current connection started from
  base,         \* length of db when the current connection started
  keepalives,   \* keepalives sent so far
  failures      \* exits with status 1 so far

pubVars == <<wal, confirmed, sentPtr, decoding, pending>>
connVars == <<chan, avail, reply>>
workerVars == <<pc, got_sigterm, output_lsn, xact, db>>
histVars == <<aborted, start, base, keepalives, failures>>
vars == <<pubVars, connVars, workerVars, histVars>>

-----------------------------------------------------------------------------
(* Records, messages and what they stand for.                              *)

Txns == 1..MaxTxns
Record == [txn : Txns, commit : BOOLEAN]
Lsn == Nat \ {0}
Message == [type : {"w", "k", "end"}, lsn : Nat, replyRequested : BOOLEAN]
Places == {"down", "loop", "recv", "select", "gone"}

Max2(a, b) == IF a >= b THEN a ELSE b

\* Change records, and those of a transaction, by LSN.
IsChange(i) == i \in 1..Len(wal) /\ ~wal[i].commit
ChangesOf(t) == {j \in 1..Len(wal) : ~wal[j].commit /\ wal[j].txn = t}
Committed(t) == \E i \in 1..Len(wal) : wal[i].commit /\ wal[i].txn = t

Elems(s) == {s[i] : i \in 1..Len(s)}

\* Everything the worker has run through SPI, whatever became of it.
Executed == Elems(db) \cup Elems(xact) \cup aborted

\* The changes carried by the first n messages of a channel.
Flight(ch, n) == {ch[m].lsn : m \in {k \in 1..n : ch[k].type = "w"}}

-----------------------------------------------------------------------------
Init ==
  /\ wal = <<>> /\ confirmed = 1 /\ sentPtr = 1
  /\ decoding = FALSE /\ pending = {}
  /\ chan = <<>> /\ avail = 0 /\ reply = 0
  /\ pc = "down" /\ got_sigterm = FALSE
  /\ output_lsn = 0 /\ xact = <<>> /\ db = <<>>
  /\ aborted = {} /\ start = 1 /\ base = 0 /\ keepalives = 0 /\ failures = 0

-----------------------------------------------------------------------------
(* The publisher: transactions interleave in the WAL.                      *)

PublisherChange(t) ==
  /\ Len(wal) < MaxWal /\ ~Committed(t)
  /\ t = 1 \/ ChangesOf(t - 1) # {}    \* xids are assigned in order
  /\ wal' = Append(wal, [txn |-> t, commit |-> FALSE])
  /\ UNCHANGED <<confirmed, sentPtr, decoding, pending, connVars, workerVars, histVars>>

PublisherCommit(t) ==
  /\ Len(wal) < MaxWal /\ ~Committed(t) /\ ChangesOf(t) # {}
  /\ wal' = Append(wal, [txn |-> t, commit |-> TRUE])
  /\ UNCHANGED <<confirmed, sentPtr, decoding, pending, connVars, workerVars, histVars>>

(* The walsender: it decodes the record at sentPtr; a commit record makes  *)
(* decoder_raw emit the changes of its transaction, in LSN order.          *)

Connected == pc \in {"loop", "recv", "select"}
StreamOpen == Connected /\ \A m \in 1..Len(chan) : chan[m].type # "end"
Send(msg) == Len(chan) < MaxChan /\ chan' = Append(chan, msg)

WalSenderDecode ==
  /\ StreamOpen /\ ~decoding /\ sentPtr <= Len(wal)
  /\ IF wal[sentPtr].commit
       THEN /\ decoding' = TRUE
            /\ pending' = ChangesOf(wal[sentPtr].txn)
            /\ UNCHANGED sentPtr
       ELSE /\ sentPtr' = sentPtr + 1
            /\ UNCHANGED <<decoding, pending>>
  /\ UNCHANGED <<wal, confirmed, connVars, workerVars, histVars>>

WalSenderChange ==
  /\ StreamOpen /\ decoding
  /\ \E j \in pending :
       /\ \A k \in pending : j <= k
       /\ Send([type |-> "w", lsn |-> j, replyRequested |-> FALSE])
       /\ pending' = pending \ {j}
  /\ UNCHANGED <<wal, confirmed, sentPtr, decoding, avail, reply, workerVars, histVars>>

WalSenderDone ==
  /\ StreamOpen /\ decoding /\ pending = {}
  /\ decoding' = FALSE /\ sentPtr' = sentPtr + 1
  /\ UNCHANGED <<wal, confirmed, pending, connVars, workerVars, histVars>>

\* Keepalives come at any time, between two changes of a transaction too.
WalSenderKeepalive(requested) ==
  /\ StreamOpen /\ keepalives < MaxKeepalives
  /\ keepalives' = keepalives + 1
  /\ Send([type |-> "k", lsn |-> sentPtr, replyRequested |-> requested])
  /\ UNCHANGED <<pubVars, avail, reply, workerVars, aborted, start, base, failures>>

\* The publisher shuts down: it ends the COPY stream between two records.
WalSenderEnd ==
  /\ StreamOpen /\ ~decoding
  /\ Send([type |-> "end", lsn |-> 0, replyRequested |-> FALSE])
  /\ UNCHANGED <<pubVars, avail, reply, workerVars, histVars>>

\* A status update moves the slot forward, never backward.
SlotConfirm ==
  /\ reply # 0
  /\ confirmed' = Max2(confirmed, reply) /\ reply' = 0
  /\ UNCHANGED <<wal, sentPtr, decoding, pending, chan, avail, workerVars, histVars>>

-----------------------------------------------------------------------------
(* The worker.                                                             *)

\* The worker's static variables start anew with each process, and the
\* walsender resumes at the slot's position.
Start ==
  /\ pc = "down"
  /\ pc' = "loop" /\ output_lsn' = 0 /\ xact' = <<>> /\ got_sigterm' = FALSE
  /\ chan' = <<>> /\ avail' = 0 /\ reply' = 0
  /\ sentPtr' = confirmed /\ decoding' = FALSE /\ pending' = {}
  /\ start' = confirmed /\ base' = Len(db)
  /\ UNCHANGED <<wal, confirmed, db, aborted, keepalives, failures>>

receiver_raw_sigterm ==
  /\ Connected /\ ~got_sigterm
  /\ got_sigterm' = TRUE
  /\ UNCHANGED <<pubVars, connVars, pc, output_lsn, xact, db, histVars>>

\* Top of the outer loop: nap, reload the configuration if asked to (the value of
\* sync_mode is picked where it is used), leave on SIGTERM, else open the local
\* transaction of the next batch.
LoopTop ==
  /\ pc = "loop"
  /\ pc' = IF got_sigterm THEN "gone" ELSE "recv"
  /\ UNCHANGED <<pubVars, connVars, got_sigterm, output_lsn, xact, db, histVars>>

AdvanceTo(walEnd) == output_lsn' = Max2(walEnd, output_lsn)

\* Mutant: the message is freed but still counted as buffered.
ConsumeMiscounts == chan' = Tail(chan) /\ avail' = avail

Consume == chan' = Tail(chan) /\ avail' = avail - 1

\* The position reached so far is reported as written, flushed and applied.
sendFeedback == reply' = output_lsn'

\* PQgetCopyData returned a keepalive.
RecvKeepalive ==
  /\ pc = "recv" /\ avail > 0 /\ Head(chan).type = "k"
  /\ Consume
  /\ AdvanceTo(Head(chan).lsn)
  /\ \E sync_mode \in SyncModes :
       IF Head(chan).replyRequested \/ sync_mode THEN sendFeedback ELSE UNCHANGED reply
  /\ UNCHANGED <<pubVars, pc, got_sigterm, xact, db, histVars>>

\* Mutant: a change behind the last position is taken for a duplicate.
RecvChangeSkipsOld ==
  /\ pc = "recv" /\ avail > 0 /\ Head(chan).type = "w"
  /\ Consume
  /\ xact' = IF Head(chan).lsn < output_lsn THEN xact ELSE Append(xact, Head(chan).lsn)
  /\ AdvanceTo(Head(chan).lsn)
  /\ UNCHANGED <<pubVars, reply, pc, got_sigterm, db, histVars>>

\* PQgetCopyData returned a change and SPI_execute ran it.
RecvChange ==
  /\ pc = "recv" /\ avail > 0 /\ Head(chan).type = "w"
  /\ Consume
  /\ xact' = Append(xact, Head(chan).lsn)
  /\ AdvanceTo(Head(chan).lsn)
  /\ UNCHANGED <<pubVars, reply, pc, got_sigterm, db, histVars>>

\* Mutants: the batch is dropped instead of committed; it is kept and run again.
CommitBatchDrops == db' = db /\ xact' = <<>>
CommitBatchKeeps == db' = db \o xact /\ xact' = xact

\* The local transaction of the batch commits.
CommitBatch == db' = db \o xact /\ xact' = <<>>

\* PQgetCopyData returned 0: libpq holds no complete message.
BatchEnd ==
  /\ pc = "recv" /\ avail = 0
  /\ CommitBatch
  /\ pc' = "select"
  /\ UNCHANGED <<pubVars, connVars, got_sigterm, output_lsn, histVars>>

\* PQgetCopyData returned -1: commit, then exit 0, which the postmaster takes
\* as a request never to start the worker again.
StreamEnd ==
  /\ pc = "recv" /\ avail > 0 /\ Head(chan).type = "end"
  /\ CommitBatch
  /\ pc' = "gone"
  /\ UNCHANGED <<pubVars, connVars, got_sigterm, output_lsn, histVars>>

\* PQgetCopyData returned -2: commit, then exit 1.
StreamFailure ==
  /\ pc = "recv" /\ avail = 0 /\ failures < MaxFailures
  /\ CommitBatch
  /\ pc' = "down" /\ failures' = failures + 1
  /\ UNCHANGED <<pubVars, connVars, got_sigterm, output_lsn, aborted, start, base, keepalives>>

\* select() waits for data at most one second; a signal interrupts it.
SelectTimeout ==
  /\ pc = "select" /\ (avail = Len(chan) \/ got_sigterm)
  /\ pc' = "loop"
  /\ UNCHANGED <<pubVars, connVars, got_sigterm, output_lsn, xact, db, histVars>>

\* Mutant: data is signalled but never read from the socket.
SelectDataIgnored ==
  /\ pc = "select" /\ avail < Len(chan)
  /\ pc' = "loop"
  /\ UNCHANGED <<pubVars, connVars, got_sigterm, output_lsn, xact, db, histVars>>

\* PQconsumeInput reads some of what the socket holds.
SelectData ==
  /\ pc = "select" /\ avail < Len(chan)
  /\ avail' \in (avail + 1)..Len(chan)
  /\ pc' = "loop"
  /\ UNCHANGED <<pubVars, chan, reply, got_sigterm, output_lsn, xact, db, histVars>>

\* Every other way out: an SQL error of SPI_execute, a malformed header, a
\* feedback that cannot be sent, a failing select() or PQconsumeInput, a crash
\* of the server.  The open local transaction aborts; the status update already
\* handed to the kernel may still reach the walsender.
WorkerFails ==
  /\ Connected /\ failures < MaxFailures
  /\ pc' = "down" /\ failures' = failures + 1
  /\ aborted' = aborted \cup Elems(xact) /\ xact' = <<>>
  /\ UNCHANGED <<pubVars, connVars, got_sigterm, output_lsn, db, start, base, keepalives>>

-----------------------------------------------------------------------------
Publisher == \E t \in Txns : PublisherChange(t) \/ PublisherCommit(t)

WalSender ==
  \/ WalSenderDecode \/ WalSenderChange \/ WalSenderDone
  \/ \E requested \in BOOLEAN : WalSenderKeepalive(requested)
  \/ WalSenderEnd \/ SlotConfirm

WorkerStep ==
  \/ LoopTop \/ RecvKeepalive \/ RecvChange \/ BatchEnd \/ StreamEnd
  \/ SelectTimeout \/ SelectData

Next ==
  \/ Publisher \/ WalSender \/ WorkerStep
  \/ Start \/ receiver_raw_sigterm \/ StreamFailure \/ WorkerFails

\* The postmaster restarts a worker that exited with 1 (bgw_restart_time), the
\* worker and the walsender are scheduled; nobody owes keepalives or signals.
Fairness ==
  /\ WF_vars(Start) /\ WF_vars(WorkerStep)
  /\ WF_vars(WalSenderDecode \/ WalSenderChange \/ WalSenderDone)

Spec == Init /\ [][Next]_vars /\ Fairness

-----------------------------------------------------------------------------
(* Properties.                                                             *)

FlagsOK == decoding \in BOOLEAN /\ got_sigterm \in BOOLEAN

DataOK ==
  /\ wal \in Seq(Record)
  /\ confirmed \in 1..(Len(wal) + 1) /\ sentPtr \in 1..(Len(wal) + 1)
  /\ pending \subseteq 1..Len(wal)
  /\ chan \in Seq(Message) /\ avail \in 0..Len(chan)
  /\ reply \in 0..(Len(wal) + 1)
  /\ pc \in Places /\ output_lsn \in 0..(Len(wal) + 1)
  /\ xact \in Seq(Lsn) /\ db \in Seq(Lsn) /\ aborted \subseteq Lsn
  /\ start \in Lsn /\ base \in Nat /\ keepalives \in Nat /\ failures \in Nat

\* Type correctness: in particular libpq never holds more messages than were
\* sent, and no position runs past the end of the WAL.
TypeOK == FlagsOK /\ DataOK

\* The set S holds every change of every transaction of the WAL w that committed
\* before the position p.
Complete(w, S, p) ==
  \A i, j \in 1..Len(w) :
    w[i].commit /\ i < p /\ ~w[j].commit /\ w[j].txn = w[i].txn => j \in S

\* All that must have happened before position p is executed by the worker or in
\* the first n messages.
Covered(p, n) == Complete(wal, Executed \cup Flight(chan, n), p)

\* What the worker tells the server it has written, flushed and applied
\* (sendFeedback), hence what the slot forgets, has at least been run through
\* SPI: it is committed locally, in the batch's open transaction, or in a
\* transaction that was aborted.  No change is skipped outright.
ConfirmedWasExecuted == Covered(confirmed, 0) /\ Covered(reply, 0)

CommitLsn(j) ==
  CHOOSE i \in 1..Len(wal) : wal[i].commit /\ wal[i].txn = wal[j].txn

\* Changes are emitted by the order of their commits, then of their LSNs.
Before(j, k) ==
  \/ CommitLsn(j) < CommitLsn(k)
  \/ CommitLsn(j) = CommitLsn(k) /\ j < k

\* What the current connection has executed, committed or not.
Session == SubSeq(db, base + 1, Len(db)) \o xact

\* Within one connection the worker executes the changes of the transactions
\* the slot had not confirmed, in commit order, each once and without a gap,
\* however the stream was cut into batches.
SessionInOrder ==
  \A n \in 1..Len(Session) :
    /\ CommitLsn(Session[n]) >= start
    /\ \A m \in 1..(n - 1) : Before(Session[m], Session[n])
    /\ \A i \in start..CommitLsn(Session[n]) : wal[i].commit =>
         \A j \in ChangesOf(wal[i].txn) :
           Before(j, Session[n]) => \E m \in 1..(n - 1) : Session[m] = j

\* receiver_raw.c:359-362 says the status update lets the server know "how far
\* replay has been done".  Then, between two batches, no transaction the slot has
\* confirmed may be missing from the local database: the slot never sends it again.
ConfirmedIsReplayed ==
  pc \in {"down", "loop"} =>
    \A i \in 1..Len(wal) : wal[i].commit /\ i < confirmed =>
      ChangesOf(wal[i].txn) \subseteq Elems(db)

\* Unless a local transaction was aborted, what the slot has confirmed is in the
\* local database whenever the worker is between two batches.
LossOnlyByAbort == aborted = {} => ConfirmedIsReplayed

\* Every change of a committed transaction is eventually executed, across
\* restarts, unless the worker has left for good (exit 0).
CommittedIsExecuted ==
  \A j \in 1..MaxWal :
    (IsChange(j) /\ Committed(wal[j].txn)) ~> (j \in Executed \/ pc = "gone")

R == INSTANCE Replica WITH open <- Elems(xact), durable <- Elems(db), lost <- aborted

\* The worker with its walsender and its connection, whatever is cut, delayed or
\* restarted, does nothing that the abstract replica does not do: each step of it
\* is a step of Replica or leaves Replica's state alone.
ImplementsReplica == R!Spec
=============================================================================

# A TLA+ model of pg_plugins

pg_plugins is a collection of PostgreSQL extensions, background workers, output
plugins and small tools. Most of them do one thing in one call. The parts that keep
state, run concurrently or talk to another process are modelled here in TLA+,
model-checked with TLC on small instances and, for most of their safety properties, proved
correct with TLAPS for every instance.

## 1. Inventory

| Part | State | Operations | Interacts with | What is hard | What makes it correct |
|---|---|---|---|---|---|
| `receiver_raw` | signal flags, `output_*_lsn`, libpq buffer, open local transaction | one loop: nap, reload, batch of messages run through SPI, commit, `select()` | walsender and slot of a publisher, postmaster | feedback before commit, batches cut anywhere, restarts, interleaved remote transactions | nothing confirmed that was not run; order, no gap, no repetition within a connection |
| `decoder_raw` | options of a session | callbacks startup, begin, change, truncate, commit, shutdown | the WAL of a publisher; whoever executes its statements | replica identities, key changes, TOAST, nulls, DDL, cut sessions | executing the statements reproduces the table |
| `lwlock_test` | two LWLocks and two variables in shared memory | acquire, release, update(N), wait(N) | two backends through shared memory | interleavings inside the LWLock routines | counts, ping-pong, no hang |
| `hello_world`, `hello_signal`, `hello_notify`, `count_relations`, `kill_idle` (and the loop of `receiver_raw`) | signal flags, latch, loaded parameters, query buffer | nap, reload, rebuild, query, exit | postmaster, signals; `kill_idle` terminates others | handlers between any two statements | no signal slept on, configuration fresh, query well formed, SIGTERM obeyed |
| `pgmpc` | static `mpd_conn` and `mpd_status` per session | 19 SQL functions | mpd server, shared by sessions | errors between connect and cleanup, lost replies, read-modify-write | no leak, toggles count |
| `wal_utils` | none; one call | parse a history file, list segments, read the archive | the archive | boundaries of segments and timelines | the list leads from origin to target |
| `signal_rmgr` | a WAL record | insert, redo | recovery, postmaster of primary and standby | redo repeated at each recovery, record not flushed | a recovery is ended only by a signal to stop; a standby obeys one |
| `pg_swap_pages`, `custom_wal`, `pg_fix_truncation` | pages, the log, the free space map | one call each | buffer manager, WAL, standby | share locks, crash between page and record, order of locks | no page lost, standby in step, flushed means durable |
| `pg_wal_blocks` | position in a segment file | read, print | the WAL directory of a running server | records across segments, a file being written | all whole records of a full segment are reported |
| `jsonlog` | hook, chunks not yet written | level test, write to pipe or console | collector, other sessions | interleaved chunks, full pipe, the collector logging itself | each entry whole, once, in order |
| `hook_utility`, `pg_trunc2del`, `pg_panic`, `object_hooks`, `passwordcheck_extra`, `plpgsql_cb` | the hook they replaced, parameters | one hook each | each other, through the chains of hooks; concurrent sessions | order of loading, locks and snapshots | checks are never bypassed, TRUNCATE empties, others are called |
| the others (`blackhole*`, `overflow`, `hint_parser`, system-call, compression and crypto wrappers, ...) | none of their own | wrappers of one PostgreSQL call, grammars, templates | - | - | not modelled, reasons in `PROJECT.json` |

`decoder_raw` and `receiver_raw` meet on the wire: the walsender of `ReceiverRaw`
emits what `decoder_raw` writes, with `include_transaction 'off'`, a change per
message. `kill_idle` meets other workers through `pg_stat_activity`. The extensions that
write WAL meet in one log, which crashes cut and a standby replays. The preloaded
libraries meet in the chains of hooks and, when they report something, in `jsonlog`.

## 2. Modules

Each module keeps the source's names for functions and variables. Definitions marked
"Mutant" are plausible mistakes, used to show that a property can fail; no
specification uses them. A module `X_proofs` holds the
theorems about `X` and is described in section 5.

### ReceiverRaw (`receiver_raw.c`)

An LSN is the index of a WAL record. The publisher appends change and commit records
of interleaved transactions; the walsender decodes at `sentPtr`, sends the changes of
a transaction when it meets its commit record, and keepalives at any time. `chan` is
the connection, `avail` how much of it libpq has read: `PQgetCopyData` sees only that,
which is what cuts the stream into batches. The worker's `pc` follows
`receiver_raw_main`: `Start` (connect, START_REPLICATION at 0/0, i.e. at the slot's
position), `LoopTop` (nap, SIGHUP, SIGTERM, begin), `RecvKeepalive`, `RecvChange`,
`BatchEnd`/`StreamEnd`/`StreamFailure` (PQgetCopyData returned 0, -1, -2; the batch
commits in each case), `SelectTimeout`, `SelectData`, and `WorkerFails` for every exit
with status 1 in which the local transaction aborts. `xact` holds what ran in the open
local transaction, `db` what was committed. The three `output_*_lsn` are always equal
and are one variable. A position p means "all records before p". A reload can change
`sync_mode` at any time, so its value is chosen where it is used. The network may hold
back a status update (`reply` is the last one sent, `SlotConfirm` its arrival) or lose
it with the connection.

### Replica

The abstract specification of `receiver_raw`: a WAL, the changes executed in the open
local transaction, those made durable, those lost with an aborted one, and the confirmed
position. `Execute` takes a change only when all that comes before it in commit order
has been executed; `CommitLocal` and `AbortLocal` take the whole open transaction;
`Confirm` passes only what was executed. Connections, messages, batches and restarts do
not exist here. It shows what is not promised as well: a local transaction may hold a
part of a publisher's transaction, a change may be executed again, and a position may be
confirmed before it is durable. `ReceiverRaw` maps `xact`, `db`, `aborted` and the
slot's position to it (`ImplementsReplica`).

### LwlockTest (`lwlock_test.c`)

One process per backend. LWLockWaitForVar is split into its reading of the lock, its
reading of the variable and its sleep; LWLockReleaseClearVar into clearing and
releasing: these are the points where the other backend can step in. The model has one
updater and one waiter, as the README of the module prescribes.

### BgWorkers (`hello_*.c`, `count_relations.c`, `kill_idle.c`, `receiver_raw.c`)

The six workers have the same shape and differ in the predicates at the top of the
module. `sighup_handler` and `sigterm_handler` may run between any two steps. The one
reloadable parameter of a worker is its `loaded` value; `query` lists the values that
the text in its buffer was built with, so that a well-formed query has length 1.
`idle` is what `pg_stat_activity` shows, which `kill_idle` acts on. A batch of
`receiver_raw`, the matter of `ReceiverRaw`, is one query here, followed by its `select()`
on the socket (`Select`), a second sleep of a second or more that the latch does not end;
`StreamEnds` is its exit with status 0 when the publisher ends the stream.

### DecoderRaw (`decoder_raw.c`)

A publisher changes one table (a bag of rows with a key column and a column that can
be null or out of line), its replica identity and its key; each committed transaction
is decoded change by change. A statement is the columns it sets and the conjuncts of
its WHERE clause; literals are the values they denote. The subscriber executes each
statement as the callback writes it and confirms a transaction with its commit. A
session can end between any two callbacks; the transaction is then decoded again.
Assumptions: decoding sees the table's identity as of the change (historic snapshot),
the subscriber has no constraints of its own, no one else writes there.

### WalUtils, ArchiveReader, WalSession (`wal_utils.c`)

`WalUtils`: a behaviour is one call; lines of a history file are parsed one by one, then
arguments are checked and segments listed one per step. LSNs are numbers modulo
`LsnSpace`, segments have `SegSize` bytes. `Archived` says which segments an archive
holds per timeline: complete ones, and for the target the one in progress (`.partial`
files of abandoned timelines do not count: no one replays them).

`ArchiveReader`: a client asks for the size of a file and copies it in chunks of any
length, or reads its tail, while the archive command creates, appends to, overwrites and
removes it. Names lead to inodes; an open file keeps its inode. `fread` takes a byte at a
time, so that a writer can step in. The code of `archive_get_data` that would read the
whole file for a negative length (as the comment above it says) is never reached: a
negative length was refused before. `WalSession` joins the two, one or the other per
behaviour.

### Pgmpc (`pgmpc.c`)

Sessions call functions; each goes through connect, read of the status, command. Every
exchange with mpd may fail, before or after the server acted, and an error of PostgreSQL
may leave a listing or `pgmpc_status` half-way, past all cleanup (`ErrorEscapes`). `conns`
and `stats` count the connections and statuses a session has not freed, whether `mpd_conn`
and `mpd_status` still point to them or not. Of the server only the four modes are kept.

### WalLog, SignalRmgr, PageWal, WalBlocks, Recovery

`WalLog` (external throughout) is a primary and a standby as the extensions see them: the
log and how much of it is on disk, pages of one relation in memory and on disk, the free
space map, where recovery starts, signals pending at the postmaster. A crash keeps what
is flushed. A checkpoint is one step that writes all pages at a moment when no writer
holds one; a restartpoint happens at a checkpoint of the primary that was replayed.

`SignalRmgr`: `signal_rmgr` inserts a record, not flushed; `signal_rmgr_redo` makes a
signal pending at the postmaster of the server that replays, primary or standby, which
reloads, stops or dies later. `kill()` of a checked signal by a process of the same user
fails only when there is no postmaster left; the WARNING changes no state, and the startup
process is about to end too. SIGTERM is a smart shutdown, which lets the clients of a hot
standby finish: replay goes on meanwhile, and the wait is a delay of `PostmasterStop`.

`PageWal`: `pg_swap_pages` takes two share locks in the order of its arguments, copies
the pages one after the other (`Register`, `Register2`), writes the copies back and inserts
the record, each a step of its own since
share locks stop neither another swap nor the writing out of a page. Ordinary writers
(external) take exclusive locks in ascending order and change page and log in one step.
A page carries its origin and the number of times it was written. `custom_wal` is a loop
of insertions and a flush; with no record asked for, the position it flushes is an
uninitialized variable and may be anything, including past the end (an ERROR).
`pg_truncate_fsm` runs under an exclusive lock and is one step; the map on the running
primary loses only the entries of its last page, since the new size is not used. A
relation of a wrong kind is an ERROR that changes nothing; one that needs no WAL is not
on a standby, and not in the model.

`WalBlocks`: the tool reads the records of one segment file as far as they are on disk;
records take one unit of the segment or two, so that some cross its end.

`Recovery` puts them together; `MCRecovery` says which extensions are in use at once.

### JsonLog, Hooks, Preload

`JsonLog`: sessions and the collector emit messages; the hook tests the level, picks the
pipe, the console or the file, and leaves chunks that go into the pipe one at a time,
when there is room. An entry is its number within its process and takes one chunk or two.
On the console an entry may be cut or mixed with others, and then is not counted as in the
log. `unheard` has the processes a message of which the early return of `jsonlog` kept from
the hooks before it.
The collector (external) puts entries together by process.

`Hooks`: each hook point is a chain of libraries in the order of loading, with the
server's own code at its end; a session is at one library of one chain at a time and
takes a step there. `other` stands for any library that hooks every point and passes on.
Statements are DROP DATABASE, TRUNCATE, INSERT, SELECT, object changes, passwords and DO
blocks; table locks, commits and snapshots are modelled as far as TRUNCATE against INSERT
needs them. The DELETE of a converted TRUNCATE may fail (`trunc2del_fails`); it takes in
the children of its relation with TRUNCATE ONLY too, but the relations here have none. A
PANIC ends all sessions for good.

`Preload` composes the two: what a hook reports goes through `jsonlog` before its session
goes on.

## 3. Runs

All bounds are constants of the modules with names starting with `Max`.

| Run | What it shows | Bounds, and why they are enough |
|---|---|---|
| `receiver` | `ConfirmedWasExecuted`: what the slot forgets was run by the worker. `SessionInOrder`: order, no gap, no repetition per connection. `LossOnlyByAbort`. `CommittedIsExecuted` (liveness). `ImplementsReplica` (refinement). | 2 transactions, 4 records: two transactions of a change and a commit in every interleaving, or one of three changes; 2 messages in flight so that a batch can be cut; a keepalive; a failure and restart. |
| `receiver_lost` | violated: see findings | same |
| `lwlock` | `NoOvercount`, `PingPong`, and liveness `UpdateReturns`, `WaitReturns` | 2 calls of each function with 0 to 2 loops: a second call meets what the first left behind. |
| `workers` | `NoNapOnSignal`, `FreshConfig`, `KillQueryCurrent`, liveness `SigtermLeaves` | each worker alone with 2 reloads (the second can fall in the gap of the first) and kill_idle with hello_notify and with receiver_raw, the two it may terminate, with 1; a failing query |
| `workers_notify` | violated: see findings | same |
| `decoder` | `InSync`, `FailsOnlyOnIndex` | 2 keys, values plain, out of line and null; 3 changes in transactions of up to 2; a DDL; a session that is cut and one more: insert, change, and a re-decoding, with every replica identity |
| `decoder_full` | violated: see findings | FULL alone |
| `wal_utils` | `ReachesInside`, `ListConsecutive`, and in `TypeOK` the unsigned width; `CopyIsFile` | segments of 3 bytes, 4 segments, 3 timelines: two switches in one segment, in neighbours, at and off boundaries; a file of up to 3 bytes written 3 times: up to three chunks, with a replacement and an overwriting in between |
| `wal_utils_boundary` | violated: see findings | same, fewer LSNs |
| `pgmpc` | `NoLeak`, `TogglesCount`, and in `TypeOK` no dangling `mpd_conn` | 2 sessions, 6 calls of one function of each kind, 2 failures, 2 escaping errors |
| `recovery` | `SwapLosesNothing`, `StandbyAgrees`, `DeadlockNeedsDescending`, `CustomWalDurable`, `BlocksReported`; liveness `RecoversUnlessAsked`, `StandbyObeys` | 2 blocks, 2 sessions, 1 crash of either server; up to 3 records (a signal, one before and one after it; two calls of `custom_wal` interleaved), 2 for swaps: two swaps, or a swap and a write, overlap in every way; segments of 2 units, so that a record can cross; 6 map entries on 2 pages |
| `preload` | `Guarded`, `TruncateEmpties`, `OtherSees`, `LogFaithful`; liveness `EntriesReachLog` | 2 sessions; every order of the libraries of a hook point and `other`; 3 statements for TRUNCATE against INSERT, 2 for the log, 1 where sessions do not meet; lengths, classes and kinds of passwords on both sides of each limit; a pipe of one chunk, so that it fills up; each level, destination and redirection |

Deadlock is not checked: all systems here may come to rest (worker gone, bounds used
up, call finished).

Symmetry is used for keys (`decoder`) and sessions (`pgmpc`), in runs without liveness.

### Fairness

- `receiver`: weak fairness of the worker's steps, of decoding and sending by the
  walsender, and of `Start` (the postmaster restarts a worker that exited with 1 after
  `bgw_restart_time`). None for keepalives, signals, the publisher or failures.
- `lwlock`: weak fairness of the steps inside a call, per backend; nobody owes a call.
- `workers`: weak fairness of each worker's steps (a nap has a timeout, and so has the
  select of `receiver_raw`), of signal
  delivery and of restarts.
- `recovery`: weak fairness of replay and of the postmasters' handling of signals (clients
  of a standby that hold up a smart shutdown leave in the end). None
  for starting a server, flushing, or the calls of sessions.
- `preload`: weak fairness of the collector's reads and of each process writing what it
  has to say (a blocked write goes on when there is room). None for statements.
- The others check safety only.

## 4. Findings

- `receiver_lost`: a keepalive answered inside a batch confirms changes of the still
  open local transaction as flushed and applied; if that aborts they are never sent
  again. `LossOnlyByAbort` shows that this is the only way to lose a change.
- `workers_notify`: `hello_notify` appends its query to the old one on SIGHUP.
- `decoder_full`: REPLICA IDENTITY FULL does not identify rows with nulls or twins.
  `InSync` shows that everything outside `Inexpressible` is reproduced.
- `wal_utils_boundary`: a switch exactly at a segment boundary lists a file that does
  not exist. `ReachesInside` shows that the list is right otherwise.

Also seen. These are exceptions spelled out in a passing property, which therefore does
not catch them but shows that nothing else goes wrong; no document promises the contrary
except where one is named. The gap
between ProcessConfigFile and the clearing of `got_sighup` (`FreshConfig`); the select of `receiver_raw`, which sleeps on a signal that came after the
flags were looked at (`NoNapOnSignal` is about the nap that follows); the lost
toggle of two sessions, or of a reply (`TogglesCount`); a connection or a status that an
error of PostgreSQL leaves behind, against the assertion in `pgmpc_init` (`NoLeak` allows
one for each); `pgmpc_add`, whose `pgmpc_init` is the body of
the `if` before it (`AddCrashes`); a dropped replica identity index and INCLUDE columns
(`FailsOnlyOnIndex`; the assertions at decoder_raw.c:300 and :402 hold them impossible); a
transaction cut without `include_transaction` and applied twice (`InSync`); a second `lwlock_test_wait` that deadlocks with an update in
progress (`UpdateReturns`); the clearing of `updater_var` by `lwlock_test_release`, which
a waiter counts as one more update (`NoOvercount` is an upper bound that includes it; lwlock_test/README:25-26, about two
backends that loop equally often and release nothing, is not at odds with it); pages lost or doubled when swaps of one page overlap, or
when a page is written out in the middle of one before a crash, both let through by
BUFFER_LOCK_SHARE (`exposed` in `SwapLosesNothing` and `StandbyAgrees`); a deadlock of
buffer locks when the blocks are given in descending order (`DeadlockNeedsDescending`);
free space map pages past the end that `pg_truncate_fsm` leaves on the primary and cuts
on a standby (`StandbyAgrees` allows the primary more; pg_fix_truncation/README:12-13 says
that the map is truncated "to its right size"); a server that stops at each start
until a checkpoint is past a record of `signal_rmgr` (`RecoversUnlessAsked`); rows that a
converted TRUNCATE leaves under REPEATABLE READ, and its other relations, which are not
touched (`TruncateEmpties`); statements that a library hides from those loaded before it
(`Withheld` in `OtherSees`); an entry cut by the death of its process (`torn` in
`LogFaithful`).

Outside the model: `pgmpc_print_error` prints a message owned by the connection it has
just freed; `pg_overflow_check` maps `int64` to 32 bits.

## 5. Proofs

Each component's theorems are in a module of their own that extends it; a theorem holds
for all values of the constants that satisfy the assumptions next to their declarations:

- bounds are naturals; `SyncModes` is a set of Booleans; `Functions` are functions of
  `pgmpc`; there is a parameter value and a block; the blocks of a relation are
  finitely many, and they and the entries of its map are numbers from 0 on;
- `WalUtils`: a segment has a byte or more, the width of an LSN is a whole number of
  segments with room for one more after the last LSN, there is a timeline (in the last of
  the 2^40 segments of 16 MB the loop of `wal_utils.c:399` would wrap around: a server
  would have to write 16 exabytes to get there);
- `DecoderRaw`: the sets of keys and values are finite and the plain, out of line, null
  and unchanged values differ, as they do in a tuple; an index identity comes with an
  index;
- `Preload`: a library is listed once in `shared_preload_libraries`; `log_min_messages` is
  one of the levels of its enumeration; a TRUNCATE and an INSERT have a relation; the
  collector is not one of the sessions.

No bound matters: the theorems hold for any number of transactions, sessions, calls,
blocks, signals, failures and crashes.

Every proof has the same plan. The property is strengthened to an inductive invariant
`IInv`; one lemma per action shows that its step keeps `IInv`, where possible part by
part; the theorem combines them. What the strengthening has to say, and why, is the
argument for the code:

### ReceiverRaw

`ReceiverRaw_proofs`: `TypeCorrect`, `ConfirmedWasExecutedTheorem`,
`LossOnlyByAbortTheorem`, `SessionOrdered`, `Refinement`. `ConfirmedWasExecuted` is not inductive: the slot's position
comes from a reply, which came from the worker's position, which came from a message,
which came from `sentPtr`. `IInv` therefore says at each of these places that all changes
before the position are executed or still on their way ahead of it: `SentCovered` (all
before `sentPtr` is executed, in flight or pending), `ChanCovered` (all before the
position in message n is executed or in the messages before n), `WorkerCovered` (the
worker's position, the reply and the slot), together with the shape of the WAL
(`WalOK`: nothing of a transaction follows its commit), of the channel
(`ChanBounded`), of the transaction being decoded (`DecodingOK`) and of the batch
(`BatchOK`: a local transaction is open only inside a batch). `QuietStep` and `LocalStep`
deal with the actions that move no position. `LossOnlyByAbort` follows because without
aborts everything executed is in `db` or in `xact`.

`SessionOrdered` (`SessionInOrder`) needs the past of the connection: `InTurn` says of a
change that what was executed before it is what has committed since the start of the
connection before its transaction (`Due`) and the changes of its own transaction before
it. It holds of what was executed and of what is in flight (`ExecutedInTurn`,
`SentInTurn`), and `SentIsDue` ties both to `sentPtr`. All three are about a standing
connection only: after a failure what was in flight is gone, and the next one starts at
the slot's position again.

`Refinement` is `Spec => ImplementsReplica`. Every step of the
worker maps to a step of `Replica` or to a stutter. Most actions move none of the mapped
variables. `SlotConfirm` maps to `Confirm`, by `IInv`. `RecvChange` maps to `Execute`,
which needs one more inductive fact, `ChanReady`: each change in a message on its way is
the next one in commit order once those in the messages before it are executed or on
their way. The walsender keeps it because it sends the changes of one transaction in
order (`DecodingOK`) when all before `sentPtr` has been executed or sent (`SentCovered`),
which holds after a reconnection too. The batch's end maps to `CommitLocal` (and a
failure to `AbortLocal`), in the same step as the change of `pc`.

### BgWorkers

`TypeCorrect`, `NoNap` (`NoNapOnSignal`), `ConfigFresh` (`FreshConfig`), `KillQuery`
(`KillQueryCurrent`), and `NotifyLosesNothing`, which no run states: `hello_notify` has no
exception to `FreshConfig`, because it clears the flag before it reloads. A signal sets
flag and latch, and ResetLatch clears the latch alone. What saves the flag is that the
loop comes past its check before the next nap: `LatchOrAhead` says where a worker may be
with a flag set and the latch clear. `Announced` says the same of a configuration that is
not loaded: its SIGHUP is under way, flagged, or being handled, or was lost in the gap
(`raced`). `KillBuffer` carries the query through the steps where it is not run.

### LwlockTest

`TypeCorrect`, `CountBounded` (`NoOvercount`), `InStep` (`PingPong`). The count compares
what the waiter has done with what was sent, but a change it has seen and not yet counted,
and one it can still see, will be counted too: `ChangesCounted` adds these two, and holds
at each of the points where the other backend steps in. `Game` is the state of play while
both loop: each side waits for a value one past the last it saw.

### Pgmpc

`TypeCorrect`, `ConnectionsFreed` (`NoLeak`), `SwitchesCount` (`TogglesCount`).
`ConnsOwed` counts connections inside a call as well, where one more is open than escaped
errors account for; `StatusHeld` does the same for statuses. `TogglesCount`
needs `StatusCurrent`: what a session is about to switch is as it read it, unless the mode
is in doubt.

### WalSession

`TypeCorrect`, `ListsEverySegment` (`ListConsecutive`), `ListReaches` (`ReachesInside`),
`CopyFaithful` (`CopyIsFile`). For the list, `Loop` is the loop invariant of
`archive_build_segment_list`: it stands at the end of the segment it lists next, past all
timelines left behind, and each segment so far ends inside the timeline it is listed for
(`Segment`); `Chained`, `TliOrder` and `EndsBounded` are what parsing guarantees of the
history. The arithmetic of segments (quotients, remainders and their monotonicity) is in
lemmas. No LSN passes the width, which is part of the type. For the copy, `SameFile` says
that the open file is the one whose size was read as long as it has only grown,
`CopyGrows` that each call goes on where the one before stopped and that what was copied
is a prefix of it, `TailRead` that a read from the end finds all it asks for.

### DecoderRaw

`TypeCorrect`, `SubscriberFollows` (`InSync`), `StopsOnlyOnIndex` (`FailsOnlyOnIndex`).
A table is a bag of rows, and a statement changes every row its WHERE clause finds. That
the right ones are found is settled when the change is made, from `KeyUnique` (a key
identifies at most one row of the publisher), and recorded in `QueueSound` and `OpenSound`:
each change waiting to be decoded was made to the table that the changes before it left,
and its statement, run there, does the same unless it is inexpressible. `Position` says
where a session may be in the first of these transactions. Rows
are counted with sums over finite sets; what these sums do when one row or all the rows of
a key move is proved by induction over sets of numbers, which needs no operator parameter.

### Recovery

`TypeCorrect`, `SwapsLoseNothing` (`SwapLosesNothing`), `StandbyInStep` (`StandbyAgrees`),
`DeadlockOnlyDescending` (`DeadlockNeedsDescending`), `CustomDurable`
(`CustomWalDurable`), `BlocksAllReported` (`BlocksReported`). `Shows(log, blk, n, v)` says without recursion that `v` is the
content of a block after n records. With it: a page on disk is as some record between the
start of recovery and the flushed end left it (`DiskKnown`), so that replaying older
records over newer pages ends at the right one (`RecoveryAhead`); a page of a running
primary is as the log left it unless a swap is about to log it (`UpCurrent`), and the
write-ahead rule keeps that true on disk; the copies of a swap in progress are the pages
of the log exchanged (`SwapCurrent`), since no two swaps touch one block (`SwapsApart`);
and after each record every page is in some block (`Permuted`). These hold until pages
are `exposed`, which is the exception the properties spell out. `LocksExclude` gives the
deadlock theorem, `CustomShape` counts the records of a call in progress, `MapShape`
relates the two free space maps. `signal_rmgr` logs no signal that its redo refuses
(`LogShape`), so that no recovery fails (`TypeCorrect`).

For `pg_wal_blocks`, `ToolInv` stands on the invariant of the servers. The position of a
record is the sum of the sizes of those before it, a recursive function: that it exists,
is the only one, depends on those records alone and grows is proved by induction over sets
of numbers (`EndExists`, `EndUnique`, `EndSame`, `EndGrows`). What is on disk of the log is
never taken back (`DiskKept`, action by action), and all of a full segment is on disk, so
that a record logged later, or again after a crash, lies behind it (`SettlesOn`). The tool
started at the first record that starts in the segment (`Reading`) and stopped at the
first that ends after it (`Ended`): between them are the records that lie whole in it.

### Preload

`PreloadTypes` (`TypeOK`), `PreloadGuarded` (`Guarded`), `PreloadTruncateEmpties`,
`PreloadOtherSees`, `PreloadLogFaithful`, for every list of libraries in every order. Two
invariants. `HInv` is about the hooks. `ChainsShape` says what `_PG_init` builds: a hook
variable names the last library loaded that hooks the point, and each library that saves
the hook has the one before it, so that a chain has no gap (`EnterChain`, `NextInChain`).
A session moves down a chain, and `NoWayRound` says that the libraries that refuse, take
over or keep its statement are still ahead of it; `SeenSoFar` says at which points
"other", wherever it stands, has been called already. Four lemmas are the moves there
are: `PassedOn` to the next library, `LeftChain` past those that do not call the one
before, `Entered` into a chain, `Finished` at the end of the last. For `TruncateEmpties`
the locks count (`Locked`, `LocksExclude`): an INSERT that commits has its lock, so no
TRUNCATE has the relation.

`JInv` is about the log. That an entry is never lost or torn needs the framing of the pipe:
`Framed` says that the chunk after an open one of the same process, in the pipe or still to
be written, completes it, although processes write in turn; `UnsentShape`, `PipeUsers` and
`TornSilent` say who has what to write. `FileInOrder`, `PipeInOrder` and `Accounted` number
the entries by places in the file and in the pipe. `SameTest` is the fact about
`is_log_level_output` on which the count rests: what the server lets through to the hook,
for every level reported here and every setting, `jsonlog` does not hold back; no hook
before it misses a message for that reason either (`unheard`).

### Only model-checked

All liveness properties and the properties under fairness (`CommittedIsExecuted`,
`UpdateReturns`, `WaitReturns`, `SigtermLeaves`, `RecoversUnlessAsked`, `StandbyObeys`,
`EntriesReachLog`), which are outside the reach of the proof system used.

## 6. Not modelled

Wording, the text of log entries, quoting of literals and identifiers, the wire format of
messages; memory contexts and limits of allocation; PostgreSQL itself, except as the
environment. The parts listed as not modelled in `PROJECT.json` keep no state and have no
interleavings of their own: `blackhole_am` and its kin do nothing in every callback;
`overflow`, `compress_test`, `mcxtalloc_test`, `scram_utils`, `hmac_funcs`,
`pg_sasl_prepare`, `pg_statvfs` and `pg_rusage` call one routine of PostgreSQL, OpenSSL or the
kernel per function, and a model would restate that routine; `hint_parser` is a grammar;
`pg_mark_glibc` one sequential check; the rest scripts and examples.

## 7. Plan

Every invariant and action property that a run checks is also proved; what stays with TLC
is listed at the end of section 5. What is left is to narrow the assumptions where a
proof does not use all of them.

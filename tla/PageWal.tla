------------------------------ MODULE PageWal ------------------------------
(***************************************************************************)
(* The SQL functions that write WAL on the primary, run by concurrent      *)
(* sessions: pg_swap_pages/pg_swap_pages.c, custom_wal/custom_wal.c and    *)
(* pg_fix_truncation/pg_fix_truncation.c, with ordinary writers of the     *)
(* relation (external) that lock their blocks in ascending order.          *)
(*                                                                         *)
(* pg_swap_pages holds share locks on its two buffers while it changes     *)
(* them.  GenericXLogFinish is the steps it takes: each page is written    *)
(* back to its buffer, then the record is made from the buffers.           *)
(***************************************************************************)
EXTENDS WalLog, Functions

CONSTANTS
  Sessions,     \* backends of the primary
  MaxCalls      \* bound: calls of custom_wal

ASSUME PageWalAssumption == MaxCalls \in Nat

VARIABLES
  op,       \* op[b]: the call session b is in
  lsn,      \* lsn[blk]: last record that covers the page in memory
  calls,    \* calls of custom_wal: records asked for, and whether it returned
  exposed   \* history: a page was swapped, or written out, in the middle of a swap

pageVars == <<op, lsn, calls, exposed>>

\* A call: its kind and phase, the blocks in the order of locking and, of a swap, as
\* asked for, the copied pages, the records left to insert, the call of custom_wal
\* and the position of its last record.
NoOp == [kind |-> "none", phase |-> "none", first |-> 0, second |-> 0, asked |-> <<>>,
         copy |-> <<>>, left |-> 0, call |-> 0, lsn |-> 0]

PageInit ==
  /\ op = [b \in Sessions |-> NoOp] /\ lsn = [blk \in Blocks |-> 0]
  /\ calls = <<>> /\ exposed = FALSE

\* There is room in the bound for n more records.
Due(b) == op[b].left
Room(n) == Len(wal) + MapThenSumSet(Due, Sessions) + n <= MaxWal[loaded]

Begin(b, call) ==
  /\ status["primary"] = "up" /\ op[b] = NoOp
  /\ op' = [op EXCEPT ![b] = call]

Step(b, phase) == status["primary"] = "up" /\ op[b].phase = phase

End(b) == op' = [op EXCEPT ![b] = NoOp]

-----------------------------------------------------------------------------
(* Buffer locks.                                                           *)

Mine(b) == {op[b].first, op[b].second}

Holds(b, blk) ==
  /\ op[b].kind \in {"swap", "write"}
  /\ \/ op[b].phase # "lock1" /\ blk = op[b].first
     \/ op[b].phase \notin {"lock1", "lock2"} /\ blk = op[b].second

\* Session c keeps b from locking blk.
Excludes(c, b, blk) == c # b /\ Holds(c, blk) /\ "write" \in {op[b].kind, op[c].kind}

\* The block that b asks for next.
Wanted(b) ==
  CASE op[b].phase = "lock1" -> {op[b].first}
    [] op[b].phase = "lock2" -> {op[b].second}
    [] OTHER -> {}

Waits(b, c) == \E blk \in Wanted(b) : Excludes(c, b, blk)

LockBuffer(b) ==
  /\ \E phase \in {"lock1", "lock2"} :
       /\ Step(b, phase)
       /\ op' = [op EXCEPT ![b].phase = IF phase = "lock1" THEN "lock2" ELSE "register"]
  /\ \A c \in Sessions : ~Waits(b, c)
  /\ UNCHANGED <<logVars, lsn, calls, exposed>>

-----------------------------------------------------------------------------
(* pg_swap_pages.                                                          *)

\* Mutant: the second buffer is locked first.
pg_swap_pages_reversed(b, blkno1, blkno2) ==
  /\ "pg_swap_pages" \in loaded /\ {blkno1, blkno2} \subseteq Blocks /\ Room(1)
  /\ Begin(b, [NoOp EXCEPT !.kind = "swap", !.phase = "lock1", !.left = 1,
                           !.first = blkno2, !.second = blkno1, !.asked = <<blkno1, blkno2>>])
  /\ UNCHANGED <<logVars, lsn, calls, exposed>>

\* A block past the end of the relation is an ERROR.
pg_swap_pages(b, blkno1, blkno2) ==
  /\ "pg_swap_pages" \in loaded /\ {blkno1, blkno2} \subseteq Blocks /\ Room(1)
  /\ Begin(b, [NoOp EXCEPT !.kind = "swap", !.phase = "lock1", !.left = 1,
                           !.first = blkno1, !.second = blkno2, !.asked = <<blkno1, blkno2>>])
  /\ UNCHANGED <<logVars, lsn, calls, exposed>>

\* Another swap that is copying pages or has not logged them yet has a page of b's.
Overlaps(b) ==
  \E c \in Sessions \ {b} :
    /\ op[c].kind = "swap" /\ op[c].phase \in {"register2", "apply1", "apply2", "insert"}
    /\ Mine(b) \cap Mine(c) # {}

\* A page with the LSN in its header.
PageOf(blk) == [content |-> pages["primary"][blk], lsn |-> lsn[blk]]

\* GenericXLogRegisterBuffer copies the pages one after the other, memcpy exchanges
\* the copies; a buffer given twice is registered once.
Register(b) ==
  /\ Step(b, "register") /\ op[b].kind = "swap"
  /\ op' = [op EXCEPT ![b].phase = "register2",
                      ![b].copy = [blk \in Mine(b) |-> PageOf(op[b].first)]]
  /\ exposed' = (exposed \/ Overlaps(b))
  /\ UNCHANGED <<logVars, lsn, calls>>

Register2(b) ==
  /\ Step(b, "register2")
  /\ op' = [op EXCEPT ![b].phase = "apply1",
                      ![b].copy[op[b].first] =
                        IF op[b].second = op[b].first THEN @ ELSE PageOf(op[b].second)]
  /\ UNCHANGED <<logVars, lsn, calls, exposed>>

\* Mutant: the first page was overwritten before it was copied.
SwapCopyOverwrites(b, blk) == op[b].copy[op[b].first]

SwapCopy(b, blk) == op[b].copy[blk]

Apply(b) ==
  \E phase \in {"apply1", "apply2"} :
    LET blk == IF phase = "apply1" THEN op[b].first ELSE op[b].second
    IN /\ Step(b, phase)
       /\ pages' = [pages EXCEPT !["primary"][blk] = SwapCopy(b, blk).content]
       /\ lsn' = [lsn EXCEPT ![blk] = SwapCopy(b, blk).lsn]
       /\ op' = [op EXCEPT ![b].phase = IF phase = "apply1" THEN "apply2" ELSE "insert"]
       /\ UNCHANGED <<loaded, wal, flushed, status, redo, replayed, disk, fsm, pending, crashes,
                      calls, exposed>>

InsertImage(blks, content) ==
  /\ wal' = Append(wal, [Record("image") EXCEPT !.image = Restrict(content, blks)])
  /\ lsn' = [blk \in Blocks |-> IF blk \in blks THEN Len(wal') ELSE lsn[blk]]

\* Mutant: only the first page is logged.
SwapLoggedFirst(b) == {op[b].first}

SwapLogged(b) == Mine(b)

SwapInsert(b) ==
  /\ Step(b, "insert")
  /\ InsertImage(SwapLogged(b), pages["primary"])
  /\ End(b)
  /\ UNCHANGED <<loaded, flushed, status, redo, replayed, pages, disk, fsm, pending, crashes,
                 calls, exposed>>

-----------------------------------------------------------------------------
(* An ordinary writer, exclusive on its blocks until it has logged them.   *)

WriteBegin(b, lo, hi) ==
  /\ loaded \cap {"pg_swap_pages", "pg_wal_blocks"} # {} /\ lo <= hi /\ Room(1)
  /\ Begin(b, [NoOp EXCEPT !.kind = "write", !.phase = "lock1", !.left = 1,
                           !.first = lo, !.second = hi])
  /\ UNCHANGED <<logVars, lsn, calls, exposed>>

Write(b) ==
  /\ Step(b, "register") /\ op[b].kind = "write"
  /\ pages' = [pages EXCEPT !["primary"] =
       [blk \in Blocks |-> IF blk \in Mine(b) THEN <<@[blk][1], @[blk][2] + 1>> ELSE @[blk]]]
  /\ InsertImage(Mine(b), pages'["primary"])
  /\ End(b)
  /\ UNCHANGED <<loaded, flushed, status, redo, replayed, disk, fsm, pending, crashes, calls, exposed>>

\* The page has changes of a swap that is not logged yet.
Unlogged(blk) ==
  \E b \in Sessions :
    /\ op[b].kind = "swap"
    /\ \/ op[b].phase = "apply2" /\ blk = op[b].first
       \/ op[b].phase = "insert" /\ blk \in Mine(b)

\* A page is written out under a share lock, after the log up to its LSN.
Writable(blk) == \A b \in Sessions : op[b].kind = "write" => ~Holds(b, blk)

PageWrite(blk) ==
  /\ status["primary"] = "up" /\ Writable(blk) /\ disk["primary"][blk] # pages["primary"][blk]
  /\ disk' = [disk EXCEPT !["primary"][blk] = pages["primary"][blk]]
  /\ flushed' = Max({flushed, lsn[blk]})
  /\ exposed' = (exposed \/ Unlogged(blk))
  /\ UNCHANGED <<loaded, wal, status, redo, replayed, pages, fsm, pending, crashes, op, lsn, calls>>

-----------------------------------------------------------------------------
(* custom_wal.                                                             *)

custom_wal(b, record_number) ==
  /\ "custom_wal" \in loaded /\ Len(calls) < MaxCalls /\ Room(record_number)
  /\ Begin(b, [NoOp EXCEPT !.kind = "custom", !.phase = "loop", !.left = record_number,
                           !.call = Len(calls) + 1])
  /\ calls' = Append(calls, [number |-> record_number, returned |-> FALSE])
  /\ UNCHANGED <<logVars, lsn, exposed>>

LogLogicalMessage(b) ==
  /\ Step(b, "loop") /\ op[b].left > 0
  /\ wal' = Append(wal, [Record("message") EXCEPT !.call = op[b].call])
  /\ op' = [op EXCEPT ![b].left = @ - 1, ![b].lsn = Len(wal')]
  /\ UNCHANGED <<loaded, flushed, status, redo, replayed, pages, disk, fsm, pending, crashes,
                 lsn, calls, exposed>>

\* Mutant: the position before the last record.
FlushPositionsShort(b) == {op[b].lsn - 1}

\* The position is not initialized if no record was asked for.
FlushPositions(b) == IF calls[op[b].call].number > 0 THEN {op[b].lsn} ELSE 0..(Len(wal) + 1)

\* XLogFlush, and the function returns; a position past the end of the log is an
\* ERROR, after what there is has been flushed.
CustomFlush(b) ==
  /\ Step(b, "loop") /\ op[b].left = 0
  /\ \E position \in FlushPositions(b) :
       /\ flushed' = Max({flushed, Min({position, Len(wal)})})
       /\ calls' = [calls EXCEPT ![op[b].call].returned = position <= Len(wal)]
  /\ End(b)
  /\ UNCHANGED <<loaded, wal, status, redo, replayed, pages, disk, fsm, pending, crashes, lsn, exposed>>

-----------------------------------------------------------------------------
(* pg_truncate_fsm, alone on the relation.                                 *)

\* The relation is one of the kinds allowed (another is an ERROR that changes nothing)
\* and permanent, so that RelationNeedsWAL holds: what is not logged a standby does not
\* have.  The truncation is logged; FreeSpaceMapPrepareTruncateRel clears the entries of
\* the last page, and the size it returns for the map is dropped.
pg_truncate_fsm(b) ==
  /\ "pg_fix_truncation" \in loaded /\ status["primary"] = "up" /\ Room(1)
  /\ \A c \in Sessions : op[c] = NoOp
  /\ wal' = Append(wal, Record("truncate_fsm"))
  /\ fsm' = [fsm EXCEPT !["primary"] = @ \ MapTail]
  /\ UNCHANGED <<loaded, flushed, status, redo, replayed, pages, disk, pending, crashes, pageVars>>

-----------------------------------------------------------------------------
PageNext ==
  \E b \in Sessions :
    \/ LockBuffer(b) \/ Register(b) \/ Register2(b) \/ Apply(b) \/ SwapInsert(b) \/ Write(b)
    \/ \E blk1, blk2 \in Blocks : pg_swap_pages(b, blk1, blk2) \/ WriteBegin(b, blk1, blk2)
    \/ \E n \in 0..2 : custom_wal(b, n)
    \/ LogLogicalMessage(b) \/ CustomFlush(b) \/ pg_truncate_fsm(b)
=============================================================================

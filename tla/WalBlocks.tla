----------------------------- MODULE WalBlocks -----------------------------
(***************************************************************************)
(* pg_wal_blocks/pg_wal_blocks.c: a tool that lists the blocks touched by  *)
(* the records of one WAL segment file, while the server may be writing to *)
(* it.  The reader of records (XLogReader, external) never gets further    *)
(* than the file: the tool opens the same file for every segment, and a    *)
(* page that is not where it says is refused.                              *)
(***************************************************************************)
EXTENDS WalLog

CONSTANTS
  SegSize   \* units of WAL in a segment; a record takes one, and one more for each page image after the first

ASSUME WalBlocksAssumption == SegSize \in Nat \ {0}

VARIABLES
  tool   \* the run of the tool: where it is, its segment, the next record, the output

NoTool == [pc |-> "none", seg |-> 0, at |-> 0, out |-> <<>>, sealed |-> FALSE]

ToolInit == tool = NoTool

Size(record) == Max({1, Cardinality(DOMAIN record.image)})
EndOf(i) == LET end[n \in 0..i] == IF n = 0 THEN 0 ELSE end[n - 1] + Size(wal[n]) IN end[i]
StartOf(i) == EndOf(i - 1)

\* The record is on disk and whole in the file of the segment.
Inside(i, seg) == StartOf(i) >= seg * SegSize /\ EndOf(i) <= (seg + 1) * SegSize
XLogReadRecord(i) == i <= flushed /\ Inside(i, tool.seg)

\* Mutant: the first record is looked for from the end of the one before the segment.
FirstRecordAny(seg) == {i \in 1..flushed : EndOf(i) > seg * SegSize}

\* XLogFindNextRecord skips the rest of a record of the segment before.
FirstRecord(seg) == {i \in 1..flushed : StartOf(i) >= seg * SegSize}

\* The arguments are checked, the file is opened, the first record is looked for.
do_wal_parsing(seg) ==
  /\ "pg_wal_blocks" \in loaded /\ tool.pc = "none" /\ seg * SegSize < EndOf(flushed)
  /\ LET first == FirstRecord(seg)
         found == first # {} /\ EndOf(Min(first)) <= (seg + 1) * SegSize
     IN tool' = [pc |-> IF found THEN "read" ELSE "failed", seg |-> seg, out |-> <<>>,
                 at |-> IF found THEN Min(first) ELSE 0,
                 sealed |-> EndOf(flushed) >= (seg + 1) * SegSize]
  /\ UNCHANGED logVars

\* The blocks of the main fork; a record without any prints nothing.
extract_block_info(record) == DOMAIN record.image

ReadRecord ==
  /\ tool.pc = "read" /\ XLogReadRecord(tool.at)
  /\ tool' = [tool EXCEPT !.at = @ + 1, !.out = Append(@, extract_block_info(wal[tool.at]))]
  /\ UNCHANGED logVars

\* No record: the loop is left without a message, exit 0.
ReadDone ==
  /\ tool.pc = "read" /\ ~XLogReadRecord(tool.at)
  /\ tool' = [tool EXCEPT !.pc = "end"]
  /\ UNCHANGED logVars

ToolNext == (\E seg \in 0..EndOf(flushed) : do_wal_parsing(seg)) \/ ReadRecord \/ ReadDone
=============================================================================

------------------------------ MODULE WalUtils ------------------------------
(***************************************************************************)
(* wal_utils/wal_utils.c: archive_parse_history, which parses a timeline   *)
(* history file, and archive_build_segment_list, which lists the WAL       *)
(* segments that take a standby from an origin to a target.                *)
(*                                                                         *)
(* A behaviour is one call: the lines of the file are read one by one, the *)
(* arguments are checked, and the loop over the timelines lists a segment  *)
(* at a time.  A line is what sscanf makes of it; a file name is the pair  *)
(* of its timeline and segment number.                                     *)
(***************************************************************************)
EXTENDS Integers, Sequences

CONSTANTS
  SegSize,     \* wal_segment_size
  LsnSpace,    \* number of LSNs the type can hold (2^64 in the code)
  MaxLsn,      \* bound: LSNs of the history file and of the arguments
  MaxTli,      \* bound: timelines
  MaxEntries   \* bound: entries of the history file

ASSUME ConstantsAssumption ==
  /\ SegSize \in Nat \ {0} /\ LsnSpace \in Nat /\ MaxLsn \in Nat
  /\ MaxTli \in Nat \ {0} /\ MaxEntries \in Nat
  /\ LsnSpace % SegSize = 0 /\ MaxLsn + SegSize < LsnSpace

VARIABLES
  pc,       \* "parse", "list", "done" or "error"
  entries,  \* parsed timelines, then the target too
  args,     \* arguments of the call; history: whether a file was given
  at,       \* entry the loop is at
  current,  \* current_seg_lsn
  list      \* result

vars == <<pc, entries, args, at, current, list>>

Lsns == 0..MaxLsn
Tlis == 1..MaxTli
Entries == [tli : Tlis, begin : Lsns, end : Lsns]
Args == [history : BOOLEAN, origin_tli : Tlis, origin_lsn : Lsns,
         target_tli : Tlis, target_lsn : Lsns]
NoArgs == [history |-> FALSE, origin_tli |-> 1, origin_lsn |-> 0, target_tli |-> 1, target_lsn |-> 0]

\* Segment numbers; XLByteToPrevSeg is that of the byte before, modulo the width.
Seg(lsn) == lsn \div SegSize
\* (Mutant: without the width.)
XLByteToPrevSegSigned(lsn) == (lsn - 1) \div SegSize
XLByteToPrevSeg(lsn) == ((lsn - 1) % LsnSpace) \div SegSize

\* Start of the segment after the one that holds lsn.
NextSegment(lsn) == ((lsn + SegSize) % LsnSpace) - ((lsn + SegSize) % SegSize)

Init ==
  /\ pc = "parse" /\ entries = <<>> /\ args = NoArgs
  /\ at = 1 /\ current = 0 /\ list = <<>>

\* An ERROR: nothing is returned.
Raise ==
  /\ pc' = "error" /\ entries' = <<>> /\ args' = NoArgs
  /\ at' = 1 /\ current' = 0 /\ list' = <<>>

-----------------------------------------------------------------------------
(* parseTimeLineHistory.  Blank lines and comments are skipped.            *)

LastEntry == entries[Len(entries)]

ParseLine(tli, switchpoint) ==
  /\ pc = "parse" /\ Len(entries) < MaxEntries
  /\ IF entries # <<>> /\ tli <= LastEntry.tli
       THEN Raise
       ELSE /\ entries' = Append(entries, [tli |-> tli, end |-> switchpoint,
                 begin |-> IF entries = <<>> THEN 0 ELSE LastEntry.end])
            /\ UNCHANGED <<pc, args, at, current, list>>

\* No timeline, or no switchpoint.
ParseBadLine == pc = "parse" /\ Raise

\* archive_parse_history returns the entries.
archive_parse_history ==
  /\ pc = "parse" /\ pc' = "done"
  /\ UNCHANGED <<entries, args, at, current, list>>

-----------------------------------------------------------------------------
(* archive_build_segment_list.                                             *)

\* The entry that holds the origin (the first one, as in the loop).
Parents(a) ==
  {i \in DOMAIN entries : /\ entries[i].begin <= a.origin_lsn
                          /\ entries[i].end >= a.origin_lsn
                          /\ entries[i].tli = a.origin_tli}

ArgsOK(a) ==
  /\ a.origin_lsn <= a.target_lsn /\ a.origin_tli <= a.target_tli
  /\ IF a.history
       THEN /\ entries # <<>>
            /\ LastEntry.tli < a.target_tli /\ LastEntry.end <= a.target_lsn
            /\ Parents(a) # {}
       ELSE a.origin_tli = a.target_tli

\* The target is the last entry.  It begins where the parent of the origin ends.
CheckArgs(a) ==
  /\ pc = "parse" /\ (~a.history => entries = <<>>)
  /\ IF ~ArgsOK(a)
       THEN Raise
       ELSE /\ pc' = "list" /\ args' = a /\ at' = 1 /\ list' = <<>>
            /\ LET begin == IF a.history
                              THEN entries[CHOOSE i \in Parents(a) : \A j \in Parents(a) : i <= j].end
                              ELSE a.origin_lsn
               IN entries' = Append(entries, [tli |-> a.target_tli, begin |-> begin,
                                              end |-> a.target_lsn])
            /\ current' = NextSegment(a.origin_lsn)

\* Mutant: the end of the timeline is taken as part of it.
InEntryInclusive == current >= entries[at].begin /\ current <= entries[at].end

InEntry == current >= entries[at].begin /\ current < entries[at].end

ListSegment ==
  /\ pc = "list" /\ at <= Len(entries) /\ InEntry
  /\ list' = Append(list, <<entries[at].tli, XLByteToPrevSeg(current)>>)
  /\ current' = NextSegment(current)
  /\ UNCHANGED <<pc, entries, args, at>>

NextEntry ==
  /\ pc = "list" /\ at <= Len(entries) /\ ~InEntry
  /\ at' = at + 1
  /\ UNCHANGED <<pc, entries, args, current, list>>

\* Mutant: the segment that holds the target position rather than the last byte.
ListLastAfter ==
  /\ pc = "list" /\ at > Len(entries)
  /\ list' = Append(list, <<args.target_tli, Seg(args.target_lsn)>>)
  /\ pc' = "done"
  /\ UNCHANGED <<entries, args, at, current>>

ListLast ==
  /\ pc = "list" /\ at > Len(entries)
  /\ list' = Append(list, <<args.target_tli, XLByteToPrevSeg(args.target_lsn)>>)
  /\ pc' = "done"
  /\ UNCHANGED <<entries, args, at, current>>

Next ==
  \/ \E tli \in Tlis, lsn \in Lsns : ParseLine(tli, lsn)
  \/ ParseBadLine \/ archive_parse_history
  \/ pc = "parse" /\ \E a \in Args : CheckArgs(a)
  \/ ListSegment \/ NextEntry \/ ListLast

Spec == Init /\ [][Next]_vars

-----------------------------------------------------------------------------
(* Properties.                                                             *)

\* Types.  Positions and segment numbers stay in their unsigned width: a target of
\* 0/0 makes XLByteToPrevSeg of ListLast wrap to the last segment, never below zero.
TypeOK ==
  /\ pc \in {"parse", "list", "done", "error"}
  /\ entries \in Seq(Entries) /\ args \in Args
  /\ at \in 1..(Len(entries) + 1) /\ current \in 0..(LsnSpace - 1)
  /\ list \in Seq(Tlis \X (0..(LsnSpace \div SegSize)))

\* A result of archive_build_segment_list.
Built == pc = "done" /\ list # <<>>

\* The timelines are the ones a server can have been through: each began where its
\* parent ended and wrote something.
BeginOf(i) == IF i = 1 THEN 0 ELSE entries[i - 1].end
Lineage == \A i \in DOMAIN entries : BeginOf(i) < entries[i].end

\* The segments the archive holds for timeline i of the lineage: complete ones, and
\* for the target the last one.  The first is a copy of the parent's, or a new one
\* when the parent ended with its segment.
Archived(i) ==
  {s \in Seg(BeginOf(i))..Seg(entries[i].end - 1) :
     i = Len(entries) \/ (s + 1) * SegSize <= entries[i].end}

\* The position is in an archived segment that was listed.
Reached(lsn) ==
  \E i \in DOMAIN entries, n \in DOMAIN list :
    /\ list[n] = <<entries[i].tli, Seg(lsn)>>
    /\ Seg(lsn) \in Archived(i) /\ lsn < entries[i].end

SwitchOnBoundary == \E i \in 1..(Len(entries) - 1) : entries[i].end % SegSize = 0

\* wal_utils.c:213-215: the list is "able to allow a standby pointing to the origin
\* timeline to reach the target timeline": the archive holds in the listed segments
\* every byte from the origin to the target.
Reaches ==
  Built /\ Lineage => \A lsn \in args.origin_lsn..(args.target_lsn - 1) : Reached(lsn)

\* It is, when no timeline ended exactly with a segment.
ReachesInside == ~SwitchOnBoundary => Reaches

\* The list is without gap or repetition, from the segment of the origin to that
\* of the last byte before the target, and never goes back to an older timeline.
ListConsecutive ==
  Built /\ Lineage =>
    /\ \A n \in 1..(Len(list) - 1) : list[n + 1][2] = list[n][2] + 1 /\ list[n][1] <= list[n + 1][1]
    /\ args.origin_lsn < args.target_lsn => list[1][2] = Seg(args.origin_lsn)
    /\ list[Len(list)][2] = XLByteToPrevSeg(args.target_lsn)

=============================================================================

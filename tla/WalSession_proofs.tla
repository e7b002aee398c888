-------------------------- MODULE WalSession_proofs --------------------------
(***************************************************************************)
(* Proofs about the functions of wal_utils, for every segment size, width  *)
(* of an LSN, history file and choice of arguments, and for every archive. *)
(***************************************************************************)
EXTENDS WalSession, SequenceTheorems, TLAPS

-----------------------------------------------------------------------------
(* The list of segments: its inductive invariant.                          *)

\* While lines are parsed there is no list; a call of archive_parse_history ends
\* without one.
NoListYet == pc \in {"parse", "error"} => list = <<>>

\* Each timeline but the target begins where its parent ended.
Chained ==
  \A i \in 1..Len(entries) :
    pc = "parse" \/ i < Len(entries) => entries[i].begin = BeginOf(i)

\* Timelines are listed from the oldest to the target.
TliOrder == \A i, j \in 1..Len(entries) : i < j => entries[i].tli < entries[j].tli

\* In a lineage nothing ends after the last timeline.
EndsBounded ==
  Lineage => \A i \in 1..Len(entries) : entries[i].end <= entries[Len(entries)].end

\* The last entry is the target, which begins no later than the origin or where a
\* timeline of the history ended.
TargetLast ==
  LET last == Len(entries)
  IN /\ last >= 1
     /\ entries[last].tli = args.target_tli /\ entries[last].end = args.target_lsn
     /\ args.origin_lsn <= args.target_lsn
     /\ \/ last = 1 /\ entries[last].begin <= args.origin_lsn
        \/ \E p \in 1..(last - 1) : entries[last].begin = entries[p].end

\* End of the n-th segment of the list, counted from the one of the origin.
SegEnd(n) == (Seg(args.origin_lsn) + n) * SegSize

\* The loop is at the end of the segment it lists next, and past the timelines it
\* has left behind.
AtSegmentEnd == current = SegEnd(Len(list) + 1) /\ \A i \in 1..(at - 1) : entries[i].end <= current

\* The n-th element of the list is the n-th segment, on a timeline within which it ends.
Segment(n) ==
  /\ list[n][2] = Seg(args.origin_lsn) + n - 1
  /\ \E i \in 1..Len(entries) :
       i <= at /\ list[n][1] = entries[i].tli /\ BeginOf(i) <= SegEnd(n) /\ SegEnd(n) < entries[i].end

TlisAscend == \A n \in 1..(Len(list) - 1) : list[n][1] <= list[n + 1][1]

Loop == TargetLast /\ AtSegmentEnd /\ TlisAscend /\ \A n \in 1..Len(list) : Segment(n)

IInv ==
  /\ TypeOK /\ NoListYet /\ Chained /\ TliOrder /\ EndsBounded
  /\ pc = "list" => Loop
  /\ ReachesInside /\ ListConsecutive

-----------------------------------------------------------------------------
(* Segment arithmetic.                                                     *)

\* Quotient and remainder.
LEMMA DivMod ==
  ASSUME NEW x \in Nat, NEW s \in Nat \ {0}
  PROVE  /\ x \div s \in Nat /\ x % s \in 0..(s - 1)
         /\ x = s * (x \div s) + (x % s)
<1>1. x \div s \in Nat
  OBVIOUS
<1>2. x % s \in 0..(s - 1)
  OBVIOUS
<1>3. x = s * (x \div s) + (x % s)
  OBVIOUS
<1> QED
  BY <1>1, <1>2, <1>3

\* The segment of a position.
LEMMA SegOf ==
  ASSUME NEW x \in Nat
  PROVE  Seg(x) \in Nat /\ Seg(x) * SegSize <= x /\ x < (Seg(x) + 1) * SegSize
<1>1. SegSize \in Nat \ {0}
  BY ConstantsAssumption
<1>2. Seg(x) \in Nat /\ x % SegSize \in 0..(SegSize - 1) /\ x = SegSize * Seg(x) + (x % SegSize)
  BY <1>1, DivMod DEF Seg
<1> QED
  BY <1>1, <1>2

\* The segment is the only one with the position between its bounds.
LEMMA SegUnique ==
  ASSUME NEW x \in Nat, NEW k \in Nat, k * SegSize <= x, x < (k + 1) * SegSize
  PROVE  Seg(x) = k
<1>1. x = k * SegSize + (x - k * SegSize) /\ x - k * SegSize \in 0..(SegSize - 1)
  BY ConstantsAssumption
<1>2. \A r \in 0..(SegSize - 1) : (k * SegSize + r) \div SegSize = k
  BY ConstantsAssumption
<1> QED
  BY <1>1, <1>2 DEF Seg

LEMMA SegMonotone ==
  ASSUME NEW x \in Nat, NEW y \in Nat, x <= y
  PROVE  Seg(x) <= Seg(y)
  BY ConstantsAssumption DEF Seg

\* Away from the end of the LSN space the next segment starts where the one of the
\* position ends.
LEMMA NextSegmentStart ==
  ASSUME NEW x \in Nat, x + SegSize < LsnSpace
  PROVE  NextSegment(x) = (Seg(x) + 1) * SegSize
<1>1. SegSize \in Nat \ {0} /\ LsnSpace \in Nat
  BY ConstantsAssumption
<1>2. (x + SegSize) % LsnSpace = x + SegSize
  BY <1>1
<1>3. x + SegSize = SegSize * Seg(x + SegSize) + ((x + SegSize) % SegSize)
  BY <1>1, DivMod DEF Seg
<1>4. Seg(x + SegSize) = Seg(x) + 1
  <2>1. Seg(x) \in Nat /\ Seg(x) * SegSize <= x /\ x < (Seg(x) + 1) * SegSize
    BY SegOf
  <2> QED
    BY <2>1, <1>1, SegUnique
<1> QED
  BY <1>1, <1>2, <1>3, <1>4, SegOf DEF NextSegment

\* XLByteToPrevSeg of a position that is not 0/0 is the segment of the byte before.
LEMMA PrevSegOf ==
  ASSUME NEW x \in Nat, x # 0, x < LsnSpace
  PROVE  XLByteToPrevSeg(x) = Seg(x - 1)
<1>1. (x - 1) % LsnSpace = x - 1
  BY ConstantsAssumption
<1> QED
  BY <1>1 DEF XLByteToPrevSeg, Seg

\* XLByteToPrevSeg stays in its width, of 0/0 too.
LEMMA PrevSegType ==
  ASSUME NEW x \in Nat
  PROVE  XLByteToPrevSeg(x) \in 0..(LsnSpace \div SegSize)
<1>1. SegSize \in Nat \ {0} /\ LsnSpace \in Nat \ {0}
  BY ConstantsAssumption
<1>2. (x - 1) % LsnSpace \in 0..(LsnSpace - 1)
  BY <1>1
<1>3. \A y \in Nat : y <= LsnSpace => Seg(y) \in Nat /\ Seg(y) <= Seg(LsnSpace)
  BY <1>1, SegOf, SegMonotone
<1> QED
  BY <1>1, <1>2, <1>3 DEF XLByteToPrevSeg, Seg

-----------------------------------------------------------------------------
(* The steps of WalUtils.                                                  *)

LEMMA AppendFacts ==
  ASSUME NEW T, NEW s \in Seq(T), NEW e \in T
  PROVE  /\ Append(s, e) \in Seq(T) /\ Len(Append(s, e)) = Len(s) + 1 /\ Len(s) \in Nat
         /\ \A i \in 1..Len(s) : Append(s, e)[i] = s[i]
         /\ Append(s, e)[Len(s) + 1] = e
  OBVIOUS

\* No entries and no list: nothing is claimed of an ERROR, or at the start.
LEMMA EmptyIInv ==
  ASSUME pc \in {"parse", "error"}, entries = <<>>, args = NoArgs, at = 1, current = 0, list = <<>>
  PROVE  IInv
<1>1. NoArgs \in Args
  BY ConstantsAssumption DEF NoArgs, Args, Lsns, Tlis
<1>2. Len(entries) = 0 /\ entries \in Seq(Entries)
  OBVIOUS
<1>3. list \in Seq(Tlis \X (0..(LsnSpace \div SegSize)))
  OBVIOUS
<1>4. current \in 0..(LsnSpace - 1)
  BY ConstantsAssumption
<1>5. TypeOK
  BY <1>1, <1>2, <1>3, <1>4 DEF TypeOK
<1>6. NoListYet /\ Chained /\ TliOrder /\ EndsBounded
  BY <1>2 DEF NoListYet, Chained, TliOrder, EndsBounded
<1>7. ReachesInside /\ ListConsecutive
  BY DEF ReachesInside, Reaches, ListConsecutive, Built
<1> QED
  BY <1>5, <1>6, <1>7 DEF IInv

LEMMA RaiseIInv == ASSUME Raise PROVE IInv'
<1>1. NoArgs \in Args
  BY ConstantsAssumption DEF NoArgs, Args, Lsns, Tlis
<1>2. Len(entries') = 0 /\ entries' \in Seq(Entries)
  BY DEF Raise
<1>3. list' \in Seq(Tlis \X (0..(LsnSpace \div SegSize)))
  BY DEF Raise
<1>4. current' \in 0..(LsnSpace - 1)
  BY ConstantsAssumption DEF Raise
<1>5. TypeOK'
  BY <1>1, <1>2, <1>3, <1>4 DEF TypeOK, Raise
<1>6. NoListYet' /\ Chained' /\ TliOrder' /\ EndsBounded'
  BY <1>2 DEF NoListYet, Chained, TliOrder, EndsBounded, Raise
<1>7. ReachesInside' /\ ListConsecutive'
  BY DEF ReachesInside, Reaches, ListConsecutive, Built, Raise
<1> QED
  BY <1>5, <1>6, <1>7 DEF IInv, Raise

\* An entry appended to a chain of timelines, younger than all of them and, if all
\* of it is a lineage, ending last.
LEMMA AppendEntry ==
  ASSUME IInv, pc = "parse", NEW e \in Entries, entries' = Append(entries, e),
         entries # <<>> => LastEntry.tli < e.tli
  PROVE  /\ entries' \in Seq(Entries) /\ Len(entries') = Len(entries) + 1
         /\ \A i \in 1..Len(entries) : entries'[i] = entries[i]
         /\ entries'[Len(entries')] = e
         /\ TliOrder' /\ EndsBounded'
<1> DEFINE n == Len(entries)
<1>1. /\ entries' \in Seq(Entries) /\ Len(entries') = n + 1 /\ n \in Nat
      /\ \A i \in 1..n : entries'[i] = entries[i]
      /\ entries'[n + 1] = e
  BY AppendFacts DEF IInv, TypeOK
<1>2. \A i \in 1..n : entries[i] \in Entries
  BY DEF IInv, TypeOK
<1>3. TliOrder'
  <2>1. SUFFICES ASSUME NEW i \in 1..(n + 1), NEW j \in 1..(n + 1), i < j
                 PROVE  entries'[i].tli < entries'[j].tli
    BY <1>1 DEF TliOrder
  <2>2. CASE j <= n
    BY <2>1, <2>2, <1>1 DEF IInv, TliOrder
  <2>3. CASE j = n + 1
    <3>1. i \in 1..n /\ entries # <<>> /\ n \in 1..n
      BY <2>1, <2>3, <1>1
    <3>2. entries[i].tli <= entries[n].tli
      BY <3>1, <1>2 DEF IInv, TliOrder, Entries, Tlis
    <3>3. entries[n].tli < e.tli
      BY <3>1 DEF LastEntry
    <3>4. entries[i].tli \in Nat /\ entries[n].tli \in Nat /\ e.tli \in Nat
      <4>1. entries[i] \in Entries /\ entries[n] \in Entries
        BY <3>1, <1>2
      <4> QED
        BY <4>1, ConstantsAssumption DEF Entries, Tlis
    <3>5. entries'[i] = entries[i] /\ entries'[j] = e
      BY <2>3, <3>1, <1>1
    <3> QED
      BY <3>2, <3>3, <3>4, <3>5
  <2> QED
    BY <2>1, <2>2, <2>3, <1>1
<1>4. EndsBounded'
  <2>1. SUFFICES ASSUME Lineage', NEW i \in 1..(n + 1)
                 PROVE  entries'[i].end <= entries'[n + 1].end
    BY <1>1 DEF EndsBounded
  <2>2. \A k \in 1..(n + 1) : BeginOf(k)' < entries'[k].end
    BY <2>1, <1>1 DEF Lineage
  <2>3. \A k \in 1..n : BeginOf(k)' = BeginOf(k)
    BY <1>1 DEF BeginOf
  <2>4. Lineage
    BY <2>2, <2>3, <1>1 DEF Lineage, IInv, TypeOK
  <2>5. CASE i <= n
    <3>1. entries[i].end <= entries[n].end /\ n \in 1..n
      BY <2>1, <2>4, <2>5, <1>1 DEF IInv, EndsBounded
    <3>2. \A k \in 1..(n + 1) : k # 1 => entries'[k - 1].end < entries'[k].end
      BY <2>2 DEF BeginOf
    <3>3. entries[n].end < e.end
      <4>1. n + 1 \in 1..(n + 1) /\ n + 1 # 1 /\ (n + 1) - 1 = n
        BY <3>1, <1>1
      <4> QED
        BY <4>1, <3>1, <3>2, <1>1
    <3>4. entries'[i] = entries[i] /\ entries'[n + 1] = e
      BY <2>5, <1>1
    <3>5. entries[i].end \in Nat /\ entries[n].end \in Nat /\ e.end \in Nat
      BY <3>1, <2>5, <1>2 DEF Entries, Lsns
    <3> QED
      BY <3>1, <3>3, <3>4, <3>5
  <2>6. CASE i = n + 1
    BY <2>6, <1>1 DEF Entries, Lsns
  <2> QED
    BY <2>1, <2>5, <2>6, <1>1
<1> QED
  BY <1>1, <1>3, <1>4

LEMMA ParseLineIInv ==
  ASSUME IInv, NEW tli \in Tlis, NEW lsn \in Lsns, ParseLine(tli, lsn)
  PROVE  IInv'
<1>1. CASE Raise
  BY <1>1, RaiseIInv
<1>2. CASE ~Raise
  <2> DEFINE e == [tli |-> tli, end |-> lsn, begin |-> IF entries = <<>> THEN 0 ELSE LastEntry.end]
  <2>1. /\ pc = "parse" /\ entries' = Append(entries, e)
        /\ UNCHANGED <<pc, args, at, current, list>>
        /\ entries # <<>> => ~(tli <= LastEntry.tli)
    BY <1>2 DEF ParseLine
  <2>2. entries # <<>> => LastEntry \in Entries
    BY DEF IInv, TypeOK, LastEntry
  <2>3. e \in Entries
    BY <2>2, ConstantsAssumption DEF Entries, Lsns
  <2>4. entries # <<>> => LastEntry.tli < e.tli
    BY <2>1, <2>2 DEF Entries, Tlis
  <2>5. /\ entries' \in Seq(Entries) /\ Len(entries') = Len(entries) + 1
        /\ \A i \in 1..Len(entries) : entries'[i] = entries[i]
        /\ entries'[Len(entries')] = e
        /\ TliOrder' /\ EndsBounded'
    BY <2>1, <2>3, <2>4, AppendEntry
  <2> HIDE DEF e
  <2>6. Len(entries) \in Nat
    BY DEF IInv, TypeOK
  <2>7. TypeOK'
    BY <2>1, <2>5, <2>6 DEF IInv, TypeOK
  <2>8. Chained'
    <3>1. SUFFICES ASSUME NEW i \in 1..(Len(entries) + 1) PROVE entries'[i].begin = BeginOf(i)'
      BY <2>5 DEF Chained
    <3>2. CASE i <= Len(entries)
      BY <3>2, <2>1, <2>5, <2>6 DEF IInv, Chained, BeginOf
    <3>3. CASE i = Len(entries) + 1
      <4>1. entries = <<>> <=> Len(entries) = 0
        BY DEF IInv, TypeOK
      <4> QED
        BY <4>1, <3>3, <2>1, <2>5, <2>6 DEF BeginOf, LastEntry, e
    <3> QED
      BY <3>1, <3>2, <3>3, <2>6
  <2>9. NoListYet' /\ ReachesInside' /\ ListConsecutive' /\ pc' # "list"
    BY <2>1 DEF IInv, NoListYet, ReachesInside, Reaches, ListConsecutive, Built
  <2> QED
    BY <2>5, <2>7, <2>8, <2>9 DEF IInv
<1> QED
  BY <1>1, <1>2

LEMMA ParseEndIInv == ASSUME IInv, archive_parse_history PROVE IInv'
<1> USE DEF IInv, archive_parse_history
<1>1. TypeOK'
  BY DEF TypeOK
<1>2. Chained' /\ TliOrder'
  BY DEF Chained, TliOrder, BeginOf
<1>3. EndsBounded'
  BY DEF EndsBounded, Lineage, BeginOf
<1>4. NoListYet' /\ ReachesInside' /\ ListConsecutive'
  BY DEF NoListYet, ReachesInside, Reaches, ListConsecutive, Built
<1> QED
  BY <1>1, <1>2, <1>3, <1>4

\* Once the arguments are accepted the loop starts at the end of the segment of the
\* origin.  The parent of the origin is unique, timelines being in order.
LEMMA CheckArgsIInv == ASSUME IInv, NEW a \in Args, CheckArgs(a) PROVE IInv'
<1>1. CASE ~ArgsOK(a)
  BY <1>1, RaiseIInv DEF CheckArgs
<1>2. CASE ArgsOK(a)
  <2> DEFINE p == CHOOSE i \in Parents(a) : \A j \in Parents(a) : i <= j
             begin == IF a.history THEN entries[p].end ELSE a.origin_lsn
             e == [tli |-> a.target_tli, begin |-> begin, end |-> a.target_lsn]
  <2>1. /\ pc = "parse" /\ (~a.history => entries = <<>>)
        /\ pc' = "list" /\ args' = a /\ at' = 1 /\ list' = <<>>
        /\ entries' = Append(entries, e) /\ current' = NextSegment(a.origin_lsn)
    BY <1>2 DEF CheckArgs
  <2>2. \A i \in 1..Len(entries) : entries[i] \in Entries
    BY DEF IInv, TypeOK
  <2>3. Len(entries) \in Nat /\ DOMAIN entries = 1..Len(entries)
    BY DEF IInv, TypeOK
  <2>4. a.history => p \in 1..Len(entries)
    <3>1. SUFFICES ASSUME a.history PROVE p \in 1..Len(entries)
      OBVIOUS
    <3>2. PICK i \in Parents(a) : TRUE
      BY <1>2, <3>1 DEF ArgsOK
    <3>3. \A j \in Parents(a) : j = i
      BY <3>2, <2>2, <2>3 DEF Parents, IInv, TliOrder, Entries, Tlis
    <3>4. i \in 1..Len(entries) /\ i <= i
      BY <3>2, <2>3 DEF Parents
    <3>5. \E k \in Parents(a) : \A j \in Parents(a) : k <= j
      BY <3>3, <3>4
    <3>6. p \in Parents(a)
      BY <3>5
    <3> QED
      BY <3>6, <2>3 DEF Parents
  <2>5. begin \in Lsns
    BY <2>2, <2>4 DEF Entries, Args
  <2>6. e \in Entries
    BY <2>5 DEF Entries, Args
  <2>7. entries # <<>> => LastEntry.tli < e.tli
    BY <1>2, <2>1 DEF ArgsOK
  <2>8. /\ entries' \in Seq(Entries) /\ Len(entries') = Len(entries) + 1
        /\ \A i \in 1..Len(entries) : entries'[i] = entries[i]
        /\ entries'[Len(entries')] = e
        /\ TliOrder' /\ EndsBounded'
    BY <2>1, <2>6, <2>7, AppendEntry
  <2>9. current' = (Seg(a.origin_lsn) + 1) * SegSize /\ current' \in 0..(LsnSpace - 1)
    <3>1. a.origin_lsn \in Nat /\ a.origin_lsn + SegSize < LsnSpace
      BY ConstantsAssumption DEF Args, Lsns
    <3>2. current' = (Seg(a.origin_lsn) + 1) * SegSize
      BY <2>1, <3>1, NextSegmentStart
    <3>3. Seg(a.origin_lsn) \in Nat /\ Seg(a.origin_lsn) * SegSize <= a.origin_lsn
      BY <3>1, SegOf
    <3> QED
      BY <3>1, <3>2, <3>3, ConstantsAssumption
  <2>10. TypeOK'
    BY <2>1, <2>3, <2>8, <2>9 DEF IInv, TypeOK
  <2>11. Chained'
    <3>1. SUFFICES ASSUME NEW i \in 1..Len(entries) PROVE entries'[i].begin = BeginOf(i)'
      BY <2>1, <2>3, <2>8 DEF Chained
    <3> QED
      BY <2>1, <2>3, <2>8 DEF BeginOf, IInv, Chained
  <2>12. TargetLast'
    <3>1. a.origin_lsn <= a.target_lsn
      BY <1>2 DEF ArgsOK
    <3>2. ~a.history => Len(entries') = 1 /\ begin <= a.origin_lsn
      BY <2>1, <2>8 DEF Args, Lsns
    <3>3. a.history => p \in 1..(Len(entries') - 1) /\ begin = entries'[p].end
      BY <2>3, <2>4, <2>8
    <3>4. e.tli = a.target_tli /\ e.end = a.target_lsn /\ e.begin = begin
      OBVIOUS
    <3> HIDE DEF p, begin, e
    <3> QED
      BY <2>1, <2>3, <2>8, <3>1, <3>2, <3>3, <3>4 DEF TargetLast
  <2>13. AtSegmentEnd' /\ TlisAscend' /\ \A n \in 1..Len(list') : Segment(n)'
    BY <2>1, <2>9 DEF AtSegmentEnd, TlisAscend, SegEnd, Seg
  <2>14. NoListYet' /\ ReachesInside' /\ ListConsecutive'
    BY <2>1 DEF NoListYet, ReachesInside, Reaches, ListConsecutive, Built
  <2> QED
    BY <2>8, <2>10, <2>11, <2>12, <2>13, <2>14 DEF IInv, Loop
<1> QED
  BY <1>1, <1>2

\* What the loop knows at each turn.
LEMMA LoopFacts ==
  ASSUME IInv, pc = "list"
  PROVE  /\ Loop /\ SegSize \in Nat \ {0} /\ Len(list) \in Nat /\ Len(entries) \in Nat
         /\ args.origin_lsn \in Nat /\ args.target_lsn \in Nat
         /\ \A i \in 1..Len(entries) : /\ entries[i].begin \in Nat /\ entries[i].end \in 0..MaxLsn
                                       /\ entries[i].tli \in Tlis /\ BeginOf(i) \in Nat
         /\ Seg(args.origin_lsn) \in Nat
         /\ \A n \in Nat \ {0} : SegEnd(n) \in Nat /\ args.origin_lsn < SegEnd(n)
         /\ current \in Nat /\ args.origin_lsn < current
<1>1. /\ Loop /\ SegSize \in Nat \ {0} /\ Len(list) \in Nat /\ Len(entries) \in Nat
      /\ args.origin_lsn \in Nat /\ args.target_lsn \in Nat
  BY ConstantsAssumption DEF IInv, TypeOK, Args, Lsns
<1>2. \A i \in 1..Len(entries) : entries[i] \in Entries
  BY DEF IInv, TypeOK
<1>3. \A i \in 1..Len(entries) : /\ entries[i].begin \in Nat /\ entries[i].end \in 0..MaxLsn
                                 /\ entries[i].tli \in Tlis
  BY <1>2 DEF Entries, Lsns
<1>4. \A i \in 1..Len(entries) : BeginOf(i) \in Nat
  BY <1>1, <1>3 DEF BeginOf
<1>5. Seg(args.origin_lsn) \in Nat /\ args.origin_lsn < (Seg(args.origin_lsn) + 1) * SegSize
  BY <1>1, SegOf
<1>6. ASSUME NEW n \in Nat \ {0} PROVE SegEnd(n) \in Nat /\ args.origin_lsn < SegEnd(n)
  <2>1. \A k, m \in Nat : k <= m => k * SegSize <= m * SegSize /\ m * SegSize \in Nat
    BY <1>1
  <2>2. (Seg(args.origin_lsn) + 1) * SegSize <= (Seg(args.origin_lsn) + n) * SegSize
    BY <2>1, <1>5
  <2> QED
    BY <2>1, <2>2, <1>1, <1>5 DEF SegEnd
<1>7. current \in Nat /\ args.origin_lsn < current
  <2>1. current = SegEnd(Len(list) + 1) /\ Len(list) + 1 \in Nat \ {0}
    BY <1>1 DEF Loop, AtSegmentEnd
  <2>2. SegEnd(Len(list) + 1) \in Nat /\ args.origin_lsn < SegEnd(Len(list) + 1)
    BY <2>1, <1>6
  <2> QED
    BY <2>1, <2>2
<1>8. \A n \in Nat \ {0} : SegEnd(n) \in Nat /\ args.origin_lsn < SegEnd(n)
  BY <1>6
<1>9. \A i \in 1..Len(entries) : /\ entries[i].begin \in Nat /\ entries[i].end \in 0..MaxLsn
                                 /\ entries[i].tli \in Tlis /\ BeginOf(i) \in Nat
  BY <1>3, <1>4
<1> QED
  BY <1>1, <1>5, <1>7, <1>8, <1>9

LEMMA EndsNat == ASSUME IInv PROVE \A i \in 1..Len(entries) : entries[i].end \in Nat
<1>1. \A i \in 1..Len(entries) : entries[i] \in Entries
  BY DEF IInv, TypeOK
<1> QED
  BY <1>1, ConstantsAssumption DEF Entries, Lsns

\* The loop is past the beginning of the timeline it is at.
LEMMA PastBegin ==
  ASSUME IInv, pc = "list", at <= Len(entries)
  PROVE  at \in 1..Len(entries) /\ BeginOf(at) <= current /\ entries[at].begin <= current
<1>1. at \in 1..Len(entries) /\ Len(entries) \in Nat
  BY DEF IInv, TypeOK
<1>2. /\ TargetLast /\ \A i \in 1..(at - 1) : entries[i].end <= current
      /\ current \in Nat /\ args.origin_lsn \in Nat /\ args.origin_lsn < current
      /\ \A i \in 1..Len(entries) : entries[i].begin \in Nat
  BY LoopFacts DEF Loop, AtSegmentEnd
<1>3. BeginOf(at) <= current
  BY <1>1, <1>2 DEF BeginOf
<1>4. CASE at < Len(entries)
  BY <1>1, <1>3, <1>4 DEF IInv, Chained
<1>5. CASE at = Len(entries)
  <2>1. CASE entries[at].begin <= args.origin_lsn
    BY <2>1, <1>1, <1>2, <1>3
  <2>2. CASE \E p \in 1..(at - 1) : entries[at].begin = entries[p].end
    BY <2>2, <1>1, <1>2, <1>3
  <2>3. entries[at].begin <= args.origin_lsn \/ \E p \in 1..(at - 1) : entries[at].begin = entries[p].end
    BY <1>2, <1>5 DEF TargetLast
  <2> QED
    BY <2>1, <2>2, <2>3
<1> QED
  BY <1>1, <1>3, <1>4, <1>5

\* A segment is listed: the one that ends where the loop is.
LEMMA ListSegmentIInv == ASSUME IInv, ListSegment PROVE IInv'
<1> DEFINE N == Len(list)
           o == Seg(args.origin_lsn)
           new == <<entries[at].tli, XLByteToPrevSeg(current)>>
<1>1. /\ pc = "list" /\ at <= Len(entries) /\ current < entries[at].end
      /\ list' = Append(list, new) /\ current' = NextSegment(current)
      /\ UNCHANGED <<pc, entries, args, at>>
  BY DEF ListSegment, InEntry
<1>2. /\ Loop /\ SegSize \in Nat \ {0} /\ N \in Nat /\ Len(entries) \in Nat
      /\ \A i \in 1..Len(entries) : /\ entries[i].begin \in Nat /\ entries[i].end \in 0..MaxLsn
                                    /\ entries[i].tli \in Tlis /\ BeginOf(i) \in Nat
      /\ o \in Nat /\ current \in Nat
  BY <1>1, LoopFacts
<1>3. at \in 1..Len(entries) /\ BeginOf(at) <= current
  BY <1>1, PastBegin
<1>4. current = (o + N + 1) * SegSize
  BY <1>2 DEF Loop, AtSegmentEnd, SegEnd
<1>5. current + SegSize < LsnSpace /\ current # 0 /\ current < LsnSpace
  <2>1. current < MaxLsn
    BY <1>1, <1>2, <1>3, ConstantsAssumption
  <2>2. args.origin_lsn \in Nat /\ args.origin_lsn < current
    BY <1>1, LoopFacts
  <2> QED
    BY <2>1, <2>2, <1>2, ConstantsAssumption
<1>6. XLByteToPrevSeg(current) = o + N
  <2>1. current - 1 \in Nat /\ o + N \in Nat
    BY <1>2, <1>5
  <2>2. (o + N) * SegSize <= current - 1 /\ current - 1 < ((o + N) + 1) * SegSize
    BY <1>2, <1>4
  <2> QED
    BY <2>1, <2>2, <1>2, <1>5, PrevSegOf, SegUnique
<1>7. current' = (o + N + 2) * SegSize /\ current <= current' /\ current' \in 0..(LsnSpace - 1)
  <2>1. Seg(current) = o + N + 1
    <3>1. o + N + 1 \in Nat /\ (o + N + 1) * SegSize <= current
          /\ current < ((o + N + 1) + 1) * SegSize
      BY <1>2, <1>4
    <3> QED
      BY <3>1, <1>2, SegUnique
  <2>2. current' = (Seg(current) + 1) * SegSize
    BY <1>1, <1>2, <1>5, NextSegmentStart
  <2>3. current' = (o + N + 2) * SegSize /\ o + N + 1 \in Nat
    BY <2>1, <2>2, <1>2
  <2>4. \A k \in Nat : (k + 1) * SegSize = k * SegSize + SegSize
    BY <1>2
  <2>5. current' = current + SegSize
    BY <2>1, <2>2, <2>3, <2>4, <1>4
  <2>6. current <= current' /\ current' \in 0..(LsnSpace - 1)
    BY <2>5, <1>2, <1>5, ConstantsAssumption
  <2> QED
    BY <2>3, <2>6
<1>8. new \in Tlis \X (0..(LsnSpace \div SegSize))
  BY <1>2, <1>3, PrevSegType
<1>9. /\ list' \in Seq(Tlis \X (0..(LsnSpace \div SegSize))) /\ Len(list') = N + 1
      /\ \A i \in 1..N : list'[i] = list[i]
      /\ list'[N + 1] = new
  BY <1>1, <1>8, AppendFacts DEF IInv, TypeOK
<1>10. new[1] = entries[at].tli /\ new[2] = o + N
  BY <1>6
<1> HIDE DEF new
<1>11. TypeOK'
  BY <1>1, <1>7, <1>9 DEF IInv, TypeOK
<1>12. \A i \in 1..Len(entries) : BeginOf(i)' = BeginOf(i)
  BY <1>1 DEF BeginOf
<1>13. \A n \in Nat : SegEnd(n)' = SegEnd(n)
  BY <1>1 DEF SegEnd, Seg
<1>14. AtSegmentEnd'
  <2>1. SegEnd(N + 2) = current'
    BY <1>2, <1>7 DEF SegEnd
  <2>2. \A i \in 1..(at - 1) : entries[i].end <= current'
    <3>1. SUFFICES ASSUME NEW i \in 1..(at - 1) PROVE entries[i].end <= current'
      OBVIOUS
    <3>2. entries[i].end <= current
      BY <1>2 DEF Loop, AtSegmentEnd
    <3>3. entries[i].end \in Nat /\ current' \in Nat /\ current <= current'
      BY <1>2, <1>3, <1>7, ConstantsAssumption, SMTT(20)
    <3> QED
      BY <3>2, <3>3, <1>2
  <2>3. Len(list') + 1 = N + 2 /\ N + 2 \in Nat
    BY <1>2, <1>9
  <2> QED
    BY <1>1, <1>13, <2>1, <2>2, <2>3 DEF AtSegmentEnd, SegEnd, Seg
<1>15. ASSUME NEW n \in 1..Len(list') PROVE Segment(n)'
  <2>1. CASE n <= N
    <3>1. Segment(n) /\ n \in Nat /\ list'[n] = list[n]
      BY <2>1, <1>2, <1>9 DEF Loop
    <3> QED
      BY <3>1, <1>1, <1>12, <1>13 DEF Segment, Seg
  <2>2. CASE n = N + 1
    <3>1. SegEnd(n) = current
      BY <2>2, <1>2, <1>4 DEF SegEnd
    <3>2. list'[n][2] = o + n - 1 /\ list'[n][1] = entries[at].tli
      BY <2>2, <1>2, <1>9, <1>10
    <3>3. BeginOf(at)' = BeginOf(at) /\ SegEnd(n)' = SegEnd(n) /\ at <= at
      BY <1>1, <1>2, <1>3, <2>2, <1>13 DEF BeginOf
    <3> QED
      BY <3>1, <3>2, <3>3, <1>1, <1>2, <1>3 DEF Segment, Seg
  <2> QED
    BY <2>1, <2>2, <1>2, <1>9
<1>16. TlisAscend'
  <2>1. SUFFICES ASSUME NEW n \in 1..N PROVE list'[n][1] <= list'[n + 1][1]
    BY <1>2, <1>9 DEF TlisAscend
  <2>2. CASE n < N
    <3>1. TlisAscend
      BY <1>2 DEF Loop
    <3>2. n \in 1..(N - 1) /\ n + 1 \in 1..N
      BY <2>2, <1>2
    <3> QED
      BY <3>1, <3>2, <1>9 DEF TlisAscend
  <2>3. CASE n = N
    <3>1. PICK i \in 1..Len(entries) : i <= at /\ list[n][1] = entries[i].tli
      BY <1>2 DEF Loop, Segment
    <3>2. entries[i].tli <= entries[at].tli
      BY <3>1, <1>2, <1>3 DEF IInv, TliOrder, Tlis
    <3> QED
      BY <2>3, <3>1, <3>2, <1>2, <1>9, <1>10
  <2> QED
    BY <2>2, <2>3, <1>2
<1>17. TargetLast' /\ Chained' /\ TliOrder'
  BY <1>1, <1>2 DEF IInv, Loop, TargetLast, Chained, TliOrder, BeginOf
<1>18. EndsBounded'
  BY <1>1 DEF IInv, EndsBounded, Lineage, BeginOf
<1>19. NoListYet' /\ ReachesInside' /\ ListConsecutive'
  BY <1>1 DEF NoListYet, ReachesInside, Reaches, ListConsecutive, Built
<1> QED
  BY <1>11, <1>14, <1>15, <1>16, <1>17, <1>18, <1>19 DEF IInv, Loop

\* A timeline is left when the segment ends at its end or after it.
LEMMA NextEntryIInv == ASSUME IInv, NextEntry PROVE IInv'
<1>1. /\ pc = "list" /\ at <= Len(entries) /\ ~InEntry /\ at' = at + 1
      /\ UNCHANGED <<pc, entries, args, current, list>>
  BY DEF NextEntry
<1>2. /\ Loop /\ Len(entries) \in Nat /\ current \in Nat
      /\ \A i \in 1..Len(entries) : entries[i].begin \in Nat /\ entries[i].end \in 0..MaxLsn
  BY <1>1, LoopFacts
<1>3. at \in 1..Len(entries) /\ entries[at].begin <= current
  BY <1>1, PastBegin
<1>4. entries[at].end <= current
  BY <1>1, <1>2, <1>3, ConstantsAssumption DEF InEntry
<1>5. TypeOK'
  BY <1>1, <1>2, <1>3 DEF IInv, TypeOK
<1>6. AtSegmentEnd'
  <2>1. \A i \in 1..at : entries[i].end <= current
    BY <1>2, <1>3, <1>4 DEF Loop, AtSegmentEnd
  <2>2. current' = SegEnd(Len(list) + 1)'
    BY <1>1, <1>2 DEF Loop, AtSegmentEnd, SegEnd, Seg
  <2> QED
    BY <1>1, <1>3, <2>1, <2>2 DEF AtSegmentEnd
<1>7. ASSUME NEW n \in 1..Len(list') PROVE Segment(n)'
  <2>1. Segment(n)
    BY <1>1, <1>2 DEF Loop
  <2>2. PICK i \in 1..Len(entries) : /\ i <= at /\ list[n][1] = entries[i].tli
                                     /\ BeginOf(i) <= SegEnd(n) /\ SegEnd(n) < entries[i].end
    BY <2>1 DEF Segment
  <2>3. i <= at' /\ BeginOf(i)' = BeginOf(i) /\ SegEnd(n)' = SegEnd(n)
    BY <1>1, <1>2, <1>3, <2>2 DEF BeginOf, SegEnd, Seg
  <2> QED
    BY <1>1, <2>1, <2>2, <2>3 DEF Segment, Seg
<1>8. TargetLast' /\ TlisAscend' /\ Chained' /\ TliOrder'
  BY <1>1, <1>2 DEF IInv, Loop, TargetLast, TlisAscend, Chained, TliOrder, BeginOf
<1>9. EndsBounded'
  BY <1>1 DEF IInv, EndsBounded, Lineage, BeginOf
<1>10. NoListYet' /\ ReachesInside' /\ ListConsecutive'
  BY <1>1 DEF NoListYet, ReachesInside, Reaches, ListConsecutive, Built
<1> QED
  BY <1>5, <1>6, <1>7, <1>8, <1>9, <1>10 DEF IInv, Loop

\* When the loop is done, what is left is the segment of the last byte before the
\* target: the next of the list, unless the origin is the target and nothing is listed.
LEMMA LastSegment ==
  ASSUME IInv, pc = "list", at > Len(entries), Lineage
  PROVE  /\ args.target_lsn \in Nat \ {0} /\ BeginOf(Len(entries)) < args.target_lsn
         /\ XLByteToPrevSeg(args.target_lsn) = Seg(args.target_lsn - 1)
         /\ Len(list) > 0 \/ args.origin_lsn < args.target_lsn =>
              Seg(args.target_lsn - 1) = Seg(args.origin_lsn) + Len(list)
<1> DEFINE last == Len(entries)
           N == Len(list)
           O == Seg(args.origin_lsn)
           o == args.origin_lsn
           t == args.target_lsn
<1>1. /\ Loop /\ SegSize \in Nat \ {0} /\ N \in Nat /\ last \in Nat /\ O \in Nat
      /\ o \in Nat /\ t \in Nat /\ current \in Nat
      /\ \A i \in 1..last : /\ entries[i].end \in 0..MaxLsn /\ BeginOf(i) \in Nat
  BY LoopFacts
<1>2. last >= 1 /\ entries[last].end = t /\ o <= t
  BY <1>1 DEF Loop, TargetLast
<1>3. at = last + 1 /\ last \in 1..last
  BY <1>1, <1>2 DEF IInv, TypeOK
<1>4. BeginOf(last) < t /\ t # 0 /\ t \in 0..MaxLsn
  <2>1. BeginOf(last) < entries[last].end
    BY <1>3 DEF Lineage, IInv, TypeOK
  <2> QED
    BY <2>1, <1>1, <1>2, <1>3
<1>5. XLByteToPrevSeg(t) = Seg(t - 1)
  BY <1>1, <1>4, PrevSegOf, ConstantsAssumption
<1>6. t <= current /\ current = (O + N + 1) * SegSize
  BY <1>1, <1>2, <1>3 DEF Loop, AtSegmentEnd, SegEnd
<1>7. O * SegSize <= o
  BY <1>1, SegOf
<1>8. ASSUME N > 0 \/ o < t PROVE Seg(t - 1) = O + N
  <2>1. (O + N) * SegSize < t
    <3>1. CASE N = 0
      BY <3>1, <1>1, <1>7, <1>8
    <3>2. CASE N > 0
      <4>1. Segment(N)
        BY <3>2, <1>1 DEF Loop
      <4>2. PICK i \in 1..last : SegEnd(N) < entries[i].end
        BY <4>1 DEF Segment
      <4>3. entries[i].end <= t /\ entries[i].end \in Nat
        BY <1>1, <1>2 DEF IInv, EndsBounded
      <4>4. SegEnd(N) = (O + N) * SegSize /\ (O + N) * SegSize \in Nat
        BY <1>1 DEF SegEnd
      <4> QED
        BY <4>2, <4>3, <4>4, <1>1
    <3> QED
      BY <3>1, <3>2, <1>1
  <2>2. O + N \in Nat /\ t - 1 \in Nat /\ (O + N) * SegSize \in Nat /\ ((O + N) + 1) * SegSize \in Nat
    <3>1. O + N \in Nat /\ t \in Nat /\ SegSize \in Nat
      BY <1>1
    <3>2. t - 1 \in Nat
      BY <3>1, <1>4
    <3> HIDE DEF O, N, t
    <3>3. O + N + 1 \in Nat
      BY <3>1
    <3>4. (O + N) * SegSize \in Nat /\ (O + N + 1) * SegSize \in Nat
      BY <3>1, <3>3
    <3> QED
      BY <3>1, <3>2, <3>4
  <2>3. (O + N) * SegSize <= t - 1 /\ t - 1 < ((O + N) + 1) * SegSize
    <3> HIDE DEF O, N, t
    <3> QED
      BY <2>1, <2>2, <1>1, <1>6
  <2> QED
    BY <2>2, <2>3, SegUnique
<1> QED
  BY <1>1, <1>4, <1>5, <1>8

\* A listed segment holds the position, on a timeline that archived it, unless a
\* timeline ended exactly with the segment.
LEMMA SegmentReached ==
  ASSUME IInv, pc = "list", ~SwitchOnBoundary, NEW n \in 1..Len(list),
         NEW lsn \in Nat, Seg(lsn) = Seg(args.origin_lsn) + n - 1
  PROVE  \E i \in DOMAIN entries : /\ list[n] = <<entries[i].tli, Seg(lsn)>>
                                   /\ Seg(lsn) \in Archived(i) /\ lsn < entries[i].end
<1> DEFINE O == Seg(args.origin_lsn)
<1>1. /\ Loop /\ SegSize \in Nat \ {0} /\ Len(list) \in Nat /\ Len(entries) \in Nat
      /\ \A i \in 1..Len(entries) : entries[i].end \in Nat /\ BeginOf(i) \in Nat
      /\ O \in Nat
  BY LoopFacts, EndsNat
<1>2. n \in Nat \ {0} /\ SegEnd(n) \in Nat /\ 0 < SegEnd(n)
  <2>1. n \in Nat \ {0}
    BY <1>1
  <2>2. args.origin_lsn \in Nat /\ SegEnd(n) \in Nat /\ args.origin_lsn < SegEnd(n)
    BY <2>1, LoopFacts
  <2> QED
    BY <2>1, <2>2
<1>3. PICK i \in 1..Len(entries) : /\ list[n][1] = entries[i].tli
                                   /\ BeginOf(i) <= SegEnd(n) /\ SegEnd(n) < entries[i].end
  BY <1>1 DEF Loop, Segment
<1>4. list[n] = <<entries[i].tli, Seg(lsn)>>
  <2>1. list[n] \in Tlis \X (0..(LsnSpace \div SegSize))
    BY <1>1 DEF IInv, TypeOK
  <2>2. list[n][2] = O + n - 1
    BY <1>1 DEF Loop, Segment
  <2> QED
    BY <2>1, <2>2, <1>3
<1>5. SegEnd(n) = (Seg(lsn) + 1) * SegSize /\ Seg(lsn) \in Nat
  <2>1. O + n = Seg(lsn) + 1
    BY <1>1, <1>2
  <2> QED
    BY <2>1, SegOf DEF SegEnd
<1>6. lsn < SegEnd(n) /\ Seg(lsn) * SegSize <= lsn
  BY <1>5, SegOf
<1>7. BeginOf(i) # SegEnd(n)
  <2>1. CASE i = 1
    BY <2>1, <1>2 DEF BeginOf
  <2>2. CASE i # 1
    <3>1. i - 1 \in 1..(Len(entries) - 1) /\ BeginOf(i) = entries[i - 1].end
      BY <2>2, <1>1 DEF BeginOf
    <3>2. BeginOf(i) % SegSize # 0
      BY <3>1 DEF SwitchOnBoundary
    <3>3. SegEnd(n) = SegSize * Seg(SegEnd(n)) + (SegEnd(n) % SegSize) /\ SegEnd(n) % SegSize \in Nat
      <4>1. SegEnd(n) % SegSize \in 0..(SegSize - 1)
            /\ SegEnd(n) = SegSize * (SegEnd(n) \div SegSize) + (SegEnd(n) % SegSize)
        BY <1>1, <1>2, DivMod
      <4> QED
        BY <4>1, <1>1 DEF Seg
    <3>4. Seg(SegEnd(n)) = Seg(lsn) + 1
      <4>1. (Seg(lsn) + 1) * SegSize < ((Seg(lsn) + 1) + 1) * SegSize /\ Seg(lsn) + 1 \in Nat
        BY <1>1, <1>5
      <4> QED
        BY <4>1, <1>2, <1>5, SegUnique
    <3>5. SegSize * (Seg(lsn) + 1) = (Seg(lsn) + 1) * SegSize
      BY <1>1, <1>5
    <3>6. SegEnd(n) = SegEnd(n) + (SegEnd(n) % SegSize)
      BY <3>3, <3>4, <3>5, <1>5
    <3>7. SegEnd(n) % SegSize = 0
      BY <3>3, <3>6, <1>2
    <3> QED
      BY <3>2, <3>7
  <2> QED
    BY <2>1, <2>2
<1>8. Seg(BeginOf(i)) <= Seg(lsn)
  <2>1. BeginOf(i) <= SegEnd(n) - 1 /\ SegEnd(n) - 1 \in Nat
    BY <1>1, <1>2, <1>3, <1>7
  <2>2. Seg(SegEnd(n) - 1) = Seg(lsn)
    <3>1. Seg(lsn) * SegSize <= SegEnd(n) - 1
      BY <1>2, <1>6, <1>1, <1>5, SMTT(20)
    <3>2. SegEnd(n) - 1 < (Seg(lsn) + 1) * SegSize
      BY <1>2, <1>5
    <3> QED
      BY <2>1, <3>1, <3>2, <1>5, SegUnique
  <2>3. BeginOf(i) \in Nat
    BY <1>1, <1>2
  <2> QED
    BY <2>1, <2>2, <2>3, SegMonotone
<1>9. Seg(lsn) <= Seg(entries[i].end - 1) /\ lsn < entries[i].end
  <2>1. entries[i].end - 1 \in Nat /\ lsn <= entries[i].end - 1
    BY <1>1, <1>2, <1>3, <1>6, SMTT(20)
  <2>2. Seg(lsn) <= Seg(entries[i].end - 1)
    BY <2>1, SegMonotone
  <2> QED
    BY <2>1, <2>2, <1>1
<1>10. Seg(lsn) \in Archived(i)
  <2>1. BeginOf(i) \in Nat /\ entries[i].end \in Nat /\ entries[i].end - 1 \in Nat
    BY <1>1, <1>2, <1>3
  <2>2. Seg(BeginOf(i)) \in Nat /\ Seg(entries[i].end - 1) \in Nat
    BY <2>1, SegOf
  <2>3. SegEnd(n) <= entries[i].end
    BY <2>1, <1>2, <1>3
  <2>4. (Seg(lsn) + 1) * SegSize <= entries[i].end
    BY <2>3, <1>5
  <2> QED
    BY <2>2, <2>4, <1>5, <1>8, <1>9 DEF Archived
<1>11. i \in DOMAIN entries
  BY DEF IInv, TypeOK
<1> QED
  BY <1>4, <1>9, <1>10, <1>11

\* The segment of the target is listed, and the call returns.
LEMMA ListLastIInv == ASSUME IInv, ListLast PROVE IInv'
<1> DEFINE last == Len(entries)
           N == Len(list)
           O == Seg(args.origin_lsn)
           t == args.target_lsn
           new == <<args.target_tli, XLByteToPrevSeg(t)>>
<1>1. /\ pc = "list" /\ at > last /\ list' = Append(list, new) /\ pc' = "done"
      /\ UNCHANGED <<entries, args, at, current>>
  BY DEF ListLast
<1>2. /\ Loop /\ SegSize \in Nat \ {0} /\ N \in Nat /\ last \in Nat /\ O \in Nat
      /\ args.origin_lsn \in Nat /\ t \in Nat
      /\ \A i \in 1..last : /\ entries[i].end \in Nat /\ BeginOf(i) \in Nat
                            /\ entries[i].tli \in Tlis
  BY <1>1, LoopFacts, EndsNat
<1>3. last \in 1..last /\ entries[last].tli = args.target_tli /\ entries[last].end = t
  BY <1>2 DEF Loop, TargetLast
<1>4. new \in Tlis \X (0..(LsnSpace \div SegSize))
  BY <1>2, PrevSegType DEF IInv, TypeOK, Args
<1>5. /\ list' \in Seq(Tlis \X (0..(LsnSpace \div SegSize))) /\ Len(list') = N + 1
      /\ \A i \in 1..N : list'[i] = list[i]
      /\ list'[N + 1] = new
  BY <1>1, <1>4, AppendFacts DEF IInv, TypeOK
<1>6. new[1] = args.target_tli /\ new[2] = XLByteToPrevSeg(t)
  OBVIOUS
<1> HIDE DEF new
<1>7. TypeOK'
  BY <1>1, <1>5 DEF IInv, TypeOK
<1>8. NoListYet' /\ Chained' /\ TliOrder'
  BY <1>1 DEF IInv, NoListYet, Chained, TliOrder, BeginOf
<1>9. EndsBounded'
  BY <1>1 DEF IInv, EndsBounded, Lineage, BeginOf
<1>10. Lineage' <=> Lineage
  BY <1>1 DEF Lineage, BeginOf
<1>11. ListConsecutive'
  <2>1. SUFFICES ASSUME Lineage
                 PROVE  /\ \A n \in 1..N : /\ list'[n + 1][2] = list'[n][2] + 1
                                           /\ list'[n][1] <= list'[n + 1][1]
                        /\ args.origin_lsn < t => list'[1][2] = O
                        /\ list'[N + 1][2] = XLByteToPrevSeg(t)
    BY <1>1, <1>2, <1>5, <1>10 DEF ListConsecutive, Seg, XLByteToPrevSeg
  <2>2. /\ XLByteToPrevSeg(t) = Seg(t - 1)
        /\ N > 0 \/ args.origin_lsn < t => Seg(t - 1) = O + N
    BY <1>1, <2>1, LastSegment
  <2>3. \A n \in 1..N : list[n][2] = O + n - 1
    BY <1>2 DEF Loop, Segment
  <2>4. ASSUME NEW n \in 1..N
        PROVE  list'[n + 1][2] = list'[n][2] + 1 /\ list'[n][1] <= list'[n + 1][1]
    <3>1. CASE n < N
      <4>1. n \in 1..(N - 1) /\ n + 1 \in 1..N
        BY <3>1, <1>2
      <4>2. list[n][1] <= list[n + 1][1]
        BY <4>1, <1>2 DEF Loop, TlisAscend
      <4>3. list[n + 1][2] = list[n][2] + 1
        BY <4>1, <2>3, <1>2
      <4> QED
        BY <4>1, <4>2, <4>3, <1>5
    <3>2. CASE n = N
      <4>1. list'[n + 1] = new /\ list'[n] = list[n]
        BY <3>2, <1>5
      <4>2. new[2] = O + N /\ list[n][2] = O + N - 1
        BY <3>2, <2>2, <2>3, <1>2, <1>6
      <4>3. PICK i \in 1..last : list[n][1] = entries[i].tli
        BY <1>2 DEF Loop, Segment
      <4>4. entries[i].tli <= entries[last].tli
        BY <1>2, <1>3 DEF IInv, TliOrder, Tlis
      <4>5. list'[n + 1][2] = list'[n][2] + 1
        BY <4>1, <4>2, <1>2
      <4>6. list'[n][1] <= list'[n + 1][1]
        BY <4>1, <4>3, <4>4, <1>3, <1>6
      <4> QED
        BY <4>5, <4>6
    <3> QED
      BY <3>1, <3>2, <1>2
  <2>5. ASSUME args.origin_lsn < t PROVE list'[1][2] = O
    <3>1. CASE N = 0
      <4>1. list'[1] = new
        BY <3>1, <1>5
      <4>2. new[2] = O + 0
        BY <3>1, <2>2, <2>5, <1>6
      <4> QED
        BY <4>1, <4>2, <1>2
    <3>2. CASE N > 0
      <4>1. 1 \in 1..N
        BY <3>2, <1>2
      <4>2. list'[1] = list[1] /\ list[1][2] = O + 1 - 1
        BY <4>1, <2>3, <1>5
      <4> QED
        BY <4>2, <1>2
    <3> QED
      BY <3>1, <3>2, <1>2
  <2> QED
    BY <2>4, <2>5, <1>5, <1>6
<1>12. ReachesInside'
  <2>1. SUFFICES ASSUME Lineage, ~SwitchOnBoundary, NEW lsn \in args.origin_lsn..(t - 1)
                 PROVE  Reached(lsn)'
    BY <1>1, <1>10 DEF ReachesInside, Reaches, SwitchOnBoundary
  <2>2. lsn \in Nat /\ t - 1 \in Nat /\ args.origin_lsn < t
    BY <1>2
  <2>3. /\ XLByteToPrevSeg(t) = Seg(t - 1) /\ BeginOf(last) < t
        /\ Seg(t - 1) = O + N
    BY <1>1, <2>1, <2>2, LastSegment
  <2>4. Seg(lsn) \in Nat /\ O <= Seg(lsn) /\ Seg(lsn) <= O + N
    <3>1. args.origin_lsn <= lsn /\ lsn <= t - 1 /\ args.origin_lsn \in Nat
      BY <2>2, <1>2
    <3>2. Seg(args.origin_lsn) <= Seg(lsn) /\ Seg(lsn) <= Seg(t - 1)
      BY <3>1, <2>2, SegMonotone
    <3> QED
      BY <3>2, <2>2, <2>3, SegOf
  <2>5. PICK i \in DOMAIN entries, n \in 1..(N + 1) :
          /\ list'[n] = <<entries[i].tli, Seg(lsn)>>
          /\ Seg(lsn) \in Archived(i) /\ lsn < entries[i].end
    <3> DEFINE m == Seg(lsn) - O + 1
    <3>1. m \in 1..(N + 1) /\ Seg(lsn) = O + m - 1
      BY <2>4, <1>2
    <3>2. CASE m = N + 1
      <4>1. Seg(lsn) = Seg(t - 1)
        <5>1. Seg(lsn) = O + N
          BY <3>2, <2>4, <1>2
        <5> QED
          BY <5>1, <2>3
      <4>2. list'[N + 1] = <<entries[last].tli, Seg(lsn)>>
        BY <4>1, <2>3, <1>3, <1>5 DEF new
      <4>3. Seg(BeginOf(last)) <= Seg(t - 1) /\ Seg(BeginOf(last)) \in Nat
        <5>1. BeginOf(last) \in Nat
          BY <1>2, <1>3
        <5>2. BeginOf(last) <= t - 1
          BY <5>1, <2>2, <2>3, <1>2
        <5> QED
          BY <5>1, <5>2, <2>2, SegMonotone, SegOf
      <4>4. Seg(lsn) \in Archived(last)
        BY <4>1, <4>3, <2>4, <1>3 DEF Archived
      <4>5. last \in DOMAIN entries /\ lsn < entries[last].end
        BY <2>2, <1>2, <1>3 DEF IInv, TypeOK
      <4>6. N + 1 \in 1..(N + 1)
        BY <1>2
      <4> QED
        BY <4>2, <4>4, <4>5, <4>6
    <3>3. CASE m <= N
      <4>1. m \in 1..N
        BY <3>1, <3>3, <1>2
      <4> HIDE DEF m
      <4>2. PICK i \in DOMAIN entries : /\ list[m] = <<entries[i].tli, Seg(lsn)>>
                                        /\ Seg(lsn) \in Archived(i) /\ lsn < entries[i].end
        BY <4>1, <3>1, <2>1, <2>2, <1>1, SegmentReached
      <4> QED
        BY <4>1, <4>2, <3>1, <1>5
    <3>4. m = N + 1 \/ m <= N
      BY <3>1, <1>2
    <3> QED
      BY <3>2, <3>3, <3>4
  <2>6. Archived(i)' = Archived(i) /\ Seg(lsn)' = Seg(lsn) /\ n \in DOMAIN list'
    BY <1>1, <1>5 DEF Archived, BeginOf, Seg
  <2> QED
    BY <1>1, <2>5, <2>6 DEF Reached, Seg
<1> QED
  BY <1>1, <1>7, <1>8, <1>9, <1>11, <1>12 DEF IInv

\* Every step of the two functions.
LEMMA NextIInv == ASSUME IInv, [Next]_vars PROVE IInv'
<1>1. CASE UNCHANGED vars
  <2>1. UNCHANGED <<pc, entries, args, at, current, list>>
    BY <1>1 DEF vars
  <2>2. TypeOK' /\ NoListYet' /\ Chained' /\ TliOrder'
    BY <2>1 DEF IInv, TypeOK, NoListYet, Chained, TliOrder, BeginOf
  <2>3. EndsBounded' /\ (pc' = "list" => Loop')
    BY <2>1 DEF IInv, EndsBounded, Lineage, BeginOf, Loop, TargetLast, AtSegmentEnd, TlisAscend,
                Segment, SegEnd, Seg
  <2>4. ReachesInside'
    BY <2>1 DEF IInv, ReachesInside, Reaches, Built, Lineage, BeginOf, SwitchOnBoundary, Reached,
                Archived, Seg
  <2>5. ListConsecutive'
    BY <2>1 DEF IInv, ListConsecutive, Built, Lineage, BeginOf, Seg, XLByteToPrevSeg
  <2> QED
    BY <2>2, <2>3, <2>4, <2>5 DEF IInv
<1>2. CASE \E tli \in Tlis, lsn \in Lsns : ParseLine(tli, lsn)
  BY <1>2, ParseLineIInv
<1>3. CASE ParseBadLine
  BY <1>3, RaiseIInv DEF ParseBadLine
<1>4. CASE archive_parse_history
  BY <1>4, ParseEndIInv
<1>5. CASE \E a \in Args : CheckArgs(a)
  BY <1>5, CheckArgsIInv
<1>6. CASE ListSegment
  BY <1>6, ListSegmentIInv
<1>7. CASE NextEntry
  BY <1>7, NextEntryIInv
<1>8. CASE ListLast
  BY <1>8, ListLastIInv
<1> QED
  BY <1>1, <1>2, <1>3, <1>4, <1>5, <1>6, <1>7, <1>8 DEF Next

-----------------------------------------------------------------------------
(* The copy out of the archive: its inductive invariant.                   *)

Bytes == Nat \X Nat

ReaderTypeOK ==
  /\ files \in [Inodes -> Seq(Bytes)] /\ writings \in 0..MaxWritings /\ name \in 0..writings
  /\ reader \in [pc : {"idle", "chunk", "seek", "read", "end", "error"}, size : Nat, copied : Seq(Bytes)]
  /\ call \in [seek : Int, len : Nat, inode : 0..MaxWritings, at : Nat]
  /\ appended \in BOOLEAN

\* A call that has opened the file has an inode; before the first there is none.
Opened ==
  /\ reader.pc \in {"seek", "read"} => call.inode # 0
  /\ reader.pc = "idle" => call = NoCall

\* The file has only grown since the client asked for its size, and still has its name.
SameFile ==
  /\ name # 0 /\ reader.size <= Len(files[name])
  /\ reader.pc \in {"seek", "read"} => call.inode = name

\* A copy in chunks: each call goes on where the one before it stopped.
CopyGrows ==
  /\ Len(reader.copied) <= Len(files[name])
  /\ \A i \in 1..Len(reader.copied) : reader.copied[i] = files[name][i]
  /\ reader.pc = "seek" => call.seek = Len(reader.copied)
  /\ reader.pc = "read" => call.at = Len(reader.copied)
  /\ reader.pc = "end" => Len(reader.copied) >= reader.size

\* A read from the end: there is one call, and the file holds all it asks for.
TailRead ==
  /\ reader.pc # "chunk"
  /\ Len(reader.copied) <= call.at /\ call.at <= Len(files[name])
  /\ \A i \in 1..Len(reader.copied) : reader.copied[i] = files[name][(call.at - Len(reader.copied)) + i]
  /\ reader.pc = "seek" => reader.copied = <<>> /\ call.at = 0 /\ call.len = -call.seek
  /\ reader.pc = "read" => call.at + call.len <= Len(files[name])
  /\ reader.pc = "end" => call.len = 0

Copying == appended /\ reader.pc \in {"chunk", "seek", "read", "end"}

RInv ==
  /\ ReaderTypeOK /\ Opened
  /\ Copying => SameFile
  /\ Copying /\ call.seek >= 0 => CopyGrows
  /\ Copying /\ call.seek < 0 => TailRead

-----------------------------------------------------------------------------
(* The steps of ArchiveReader.                                             *)

\* The fields of the state.
LEMMA ReaderFields ==
  ASSUME ReaderTypeOK
  PROVE  /\ reader.pc \in {"idle", "chunk", "seek", "read", "end", "error"} /\ reader.size \in Nat
         /\ reader.copied \in Seq(Bytes) /\ Len(reader.copied) \in Nat
         /\ call.seek \in Int /\ call.len \in Nat /\ call.inode \in 0..MaxWritings /\ call.at \in Nat
         /\ name \in Nat /\ (name # 0 => name \in Inodes)
         /\ \A i \in Inodes : files[i] \in Seq(Bytes) /\ Len(files[i]) \in Nat
<1>1. reader.copied \in Seq(Bytes) /\ \A i \in Inodes : files[i] \in Seq(Bytes)
  BY DEF ReaderTypeOK
<1>2. name \in Nat /\ (name # 0 => name \in Inodes)
  BY ReaderAssumption DEF ReaderTypeOK, Inodes
<1>3. Len(reader.copied) \in Nat /\ \A i \in Inodes : Len(files[i]) \in Nat
  BY <1>1
<1> QED
  BY <1>1, <1>2, <1>3 DEF ReaderTypeOK

\* An ERROR ends the copy.
LEMMA ReaderRaiseRInv == ASSUME RInv, ReaderRaise PROVE RInv'
<1>1. /\ reader' = [pc |-> "error", size |-> 0, copied |-> <<>>] /\ call' = NoCall
      /\ UNCHANGED <<files, name, writings, appended>>
  BY DEF ReaderRaise, Idle
<1>2. NoCall \in [seek : Int, len : Nat, inode : 0..MaxWritings, at : Nat]
  BY ReaderAssumption DEF NoCall
<1>3. reader' \in [pc : {"idle", "chunk", "seek", "read", "end", "error"}, size : Nat, copied : Seq(Bytes)]
  BY <1>1
<1>4. ReaderTypeOK'
  BY <1>1, <1>2, <1>3 DEF RInv, ReaderTypeOK
<1>5. reader'.pc = "error"
  BY <1>1
<1> QED
  BY <1>4, <1>5 DEF RInv, Opened, Copying

\* The archive command writes the file anew, or removes it: nothing is claimed then.
LEMMA ArchiveRInv ==
  ASSUME RInv,
         \/ \E length \in 0..MaxBytes : ArchiveCreate(length)
         \/ ArchiveOverwrite
         \/ ArchiveRemove
  PROVE  RInv'
<1>1. UNCHANGED <<reader, call>> /\ appended' = FALSE
  BY DEF ArchiveCreate, ArchiveOverwrite, ArchiveRemove
<1>2. files' \in [Inodes -> Seq(Bytes)] /\ writings' \in 0..MaxWritings /\ name' \in 0..writings'
  <2>1. CASE \E length \in 0..MaxBytes : ArchiveCreate(length)
    <3>1. PICK length \in 0..MaxBytes : ArchiveCreate(length)
      BY <2>1
    <3>2. writings' = writings + 1 /\ writings' \in 0..MaxWritings /\ name' \in 0..writings'
      BY <3>1, ReaderAssumption DEF ArchiveCreate, RInv, ReaderTypeOK
    <3>3. [n \in 1..length |-> <<writings', n>>] \in Seq(Bytes)
      <4>1. length \in Nat /\ writings' \in Nat
        BY <3>1, <3>2, ReaderAssumption
      <4>2. [n \in 1..length |-> <<writings', n>>] \in [1..length -> Bytes]
        BY <4>1 DEF Bytes
      <4> QED
        BY <4>1, <4>2
    <3> QED
      BY <3>1, <3>2, <3>3 DEF ArchiveCreate, RInv, ReaderTypeOK
  <2>2. CASE ArchiveOverwrite
    <3>1. <<>> \in Seq(Bytes)
      OBVIOUS
    <3>2. files' \in [Inodes -> Seq(Bytes)]
      BY <2>2, <3>1 DEF ArchiveOverwrite, RInv, ReaderTypeOK
    <3>3. writings' \in 0..MaxWritings /\ name' \in 0..writings'
      BY <2>2, ReaderAssumption DEF ArchiveOverwrite, RInv, ReaderTypeOK
    <3> QED
      BY <3>2, <3>3
  <2>3. CASE ArchiveRemove
    BY <2>3, ReaderAssumption DEF ArchiveRemove, RInv, ReaderTypeOK
  <2> QED
    BY <2>1, <2>2, <2>3
<1>3. ReaderTypeOK' /\ Opened'
  BY <1>1, <1>2 DEF RInv, ReaderTypeOK, Opened
<1> QED
  BY <1>1, <1>3 DEF RInv, Copying

\* A byte more at the end of the file changes nothing of what was copied.
LEMMA ArchiveAppendRInv == ASSUME RInv, ArchiveAppend PROVE RInv'
<1> DEFINE f == files[name]
           byte == <<writings, Len(f) + 1>>
<1>1. /\ name # 0 /\ files' = [files EXCEPT ![name] = Append(f, byte)]
      /\ UNCHANGED <<name, writings, reader, call, appended>>
  BY DEF ArchiveAppend
<1>2. /\ reader.size \in Nat /\ Len(reader.copied) \in Nat /\ call.at \in Nat /\ call.len \in Nat
      /\ name \in Inodes /\ f \in Seq(Bytes) /\ Len(f) \in Nat
  BY <1>1, ReaderFields DEF RInv
<1>3. byte \in Bytes
  BY <1>2 DEF Bytes, RInv, ReaderTypeOK
<1>4. files' \in [Inodes -> Seq(Bytes)]
  BY <1>1, <1>2, <1>3 DEF RInv, ReaderTypeOK
<1>5. ReaderTypeOK' /\ Opened'
  BY <1>1, <1>4 DEF RInv, ReaderTypeOK, Opened
<1>6. files'[name'] = Append(f, byte)
  BY <1>1, <1>2 DEF RInv, ReaderTypeOK
<1>7. Len(files'[name']) = Len(f) + 1 /\ \A i \in 1..Len(f) : files'[name'][i] = f[i]
  BY <1>2, <1>3, <1>6, AppendFacts
<1>8. Copying' <=> Copying
  BY <1>1 DEF Copying
<1>9. SameFile => SameFile'
  BY <1>1, <1>2, <1>7 DEF SameFile
<1>10. CopyGrows => CopyGrows'
  BY <1>1, <1>2, <1>7 DEF CopyGrows
<1>11. TailRead => TailRead'
  <2>1. SUFFICES ASSUME TailRead PROVE TailRead'
    OBVIOUS
  <2>2. \A i \in 1..Len(reader.copied) : (call.at - Len(reader.copied)) + i \in 1..Len(f)
    BY <1>2, <2>1 DEF TailRead
  <2> QED
    BY <2>1, <2>2, <1>1, <1>2, <1>7 DEF TailRead
<1> QED
  BY <1>1, <1>5, <1>8, <1>9, <1>10, <1>11 DEF RInv

\* The copy starts with nothing and the size of the file.
LEMMA GetSizeRInv == ASSUME RInv, NEW q \in Requests, archive_get_size(q) PROVE RInv'
<1>1. CASE ReaderRaise
  BY <1>1, ReaderRaiseRInv
<1>2. CASE ~ReaderRaise
  <2>1. /\ name # 0 /\ reader.pc = "idle"
        /\ reader' = [pc |-> "chunk", size |-> Len(files[name]), copied |-> <<>>]
        /\ appended' = TRUE /\ UNCHANGED <<files, name, writings, call>>
    BY <1>2 DEF archive_get_size
  <2>2. name \in Inodes /\ Len(files[name]) \in Nat /\ call = NoCall
    BY <2>1, ReaderFields DEF RInv, Opened
  <2>3. reader' \in [pc : {"idle", "chunk", "seek", "read", "end", "error"}, size : Nat, copied : Seq(Bytes)]
    BY <2>1, <2>2
  <2>4. ReaderTypeOK'
    BY <2>1, <2>3 DEF RInv, ReaderTypeOK
  <2>5. reader'.pc = "chunk" /\ reader'.size = Len(files[name]) /\ reader'.copied = <<>> /\ Len(reader'.copied) = 0
    BY <2>1
  <2>6. Opened' /\ SameFile' /\ CopyGrows'
    BY <2>1, <2>2, <2>5 DEF Opened, SameFile, CopyGrows
  <2>7. ~(call'.seek < 0)
    BY <2>1, <2>2 DEF NoCall
  <2> QED
    BY <2>4, <2>6, <2>7 DEF RInv
<1> QED
  BY <1>1, <1>2

\* The file is opened, for the next chunk or for the end of the file.
LEMMA GetDataRInv ==
  ASSUME RInv, NEW q \in Requests, NEW len \in -1..MaxBytes, NEW seek \in Seeks(len),
         archive_get_data(q, seek, len)
  PROVE  RInv'
<1>1. CASE ReaderRaise
  BY <1>1, ReaderRaiseRInv
<1>2. CASE ~ReaderRaise
  <2>1. /\ name # 0 /\ reader.pc = "chunk" /\ ~(len < 0)
        /\ reader' = [reader EXCEPT !.pc = "seek"]
        /\ call' = [seek |-> seek, len |-> len, inode |-> name, at |-> 0]
        /\ UNCHANGED <<files, name, writings, appended>>
    BY <1>2 DEF archive_get_data
  <2>2. /\ len \in Nat /\ name \in Inodes /\ reader.size \in Nat
        /\ reader.copied \in Seq(Bytes) /\ Len(reader.copied) \in Nat /\ Len(files[name]) \in Nat
    BY <2>1, ReaderFields, ReaderAssumption DEF RInv
  <2>3. \/ seek = Len(reader.copied) /\ seek >= 0
        \/ reader.copied = <<>> /\ seek = -len /\ seek < 0
    BY <2>2 DEF Seeks
  <2>4. call' \in [seek : Int, len : Nat, inode : 0..MaxWritings, at : Nat]
    BY <2>1, <2>2, <2>3, ReaderAssumption DEF Inodes
  <2>5. reader'.pc = "seek" /\ reader'.size = reader.size /\ reader'.copied = reader.copied
    BY <2>1 DEF RInv, ReaderTypeOK
  <2>6. reader' \in [pc : {"idle", "chunk", "seek", "read", "end", "error"}, size : Nat, copied : Seq(Bytes)]
    BY <2>1 DEF RInv, ReaderTypeOK
  <2>7. ReaderTypeOK'
    BY <2>1, <2>4, <2>6 DEF RInv, ReaderTypeOK
  <2>8. Opened'
    BY <2>1, <2>5 DEF Opened
  <2>9. ASSUME Copying' PROVE SameFile /\ SameFile' /\ Len(reader.copied) <= Len(files[name])
    <3>1. Copying
      BY <2>1, <2>9 DEF Copying
    <3>2. SameFile /\ CopyGrows
      BY <3>1, <2>1, ReaderFields DEF RInv, TailRead
    <3> QED
      BY <3>2, <2>1, <2>5 DEF SameFile, CopyGrows
  <2>10. ASSUME Copying', call'.seek >= 0 PROVE CopyGrows'
    <3>1. CopyGrows
      BY <2>1, <2>10, ReaderFields DEF RInv, TailRead, Copying
    <3>2. seek = Len(reader.copied)
      BY <2>1, <2>2, <2>3, <2>10
    <3> QED
      BY <3>1, <3>2, <2>1, <2>5 DEF CopyGrows
  <2>11. ASSUME Copying', call'.seek < 0 PROVE TailRead'
    <3>1. reader.copied = <<>> /\ len = -seek /\ Len(reader.copied) = 0
      BY <2>1, <2>2, <2>3, <2>11
    <3> QED
      BY <3>1, <2>1, <2>2, <2>5 DEF TailRead
  <2> QED
    BY <2>7, <2>8, <2>9, <2>10, <2>11 DEF RInv
<1> QED
  BY <1>1, <1>2

\* The position in the file is set.
LEMMA SeekRInv == ASSUME RInv, fseeko PROVE RInv'
<1>1. CASE ReaderRaise
  BY <1>1, ReaderRaiseRInv
<1>2. CASE ~ReaderRaise
  <2>1. /\ reader.pc = "seek" /\ ~(SeekPosition < 0)
        /\ reader' = [reader EXCEPT !.pc = "read"] /\ call' = [call EXCEPT !.at = SeekPosition]
        /\ UNCHANGED <<files, name, writings, appended>>
    BY <1>2 DEF fseeko
  <2>2. /\ call.seek \in Int /\ call.len \in Nat /\ reader.copied \in Seq(Bytes)
        /\ Len(reader.copied) \in Nat /\ \A i \in Inodes : Len(files[i]) \in Nat
    BY ReaderFields DEF RInv
  <2>3. call.inode \in Inodes
    BY <2>1, ReaderFields, ReaderAssumption DEF RInv, Opened, Inodes
  <2>4. SeekPosition \in Nat
    BY <2>1, <2>2, <2>3 DEF SeekPosition
  <2>5. /\ reader'.pc = "read" /\ reader'.size = reader.size /\ reader'.copied = reader.copied
        /\ call'.seek = call.seek /\ call'.len = call.len /\ call'.inode = call.inode
        /\ call'.at = SeekPosition
    BY <2>1 DEF RInv, ReaderTypeOK
  <2>6. ReaderTypeOK'
    BY <2>1, <2>4 DEF RInv, ReaderTypeOK
  <2>7. Opened'
    BY <2>1, <2>5 DEF RInv, Opened
  <2>8. ASSUME Copying' PROVE Copying /\ SameFile /\ SameFile'
    BY <2>1, <2>5, <2>8 DEF RInv, Copying, SameFile
  <2>9. ASSUME Copying', call'.seek >= 0 PROVE CopyGrows'
    <3>1. CopyGrows
      BY <2>5, <2>8, <2>9 DEF RInv
    <3> QED
      BY <3>1, <2>1, <2>2, <2>5, <2>9 DEF CopyGrows, SeekPosition
  <2>10. ASSUME Copying', call'.seek < 0 PROVE TailRead'
    <3>1. TailRead /\ name = call.inode
      BY <2>1, <2>5, <2>8, <2>10 DEF RInv, SameFile
    <3>2. SeekPosition = Len(files[name]) + call.seek /\ reader.copied = <<>> /\ call.len = -call.seek
      BY <3>1, <2>1, <2>2, <2>5, <2>10 DEF TailRead, SeekPosition
    <3> QED
      BY <3>1, <3>2, <2>1, <2>2, <2>3, <2>4, <2>5, <2>10 DEF TailRead
  <2> QED
    BY <2>6, <2>7, <2>8, <2>9, <2>10 DEF RInv
<1> QED
  BY <1>1, <1>2

\* One byte more is copied: the one after those that are.
LEMMA ReadByteRInv == ASSUME RInv, ReadByte PROVE RInv'
<1> DEFINE byte == files[call.inode][call.at + 1]
           n == Len(reader.copied)
<1>1. /\ reader.pc = "read" /\ call.len > 0 /\ call.at < Len(files[call.inode])
      /\ reader' = [reader EXCEPT !.copied = Append(reader.copied, byte)]
      /\ call' = [call EXCEPT !.at = call.at + 1, !.len = call.len - 1]
      /\ UNCHANGED <<files, name, writings, appended>>
  BY DEF ReadByte, MoreToRead
<1>2. /\ reader.size \in Nat /\ call.seek \in Int /\ call.len \in Nat /\ call.at \in Nat
      /\ reader.copied \in Seq(Bytes) /\ n \in Nat
      /\ \A i \in Inodes : files[i] \in Seq(Bytes) /\ Len(files[i]) \in Nat
  BY ReaderFields DEF RInv
<1>3. call.inode \in Inodes
  BY <1>1, ReaderFields, ReaderAssumption DEF RInv, Opened, Inodes
<1>4. byte \in Bytes
  <2>1. files[call.inode] \in Seq(Bytes) /\ call.at + 1 \in 1..Len(files[call.inode])
    BY <1>1, <1>2, <1>3
  <2> QED
    BY <2>1
<1>5. /\ Append(reader.copied, byte) \in Seq(Bytes) /\ Len(Append(reader.copied, byte)) = n + 1
      /\ \A i \in 1..n : Append(reader.copied, byte)[i] = reader.copied[i]
      /\ Append(reader.copied, byte)[n + 1] = byte
  BY <1>2, <1>4, AppendFacts
<1>6. /\ reader'.pc = "read" /\ reader'.size = reader.size /\ reader'.copied = Append(reader.copied, byte)
      /\ call'.seek = call.seek /\ call'.len = call.len - 1 /\ call'.inode = call.inode
      /\ call'.at = call.at + 1
  BY <1>1 DEF RInv, ReaderTypeOK
<1>7. ReaderTypeOK'
  <2>1. reader' \in [pc : {"idle", "chunk", "seek", "read", "end", "error"}, size : Nat, copied : Seq(Bytes)]
    BY <1>1, <1>5 DEF RInv, ReaderTypeOK
  <2>2. call' \in [seek : Int, len : Nat, inode : 0..MaxWritings, at : Nat]
    <3>1. call.at + 1 \in Nat /\ call.len - 1 \in Nat
      BY <1>1, <1>2
    <3> QED
      BY <3>1, <1>1 DEF RInv, ReaderTypeOK
  <2> QED
    BY <1>1, <2>1, <2>2 DEF RInv, ReaderTypeOK
<1>8. Opened'
  BY <1>1, <1>6 DEF RInv, Opened
<1>9. ASSUME Copying' PROVE Copying /\ SameFile /\ SameFile' /\ name = call.inode
  BY <1>1, <1>6, <1>9 DEF RInv, Copying, SameFile
<1>10. ASSUME Copying', call'.seek >= 0 PROVE CopyGrows'
  <2>1. CopyGrows /\ name = call.inode /\ call.at = n
    BY <1>1, <1>6, <1>9, <1>10 DEF RInv, CopyGrows
  <2>2. Len(reader'.copied) = n + 1 /\ n + 1 <= Len(files[name])
    BY <2>1, <1>1, <1>2, <1>3, <1>5, <1>6
  <2>3. \A i \in 1..(n + 1) : reader'.copied[i] = files[name][i]
    <3>1. SUFFICES ASSUME NEW i \in 1..(n + 1) PROVE reader'.copied[i] = files[name][i]
      OBVIOUS
    <3>2. CASE i <= n
      BY <3>2, <2>1, <1>2, <1>5, <1>6 DEF CopyGrows
    <3>3. CASE i = n + 1
      BY <3>3, <2>1, <1>5, <1>6
    <3> QED
      BY <3>2, <3>3, <1>2
  <2> QED
    BY <2>1, <2>2, <2>3, <1>1, <1>6 DEF CopyGrows
<1>11. ASSUME Copying', call'.seek < 0 PROVE TailRead'
  <2>1. TailRead /\ name = call.inode
    BY <1>1, <1>6, <1>9, <1>11 DEF RInv
  <2>2. n <= call.at /\ call.at + call.len <= Len(files[name])
    BY <2>1, <1>1 DEF TailRead
  <2>3. /\ Len(reader'.copied) = n + 1 /\ call'.at = call.at + 1 /\ n + 1 <= call.at + 1
        /\ call.at + 1 <= Len(files[name])
        /\ (call.at + 1) + (call.len - 1) <= Len(files[name])
        /\ (call.at + 1) - (n + 1) = call.at - n
    <3>1. Len(reader'.copied) = n + 1 /\ call'.at = call.at + 1 /\ Len(files[name]) \in Nat
      BY <2>1, <1>2, <1>3, <1>5, <1>6
    <3>2. n \in Nat /\ call.at \in Nat /\ call.len \in Nat /\ call.len > 0
      BY <1>1, <1>2
    <3>3. call.at + 1 <= Len(files[name]) /\ (call.at + 1) + (call.len - 1) <= Len(files[name])
      BY <3>1, <3>2, <2>2
    <3>4. n + 1 <= call.at + 1 /\ (call.at + 1) - (n + 1) = call.at - n
      BY <3>2, <2>2
    <3> QED
      BY <3>1, <3>3, <3>4
  <2>4. \A i \in 1..(n + 1) : reader'.copied[i] = files[name][(call.at - n) + i]
    <3>1. SUFFICES ASSUME NEW i \in 1..(n + 1) PROVE reader'.copied[i] = files[name][(call.at - n) + i]
      OBVIOUS
    <3>2. CASE i <= n
      BY <3>2, <2>1, <1>2, <1>5, <1>6 DEF TailRead
    <3>3. CASE i = n + 1
      <4>1. (call.at - n) + i = call.at + 1
        BY <3>3, <1>2
      <4> QED
        BY <4>1, <3>3, <2>1, <1>5, <1>6
    <3> QED
      BY <3>2, <3>3, <1>2
  <2>5. \A i \in 1..Len(reader'.copied) :
          reader'.copied[i] = files[name][(call'.at - Len(reader'.copied)) + i]
    BY <2>3, <2>4
  <2> QED
    BY <2>3, <2>5, <1>1, <1>6 DEF TailRead
<1> QED
  BY <1>7, <1>8, <1>9, <1>10, <1>11 DEF RInv

\* The call returns: a copy stops at the size it was told or at the end of the file,
\* which lies beyond, and a read from the end when it has all it asked for.
LEMMA ReadEndRInv == ASSUME RInv, ReadEnd PROVE RInv'
<1> DEFINE ended == call.seek < 0 \/ call.len > 0 \/ Len(reader.copied) >= reader.size
<1>1. /\ reader.pc = "read" /\ ~(call.len > 0 /\ call.at < Len(files[call.inode]))
      /\ reader' = [reader EXCEPT !.pc = IF ended THEN "end" ELSE "chunk"]
      /\ UNCHANGED <<files, name, writings, call, appended>>
  BY DEF ReadEnd, MoreToRead
<1>2. /\ reader.size \in Nat /\ call.seek \in Int /\ call.len \in Nat /\ call.at \in Nat
      /\ Len(reader.copied) \in Nat /\ \A i \in Inodes : Len(files[i]) \in Nat
  BY ReaderFields DEF RInv
<1>3. call.inode \in Inodes
  BY <1>1, ReaderFields, ReaderAssumption DEF RInv, Opened, Inodes
<1>4. /\ reader'.pc = IF ended THEN "end" ELSE "chunk"
      /\ reader'.size = reader.size /\ reader'.copied = reader.copied
  BY <1>1 DEF RInv, ReaderTypeOK
<1>5. ReaderTypeOK'
  BY <1>1 DEF RInv, ReaderTypeOK
<1>6. Opened'
  BY <1>1, <1>4 DEF Opened
<1>7. ASSUME Copying' PROVE Copying /\ SameFile /\ SameFile' /\ name = call.inode
  <2>1. Copying
    BY <1>1, <1>7 DEF Copying
  <2> QED
    BY <2>1, <1>1, <1>4 DEF RInv, SameFile
<1>8. ASSUME Copying', call'.seek >= 0 PROVE CopyGrows'
  <2>1. CopyGrows /\ name = call.inode /\ reader.size <= Len(files[name]) /\ call.at = Len(reader.copied)
    BY <1>1, <1>7, <1>8 DEF RInv, CopyGrows, SameFile
  <2>2. ended => Len(reader.copied) >= reader.size
    BY <2>1, <1>1, <1>2, <1>3, <1>8
  <2> HIDE DEF ended
  <2> QED
    BY <2>1, <2>2, <1>1, <1>4 DEF CopyGrows
<1>9. ASSUME Copying', call'.seek < 0 PROVE TailRead'
  <2>1. TailRead /\ name = call.inode /\ ended
    BY <1>1, <1>7, <1>9 DEF RInv
  <2>2. call.len = 0
    BY <2>1, <1>1, <1>2, <1>3 DEF TailRead
  <2> HIDE DEF ended
  <2> QED
    BY <2>1, <2>2, <1>1, <1>4 DEF TailRead
<1> QED
  BY <1>5, <1>6, <1>7, <1>8, <1>9 DEF RInv

LEMMA ReaderNextRInv == ASSUME RInv, [ReaderNext]_readerVars PROVE RInv'
<1>1. CASE UNCHANGED readerVars
  BY <1>1 DEF readerVars, RInv, ReaderTypeOK, Opened, Copying, SameFile, CopyGrows, TailRead
<1>2. CASE (\E length \in 0..MaxBytes : ArchiveCreate(length)) \/ ArchiveOverwrite \/ ArchiveRemove
  BY <1>2, ArchiveRInv
<1>3. CASE ArchiveAppend
  BY <1>3, ArchiveAppendRInv
<1>4. CASE \E q \in Requests : archive_get_size(q)
  BY <1>4, GetSizeRInv
<1>5. CASE \E q \in Requests : \E len \in -1..MaxBytes : \E seek \in Seeks(len) : archive_get_data(q, seek, len)
  BY <1>5, GetDataRInv
<1>6. CASE fseeko
  BY <1>6, SeekRInv
<1>7. CASE ReadByte
  BY <1>7, ReadByteRInv
<1>8. CASE ReadEnd
  BY <1>8, ReadEndRInv
<1> QED
  BY <1>1, <1>2, <1>3, <1>4, <1>5, <1>6, <1>7, <1>8 DEF ReaderNext

\* What is copied byte by byte is the start of the file, or the stretch from where
\* the read started.
LEMMA RInvCopyIsFile == ASSUME RInv PROVE CopyIsFile
<1> DEFINE f == files[name]
           c == reader.copied
           n == Len(reader.copied)
<1>1. /\ c \in Seq(Bytes) /\ n \in Nat /\ reader.size \in Nat /\ call.at \in Nat /\ call.seek \in Int
  BY ReaderFields DEF RInv
<1>2. ASSUME Copying, call.seek >= 0
      PROVE  IsPrefix(c, f) /\ (reader.pc = "end" => n >= reader.size)
  <2>1. CopyGrows /\ name \in Inodes /\ f \in Seq(Bytes) /\ Len(f) \in Nat
    BY <1>2, ReaderFields DEF RInv, SameFile
  <2>2. /\ n <= Len(f) /\ \A i \in 1..n : c[i] = f[i]
        /\ reader.pc = "end" => n >= reader.size
    BY <2>1 DEF CopyGrows
  <2>3. SubSeq(c, 1, n) = c
    BY <1>1, SubSeqFull
  <2>4. \A i \in 1..n : f[i] \in Bytes
    BY <2>1, <2>2, <1>1
  <2>5. /\ SubSeq(f, 1, n) \in Seq(Bytes) /\ Len(SubSeq(f, 1, n)) = n
        /\ \A i \in 1..n : SubSeq(f, 1, n)[i] = f[i]
    <3> HIDE DEF f, n
    <3>1. /\ SubSeq(f, 1, n) \in Seq(Bytes) /\ Len(SubSeq(f, 1, n)) = IF 1 <= n THEN n - 1 + 1 ELSE 0
          /\ \A i \in 1..(n - 1 + 1) : SubSeq(f, 1, n)[i] = f[1 + i - 1]
      BY <2>4, <1>1, SubSeqProperties
    <3> QED
      BY <3>1, <1>1
  <2>6. c = SubSeq(f, 1, n)
    BY <2>2, <2>5, <1>1, SeqEqual
  <2> QED
    BY <2>2, <2>3, <2>6 DEF IsPrefix
<1>3. ASSUME Copying, call.seek < 0
      PROVE  c = SubSeq(f, call.at - n + 1, call.at) /\ (reader.pc = "end" => call.len = 0)
  <2>1. TailRead /\ name \in Inodes /\ f \in Seq(Bytes) /\ Len(f) \in Nat
    BY <1>3, ReaderFields DEF RInv, SameFile
  <2>2. /\ n <= call.at /\ call.at <= Len(f) /\ \A i \in 1..n : c[i] = f[(call.at - n) + i]
        /\ reader.pc = "end" => call.len = 0
    BY <2>1 DEF TailRead
  <2> DEFINE b == call.at - n + 1
             e == call.at
  <2>3. b \in Int /\ e \in Int /\ \A i \in b..e : f[i] \in Bytes
    BY <2>1, <2>2, <1>1
  <2>4. e - b + 1 = n /\ (b <= e => n = e - b + 1) /\ (~(b <= e) => n = 0)
        /\ \A i \in 1..n : b + i - 1 = (call.at - n) + i
    BY <2>2, <1>1
  <2>5. /\ SubSeq(f, b, e) \in Seq(Bytes) /\ Len(SubSeq(f, b, e)) = n
        /\ \A i \in 1..n : SubSeq(f, b, e)[i] = c[i]
    <3> HIDE DEF f, n, b, e, c
    <3>1. /\ SubSeq(f, b, e) \in Seq(Bytes) /\ Len(SubSeq(f, b, e)) = IF b <= e THEN e - b + 1 ELSE 0
          /\ \A i \in 1..(e - b + 1) : SubSeq(f, b, e)[i] = f[b + i - 1]
      BY <2>3, SubSeqProperties
    <3> QED
      BY <3>1, <2>2, <2>4
  <2>6. c = SubSeq(f, b, e)
    BY <2>5, <1>1, SeqEqual
  <2> QED
    BY <2>2, <2>6
<1>4. call.seek >= 0 \/ call.seek < 0
  BY <1>1
<1> QED
  BY <1>1, <1>2, <1>3, <1>4 DEF CopyIsFile, Copying

-----------------------------------------------------------------------------
(* The session.                                                            *)

LEMMA SessionInvariant == SessionSpec => [](IInv /\ RInv)
<1>1. SessionInit => IInv /\ RInv
  <2>1. SUFFICES ASSUME SessionInit PROVE IInv /\ RInv
    OBVIOUS
  <2>2. IInv
    BY <2>1, EmptyIInv DEF SessionInit, Init
  <2>3. NoCall \in [seek : Int, len : Nat, inode : 0..MaxWritings, at : Nat]
    BY ReaderAssumption DEF NoCall
  <2>4. Idle \in [pc : {"idle", "chunk", "seek", "read", "end", "error"}, size : Nat, copied : Seq(Bytes)]
    BY DEF Idle
  <2>5. files \in [Inodes -> Seq(Bytes)] /\ writings \in 0..MaxWritings /\ name \in 0..writings
    BY <2>1, ReaderAssumption DEF SessionInit, ReaderInit
  <2>6. ReaderTypeOK
    BY <2>1, <2>3, <2>4, <2>5 DEF SessionInit, ReaderInit, ReaderTypeOK
  <2>7. reader.pc = "idle" /\ call = NoCall
    BY <2>1 DEF SessionInit, ReaderInit, Idle
  <2>8. RInv
    BY <2>6, <2>7 DEF RInv, Opened, Copying
  <2> QED
    BY <2>2, <2>8
<1>2. IInv /\ RInv /\ [SessionNext]_sessionVars => IInv' /\ RInv'
  <2>1. SUFFICES ASSUME IInv, RInv, [SessionNext]_sessionVars PROVE IInv' /\ RInv'
    OBVIOUS
  <2>2. [Next]_vars /\ [ReaderNext]_readerVars
    BY <2>1 DEF SessionNext, sessionVars
  <2> QED
    BY <2>1, <2>2, NextIInv, ReaderNextRInv
<1> QED
  BY <1>1, <1>2, PTL DEF SessionSpec

\* Whatever the history file and the arguments, positions and segment numbers stay in
\* the width of an LSN.
THEOREM TypeCorrect == SessionSpec => []TypeOK
<1>1. IInv => TypeOK
  BY DEF IInv
<1> QED
  BY <1>1, SessionInvariant, PTL

\* archive_build_segment_list: for every segment size and every lineage, the list is
\* without gap or repetition, from the segment of the origin to that of the last byte.
THEOREM ListsEverySegment == SessionSpec => []ListConsecutive
<1>1. IInv => ListConsecutive
  BY DEF IInv
<1> QED
  BY <1>1, SessionInvariant, PTL

\* archive_build_segment_list: with the listed segments a standby reaches the target
\* from the origin, when no timeline ended exactly with a segment.
THEOREM ListReaches == SessionSpec => []ReachesInside
<1>1. IInv => ReachesInside
  BY DEF IInv
<1> QED
  BY <1>1, SessionInvariant, PTL

\* archive_get_size and archive_get_data: as long as the file only grows, what was
\* copied in chunks is the start of the file, or the end it had.
THEOREM CopyFaithful == SessionSpec => []CopyIsFile
  BY RInvCopyIsFile, SessionInvariant, PTL
=============================================================================

--------------------------- MODULE Recovery_proofs ---------------------------
(***************************************************************************)
(* Proofs about the extensions that write WAL, for every relation, number  *)
(* of sessions, log and number of crashes of the primary and the standby.  *)
(***************************************************************************)
EXTENDS Recovery, FiniteSetTheorems, WellFoundedInduction, TLAPS

-----------------------------------------------------------------------------
(* The inductive invariant: types and shapes.                              *)

Values == {"KILL", "HUP", "INT", "TERM"}
Images == {<<>>} \cup UNION {[S -> Contents] : S \in SUBSET Blocks}
Records ==
  [kind : {"signal", "image", "message", "truncate_fsm"}, signal : Values \cup {"none"},
   call : Nat, image : Images]

Copies == UNION {[S -> [content : Contents, lsn : Nat]] : S \in SUBSET Blocks}
OpTypes ==
  [kind : {"none", "swap", "write", "custom"}, phase : Phases, first : Nat, second : Nat,
   asked : {<<>>} \cup (Nat \X Nat), copy : {<<>>} \cup Copies, left : Nat, call : Nat, lsn : Nat]

\* What is on disk stays in the log: nothing replayed can be cut off, and all of the log
\* is on disk while the primary is not up.
LogShape ==
  /\ wal \in Seq(Records) /\ \A i \in 1..Len(wal) : wal[i].kind = "signal" => wal[i].signal \in Values
  /\ replayed \in [Servers -> 0..flushed] /\ redo["standby"] <= replayed["standby"]
  /\ pending \in [Servers -> SUBSET Values]
  /\ status["standby"] # "up" /\ (status["primary"] # "up" => flushed = Len(wal))

\* A swap that has copied its pages.
Swapping(b) == op[b].kind = "swap" /\ op[b].phase \in {"register2", "apply1", "apply2", "insert"}

CallShape(b) ==
  /\ op[b].kind = "none" => op[b] = NoOp
  /\ op[b].kind = "custom" => op[b].phase = "loop"
  /\ op[b].kind = "write" =>
       /\ op[b].phase \in {"lock1", "lock2", "register"} /\ Mine(b) \subseteq Blocks
       /\ op[b].first <= op[b].second
  /\ op[b].kind = "swap" =>
       /\ op[b].phase \in {"lock1", "lock2", "register", "register2", "apply1", "apply2", "insert"}
       /\ Mine(b) \subseteq Blocks /\ op[b].asked = <<op[b].first, op[b].second>>
  /\ Swapping(b) => op[b].copy \in [Mine(b) -> [content : Contents, lsn : 0..Len(wal)]]

CallsShape ==
  /\ op \in [Sessions -> OpTypes] /\ \A b \in Sessions : CallShape(b)
  /\ status["primary"] # "up" => \A b \in Sessions : op[b] = NoOp

\* A block that a writer holds no other session holds.
LocksExclude ==
  \A b, c \in Sessions : \A blk \in Blocks :
    b # c /\ Holds(b, blk) /\ Holds(c, blk) => op[b].kind # "write"

-----------------------------------------------------------------------------
(* custom_wal.                                                             *)

Logged(log, call) == {i \in 1..Len(log) : log[i].kind = "message" /\ log[i].call = call}

\* A call in progress has its own number, and has logged what it has not left.
InProgress(b) ==
  op[b].kind = "custom" =>
    /\ op[b].call \in 1..Len(calls) /\ ~calls[op[b].call].returned
    /\ op[b].left <= calls[op[b].call].number
    /\ Cardinality(Logged(wal, op[b].call)) = calls[op[b].call].number - op[b].left
    /\ \A i \in Logged(wal, op[b].call) : i <= op[b].lsn
    /\ op[b].lsn <= Len(wal)
    /\ \A c \in Sessions : c # b /\ op[c].kind = "custom" => op[c].call # op[b].call

CustomShape ==
  /\ calls \in Seq([number : Nat, returned : BOOLEAN])
  /\ \A i \in 1..Len(wal) : wal[i].kind = "message" => wal[i].call \in 1..Len(calls)
  /\ \A b \in Sessions : InProgress(b)
  /\ \A call \in 1..Len(calls) : calls[call].returned =>
       /\ Cardinality(Logged(wal, call)) = calls[call].number
       /\ \A i \in Logged(wal, call) : i <= flushed

-----------------------------------------------------------------------------
(* The free space map.                                                     *)

MapShape ==
  /\ Blocks \subseteq fsm["primary"]
  /\ \/ \E i \in 1..flushed : wal[i].kind = "truncate_fsm"
     \/ MapBlocks \ MapTail \subseteq fsm["primary"]
  /\ \A i \in 1..replayed["standby"] :
       wal[i].kind = "truncate_fsm" => fsm["standby"] \subseteq Blocks \cup MapTail

-----------------------------------------------------------------------------
(* The pages.                                                              *)

\* v is the content of the block after the first n records: that of its last image, or
\* the initial one.
Shows(log, blk, n, v) ==
  \/ v = <<blk, 0>> /\ \A i \in 1..n : blk \notin DOMAIN log[i].image
  \/ \E i \in 1..n : /\ blk \in DOMAIN log[i].image /\ v = log[i].image[blk]
                     /\ \A j \in (i + 1)..n : blk \notin DOMAIN log[j].image

\* A page on disk is as some record between the start of recovery and the end of what
\* is on disk left it; a page of a recovering server may be ahead of it, never behind.
DiskKnown ==
  \A s \in Servers, blk \in Blocks : \E m \in redo[s]..flushed : Shows(wal, blk, m, disk[s][blk])
RecoveryAhead ==
  \A s \in Servers : status[s] = "recovering" =>
    \A blk \in Blocks : \E m \in replayed[s]..flushed : Shows(wal, blk, m, pages[s][blk])

\* The pages of a primary that is up are as the log left them, but for swaps that have
\* not been logged; what of a page is not on disk its LSN covers.
UpCurrent ==
  status["primary"] = "up" =>
    \A blk \in Blocks : ~Unlogged(blk) =>
      /\ Shows(wal, blk, Len(wal), pages["primary"][blk])
      /\ \A i \in 1..Len(wal) : blk \in DOMAIN wal[i].image => i <= flushed \/ i <= lsn[blk]

\* Swaps past the copying of the pages share no block; their copies are the pages as
\* the log left them, exchanged.
SwapsApart == \A b, c \in Sessions : b # c /\ Swapping(b) /\ Swapping(c) => Mine(b) \cap Mine(c) = {}
SwapCurrent ==
  \A b \in Sessions : Swapping(b) =>
    LET one == op[b].copy[op[b].first].content
        two == op[b].copy[op[b].second].content
    IN /\ Shows(wal, op[b].first, Len(wal), two)
       /\ op[b].phase # "register2" => Shows(wal, op[b].second, Len(wal), one)
       /\ op[b].phase \notin {"register2", "apply1"} => pages["primary"][op[b].first] = one
       /\ op[b].phase = "insert" => pages["primary"][op[b].second] = two

\* After each record every page is in some block.
Permuted ==
  \A n \in 0..Len(wal) : \A blk \in Blocks : \E at \in Blocks : \E k \in Nat : Shows(wal, at, n, <<blk, k>>)

PagesShape ==
  /\ DiskKnown /\ RecoveryAhead /\ UpCurrent /\ SwapsApart /\ SwapCurrent /\ Permuted

IInv ==
  /\ TypeOK /\ LogShape /\ CallsShape /\ LocksExclude /\ CustomShape /\ MapShape
  /\ ~exposed => PagesShape

-----------------------------------------------------------------------------
(* Numbers and records.                                                    *)

LEMMA MaxTwo ==
  ASSUME NEW a \in Nat, NEW b \in Nat
  PROVE  Max({a, b}) \in Nat /\ Max({a, b}) >= a /\ Max({a, b}) >= b /\ Max({a, b}) \in {a, b}
<1>1. \E x \in {a, b} : \A y \in {a, b} : x >= y
  OBVIOUS
<1>2. Max({a, b}) \in {a, b} /\ \A y \in {a, b} : Max({a, b}) >= y
  BY <1>1 DEF Max
<1> QED
  BY <1>2

LEMMA MinTwo ==
  ASSUME NEW a \in Nat, NEW b \in Nat
  PROVE  Min({a, b}) \in Nat /\ Min({a, b}) <= a /\ Min({a, b}) <= b /\ Min({a, b}) \in {a, b}
<1>1. \E x \in {a, b} : \A y \in {a, b} : x <= y
  OBVIOUS
<1>2. Min({a, b}) \in {a, b} /\ \A y \in {a, b} : Min({a, b}) <= y
  BY <1>1 DEF Min
<1> QED
  BY <1>2

LEMMA ImageType ==
  ASSUME NEW image \in Images
  PROVE  DOMAIN image \subseteq Blocks /\ \A blk \in DOMAIN image : image[blk] \in Contents
<1>1. CASE image = <<>>
  BY <1>1
<1>2. ASSUME NEW S \in SUBSET Blocks, image \in [S -> Contents]
      PROVE  DOMAIN image \subseteq Blocks /\ \A blk \in DOMAIN image : image[blk] \in Contents
  BY <1>2
<1> QED
  BY <1>1, <1>2 DEF Images

LEMMA ImageMade ==
  ASSUME NEW S \in SUBSET Blocks, NEW image \in [S -> Contents]
  PROVE  image \in Images
  BY DEF Images

LEMMA CopyMade ==
  ASSUME NEW S \in SUBSET Blocks, NEW copy \in [S -> [content : Contents, lsn : Nat]]
  PROVE  copy \in Copies
  BY DEF Copies

LEMMA RecordType ==
  ASSUME NEW kind \in {"signal", "image", "message", "truncate_fsm"}
  PROVE  /\ Record(kind) \in Records /\ Record(kind).kind = kind /\ Record(kind).image = <<>>
         /\ DOMAIN Record(kind).image = {}
<1>1. <<>> \in Images /\ DOMAIN <<>> = {}
  BY DEF Images
<1> QED
  BY <1>1 DEF Record, Records

LEMMA BlocksNat == Blocks \subseteq Nat
  BY WalLogAssumption

\* The log with one more record.
LEMMA AppendLog ==
  ASSUME NEW log \in Seq(Records), NEW r \in Records
  PROVE  /\ Append(log, r) \in Seq(Records) /\ Len(log) \in Nat /\ Len(Append(log, r)) = Len(log) + 1
         /\ Append(log, r)[Len(log) + 1] = r /\ \A i \in 1..Len(log) : Append(log, r)[i] = log[i]
  OBVIOUS

\* The log that a crash leaves.
LEMMA CutLog ==
  ASSUME NEW log \in Seq(Records), NEW n \in 0..Len(log)
  PROVE  /\ SubSeq(log, 1, n) \in Seq(Records) /\ Len(SubSeq(log, 1, n)) = n
         /\ \A i \in 1..n : SubSeq(log, 1, n)[i] = log[i]
<1>1. \A i \in 1..n : log[i] \in Records
  OBVIOUS
<1> QED
  BY <1>1

-----------------------------------------------------------------------------
(* What the log says of a block.                                           *)

LEMMA ShowsUnique ==
  ASSUME NEW log, NEW blk, NEW n \in Nat, NEW v, NEW w, Shows(log, blk, n, v), Shows(log, blk, n, w)
  PROVE  v = w
<1>1. ASSUME NEW i \in 1..n, blk \in DOMAIN log[i].image, v = log[i].image[blk],
             \A j \in (i + 1)..n : blk \notin DOMAIN log[j].image,
             NEW k \in 1..n, blk \in DOMAIN log[k].image, w = log[k].image[blk],
             \A j \in (k + 1)..n : blk \notin DOMAIN log[j].image
      PROVE  v = w
  <2>1. ~(i < k) /\ ~(k < i)
    BY <1>1
  <2>2. i = k
    BY <2>1
  <2> QED
    BY <2>2, <1>1
<1> QED
  BY <1>1 DEF Shows

\* Logs that agree up to there.
LEMMA ShowsSame ==
  ASSUME NEW log, NEW more, NEW blk, NEW n \in Nat, NEW v, Shows(log, blk, n, v),
         \A i \in 1..n : more[i] = log[i]
  PROVE  Shows(more, blk, n, v)
<1>1. CASE v = <<blk, 0>> /\ \A i \in 1..n : blk \notin DOMAIN log[i].image
  BY <1>1 DEF Shows
<1>2. ASSUME NEW i \in 1..n, blk \in DOMAIN log[i].image, v = log[i].image[blk],
             \A j \in (i + 1)..n : blk \notin DOMAIN log[j].image
      PROVE  Shows(more, blk, n, v)
  <2>1. \A j \in (i + 1)..n : more[j] = log[j]
    BY <1>2
  <2> QED
    BY <1>2, <2>1 DEF Shows
<1> QED
  BY <1>1, <1>2 DEF Shows

\* Records without an image of the block make no difference.
LEMMA ShowsOn ==
  ASSUME NEW log, NEW blk, NEW n \in Nat, NEW m \in Nat, n <= m, NEW v, Shows(log, blk, n, v),
         \A i \in (n + 1)..m : blk \notin DOMAIN log[i].image
  PROVE  Shows(log, blk, m, v)
<1>1. \A i \in 1..m : i \in 1..n \/ i \in (n + 1)..m
  OBVIOUS
<1>2. CASE v = <<blk, 0>> /\ \A i \in 1..n : blk \notin DOMAIN log[i].image
  BY <1>1, <1>2 DEF Shows
<1>3. ASSUME NEW i \in 1..n, blk \in DOMAIN log[i].image, v = log[i].image[blk],
             \A j \in (i + 1)..n : blk \notin DOMAIN log[j].image
      PROVE  Shows(log, blk, m, v)
  <2>1. \A j \in (i + 1)..m : j \in (i + 1)..n \/ j \in (n + 1)..m
    OBVIOUS
  <2>2. i \in 1..m /\ \A j \in (i + 1)..m : blk \notin DOMAIN log[j].image
    BY <2>1, <1>3
  <2> QED
    BY <1>3, <2>2 DEF Shows
<1> QED
  BY <1>2, <1>3 DEF Shows

LEMMA ShowsBack ==
  ASSUME NEW log, NEW blk, NEW n \in Nat, NEW m \in Nat, n <= m, NEW v, Shows(log, blk, m, v),
         \A i \in 1..m : blk \in DOMAIN log[i].image => i <= n
  PROVE  Shows(log, blk, n, v)
<1>1. CASE v = <<blk, 0>> /\ \A i \in 1..m : blk \notin DOMAIN log[i].image
  BY <1>1 DEF Shows
<1>2. ASSUME NEW i \in 1..m, blk \in DOMAIN log[i].image, v = log[i].image[blk],
             \A j \in (i + 1)..m : blk \notin DOMAIN log[j].image
      PROVE  Shows(log, blk, n, v)
  <2>1. i \in 1..n /\ \A j \in (i + 1)..n : j \in (i + 1)..m
    BY <1>2
  <2> QED
    BY <2>1, <1>2 DEF Shows
<1> QED
  BY <1>1, <1>2 DEF Shows

LEMMA ShowsImage ==
  ASSUME NEW log, NEW blk, NEW n \in Nat \ {0}, blk \in DOMAIN log[n].image
  PROVE  Shows(log, blk, n, log[n].image[blk])
<1>1. n \in 1..n /\ \A j \in (n + 1)..n : FALSE
  OBVIOUS
<1> QED
  BY <1>1 DEF Shows

-----------------------------------------------------------------------------
(* Steps that leave a part of the state alone.                             *)

LEMMA Basics ==
  ASSUME TypeOK, LogShape
  PROVE  /\ wal \in Seq(Records) /\ Len(wal) \in Nat /\ flushed \in Nat /\ flushed <= Len(wal)
         /\ \A s \in Servers : /\ redo[s] \in Nat /\ redo[s] <= flushed
                               /\ replayed[s] \in Nat /\ replayed[s] <= flushed
         /\ \A i \in 1..Len(wal) : wal[i] \in Records
<1>1. wal \in Seq(Records)
  BY DEF LogShape
<1>2. Len(wal) \in Nat /\ \A i \in 1..Len(wal) : wal[i] \in Records
  BY <1>1
<1>3. flushed \in 0..Len(wal)
  BY DEF TypeOK
<1>4. flushed \in Nat /\ flushed <= Len(wal)
  BY <1>2, <1>3
<1>5. \A s \in Servers : redo[s] \in 0..flushed /\ replayed[s] \in 0..flushed
  BY DEF TypeOK, LogShape
<1> QED
  BY <1>1, <1>2, <1>4, <1>5

\* The log keeps its records.
Kept == /\ wal' \in Seq(Records) /\ Len(wal) <= Len(wal') /\ \A i \in 1..Len(wal) : wal'[i] = wal[i]

\* It gets no record, or one that the predicate allows.
Quiet == \/ wal' = wal
         \/ \E r \in Records : wal' = Append(wal, r) /\ DOMAIN r.image = {}
NoMessage == \/ wal' = wal
             \/ \E r \in Records : wal' = Append(wal, r) /\ r.kind # "message"

LEMMA AppendKept ==
  ASSUME TypeOK, LogShape, wal' = wal \/ \E r \in Records : wal' = Append(wal, r)
  PROVE  Kept
  BY Basics, AppendLog DEF Kept

LEMMA CallsFrame ==
  ASSUME CallsShape, LocksExclude, Len(wal) \in Nat, Len(wal') \in Nat, Len(wal) <= Len(wal'),
         op' = op, status'["primary"] # "up" => status["primary"] # "up"
  PROVE  CallsShape' /\ LocksExclude'
<1>1. ASSUME NEW b \in Sessions PROVE CallShape(b)'
  <2>1. CallShape(b)
    BY DEF CallsShape
  <2>2. \A S : [S -> [content : Contents, lsn : 0..Len(wal)]]
                 \subseteq [S -> [content : Contents, lsn : 0..Len(wal')]]
    <3>1. 0..Len(wal) \subseteq 0..Len(wal')
      OBVIOUS
    <3>2. [content : Contents, lsn : 0..Len(wal)] \subseteq [content : Contents, lsn : 0..Len(wal')]
      BY <3>1
    <3> QED
      BY <3>2
  <2> QED
    BY <2>1, <2>2 DEF CallShape, Swapping, Mine
<1> QED
  BY <1>1 DEF CallsShape, LocksExclude, Holds

LEMMA CallsKilled ==
  ASSUME op' = [b \in Sessions |-> NoOp]
  PROVE  CallsShape' /\ LocksExclude'
<1>1. NoOp \in OpTypes /\ NoOp.kind = "none"
  BY DEF NoOp, OpTypes, Phases
<1>2. \A b \in Sessions : CallShape(b)'
  BY <1>1 DEF CallShape, Swapping
<1>3. LocksExclude'
  BY <1>1 DEF LocksExclude, Holds
<1> QED
  BY <1>1, <1>2, <1>3 DEF CallsShape

\* Which calls of custom_wal are in progress, and how far.
SameCustom == \A b \in Sessions : op[b].kind = "custom" \/ op'[b].kind = "custom" => op'[b] = op[b]

LEMMA CustomFrame ==
  ASSUME TypeOK, LogShape, CallsShape, CustomShape, calls' = calls, SameCustom, NoMessage,
         flushed' \in Nat, flushed <= flushed'
  PROVE  CustomShape'
<1>1. /\ Len(wal') \in Nat /\ Len(wal) \in Nat /\ Len(wal) <= Len(wal')
      /\ \A i \in 1..Len(wal) : wal'[i] = wal[i]
      /\ \A i \in 1..Len(wal') : i \notin 1..Len(wal) => wal'[i].kind # "message"
  <2>1. CASE wal' = wal
    BY <2>1, Basics
  <2>2. ASSUME NEW r \in Records, wal' = Append(wal, r), r.kind # "message"
        PROVE  /\ Len(wal') \in Nat /\ Len(wal) \in Nat /\ Len(wal) <= Len(wal')
               /\ \A i \in 1..Len(wal) : wal'[i] = wal[i]
               /\ \A i \in 1..Len(wal') : i \notin 1..Len(wal) => wal'[i].kind # "message"
    <3>1. /\ Len(wal) \in Nat /\ Len(wal') = Len(wal) + 1 /\ wal'[Len(wal) + 1] = r
          /\ \A i \in 1..Len(wal) : wal'[i] = wal[i]
      BY <2>2, Basics, AppendLog
    <3> QED
      BY <3>1, <2>2
  <2> QED
    BY <2>1, <2>2 DEF NoMessage
<1>2. \A call : Logged(wal', call) = Logged(wal, call)
  BY <1>1 DEF Logged
<1>3. \A b \in Sessions : InProgress(b)'
  <2> TAKE b \in Sessions
  <2>1. InProgress(b)
    BY DEF CustomShape
  <2>2. op[b].lsn \in Nat
    BY DEF CallsShape, OpTypes
  <2>3. SUFFICES ASSUME op'[b].kind = "custom" PROVE InProgress(b)'
    BY DEF InProgress
  <2>4. op'[b] = op[b] /\ op[b].kind = "custom"
    BY <2>3 DEF SameCustom
  <2>5. op[b].lsn <= Len(wal')
    <3>1. op[b].lsn <= Len(wal)
      BY <2>1, <2>4 DEF InProgress
    <3> QED
      BY <2>2, <3>1, <1>1
  <2>6. \A c \in Sessions : c # b /\ op'[c].kind = "custom" => op'[c].call # op'[b].call
    BY <2>1, <2>4 DEF InProgress, SameCustom
  <2> QED
    BY <2>1, <2>4, <2>5, <2>6, <1>2 DEF InProgress
<1>4. \A i \in 1..Len(wal') : wal'[i].kind = "message" => wal'[i].call \in 1..Len(calls')
  BY <1>1 DEF CustomShape
<1>5. \A call \in 1..Len(calls') : calls'[call].returned =>
        /\ Cardinality(Logged(wal', call)) = calls'[call].number
        /\ \A i \in Logged(wal', call) : i <= flushed'
  <2> TAKE call \in 1..Len(calls')
  <2>1. calls[call].returned => /\ Cardinality(Logged(wal, call)) = calls[call].number
                                /\ \A i \in Logged(wal, call) : i <= flushed
    BY DEF CustomShape
  <2>2. \A i \in Logged(wal, call) : i \in Nat
    BY DEF Logged
  <2>3. \A i \in Logged(wal, call) : i <= flushed => i <= flushed'
    BY <2>2, Basics
  <2> QED
    BY <2>1, <2>3, <1>2
<1> QED
  BY <1>3, <1>4, <1>5 DEF CustomShape

\* A crash ends the calls in progress; those that have returned lose nothing.
LEMMA CustomCut ==
  ASSUME TypeOK, LogShape, CustomShape, calls' = calls, op' = [b \in Sessions |-> NoOp],
         wal' = SubSeq(wal, 1, flushed), flushed' = flushed
  PROVE  CustomShape'
<1>1. /\ Len(wal') = flushed /\ flushed \in Nat /\ Len(wal) \in Nat /\ flushed <= Len(wal)
      /\ \A i \in 1..flushed : wal'[i] = wal[i]
  BY Basics, CutLog
<1>2. \A b \in Sessions : InProgress(b)'
  BY DEF InProgress, NoOp
<1>3. \A i \in 1..Len(wal') : wal'[i].kind = "message" => wal'[i].call \in 1..Len(calls')
  BY <1>1 DEF CustomShape
<1>4. \A call \in 1..Len(calls') : calls'[call].returned =>
        /\ Cardinality(Logged(wal', call)) = calls'[call].number
        /\ \A i \in Logged(wal', call) : i <= flushed'
  <2> TAKE call \in 1..Len(calls')
  <2>1. SUFFICES ASSUME calls[call].returned
                 PROVE  /\ Cardinality(Logged(wal', call)) = calls[call].number
                        /\ \A i \in Logged(wal', call) : i <= flushed
    OBVIOUS
  <2>2. Cardinality(Logged(wal, call)) = calls[call].number /\ \A i \in Logged(wal, call) : i <= flushed
    BY <2>1 DEF CustomShape
  <2>3. Logged(wal', call) = Logged(wal, call)
    BY <2>2, <1>1 DEF Logged
  <2> QED
    BY <2>2, <2>3
<1> QED
  BY <1>2, <1>3, <1>4 DEF CustomShape

LEMMA MapFrame ==
  ASSUME TypeOK, LogShape, MapShape, Kept, fsm' = fsm, replayed'["standby"] = replayed["standby"],
         flushed' \in Nat, flushed <= flushed'
  PROVE  MapShape'
<1>1. \A i \in 1..flushed : i \in 1..flushed' /\ wal'[i] = wal[i]
  BY Basics DEF Kept
<1>2. \A i \in 1..replayed["standby"] : wal'[i] = wal[i]
  BY Basics DEF Kept, Servers
<1> QED
  BY <1>1, <1>2 DEF MapShape, MapTail

\* The swaps under way.
SameSwaps == \A b \in Sessions : Swapping(b) \/ Swapping(b)' => op'[b] = op[b]

LEMMA SameUnlogged ==
  ASSUME SameSwaps, NEW blk
  PROVE  Unlogged(blk)' <=> Unlogged(blk)
<1>1. Unlogged(blk) => Unlogged(blk)'
  BY DEF SameSwaps, Unlogged, Swapping, Mine
<1>2. Unlogged(blk)' => Unlogged(blk)
  BY DEF SameSwaps, Unlogged, Swapping, Mine
<1> QED
  BY <1>1, <1>2

\* Pages on disk, and in a recovery, depend on records that are on disk.
LEMMA DiskFrame ==
  ASSUME TypeOK, LogShape, DiskKnown, \A i \in 1..flushed : wal'[i] = wal[i],
         flushed' \in Nat, flushed <= flushed', UNCHANGED <<redo, disk>>
  PROVE  DiskKnown'
<1> SUFFICES ASSUME NEW s \in Servers, NEW blk \in Blocks
             PROVE  \E m \in redo[s]..flushed' : Shows(wal', blk, m, disk[s][blk])
  BY DEF DiskKnown
<1>1. PICK m \in redo[s]..flushed : Shows(wal, blk, m, disk[s][blk])
  BY DEF DiskKnown
<1>2. m \in Nat /\ m <= flushed /\ m \in redo[s]..flushed' /\ \A i \in 1..m : wal'[i] = wal[i]
  BY <1>1, Basics
<1> QED
  BY <1>1, <1>2, ShowsSame

LEMMA RecoveryFrame ==
  ASSUME TypeOK, LogShape, RecoveryAhead, \A i \in 1..flushed : wal'[i] = wal[i],
         flushed' \in Nat, flushed <= flushed',
         \A s \in Servers : status'[s] = "recovering" =>
           status[s] = "recovering" /\ replayed'[s] = replayed[s] /\ pages'[s] = pages[s]
  PROVE  RecoveryAhead'
<1> SUFFICES ASSUME NEW s \in Servers, status'[s] = "recovering", NEW blk \in Blocks
             PROVE  \E m \in replayed'[s]..flushed' : Shows(wal', blk, m, pages'[s][blk])
  BY DEF RecoveryAhead
<1>1. PICK m \in replayed[s]..flushed : Shows(wal, blk, m, pages[s][blk])
  BY DEF RecoveryAhead
<1>2. m \in Nat /\ m <= flushed /\ m \in replayed[s]..flushed' /\ \A i \in 1..m : wal'[i] = wal[i]
  BY <1>1, Basics
<1> QED
  BY <1>1, <1>2, ShowsSame

LEMMA PermutedFrame ==
  ASSUME Permuted, NEW n \in Nat, n <= Len(wal), Len(wal) \in Nat, \A i \in 1..n : wal'[i] = wal[i]
  PROVE  \A m \in 0..n : \A blk \in Blocks : \E at \in Blocks : \E k \in Nat : Shows(wal', at, m, <<blk, k>>)
<1> TAKE m \in 0..n
<1> TAKE blk \in Blocks
<1>0. m \in 0..Len(wal)
  OBVIOUS
<1>1. PICK at \in Blocks, k \in Nat : Shows(wal, at, m, <<blk, k>>)
  BY <1>0 DEF Permuted
<1>2. m \in Nat /\ \A i \in 1..m : wal'[i] = wal[i]
  OBVIOUS
<1>3. Shows(wal', at, m, <<blk, k>>)
  BY <1>1, <1>2, ShowsSame
<1> QED
  BY <1>3

\* A block that the new record has no image of.
LEMMA ShowsAppend ==
  ASSUME wal \in Seq(Records), NEW r \in Records, wal' = Append(wal, r),
         NEW blk, blk \notin DOMAIN r.image, NEW v, Shows(wal, blk, Len(wal), v)
  PROVE  Shows(wal', blk, Len(wal'), v)
<1>1. /\ Len(wal) \in Nat /\ Len(wal') = Len(wal) + 1 /\ wal'[Len(wal) + 1] = r
      /\ \A i \in 1..Len(wal) : wal'[i] = wal[i]
  BY AppendLog
<1>2. Shows(wal', blk, Len(wal), v)
  BY <1>1, ShowsSame
<1>3. \A i \in (Len(wal) + 1)..Len(wal') : blk \notin DOMAIN wal'[i].image
  BY <1>1
<1>4. Len(wal') \in Nat /\ Len(wal) <= Len(wal')
  BY <1>1
<1> QED
  BY <1>1, <1>2, <1>3, <1>4, ShowsOn

\* The pages after a step that logs no page.
LEMMA QuietShows ==
  ASSUME TypeOK, LogShape, Quiet, NEW blk, NEW v, Shows(wal, blk, Len(wal), v)
  PROVE  Shows(wal', blk, Len(wal'), v)
  BY Basics, ShowsAppend DEF Quiet

LEMMA QuietImages ==
  ASSUME TypeOK, LogShape, Quiet, NEW blk
  PROVE  \A i \in 1..Len(wal') : blk \in DOMAIN wal'[i].image => i \in 1..Len(wal) /\ wal'[i] = wal[i]
<1>1. CASE wal' = wal
  BY <1>1
<1>2. ASSUME NEW r \in Records, wal' = Append(wal, r), DOMAIN r.image = {}
      PROVE  \A i \in 1..Len(wal') : blk \in DOMAIN wal'[i].image => i \in 1..Len(wal) /\ wal'[i] = wal[i]
  <2>1. /\ Len(wal) \in Nat /\ Len(wal') = Len(wal) + 1 /\ wal'[Len(wal) + 1] = r
        /\ \A i \in 1..Len(wal) : wal'[i] = wal[i]
    BY <1>2, Basics, AppendLog
  <2>2. \A i \in 1..Len(wal') : i = Len(wal) + 1 \/ i \in 1..Len(wal)
    BY <2>1
  <2> QED
    BY <2>1, <2>2, <1>2
<1> QED
  BY <1>1, <1>2 DEF Quiet

LEMMA QuietPermuted ==
  ASSUME TypeOK, LogShape, Quiet, Permuted
  PROVE  Permuted'
<1>1. Kept /\ Len(wal) \in Nat /\ Len(wal') \in Nat
  BY Basics, AppendKept DEF Quiet, Kept
<1>2. Len(wal') = Len(wal) \/ Len(wal') = Len(wal) + 1
  BY Basics, AppendLog DEF Quiet
<1>3. \A m \in 0..Len(wal) : \A blk \in Blocks : \E at \in Blocks : \E k \in Nat : Shows(wal', at, m, <<blk, k>>)
  <2>1. \A i \in 1..Len(wal) : wal'[i] = wal[i]
    BY <1>1 DEF Kept
  <2>2. Len(wal) <= Len(wal)
    BY <1>1
  <2> QED
    BY <2>1, <2>2, <1>1, PermutedFrame
<1>4. ASSUME NEW blk \in Blocks
      PROVE  \E at \in Blocks : \E k \in Nat : Shows(wal', at, Len(wal'), <<blk, k>>)
  <2>0. Len(wal) \in 0..Len(wal)
    BY <1>1
  <2>1. PICK at \in Blocks, k \in Nat : Shows(wal, at, Len(wal), <<blk, k>>)
    BY <2>0 DEF Permuted
  <2>2. Shows(wal', at, Len(wal'), <<blk, k>>)
    BY <2>1, QuietShows
  <2> QED
    BY <2>2
<1>5. \A m \in 0..Len(wal') : m \in 0..Len(wal) \/ m = Len(wal')
  BY <1>1, <1>2
<1> QED
  BY <1>3, <1>4, <1>5 DEF Permuted

LEMMA PagesFrame ==
  ASSUME TypeOK, LogShape, PagesShape, Quiet, SameSwaps, flushed' \in Nat, flushed <= flushed',
         UNCHANGED <<status, redo, replayed, pages, disk, lsn>>
  PROVE  PagesShape'
<1>1. \A i \in 1..flushed : wal'[i] = wal[i]
  BY Basics, AppendKept DEF Quiet, Kept
<1>2. DiskKnown' /\ RecoveryAhead'
  BY <1>1, DiskFrame, RecoveryFrame DEF PagesShape
<1>3. UpCurrent'
  <2> SUFFICES ASSUME status["primary"] = "up", NEW blk \in Blocks, ~Unlogged(blk)'
               PROVE  /\ Shows(wal', blk, Len(wal'), pages["primary"][blk])
                      /\ \A i \in 1..Len(wal') : blk \in DOMAIN wal'[i].image => i <= flushed' \/ i <= lsn[blk]
    BY DEF UpCurrent
  <2>1. /\ Shows(wal, blk, Len(wal), pages["primary"][blk])
        /\ \A i \in 1..Len(wal) : blk \in DOMAIN wal[i].image => i <= flushed \/ i <= lsn[blk]
    BY SameUnlogged DEF PagesShape, UpCurrent
  <2>2. Shows(wal', blk, Len(wal'), pages["primary"][blk])
    BY <2>1, QuietShows
  <2>3. ASSUME NEW i \in 1..Len(wal'), blk \in DOMAIN wal'[i].image PROVE i <= flushed' \/ i <= lsn[blk]
    <3>1. i \in 1..Len(wal) /\ wal'[i] = wal[i]
      BY <2>3, QuietImages
    <3>2. i <= flushed \/ i <= lsn[blk]
      BY <2>1, <2>3, <3>1
    <3> QED
      BY <3>1, <3>2, Basics
  <2> QED
    BY <2>2, <2>3
<1>4. SwapsApart'
  BY DEF PagesShape, SwapsApart, SameSwaps, Mine
<1>5. SwapCurrent'
  <2> SUFFICES ASSUME NEW b \in Sessions, Swapping(b)'
               PROVE  LET one == op'[b].copy[op'[b].first].content
                          two == op'[b].copy[op'[b].second].content
                      IN /\ op'[b].phase # "register2" => Shows(wal', op'[b].second, Len(wal'), one)
                         /\ Shows(wal', op'[b].first, Len(wal'), two)
                         /\ op'[b].phase \notin {"register2", "apply1"} => pages["primary"][op'[b].first] = one
                         /\ op'[b].phase = "insert" => pages["primary"][op'[b].second] = two
    BY DEF SwapCurrent
  <2>1. op'[b] = op[b]
    BY DEF SameSwaps
  <2>2. Swapping(b)
    BY <2>1 DEF Swapping
  <2> QED
    BY <2>1, <2>2, QuietShows DEF PagesShape, SwapCurrent
<1>6. Permuted'
  BY QuietPermuted DEF PagesShape
<1> QED
  BY <1>2, <1>3, <1>4, <1>5, <1>6 DEF PagesShape

\* Types after a step that keeps the log.
PageTypes == [Servers -> [Blocks -> Contents]]

LEMMA TypesFrame ==
  ASSUME TypeOK, LogShape, Kept, flushed' \in Nat, flushed <= flushed', flushed' <= Len(wal'),
         \A i \in 1..Len(wal') : i \notin 1..Len(wal) /\ wal'[i].kind = "signal" => wal'[i].signal \in Values,
         UNCHANGED <<loaded, status, redo, replayed>>, status["primary"] # "up" => flushed' = Len(wal'),
         pages' \in PageTypes, disk' \in PageTypes, fsm' \in [Servers -> SUBSET MapBlocks],
         pending' \in [Servers -> SUBSET Values], op' \in [Sessions -> OpTypes],
         lsn' \in [Blocks -> 0..Len(wal')]
  PROVE  TypeOK' /\ LogShape'
<1>1. /\ wal' \in Seq(Records) /\ Len(wal') \in Nat /\ flushed' \in 0..Len(wal')
      /\ \A i \in 1..Len(wal) : wal'[i] = wal[i]
  BY DEF Kept
<1>2. 0..flushed \subseteq 0..flushed' /\ 0..flushed \subseteq 0..Len(wal') /\ 0..flushed' \subseteq 0..Len(wal')
  BY <1>1, Basics
<1>3. redo' \in [Servers -> 0..flushed'] /\ replayed' \in [Servers -> 0..flushed'] /\ replayed' \in [Servers -> 0..Len(wal')]
  BY <1>2 DEF TypeOK, LogShape
<1>4. \A b \in Sessions : op'[b].phase \in Phases
  BY DEF OpTypes
<1>5. \A s \in Servers : \A signal \in pending'[s] : check_signal_value(signal)
  BY DEF check_signal_value, Values
<1>6. \A i \in 1..Len(wal') : wal'[i].kind = "signal" => wal'[i].signal \in Values
  BY <1>1 DEF LogShape
<1>7. TypeOK'
  BY <1>1, <1>3, <1>4, <1>5 DEF TypeOK, PageTypes, check_signal_value
<1>8. LogShape'
  BY <1>1, <1>3, <1>6 DEF LogShape
<1> QED
  BY <1>7, <1>8

LEMMA LsnFrame ==
  ASSUME TypeOK, LogShape, Kept PROVE lsn \in [Blocks -> 0..Len(wal')]
<1>1. 0..Len(wal) \subseteq 0..Len(wal')
  BY Basics DEF Kept
<1> QED
  BY <1>1 DEF TypeOK

LEMMA Typed ==
  ASSUME TypeOK, LogShape, CallsShape
  PROVE  /\ pages \in PageTypes /\ disk \in PageTypes /\ fsm \in [Servers -> SUBSET MapBlocks]
         /\ pending \in [Servers -> SUBSET Values] /\ op \in [Sessions -> OpTypes]
         /\ lsn \in [Blocks -> 0..Len(wal)]
  BY DEF TypeOK, LogShape, CallsShape, PageTypes

\* Steps that leave the log, the pages and the calls alone.
LEMMA StillFrame ==
  ASSUME IInv, flushed' \in Nat, flushed <= flushed', flushed' <= Len(wal),
         pending' \in [Servers -> SUBSET Values], status["primary"] # "up" => flushed' = Len(wal),
         UNCHANGED <<loaded, wal, status, redo, replayed, pages, disk, fsm, op, lsn, calls, exposed>>
  PROVE  IInv'
<1>1. TypeOK /\ LogShape /\ CallsShape /\ LocksExclude /\ CustomShape /\ MapShape
  BY DEF IInv
<1>2. Kept /\ Quiet /\ NoMessage /\ SameSwaps /\ SameCustom
  BY <1>1, AppendKept DEF Quiet, NoMessage, SameSwaps, SameCustom
<1>3. TypeOK' /\ LogShape'
  BY <1>1, <1>2, Basics, Typed, TypesFrame
<1>4. CallsShape' /\ LocksExclude'
  BY <1>1, Basics, CallsFrame
<1>5. CustomShape'
  BY <1>1, <1>2, CustomFrame
<1>6. MapShape'
  BY <1>1, <1>2, MapFrame
<1>7. ~exposed' => PagesShape'
  BY <1>1, <1>2, PagesFrame DEF IInv
<1> QED
  BY <1>3, <1>4, <1>5, <1>6, <1>7 DEF IInv

LEMMA FlushStep == ASSUME IInv, NEW n, Flush(n), UNCHANGED <<pageVars, tool>> PROVE IInv'
<1>1. TypeOK /\ LogShape /\ CallsShape
  BY DEF IInv
<1>2. /\ status["primary"] = "up" /\ n \in (flushed + 1)..Len(wal) /\ flushed' = n
      /\ UNCHANGED <<loaded, wal, status, redo, replayed, pages, disk, fsm, pending, op, lsn, calls, exposed>>
  BY DEF Flush, pageVars
<1>3. flushed' \in Nat /\ flushed <= flushed' /\ flushed' <= Len(wal)
  BY <1>1, <1>2, Basics
<1>4. pending' \in [Servers -> SUBSET Values]
  BY <1>1, <1>2, Typed
<1> QED
  BY <1>2, <1>3, <1>4, StillFrame

LEMMA ReloadStep ==
  ASSUME IInv, NEW s \in Servers, PostmasterReload(s), UNCHANGED <<pageVars, tool>> PROVE IInv'
<1>1. TypeOK /\ LogShape /\ CallsShape
  BY DEF IInv
<1>2. /\ pending' = [pending EXCEPT ![s] = @ \ {"HUP"}]
      /\ UNCHANGED <<loaded, wal, flushed, status, redo, replayed, pages, disk, fsm, op, lsn, calls, exposed>>
  BY DEF PostmasterReload, pageVars
<1>3. flushed' \in Nat /\ flushed <= flushed' /\ flushed' <= Len(wal)
  BY <1>1, <1>2, Basics
<1>4. pending' \in [Servers -> SUBSET Values]
  BY <1>1, <1>2, Typed
<1>5. status["primary"] # "up" => flushed' = Len(wal)
  BY <1>1, <1>2 DEF LogShape
<1> QED
  BY <1>2, <1>3, <1>4, <1>5, StillFrame

LEMMA ToolStep == ASSUME IInv, UNCHANGED <<logVars, pageVars>> PROVE IInv'
<1>1. TypeOK /\ LogShape /\ CallsShape
  BY DEF IInv
<1>2. UNCHANGED <<loaded, wal, flushed, status, redo, replayed, pages, disk, fsm, pending, op, lsn, calls, exposed>>
  BY DEF logVars, pageVars
<1>3. /\ flushed' \in Nat /\ flushed <= flushed' /\ flushed' <= Len(wal)
      /\ pending' \in [Servers -> SUBSET Values]
  BY <1>1, <1>2, Basics, Typed
<1>4. status["primary"] # "up" => flushed' = Len(wal)
  BY <1>1, <1>2 DEF LogShape
<1> QED
  BY <1>2, <1>3, <1>4, StillFrame

\* A record that is no page, logged by a primary that is up.
LEMMA LogStep ==
  ASSUME IInv, status["primary"] = "up", NEW r \in Records, wal' = Append(wal, r),
         DOMAIN r.image = {}, r.kind # "message", r.kind = "signal" => r.signal \in Values,
         UNCHANGED <<loaded, flushed, status, redo, replayed, pages, disk, pending, op, lsn, calls, exposed>>,
         fsm' \in [Servers -> SUBSET MapBlocks]
  PROVE  /\ TypeOK' /\ LogShape' /\ CallsShape' /\ LocksExclude' /\ CustomShape'
         /\ ~exposed' => PagesShape'
<1>1. TypeOK /\ LogShape /\ CallsShape /\ LocksExclude /\ CustomShape /\ MapShape
  BY DEF IInv
<1>2. Kept /\ Quiet /\ NoMessage /\ SameSwaps /\ SameCustom
  BY <1>1, AppendKept DEF Quiet, NoMessage, SameSwaps, SameCustom
<1>3. Len(wal) \in Nat /\ Len(wal') = Len(wal) + 1 /\ wal'[Len(wal) + 1] = r
  BY <1>1, Basics, AppendLog
<1>4. \A i \in 1..Len(wal') : i \notin 1..Len(wal) => i = Len(wal) + 1
  BY <1>3
<1>5. flushed' \in Nat /\ flushed <= flushed' /\ flushed' <= Len(wal')
  BY <1>1, <1>3, Basics
<1>6. TypeOK' /\ LogShape'
  BY <1>1, <1>2, <1>3, <1>4, <1>5, Typed, LsnFrame, TypesFrame
<1>7. CallsShape' /\ LocksExclude'
  BY <1>1, <1>3, CallsFrame
<1>8. CustomShape'
  BY <1>1, <1>2, <1>5, CustomFrame
<1>9. ~exposed' => PagesShape'
  BY <1>1, <1>2, <1>5, PagesFrame DEF IInv
<1> QED
  BY <1>6, <1>7, <1>8, <1>9

LEMMA SignalStep ==
  ASSUME IInv, NEW signal, signal_rmgr(signal), UNCHANGED <<pageVars, tool>> PROVE IInv'
<1> DEFINE r == [Record("signal") EXCEPT !.signal = signal]
<1>1. /\ status["primary"] = "up" /\ signal \in Values /\ wal' = Append(wal, r)
      /\ UNCHANGED <<loaded, flushed, status, redo, replayed, pages, disk, fsm, pending, op, lsn, calls, exposed>>
  BY DEF signal_rmgr, check_signal_value, Values, pageVars
<1>2. /\ r \in Records /\ r.kind = "signal" /\ r.signal = signal /\ DOMAIN r.image = {}
  BY <1>1, RecordType DEF Records
<1> HIDE DEF r
<1>3. TypeOK /\ LogShape /\ CallsShape /\ MapShape
  BY DEF IInv
<1>4. /\ TypeOK' /\ LogShape' /\ CallsShape' /\ LocksExclude' /\ CustomShape'
      /\ ~exposed' => PagesShape'
  BY <1>1, <1>2, <1>3, Typed, LogStep
<1>5. Kept /\ flushed' \in Nat /\ flushed <= flushed'
  BY <1>1, <1>2, <1>3, AppendKept, Basics
<1>6. MapShape'
  BY <1>1, <1>3, <1>5, MapFrame
<1> QED
  BY <1>4, <1>6 DEF IInv

LEMMA TruncateFsmStep ==
  ASSUME IInv, NEW b, pg_truncate_fsm(b), UNCHANGED tool PROVE IInv'
<1> DEFINE r == Record("truncate_fsm")
<1>1. /\ status["primary"] = "up" /\ wal' = Append(wal, r) /\ fsm' = [fsm EXCEPT !["primary"] = @ \ MapTail]
      /\ UNCHANGED <<loaded, flushed, status, redo, replayed, pages, disk, pending, op, lsn, calls, exposed>>
  BY DEF pg_truncate_fsm, pageVars
<1>2. r \in Records /\ r.kind = "truncate_fsm" /\ DOMAIN r.image = {}
  BY RecordType
<1> HIDE DEF r
<1>3. TypeOK /\ LogShape /\ CallsShape /\ MapShape
  BY DEF IInv
<1>4. /\ fsm' \in [Servers -> SUBSET MapBlocks] /\ fsm'["standby"] = fsm["standby"]
      /\ fsm'["primary"] = fsm["primary"] \ MapTail
  BY <1>1, <1>3, Typed DEF Servers
<1>5. /\ TypeOK' /\ LogShape' /\ CallsShape' /\ LocksExclude' /\ CustomShape'
      /\ ~exposed' => PagesShape'
  BY <1>1, <1>2, <1>4, LogStep
<1>6. Kept /\ flushed' \in Nat /\ flushed <= flushed'
  BY <1>1, <1>2, <1>3, AppendKept, Basics
<1>7. MapShape'
  <2>1. /\ \A i \in 1..flushed : wal'[i] = wal[i]
        /\ \A i \in 1..replayed["standby"] : wal'[i] = wal[i]
    BY <1>3, <1>6, Basics DEF Kept, Servers
  <2>2. Blocks \subseteq fsm'["primary"]
    BY <1>3, <1>4 DEF MapShape, MapTail
  <2>3. \/ \E i \in 1..flushed' : wal'[i].kind = "truncate_fsm"
        \/ MapBlocks \ MapTail \subseteq fsm'["primary"]
    BY <2>1, <1>1, <1>3, <1>4 DEF MapShape
  <2>4. \A i \in 1..replayed'["standby"] :
          wal'[i].kind = "truncate_fsm" => fsm'["standby"] \subseteq Blocks \cup MapTail
    BY <2>1, <1>1, <1>3, <1>4 DEF MapShape
  <2> QED
    BY <2>2, <2>3, <2>4 DEF MapShape, MapTail
<1> QED
  BY <1>5, <1>7 DEF IInv

-----------------------------------------------------------------------------
(* Steps of one call that touch no page.                                   *)

\* Session b goes on to o.
Becomes(b, o) == o \in OpTypes /\ op' = [op EXCEPT ![b] = o]

LEMMA CallsOne ==
  ASSUME CallsShape, NEW b \in Sessions, NEW o, Becomes(b, o), CallShape(b)', status'["primary"] = "up",
         Len(wal) \in Nat, Len(wal') \in Nat, Len(wal) <= Len(wal')
  PROVE  CallsShape'
<1>1. op' \in [Sessions -> OpTypes]
  BY DEF Becomes, CallsShape
<1>2. ASSUME NEW c \in Sessions, c # b PROVE CallShape(c)'
  <2>1. op'[c] = op[c] /\ CallShape(c)
    BY <1>2 DEF Becomes, CallsShape
  <2>2. \A S : [S -> [content : Contents, lsn : 0..Len(wal)]]
                 \subseteq [S -> [content : Contents, lsn : 0..Len(wal')]]
    <3>1. 0..Len(wal) \subseteq 0..Len(wal')
      OBVIOUS
    <3>2. [content : Contents, lsn : 0..Len(wal)] \subseteq [content : Contents, lsn : 0..Len(wal')]
      BY <3>1
    <3> QED
      BY <3>2
  <2> QED
    BY <2>1, <2>2 DEF CallShape, Swapping, Mine
<1> QED
  BY <1>1, <1>2 DEF CallsShape

LEMMA LocksOne ==
  ASSUME CallsShape, LocksExclude, NEW b \in Sessions, NEW o, Becomes(b, o),
         \A blk \in Blocks : Holds(b, blk)' =>
           \/ Holds(b, blk) /\ o.kind = op[b].kind
           \/ \A c \in Sessions : c # b /\ Holds(c, blk) => o.kind # "write" /\ op[c].kind # "write"
  PROVE  LocksExclude'
<1>1. op'[b] = o /\ \A c \in Sessions : c # b => op'[c] = op[c]
  BY DEF Becomes, CallsShape
<1>2. \A c \in Sessions : c # b => \A blk : Holds(c, blk)' <=> Holds(c, blk)
  BY <1>1 DEF Holds
<1> QED
  BY <1>1, <1>2 DEF LocksExclude

\* No swap begins to change pages or ends.
LEMMA CallFrame ==
  ASSUME IInv, NEW b \in Sessions, NEW o, Becomes(b, o), status["primary"] = "up",
         ~Swapping(b), ~Swapping(b)', CallShape(b)', LocksExclude', CustomShape',
         wal' = wal \/ \E r \in Records : wal' = Append(wal, r) /\ DOMAIN r.image = {} /\ r.kind # "signal",
         flushed' \in Nat, flushed <= flushed', flushed' <= Len(wal'),
         UNCHANGED <<loaded, status, redo, replayed, pages, disk, fsm, pending, lsn, exposed>>
  PROVE  IInv'
<1>1. TypeOK /\ LogShape /\ CallsShape /\ LocksExclude /\ CustomShape /\ MapShape
  BY DEF IInv
<1>2. Kept /\ Quiet /\ Len(wal) \in Nat /\ Len(wal') \in Nat
  BY <1>1, AppendKept, Basics DEF Quiet, Kept
<1>3. SameSwaps
  BY <1>1 DEF SameSwaps, Becomes, Swapping, CallsShape
<1>4. \A i \in 1..Len(wal') : i \notin 1..Len(wal) => wal'[i].kind # "signal"
  <2>1. CASE wal' = wal
    BY <2>1
  <2>2. ASSUME NEW r \in Records, wal' = Append(wal, r), r.kind # "signal"
        PROVE  \A i \in 1..Len(wal') : i \notin 1..Len(wal) => wal'[i].kind # "signal"
    BY <1>1, <2>2, AppendLog, Basics
  <2> QED
    BY <2>1, <2>2
<1>5. op' \in [Sessions -> OpTypes]
  BY <1>1 DEF Becomes, CallsShape
<1>6. TypeOK' /\ LogShape'
  BY <1>1, <1>2, <1>4, <1>5, Typed, LsnFrame, TypesFrame
<1>7. CallsShape'
  BY <1>1, <1>2, CallsOne DEF Kept
<1>8. MapShape'
  BY <1>1, <1>2, MapFrame
<1>9. ~exposed' => PagesShape'
  BY <1>1, <1>2, <1>3, PagesFrame DEF IInv
<1> QED
  BY <1>6, <1>7, <1>8, <1>9 DEF IInv

LEMMA LockBufferStep ==
  ASSUME IInv, NEW b \in Sessions, LockBuffer(b), UNCHANGED tool PROVE IInv'
<1>1. PICK phase \in {"lock1", "lock2"} :
        /\ status["primary"] = "up" /\ op[b].phase = phase
        /\ op' = [op EXCEPT ![b].phase = IF phase = "lock1" THEN "lock2" ELSE "register"]
  BY DEF LockBuffer, Step
<1> DEFINE o == [op[b] EXCEPT !.phase = IF phase = "lock1" THEN "lock2" ELSE "register"]
<1>2. /\ UNCHANGED <<loaded, wal, flushed, status, redo, replayed, pages, disk, fsm, pending, lsn, calls, exposed>>
      /\ \A c \in Sessions : ~Waits(b, c)
  BY DEF LockBuffer, logVars
<1>3. TypeOK /\ LogShape /\ CallsShape /\ LocksExclude /\ CustomShape
  BY DEF IInv
<1>4. op[b] \in OpTypes /\ CallShape(b)
  BY <1>3 DEF CallsShape
<1>5. /\ o \in OpTypes /\ o.kind = op[b].kind /\ o.first = op[b].first /\ o.second = op[b].second
      /\ o.asked = op[b].asked /\ o.phase = IF phase = "lock1" THEN "lock2" ELSE "register"
  BY <1>4 DEF OpTypes, Phases
<1>6. Becomes(b, o) /\ op'[b] = o
  BY <1>1, <1>3, <1>5 DEF Becomes, CallsShape
<1>7. op[b].kind \in {"swap", "write"}
  BY <1>1, <1>4 DEF CallShape, OpTypes, NoOp
<1> HIDE DEF o
<1>8. ~Swapping(b) /\ ~Swapping(b)' /\ CallShape(b)'
  BY <1>1, <1>4, <1>5, <1>6, <1>7 DEF CallShape, Swapping, Mine
<1>9. LocksExclude'
  <2>1. \A blk \in Blocks : Holds(b, blk)' =>
          \/ Holds(b, blk)
          \/ phase = "lock1" /\ blk = op[b].first
          \/ phase = "lock2" /\ blk = op[b].second
    BY <1>1, <1>5, <1>6, <1>7 DEF Holds
  <2>2. Wanted(b) = IF phase = "lock1" THEN {op[b].first} ELSE {op[b].second}
    <3>1. CASE phase = "lock1"
      BY <1>1, <3>1, Zenon DEF Wanted
    <3>2. CASE phase = "lock2"
      <4>1. "lock1" # "lock2"
        OBVIOUS
      <4> QED
        BY <1>1, <3>2, <4>1, Zenon DEF Wanted
    <3> QED
      BY <3>1, <3>2
  <2>3. \A blk \in Wanted(b) : \A c \in Sessions :
          c # b /\ Holds(c, blk) => op[b].kind # "write" /\ op[c].kind # "write"
    BY <1>2 DEF Waits, Excludes
  <2> QED
    BY <2>1, <2>2, <2>3, <1>3, <1>5, <1>6, LocksOne
<1>10. CustomShape'
  <2>1. SameCustom
    BY <1>3, <1>5, <1>6, <1>7 DEF SameCustom, Becomes, CallsShape
  <2> QED
    BY <2>1, <1>2, <1>3, Basics, CustomFrame DEF NoMessage
<1>11. flushed' \in Nat /\ flushed <= flushed' /\ flushed' <= Len(wal')
  BY <1>2, <1>3, Basics
<1> QED
  BY <1>1, <1>2, <1>6, <1>8, <1>9, <1>10, <1>11, CallFrame

\* The beginning of a call that asks for locks.
LEMMA LockingBegins ==
  ASSUME IInv, NEW b \in Sessions, NEW o \in OpTypes, Begin(b, o), o.kind \in {"swap", "write"},
         o.phase = "lock1", {o.first, o.second} \subseteq Blocks, o.kind = "write" => o.first <= o.second,
         o.kind = "swap" => o.asked = <<o.first, o.second>>, UNCHANGED <<logVars, lsn, calls, exposed>>
  PROVE  IInv'
<1>1. /\ status["primary"] = "up" /\ op[b] = NoOp /\ Becomes(b, o)
      /\ UNCHANGED <<loaded, wal, flushed, status, redo, replayed, pages, disk, fsm, pending, lsn, calls, exposed>>
  BY DEF Begin, Becomes, logVars
<1>2. TypeOK /\ LogShape /\ CallsShape /\ LocksExclude /\ CustomShape
  BY DEF IInv
<1>3. op'[b] = o /\ op[b].kind = "none"
  BY <1>1, <1>2 DEF Becomes, CallsShape, NoOp
<1>4. ~Swapping(b) /\ ~Swapping(b)' /\ CallShape(b)'
  BY <1>3 DEF Swapping, CallShape, Mine
<1>5. LocksExclude'
  <2>1. \A blk \in Blocks : ~Holds(b, blk)'
    BY <1>3 DEF Holds
  <2> QED
    BY <2>1, <1>1, <1>2, LocksOne
<1>6. CustomShape'
  <2>1. SameCustom
    BY <1>1, <1>2, <1>3 DEF SameCustom, Becomes, CallsShape
  <2> QED
    BY <2>1, <1>1, <1>2, Basics, CustomFrame DEF NoMessage
<1>7. flushed' \in Nat /\ flushed <= flushed' /\ flushed' <= Len(wal')
  BY <1>1, <1>2, Basics
<1> QED
  BY <1>1, <1>4, <1>5, <1>6, <1>7, CallFrame

LEMMA SwapBegins ==
  ASSUME IInv, NEW b \in Sessions, NEW blk1 \in Blocks, NEW blk2 \in Blocks,
         pg_swap_pages(b, blk1, blk2), UNCHANGED tool
  PROVE  IInv'
<1> DEFINE o == [NoOp EXCEPT !.kind = "swap", !.phase = "lock1", !.left = 1,
                             !.first = blk1, !.second = blk2, !.asked = <<blk1, blk2>>]
<1>1. Begin(b, o) /\ UNCHANGED <<logVars, lsn, calls, exposed>>
  BY DEF pg_swap_pages
<1>2. blk1 \in Nat /\ blk2 \in Nat /\ NoOp \in OpTypes
  BY BlocksNat DEF NoOp, OpTypes, Phases
<1>3. o \in OpTypes
  BY <1>2 DEF OpTypes, Phases
<1>4. /\ o.kind = "swap" /\ o.phase = "lock1" /\ o.first = blk1 /\ o.second = blk2
      /\ o.asked = <<blk1, blk2>>
  BY DEF NoOp
<1> HIDE DEF o
<1> QED
  BY <1>1, <1>3, <1>4, LockingBegins

LEMMA WriteBegins ==
  ASSUME IInv, NEW b \in Sessions, NEW lo \in Blocks, NEW hi \in Blocks,
         WriteBegin(b, lo, hi), UNCHANGED tool
  PROVE  IInv'
<1> DEFINE o == [NoOp EXCEPT !.kind = "write", !.phase = "lock1", !.left = 1, !.first = lo, !.second = hi]
<1>1. Begin(b, o) /\ lo <= hi /\ UNCHANGED <<logVars, lsn, calls, exposed>>
  BY DEF WriteBegin
<1>2. lo \in Nat /\ hi \in Nat /\ NoOp \in OpTypes
  BY BlocksNat DEF NoOp, OpTypes, Phases
<1>3. o \in OpTypes
  BY <1>2 DEF OpTypes, Phases
<1>4. o.kind = "write" /\ o.phase = "lock1" /\ o.first = lo /\ o.second = hi
  BY DEF NoOp
<1> HIDE DEF o
<1> QED
  BY <1>1, <1>3, <1>4, LockingBegins

-----------------------------------------------------------------------------
(* Calls of custom_wal.                                                    *)

CallTypes == [number : Nat, returned : BOOLEAN]

LEMMA LoggedFinite ==
  ASSUME NEW log, Len(log) \in Nat, NEW call
  PROVE  IsFiniteSet(Logged(log, call)) /\ Cardinality(Logged(log, call)) \in Nat
<1>1. IsFiniteSet(1..Len(log))
  BY FS_Interval
<1>2. IsFiniteSet(Logged(log, call))
  BY <1>1, FS_Subset DEF Logged
<1> QED
  BY <1>2, FS_CardinalityType

\* The calls of the other sessions.
LEMMA OthersCustom ==
  ASSUME CallsShape, CustomShape, NEW b \in Sessions, NEW o, Becomes(b, o),
         NEW c \in Sessions, c # b, op[c].kind = "custom", Len(calls) \in Nat,
         Len(calls') \in Nat, Len(calls) <= Len(calls'), Len(wal) \in Nat, Len(wal') \in Nat,
         Len(wal) <= Len(wal'), calls'[op[c].call] = calls[op[c].call],
         Logged(wal', op[c].call) = Logged(wal, op[c].call),
         o.kind = "custom" => o.call # op[c].call
  PROVE  InProgress(c)'
<1>1. op'[c] = op[c] /\ op[c] \in OpTypes /\ InProgress(c) /\ op'[b] = o
  BY DEF Becomes, CallsShape, CustomShape
<1>2. op[c].call \in 1..Len(calls')
  BY <1>1 DEF InProgress
<1>3. op[c].lsn <= Len(wal')
  BY <1>1 DEF InProgress, OpTypes
<1>4. \A d \in Sessions : d # c /\ op'[d].kind = "custom" => op'[d].call # op[c].call
  <2> SUFFICES ASSUME NEW d \in Sessions, d # c, op'[d].kind = "custom" PROVE op'[d].call # op[c].call
    OBVIOUS
  <2>1. CASE d = b
    BY <2>1, <1>1
  <2>2. CASE d # b
    BY <2>2, <1>1 DEF Becomes, CallsShape, InProgress
  <2> QED
    BY <2>1, <2>2
<1> QED
  BY <1>1, <1>2, <1>3, <1>4 DEF InProgress

LEMMA CustomBegins ==
  ASSUME IInv, NEW b \in Sessions, NEW n \in Nat, custom_wal(b, n), UNCHANGED tool
  PROVE  IInv'
<1> DEFINE o == [NoOp EXCEPT !.kind = "custom", !.phase = "loop", !.left = n, !.call = Len(calls) + 1]
           new == [number |-> n, returned |-> FALSE]
<1>1. /\ status["primary"] = "up" /\ op[b] = NoOp /\ op' = [op EXCEPT ![b] = o] /\ calls' = Append(calls, new)
      /\ UNCHANGED <<loaded, wal, flushed, status, redo, replayed, pages, disk, fsm, pending, lsn, exposed>>
  BY DEF custom_wal, Begin, logVars
<1>2. TypeOK /\ LogShape /\ CallsShape /\ LocksExclude /\ CustomShape
  BY DEF IInv
<1>3. calls \in Seq(CallTypes) /\ new \in CallTypes
  BY <1>2 DEF CustomShape, CallTypes
<1>4. /\ calls' \in Seq(CallTypes) /\ Len(calls) \in Nat /\ Len(calls') = Len(calls) + 1
      /\ calls'[Len(calls) + 1] = new /\ \A i \in 1..Len(calls) : calls'[i] = calls[i]
  BY <1>1, <1>3
<1>5. NoOp \in OpTypes /\ Len(calls) + 1 \in Nat
  BY <1>4 DEF NoOp, OpTypes, Phases
<1>6. o \in OpTypes
  BY <1>5 DEF OpTypes, Phases
<1>7. o.kind = "custom" /\ o.phase = "loop" /\ o.left = n /\ o.call = Len(calls) + 1 /\ o.lsn = 0
  BY DEF NoOp
<1>8. new.number = n /\ new.returned = FALSE
  OBVIOUS
<1> HIDE DEF o, new
<1>9. Becomes(b, o) /\ op'[b] = o /\ op[b].kind = "none"
  BY <1>1, <1>2, <1>6 DEF Becomes, CallsShape, NoOp
<1>10. ~Swapping(b) /\ ~Swapping(b)' /\ CallShape(b)'
  BY <1>7, <1>9 DEF Swapping, CallShape
<1>11. LocksExclude'
  <2>1. \A blk \in Blocks : ~Holds(b, blk)'
    BY <1>7, <1>9 DEF Holds
  <2> QED
    BY <2>1, <1>2, <1>9, LocksOne
<1>12. CustomShape'
  <2>1. Logged(wal, Len(calls) + 1) = {} /\ Cardinality(Logged(wal, Len(calls) + 1)) = 0
    <3>1. Logged(wal, Len(calls) + 1) = {}
      BY <1>2, <1>4 DEF Logged, CustomShape
    <3> QED
      BY <3>1, FS_EmptySet
  <2>2. \A c \in Sessions : op[c].kind = "custom" => op[c].call \in 1..Len(calls)
    BY <1>2 DEF CustomShape, InProgress
  <2>3. ASSUME NEW c \in Sessions PROVE InProgress(c)'
    <3>1. CASE c = b
      <4>1. \A d \in Sessions : d # b /\ op'[d].kind = "custom" => op'[d].call # o.call
        BY <2>2, <1>2, <1>4, <1>7, <1>9 DEF Becomes, CallsShape
      <4>2. 0 <= Len(wal)
        BY <1>2, Basics
      <4> QED
        BY <3>1, <4>1, <4>2, <2>1, <1>1, <1>4, <1>7, <1>8, <1>9 DEF InProgress
    <3>2. CASE c # b /\ op[c].kind = "custom"
      <4>1. calls'[op[c].call] = calls[op[c].call] /\ o.call # op[c].call
        BY <2>2, <3>2, <1>4, <1>7
      <4>2. Len(calls') \in Nat /\ Len(calls) <= Len(calls')
        BY <1>4
      <4>3. Len(wal) \in Nat /\ Len(wal') \in Nat /\ Len(wal) <= Len(wal')
        BY <1>1, <1>2, Basics
      <4> QED
        BY <3>2, <4>1, <4>2, <4>3, <1>1, <1>2, <1>4, <1>9, OthersCustom
    <3>3. CASE c # b /\ op[c].kind # "custom"
      BY <3>3, <1>2, <1>9 DEF Becomes, CallsShape, InProgress
    <3> QED
      BY <3>1, <3>2, <3>3
  <2>4. \A i \in 1..Len(wal') : wal'[i].kind = "message" => wal'[i].call \in 1..Len(calls')
    <3>1. 1..Len(calls) \subseteq 1..Len(calls')
      BY <1>4
    <3> QED
      BY <3>1, <1>1, <1>2 DEF CustomShape
  <2>5. ASSUME NEW call \in 1..Len(calls'), calls'[call].returned
        PROVE  /\ Cardinality(Logged(wal', call)) = calls'[call].number
               /\ \A i \in Logged(wal', call) : i <= flushed'
    <3>1. call \in 1..Len(calls) /\ calls'[call] = calls[call]
      BY <2>5, <1>4, <1>8
    <3> QED
      BY <3>1, <2>5, <1>1, <1>2 DEF CustomShape
  <2> QED
    BY <2>3, <2>4, <2>5, <1>4 DEF CustomShape, CallTypes
<1>13. flushed' \in Nat /\ flushed <= flushed' /\ flushed' <= Len(wal')
  BY <1>1, <1>2, Basics
<1> QED
  BY <1>1, <1>9, <1>10, <1>11, <1>12, <1>13, CallFrame

LEMMA MessageStep ==
  ASSUME IInv, NEW b \in Sessions, LogLogicalMessage(b), UNCHANGED tool PROVE IInv'
<1> DEFINE r == [Record("message") EXCEPT !.call = op[b].call]
           o == [op[b] EXCEPT !.left = @ - 1, !.lsn = Len(wal')]
<1>1. /\ status["primary"] = "up" /\ op[b].phase = "loop" /\ op[b].left > 0 /\ wal' = Append(wal, r)
      /\ op' = [op EXCEPT ![b] = o]
      /\ UNCHANGED <<loaded, flushed, status, redo, replayed, pages, disk, fsm, pending, lsn, calls, exposed>>
  BY DEF LogLogicalMessage, Step
<1>2. TypeOK /\ LogShape /\ CallsShape /\ LocksExclude /\ CustomShape
  BY DEF IInv
<1>3. op[b] \in OpTypes /\ CallShape(b) /\ InProgress(b)
  BY <1>2 DEF CallsShape, CustomShape
<1>4. op[b].kind = "custom" /\ op[b].left \in Nat /\ op[b].call \in Nat
  BY <1>1, <1>3 DEF CallShape, OpTypes, NoOp
<1>5. /\ r \in Records /\ r.kind = "message" /\ r.call = op[b].call /\ DOMAIN r.image = {}
  BY <1>4, RecordType DEF Records
<1> HIDE DEF r
<1>6. /\ Len(wal) \in Nat /\ Len(wal') = Len(wal) + 1 /\ wal'[Len(wal) + 1] = r
      /\ \A i \in 1..Len(wal) : wal'[i] = wal[i]
  BY <1>1, <1>2, <1>5, Basics, AppendLog
<1>7. op[b].left - 1 \in Nat /\ Len(wal') \in Nat
  BY <1>1, <1>4, <1>6
<1>8. /\ o \in OpTypes /\ o.kind = "custom" /\ o.phase = "loop" /\ o.left = op[b].left - 1
      /\ o.call = op[b].call /\ o.lsn = Len(wal')
  BY <1>1, <1>3, <1>4, <1>7 DEF OpTypes
<1> HIDE DEF o
<1>9. Becomes(b, o) /\ op'[b] = o
  BY <1>1, <1>2, <1>8 DEF Becomes, CallsShape
<1>10. ~Swapping(b) /\ ~Swapping(b)' /\ CallShape(b)'
  BY <1>4, <1>8, <1>9 DEF Swapping, CallShape
<1>11. LocksExclude'
  <2>1. \A blk \in Blocks : ~Holds(b, blk)'
    BY <1>8, <1>9 DEF Holds
  <2> QED
    BY <2>1, <1>2, <1>9, LocksOne
<1>12. /\ Logged(wal', op[b].call) = Logged(wal, op[b].call) \cup {Len(wal) + 1}
       /\ Len(wal) + 1 \notin Logged(wal, op[b].call)
       /\ \A call : call # op[b].call => Logged(wal', call) = Logged(wal, call)
  <2>1. \A i : i \in 1..Len(wal') <=> i \in 1..Len(wal) \/ i = Len(wal) + 1
    BY <1>6
  <2>2. Len(wal) + 1 \notin 1..Len(wal)
    BY <1>6
  <2>3. ASSUME NEW call, call # op[b].call PROVE Logged(wal', call) = Logged(wal, call)
    BY <2>1, <2>2, <2>3, <1>5, <1>6 DEF Logged
  <2>4. Logged(wal', op[b].call) = Logged(wal, op[b].call) \cup {Len(wal) + 1}
    BY <2>1, <2>2, <1>5, <1>6 DEF Logged
  <2> QED
    BY <2>2, <2>3, <2>4 DEF Logged
<1>13. InProgress(b)'
  <2>1. /\ op[b].call \in 1..Len(calls) /\ ~calls[op[b].call].returned
        /\ op[b].left <= calls[op[b].call].number
        /\ Cardinality(Logged(wal, op[b].call)) = calls[op[b].call].number - op[b].left
        /\ \A c \in Sessions : c # b /\ op[c].kind = "custom" => op[c].call # op[b].call
    BY <1>3, <1>4 DEF InProgress
  <2>2. calls[op[b].call].number \in Nat
    <3>1. calls \in Seq(CallTypes)
      BY <1>2 DEF CustomShape, CallTypes
    <3>2. calls[op[b].call] \in CallTypes
      BY <3>1, <2>1
    <3> QED
      BY <3>2 DEF CallTypes
  <2>3. Cardinality(Logged(wal', op[b].call)) = Cardinality(Logged(wal, op[b].call)) + 1
    BY <1>6, <1>12, LoggedFinite, FS_AddElement
  <2>4. /\ Cardinality(Logged(wal', op[b].call)) = calls[op[b].call].number - (op[b].left - 1)
        /\ op[b].left - 1 <= calls[op[b].call].number
    BY <2>1, <2>2, <2>3, <1>4
  <2>5. \A i \in Logged(wal', op[b].call) : i <= Len(wal')
    BY <1>7 DEF Logged
  <2>6. Len(wal') <= Len(wal')
    BY <1>7
  <2>7. \A c \in Sessions : c # b /\ op'[c].kind = "custom" => op'[c].call # op[b].call
    BY <2>1, <1>2, <1>9 DEF Becomes, CallsShape
  <2> QED
    BY <2>1, <2>4, <2>5, <2>6, <2>7, <1>1, <1>8, <1>9 DEF InProgress
<1>14. CustomShape'
  <2>1. Len(calls) \in Nat
    BY <1>2 DEF CustomShape
  <2>2. ASSUME NEW c \in Sessions, c # b PROVE InProgress(c)'
    <3>1. CASE op[c].kind = "custom"
      <4>1. op[c].call # op[b].call
        BY <2>2, <3>1, <1>3, <1>4 DEF InProgress
      <4>2. Len(wal) <= Len(wal')
        BY <1>6
      <4> QED
        BY <2>1, <2>2, <3>1, <4>1, <4>2, <1>1, <1>2, <1>6, <1>7, <1>8, <1>9, <1>12, OthersCustom
    <3>2. CASE op[c].kind # "custom"
      BY <2>2, <3>2, <1>2, <1>9 DEF Becomes, CallsShape, InProgress
    <3> QED
      BY <3>1, <3>2
  <2>3. \A i \in 1..Len(wal') : wal'[i].kind = "message" => wal'[i].call \in 1..Len(calls)
    <3>1. \A i \in 1..Len(wal') : i \in 1..Len(wal) \/ i = Len(wal) + 1
      BY <1>6
    <3>2. op[b].call \in 1..Len(calls)
      BY <1>3, <1>4 DEF InProgress
    <3> QED
      BY <3>1, <3>2, <1>2, <1>5, <1>6 DEF CustomShape
  <2>4. ASSUME NEW call \in 1..Len(calls), calls[call].returned
        PROVE  /\ Cardinality(Logged(wal', call)) = calls[call].number
               /\ \A i \in Logged(wal', call) : i <= flushed
    <3>1. call # op[b].call
      BY <2>4, <1>3, <1>4 DEF InProgress
    <3> QED
      BY <3>1, <2>4, <1>2, <1>12 DEF CustomShape
  <2>5. calls' \in Seq([number : Nat, returned : BOOLEAN])
    BY <1>1, <1>2 DEF CustomShape
  <2> QED
    BY <2>2, <2>3, <2>4, <2>5, <1>1, <1>13 DEF CustomShape
<1>15. flushed' \in Nat /\ flushed <= flushed' /\ flushed' <= Len(wal')
  BY <1>1, <1>2, <1>6, Basics
<1>16. \E x \in Records : wal' = Append(wal, x) /\ DOMAIN x.image = {} /\ x.kind # "signal"
  BY <1>1, <1>5
<1> QED
  BY <1>1, <1>9, <1>10, <1>11, <1>14, <1>15, <1>16, CallFrame

LEMMA CustomFlushStep ==
  ASSUME IInv, NEW b \in Sessions, CustomFlush(b), UNCHANGED tool PROVE IInv'
<1>1. PICK position \in FlushPositions(b) :
        /\ flushed' = Max({flushed, Min({position, Len(wal)})})
        /\ calls' = [calls EXCEPT ![op[b].call].returned = position <= Len(wal)]
  BY DEF CustomFlush
<1>2. /\ status["primary"] = "up" /\ op[b].phase = "loop" /\ op[b].left = 0 /\ op' = [op EXCEPT ![b] = NoOp]
      /\ UNCHANGED <<loaded, wal, status, redo, replayed, pages, disk, fsm, pending, lsn, exposed>>
  BY DEF CustomFlush, Step, End
<1>3. TypeOK /\ LogShape /\ CallsShape /\ LocksExclude /\ CustomShape
  BY DEF IInv
<1>4. op[b] \in OpTypes /\ CallShape(b) /\ InProgress(b)
  BY <1>3 DEF CallsShape, CustomShape
<1>5. op[b].kind = "custom" /\ op[b].lsn \in Nat
  BY <1>2, <1>4 DEF CallShape, OpTypes, NoOp
<1> DEFINE call == op[b].call
<1>6. /\ call \in 1..Len(calls) /\ ~calls[call].returned
      /\ Cardinality(Logged(wal, call)) = calls[call].number - op[b].left
      /\ \A i \in Logged(wal, call) : i <= op[b].lsn
      /\ op[b].lsn <= Len(wal)
      /\ \A c \in Sessions : c # b /\ op[c].kind = "custom" => op[c].call # call
  BY <1>4, <1>5 DEF InProgress
<1>7. calls \in Seq(CallTypes) /\ calls[call] \in CallTypes
  <2>1. calls \in Seq(CallTypes)
    BY <1>3 DEF CustomShape, CallTypes
  <2> QED
    BY <2>1, <1>6
<1>8. calls[call].number \in Nat
  BY <1>7 DEF CallTypes
<1>9. Cardinality(Logged(wal, call)) = calls[call].number
  BY <1>2, <1>6, <1>8
<1>10. Len(wal) \in Nat /\ flushed \in Nat /\ flushed <= Len(wal)
  BY <1>3, Basics
<1>11. position \in Nat /\ (calls[call].number > 0 => position = op[b].lsn)
  BY <1>1, <1>5, <1>8, <1>10 DEF FlushPositions
<1>12. /\ flushed' \in Nat /\ flushed <= flushed' /\ flushed' <= Len(wal)
       /\ position <= Len(wal) => position <= flushed'
  <2> DEFINE least == Min({position, Len(wal)})
  <2>1. least \in Nat /\ least <= position /\ least <= Len(wal) /\ least \in {position, Len(wal)}
    BY <1>10, <1>11, MinTwo
  <2> HIDE DEF least
  <2>2. flushed' = Max({flushed, least})
    BY <1>1 DEF least
  <2>3. /\ flushed' \in Nat /\ flushed' >= flushed /\ flushed' >= least /\ flushed' \in {flushed, least}
    BY <2>1, <2>2, <1>10, MaxTwo
  <2> QED
    BY <2>1, <2>3, <1>10, <1>11
<1> HIDE DEF call
<1>13. /\ calls' \in Seq(CallTypes) /\ Len(calls') = Len(calls) /\ Len(calls) \in Nat
       /\ \A i \in 1..Len(calls) : i # call => calls'[i] = calls[i]
       /\ calls'[call].number = calls[call].number
       /\ calls'[call].returned = (position <= Len(wal))
  <2>1. calls' = [calls EXCEPT ![call].returned = position <= Len(wal)]
    BY <1>1 DEF call
  <2>2. (position <= Len(wal)) \in BOOLEAN
    OBVIOUS
  <2>3. [calls[call] EXCEPT !.returned = position <= Len(wal)] \in CallTypes
    BY <1>7, <2>2 DEF CallTypes
  <2>4. /\ [calls[call] EXCEPT !.returned = position <= Len(wal)].number = calls[call].number
        /\ [calls[call] EXCEPT !.returned = position <= Len(wal)].returned = (position <= Len(wal))
    BY <1>7 DEF CallTypes
  <2> QED
    BY <2>1, <2>3, <2>4, <1>6, <1>7 DEF call
<1>14. NoOp \in OpTypes /\ NoOp.kind = "none"
  BY DEF NoOp, OpTypes, Phases
<1>15. Becomes(b, NoOp) /\ op'[b] = NoOp
  BY <1>2, <1>3, <1>14 DEF Becomes, CallsShape
<1>16. ~Swapping(b) /\ ~Swapping(b)' /\ CallShape(b)'
  BY <1>5, <1>14, <1>15 DEF Swapping, CallShape
<1>17. LocksExclude'
  <2>1. \A blk \in Blocks : ~Holds(b, blk)'
    BY <1>14, <1>15 DEF Holds
  <2> QED
    BY <2>1, <1>3, <1>15, LocksOne
<1>18. CustomShape'
  <2>1. ASSUME NEW c \in Sessions PROVE InProgress(c)'
    <3>1. CASE c = b
      BY <3>1, <1>14, <1>15 DEF InProgress
    <3>2. CASE c # b /\ op[c].kind = "custom"
      <4>1. op[c].call # call /\ op[c].call \in 1..Len(calls)
        BY <3>2, <1>3, <1>6 DEF CustomShape, InProgress, call
      <4>2. calls'[op[c].call] = calls[op[c].call]
        BY <4>1, <1>13
      <4>3. Len(calls) <= Len(calls') /\ Len(calls') \in Nat
        BY <1>13
      <4>4. Len(wal) <= Len(wal') /\ Len(wal') \in Nat
        BY <1>2, <1>10
      <4> QED
        BY <3>2, <4>2, <4>3, <4>4, <1>2, <1>3, <1>10, <1>13, <1>14, <1>15, OthersCustom
    <3>3. CASE c # b /\ op[c].kind # "custom"
      BY <3>3, <1>3, <1>15 DEF Becomes, CallsShape, InProgress
    <3> QED
      BY <3>1, <3>2, <3>3
  <2>2. \A i \in 1..Len(wal') : wal'[i].kind = "message" => wal'[i].call \in 1..Len(calls')
    BY <1>2, <1>3, <1>13 DEF CustomShape
  <2>3. ASSUME NEW d \in 1..Len(calls), calls'[d].returned
        PROVE  /\ Cardinality(Logged(wal, d)) = calls'[d].number
               /\ \A i \in Logged(wal, d) : i <= flushed'
    <3>1. CASE d = call
      <4>1. position <= Len(wal)
        BY <2>3, <3>1, <1>13
      <4>2. \A i \in Logged(wal, call) : i \in Nat
        BY DEF Logged
      <4>3. CASE calls[call].number > 0
        <5>1. op[b].lsn <= flushed'
          BY <4>1, <4>3, <1>11, <1>12 DEF call
        <5>2. \A i \in Logged(wal, call) : i <= flushed'
          BY <5>1, <4>2, <1>5, <1>6, <1>12 DEF call
        <5> QED
          BY <3>1, <5>2, <1>9, <1>13 DEF call
      <4>4. CASE ~(calls[call].number > 0)
        <5>1. Cardinality(Logged(wal, call)) = 0
          BY <4>4, <1>8, <1>9 DEF call
        <5>2. Logged(wal, call) = {}
          BY <5>1, <1>10, LoggedFinite, FS_EmptySet
        <5> QED
          BY <3>1, <5>2, <1>9, <1>13 DEF call
      <4> QED
        BY <4>3, <4>4
    <3>2. CASE d # call
      <4>1. calls'[d] = calls[d]
        BY <3>2, <1>13
      <4>2. Cardinality(Logged(wal, d)) = calls[d].number /\ \A i \in Logged(wal, d) : i <= flushed
        BY <2>3, <4>1, <1>3 DEF CustomShape
      <4>3. \A i \in Logged(wal, d) : i \in Nat
        BY DEF Logged
      <4> QED
        BY <4>1, <4>2, <4>3, <1>10, <1>12
    <3> QED
      BY <3>1, <3>2
  <2> QED
    BY <2>1, <2>2, <2>3, <1>2, <1>13 DEF CustomShape, CallTypes
<1> QED
  BY <1>2, <1>12, <1>15, <1>16, <1>17, <1>18, CallFrame

-----------------------------------------------------------------------------
(* Steps of the servers.                                                   *)

\* Types after a step that leaves the log as it is.
LEMMA ServerTypes ==
  ASSUME TypeOK, LogShape, flushed' \in Nat, flushed <= flushed', flushed' <= Len(wal),
         UNCHANGED <<loaded, wal>>, lsn' \in [Blocks -> 0..Len(wal)], op' \in [Sessions -> OpTypes],
         status' \in [Servers -> {"up", "recovering", "crashed", "stopped"}],
         status'["standby"] # "up", status'["primary"] # "up" => flushed' = Len(wal),
         redo' \in [Servers -> 0..flushed'], replayed' \in [Servers -> 0..flushed'],
         redo'["standby"] <= replayed'["standby"],
         pages' \in PageTypes, disk' \in PageTypes, fsm' \in [Servers -> SUBSET MapBlocks],
         pending' \in [Servers -> SUBSET Values]
  PROVE  TypeOK' /\ LogShape'
<1>1. Len(wal') \in Nat /\ flushed' \in 0..Len(wal') /\ 0..flushed' \subseteq 0..Len(wal')
  BY Basics
<1>2. replayed' \in [Servers -> 0..Len(wal')]
  BY <1>1
<1>3. \A b \in Sessions : op'[b].phase \in Phases
  BY DEF OpTypes
<1>4. \A s \in Servers : \A signal \in pending'[s] : check_signal_value(signal)
  BY DEF check_signal_value, Values
<1>5. TypeOK'
  BY <1>1, <1>2, <1>3, <1>4 DEF TypeOK, PageTypes, check_signal_value
<1>6. LogShape'
  BY DEF LogShape
<1> QED
  BY <1>5, <1>6

\* Positions and pages of one server, in the types of all.
LEMMA ServerSet ==
  ASSUME NEW n \in Nat, NEW m \in Nat, m <= n, NEW f \in [Servers -> 0..m], NEW s, NEW x \in 0..n
  PROVE  f \in [Servers -> 0..n] /\ [f EXCEPT ![s] = x] \in [Servers -> 0..n]
<1>1. 0..m \subseteq 0..n
  OBVIOUS
<1> QED
  BY <1>1

LEMMA CheckpointStep ==
  ASSUME IInv, Checkpoint, exposed' = (exposed \/ \E blk \in Blocks : Unlogged(blk)),
         UNCHANGED <<op, lsn, calls, tool>>
  PROVE  IInv'
<1>1. /\ status["primary"] = "up" /\ flushed' = Len(wal) /\ redo' = [redo EXCEPT !["primary"] = Len(wal)]
      /\ disk' = [disk EXCEPT !["primary"] = pages["primary"]]
      /\ UNCHANGED <<loaded, wal, status, replayed, pages, fsm, pending>>
  BY DEF Checkpoint
<1>2. TypeOK /\ LogShape /\ CallsShape /\ LocksExclude /\ CustomShape /\ MapShape
  BY DEF IInv
<1>3. Len(wal) \in Nat /\ flushed \in Nat /\ flushed <= Len(wal) /\ Len(wal) \in 0..Len(wal)
  BY <1>2, Basics
<1>4. Kept /\ Quiet /\ NoMessage /\ SameSwaps /\ SameCustom
  BY <1>1, <1>2, AppendKept DEF Quiet, NoMessage, SameSwaps, SameCustom
<1>5. TypeOK' /\ LogShape'
  <2>1. redo' \in [Servers -> 0..flushed'] /\ replayed' \in [Servers -> 0..flushed']
    BY <1>1, <1>2, <1>3, ServerSet DEF TypeOK, LogShape
  <2>2. disk' \in PageTypes
    BY <1>1, <1>2, Typed DEF PageTypes, Servers
  <2>3. /\ status' \in [Servers -> {"up", "recovering", "crashed", "stopped"}] /\ status'["standby"] # "up"
        /\ redo'["standby"] <= replayed'["standby"]
    BY <1>1, <1>2 DEF TypeOK, LogShape, Servers
  <2>4. flushed' \in Nat /\ flushed <= flushed' /\ flushed' <= Len(wal)
    BY <1>1, <1>3
  <2>5. /\ lsn' \in [Blocks -> 0..Len(wal)] /\ op' \in [Sessions -> OpTypes] /\ pages' \in PageTypes
        /\ fsm' \in [Servers -> SUBSET MapBlocks] /\ pending' \in [Servers -> SUBSET Values]
    BY <1>1, <1>2, Typed
  <2> QED
    BY <2>1, <2>2, <2>3, <2>4, <2>5, <1>1, <1>2, ServerTypes
<1>6. CallsShape' /\ LocksExclude'
  BY <1>1, <1>2, <1>3, CallsFrame
<1>7. CustomShape'
  BY <1>1, <1>2, <1>3, <1>4, CustomFrame
<1>8. MapShape'
  BY <1>1, <1>2, <1>3, <1>4, MapFrame
<1>9. ASSUME ~exposed' PROVE PagesShape'
  <2>1. PagesShape /\ \A blk \in Blocks : ~Unlogged(blk)
    BY <1>9 DEF IInv
  <2>2. DiskKnown'
    <3> SUFFICES ASSUME NEW s \in Servers, NEW blk \in Blocks
                 PROVE  \E m \in redo'[s]..flushed' : Shows(wal, blk, m, disk'[s][blk])
      BY <1>1 DEF DiskKnown
    <3>1. CASE s = "primary"
      <4>1. redo'[s] = Len(wal) /\ disk'[s][blk] = pages["primary"][blk]
        BY <3>1, <1>1, <1>2 DEF TypeOK
      <4>2. Shows(wal, blk, Len(wal), pages["primary"][blk])
        BY <2>1, <1>1 DEF PagesShape, UpCurrent
      <4> QED
        BY <4>1, <4>2, <1>1, <1>3
    <3>2. CASE s # "primary"
      <4>1. redo'[s] = redo[s] /\ disk'[s] = disk[s]
        BY <3>2, <1>1, <1>2 DEF TypeOK
      <4>2. PICK m \in redo[s]..flushed : Shows(wal, blk, m, disk[s][blk])
        BY <2>1 DEF PagesShape, DiskKnown
      <4>3. m \in redo[s]..flushed'
        BY <4>2, <1>1, <1>2, <1>3, Basics
      <4> QED
        BY <4>1, <4>2, <4>3
    <3> QED
      BY <3>1, <3>2
  <2>3. RecoveryAhead'
    BY <2>1, <1>1, <1>2, <1>3, RecoveryFrame DEF PagesShape
  <2>4. UpCurrent'
    <3>1. \A blk \in Blocks : Unlogged(blk)' <=> Unlogged(blk)
      BY <1>4, SameUnlogged
    <3>2. \A i \in 1..Len(wal) : i <= flushed'
      BY <1>1, <1>3
    <3> QED
      BY <2>1, <3>1, <3>2, <1>1 DEF PagesShape, UpCurrent
  <2>5. SwapsApart' /\ SwapCurrent' /\ Permuted'
    BY <2>1, <1>1 DEF PagesShape, SwapsApart, SwapCurrent, Permuted, Swapping, Mine
  <2> QED
    BY <2>2, <2>3, <2>4, <2>5 DEF PagesShape
<1> QED
  BY <1>5, <1>6, <1>7, <1>8, <1>9 DEF IInv

LEMMA RestartpointStep ==
  ASSUME IInv, Restartpoint, UNCHANGED <<pageVars, tool>> PROVE IInv'
<1>1. /\ status["standby"] = "recovering" /\ redo["primary"] <= replayed["standby"]
      /\ redo' = [redo EXCEPT !["standby"] = redo["primary"]]
      /\ disk' = [disk EXCEPT !["standby"] = pages["standby"]]
      /\ UNCHANGED <<loaded, wal, flushed, status, replayed, pages, fsm, pending, op, lsn, calls, exposed>>
  BY DEF Restartpoint, pageVars
<1>2. TypeOK /\ LogShape /\ CallsShape /\ LocksExclude /\ CustomShape /\ MapShape
  BY DEF IInv
<1>3. Len(wal) \in Nat /\ flushed \in Nat /\ flushed <= flushed' /\ flushed' \in Nat /\ flushed' <= Len(wal)
  BY <1>1, <1>2, Basics
<1>4. Kept /\ Quiet /\ NoMessage /\ SameSwaps /\ SameCustom
  BY <1>1, <1>2, AppendKept DEF Quiet, NoMessage, SameSwaps, SameCustom
<1>5. TypeOK' /\ LogShape'
  <2>1. redo' \in [Servers -> 0..flushed'] /\ replayed' \in [Servers -> 0..flushed']
    BY <1>1, <1>2 DEF TypeOK, LogShape, Servers
  <2>2. disk' \in PageTypes
    BY <1>1, <1>2, Typed DEF PageTypes, Servers
  <2>3. /\ status' \in [Servers -> {"up", "recovering", "crashed", "stopped"}] /\ status'["standby"] # "up"
        /\ status'["primary"] # "up" => flushed' = Len(wal)
        /\ redo'["standby"] <= replayed'["standby"]
    BY <1>1, <1>2 DEF TypeOK, LogShape, Servers
  <2> QED
    BY <2>1, <2>2, <2>3, <1>1, <1>2, <1>3, Typed, ServerTypes
<1>6. CallsShape' /\ LocksExclude'
  BY <1>1, <1>2, <1>3, CallsFrame
<1>7. CustomShape'
  BY <1>1, <1>2, <1>3, <1>4, CustomFrame
<1>8. MapShape'
  BY <1>1, <1>2, <1>3, <1>4, MapFrame
<1>9. ASSUME ~exposed' PROVE PagesShape'
  <2>1. PagesShape
    BY <1>1, <1>9 DEF IInv
  <2>2. DiskKnown'
    <3> SUFFICES ASSUME NEW s \in Servers, NEW blk \in Blocks
                 PROVE  \E m \in redo'[s]..flushed : Shows(wal, blk, m, disk'[s][blk])
      BY <1>1 DEF DiskKnown
    <3>1. CASE s = "standby"
      <4>1. redo'[s] = redo["primary"] /\ disk'[s][blk] = pages["standby"][blk]
        BY <3>1, <1>1, <1>2 DEF TypeOK
      <4>2. PICK m \in replayed["standby"]..flushed : Shows(wal, blk, m, pages["standby"][blk])
        BY <2>1, <1>1 DEF PagesShape, RecoveryAhead, Servers
      <4>3. m \in redo["primary"]..flushed
        BY <4>2, <1>1, <1>2, <1>3, Basics DEF Servers
      <4> QED
        BY <4>1, <4>2, <4>3
    <3>2. CASE s # "standby"
      <4>1. redo'[s] = redo[s] /\ disk'[s] = disk[s]
        BY <3>2, <1>1, <1>2 DEF TypeOK
      <4> QED
        BY <2>1, <4>1 DEF PagesShape, DiskKnown
    <3> QED
      BY <3>1, <3>2
  <2>3. RecoveryAhead'
    BY <2>1, <1>1, <1>2, <1>3, RecoveryFrame DEF PagesShape
  <2>4. UpCurrent'
    <3>1. \A blk \in Blocks : Unlogged(blk)' <=> Unlogged(blk)
      BY <1>4, SameUnlogged
    <3> QED
      BY <2>1, <3>1, <1>1 DEF PagesShape, UpCurrent
  <2>5. SwapsApart' /\ SwapCurrent' /\ Permuted'
    BY <2>1, <1>1 DEF PagesShape, SwapsApart, SwapCurrent, Permuted, Swapping, Mine
  <2> QED
    BY <2>2, <2>3, <2>4, <2>5 DEF PagesShape
<1> QED
  BY <1>5, <1>6, <1>7, <1>8, <1>9 DEF IInv

LEMMA PageWriteStep ==
  ASSUME IInv, NEW blk \in Blocks, PageWrite(blk), UNCHANGED tool PROVE IInv'
<1>1. /\ status["primary"] = "up" /\ disk' = [disk EXCEPT !["primary"][blk] = pages["primary"][blk]]
      /\ flushed' = Max({flushed, lsn[blk]}) /\ exposed' = (exposed \/ Unlogged(blk))
      /\ UNCHANGED <<loaded, wal, status, redo, replayed, pages, fsm, pending, op, lsn, calls>>
  BY DEF PageWrite
<1>2. TypeOK /\ LogShape /\ CallsShape /\ LocksExclude /\ CustomShape /\ MapShape
  BY DEF IInv
<1>3. /\ Len(wal) \in Nat /\ flushed \in Nat /\ flushed <= Len(wal)
      /\ lsn[blk] \in Nat /\ lsn[blk] <= Len(wal)
  BY <1>2, Basics, Typed
<1>4. /\ flushed' \in Nat /\ flushed <= flushed' /\ lsn[blk] <= flushed' /\ flushed' <= Len(wal)
  BY <1>1, <1>3, MaxTwo
<1>5. Kept /\ Quiet /\ NoMessage /\ SameSwaps /\ SameCustom
  BY <1>1, <1>2, AppendKept DEF Quiet, NoMessage, SameSwaps, SameCustom
<1>6. TypeOK' /\ LogShape'
  <2>1. redo' \in [Servers -> 0..flushed'] /\ replayed' \in [Servers -> 0..flushed']
    <3>1. 0..flushed \subseteq 0..flushed'
      BY <1>3, <1>4
    <3> QED
      BY <3>1, <1>1, <1>2 DEF TypeOK, LogShape
  <2>2. disk' \in PageTypes
    <3>1. pages["primary"][blk] \in Contents
      BY <1>2, Typed DEF PageTypes, Servers
    <3> QED
      BY <3>1, <1>1, <1>2, Typed DEF PageTypes
  <2>3. /\ status' \in [Servers -> {"up", "recovering", "crashed", "stopped"}] /\ status'["standby"] # "up"
        /\ redo'["standby"] <= replayed'["standby"]
    BY <1>1, <1>2 DEF TypeOK, LogShape, Servers
  <2> QED
    BY <2>1, <2>2, <2>3, <1>1, <1>2, <1>4, Typed, ServerTypes
<1>7. CallsShape' /\ LocksExclude'
  BY <1>1, <1>2, <1>3, CallsFrame
<1>8. CustomShape'
  BY <1>1, <1>2, <1>4, <1>5, CustomFrame
<1>9. MapShape'
  BY <1>1, <1>2, <1>4, <1>5, MapFrame
<1>10. ASSUME ~exposed' PROVE PagesShape'
  <2>1. PagesShape /\ ~Unlogged(blk)
    BY <1>1, <1>10 DEF IInv
  <2>2. DiskKnown'
    <3> SUFFICES ASSUME NEW s \in Servers, NEW x \in Blocks
                 PROVE  \E m \in redo[s]..flushed' : Shows(wal, x, m, disk'[s][x])
      BY <1>1 DEF DiskKnown
    <3>1. CASE s = "primary" /\ x = blk
      <4>1. disk'[s][x] = pages["primary"][blk]
        BY <3>1, <1>1, <1>2, Typed DEF PageTypes
      <4>2. /\ Shows(wal, blk, Len(wal), pages["primary"][blk])
            /\ \A i \in 1..Len(wal) : blk \in DOMAIN wal[i].image => i <= flushed \/ i <= lsn[blk]
        BY <2>1, <1>1 DEF PagesShape, UpCurrent
      <4>3. \A i \in 1..Len(wal) : blk \in DOMAIN wal[i].image => i <= flushed'
        BY <4>2, <1>3, <1>4
      <4>4. Shows(wal, blk, flushed', pages["primary"][blk])
        BY <4>2, <4>3, <1>3, <1>4, ShowsBack
      <4>5. flushed' \in redo[s]..flushed'
        BY <1>2, <1>4, Basics
      <4> QED
        BY <3>1, <4>1, <4>4, <4>5
    <3>2. CASE ~(s = "primary" /\ x = blk)
      <4>1. disk'[s][x] = disk[s][x]
        BY <3>2, <1>1, <1>2, Typed DEF PageTypes
      <4>2. PICK m \in redo[s]..flushed : Shows(wal, x, m, disk[s][x])
        BY <2>1 DEF PagesShape, DiskKnown
      <4>3. m \in redo[s]..flushed'
        BY <4>2, <1>2, <1>4, Basics
      <4> QED
        BY <4>1, <4>2, <4>3
    <3> QED
      BY <3>1, <3>2
  <2>3. RecoveryAhead'
    BY <2>1, <1>1, <1>2, <1>4, RecoveryFrame DEF PagesShape
  <2>4. UpCurrent'
    <3>1. \A x \in Blocks : Unlogged(x)' <=> Unlogged(x)
      BY <1>5, SameUnlogged
    <3>2. \A i \in 1..Len(wal) : i <= flushed => i <= flushed'
      BY <1>3, <1>4
    <3> QED
      BY <2>1, <3>1, <3>2, <1>1 DEF PagesShape, UpCurrent
  <2>5. SwapsApart' /\ SwapCurrent' /\ Permuted'
    BY <2>1, <1>1 DEF PagesShape, SwapsApart, SwapCurrent, Permuted, Swapping, Mine
  <2> QED
    BY <2>2, <2>3, <2>4, <2>5 DEF PagesShape
<1> QED
  BY <1>6, <1>7, <1>8, <1>9, <1>10 DEF IInv

LEMMA StartStep ==
  ASSUME IInv, NEW s \in Servers, Start(s), UNCHANGED <<pageVars, tool>> PROVE IInv'
<1>1. /\ status[s] \in {"crashed", "stopped"} /\ status' = [status EXCEPT ![s] = "recovering"]
      /\ replayed' = [replayed EXCEPT ![s] = redo[s]] /\ pages' = [pages EXCEPT ![s] = disk[s]]
      /\ UNCHANGED <<loaded, wal, flushed, redo, disk, fsm, pending, op, lsn, calls, exposed>>
  BY DEF Start, pageVars
<1>2. TypeOK /\ LogShape /\ CallsShape /\ LocksExclude /\ CustomShape /\ MapShape
  BY DEF IInv
<1>3. Len(wal) \in Nat /\ flushed \in Nat /\ flushed <= flushed' /\ flushed' \in Nat /\ flushed' <= Len(wal)
  BY <1>1, <1>2, Basics
<1>4. Kept /\ Quiet /\ NoMessage /\ SameSwaps /\ SameCustom
  BY <1>1, <1>2, AppendKept DEF Quiet, NoMessage, SameSwaps, SameCustom
<1>5. /\ status'["primary"] = "up" <=> status["primary"] = "up"
      /\ \A t \in Servers : t # s => status'[t] = status[t] /\ replayed'[t] = replayed[t] /\ pages'[t] = pages[t]
      /\ replayed'[s] = redo[s] /\ pages'[s] = disk[s]
  BY <1>1, <1>2, Typed DEF TypeOK, LogShape, PageTypes
<1>6. TypeOK' /\ LogShape'
  <2>1. redo' \in [Servers -> 0..flushed'] /\ replayed' \in [Servers -> 0..flushed']
    BY <1>1, <1>2 DEF TypeOK, LogShape
  <2>2. pages' \in PageTypes
    BY <1>1, <1>2, Typed DEF PageTypes
  <2>3. /\ status' \in [Servers -> {"up", "recovering", "crashed", "stopped"}] /\ status'["standby"] # "up"
        /\ status'["primary"] # "up" => flushed' = Len(wal)
    BY <1>1, <1>2, <1>5 DEF TypeOK, LogShape, Servers
  <2>4. redo'["standby"] <= replayed'["standby"]
    BY <1>1, <1>2, <1>5, Basics DEF LogShape, Servers
  <2> QED
    BY <2>1, <2>2, <2>3, <2>4, <1>1, <1>2, <1>3, Typed, ServerTypes
<1>7. CallsShape' /\ LocksExclude'
  BY <1>1, <1>2, <1>3, <1>5, CallsFrame
<1>8. CustomShape'
  BY <1>1, <1>2, <1>3, <1>4, CustomFrame
<1>9. MapShape'
  <2>1. \A i \in 1..replayed'["standby"] : i \in 1..replayed["standby"]
    BY <1>2, <1>5, Basics DEF LogShape, Servers
  <2> QED
    BY <2>1, <1>1, <1>2 DEF MapShape, MapTail
<1>10. ASSUME ~exposed' PROVE PagesShape'
  <2>1. PagesShape
    BY <1>1, <1>10 DEF IInv
  <2>2. DiskKnown'
    BY <2>1, <1>1, <1>2, <1>3, DiskFrame DEF PagesShape
  <2>3. RecoveryAhead'
    <3> SUFFICES ASSUME NEW t \in Servers, status'[t] = "recovering", NEW blk \in Blocks
                 PROVE  \E m \in replayed'[t]..flushed : Shows(wal, blk, m, pages'[t][blk])
      BY <1>1 DEF RecoveryAhead
    <3>1. CASE t = s
      BY <3>1, <2>1, <1>5 DEF PagesShape, DiskKnown
    <3>2. CASE t # s
      BY <3>2, <2>1, <1>5 DEF PagesShape, RecoveryAhead
    <3> QED
      BY <3>1, <3>2
  <2>4. status["primary"] = "up" \/ \A b \in Sessions : op[b] = NoOp
    BY <1>2 DEF CallsShape
  <2>5. UpCurrent'
    <3>1. \A x \in Blocks : Unlogged(x)' <=> Unlogged(x)
      BY <1>4, SameUnlogged
    <3>2. status'["primary"] = "up" => pages'["primary"] = pages["primary"]
      BY <1>1, <1>5 DEF Servers
    <3> QED
      BY <2>1, <3>1, <3>2, <1>1, <1>5 DEF PagesShape, UpCurrent
  <2>6. SwapCurrent'
    <3>1. CASE status["primary"] = "up"
      <4>1. pages'["primary"] = pages["primary"]
        BY <3>1, <1>1, <1>5 DEF Servers
      <4> QED
        BY <4>1, <2>1, <1>1 DEF PagesShape, SwapCurrent, Swapping
    <3>2. CASE \A b \in Sessions : op[b] = NoOp
      BY <3>2, <1>1 DEF SwapCurrent, Swapping, NoOp
    <3> QED
      BY <3>1, <3>2, <2>4
  <2>7. SwapsApart' /\ Permuted'
    BY <2>1, <1>1 DEF PagesShape, SwapsApart, Permuted, Swapping, Mine
  <2> QED
    BY <2>2, <2>3, <2>5, <2>6, <2>7 DEF PagesShape
<1> QED
  BY <1>6, <1>7, <1>8, <1>9, <1>10 DEF IInv

LEMMA EndRecoveryStep ==
  ASSUME IInv, EndRecovery, UNCHANGED <<pageVars, tool>> PROVE IInv'
<1>1. /\ status["primary"] = "recovering" /\ replayed["primary"] = Len(wal)
      /\ status' = [status EXCEPT !["primary"] = "up"] /\ redo' = [redo EXCEPT !["primary"] = Len(wal)]
      /\ disk' = [disk EXCEPT !["primary"] = pages["primary"]]
      /\ UNCHANGED <<loaded, wal, flushed, replayed, pages, fsm, pending, op, lsn, calls, exposed>>
  BY DEF EndRecovery, pageVars
<1>2. TypeOK /\ LogShape /\ CallsShape /\ LocksExclude /\ CustomShape /\ MapShape
  BY DEF IInv
<1>3. /\ Len(wal) \in Nat /\ flushed \in Nat /\ flushed <= flushed' /\ flushed' \in Nat /\ flushed' <= Len(wal)
      /\ flushed = Len(wal)
  BY <1>1, <1>2, Basics DEF LogShape
<1>4. Kept /\ Quiet /\ NoMessage /\ SameSwaps /\ SameCustom
  BY <1>1, <1>2, AppendKept DEF Quiet, NoMessage, SameSwaps, SameCustom
<1>5. /\ status'["primary"] = "up" /\ status'["standby"] = status["standby"]
      /\ redo'["primary"] = Len(wal) /\ redo'["standby"] = redo["standby"]
      /\ disk'["primary"] = pages["primary"] /\ disk'["standby"] = disk["standby"]
  BY <1>1, <1>2, Typed DEF TypeOK, PageTypes, Servers
<1>6. TypeOK' /\ LogShape'
  <2>1. redo' \in [Servers -> 0..flushed'] /\ replayed' \in [Servers -> 0..flushed']
    <3>1. Len(wal) \in 0..flushed'
      BY <1>1, <1>3
    <3> QED
      BY <3>1, <1>1, <1>2 DEF TypeOK, LogShape
  <2>2. disk' \in PageTypes
    BY <1>1, <1>2, Typed DEF PageTypes, Servers
  <2>3. /\ status' \in [Servers -> {"up", "recovering", "crashed", "stopped"}] /\ status'["standby"] # "up"
        /\ redo'["standby"] <= replayed'["standby"]
    BY <1>1, <1>2, <1>5 DEF TypeOK, LogShape, Servers
  <2> QED
    BY <2>1, <2>2, <2>3, <1>1, <1>2, <1>3, Typed, ServerTypes
<1>7. CallsShape' /\ LocksExclude'
  BY <1>1, <1>2, <1>3, <1>5, CallsFrame
<1>8. CustomShape'
  BY <1>1, <1>2, <1>3, <1>4, CustomFrame
<1>9. MapShape'
  BY <1>1, <1>2, <1>3, <1>4, MapFrame
<1>10. ASSUME ~exposed' PROVE PagesShape'
  <2>1. PagesShape /\ \A b \in Sessions : op[b] = NoOp
    BY <1>1, <1>2, <1>10 DEF IInv, CallsShape
  <2>2. \A blk \in Blocks : Shows(wal, blk, Len(wal), pages["primary"][blk])
    <3> TAKE blk \in Blocks
    <3>1. PICK m \in replayed["primary"]..flushed : Shows(wal, blk, m, pages["primary"][blk])
      BY <2>1, <1>1 DEF PagesShape, RecoveryAhead, Servers
    <3>2. m = Len(wal)
      BY <3>1, <1>1, <1>3
    <3> QED
      BY <3>1, <3>2
  <2>3. DiskKnown'
    <3> SUFFICES ASSUME NEW s \in Servers, NEW blk \in Blocks
                 PROVE  \E m \in redo'[s]..flushed : Shows(wal, blk, m, disk'[s][blk])
      BY <1>1 DEF DiskKnown
    <3>1. CASE s = "primary"
      <4>1. Len(wal) \in redo'[s]..flushed
        BY <3>1, <1>3, <1>5
      <4> QED
        BY <3>1, <4>1, <2>2, <1>5
    <3>2. CASE s = "standby"
      BY <3>2, <2>1, <1>5 DEF PagesShape, DiskKnown
    <3> QED
      BY <3>1, <3>2 DEF Servers
  <2>4. RecoveryAhead'
    <3>1. \A s \in Servers : status'[s] = "recovering" => status[s] = "recovering"
      BY <1>5 DEF Servers
    <3> QED
      BY <3>1, <2>1, <1>1, <1>2, <1>3, RecoveryFrame DEF PagesShape
  <2>5. UpCurrent'
    <3>1. \A i \in 1..Len(wal) : i <= flushed
      BY <1>3
    <3> QED
      BY <2>2, <3>1, <1>1 DEF UpCurrent
  <2>6. SwapsApart' /\ SwapCurrent' /\ Permuted'
    BY <2>1, <1>1 DEF PagesShape, SwapsApart, SwapCurrent, Permuted, Swapping, Mine
  <2> QED
    BY <2>3, <2>4, <2>5, <2>6 DEF PagesShape
<1> QED
  BY <1>6, <1>7, <1>8, <1>9, <1>10 DEF IInv

LEMMA RedoStep == ASSUME IInv, NEW s \in Servers, Redo(s) PROVE IInv'
<1> DEFINE n == replayed[s] + 1
           record == wal[n]
           page(blk) == IF blk \in DOMAIN record.image THEN record.image[blk] ELSE pages[s][blk]
<1>1. /\ status[s] = "recovering" /\ replayed[s] < Available(s)
      /\ replayed' = [replayed EXCEPT ![s] = @ + 1]
      /\ pages' = [pages EXCEPT ![s] = [blk \in Blocks |->
           IF blk \in DOMAIN record.image THEN record.image[blk] ELSE @[blk]]]
      /\ fsm' = IF record.kind = "truncate_fsm" THEN [fsm EXCEPT ![s] = @ \cap Blocks] ELSE fsm
      /\ UNCHANGED <<loaded, wal, flushed, redo, disk, op, lsn, calls, exposed>>
  BY DEF Redo, pageVars
<1>2. TypeOK /\ LogShape /\ CallsShape /\ LocksExclude /\ CustomShape /\ MapShape
  BY DEF IInv
<1>3. /\ Len(wal) \in Nat /\ flushed \in Nat /\ flushed <= flushed' /\ flushed' \in Nat /\ flushed' <= Len(wal)
      /\ replayed[s] \in Nat
  BY <1>1, <1>2, Basics
<1>4. Available(s) = flushed
  BY <1>1, <1>2 DEF Available, LogShape, Servers
<1>5. n \in 1..flushed /\ n \in 1..Len(wal) /\ n \in 0..flushed
  BY <1>1, <1>3, <1>4
<1>6. record \in Records /\ record.image \in Images
  <2>1. record \in Records
    BY <1>2, <1>5, Basics
  <2> QED
    BY <2>1 DEF Records
<1>7. /\ status' = status /\ pending' \in [Servers -> SUBSET Values]
  <2>1. CASE record.kind = "signal"
    <3>1. record.signal \in Values
      BY <2>1, <1>2, <1>5 DEF LogShape
    <3>2. ~signal_rmgr_redo_fails(record)
      BY <3>1 DEF signal_rmgr_redo_fails, check_signal_value, Values
    <3>3. pending' = [pending EXCEPT ![s] = @ \cup {record.signal}] /\ status' = status
      BY <2>1, <3>2 DEF Redo, signal_rmgr_redo
    <3> QED
      BY <3>1, <3>3, <1>2, Typed
  <2>2. CASE record.kind # "signal"
    <3>1. UNCHANGED <<pending, status>>
      BY <2>2 DEF Redo
    <3> QED
      BY <3>1, <1>2, Typed
  <2> QED
    BY <2>1, <2>2
<1>8. Kept /\ Quiet /\ NoMessage /\ SameSwaps /\ SameCustom
  BY <1>1, <1>2, AppendKept DEF Quiet, NoMessage, SameSwaps, SameCustom
<1> HIDE DEF record
<1>9. \A blk \in Blocks : page(blk) \in Contents
  BY <1>2, <1>6, ImageType, Typed DEF PageTypes
<1>10. /\ \A t \in Servers : t # s => replayed'[t] = replayed[t] /\ pages'[t] = pages[t] /\ fsm'[t] = fsm[t]
       /\ replayed'[s] = n /\ pages'[s] = [blk \in Blocks |-> page(blk)]
       /\ fsm'[s] = IF record.kind = "truncate_fsm" THEN fsm[s] \cap Blocks ELSE fsm[s]
  BY <1>1, <1>2, Typed DEF LogShape, PageTypes
<1>11. TypeOK' /\ LogShape'
  <2>1. redo' \in [Servers -> 0..flushed'] /\ replayed' \in [Servers -> 0..flushed']
    BY <1>1, <1>2, <1>5 DEF TypeOK, LogShape
  <2>2. pages' \in PageTypes
    <3>1. [blk \in Blocks |-> page(blk)] \in [Blocks -> Contents]
      BY <1>9
    <3> HIDE DEF page
    <3>2. pages' = [pages EXCEPT ![s] = [blk \in Blocks |-> page(blk)]]
      BY <1>1, <1>2, Typed DEF PageTypes, page
    <3> QED
      BY <3>1, <3>2, <1>2, Typed DEF PageTypes
  <2>3. fsm' \in [Servers -> SUBSET MapBlocks]
    BY <1>1, <1>2, Typed
  <2>4. /\ status' \in [Servers -> {"up", "recovering", "crashed", "stopped"}] /\ status'["standby"] # "up"
        /\ status'["primary"] # "up" => flushed' = Len(wal)
    BY <1>1, <1>2, <1>7 DEF TypeOK, LogShape, Servers
  <2>5. redo'["standby"] <= replayed'["standby"]
    <3>1. CASE s = "standby"
      BY <3>1, <1>1, <1>2, <1>3, <1>10, Basics DEF LogShape, Servers
    <3>2. CASE s # "standby"
      BY <3>2, <1>1, <1>2, <1>10 DEF LogShape, Servers
    <3> QED
      BY <3>1, <3>2
  <2> QED
    BY <2>1, <2>2, <2>3, <2>4, <2>5, <1>1, <1>2, <1>3, <1>7, Typed, ServerTypes
<1>12. CallsShape' /\ LocksExclude'
  BY <1>1, <1>2, <1>3, <1>7, CallsFrame
<1>13. CustomShape'
  BY <1>1, <1>2, <1>3, <1>8, CustomFrame
<1>14. MapShape'
  <2>1. CASE s = "primary"
    <3>1. Blocks \subseteq fsm'["primary"]
      BY <2>1, <1>2, <1>10 DEF MapShape
    <3>2. (\E i \in 1..flushed : wal[i].kind = "truncate_fsm") \/ MapBlocks \ MapTail \subseteq fsm'["primary"]
      BY <2>1, <1>2, <1>5, <1>10 DEF MapShape, record
    <3>3. replayed'["standby"] = replayed["standby"] /\ fsm'["standby"] = fsm["standby"]
      BY <2>1, <1>10 DEF Servers
    <3> QED
      BY <3>1, <3>2, <3>3, <1>1, <1>2 DEF MapShape, MapTail
  <2>2. CASE s = "standby"
    <3>1. fsm'["primary"] = fsm["primary"] /\ fsm'["standby"] \subseteq fsm["standby"]
      BY <2>2, <1>10 DEF Servers
    <3>2. ASSUME NEW i \in 1..replayed'["standby"], wal[i].kind = "truncate_fsm"
          PROVE  fsm'["standby"] \subseteq Blocks \cup MapTail
      <4>1. CASE i = n
        BY <4>1, <3>2, <2>2, <1>10 DEF record
      <4>2. CASE i # n
        <5>1. i \in 1..replayed["standby"]
          BY <4>2, <2>2, <1>3, <1>10
        <5> QED
          BY <5>1, <3>1, <3>2, <1>2 DEF MapShape
      <4> QED
        BY <4>1, <4>2
    <3> QED
      BY <3>1, <3>2, <1>1, <1>2 DEF MapShape, MapTail
  <2> QED
    BY <2>1, <2>2 DEF Servers
<1>15. ASSUME ~exposed' PROVE PagesShape'
  <2>1. PagesShape
    BY <1>1, <1>15 DEF IInv
  <2>2. DiskKnown'
    BY <2>1, <1>1, <1>2, <1>3, DiskFrame DEF PagesShape
  <2>3. ASSUME NEW blk \in Blocks PROVE \E m \in n..flushed : Shows(wal, blk, m, page(blk))
    <3>1. CASE blk \in DOMAIN record.image
      <4>1. Shows(wal, blk, n, wal[n].image[blk])
        BY <3>1, <1>5, ShowsImage DEF record
      <4>2. n \in n..flushed
        BY <1>5
      <4> QED
        BY <3>1, <4>1, <4>2 DEF record
    <3>2. CASE blk \notin DOMAIN record.image
      <4>1. PICK m \in replayed[s]..flushed : Shows(wal, blk, m, pages[s][blk])
        BY <2>1, <1>1 DEF PagesShape, RecoveryAhead
      <4>2. CASE m = replayed[s]
        <5>1. \A i \in (replayed[s] + 1)..n : blk \notin DOMAIN wal[i].image
          BY <3>2, <1>3 DEF record
        <5>2. replayed[s] \in Nat /\ n \in Nat /\ replayed[s] <= n /\ n \in n..flushed
          BY <1>3, <1>5
        <5>3. Shows(wal, blk, n, pages[s][blk])
          BY <4>1, <4>2, <5>1, <5>2, ShowsOn
        <5> QED
          BY <5>2, <5>3, <3>2
      <4>3. CASE m # replayed[s]
        <5>1. m \in n..flushed
          BY <4>1, <4>3, <1>3
        <5> QED
          BY <4>1, <5>1, <3>2
      <4> QED
        BY <4>2, <4>3
    <3> QED
      BY <3>1, <3>2
  <2>4. RecoveryAhead'
    <3> SUFFICES ASSUME NEW t \in Servers, status[t] = "recovering", NEW blk \in Blocks
                 PROVE  \E m \in replayed'[t]..flushed : Shows(wal, blk, m, pages'[t][blk])
      BY <1>1, <1>7 DEF RecoveryAhead
    <3>1. CASE t = s
      BY <3>1, <2>3, <1>10
    <3>2. CASE t # s
      BY <3>2, <2>1, <1>10 DEF PagesShape, RecoveryAhead
    <3> QED
      BY <3>1, <3>2
  <2>5. CASE s = "primary"
    <3>1. \A b \in Sessions : op[b] = NoOp
      BY <2>5, <1>1, <1>2 DEF CallsShape
    <3>2. UpCurrent'
      BY <2>5, <1>1, <1>7 DEF UpCurrent
    <3>3. SwapsApart' /\ SwapCurrent' /\ Permuted'
      BY <3>1, <2>1, <1>1 DEF PagesShape, SwapsApart, SwapCurrent, Permuted, Swapping, NoOp
    <3> QED
      BY <3>2, <3>3, <2>2, <2>4 DEF PagesShape
  <2>6. CASE s # "primary"
    <3>1. pages'["primary"] = pages["primary"] /\ \A x \in Blocks : Unlogged(x)' <=> Unlogged(x)
      BY <2>6, <1>8, <1>10, SameUnlogged DEF Servers
    <3>2. UpCurrent'
      BY <3>1, <2>1, <1>1, <1>7 DEF PagesShape, UpCurrent
    <3>3. SwapsApart' /\ SwapCurrent' /\ Permuted'
      BY <3>1, <2>1, <1>1 DEF PagesShape, SwapsApart, SwapCurrent, Permuted, Swapping, Mine
    <3> QED
      BY <3>2, <3>3, <2>2, <2>4 DEF PagesShape
  <2> QED
    BY <2>5, <2>6
<1> QED
  BY <1>11, <1>12, <1>13, <1>14, <1>15 DEF IInv

\* Sessions are done before a stop: it changes the calls of a server no more.
LEMMA StopStep ==
  ASSUME IInv, NEW s \in Servers, PostmasterStop(s), SessionsDone(s), KillSessions(s) PROVE IInv'
<1>1. /\ status[s] \in {"up", "recovering"} /\ status' = [status EXCEPT ![s] = "stopped"]
      /\ pending' = [pending EXCEPT ![s] = {}]
      /\ UNCHANGED <<loaded, wal, replayed, pages, fsm, calls, exposed>>
  BY DEF PostmasterStop, Stop, KillSessions
<1>2. TypeOK /\ LogShape /\ CallsShape /\ LocksExclude /\ CustomShape /\ MapShape
  BY DEF IInv
<1>3. Len(wal) \in Nat /\ flushed \in Nat /\ flushed <= Len(wal) /\ Len(wal) \in 0..Len(wal)
  BY <1>2, Basics
<1>4. op' = op
  <2>1. CASE s = "primary"
    <3>1. \A b \in Sessions : op[b] = NoOp
      BY <2>1 DEF SessionsDone
    <3>2. op = [b \in Sessions |-> NoOp]
      BY <3>1, <1>2 DEF CallsShape
    <3> QED
      BY <3>2, <2>1 DEF KillSessions
  <2>2. CASE s # "primary"
    BY <2>2 DEF KillSessions
  <2> QED
    BY <2>1, <2>2
<1>5. s = "primary" => \A b \in Sessions : op[b] = NoOp
  BY DEF SessionsDone
<1>6. /\ lsn' \in [Blocks -> 0..Len(wal)] /\ (s # "primary" => lsn' = lsn)
  <2>1. 0 \in 0..Len(wal)
    BY <1>3
  <2> QED
    BY <2>1, <1>2, Typed DEF KillSessions
<1>7. /\ status'[s] = "stopped" /\ \A t \in Servers : t # s => status'[t] = status[t]
  BY <1>1, <1>2 DEF TypeOK
<1>8. /\ flushed' \in Nat /\ flushed <= flushed' /\ flushed' <= Len(wal)
      /\ redo' \in [Servers -> 0..flushed'] /\ replayed' \in [Servers -> 0..flushed'] /\ disk' \in PageTypes
      /\ redo'["standby"] <= replayed'["standby"]
      /\ (status'["primary"] # "up" => flushed' = Len(wal)) /\ (s # "primary" => flushed' = flushed)
      /\ (PagesShape => DiskKnown')
  <2>1. CASE status[s] = "up"
    <3>1. s = "primary"
      BY <1>2, <2>1 DEF LogShape, Servers
    <3>2. flushed' = Len(wal) /\ redo' = [redo EXCEPT ![s] = Len(wal)] /\ disk' = [disk EXCEPT ![s] = pages[s]]
      BY <2>1 DEF PostmasterStop, Stop
    <3>3. flushed' \in Nat /\ flushed <= flushed' /\ flushed' <= Len(wal) /\ Len(wal) \in 0..flushed'
      BY <3>2, <1>3
    <3>4. redo' \in [Servers -> 0..flushed'] /\ replayed' \in [Servers -> 0..flushed']
      BY <3>2, <3>3, <1>1, <1>2, <1>3, ServerSet DEF TypeOK, LogShape
    <3>5. disk' \in PageTypes
      BY <3>2, <1>2, Typed DEF PageTypes, Servers
    <3>6. redo'["standby"] <= replayed'["standby"]
      BY <3>1, <3>2, <1>1, <1>2 DEF TypeOK, LogShape, Servers
    <3>7. ASSUME PagesShape PROVE DiskKnown'
      <4> SUFFICES ASSUME NEW t \in Servers, NEW blk \in Blocks
                   PROVE  \E m \in redo'[t]..flushed' : Shows(wal, blk, m, disk'[t][blk])
        BY <1>1 DEF DiskKnown
      <4>1. CASE t = s
        <5>1. redo'[t] = Len(wal) /\ disk'[t][blk] = pages["primary"][blk]
          BY <4>1, <3>1, <3>2, <1>2 DEF TypeOK
        <5>2. ~Unlogged(blk)
          BY <3>1, <1>5 DEF Unlogged, NoOp
        <5>3. Shows(wal, blk, Len(wal), pages["primary"][blk])
          BY <5>2, <3>1, <3>7, <2>1 DEF PagesShape, UpCurrent
        <5> QED
          BY <5>1, <5>3, <3>2, <1>3
      <4>2. CASE t # s
        <5>1. redo'[t] = redo[t] /\ disk'[t] = disk[t]
          BY <4>2, <3>2, <1>2 DEF TypeOK
        <5>2. PICK m \in redo[t]..flushed : Shows(wal, blk, m, disk[t][blk])
          BY <3>7 DEF PagesShape, DiskKnown
        <5>3. m \in redo[t]..flushed'
          BY <5>2, <3>2, <1>2, <1>3, Basics
        <5> QED
          BY <5>1, <5>2, <5>3
      <4> QED
        BY <4>1, <4>2
    <3> QED
      BY <3>1, <3>2, <3>3, <3>4, <3>5, <3>6, <3>7
  <2>2. CASE status[s] # "up"
    <3>1. UNCHANGED <<flushed, redo, disk>>
      BY <2>2 DEF PostmasterStop, Stop
    <3>2. flushed' \in Nat /\ flushed <= flushed' /\ flushed' <= Len(wal)
      BY <3>1, <1>3
    <3>3. /\ redo' \in [Servers -> 0..flushed'] /\ replayed' \in [Servers -> 0..flushed'] /\ disk' \in PageTypes
          /\ redo'["standby"] <= replayed'["standby"]
      BY <3>1, <1>1, <1>2, Typed DEF TypeOK, LogShape
    <3>4. status'["primary"] # "up" => flushed' = Len(wal)
      BY <2>2, <3>1, <1>2, <1>7 DEF LogShape, Servers
    <3>5. PagesShape => DiskKnown'
      BY <3>1, <3>2, <1>1, <1>2, DiskFrame DEF PagesShape
    <3> QED
      BY <3>1, <3>2, <3>3, <3>4, <3>5
  <2> QED
    BY <2>1, <2>2
<1>9. Kept /\ Quiet /\ NoMessage /\ SameSwaps /\ SameCustom
  BY <1>1, <1>2, <1>4, AppendKept DEF Quiet, NoMessage, SameSwaps, SameCustom
<1>10. TypeOK' /\ LogShape'
  <2>1. /\ status' \in [Servers -> {"up", "recovering", "crashed", "stopped"}] /\ status'["standby"] # "up"
    BY <1>1, <1>2, <1>7 DEF TypeOK, LogShape, Servers
  <2>2. pending' \in [Servers -> SUBSET Values] /\ op' \in [Sessions -> OpTypes] /\ pages' \in PageTypes
        /\ fsm' \in [Servers -> SUBSET MapBlocks]
    BY <1>1, <1>2, <1>4, Typed
  <2> QED
    BY <2>1, <2>2, <1>1, <1>2, <1>6, <1>8, ServerTypes
<1>11. CallsShape' /\ LocksExclude'
  <2>1. CASE s = "primary"
    <3>1. op' = [b \in Sessions |-> NoOp]
      BY <2>1 DEF KillSessions
    <3> QED
      BY <3>1, CallsKilled
  <2>2. CASE s # "primary"
    <3>1. status'["primary"] = status["primary"]
      BY <2>2, <1>7 DEF Servers
    <3> QED
      BY <3>1, <1>1, <1>2, <1>3, <1>4, CallsFrame
  <2> QED
    BY <2>1, <2>2
<1>12. CustomShape'
  BY <1>1, <1>2, <1>8, <1>9, CustomFrame
<1>13. MapShape'
  BY <1>1, <1>2, <1>8, <1>9, MapFrame
<1>14. ASSUME ~exposed' PROVE PagesShape'
  <2>1. PagesShape
    BY <1>1, <1>14 DEF IInv
  <2>2. DiskKnown'
    BY <2>1, <1>8
  <2>3. RecoveryAhead'
    <3>1. \A t \in Servers : status'[t] = "recovering" => status[t] = "recovering"
      BY <1>7
    <3>2. \A i \in 1..flushed : wal'[i] = wal[i]
      BY <1>1
    <3> QED
      BY <3>1, <3>2, <2>1, <1>1, <1>2, <1>8, RecoveryFrame DEF PagesShape
  <2>4. UpCurrent'
    <3>1. status'["primary"] = "up" => s # "primary"
      BY <1>7
    <3>2. \A x \in Blocks : Unlogged(x)' <=> Unlogged(x)
      BY <1>9, SameUnlogged
    <3>3. ASSUME s # "primary" PROVE status'["primary"] = status["primary"] /\ UNCHANGED <<lsn, flushed>>
      BY <3>3, <1>6, <1>7, <1>8 DEF Servers
    <3> QED
      BY <3>1, <3>2, <3>3, <2>1, <1>1 DEF PagesShape, UpCurrent
  <2>5. SwapsApart' /\ SwapCurrent' /\ Permuted'
    BY <2>1, <1>1, <1>4 DEF PagesShape, SwapsApart, SwapCurrent, Permuted, Swapping, Mine
  <2> QED
    BY <2>2, <2>3, <2>4, <2>5 DEF PagesShape
<1> QED
  BY <1>10, <1>11, <1>12, <1>13, <1>14 DEF IInv

\* A crash, or the end of the postmaster: memory is lost, and with it the log that is not
\* on disk, which nothing has been replayed from.
LEMMA LoseMemoryStep ==
  ASSUME IInv, NEW s \in Servers, NEW end \in {"crashed", "stopped"},
         status' = [status EXCEPT ![s] = end], LoseMemory(s), KillSessions(s)
  PROVE  IInv'
<1>1. PICK back \in {{}, MapTail} : fsm' = [fsm EXCEPT ![s] = @ \cup back]
  BY DEF LoseMemory
<1>2. /\ wal' = (IF s = "primary" THEN SubSeq(wal, 1, flushed) ELSE wal)
      /\ pending' = [pending EXCEPT ![s] = {}]
      /\ UNCHANGED <<loaded, flushed, redo, replayed, pages, disk, calls, exposed>>
  BY DEF LoseMemory, KillSessions
<1>3. TypeOK /\ LogShape /\ CallsShape /\ LocksExclude /\ CustomShape /\ MapShape
  BY DEF IInv
<1>4. Len(wal) \in Nat /\ flushed \in Nat /\ flushed <= Len(wal) /\ flushed \in 0..Len(wal) /\ wal \in Seq(Records)
  BY <1>3, Basics
<1>5. /\ wal' \in Seq(Records) /\ Len(wal') \in Nat /\ flushed <= Len(wal') /\ Len(wal') <= Len(wal)
      /\ \A i \in 1..Len(wal') : wal'[i] = wal[i]
      /\ s = "primary" => Len(wal') = flushed
  BY <1>2, <1>4, CutLog
<1>6. \A i \in 1..flushed : wal'[i] = wal[i]
  BY <1>4, <1>5
<1>7. /\ status'[s] = end /\ \A t \in Servers : t # s => status'[t] = status[t]
      /\ status' \in [Servers -> {"up", "recovering", "crashed", "stopped"}]
      /\ fsm'[s] = fsm[s] \cup back /\ (\A t \in Servers : t # s => fsm'[t] = fsm[t])
      /\ fsm' \in [Servers -> SUBSET MapBlocks] /\ pending' \in [Servers -> SUBSET Values]
  <2>1. back \in SUBSET MapBlocks
    BY DEF MapTail
  <2> QED
    BY <2>1, <1>1, <1>2, <1>3 , Typed DEF TypeOK
<1>8. op' \in [Sessions -> OpTypes] /\ CallsShape' /\ LocksExclude' /\ lsn' \in [Blocks -> 0..Len(wal')]
  <2>1. CASE s = "primary"
    <3>1. op' = [b \in Sessions |-> NoOp] /\ lsn' = [blk \in Blocks |-> 0]
      BY <2>1 DEF KillSessions
    <3>2. 0 \in 0..Len(wal')
      BY <1>5
    <3> QED
      BY <3>1, <3>2, CallsKilled DEF CallsShape
  <2>2. CASE s # "primary"
    <3>1. op' = op /\ lsn' = lsn /\ wal' = wal /\ status'["primary"] = status["primary"]
      BY <2>2, <1>2, <1>7 DEF KillSessions, Servers
    <3>2. CallsShape' /\ LocksExclude'
      BY <3>1, <1>3, <1>4, CallsFrame
    <3> QED
      BY <3>1, <3>2, <1>3, Typed
  <2> QED
    BY <2>1, <2>2
<1>9. TypeOK' /\ LogShape'
  <2>1. /\ redo' \in [Servers -> 0..flushed'] /\ replayed' \in [Servers -> 0..flushed']
        /\ redo'["standby"] <= replayed'["standby"] /\ pages' \in PageTypes /\ disk' \in PageTypes
    BY <1>2, <1>3, Typed DEF TypeOK, LogShape
  <2>2. flushed' \in 0..Len(wal') /\ 0..flushed' \subseteq 0..Len(wal')
    BY <1>2, <1>4, <1>5
  <2>3. replayed' \in [Servers -> 0..Len(wal')]
    BY <2>1, <2>2
  <2>4. \A b \in Sessions : op'[b].phase \in Phases
    BY <1>8 DEF OpTypes
  <2>5. \A t \in Servers : \A signal \in pending'[t] : check_signal_value(signal)
    BY <1>7 DEF check_signal_value, Values
  <2>6. \A i \in 1..Len(wal') : wal'[i].kind = "signal" => wal'[i].signal \in Values
    <3>1. \A i \in 1..Len(wal') : i \in 1..Len(wal)
      BY <1>4, <1>5
    <3> QED
      BY <3>1, <1>3, <1>5 DEF LogShape
  <2>7. status'["standby"] # "up" /\ (status'["primary"] # "up" => flushed' = Len(wal'))
    <3>1. CASE s = "primary"
      BY <3>1, <1>2, <1>3, <1>5, <1>7 DEF LogShape, Servers
    <3>2. CASE s = "standby"
      BY <3>2, <1>2, <1>3, <1>7 DEF LogShape, Servers
    <3> QED
      BY <3>1, <3>2 DEF Servers
  <2>8. TypeOK'
    BY <2>1, <2>2, <2>3, <2>4, <2>5, <1>2, <1>3, <1>7, <1>8 DEF TypeOK, PageTypes, check_signal_value
  <2> QED
    BY <2>1, <2>6, <2>7, <2>8, <1>5, <1>7 DEF LogShape
<1>10. CustomShape'
  <2>1. CASE s = "primary"
    BY <2>1, <1>2, <1>3, CustomCut DEF KillSessions
  <2>2. CASE s # "primary"
    <3>1. op' = op /\ wal' = wal
      BY <2>2, <1>2 DEF KillSessions
    <3> QED
      BY <3>1, <1>2, <1>3, <1>4, CustomFrame DEF SameCustom, NoMessage
  <2> QED
    BY <2>1, <2>2
<1>11. MapShape'
  <2>1. \A i \in 1..replayed["standby"] : i \in 1..flushed
    BY <1>3, Basics DEF Servers
  <2>2. fsm["primary"] \subseteq fsm'["primary"] /\ fsm'["standby"] \subseteq fsm["standby"] \cup MapTail
    BY <1>7 DEF Servers
  <2> QED
    BY <2>1, <2>2, <1>2, <1>3, <1>6 DEF MapShape, MapTail
<1>12. ASSUME ~exposed' PROVE PagesShape'
  <2>1. PagesShape
    BY <1>2, <1>12 DEF IInv
  <2>2. DiskKnown' /\ RecoveryAhead'
    <3>1. \A t \in Servers : status'[t] = "recovering" => status[t] = "recovering"
      BY <1>7
    <3>2. flushed' \in Nat /\ flushed <= flushed'
      BY <1>2, <1>4
    <3> QED
      BY <3>1, <3>2, <2>1, <1>2, <1>3, <1>6, DiskFrame, RecoveryFrame DEF PagesShape
  <2>3. CASE s = "primary"
    <3>1. \A b \in Sessions : op'[b] = NoOp
      BY <2>3 DEF KillSessions
    <3>2. UpCurrent' /\ SwapsApart' /\ SwapCurrent'
      BY <2>3, <3>1, <1>7 DEF UpCurrent, SwapsApart, SwapCurrent, Swapping, NoOp
    <3>3. \A m \in 0..flushed : \A blk \in Blocks : \E at \in Blocks : \E k \in Nat : Shows(wal', at, m, <<blk, k>>)
      BY <2>1, <1>4, <1>6, PermutedFrame DEF PagesShape
    <3>4. Permuted'
      BY <2>3, <3>3, <1>5 DEF Permuted
    <3> QED
      BY <3>2, <3>4, <2>2 DEF PagesShape
  <2>4. CASE s # "primary"
    <3>1. UNCHANGED <<op, lsn, wal>> /\ status'["primary"] = status["primary"]
      BY <2>4, <1>2, <1>7 DEF KillSessions, Servers
    <3>2. \A x \in Blocks : Unlogged(x)' <=> Unlogged(x)
      BY <3>1, SameUnlogged DEF SameSwaps
    <3>3. UpCurrent'
      BY <3>1, <3>2, <2>1, <1>2 DEF PagesShape, UpCurrent
    <3>4. SwapsApart'
      BY <3>1, <2>1 DEF PagesShape, SwapsApart, Swapping, Mine
    <3>5. SwapCurrent'
      BY <3>1, <2>1, <1>2 DEF PagesShape, SwapCurrent, Swapping
    <3>6. Permuted'
      BY <3>1, <2>1 DEF PagesShape, Permuted
    <3> QED
      BY <3>3, <3>4, <3>5, <3>6, <2>2 DEF PagesShape
  <2> QED
    BY <2>3, <2>4
<1> QED
  BY <1>8, <1>9, <1>10, <1>11, <1>12 DEF IInv

LEMMA CrashStep == ASSUME IInv, NEW s \in Servers, Crash(s), KillSessions(s) PROVE IInv'
  BY LoseMemoryStep DEF Crash

LEMMA KilledStep == ASSUME IInv, NEW s \in Servers, PostmasterKilled(s), KillSessions(s) PROVE IInv'
  BY LoseMemoryStep DEF PostmasterKilled

-----------------------------------------------------------------------------
(* Swaps of pages.                                                         *)

\* Parts of the invariant that a step of a swap before its record leaves alone.
LEMMA SwapFrame ==
  ASSUME IInv, NEW b \in Sessions, NEW o, Becomes(b, o), o.kind = "swap", op[b].kind = "swap",
         o.first = op[b].first, o.second = op[b].second,
         op[b].phase \notin {"lock1", "lock2"}, CallShape(b)', status["primary"] = "up",
         pages' \in PageTypes, pages'["standby"] = pages["standby"], lsn' \in [Blocks -> 0..Len(wal)],
         UNCHANGED <<loaded, wal, flushed, status, redo, replayed, disk, fsm, pending, calls>>
  PROVE  /\ TypeOK' /\ LogShape' /\ CallsShape' /\ LocksExclude' /\ CustomShape' /\ MapShape'
         /\ PagesShape => DiskKnown' /\ RecoveryAhead' /\ Permuted'
<1>1. TypeOK /\ LogShape /\ CallsShape /\ LocksExclude /\ CustomShape /\ MapShape
  BY DEF IInv
<1>2. Len(wal) \in Nat /\ flushed \in Nat /\ flushed' \in Nat /\ flushed <= flushed' /\ flushed' <= Len(wal')
  BY <1>1, Basics
<1>3. Kept /\ NoMessage
  BY <1>1, AppendKept DEF NoMessage
<1>4. op'[b] = o /\ op' \in [Sessions -> OpTypes] /\ \A c \in Sessions : c # b => op'[c] = op[c]
  BY <1>1 DEF Becomes, CallsShape
<1>5. TypeOK' /\ LogShape'
  <2>1. /\ disk' \in PageTypes /\ fsm' \in [Servers -> SUBSET MapBlocks]
        /\ pending' \in [Servers -> SUBSET Values]
    BY <1>1, Typed
  <2> QED
    BY <2>1, <1>1, <1>2, <1>3, <1>4, TypesFrame
<1>6. CallsShape'
  BY <1>1, <1>2, CallsOne
<1>7. LocksExclude'
  <2>1. \A blk \in Blocks : Holds(b, blk)' => Holds(b, blk) /\ o.kind = op[b].kind
    BY <1>4 DEF Holds
  <2> QED
    BY <2>1, <1>1, LocksOne
<1>8. CustomShape'
  <2>1. SameCustom
    BY <1>4 DEF SameCustom
  <2> QED
    BY <2>1, <1>1, <1>2, <1>3, CustomFrame
<1>9. MapShape'
  BY <1>1, <1>2, <1>3, MapFrame
<1>10. ASSUME PagesShape PROVE DiskKnown' /\ RecoveryAhead' /\ Permuted'
  <2>1. DiskKnown'
    BY <1>1, <1>2, <1>10, DiskFrame DEF PagesShape
  <2>2. RecoveryAhead'
    <3>1. \A s \in Servers : status'[s] = "recovering" => status[s] = "recovering" /\ pages'[s] = pages[s]
      BY DEF Servers
    <3> QED
      BY <3>1, <1>1, <1>2, <1>10, RecoveryFrame DEF PagesShape
  <2>3. Permuted'
    BY <1>10 DEF PagesShape, Permuted
  <2> QED
    BY <2>1, <2>2, <2>3
<1> QED
  BY <1>5, <1>6, <1>7, <1>8, <1>9, <1>10

LEMMA RegisterStep ==
  ASSUME IInv, NEW b \in Sessions, Register(b), UNCHANGED tool PROVE IInv'
<1> DEFINE pair == [blk \in Mine(b) |-> PageOf(op[b].first)]
           o == [op[b] EXCEPT !.phase = "register2", !.copy = pair]
<1>1. /\ status["primary"] = "up" /\ op[b].phase = "register" /\ op[b].kind = "swap"
      /\ op' = [op EXCEPT ![b] = o] /\ exposed' = (exposed \/ Overlaps(b))
      /\ UNCHANGED <<loaded, wal, flushed, status, redo, replayed, pages, disk, fsm, pending, lsn, calls>>
  BY DEF Register, Step, logVars
<1>2. TypeOK /\ LogShape /\ CallsShape
  BY DEF IInv
<1>3. /\ op[b] \in OpTypes /\ CallShape(b) /\ Mine(b) \subseteq Blocks
      /\ op[b].asked = <<op[b].first, op[b].second>>
  BY <1>1, <1>2 DEF CallsShape, CallShape
<1>4. Len(wal) \in Nat
  BY <1>2, Basics
<1>5. pair \in [Mine(b) -> [content : Contents, lsn : 0..Len(wal)]]
  <2>1. \A blk \in Blocks : PageOf(blk) \in [content : Contents, lsn : 0..Len(wal)]
    BY <1>2, Typed DEF PageOf, PageTypes, Servers
  <2>2. op[b].first \in Blocks
    BY <1>3 DEF Mine
  <2> QED
    BY <2>1, <2>2
<1>6. pair \in Copies
  <2>1. [content : Contents, lsn : 0..Len(wal)] \subseteq [content : Contents, lsn : Nat]
    BY <1>4
  <2>2. pair \in [Mine(b) -> [content : Contents, lsn : Nat]]
    BY <2>1, <1>5
  <2> QED
    BY <2>2, <1>3, CopyMade
<1>7. pair[op[b].second].content = pages["primary"][op[b].first]
  BY DEF PageOf, Mine
<1> HIDE DEF pair
<1>8. /\ o \in OpTypes /\ o.kind = "swap" /\ o.phase = "register2" /\ o.copy = pair
      /\ o.first = op[b].first /\ o.second = op[b].second /\ o.asked = op[b].asked
  BY <1>1, <1>3, <1>6 DEF OpTypes, Phases
<1> HIDE DEF o
<1>9. Becomes(b, o) /\ op'[b] = o /\ \A c \in Sessions : c # b => op'[c] = op[c]
  BY <1>1, <1>2, <1>8 DEF Becomes, CallsShape
<1>10. CallShape(b)'
  <2>1. Mine(b)' = Mine(b)
    BY <1>8, <1>9 DEF Mine
  <2>2. op'[b].copy \in [Mine(b) -> [content : Contents, lsn : 0..Len(wal')]]
    BY <1>1, <1>5, <1>8, <1>9
  <2> QED
    BY <2>1, <2>2, <1>3, <1>8, <1>9 DEF CallShape
<1>11. /\ TypeOK' /\ LogShape' /\ CallsShape' /\ LocksExclude' /\ CustomShape' /\ MapShape'
       /\ PagesShape => DiskKnown' /\ RecoveryAhead' /\ Permuted'
  <2>1. pages' \in PageTypes /\ lsn' \in [Blocks -> 0..Len(wal)] /\ pages'["standby"] = pages["standby"]
    BY <1>1, <1>2, Typed
  <2>2. op[b].phase \notin {"lock1", "lock2"}
    BY <1>1
  <2> QED
    BY <2>1, <2>2, <1>1, <1>8, <1>9, <1>10, SwapFrame
<1>12. ASSUME ~exposed' PROVE PagesShape'
  <2>1. PagesShape /\ ~Overlaps(b)
    BY <1>1, <1>12 DEF IInv
  <2>2. \A c \in Sessions : c # b /\ Swapping(c) => Mine(b) \cap Mine(c) = {}
    BY <2>1 DEF Overlaps, Swapping
  <2>3. \A x \in Blocks : Unlogged(x)' <=> Unlogged(x)
    <3> TAKE x \in Blocks
    <3>1. Unlogged(x) => Unlogged(x)'
      BY <1>1, <1>9 DEF Unlogged, Mine
    <3>2. Unlogged(x)' => Unlogged(x)
      BY <1>8, <1>9 DEF Unlogged, Mine
    <3> QED
      BY <3>1, <3>2
  <2>4. UpCurrent'
    BY <2>1, <2>3, <1>1 DEF PagesShape, UpCurrent
  <2>5. \A c \in Sessions : c # b => Mine(c)' = Mine(c) /\ (Swapping(c)' <=> Swapping(c))
    BY <1>9 DEF Mine, Swapping
  <2>6. Mine(b)' = Mine(b)
    BY <1>8, <1>9 DEF Mine
  <2>7. SwapsApart'
    BY <2>1, <2>2, <2>5, <2>6 DEF PagesShape, SwapsApart
  <2>8. \A x \in Mine(b) : ~Unlogged(x)
    BY <2>2, <1>1 DEF Unlogged, Swapping, Mine
  <2>9. \A x \in Mine(b) : Shows(wal, x, Len(wal), pages["primary"][x])
    BY <2>1, <2>8, <1>1, <1>3 DEF PagesShape, UpCurrent
  <2>10. SwapCurrent'
    <3> SUFFICES ASSUME NEW c \in Sessions, Swapping(c)'
                 PROVE  LET one == op'[c].copy[op'[c].first].content
                            two == op'[c].copy[op'[c].second].content
                        IN /\ op'[c].phase # "register2" => Shows(wal, op'[c].second, Len(wal), one)
                           /\ Shows(wal, op'[c].first, Len(wal), two)
                           /\ op'[c].phase \notin {"register2", "apply1"} => pages["primary"][op'[c].first] = one
                           /\ op'[c].phase = "insert" => pages["primary"][op'[c].second] = two
      BY <1>1 DEF SwapCurrent
    <3>1. CASE c = b
      BY <3>1, <2>9, <1>7, <1>8, <1>9 DEF Mine
    <3>2. CASE c # b
      BY <3>2, <2>1, <2>5, <1>9 DEF PagesShape, SwapCurrent
    <3> QED
      BY <3>1, <3>2
  <2> QED
    BY <2>1, <2>4, <2>7, <2>10, <1>11 DEF PagesShape
<1> QED
  BY <1>11, <1>12 DEF IInv

LEMMA Register2Step ==
  ASSUME IInv, NEW b \in Sessions, Register2(b), UNCHANGED tool PROVE IInv'
<1> DEFINE page == IF op[b].second = op[b].first THEN op[b].copy[op[b].first] ELSE PageOf(op[b].second)
           pair == [op[b].copy EXCEPT ![op[b].first] = page]
           o == [op[b] EXCEPT !.phase = "apply1", !.copy = pair]
<1>1. /\ status["primary"] = "up" /\ op[b].phase = "register2"
      /\ op' = [op EXCEPT ![b] = o] /\ exposed' = exposed
      /\ UNCHANGED <<loaded, wal, flushed, status, redo, replayed, pages, disk, fsm, pending, lsn, calls>>
  BY DEF Register2, Step, logVars
<1>2. TypeOK /\ LogShape /\ CallsShape
  BY DEF IInv
<1>3. /\ op[b] \in OpTypes /\ CallShape(b) /\ Mine(b) \subseteq Blocks
      /\ op[b].kind = "swap" /\ op[b].asked = <<op[b].first, op[b].second>> /\ Swapping(b)
      /\ op[b].copy \in [Mine(b) -> [content : Contents, lsn : 0..Len(wal)]]
  <2>1. op[b] \in OpTypes /\ CallShape(b)
    BY <1>2 DEF CallsShape
  <2>2. op[b].kind = "swap"
    BY <2>1, <1>1 DEF CallShape, OpTypes, NoOp
  <2> QED
    BY <2>1, <2>2, <1>1 DEF CallShape, Swapping
<1>4. Len(wal) \in Nat
  BY <1>2, Basics
<1>5. pair \in [Mine(b) -> [content : Contents, lsn : 0..Len(wal)]]
  <2>1. \A blk \in Blocks : PageOf(blk) \in [content : Contents, lsn : 0..Len(wal)]
    BY <1>2, Typed DEF PageOf, PageTypes, Servers
  <2>2. op[b].second \in Blocks /\ op[b].first \in Mine(b)
    BY <1>3 DEF Mine
  <2> QED
    BY <2>1, <2>2, <1>3
<1>6. pair \in Copies
  <2>1. [content : Contents, lsn : 0..Len(wal)] \subseteq [content : Contents, lsn : Nat]
    BY <1>4
  <2>2. pair \in [Mine(b) -> [content : Contents, lsn : Nat]]
    BY <2>1, <1>5
  <2> QED
    BY <2>2, <1>3, CopyMade
<1>7. /\ op[b].second # op[b].first =>
           /\ pair[op[b].first].content = pages["primary"][op[b].second]
           /\ pair[op[b].second] = op[b].copy[op[b].second]
      /\ op[b].second = op[b].first => pair[op[b].first] = op[b].copy[op[b].first]
  <2>1. op[b].second \in Mine(b) /\ op[b].first \in Mine(b)
    BY DEF Mine
  <2> QED
    BY <2>1, <1>3 DEF PageOf
<1> HIDE DEF pair, page
<1>8. /\ o \in OpTypes /\ o.kind = "swap" /\ o.phase = "apply1" /\ o.copy = pair
      /\ o.first = op[b].first /\ o.second = op[b].second /\ o.asked = op[b].asked
  BY <1>1, <1>3, <1>6 DEF OpTypes, Phases
<1> HIDE DEF o
<1>9. Becomes(b, o) /\ op'[b] = o /\ \A c \in Sessions : c # b => op'[c] = op[c]
  BY <1>1, <1>2, <1>8 DEF Becomes, CallsShape
<1>10. CallShape(b)'
  <2>1. Mine(b)' = Mine(b)
    BY <1>8, <1>9 DEF Mine
  <2>2. op'[b].copy \in [Mine(b) -> [content : Contents, lsn : 0..Len(wal')]]
    BY <1>1, <1>5, <1>8, <1>9
  <2> QED
    BY <2>1, <2>2, <1>3, <1>8, <1>9 DEF CallShape
<1>11. /\ TypeOK' /\ LogShape' /\ CallsShape' /\ LocksExclude' /\ CustomShape' /\ MapShape'
       /\ PagesShape => DiskKnown' /\ RecoveryAhead' /\ Permuted'
  <2>1. pages' \in PageTypes /\ lsn' \in [Blocks -> 0..Len(wal)] /\ pages'["standby"] = pages["standby"]
    BY <1>1, <1>2, Typed
  <2>2. op[b].phase \notin {"lock1", "lock2"}
    BY <1>1
  <2> QED
    BY <2>1, <2>2, <1>1, <1>3, <1>8, <1>9, <1>10, SwapFrame
<1>12. ASSUME ~exposed' PROVE PagesShape'
  <2>1. PagesShape
    BY <1>1, <1>12 DEF IInv
  <2>2. \A c \in Sessions : c # b /\ Swapping(c) => Mine(b) \cap Mine(c) = {}
    BY <2>1, <1>3 DEF PagesShape, SwapsApart
  <2>3. \A x \in Blocks : Unlogged(x)' <=> Unlogged(x)
    <3> TAKE x \in Blocks
    <3>1. Unlogged(x) => Unlogged(x)'
      BY <1>1, <1>9 DEF Unlogged, Mine
    <3>2. Unlogged(x)' => Unlogged(x)
      BY <1>8, <1>9 DEF Unlogged, Mine
    <3> QED
      BY <3>1, <3>2
  <2>4. UpCurrent'
    BY <2>1, <2>3, <1>1 DEF PagesShape, UpCurrent
  <2>5. \A c \in Sessions : Mine(c)' = Mine(c) /\ (Swapping(c)' <=> Swapping(c))
    <3>1. Mine(b)' = Mine(b) /\ Swapping(b)'
      BY <1>8, <1>9 DEF Mine, Swapping
    <3> QED
      BY <3>1, <1>3, <1>9 DEF Mine, Swapping
  <2>7. SwapsApart'
    BY <2>1, <2>5 DEF PagesShape, SwapsApart
  <2>8. \A x \in Mine(b) : ~Unlogged(x)
    BY <2>2, <1>1 DEF Unlogged, Swapping, Mine
  <2>9. \A x \in Mine(b) : Shows(wal, x, Len(wal), pages["primary"][x])
    BY <2>1, <2>8, <1>1, <1>3 DEF PagesShape, UpCurrent
  <2>10. SwapCurrent'
    <3> SUFFICES ASSUME NEW c \in Sessions, Swapping(c)'
                 PROVE  LET one == op'[c].copy[op'[c].first].content
                            two == op'[c].copy[op'[c].second].content
                        IN /\ op'[c].phase # "register2" => Shows(wal, op'[c].second, Len(wal), one)
                           /\ Shows(wal, op'[c].first, Len(wal), two)
                           /\ op'[c].phase \notin {"register2", "apply1"} => pages["primary"][op'[c].first] = one
                           /\ op'[c].phase = "insert" => pages["primary"][op'[c].second] = two
      BY <1>1 DEF SwapCurrent
    <3>1. CASE c = b
      <4>1. Shows(wal, op[b].first, Len(wal), op[b].copy[op[b].second].content)
        BY <2>1, <1>3 DEF PagesShape, SwapCurrent
      <4>2. Shows(wal, op[b].second, Len(wal), pages["primary"][op[b].second])
        BY <2>9 DEF Mine
      <4>3. /\ Shows(wal, op[b].first, Len(wal), pair[op[b].second].content)
            /\ Shows(wal, op[b].second, Len(wal), pair[op[b].first].content)
        BY <4>1, <4>2, <1>7
      <4> QED
        BY <3>1, <4>3, <1>8, <1>9
    <3>2. CASE c # b
      BY <3>2, <2>1, <2>5, <1>9 DEF PagesShape, SwapCurrent
    <3> QED
      BY <3>1, <3>2
  <2> QED
    BY <2>1, <2>4, <2>7, <2>10, <1>11 DEF PagesShape
<1> QED
  BY <1>11, <1>12 DEF IInv

LEMMA ApplyStep ==
  ASSUME IInv, NEW b \in Sessions, Apply(b), UNCHANGED tool PROVE IInv'
<1>1. PICK phase \in {"apply1", "apply2"} :
        LET blk == IF phase = "apply1" THEN op[b].first ELSE op[b].second
        IN /\ Step(b, phase)
           /\ pages' = [pages EXCEPT !["primary"][blk] = SwapCopy(b, blk).content]
           /\ lsn' = [lsn EXCEPT ![blk] = SwapCopy(b, blk).lsn]
           /\ op' = [op EXCEPT ![b].phase = IF phase = "apply1" THEN "apply2" ELSE "insert"]
           /\ UNCHANGED <<loaded, wal, flushed, status, redo, replayed, disk, fsm, pending, crashes,
                          calls, exposed>>
  BY DEF Apply
<1> DEFINE blk == IF phase = "apply1" THEN op[b].first ELSE op[b].second
           next == IF phase = "apply1" THEN "apply2" ELSE "insert"
           o == [op[b] EXCEPT !.phase = next]
<1>2. /\ status["primary"] = "up" /\ op[b].phase = phase
      /\ pages' = [pages EXCEPT !["primary"][blk] = op[b].copy[blk].content]
      /\ lsn' = [lsn EXCEPT ![blk] = op[b].copy[blk].lsn]
      /\ op' = [op EXCEPT ![b] = o]
      /\ UNCHANGED <<loaded, wal, flushed, status, redo, replayed, disk, fsm, pending, calls, exposed>>
  BY <1>1 DEF Step, SwapCopy
<1>3. TypeOK /\ LogShape /\ CallsShape
  BY DEF IInv
<1>4. op[b] \in OpTypes /\ CallShape(b)
  BY <1>3 DEF CallsShape
<1>5. op[b].kind = "swap" /\ Swapping(b)
  BY <1>2, <1>4 DEF CallShape, Swapping, OpTypes, NoOp
<1>6. /\ Mine(b) \subseteq Blocks /\ op[b].asked = <<op[b].first, op[b].second>>
      /\ op[b].copy \in [Mine(b) -> [content : Contents, lsn : 0..Len(wal)]]
  BY <1>4, <1>5 DEF CallShape
<1>7. /\ o \in OpTypes /\ o.kind = "swap" /\ o.phase = next /\ o.copy = op[b].copy
      /\ o.first = op[b].first /\ o.second = op[b].second /\ o.asked = op[b].asked
  BY <1>4, <1>5 DEF OpTypes, Phases
<1> HIDE DEF o
<1>8. Becomes(b, o) /\ op'[b] = o /\ \A c \in Sessions : c # b => op'[c] = op[c]
  BY <1>2, <1>3, <1>7 DEF Becomes, CallsShape
<1>9. CallShape(b)'
  BY <1>2, <1>6, <1>7, <1>8 DEF CallShape, Swapping, Mine
<1>10. blk \in Mine(b) /\ blk \in Blocks
  BY <1>6 DEF Mine
<1> HIDE DEF blk
<1>11. op[b].copy[blk] \in [content : Contents, lsn : 0..Len(wal)]
  BY <1>6, <1>10
<1>12. pages' \in PageTypes /\ lsn' \in [Blocks -> 0..Len(wal)] /\ pages'["standby"] = pages["standby"]
  <2>1. pages \in PageTypes /\ lsn \in [Blocks -> 0..Len(wal)]
    BY <1>3, Typed
  <2>2. op[b].copy[blk].content \in Contents /\ op[b].copy[blk].lsn \in 0..Len(wal)
    BY <1>11
  <2> QED
    BY <2>1, <2>2, <1>2 DEF PageTypes, Servers
<1>13. /\ TypeOK' /\ LogShape' /\ CallsShape' /\ LocksExclude' /\ CustomShape' /\ MapShape'
       /\ PagesShape => DiskKnown' /\ RecoveryAhead' /\ Permuted'
  <2>1. op[b].phase \notin {"lock1", "lock2"}
    BY <1>2
  <2> QED
    BY <2>1, <1>2, <1>5, <1>7, <1>8, <1>9, <1>12, SwapFrame
<1>14. ASSUME ~exposed' PROVE PagesShape'
  <2>1. PagesShape
    BY <1>2, <1>14 DEF IInv
  <2>2. /\ pages'["primary"][blk] = op[b].copy[blk].content
        /\ \A x \in Blocks : x # blk => pages'["primary"][x] = pages["primary"][x] /\ lsn'[x] = lsn[x]
    BY <1>2, <1>3, <1>10, Typed DEF PageTypes, Servers
  <2>3. \A x \in Blocks : ~Unlogged(x)' => ~Unlogged(x) /\ x # blk
    <3> SUFFICES ASSUME NEW x \in Blocks, Unlogged(x) \/ x = blk PROVE Unlogged(x)'
      OBVIOUS
    <3>1. CASE x = blk
      BY <3>1, <1>7, <1>8 DEF Unlogged, Mine, blk
    <3>2. CASE Unlogged(x)
      <4>1. PICK c \in Sessions : /\ op[c].kind = "swap"
                                  /\ \/ op[c].phase = "apply2" /\ x = op[c].first
                                     \/ op[c].phase = "insert" /\ x \in Mine(c)
        BY <3>2 DEF Unlogged
      <4>2. CASE c # b
        BY <4>1, <4>2, <1>8 DEF Unlogged, Mine
      <4>3. CASE c = b
        BY <4>1, <4>3, <1>2, <1>7, <1>8 DEF Unlogged, Mine
      <4> QED
        BY <4>2, <4>3
    <3> QED
      BY <3>1, <3>2
  <2>4. UpCurrent'
    BY <2>1, <2>2, <2>3, <1>2 DEF PagesShape, UpCurrent
  <2>5. \A c \in Sessions : Mine(c)' = Mine(c) /\ (Swapping(c)' <=> Swapping(c))
    BY <1>5, <1>7, <1>8 DEF Mine, Swapping
  <2>6. SwapsApart'
    BY <2>1, <2>5 DEF PagesShape, SwapsApart
  <2>7. SwapCurrent'
    <3> SUFFICES ASSUME NEW c \in Sessions, Swapping(c)'
                 PROVE  LET one == op'[c].copy[op'[c].first].content
                            two == op'[c].copy[op'[c].second].content
                        IN /\ op'[c].phase # "register2" => Shows(wal, op'[c].second, Len(wal), one)
                           /\ Shows(wal, op'[c].first, Len(wal), two)
                           /\ op'[c].phase \notin {"register2", "apply1"} => pages'["primary"][op'[c].first] = one
                           /\ op'[c].phase = "insert" => pages'["primary"][op'[c].second] = two
      BY <1>2 DEF SwapCurrent
    <3>1. CASE c = b
      <4>1. /\ Shows(wal, op[b].second, Len(wal), op[b].copy[op[b].first].content)
            /\ Shows(wal, op[b].first, Len(wal), op[b].copy[op[b].second].content)
            /\ phase # "apply1" => pages["primary"][op[b].first] = op[b].copy[op[b].first].content
        BY <2>1, <1>2, <1>5 DEF PagesShape, SwapCurrent
      <4>2. pages'["primary"][op[b].first] = op[b].copy[op[b].first].content
        <5>1. CASE op[b].first = blk
          BY <5>1, <2>2
        <5>2. CASE op[b].first # blk
          <6>1. phase # "apply1" /\ op[b].first \in Blocks
            BY <5>2, <1>6 DEF blk, Mine
          <6> QED
            BY <5>2, <6>1, <4>1, <2>2
        <5> QED
          BY <5>1, <5>2
      <4>3. next = "insert" => pages'["primary"][op[b].second] = op[b].copy[op[b].second].content
        BY <2>2 DEF blk
      <4> QED
        BY <3>1, <4>1, <4>2, <4>3, <1>7, <1>8
    <3>2. CASE c # b
      <4>1. op'[c] = op[c] /\ Swapping(c)
        BY <3>2, <2>5, <1>8
      <4>2. blk \notin Mine(c)
        BY <3>2, <4>1, <2>1, <1>5, <1>10 DEF PagesShape, SwapsApart
      <4>3. Mine(c) \subseteq Blocks
        BY <4>1, <1>3 DEF CallsShape, CallShape, Swapping
      <4>4. \A x \in {op[c].first, op[c].second} : pages'["primary"][x] = pages["primary"][x]
        BY <4>2, <4>3, <2>2 DEF Mine
      <4> QED
        BY <4>1, <4>4, <2>1 DEF PagesShape, SwapCurrent
    <3> QED
      BY <3>1, <3>2
  <2> QED
    BY <2>1, <2>4, <2>6, <2>7, <1>13 DEF PagesShape
<1> QED
  BY <1>13, <1>14 DEF IInv

-----------------------------------------------------------------------------
(* Records of pages.                                                       *)

\* Session b logs the pages of its blocks and ends.
LEMMA ImageStep ==
  ASSUME IInv, NEW b \in Sessions, status["primary"] = "up", op[b].kind \in {"swap", "write"},
         Mine(b) \subseteq Blocks, NEW r \in Records, wal' = Append(wal, r), r.kind = "image",
         DOMAIN r.image = Mine(b), op' = [op EXCEPT ![b] = NoOp],
         lsn' = [blk \in Blocks |-> IF blk \in Mine(b) THEN Len(wal') ELSE lsn[blk]],
         pages' \in PageTypes, pages'["standby"] = pages["standby"],
         \A x \in Blocks : pages'["primary"][x] = IF x \in Mine(b) THEN r.image[x] ELSE pages["primary"][x],
         UNCHANGED <<loaded, flushed, status, redo, replayed, disk, fsm, pending, calls, exposed>>,
         ~exposed => \A c \in Sessions : c # b /\ Swapping(c) => Mine(b) \cap Mine(c) = {},
         ~exposed => \A blk \in Blocks : \E at \in Blocks : \E k \in Nat : Shows(wal', at, Len(wal'), <<blk, k>>)
  PROVE  IInv'
<1>1. TypeOK /\ LogShape /\ CallsShape /\ LocksExclude /\ CustomShape /\ MapShape
  BY DEF IInv
<1>2. /\ wal \in Seq(Records) /\ Len(wal) \in Nat /\ Len(wal') = Len(wal) + 1 /\ wal'[Len(wal) + 1] = r
      /\ \A i \in 1..Len(wal) : wal'[i] = wal[i]
  BY <1>1, Basics, AppendLog
<1>3. /\ Len(wal') \in Nat /\ Len(wal) <= Len(wal') /\ flushed \in Nat /\ flushed' \in Nat
      /\ flushed <= flushed' /\ flushed' <= Len(wal') /\ Len(wal') \in 0..Len(wal')
  BY <1>1, <1>2, Basics
<1>4. Kept /\ NoMessage
  BY <1>1, AppendKept DEF NoMessage
<1>5. NoOp \in OpTypes /\ NoOp.kind = "none"
  BY DEF NoOp, OpTypes, Phases
<1>6. Becomes(b, NoOp) /\ op'[b] = NoOp /\ \A c \in Sessions : c # b => op'[c] = op[c]
  BY <1>1, <1>5 DEF Becomes, CallsShape
<1>7. \A i \in 1..Len(wal') : i \in 1..Len(wal) \/ i = Len(wal) + 1
  BY <1>2
<1>8. TypeOK' /\ LogShape'
  <2>1. lsn' \in [Blocks -> 0..Len(wal')]
    BY <1>1, <1>3, <1>4, LsnFrame
  <2>2. op' \in [Sessions -> OpTypes]
    BY <1>1, <1>5 DEF CallsShape
  <2>3. /\ disk' \in PageTypes /\ fsm' \in [Servers -> SUBSET MapBlocks]
        /\ pending' \in [Servers -> SUBSET Values]
    BY <1>1, Typed
  <2>4. \A i \in 1..Len(wal') : i \notin 1..Len(wal) => wal'[i].kind # "signal"
    BY <1>2, <1>7
  <2> QED
    BY <2>1, <2>2, <2>3, <2>4, <1>1, <1>3, <1>4, TypesFrame
<1>9. CallsShape'
  <2>1. CallShape(b)'
    BY <1>5, <1>6 DEF CallShape, Swapping
  <2> QED
    BY <2>1, <1>1, <1>2, <1>3, <1>6, CallsOne
<1>10. LocksExclude'
  <2>1. \A blk \in Blocks : ~Holds(b, blk)'
    BY <1>5, <1>6 DEF Holds
  <2> QED
    BY <2>1, <1>1, <1>6, LocksOne
<1>11. CustomShape'
  <2>1. SameCustom
    BY <1>5, <1>6 DEF SameCustom
  <2> QED
    BY <2>1, <1>1, <1>3, <1>4, CustomFrame
<1>12. MapShape'
  BY <1>1, <1>3, <1>4, MapFrame
<1>13. ASSUME ~exposed' PROVE PagesShape'
  <2>1. PagesShape /\ \A c \in Sessions : c # b /\ Swapping(c) => Mine(b) \cap Mine(c) = {}
    BY <1>13 DEF IInv
  <2>2. DiskKnown' /\ RecoveryAhead'
    <3>1. \A s \in Servers : status'[s] = "recovering" => status[s] = "recovering" /\ pages'[s] = pages[s]
      BY DEF Servers
    <3>2. \A i \in 1..flushed : wal'[i] = wal[i]
      BY <1>1, <1>2, Basics
    <3> QED
      BY <3>1, <3>2, <2>1, <1>1, <1>3, DiskFrame, RecoveryFrame DEF PagesShape
  <2>3. UpCurrent'
    <3> SUFFICES ASSUME NEW x \in Blocks, ~Unlogged(x)'
                 PROVE  /\ Shows(wal', x, Len(wal'), pages'["primary"][x])
                        /\ \A i \in 1..Len(wal') : x \in DOMAIN wal'[i].image => i <= flushed \/ i <= lsn'[x]
      BY DEF UpCurrent
    <3>1. CASE x \in Mine(b)
      <4>1. pages'["primary"][x] = wal'[Len(wal')].image[x] /\ x \in DOMAIN wal'[Len(wal')].image
        BY <3>1, <1>2
      <4>2. Len(wal') \in Nat \ {0}
        BY <1>2
      <4>3. Shows(wal', x, Len(wal'), pages'["primary"][x])
        BY <4>1, <4>2, ShowsImage
      <4>4. lsn'[x] = Len(wal')
        BY <3>1
      <4>5. \A i \in 1..Len(wal') : i <= Len(wal')
        BY <1>3
      <4> QED
        BY <4>3, <4>4, <4>5
    <3>2. CASE x \notin Mine(b)
      <4>1. ~Unlogged(x)
        <5> SUFFICES ASSUME Unlogged(x) PROVE FALSE
          OBVIOUS
        <5>1. PICK c \in Sessions : /\ op[c].kind = "swap"
                                    /\ \/ op[c].phase = "apply2" /\ x = op[c].first
                                       \/ op[c].phase = "insert" /\ x \in Mine(c)
          BY DEF Unlogged
        <5>2. c # b
          BY <3>2, <5>1 DEF Mine
        <5> QED
          BY <5>1, <5>2, <1>6 DEF Unlogged, Mine
      <4>2. /\ Shows(wal, x, Len(wal), pages["primary"][x])
            /\ \A i \in 1..Len(wal) : x \in DOMAIN wal[i].image => i <= flushed \/ i <= lsn[x]
        BY <4>1, <2>1 DEF PagesShape, UpCurrent
      <4>3. Shows(wal', x, Len(wal'), pages["primary"][x])
        BY <3>2, <4>2, <1>2, ShowsAppend
      <4>4. pages'["primary"][x] = pages["primary"][x] /\ lsn'[x] = lsn[x]
        BY <3>2
      <4>5. \A i \in 1..Len(wal') : x \in DOMAIN wal'[i].image => i \in 1..Len(wal) /\ wal'[i] = wal[i]
        BY <3>2, <1>2, <1>7
      <4> QED
        BY <4>2, <4>3, <4>4, <4>5
    <3> QED
      BY <3>1, <3>2
  <2>4. \A c \in Sessions : Swapping(c)' => c # b /\ Swapping(c) /\ op'[c] = op[c]
    BY <1>5, <1>6 DEF Swapping
  <2>5. SwapsApart'
    BY <2>1, <2>4 DEF PagesShape, SwapsApart, Mine
  <2>6. SwapCurrent'
    <3> SUFFICES ASSUME NEW c \in Sessions, Swapping(c)'
                 PROVE  LET one == op'[c].copy[op'[c].first].content
                            two == op'[c].copy[op'[c].second].content
                        IN /\ op'[c].phase # "register2" => Shows(wal', op'[c].second, Len(wal'), one)
                           /\ Shows(wal', op'[c].first, Len(wal'), two)
                           /\ op'[c].phase \notin {"register2", "apply1"} => pages'["primary"][op'[c].first] = one
                           /\ op'[c].phase = "insert" => pages'["primary"][op'[c].second] = two
      BY DEF SwapCurrent
    <3>1. c # b /\ Swapping(c) /\ op'[c] = op[c]
      BY <2>4
    <3>2. Mine(c) \subseteq Blocks /\ Mine(b) \cap Mine(c) = {}
      BY <3>1, <2>1, <1>1 DEF CallsShape, CallShape, Swapping
    <3>3. /\ op[c].first \notin Mine(b) /\ op[c].second \notin Mine(b)
          /\ op[c].first \in Blocks /\ op[c].second \in Blocks
      BY <3>2 DEF Mine
    <3>4. /\ pages'["primary"][op[c].first] = pages["primary"][op[c].first]
          /\ pages'["primary"][op[c].second] = pages["primary"][op[c].second]
      BY <3>3
    <3>5. /\ op[c].phase # "register2" =>
               Shows(wal, op[c].second, Len(wal), op[c].copy[op[c].first].content)
          /\ Shows(wal, op[c].first, Len(wal), op[c].copy[op[c].second].content)
          /\ op[c].phase \notin {"register2", "apply1"} =>
               pages["primary"][op[c].first] = op[c].copy[op[c].first].content
          /\ op[c].phase = "insert" => pages["primary"][op[c].second] = op[c].copy[op[c].second].content
      BY <3>1, <2>1 DEF PagesShape, SwapCurrent
    <3>6. op[c].phase # "register2" =>
            Shows(wal', op[c].second, Len(wal'), op[c].copy[op[c].first].content)
      BY <3>3, <3>5, <1>2, ShowsAppend
    <3>7. Shows(wal', op[c].first, Len(wal'), op[c].copy[op[c].second].content)
      BY <3>3, <3>5, <1>2, ShowsAppend
    <3> QED
      BY <3>1, <3>4, <3>5, <3>6, <3>7
  <2>7. Permuted'
    <3>1. \A m \in 0..Len(wal) : \A blk \in Blocks : \E at \in Blocks : \E k \in Nat : Shows(wal', at, m, <<blk, k>>)
      <4>1. Len(wal) <= Len(wal)
        BY <1>2
      <4> QED
        BY <4>1, <2>1, <1>2, PermutedFrame DEF PagesShape
    <3>2. \A m \in 0..Len(wal') : m \in 0..Len(wal) \/ m = Len(wal')
      BY <1>2
    <3>3. \A blk \in Blocks : \E at \in Blocks : \E k \in Nat : Shows(wal', at, Len(wal'), <<blk, k>>)
      BY <1>13
    <3>4. ASSUME NEW m \in 0..Len(wal'), NEW blk \in Blocks
          PROVE  \E at \in Blocks : \E k \in Nat : Shows(wal', at, m, <<blk, k>>)
      <4>1. CASE m \in 0..Len(wal)
        BY <4>1, <3>1
      <4>2. CASE m = Len(wal')
        BY <4>2, <3>3
      <4> QED
        BY <4>1, <4>2, <3>2
    <3> QED
      BY <3>4 DEF Permuted
  <2> QED
    BY <2>2, <2>3, <2>5, <2>6, <2>7 DEF PagesShape
<1> QED
  BY <1>8, <1>9, <1>10, <1>11, <1>12, <1>13 DEF IInv

\* The record of a page image.
LEMMA ImageRecord ==
  ASSUME NEW content \in [Blocks -> Contents], NEW S \in SUBSET Blocks
  PROVE  LET r == [Record("image") EXCEPT !.image = Restrict(content, S)]
         IN /\ r \in Records /\ r.kind = "image" /\ r.image = [x \in S |-> content[x]]
            /\ DOMAIN r.image = S
<1> DEFINE image == Restrict(content, S)
<1>1. image = [x \in S |-> content[x]]
  BY DEF Restrict
<1>2. image \in [S -> Contents]
  BY <1>1
<1>3. image \in Images
  BY <1>2, ImageMade
<1>4. DOMAIN image = S
  BY <1>1
<1> HIDE DEF image
<1>5. Record("image") \in Records /\ Record("image").kind = "image"
  BY RecordType
<1>6. [Record("image") EXCEPT !.image = image] \in Records
  BY <1>3, <1>5 DEF Records
<1>7. /\ [Record("image") EXCEPT !.image = image].kind = "image"
      /\ [Record("image") EXCEPT !.image = image].image = image
  BY <1>5 DEF Records
<1> QED
  BY <1>1, <1>4, <1>6, <1>7 DEF image

LEMMA SwapInsertStep ==
  ASSUME IInv, NEW b \in Sessions, SwapInsert(b), UNCHANGED tool PROVE IInv'
<1> DEFINE r == [Record("image") EXCEPT !.image = Restrict(pages["primary"], Mine(b))]
<1>1. /\ status["primary"] = "up" /\ op[b].phase = "insert" /\ wal' = Append(wal, r)
      /\ lsn' = [blk \in Blocks |-> IF blk \in Mine(b) THEN Len(wal') ELSE lsn[blk]]
      /\ op' = [op EXCEPT ![b] = NoOp]
      /\ UNCHANGED <<loaded, flushed, status, redo, replayed, pages, disk, fsm, pending, calls, exposed>>
  BY DEF SwapInsert, InsertImage, SwapLogged, Step, End
<1>2. TypeOK /\ LogShape /\ CallsShape
  BY DEF IInv
<1>3. op[b] \in OpTypes /\ CallShape(b)
  BY <1>2 DEF CallsShape
<1>4. op[b].kind = "swap" /\ Swapping(b)
  BY <1>1, <1>3 DEF CallShape, Swapping, OpTypes, NoOp
<1>5. Mine(b) \subseteq Blocks
  BY <1>3, <1>4 DEF CallShape
<1>6. pages["primary"] \in [Blocks -> Contents] /\ pages' \in PageTypes
  BY <1>1, <1>2, Typed DEF PageTypes, Servers
<1>7. /\ r \in Records /\ r.kind = "image" /\ r.image = [x \in Mine(b) |-> pages["primary"][x]]
      /\ DOMAIN r.image = Mine(b)
  BY <1>5, <1>6, ImageRecord
<1> HIDE DEF r
<1>8. \A x \in Mine(b) : r.image[x] = pages["primary"][x]
  BY <1>7
<1>9. ~exposed => \A c \in Sessions : c # b /\ Swapping(c) => Mine(b) \cap Mine(c) = {}
  BY <1>4 DEF IInv, PagesShape, SwapsApart
<1>10. ASSUME ~exposed, NEW blk \in Blocks
       PROVE  \E at \in Blocks : \E k \in Nat : Shows(wal', at, Len(wal'), <<blk, k>>)
  <2>1. PagesShape
    BY <1>10 DEF IInv
  <2>2. /\ Len(wal) \in Nat /\ Len(wal) \in 0..Len(wal) /\ wal \in Seq(Records)
        /\ Len(wal') \in Nat \ {0} /\ wal'[Len(wal')] = r
    BY <1>1, <1>2, <1>7, Basics, AppendLog
  <2>3. PICK at \in Blocks, k \in Nat : Shows(wal, at, Len(wal), <<blk, k>>)
    BY <2>1, <2>2 DEF PagesShape, Permuted
  <2>4. \A x \in Mine(b) : Shows(wal', x, Len(wal'), pages["primary"][x])
    BY <2>2, <1>7, <1>8, ShowsImage
  <2>5. /\ Shows(wal, op[b].second, Len(wal), pages["primary"][op[b].first])
        /\ Shows(wal, op[b].first, Len(wal), pages["primary"][op[b].second])
    BY <2>1, <1>1, <1>4 DEF PagesShape, SwapCurrent
  <2>6. CASE at \notin Mine(b)
    <3>1. Shows(wal', at, Len(wal'), <<blk, k>>)
      BY <2>2, <2>3, <2>6, <1>1, <1>7, ShowsAppend
    <3> QED
      BY <3>1
  <2>7. CASE at = op[b].first
    <3>1. pages["primary"][op[b].second] = <<blk, k>>
      BY <2>2, <2>3, <2>5, <2>7, ShowsUnique
    <3>2. op[b].second \in Mine(b) /\ op[b].second \in Blocks
      BY <1>5 DEF Mine
    <3>3. Shows(wal', op[b].second, Len(wal'), <<blk, k>>)
      BY <2>4, <3>1, <3>2
    <3> QED
      BY <3>2, <3>3
  <2>8. CASE at = op[b].second
    <3>1. pages["primary"][op[b].first] = <<blk, k>>
      BY <2>2, <2>3, <2>5, <2>8, ShowsUnique
    <3>2. op[b].first \in Mine(b) /\ op[b].first \in Blocks
      BY <1>5 DEF Mine
    <3>3. Shows(wal', op[b].first, Len(wal'), <<blk, k>>)
      BY <2>4, <3>1, <3>2
    <3> QED
      BY <3>2, <3>3
  <2> QED
    BY <2>6, <2>7, <2>8 DEF Mine
<1>11. /\ pages'["standby"] = pages["standby"]
       /\ \A x \in Blocks : pages'["primary"][x] = IF x \in Mine(b) THEN r.image[x] ELSE pages["primary"][x]
  BY <1>1, <1>8
<1> QED
  BY <1>1, <1>4, <1>5, <1>6, <1>7, <1>9, <1>10, <1>11, ImageStep

\* A writer is alone on its blocks.
LEMMA WriteStep ==
  ASSUME IInv, NEW b \in Sessions, Write(b), UNCHANGED tool PROVE IInv'
<1> DEFINE r == [Record("image") EXCEPT !.image = Restrict(pages'["primary"], Mine(b))]
           old == pages["primary"]
           new == [blk \in Blocks |-> IF blk \in Mine(b) THEN <<old[blk][1], old[blk][2] + 1>> ELSE old[blk]]
<1>1. /\ status["primary"] = "up" /\ op[b].phase = "register" /\ op[b].kind = "write" /\ wal' = Append(wal, r)
      /\ lsn' = [blk \in Blocks |-> IF blk \in Mine(b) THEN Len(wal') ELSE lsn[blk]]
      /\ op' = [op EXCEPT ![b] = NoOp]
      /\ UNCHANGED <<loaded, flushed, status, redo, replayed, disk, fsm, pending, calls, exposed>>
  BY DEF Write, InsertImage, Step, End
<1>2. TypeOK /\ LogShape /\ CallsShape /\ LocksExclude
  BY DEF IInv
<1>3. Mine(b) \subseteq Blocks
  BY <1>1, <1>2 DEF CallsShape, CallShape
<1>4. pages \in PageTypes /\ old \in [Blocks -> Contents]
  BY <1>2, Typed DEF PageTypes, Servers
<1>5. pages' = [pages EXCEPT !["primary"] = new]
  BY <1>4 DEF Write, PageTypes, Servers
<1>6. new \in [Blocks -> Contents]
  <2>1. \A x \in Blocks : old[x] \in Contents
    BY <1>4
  <2>2. \A x \in Blocks : <<old[x][1], old[x][2] + 1>> \in Contents
    BY <2>1 DEF Contents
  <2> QED
    BY <2>1, <2>2
<1>7. \A x \in Mine(b) : new[x] = <<old[x][1], old[x][2] + 1>>
  BY <1>3
<1>8. \A x \in Blocks : x \notin Mine(b) => new[x] = old[x]
  OBVIOUS
<1> HIDE DEF new
<1>9. pages' \in PageTypes /\ pages'["primary"] = new /\ pages'["standby"] = pages["standby"]
  BY <1>4, <1>5, <1>6 DEF PageTypes, Servers
<1>10. /\ r \in Records /\ r.kind = "image" /\ r.image = [x \in Mine(b) |-> new[x]]
       /\ DOMAIN r.image = Mine(b)
  BY <1>3, <1>6, <1>9, ImageRecord
<1> HIDE DEF r
<1>11. \A x \in Mine(b) : r.image[x] = new[x]
  BY <1>10
<1>12. \A c \in Sessions : c # b /\ Swapping(c) => Mine(b) \cap Mine(c) = {}
  <2>1. \A x \in Mine(b) : Holds(b, x)
    BY <1>1 DEF Mine, Holds
  <2>2. \A c \in Sessions : Swapping(c) => \A x \in Mine(c) : Holds(c, x)
    BY DEF Mine, Holds, Swapping
  <2> QED
    BY <2>1, <2>2, <1>1, <1>2, <1>3 DEF LocksExclude
<1>13. ASSUME ~exposed, NEW blk \in Blocks
       PROVE  \E at \in Blocks : \E k \in Nat : Shows(wal', at, Len(wal'), <<blk, k>>)
  <2>1. PagesShape
    BY <1>13 DEF IInv
  <2>2. /\ Len(wal) \in Nat /\ Len(wal) \in 0..Len(wal) /\ wal \in Seq(Records)
        /\ Len(wal') \in Nat \ {0} /\ wal'[Len(wal')] = r
    BY <1>1, <1>2, <1>10, Basics, AppendLog
  <2>3. PICK at \in Blocks, k \in Nat : Shows(wal, at, Len(wal), <<blk, k>>)
    BY <2>1, <2>2 DEF PagesShape, Permuted
  <2>4. CASE at \notin Mine(b)
    <3>1. Shows(wal', at, Len(wal'), <<blk, k>>)
      BY <2>2, <2>3, <2>4, <1>1, <1>10, ShowsAppend
    <3> QED
      BY <3>1
  <2>5. CASE at \in Mine(b)
    <3>1. ~Unlogged(at)
      BY <2>5, <1>1, <1>12 DEF Unlogged, Swapping, Mine
    <3>2. Shows(wal, at, Len(wal), old[at])
      BY <3>1, <2>1, <1>1 DEF PagesShape, UpCurrent
    <3>3. old[at] = <<blk, k>>
      BY <3>2, <2>2, <2>3, ShowsUnique
    <3>4. new[at] = <<blk, k + 1>> /\ k + 1 \in Nat
      BY <3>3, <2>5, <1>7
    <3>5. Shows(wal', at, Len(wal'), new[at])
      BY <2>2, <2>5, <1>10, <1>11, ShowsImage
    <3> QED
      BY <3>4, <3>5
  <2> QED
    BY <2>4, <2>5
<1>14. \A x \in Blocks : pages'["primary"][x] = IF x \in Mine(b) THEN r.image[x] ELSE pages["primary"][x]
  BY <1>8, <1>9, <1>11
<1> QED
  BY <1>1, <1>3, <1>9, <1>10, <1>12, <1>13, <1>14, ImageStep

-----------------------------------------------------------------------------
(* The invariant.                                                          *)

LEMMA InitInv == Init => IInv
<1> SUFFICES ASSUME Init PROVE IInv
  OBVIOUS
<1>1. /\ loaded \in Loads /\ wal = <<>> /\ flushed = 0
      /\ status = [s \in Servers |-> IF s = "primary" THEN "up" ELSE "recovering"]
      /\ redo = [s \in Servers |-> 0] /\ replayed = [s \in Servers |-> 0]
      /\ pages = [s \in Servers |-> [blk \in Blocks |-> <<blk, 0>>]] /\ disk = pages
      /\ fsm = [s \in Servers |-> MapBlocks] /\ pending = [s \in Servers |-> {}]
      /\ op = [b \in Sessions |-> NoOp] /\ lsn = [blk \in Blocks |-> 0] /\ calls = <<>>
  BY DEF Init, LogInit, PageInit
<1>2. Len(wal) = 0 /\ 1..Len(wal) = {} /\ 0..Len(wal) = {0} /\ 0..flushed = {0} /\ Len(calls) = 0 /\ 1..0 = {}
  BY <1>1
<1>3. NoOp \in OpTypes /\ NoOp.kind = "none" /\ NoOp.phase \in Phases
  BY DEF NoOp, OpTypes, Phases
<1>4. pages \in PageTypes /\ disk \in PageTypes
  <2>1. [blk \in Blocks |-> <<blk, 0>>] \in [Blocks -> Contents]
    BY DEF Contents
  <2> QED
    BY <2>1, <1>1 DEF PageTypes
<1>5. TypeOK
  BY <1>1, <1>2, <1>3, <1>4 DEF TypeOK, PageTypes
<1>6. LogShape
  <2>1. wal \in Seq(Records)
    BY <1>1
  <2> QED
    BY <2>1, <1>1, <1>2 DEF LogShape, Servers
<1>7. CallsShape /\ LocksExclude
  <2>1. \A b \in Sessions : CallShape(b)
    BY <1>1, <1>3 DEF CallShape, Swapping
  <2>2. LocksExclude
    BY <1>1, <1>3 DEF LocksExclude, Holds
  <2> QED
    BY <2>1, <2>2, <1>1, <1>3 DEF CallsShape
<1>8. CustomShape
  <2>1. calls \in Seq([number : Nat, returned : BOOLEAN])
    BY <1>1
  <2>2. \A b \in Sessions : InProgress(b)
    BY <1>1, <1>3 DEF InProgress
  <2> QED
    BY <2>1, <2>2, <1>2 DEF CustomShape
<1>9. MapShape
  BY <1>1, <1>2, WalLogAssumption DEF MapShape, Servers
<1>10. PagesShape
  <2>1. \A blk \in Blocks : Shows(wal, blk, 0, <<blk, 0>>)
    BY <1>2 DEF Shows
  <2>2. DiskKnown
    BY <2>1, <1>1, <1>2 DEF DiskKnown
  <2>3. RecoveryAhead
    BY <2>1, <1>1, <1>2 DEF RecoveryAhead
  <2>4. UpCurrent
    BY <2>1, <1>1, <1>2 DEF UpCurrent, Servers
  <2>5. SwapsApart /\ SwapCurrent
    BY <1>1, <1>3 DEF SwapsApart, SwapCurrent, Swapping
  <2>6. Permuted
    BY <2>1, <1>2 DEF Permuted
  <2> QED
    BY <2>2, <2>3, <2>4, <2>5, <2>6 DEF PagesShape
<1> QED
  BY <1>5, <1>6, <1>7, <1>8, <1>9, <1>10 DEF IInv

LEMMA ServeStep == ASSUME IInv, Serve PROVE IInv'
  BY FlushStep, CheckpointStep, RestartpointStep, PageWriteStep DEF Serve

LEMMA ServerStep ==
  ASSUME IInv, NEW s \in Servers,
         \/ Recover(s) \/ Postmaster(s)
         \/ Crash(s) /\ KillSessions(s)
         \/ Start(s) /\ UNCHANGED <<pageVars, tool>>
  PROVE  IInv'
<1>1. CASE Recover(s)
  BY <1>1, RedoStep, EndRecoveryStep DEF Recover
<1>2. CASE Postmaster(s)
  BY <1>2, ReloadStep, StopStep, KilledStep DEF Postmaster
<1>3. CASE Crash(s) /\ KillSessions(s)
  BY <1>3, CrashStep
<1>4. CASE Start(s) /\ UNCHANGED <<pageVars, tool>>
  BY <1>4, StartStep
<1> QED
  BY <1>1, <1>2, <1>3, <1>4

LEMMA PageStep == ASSUME IInv, PageNext, UNCHANGED tool PROVE IInv'
<1>1. PICK b \in Sessions :
        \/ LockBuffer(b) \/ Register(b) \/ Register2(b) \/ Apply(b) \/ SwapInsert(b) \/ Write(b)
        \/ \E blk1, blk2 \in Blocks : pg_swap_pages(b, blk1, blk2) \/ WriteBegin(b, blk1, blk2)
        \/ \E n \in 0..2 : custom_wal(b, n)
        \/ LogLogicalMessage(b) \/ CustomFlush(b) \/ pg_truncate_fsm(b)
  BY DEF PageNext
<1>2. CASE LockBuffer(b) \/ Register(b) \/ Register2(b) \/ Apply(b) \/ SwapInsert(b) \/ Write(b)
  BY <1>2, LockBufferStep, RegisterStep, Register2Step, ApplyStep, SwapInsertStep, WriteStep
<1>3. CASE \E blk1, blk2 \in Blocks : pg_swap_pages(b, blk1, blk2) \/ WriteBegin(b, blk1, blk2)
  BY <1>3, SwapBegins, WriteBegins
<1>4. ASSUME NEW n \in 0..2, custom_wal(b, n) PROVE IInv'
  <2>1. n \in Nat
    OBVIOUS
  <2> QED
    BY <1>4, <2>1, CustomBegins
<1>5. CASE LogLogicalMessage(b) \/ CustomFlush(b) \/ pg_truncate_fsm(b)
  BY <1>5, MessageStep, CustomFlushStep, TruncateFsmStep
<1> QED
  BY <1>1, <1>2, <1>3, <1>4, <1>5

LEMMA NextInv == ASSUME IInv, [Next]_vars PROVE IInv'
<1>1. CASE Serve
  BY <1>1, ServeStep
<1>2. ASSUME NEW s \in Servers,
             \/ Recover(s) \/ Postmaster(s)
             \/ Crash(s) /\ KillSessions(s)
             \/ Start(s) /\ UNCHANGED <<pageVars, tool>>
      PROVE  IInv'
  BY <1>2, ServerStep
<1>3. CASE \E signal \in Signals : signal_rmgr(signal) /\ Room(1) /\ UNCHANGED <<pageVars, tool>>
  BY <1>3, SignalStep
<1>4. CASE PageNext /\ UNCHANGED tool
  BY <1>4, PageStep
<1>5. CASE ToolNext /\ UNCHANGED pageVars
  <2>1. UNCHANGED logVars
    BY <1>5 DEF ToolNext, do_wal_parsing, ReadRecord, ReadDone
  <2> QED
    BY <1>5, <2>1, ToolStep
<1>6. CASE UNCHANGED vars
  BY <1>6, ToolStep DEF vars
<1> QED
  BY <1>1, <1>2, <1>3, <1>4, <1>5, <1>6 DEF Next

LEMMA Invariant == Spec => []IInv
  BY InitInv, NextInv, PTL DEF Spec

-----------------------------------------------------------------------------
(* What the invariant gives.                                               *)

\* The types hold in every state: in particular no recovery fails, because signal_rmgr
\* refuses the signals that its redo would refuse.
THEOREM TypeCorrect == Spec => []TypeOK
<1>1. IInv => TypeOK
  BY DEF IInv
<1> QED
  BY <1>1, Invariant, PTL

\* The pages of a primary that is up and has no swap half done are what its log says.
LEMMA PagesAsLogged ==
  ASSUME IInv, status["primary"] = "up", Settled, ~exposed, NEW blk \in Blocks
  PROVE  Shows(wal, blk, Len(wal), pages["primary"][blk])
  BY DEF IInv, PagesShape, UpCurrent, Settled

\* pg_swap_pages loses no page, whatever sessions swap and write, and however often the
\* primary crashes and recovers, as long as no two swaps of a block overlap and no page is
\* written out in the middle of one.
THEOREM SwapsLoseNothing == Spec => []SwapLosesNothing
<1>1. ASSUME IInv PROVE SwapLosesNothing
  <2> SUFFICES ASSUME status["primary"] = "up", Settled, ~exposed, NEW blk \in Blocks
               PROVE  \E at \in Blocks : pages["primary"][at][1] = blk
    BY DEF SwapLosesNothing
  <2>1. Len(wal) \in Nat /\ Len(wal) \in 0..Len(wal) /\ Permuted
    BY <1>1, Basics DEF IInv, PagesShape
  <2>2. PICK at \in Blocks, k \in Nat : Shows(wal, at, Len(wal), <<blk, k>>)
    BY <2>1 DEF Permuted
  <2>3. Shows(wal, at, Len(wal), pages["primary"][at])
    BY <1>1, PagesAsLogged
  <2>4. pages["primary"][at] = <<blk, k>>
    BY <2>1, <2>2, <2>3, ShowsUnique
  <2> QED
    BY <2>4
<1> QED
  BY <1>1, Invariant, PTL

\* A standby that has replayed all of the log has the pages of the primary, and its free
\* space map offers nothing that the primary's does not but what is in the last page of
\* the map, although redo replays records over pages that are ahead of them.
THEOREM StandbyInStep == Spec => []StandbyAgrees
<1>1. ASSUME IInv PROVE StandbyAgrees
  <2> SUFFICES ASSUME InStep, ~exposed
               PROVE  pages["standby"] = pages["primary"] /\ fsm["standby"] \ MapTail \subseteq fsm["primary"]
    BY DEF StandbyAgrees
  <2>1. TypeOK /\ LogShape /\ CallsShape /\ MapShape /\ RecoveryAhead
    BY <1>1 DEF IInv, PagesShape
  <2>2. /\ status["primary"] = "up" /\ Settled /\ status["standby"] = "recovering"
        /\ replayed["standby"] = Len(wal)
    BY DEF InStep
  <2>3. Len(wal) \in Nat /\ flushed \in Nat /\ flushed <= Len(wal)
    BY <2>1, Basics
  <2>4. ASSUME NEW blk \in Blocks PROVE pages["standby"][blk] = pages["primary"][blk]
    <3>1. PICK m \in replayed["standby"]..flushed : Shows(wal, blk, m, pages["standby"][blk])
      BY <2>1, <2>2 DEF RecoveryAhead, Servers
    <3>2. m = Len(wal)
      BY <3>1, <2>2, <2>3
    <3>3. Shows(wal, blk, Len(wal), pages["primary"][blk])
      BY <1>1, <2>2, PagesAsLogged
    <3> QED
      BY <3>1, <3>2, <3>3, <2>3, ShowsUnique
  <2>5. pages["standby"] = pages["primary"]
    BY <2>4, <2>1, Typed DEF PageTypes, Servers
  <2>6. fsm["standby"] \ MapTail \subseteq fsm["primary"]
    <3>1. CASE \E i \in 1..flushed : wal[i].kind = "truncate_fsm"
      <4>1. \A i \in 1..flushed : i \in 1..replayed["standby"]
        BY <2>2, <2>3
      <4> QED
        BY <3>1, <4>1, <2>1 DEF MapShape
    <3>2. CASE MapBlocks \ MapTail \subseteq fsm["primary"]
      <4>1. fsm["standby"] \subseteq MapBlocks
        BY <2>1, Typed DEF Servers
      <4> QED
        BY <3>2, <4>1
    <3> QED
      BY <3>1, <3>2, <2>1 DEF MapShape
  <2> QED
    BY <2>5, <2>6
<1> QED
  BY <1>1, Invariant, PTL

LEMMA WantedBlock ==
  ASSUME NEW b, NEW blk \in Wanted(b)
  PROVE  \/ op[b].phase = "lock1" /\ blk = op[b].first
         \/ op[b].phase = "lock2" /\ blk = op[b].second
<1>1. CASE op[b].phase = "lock1"
  <2>1. Wanted(b) = {op[b].first}
    BY <1>1, Zenon DEF Wanted
  <2> QED
    BY <1>1, <2>1
<1>2. CASE op[b].phase = "lock2"
  <2>1. "lock1" # "lock2"
    OBVIOUS
  <2>2. Wanted(b) = {op[b].second}
    BY <1>2, <2>1, Zenon DEF Wanted
  <2> QED
    BY <1>2, <2>2
<1>3. CASE op[b].phase # "lock1" /\ op[b].phase # "lock2"
  <2>1. Wanted(b) = {}
    BY <1>3, Zenon DEF Wanted
  <2> QED
    BY <2>1
<1> QED
  BY <1>1, <1>2, <1>3

\* Sessions that wait for each other have one lock each.
LEMMA WaitersHold ==
  ASSUME NEW b, NEW c, Waits(b, c), Waits(c, b)
  PROVE  /\ b # c /\ op[b].phase = "lock2" /\ op[c].phase = "lock2"
         /\ op[b].kind \in {"swap", "write"} /\ op[c].kind \in {"swap", "write"}
         /\ "write" \in {op[b].kind, op[c].kind}
         /\ op[b].second = op[c].first /\ op[c].second = op[b].first
<1>1. PICK x \in Wanted(b) : Excludes(c, b, x)
  BY DEF Waits
<1>2. PICK y \in Wanted(c) : Excludes(b, c, y)
  BY DEF Waits
<1>3. /\ (op[b].phase = "lock1" /\ x = op[b].first) \/ (op[b].phase = "lock2" /\ x = op[b].second)
      /\ (op[c].phase = "lock1" /\ y = op[c].first) \/ (op[c].phase = "lock2" /\ y = op[c].second)
  BY WantedBlock
<1>4. /\ b # c /\ Holds(c, x) /\ Holds(b, y) /\ "write" \in {op[b].kind, op[c].kind}
  BY <1>1, <1>2 DEF Excludes
<1> QED
  BY <1>3, <1>4 DEF Holds

\* Two sessions wait for each other only if one of them is a swap of blocks asked for in
\* descending order.
THEOREM DeadlockOnlyDescending == Spec => []DeadlockNeedsDescending
<1>1. ASSUME IInv PROVE DeadlockNeedsDescending
  <2> SUFFICES ASSUME NEW b \in Sessions, NEW c \in Sessions, Waits(b, c), Waits(c, b)
               PROVE  \E d \in {b, c} : op[d].kind = "swap" /\ op[d].asked[1] > op[d].asked[2]
    BY DEF DeadlockNeedsDescending
  <2>1. CallsShape /\ LocksExclude
    BY <1>1 DEF IInv
  <2>2. /\ b # c /\ op[b].phase = "lock2" /\ op[c].phase = "lock2"
        /\ op[b].kind \in {"swap", "write"} /\ op[c].kind \in {"swap", "write"}
        /\ "write" \in {op[b].kind, op[c].kind}
        /\ op[b].second = op[c].first /\ op[c].second = op[b].first
    BY WaitersHold
  <2>3. Mine(b) \subseteq Blocks /\ Mine(c) \subseteq Blocks
    BY <2>1, <2>2 DEF CallsShape, CallShape
  <2>4. op[b].first \in Blocks /\ op[c].first \in Blocks /\ op[b].first \in Nat /\ op[c].first \in Nat
    BY <2>3, BlocksNat DEF Mine
  <2>5. op[b].first # op[c].first
    <3>1. Holds(b, op[b].first) /\ Holds(c, op[c].first)
      BY <2>2 DEF Holds
    <3> QED
      BY <3>1, <2>1, <2>2, <2>4 DEF LocksExclude
  <2>6. CASE op[b].kind = "write"
    <3>1. op[b].first <= op[c].first
      BY <2>1, <2>2, <2>6 DEF CallsShape, CallShape
    <3>2. op[c].kind = "swap"
      <4>1. op[c].kind = "write" => op[c].first <= op[b].first
        BY <2>1, <2>2 DEF CallsShape, CallShape
      <4> QED
        BY <4>1, <3>1, <2>2, <2>4, <2>5
    <3>3. op[c].asked = <<op[c].first, op[b].first>>
      BY <3>2, <2>1, <2>2 DEF CallsShape, CallShape
    <3> QED
      BY <3>1, <3>2, <3>3, <2>4, <2>5
  <2>7. CASE op[c].kind = "write"
    <3>1. op[c].first <= op[b].first
      BY <2>1, <2>2, <2>7 DEF CallsShape, CallShape
    <3>2. op[b].kind = "swap"
      <4>1. op[b].kind = "write" => op[b].first <= op[c].first
        BY <2>1, <2>2 DEF CallsShape, CallShape
      <4> QED
        BY <4>1, <3>1, <2>2, <2>4, <2>5
    <3>3. op[b].asked = <<op[b].first, op[c].first>>
      BY <3>2, <2>1, <2>2 DEF CallsShape, CallShape
    <3> QED
      BY <3>1, <3>2, <3>3, <2>4, <2>5
  <2> QED
    BY <2>2, <2>6, <2>7
<1> QED
  BY <1>1, Invariant, PTL

\* When a call of custom_wal has returned, all its records are on disk, and stay there
\* through every crash.
THEOREM CustomDurable == Spec => []CustomWalDurable
<1>1. ASSUME IInv PROVE CustomWalDurable
  <2> SUFFICES ASSUME NEW call \in DOMAIN calls, calls[call].returned
               PROVE  Cardinality(Messages(call)) = calls[call].number
    BY DEF CustomWalDurable
  <2>1. TypeOK /\ LogShape /\ CustomShape
    BY <1>1 DEF IInv
  <2>2. call \in 1..Len(calls)
    BY <2>1 DEF CustomShape
  <2>3. /\ Cardinality(Logged(wal, call)) = calls[call].number
        /\ \A i \in Logged(wal, call) : i <= flushed
    BY <2>1, <2>2 DEF CustomShape
  <2>4. Len(wal) \in Nat /\ flushed \in Nat /\ flushed <= Len(wal)
    BY <2>1, Basics
  <2>5. Messages(call) = Logged(wal, call)
    BY <2>3, <2>4 DEF Messages, Logged
  <2> QED
    BY <2>3, <2>5
<1> QED
  BY <1>1, Invariant, PTL

-----------------------------------------------------------------------------
(* Where the records of a log end.                                         *)

\* Induction, with a set in the place of a predicate.
LEMMA NatInduct ==
  ASSUME NEW S, 0 \in S, \A n \in Nat : n \in S => n + 1 \in S
  PROVE  Nat \subseteq S
<1> DEFINE D == {n \in Nat : n \notin S}
<1>1. SUFFICES ASSUME D # {} PROVE FALSE
  OBVIOUS
<1>2. PICK n \in D : \A m \in D : ~(<<m, n>> \in OpToRel(<, Nat))
  <2>1. D \subseteq Nat
    OBVIOUS
  <2> HIDE DEF D
  <2> QED
    BY <1>1, <2>1, NatLessThanWellFounded, WFMin
<1>3. \A m \in D : ~(m < n)
  BY <1>2 DEF OpToRel
<1>4. n \in Nat /\ n # 0 /\ n - 1 \in Nat /\ n - 1 < n
  OBVIOUS
<1>5. n - 1 \in S
  BY <1>3, <1>4
<1>6. (n - 1) + 1 \in S
  BY <1>4, <1>5
<1> QED
  BY <1>4, <1>6

\* The smallest of a set of numbers.
LEMMA MinOf ==
  ASSUME NEW S, S \subseteq Nat, S # {}
  PROVE  Min(S) \in S /\ \A n \in S : Min(S) <= n
<1>1. PICK n \in S : \A m \in S : ~(<<m, n>> \in OpToRel(<, Nat))
  BY NatLessThanWellFounded, WFMin
<1>2. \A m \in S : ~(m < n)
  BY <1>1 DEF OpToRel
<1>3. \A m \in S : n <= m
  BY <1>2
<1> QED
  BY <1>3 DEF Min

\* The function behind EndOf, for the first i records.
IsEnd(f, log, i) == f = [n \in 0..i |-> IF n = 0 THEN 0 ELSE f[n - 1] + Size(log[n])]
EndIn(log, i) == (CHOOSE f : IsEnd(f, log, i))[i]

LEMMA EndSpec == ASSUME NEW i PROVE EndOf(i) = EndIn(wal, i)
  BY DEF EndOf, EndIn, IsEnd

LEMMA IsEndValue ==
  ASSUME NEW f, NEW log, NEW i \in Nat, IsEnd(f, log, i), NEW n \in 0..i
  PROVE  f[n] = IF n = 0 THEN 0 ELSE f[n - 1] + Size(log[n])
  BY DEF IsEnd

\* Where two logs agree, so do they.
LEMMA EndUnique ==
  ASSUME NEW f, NEW g, NEW log, NEW other, NEW i \in Nat, NEW j \in Nat, i <= j,
         IsEnd(f, log, i), IsEnd(g, other, j), \A n \in 1..i : other[n] = log[n]
  PROVE  f[i] = g[i]
<1> DEFINE S == {n \in Nat : n <= i => f[n] = g[n]}
<1>1. 0 \in S
  <2>1. 0 \in 0..i /\ 0 \in 0..j
    OBVIOUS
  <2> QED
    BY <2>1, IsEndValue
<1>2. ASSUME NEW n \in Nat, n \in S PROVE n + 1 \in S
  <2>1. SUFFICES ASSUME n + 1 <= i PROVE f[n + 1] = g[n + 1]
    OBVIOUS
  <2>2. n + 1 \in 0..i /\ n + 1 \in 0..j /\ n + 1 # 0 /\ (n + 1) - 1 = n /\ n + 1 \in 1..i /\ n <= i
    BY <2>1
  <2>3. f[n] = g[n]
    BY <1>2, <2>2
  <2>4. f[n + 1] = f[(n + 1) - 1] + Size(log[n + 1])
    BY <2>2, IsEndValue
  <2>5. g[n + 1] = g[(n + 1) - 1] + Size(other[n + 1])
    BY <2>2, IsEndValue
  <2> QED
    BY <2>2, <2>3, <2>4, <2>5
<1>3. Nat \subseteq S
  <2> HIDE DEF S
  <2> QED
    BY <1>1, <1>2, NatInduct
<1>4. i \in S /\ i <= i
  BY <1>3
<1> QED
  BY <1>4

\* There is one.
LEMMA EndExists == ASSUME NEW log PROVE \A i \in Nat : \E f : IsEnd(f, log, i)
<1> DEFINE S == {i \in Nat : \E f : IsEnd(f, log, i)}
<1>1. 0 \in S
  <2> DEFINE f == [n \in 0..0 |-> 0]
  <2>1. f = [n \in 0..0 |-> IF n = 0 THEN 0 ELSE f[n - 1] + Size(log[n])]
    OBVIOUS
  <2>2. IsEnd(f, log, 0)
    BY <2>1 DEF IsEnd
  <2> QED
    BY <2>2
<1>2. ASSUME NEW i \in Nat, i \in S PROVE i + 1 \in S
  <2>1. PICK f : IsEnd(f, log, i)
    BY <1>2
  <2> DEFINE g == [n \in 0..(i + 1) |-> IF n = i + 1 THEN f[i] + Size(log[i + 1]) ELSE f[n]]
  <2>2. ASSUME NEW n \in 0..(i + 1)
        PROVE  g[n] = IF n = 0 THEN 0 ELSE g[n - 1] + Size(log[n])
    <3>1. CASE n = i + 1
      <4>1. n # 0 /\ n - 1 = i /\ i \in 0..(i + 1) /\ i # i + 1
        BY <3>1
      <4>2. g[i] = f[i]
        BY <4>1
      <4>3. g[n] = f[i] + Size(log[n])
        BY <3>1
      <4> QED
        BY <4>1, <4>2, <4>3
    <3>2. CASE n # i + 1
      <4>1. n \in 0..i /\ (n # 0 => n - 1 \in 0..(i + 1) /\ n - 1 # i + 1)
        BY <3>2
      <4>2. g[n] = f[n] /\ (n # 0 => g[n - 1] = f[n - 1])
        BY <3>2, <4>1
      <4>3. f[n] = IF n = 0 THEN 0 ELSE f[n - 1] + Size(log[n])
        BY <2>1, <4>1, IsEndValue
      <4> QED
        BY <4>2, <4>3
    <3> QED
      BY <3>1, <3>2
  <2>3. g = [n \in 0..(i + 1) |-> g[n]]
    OBVIOUS
  <2> HIDE DEF g
  <2>4. g = [n \in 0..(i + 1) |-> IF n = 0 THEN 0 ELSE g[n - 1] + Size(log[n])]
    BY <2>2, <2>3
  <2>5. IsEnd(g, log, i + 1)
    BY <2>4 DEF IsEnd
  <2> QED
    BY <2>5
<1>3. Nat \subseteq S
  <2> HIDE DEF S
  <2> QED
    BY <1>1, <1>2, NatInduct
<1> QED
  BY <1>3

\* Logs with the same first records end them at the same places.
LEMMA EndSame ==
  ASSUME NEW log, NEW other, NEW i \in Nat, \A n \in 1..i : other[n] = log[n]
  PROVE  EndIn(other, i) = EndIn(log, i)
<1> DEFINE f == CHOOSE h : IsEnd(h, log, i)
           g == CHOOSE h : IsEnd(h, other, i)
<1>1. IsEnd(f, log, i) /\ IsEnd(g, other, i) /\ i <= i
  BY EndExists
<1> HIDE DEF f, g
<1>2. f[i] = g[i]
  BY <1>1, EndUnique
<1> QED
  BY <1>2 DEF EndIn, f, g

\* A record ends its size after the one before it.
LEMMA EndNext ==
  ASSUME NEW log
  PROVE  /\ EndIn(log, 0) = 0
         /\ \A i \in Nat : EndIn(log, i + 1) = EndIn(log, i) + Size(log[i + 1])
<1>1. EndIn(log, 0) = 0
  <2> DEFINE f == CHOOSE h : IsEnd(h, log, 0)
  <2>1. IsEnd(f, log, 0) /\ 0 \in Nat /\ 0 \in 0..0
    BY EndExists
  <2> HIDE DEF f
  <2>2. f[0] = 0
    BY <2>1, IsEndValue
  <2> QED
    BY <2>2 DEF EndIn, f
<1>2. ASSUME NEW i \in Nat PROVE EndIn(log, i + 1) = EndIn(log, i) + Size(log[i + 1])
  <2> DEFINE f == CHOOSE h : IsEnd(h, log, i)
             g == CHOOSE h : IsEnd(h, log, i + 1)
  <2>1. i + 1 \in Nat /\ i <= i + 1 /\ i + 1 \in 0..(i + 1) /\ i + 1 # 0 /\ (i + 1) - 1 = i
    OBVIOUS
  <2>2. IsEnd(f, log, i) /\ IsEnd(g, log, i + 1)
    BY <2>1, EndExists
  <2> HIDE DEF f, g
  <2>3. f[i] = g[i]
    BY <2>1, <2>2, EndUnique
  <2>4. g[i + 1] = g[(i + 1) - 1] + Size(log[i + 1])
    BY <2>1, <2>2, IsEndValue
  <2>5. g[i + 1] = f[i] + Size(log[i + 1])
    BY <2>1, <2>3, <2>4
  <2> QED
    BY <2>5 DEF EndIn, f, g
<1> QED
  BY <1>1, <1>2

\* A record takes room.
LEMMA SizeType == ASSUME NEW r \in Records PROVE Size(r) \in Nat /\ Size(r) >= 1
<1>1. DOMAIN r.image \subseteq Blocks
  BY ImageType DEF Records
<1>2. Cardinality(DOMAIN r.image) \in Nat
  BY <1>1, WalLogAssumption, FS_Subset, FS_CardinalityType
<1> QED
  BY <1>2, MaxTwo DEF Size

\* The ends are numbers, and grow with every record.
LEMMA EndGrows ==
  ASSUME NEW log \in Seq(Records)
  PROVE  /\ \A i \in 0..Len(log) : EndIn(log, i) \in Nat
         /\ \A i, j \in 0..Len(log) : i < j => EndIn(log, i) < EndIn(log, j)
         /\ \A i, j \in 0..Len(log) : i <= j => EndIn(log, i) <= EndIn(log, j)
<1>1. Len(log) \in Nat /\ \A i \in 1..Len(log) : Size(log[i]) \in Nat /\ Size(log[i]) >= 1
  BY SizeType
<1> DEFINE S == {n \in Nat : n <= Len(log) =>
                  EndIn(log, n) \in Nat /\ \A i \in 0..n : i < n => EndIn(log, i) \in Nat /\ EndIn(log, i) < EndIn(log, n)}
<1>2. 0 \in S
  <2>1. EndIn(log, 0) \in Nat
    BY EndNext
  <2> QED
    BY <2>1
<1>3. ASSUME NEW n \in Nat, n \in S PROVE n + 1 \in S
  <2>1. SUFFICES ASSUME n + 1 <= Len(log)
                 PROVE  /\ EndIn(log, n + 1) \in Nat
                        /\ \A i \in 0..(n + 1) : i < n + 1 => EndIn(log, i) \in Nat /\ EndIn(log, i) < EndIn(log, n + 1)
    OBVIOUS
  <2>2. n <= Len(log) /\ n + 1 \in 1..Len(log)
    BY <2>1, <1>1
  <2>3. EndIn(log, n) \in Nat /\ \A i \in 0..n : i < n => EndIn(log, i) \in Nat /\ EndIn(log, i) < EndIn(log, n)
    BY <1>3, <2>2
  <2>4. EndIn(log, n + 1) = EndIn(log, n) + Size(log[n + 1])
    BY EndNext
  <2>5. Size(log[n + 1]) \in Nat /\ Size(log[n + 1]) >= 1
    BY <1>1, <2>2
  <2>6. EndIn(log, n + 1) \in Nat /\ EndIn(log, n) < EndIn(log, n + 1)
    BY <2>3, <2>4, <2>5
  <2>7. ASSUME NEW i \in 0..(n + 1), i < n + 1
        PROVE  EndIn(log, i) \in Nat /\ EndIn(log, i) < EndIn(log, n + 1)
    <3>1. CASE i = n
      BY <3>1, <2>3, <2>6
    <3>2. CASE i # n
      <4>1. i \in 0..n /\ i < n
        BY <3>2, <2>7
      <4>2. EndIn(log, i) \in Nat /\ EndIn(log, i) < EndIn(log, n)
        BY <4>1, <2>3
      <4> QED
        BY <4>2, <2>3, <2>6
    <3> QED
      BY <3>1, <3>2
  <2> QED
    BY <2>6, <2>7
<1>4. Nat \subseteq S
  <2> HIDE DEF S
  <2> QED
    BY <1>2, <1>3, NatInduct
<1>5. \A n \in 0..Len(log) :
        EndIn(log, n) \in Nat /\ \A i \in 0..n : i < n => EndIn(log, i) \in Nat /\ EndIn(log, i) < EndIn(log, n)
  BY <1>4, <1>1
<1>6. ASSUME NEW i \in 0..Len(log), NEW j \in 0..Len(log), i < j PROVE EndIn(log, i) < EndIn(log, j)
  <2>1. i \in 0..j
    BY <1>1, <1>6
  <2> QED
    BY <2>1, <1>5, <1>6
<1>7. ASSUME NEW i \in 0..Len(log), NEW j \in 0..Len(log), i <= j PROVE EndIn(log, i) <= EndIn(log, j)
  <2>1. CASE i = j
    BY <2>1, <1>5
  <2>2. CASE i < j
    BY <2>2, <1>5, <1>6
  <2> QED
    BY <2>1, <2>2, <1>7, <1>1
<1> QED
  BY <1>5, <1>6, <1>7

-----------------------------------------------------------------------------
(* pg_wal_blocks.                                                          *)

Low(seg) == seg * SegSize
High(seg) == (seg + 1) * SegSize

ToolTypes ==
  tool \in [pc : {"none", "read", "end", "failed"}, seg : Nat, at : Nat,
            out : Seq(SUBSET Blocks), sealed : BOOLEAN]
First(t) == t.at - Len(t.out)
Reading(log, n, t) ==
  /\ 1 <= First(t) /\ First(t) <= n /\ t.at <= n + 1
  /\ EndIn(log, First(t) - 1) >= Low(t.seg) /\ EndIn(log, First(t)) <= High(t.seg)
  /\ \A i \in 1..(First(t) - 1) : EndIn(log, i - 1) < Low(t.seg)
  /\ EndIn(log, t.at - 1) <= High(t.seg)
  /\ \A k \in 1..Len(t.out) : t.out[k] = DOMAIN log[First(t) + k - 1].image
Ended(log, n, t) ==
  EndIn(log, t.at - 1) >= High(t.seg) \/ (t.at <= n /\ EndIn(log, t.at) > High(t.seg))
NoneInside(log, n, t) ==
  \A i \in 1..n : ~(EndIn(log, i - 1) >= Low(t.seg) /\ EndIn(log, i) <= High(t.seg))
\* What the records of a full segment are is settled: the records of the log that can
\* still be lost start after it.  The tool started at the first record that starts in
\* the segment, has read none that ends after it, and stops at the first that does.
Settles(log, n, t) ==
  t.sealed =>
    /\ EndIn(log, n) >= High(t.seg)
    /\ t.pc \in {"read", "end"} => Reading(log, n, t)
    /\ t.pc = "end" => Ended(log, n, t)
    /\ t.pc = "failed" => NoneInside(log, n, t)
ToolInv == ToolTypes /\ (tool.pc = "read" => tool.at >= 1) /\ Settles(wal, flushed, tool)

LEMMA Bounds == ASSUME NEW seg \in Nat PROVE Low(seg) \in Nat /\ High(seg) \in Nat
  BY WalBlocksAssumption DEF Low, High

\* More of the log on disk changes none of this.
LEMMA SettlesOn ==
  ASSUME NEW log \in Seq(Records), NEW other \in Seq(Records), NEW n \in 0..Len(log),
         NEW m \in n..Len(other), \A i \in 1..n : other[i] = log[i],
         NEW t \in [pc : {"none", "read", "end", "failed"}, seg : Nat, at : Nat,
                    out : Seq(SUBSET Blocks), sealed : BOOLEAN],
         Settles(log, n, t)
  PROVE  Settles(other, m, t)
<1> DEFINE lo == Low(t.seg)  hi == High(t.seg)
<1>1. Len(log) \in Nat /\ Len(other) \in Nat /\ n \in Nat /\ m \in Nat /\ n <= m /\ m <= Len(other)
  OBVIOUS
<1>2. SUFFICES ASSUME t.sealed
               PROVE  /\ EndIn(other, m) >= hi
                      /\ t.pc \in {"read", "end"} => Reading(other, m, t)
                      /\ t.pc = "end" => Ended(other, m, t)
                      /\ t.pc = "failed" => NoneInside(other, m, t)
  BY DEF Settles
<1>3. lo \in Nat /\ hi \in Nat
  BY Bounds
<1>4. ASSUME NEW i \in 0..n PROVE EndIn(other, i) = EndIn(log, i) /\ EndIn(other, i) \in Nat
  <2>1. i \in Nat /\ i \in 0..Len(other) /\ \A k \in 1..i : k \in 1..n
    BY <1>1
  <2> QED
    BY <2>1, EndSame, EndGrows
<1>5. ASSUME NEW i \in n..m PROVE EndIn(other, i) \in Nat /\ EndIn(other, i) >= hi
  <2>1. i \in 0..Len(other) /\ n \in 0..Len(other) /\ n <= i /\ n \in 0..n
    BY <1>1
  <2>2. EndIn(other, n) <= EndIn(other, i) /\ EndIn(other, i) \in Nat
    BY <2>1, EndGrows
  <2>3. EndIn(other, n) = EndIn(log, n) /\ EndIn(other, n) \in Nat /\ EndIn(log, n) >= hi
    BY <2>1, <1>2, <1>4 DEF Settles
  <2> QED
    BY <2>2, <2>3, <1>3
<1>6. ASSUME NEW i \in (n + 1)..m PROVE EndIn(other, i) > hi
  <2>1. i \in 0..Len(other) /\ n \in 0..Len(other) /\ n < i /\ n \in n..m
    BY <1>1
  <2>2. EndIn(other, n) < EndIn(other, i) /\ EndIn(other, i) \in Nat
    BY <2>1, EndGrows
  <2> QED
    BY <2>1, <2>2, <1>3, <1>5
<1>7. EndIn(other, m) >= hi
  BY <1>1, <1>5
<1>8. t.at \in Nat /\ Len(t.out) \in Nat /\ First(t) = t.at - Len(t.out) /\ First(t) \in Int
  BY DEF First
<1>9. ASSUME t.pc \in {"read", "end"} PROVE Reading(other, m, t)
  <2>1. Reading(log, n, t)
    BY <1>2, <1>9 DEF Settles
  <2>2. 1 <= First(t) /\ First(t) <= n /\ t.at <= n + 1 /\ First(t) <= t.at
    BY <2>1, <1>8 DEF Reading
  <2>3. /\ First(t) - 1 \in 0..n /\ First(t) \in 0..n /\ t.at - 1 \in 0..n
        /\ First(t) <= m /\ t.at <= m + 1
    BY <2>2, <1>1, <1>8
  <2>4. EndIn(other, First(t) - 1) >= lo /\ EndIn(other, First(t)) <= hi /\ EndIn(other, t.at - 1) <= hi
    BY <2>1, <2>3, <1>4 DEF Reading
  <2>5. ASSUME NEW i \in 1..(First(t) - 1) PROVE EndIn(other, i - 1) < lo
    <3>1. i - 1 \in 0..n
      BY <2>3, <1>1
    <3> QED
      BY <3>1, <2>1, <1>4 DEF Reading
  <2>6. ASSUME NEW k \in 1..Len(t.out) PROVE t.out[k] = DOMAIN other[First(t) + k - 1].image
    <3>1. First(t) + k - 1 \in 1..n
      BY <2>2, <1>1, <1>8
    <3>2. other[First(t) + k - 1] = log[First(t) + k - 1]
      BY <3>1
    <3> QED
      BY <3>2, <2>1 DEF Reading
  <2> QED
    BY <2>2, <2>3, <2>4, <2>5, <2>6 DEF Reading
<1>10. ASSUME t.pc = "end" PROVE Ended(other, m, t)
  <2>1. Ended(log, n, t) /\ Reading(log, n, t)
    BY <1>2, <1>10 DEF Settles
  <2>2. t.at - 1 \in 0..n /\ (t.at <= n => t.at \in 0..n /\ t.at <= m)
    <3>1. 1 <= First(t) /\ t.at <= n + 1
      BY <2>1 DEF Reading
    <3> QED
      BY <3>1, <1>1, <1>8
  <2> QED
    BY <2>1, <2>2, <1>4 DEF Ended
<1>11. ASSUME t.pc = "failed", NEW i \in 1..m
       PROVE  ~(EndIn(other, i - 1) >= lo /\ EndIn(other, i) <= hi)
  <2>1. CASE i <= n
    <3>1. i \in 0..n /\ i - 1 \in 0..n /\ i \in 1..n
      BY <2>1, <1>1
    <3>2. ~(EndIn(log, i - 1) >= lo /\ EndIn(log, i) <= hi)
      BY <3>1, <1>2, <1>11 DEF Settles, NoneInside
    <3> QED
      BY <3>1, <3>2, <1>4
  <2>2. CASE i > n
    <3>1. i \in (n + 1)..m /\ i \in n..m
      BY <2>2, <1>1
    <3> QED
      BY <3>1, <1>3, <1>5, <1>6
  <2> QED
    BY <2>1, <2>2, <1>1
<1> QED
  BY <1>7, <1>9, <1>10, <1>11 DEF NoneInside

\* What is on disk of the log stays: it only grows, and only its end in memory is lost.
DiskKept ==
  /\ flushed' >= flushed
  /\ wal' = wal \/ (\E r : wal' = Append(wal, r)) \/ wal' = SubSeq(wal, 1, flushed)

LEMMA ServerKeeps ==
  ASSUME IInv, NEW s \in Servers,
         \/ Recover(s) \/ Postmaster(s)
         \/ Crash(s) /\ KillSessions(s)
         \/ Start(s) /\ UNCHANGED <<pageVars, tool>>
  PROVE  DiskKept /\ UNCHANGED tool
<1>1. flushed \in Nat /\ Len(wal) \in Nat /\ flushed <= Len(wal)
  BY Basics DEF IInv
<1>2. CASE Recover(s)
  BY <1>1, <1>2 DEF Recover, Redo, EndRecovery, DiskKept
<1>3. ASSUME LoseMemory(s) PROVE DiskKept
  BY <1>1, <1>3 DEF LoseMemory, DiskKept
<1>4. ASSUME Stop(s) PROVE DiskKept
  BY <1>1, <1>4 DEF Stop, DiskKept
<1>5. CASE Postmaster(s)
  BY <1>1, <1>3, <1>4, <1>5
    DEF Postmaster, PostmasterReload, PostmasterStop, PostmasterKilled, KillSessions, DiskKept
<1>6. CASE Crash(s) /\ KillSessions(s)
  BY <1>3, <1>6 DEF Crash, KillSessions
<1>7. CASE Start(s) /\ UNCHANGED <<pageVars, tool>>
  BY <1>1, <1>7 DEF Start, DiskKept
<1> QED
  BY <1>2, <1>5, <1>6, <1>7

LEMMA ServeKeeps == ASSUME IInv, Serve PROVE DiskKept /\ UNCHANGED tool
<1>1. flushed \in Nat /\ Len(wal) \in Nat /\ flushed <= Len(wal)
  BY Basics DEF IInv
<1>2. ASSUME NEW n \in 1..Len(wal), Flush(n), UNCHANGED <<pageVars, tool>>
      PROVE  DiskKept /\ UNCHANGED tool
  BY <1>1, <1>2 DEF Flush, DiskKept
<1>3. ASSUME Checkpoint, UNCHANGED <<op, lsn, calls, tool>> PROVE DiskKept /\ UNCHANGED tool
  BY <1>1, <1>3 DEF Checkpoint, DiskKept
<1>4. ASSUME Restartpoint, UNCHANGED <<pageVars, tool>> PROVE DiskKept /\ UNCHANGED tool
  BY <1>1, <1>4 DEF Restartpoint, DiskKept
<1>5. ASSUME NEW blk \in Blocks, PageWrite(blk), UNCHANGED tool PROVE DiskKept /\ UNCHANGED tool
  <2>1. lsn[blk] \in Nat
    BY <1>1 DEF IInv, TypeOK
  <2>2. Max({flushed, lsn[blk]}) >= flushed
    BY <1>1, <2>1, MaxTwo
  <2> QED
    BY <1>5, <2>2 DEF PageWrite, DiskKept
<1> QED
  BY <1>2, <1>3, <1>4, <1>5 DEF Serve

LEMMA PageKeeps == ASSUME IInv, PageNext PROVE DiskKept
<1>1. flushed \in Nat /\ Len(wal) \in Nat /\ flushed <= Len(wal)
  BY Basics DEF IInv
<1>2. PICK b \in Sessions :
        \/ LockBuffer(b) \/ Register(b) \/ Register2(b) \/ Apply(b) \/ SwapInsert(b) \/ Write(b)
        \/ \E blk1, blk2 \in Blocks : pg_swap_pages(b, blk1, blk2) \/ WriteBegin(b, blk1, blk2)
        \/ \E n \in 0..2 : custom_wal(b, n)
        \/ LogLogicalMessage(b) \/ CustomFlush(b) \/ pg_truncate_fsm(b)
  BY DEF PageNext
<1>3. ASSUME UNCHANGED logVars PROVE DiskKept
  BY <1>1, <1>3 DEF logVars, DiskKept
<1>4. CASE LockBuffer(b) \/ Register(b) \/ Register2(b)
  BY <1>3, <1>4 DEF LockBuffer, Register, Register2
<1>5. CASE Apply(b)
  BY <1>1, <1>5 DEF Apply, DiskKept
<1>6. CASE SwapInsert(b)
  BY <1>1, <1>6 DEF SwapInsert, InsertImage, DiskKept
<1>7. CASE Write(b)
  <2>1. flushed' = flushed /\ InsertImage(Mine(b), pages'["primary"])
    BY <1>7 DEF Write
  <2>2. \E r : wal' = Append(wal, r)
    BY <2>1, Zenon DEF InsertImage
  <2> QED
    BY <1>1, <2>1, <2>2 DEF DiskKept
<1>8. CASE \E blk1, blk2 \in Blocks : pg_swap_pages(b, blk1, blk2) \/ WriteBegin(b, blk1, blk2)
  BY <1>3, <1>8 DEF pg_swap_pages, WriteBegin
<1>9. CASE \E n \in 0..2 : custom_wal(b, n)
  BY <1>3, <1>9 DEF custom_wal
<1>10. CASE LogLogicalMessage(b)
  BY <1>1, <1>10 DEF LogLogicalMessage, DiskKept
<1>11. CASE CustomFlush(b)
  <2>1. PICK position \in FlushPositions(b) : flushed' = Max({flushed, Min({position, Len(wal)})})
    BY <1>11 DEF CustomFlush
  <2>2. position \in Nat
    <3>1. op[b].lsn \in Nat
      BY DEF IInv, CallsShape, OpTypes
    <3> QED
      BY <3>1, <1>1 DEF FlushPositions
  <2>3. Min({position, Len(wal)}) \in Nat
    BY <1>1, <2>2, MinTwo
  <2>4. flushed' >= flushed
    BY <1>1, <2>1, <2>3, MaxTwo
  <2> QED
    BY <1>11, <2>4 DEF CustomFlush, DiskKept
<1>12. CASE pg_truncate_fsm(b)
  BY <1>1, <1>12 DEF pg_truncate_fsm, DiskKept
<1> QED
  BY <1>2, <1>4, <1>5, <1>6, <1>7, <1>8, <1>9, <1>10, <1>11, <1>12

\* Steps of the servers leave the tool's invariant alone.
LEMMA KeptSettles ==
  ASSUME IInv, IInv', ToolInv, DiskKept, UNCHANGED tool
  PROVE  ToolInv'
<1>1. wal \in Seq(Records) /\ flushed \in 0..Len(wal)
  BY DEF IInv, LogShape, TypeOK
<1>2. wal' \in Seq(Records) /\ flushed' \in 0..Len(wal')
  BY DEF IInv, LogShape, TypeOK
<1>3. flushed' \in flushed..Len(wal')
  BY <1>1, <1>2 DEF DiskKept
<1>4. \A i \in 1..flushed : wal'[i] = wal[i]
  <2>1. ASSUME NEW r, wal' = Append(wal, r) PROVE \A i \in 1..flushed : wal'[i] = wal[i]
    <3>1. \A i \in 1..flushed : i \in 1..Len(wal)
      BY <1>1
    <3> QED
      BY <3>1, <2>1, <1>1
  <2>2. CASE wal' = SubSeq(wal, 1, flushed)
    BY <2>2, <1>1, CutLog
  <2> QED
    BY <2>1, <2>2 DEF DiskKept
<1>5. /\ tool \in [pc : {"none", "read", "end", "failed"}, seg : Nat, at : Nat,
                   out : Seq(SUBSET Blocks), sealed : BOOLEAN]
      /\ Settles(wal, flushed, tool)
  BY DEF ToolInv, ToolTypes
<1>6. Settles(wal', flushed', tool)
  BY <1>1, <1>2, <1>3, <1>4, <1>5, SettlesOn
<1> QED
  BY <1>5, <1>6 DEF ToolInv, ToolTypes

LEMMA ParsingStep ==
  ASSUME IInv, ToolInv, NEW seg \in 0..EndOf(flushed), do_wal_parsing(seg)
  PROVE  ToolInv'
<1> DEFINE lo == Low(seg)  hi == High(seg)
           first == FirstRecord(seg)
           found == first # {} /\ EndOf(Min(first)) <= hi
<1>1. wal \in Seq(Records) /\ flushed \in Nat /\ Len(wal) \in Nat /\ flushed <= Len(wal)
  BY Basics DEF IInv
<1>2. /\ wal' = wal /\ flushed' = flushed
      /\ tool' = [pc |-> IF found THEN "read" ELSE "failed", seg |-> seg, out |-> <<>>,
                  at |-> IF found THEN Min(first) ELSE 0, sealed |-> EndIn(wal, flushed) >= hi]
  BY EndSpec DEF do_wal_parsing, logVars, High
<1>3. EndIn(wal, flushed) \in Nat /\ \A i \in 0..flushed : EndIn(wal, i) \in Nat
  BY <1>1, EndGrows
<1>4. seg \in Nat /\ lo \in Nat /\ hi \in Nat
  <2>1. seg \in Nat
    BY <1>3, EndSpec
  <2> QED
    BY <2>1, Bounds
<1>5. first = {i \in 1..flushed : EndIn(wal, i - 1) >= lo}
  BY EndSpec DEF FirstRecord, StartOf, Low
<1>6. first \subseteq 1..flushed /\ first \subseteq Nat
  BY <1>1, <1>5
<1>7. first # {} => Min(first) \in first /\ \A i \in first : Min(first) <= i
  BY <1>6, MinOf
<1> HIDE DEF first, lo, hi
<1>8. found => Min(first) \in 1..flushed
  BY <1>6, <1>7
<1>9. ToolTypes'
  <2>1. Min(first) \in Nat \/ ~found
    BY <1>8, <1>1
  <2>2. <<>> \in Seq(SUBSET Blocks)
    OBVIOUS
  <2> QED
    BY <2>1, <2>2, <1>2, <1>3, <1>4 DEF ToolTypes
<1>10. Settles(wal', flushed', tool')
  <2> DEFINE at == Min(first)
  <2>1. SUFFICES ASSUME EndIn(wal, flushed) >= hi
                 PROVE  Settles(wal, flushed, tool')
    BY <1>2 DEF Settles
  <2>2. tool'.seg = seg /\ Low(tool'.seg) = lo /\ High(tool'.seg) = hi
    BY <1>2 DEF lo, hi
  <2>3. CASE found
    <3>1. tool'.pc = "read" /\ tool'.at = at /\ tool'.out = <<>> /\ Len(tool'.out) = 0
      BY <2>3, <1>2
    <3>2. at \in 1..flushed /\ at \in first /\ EndIn(wal, at) <= hi /\ at \in Nat
      BY <2>3, <1>1, <1>7, <1>8, EndSpec
    <3>3. First(tool') = at
      BY <3>1, <3>2 DEF First
    <3>4. EndIn(wal, at - 1) >= lo
      BY <3>2, <1>5
    <3>5. ASSUME NEW i \in 1..(at - 1) PROVE EndIn(wal, i - 1) < lo
      <4>1. i \in 1..flushed /\ i < at /\ i - 1 \in 0..flushed
        BY <3>2, <1>1
      <4>2. i \notin first
        BY <4>1, <3>2, <2>3, <1>7, <1>6
      <4>3. ~(EndIn(wal, i - 1) >= lo)
        BY <4>1, <4>2, <1>5
      <4> QED
        BY <4>1, <4>3, <1>3, <1>4
    <3>6. EndIn(wal, at - 1) <= hi
      <4>1. at - 1 \in 0..Len(wal) /\ at \in 0..Len(wal) /\ at - 1 <= at
        BY <3>2, <1>1
      <4>2. EndIn(wal, at - 1) <= EndIn(wal, at) /\ EndIn(wal, at - 1) \in Nat /\ EndIn(wal, at) \in Nat
        BY <4>1, <1>1, EndGrows
      <4> QED
        BY <4>2, <3>2, <1>4
    <3>7. 1 <= at /\ at <= flushed /\ at <= flushed + 1
      BY <3>2, <1>1
    <3>8. Reading(wal, flushed, tool')
      <4> HIDE DEF at
      <4> QED
        BY <3>1, <3>2, <3>3, <3>4, <3>5, <3>6, <3>7, <2>2 DEF Reading
    <3> QED
      BY <3>1, <3>8, <2>1, <2>2 DEF Settles
  <2>4. CASE ~found
    <3>1. tool'.pc = "failed"
      BY <2>4, <1>2
    <3>2. ASSUME NEW i \in 1..flushed, EndIn(wal, i - 1) >= lo, EndIn(wal, i) <= hi PROVE FALSE
      <4>1. i \in first
        BY <3>2, <1>5
      <4>2. at \in first /\ at <= i /\ at \in 1..flushed /\ ~(EndIn(wal, at) <= hi)
        BY <4>1, <2>4, <1>6, <1>7, EndSpec
      <4>3. at \in 0..Len(wal) /\ i \in 0..Len(wal)
        BY <4>2, <1>1
      <4>4. EndIn(wal, at) <= EndIn(wal, i) /\ EndIn(wal, at) \in Nat /\ EndIn(wal, i) \in Nat
        BY <4>2, <4>3, <1>1, EndGrows
      <4> QED
        BY <4>2, <4>4, <3>2, <1>4
    <3>3. NoneInside(wal, flushed, tool')
      BY <3>2, <2>2 DEF NoneInside
    <3> QED
      BY <3>1, <3>3, <2>1, <2>2 DEF Settles
  <2> QED
    BY <2>3, <2>4
<1>11. tool'.pc = "read" => tool'.at >= 1
  BY <1>1, <1>2, <1>8
<1> QED
  BY <1>9, <1>10, <1>11 DEF ToolInv

LEMMA ReadStep ==
  ASSUME IInv, ToolInv, ReadRecord
  PROVE  ToolInv'
<1> DEFINE at == tool.at
<1>1. wal \in Seq(Records) /\ flushed \in Nat /\ Len(wal) \in Nat /\ flushed <= Len(wal)
  BY Basics DEF IInv
<1>2. /\ tool.pc = "read" /\ at \in Nat /\ tool.seg \in Nat /\ tool.out \in Seq(SUBSET Blocks)
      /\ Len(tool.out) \in Nat
  BY DEF ReadRecord, ToolInv, ToolTypes
<1>3. /\ at <= flushed /\ EndIn(wal, at - 1) >= Low(tool.seg) /\ EndIn(wal, at) <= High(tool.seg)
  BY EndSpec DEF ReadRecord, XLogReadRecord, Inside, StartOf, Low, High
<1>4. wal' = wal /\ flushed' = flushed
  BY DEF ReadRecord, logVars
<1>5. /\ tool'.pc = "read" /\ tool'.seg = tool.seg /\ tool'.sealed = tool.sealed /\ tool'.at = at + 1
      /\ tool'.out = Append(tool.out, DOMAIN wal[at].image)
  BY DEF ReadRecord, ToolInv, ToolTypes, extract_block_info
<1>6. tool' = [tool EXCEPT !.at = at + 1, !.out = Append(tool.out, DOMAIN wal[at].image)]
  BY DEF ReadRecord, extract_block_info
<1>7. at >= 1 /\ DOMAIN wal[at].image \in SUBSET Blocks
  <2>1. at >= 1
    BY <1>2 DEF ToolInv
  <2>2. wal[at] \in Records
    BY <2>1, <1>1, <1>2, <1>3
  <2> QED
    BY <2>1, <2>2, ImageType DEF Records
<1> HIDE DEF at
<1>8. tool'.out \in Seq(SUBSET Blocks) /\ Len(tool'.out) = Len(tool.out) + 1
  BY <1>2, <1>5, <1>7
<1>9. ToolTypes'
  <2>1. PICK next \in Nat, out \in Seq(SUBSET Blocks) : tool' = [tool EXCEPT !.at = next, !.out = out]
    <3>1. at + 1 \in Nat /\ Append(tool.out, DOMAIN wal[at].image) \in Seq(SUBSET Blocks)
      BY <1>2, <1>5, <1>8
    <3> QED
      BY <1>6, <3>1, Zenon
  <2> QED
    BY <2>1 DEF ToolTypes, ToolInv
<1>10. ASSUME tool.sealed PROVE Reading(wal, flushed, tool')
  <2>1. Reading(wal, flushed, tool)
    BY <1>2, <1>10 DEF ToolInv, Settles
  <2>2. First(tool') = First(tool) /\ First(tool) = at - Len(tool.out)
    <3>1. First(tool) = at - Len(tool.out) /\ First(tool') = tool'.at - Len(tool'.out)
      BY DEF First, at
    <3>2. (at + 1) - (Len(tool.out) + 1) = at - Len(tool.out)
      BY <1>2
    <3>3. tool'.at = at + 1 /\ Len(tool'.out) = Len(tool.out) + 1
      BY <1>5, <1>8
    <3> QED
      BY <3>1, <3>2, <3>3
  <2>3. tool'.at <= flushed + 1 /\ EndIn(wal, tool'.at - 1) <= High(tool'.seg)
    <3>1. (at + 1) - 1 = at /\ at + 1 <= flushed + 1
      BY <1>1, <1>2, <1>3
    <3> QED
      BY <3>1, <1>3, <1>5
  <2>4. ASSUME NEW k \in 1..Len(tool'.out)
        PROVE  tool'.out[k] = DOMAIN wal[First(tool') + k - 1].image
    <3>1. CASE k = Len(tool.out) + 1
      <4>1. First(tool') + k - 1 = at
        BY <3>1, <2>2, <1>2
      <4>2. tool'.out[k] = DOMAIN wal[at].image
        BY <3>1, <1>2, <1>5
      <4> QED
        BY <4>1, <4>2
    <3>2. CASE k # Len(tool.out) + 1
      <4>1. k \in 1..Len(tool.out)
        BY <3>2, <1>2, <1>8
      <4>2. tool'.out[k] = tool.out[k]
        BY <4>1, <1>2, <1>5
      <4> QED
        BY <4>1, <4>2, <2>1, <2>2 DEF Reading
    <3> QED
      BY <3>1, <3>2
  <2> QED
    BY <2>1, <2>2, <2>3, <2>4, <1>5 DEF Reading
<1>11. Settles(wal, flushed, tool')
  BY <1>2, <1>5, <1>10 DEF ToolInv, Settles
<1> QED
  BY <1>2, <1>4, <1>5, <1>7, <1>9, <1>11 DEF ToolInv

LEMMA DoneStep ==
  ASSUME IInv, ToolInv, ReadDone
  PROVE  ToolInv'
<1> DEFINE at == tool.at
<1>1. wal \in Seq(Records) /\ flushed \in Nat /\ Len(wal) \in Nat /\ flushed <= Len(wal)
  BY Basics DEF IInv
<1>2. tool.pc = "read" /\ at \in Nat /\ tool.seg \in Nat /\ Len(tool.out) \in Nat
  BY DEF ReadDone, ToolInv, ToolTypes
<1>3. ~(at <= flushed /\ EndIn(wal, at - 1) >= Low(tool.seg) /\ EndIn(wal, at) <= High(tool.seg))
  BY EndSpec DEF ReadDone, XLogReadRecord, Inside, StartOf, Low, High
<1>4. wal' = wal /\ flushed' = flushed
  BY DEF ReadDone, logVars
<1>5. /\ tool'.pc = "end" /\ tool'.seg = tool.seg /\ tool'.sealed = tool.sealed /\ tool'.at = at
      /\ tool'.out = tool.out
  BY DEF ReadDone, ToolInv, ToolTypes
<1>6. ToolTypes'
  BY DEF ToolTypes, ToolInv, ReadDone
<1>7. Low(tool.seg) \in Nat /\ High(tool.seg) \in Nat
  BY <1>2, Bounds
<1>8. ASSUME tool.sealed PROVE Reading(wal, flushed, tool') /\ Ended(wal, flushed, tool')
  <2>1. Reading(wal, flushed, tool) /\ EndIn(wal, flushed) >= High(tool.seg)
    BY <1>2, <1>8 DEF ToolInv, Settles
  <2>2. Reading(wal, flushed, tool')
    BY <2>1, <1>5 DEF Reading, First
  <2>3. First(tool) = at - Len(tool.out) /\ 1 <= First(tool) /\ at <= flushed + 1
    BY <2>1 DEF First, Reading
  <2>4. EndIn(wal, First(tool) - 1) >= Low(tool.seg)
    BY <2>1 DEF Reading
  <2> HIDE DEF at
  <2>5. CASE at > flushed
    <3>1. at - 1 = flushed
      BY <2>3, <2>5, <1>1, <1>2
    <3> QED
      BY <3>1, <2>1, <2>2, <1>5 DEF Ended
  <2>6. CASE at <= flushed
    <3>1. /\ First(tool) - 1 \in 0..Len(wal) /\ at - 1 \in 0..Len(wal) /\ at \in 0..Len(wal)
          /\ First(tool) - 1 <= at - 1
      BY <2>3, <2>6, <1>1, <1>2
    <3>2. /\ EndIn(wal, First(tool) - 1) <= EndIn(wal, at - 1) /\ EndIn(wal, at) \in Nat
          /\ EndIn(wal, First(tool) - 1) \in Nat /\ EndIn(wal, at - 1) \in Nat
      BY <3>1, <1>1, EndGrows
    <3>3. EndIn(wal, at) > High(tool.seg)
      BY <3>2, <2>4, <2>6, <1>3, <1>7
    <3> QED
      BY <3>3, <2>2, <2>6, <1>5 DEF Ended
  <2> QED
    BY <2>5, <2>6, <1>1, <1>2
<1>9. Settles(wal, flushed, tool')
  BY <1>5, <1>8 DEF ToolInv, Settles
<1> QED
  BY <1>4, <1>5, <1>6, <1>9 DEF ToolInv

LEMMA ToolNextInv == ASSUME IInv, ToolInv, [Next]_vars PROVE ToolInv'
<1>1. IInv'
  BY NextInv
<1>2. CASE Serve
  BY <1>1, <1>2, ServeKeeps, KeptSettles
<1>3. ASSUME NEW s \in Servers,
             \/ Recover(s) \/ Postmaster(s)
             \/ Crash(s) /\ KillSessions(s)
             \/ Start(s) /\ UNCHANGED <<pageVars, tool>>
      PROVE  ToolInv'
  BY <1>1, <1>3, ServerKeeps, KeptSettles
<1>4. flushed \in Nat
  BY Basics DEF IInv
<1>5. ASSUME NEW signal \in Signals, signal_rmgr(signal), UNCHANGED <<pageVars, tool>>
      PROVE  ToolInv'
  <2>1. DiskKept
    BY <1>4, <1>5 DEF signal_rmgr, DiskKept
  <2> QED
    BY <1>1, <1>5, <2>1, KeptSettles
<1>6. CASE PageNext /\ UNCHANGED tool
  BY <1>1, <1>6, PageKeeps, KeptSettles
<1>7. CASE ToolNext /\ UNCHANGED pageVars
  BY <1>7, ParsingStep, ReadStep, DoneStep DEF ToolNext
<1>8. CASE UNCHANGED vars
  <2>1. DiskKept
    BY <1>4, <1>8 DEF vars, logVars, DiskKept
  <2> QED
    BY <1>1, <1>8, <2>1, KeptSettles DEF vars
<1> QED
  BY <1>2, <1>3, <1>5, <1>6, <1>7, <1>8 DEF Next

LEMMA ToolInvariant == Spec => []ToolInv
<1>1. Init => ToolInv
  <2> SUFFICES ASSUME Init PROVE ToolInv
    OBVIOUS
  <2>1. tool = NoTool /\ <<>> \in Seq(SUBSET Blocks)
    BY DEF Init, ToolInit
  <2>2. tool.pc = "none" /\ ~tool.sealed
    BY <2>1 DEF NoTool
  <2> QED
    BY <2>1, <2>2 DEF NoTool, ToolInv, ToolTypes, Settles
<1> QED
  BY <1>1, ToolNextInv, Invariant, PTL DEF Spec

\* pg_wal_blocks prints the blocks of all the records that lie whole in a segment that
\* was full when it started, in their order, and of no other, whatever the servers do
\* while it reads; it fails only if the segment holds no whole record.
THEOREM BlocksAllReported == Spec => []BlocksReported
<1>1. ASSUME IInv, ToolInv PROVE BlocksReported
  <2> DEFINE seg == tool.seg  at == tool.at  first == at - Len(tool.out)
             lo == Low(seg)  hi == High(seg)
  <2>1. wal \in Seq(Records) /\ flushed \in Nat /\ Len(wal) \in Nat /\ flushed <= Len(wal)
    BY <1>1, Basics DEF IInv
  <2>2. seg \in Nat /\ at \in Nat /\ Len(tool.out) \in Nat /\ DOMAIN tool.out = 1..Len(tool.out)
    BY <1>1 DEF ToolInv, ToolTypes
  <2>3. lo \in Nat /\ hi \in Nat
    BY <2>2, Bounds
  <2>4. Whole(seg) = {i \in 1..Len(wal) : EndIn(wal, i - 1) >= lo /\ EndIn(wal, i) <= hi}
    BY EndSpec DEF Whole, Inside, StartOf, Low, High
  <2>5. /\ \A i \in 0..Len(wal) : EndIn(wal, i) \in Nat
        /\ \A i, j \in 0..Len(wal) : i < j => EndIn(wal, i) < EndIn(wal, j)
        /\ \A i, j \in 0..Len(wal) : i <= j => EndIn(wal, i) <= EndIn(wal, j)
    BY <2>1, EndGrows
  <2>6. ASSUME tool.sealed, tool.pc = "end"
        PROVE  /\ first = Min(Whole(seg)) /\ Len(tool.out) = Cardinality(Whole(seg))
               /\ \A n \in DOMAIN tool.out : tool.out[n] = DOMAIN wal[first + n - 1].image
    <3>1. Reading(wal, flushed, tool) /\ Ended(wal, flushed, tool) /\ First(tool) = first
      BY <1>1, <2>6 DEF ToolInv, Settles, First
    <3>2. 1 <= first /\ first <= flushed /\ at <= flushed + 1
      BY <3>1 DEF Reading
    <3>3. EndIn(wal, first - 1) >= lo /\ EndIn(wal, first) <= hi /\ EndIn(wal, at - 1) <= hi
      BY <3>1 DEF Reading
    <3>4. \A i \in 1..(first - 1) : EndIn(wal, i - 1) < lo
      BY <3>1 DEF Reading
    <3>5. EndIn(wal, at - 1) >= hi \/ (at <= flushed /\ EndIn(wal, at) > hi)
      BY <3>1 DEF Ended
    <3>6. \A n \in DOMAIN tool.out : tool.out[n] = DOMAIN wal[first + n - 1].image
      BY <3>1, <2>2 DEF Reading
    <3>7. first \in Nat /\ first <= at
      BY <3>2, <2>2
    <3>8. Len(tool.out) = at - first
      BY <2>2
    <3> HIDE DEF first, at, lo, hi, seg
    <3>9. /\ first - 1 \in 0..Len(wal) /\ first \in 0..Len(wal) /\ at - 1 \in 0..Len(wal)
          /\ first - 1 < first
      BY <3>2, <3>7, <2>1, <2>2
    <3>10. ASSUME NEW i \in at..Len(wal) PROVE EndIn(wal, i) > hi
      <4>1. i \in 0..Len(wal) /\ at - 1 < i /\ at <= i
        BY <2>1, <2>2
      <4>2. EndIn(wal, at - 1) < EndIn(wal, i) /\ EndIn(wal, i) \in Nat /\ EndIn(wal, at - 1) \in Nat
        BY <4>1, <3>9, <2>5
      <4>3. CASE EndIn(wal, at - 1) >= hi
        BY <4>2, <4>3, <2>3
      <4>4. CASE at <= flushed /\ EndIn(wal, at) > hi
        <5>1. at \in 0..Len(wal)
          BY <4>4, <2>1, <2>2
        <5>2. EndIn(wal, at) <= EndIn(wal, i) /\ EndIn(wal, at) \in Nat
          BY <5>1, <4>1, <2>5
        <5> QED
          BY <5>2, <4>2, <4>4, <2>3
      <4> QED
        BY <4>3, <4>4, <3>5
    <3>11. first < at
      <4>1. SUFFICES ASSUME first = at PROVE FALSE
        BY <3>7, <2>2
      <4>2. first \in at..Len(wal)
        BY <4>1, <3>2, <3>7, <2>1, <2>2
      <4> QED
        BY <4>2, <3>3, <3>9, <3>10, <2>3, <2>5
    <3>12. ASSUME NEW i \in first..(at - 1)
           PROVE  i \in 1..Len(wal) /\ EndIn(wal, i - 1) >= lo /\ EndIn(wal, i) <= hi
      <4>1. /\ i \in 1..Len(wal) /\ i - 1 \in 0..Len(wal) /\ i \in 0..Len(wal)
            /\ first - 1 <= i - 1 /\ i <= at - 1
        BY <3>2, <3>7, <2>1, <2>2
      <4>2. EndIn(wal, first - 1) <= EndIn(wal, i - 1) /\ EndIn(wal, i) <= EndIn(wal, at - 1)
        BY <4>1, <3>9, <2>5
      <4>3. /\ EndIn(wal, first - 1) \in Nat /\ EndIn(wal, i - 1) \in Nat /\ EndIn(wal, i) \in Nat
            /\ EndIn(wal, at - 1) \in Nat
        BY <4>1, <3>9, <2>5
      <4> QED
        BY <4>1, <4>2, <4>3, <3>3, <2>3
    <3>13. ASSUME NEW i \in 1..Len(wal), EndIn(wal, i - 1) >= lo, EndIn(wal, i) <= hi
           PROVE  i \in first..(at - 1)
      <4>1. i \in 0..Len(wal) /\ i - 1 \in 0..Len(wal)
        BY <2>1
      <4>2. EndIn(wal, i) \in Nat /\ EndIn(wal, i - 1) \in Nat
        BY <4>1, <2>5
      <4>3. i \notin at..Len(wal)
        BY <4>2, <3>10, <3>13, <2>3
      <4>4. i \notin 1..(first - 1)
        BY <4>2, <3>4, <3>13, <2>3
      <4> QED
        BY <4>3, <4>4, <3>7, <2>1, <2>2
    <3>14. Whole(seg) = first..(at - 1)
      BY <3>12, <3>13, <2>4
    <3>15. Min(first..(at - 1)) = first
      <4>1. first..(at - 1) \subseteq Nat /\ first \in first..(at - 1)
        BY <3>7, <3>11, <2>2
      <4>2. /\ Min(first..(at - 1)) \in first..(at - 1)
            /\ \A n \in first..(at - 1) : Min(first..(at - 1)) <= n
        BY <4>1, MinOf
      <4> QED
        BY <4>1, <4>2, <3>7
    <3>16. Cardinality(first..(at - 1)) = at - first
      <4>1. first \in Int /\ at - 1 \in Int /\ first <= at - 1
        BY <3>7, <3>11, <2>2
      <4>2. Cardinality(first..(at - 1)) = (at - 1) - first + 1
        BY <4>1, FS_Interval
      <4> QED
        BY <4>2, <3>7, <2>2
    <3> QED
      BY <3>6, <3>8, <3>14, <3>15, <3>16
  <2>7. ASSUME tool.sealed, tool.pc = "failed" PROVE Whole(seg) = {}
    <3>1. NoneInside(wal, flushed, tool) /\ EndIn(wal, flushed) >= hi
      BY <1>1, <2>7 DEF ToolInv, Settles
    <3>2. ASSUME NEW i \in 1..Len(wal), EndIn(wal, i - 1) >= lo, EndIn(wal, i) <= hi PROVE FALSE
      <4>1. i \notin 1..flushed
        BY <3>1, <3>2 DEF NoneInside
      <4>2. i \in 0..Len(wal) /\ flushed \in 0..Len(wal) /\ flushed < i
        BY <4>1, <2>1
      <4>3. EndIn(wal, flushed) < EndIn(wal, i) /\ EndIn(wal, i) \in Nat /\ EndIn(wal, flushed) \in Nat
        BY <4>2, <2>5
      <4> HIDE DEF hi
      <4> QED
        BY <4>3, <3>1, <3>2, <2>3
    <3> QED
      BY <3>2, <2>4
  <2> QED
    BY <2>6, <2>7 DEF BlocksReported
<1> QED
  BY <1>1, Invariant, ToolInvariant, PTL
=============================================================================

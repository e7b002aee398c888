------------------------- MODULE ReceiverRaw_proofs -------------------------
(***************************************************************************)
(* Proofs about ReceiverRaw, for every WAL, every number of transactions,  *)
(* keepalives and failures, and every way to cut the stream into batches.  *)
(***************************************************************************)
EXTENDS ReceiverRaw, SequenceTheorems, TLAPS

\* A transaction's commit record is unique and follows all its changes.
WalOK ==
  \A i, j \in 1..Len(wal) :
    wal[i].commit /\ wal[j].txn = wal[i].txn /\ j # i => ~wal[j].commit /\ j < i

\* Messages carry positions the walsender has reached, changes carry LSNs.
ChanBounded ==
  \A k \in 1..Len(chan) :
    /\ chan[k].lsn <= sentPtr
    /\ chan[k].type = "w" => chan[k].lsn >= 1

\* While a commit record is decoded, its changes are sent or still to be sent.
DecodingOK ==
  decoding =>
    /\ sentPtr <= Len(wal) /\ wal[sentPtr].commit
    /\ pending \subseteq ChangesOf(wal[sentPtr].txn)
    /\ ChangesOf(wal[sentPtr].txn)
         \subseteq pending \cup Executed \cup Flight(chan, Len(chan))

\* Outside of a batch no local transaction is open.
BatchOK == pc # "recv" => xact = <<>>

\* Every position in the system is covered by what lies ahead of it.
SentCovered == Covered(sentPtr, Len(chan))
ChanCovered == \A k \in 1..Len(chan) : Covered(chan[k].lsn, k - 1)
WorkerCovered == Covered(output_lsn, 0) /\ Covered(reply, 0) /\ Covered(confirmed, 0)

IInv ==
  /\ TypeOK /\ WalOK /\ ChanBounded /\ DecodingOK /\ BatchOK
  /\ SentCovered /\ ChanCovered /\ WorkerCovered

-----------------------------------------------------------------------------
(* The operators of the model.                                             *)

\* Complete is monotone in the set and antitone in the position.
LEMMA CompleteMonotone ==
  ASSUME NEW w, NEW S, NEW T, NEW p \in Nat, NEW q \in Nat,
         Complete(w, S, p), S \subseteq T, q <= p
  PROVE  Complete(w, T, q)
  BY DEF Complete

\* Appending a record of a transaction without commit record adds nothing to what
\* must have happened before a position of the old WAL.
LEMMA CompleteAppend ==
  ASSUME NEW w \in Seq(Record), NEW S, NEW p \in 1..(Len(w) + 1) \cup {0},
         NEW r \in Record,
         \A i \in 1..Len(w) : w[i].commit => w[i].txn # r.txn,
         Complete(w, S, p)
  PROVE  Complete(Append(w, r), S, p)
  BY DEF Complete, Record

\* A fresh local transaction has executed nothing.
LEMMA ElemsEmpty == Elems(<<>>) = {}
  BY DEF Elems

\* RecvChange adds one change to what the open transaction has executed.
LEMMA ElemsAppend ==
  ASSUME NEW T, NEW s \in Seq(T), NEW e \in T
  PROVE  Elems(Append(s, e)) = Elems(s) \cup {e}
<1>1. Len(Append(s, e)) = Len(s) + 1 /\ Len(s) \in Nat
  OBVIOUS
<1>2. \A i \in 1..Len(s) : Append(s, e)[i] = s[i]
  OBVIOUS
<1>3. Append(s, e)[Len(s) + 1] = e
  OBVIOUS
<1> QED
  BY <1>1, <1>2, <1>3 DEF Elems

\* CommitBatch neither loses nor adds a change: elements of a concatenation.
LEMMA ElemsConcat ==
  ASSUME NEW T, NEW s \in Seq(T), NEW u \in Seq(T)
  PROVE  Elems(s \o u) = Elems(s) \cup Elems(u)
<1>1. Len(s \o u) = Len(s) + Len(u) /\ Len(s) \in Nat /\ Len(u) \in Nat
  OBVIOUS
<1>2. \A i \in 1..Len(s) : (s \o u)[i] = s[i]
  OBVIOUS
<1>3. \A i \in 1..Len(u) : (s \o u)[Len(s) + i] = u[i]
  OBVIOUS
<1>4. Elems(s) \cup Elems(u) \subseteq Elems(s \o u)
  <2>1. \A i \in 1..Len(s) : i \in 1..Len(s \o u)
    BY <1>1
  <2>2. \A i \in 1..Len(u) : Len(s) + i \in 1..Len(s \o u)
    BY <1>1
  <2> QED
    BY <2>1, <2>2, <1>2, <1>3 DEF Elems
<1>5. ASSUME NEW i \in 1..Len(s \o u) PROVE (s \o u)[i] \in Elems(s) \cup Elems(u)
  <2>1. CASE i <= Len(s)
    BY <2>1, <1>1, <1>2 DEF Elems
  <2>2. CASE i > Len(s)
    <3>1. i - Len(s) \in 1..Len(u) /\ i = Len(s) + (i - Len(s))
      BY <2>2, <1>1
    <3> QED
      BY <3>1, <1>3 DEF Elems
  <2> QED
    BY <2>1, <2>2, <1>1
<1> QED
  BY <1>4, <1>5 DEF Elems

\* The position a message carries is a natural number.
LEMMA MessageLsn ==
  ASSUME NEW ch \in Seq(Message), NEW k \in 1..Len(ch)
  PROVE  ch[k].lsn \in Nat /\ k - 1 \in 0..(Len(ch) - 1)
<1>1. ch[k] \in Message
  OBVIOUS
<1>2. ch[k].lsn \in Nat
  BY <1>1 DEF Message
<1> QED
  BY <1>2

\* No message, no change in flight.
LEMMA FlightEmpty == ASSUME NEW ch PROVE Flight(ch, 0) = {}
  BY DEF Flight

\* What a message sent last leaves in flight.
LEMMA FlightAppend ==
  ASSUME NEW ch \in Seq(Message), NEW msg \in Message
  PROVE  /\ \A n \in 0..Len(ch) : Flight(Append(ch, msg), n) = Flight(ch, n)
         /\ Flight(ch, Len(ch)) \subseteq Flight(Append(ch, msg), Len(ch) + 1)
         /\ msg.type = "w" => msg.lsn \in Flight(Append(ch, msg), Len(ch) + 1)
<1>1. Len(ch) \in Nat /\ \A i \in 1..Len(ch) : Append(ch, msg)[i] = ch[i]
  OBVIOUS
<1>2. Append(ch, msg)[Len(ch) + 1] = msg
  OBVIOUS
<1>3. \A n \in 0..Len(ch) : Flight(Append(ch, msg), n) = Flight(ch, n)
  BY <1>1 DEF Flight
<1>4. Flight(ch, Len(ch)) \subseteq Flight(Append(ch, msg), Len(ch) + 1)
  BY <1>1 DEF Flight
<1>5. msg.type = "w" => msg.lsn \in Flight(Append(ch, msg), Len(ch) + 1)
  BY <1>1, <1>2 DEF Flight
<1> QED
  BY <1>3, <1>4, <1>5

\* What is still in flight once the first message is taken.
LEMMA FlightTail ==
  ASSUME NEW ch \in Seq(Message), ch # <<>>, NEW n \in 0..(Len(ch) - 1)
  PROVE  Flight(ch, n + 1) \subseteq
           Flight(Tail(ch), n) \cup (IF Head(ch).type = "w" THEN {Head(ch).lsn} ELSE {})
<1>1. Len(ch) \in Nat /\ Head(ch) = ch[1]
  OBVIOUS
<1>2. \A i \in 1..(Len(ch) - 1) : Tail(ch)[i] = ch[i + 1]
  OBVIOUS
<1>3. ASSUME NEW m \in 1..(n + 1), ch[m].type = "w", m # 1
      PROVE  ch[m].lsn \in Flight(Tail(ch), n)
  <2>1. m - 1 \in 1..n /\ m - 1 \in 1..(Len(ch) - 1) /\ (m - 1) + 1 = m
    BY <1>1, <1>3
  <2>2. Tail(ch)[m - 1] = ch[m]
    BY <2>1, <1>2
  <2> QED
    BY <2>1, <2>2, <1>3 DEF Flight
<1> QED
  BY <1>1, <1>3 DEF Flight

-----------------------------------------------------------------------------
(* The inductive invariant.                                                *)

\* Nothing is written, sent or executed at the start.
LEMMA InitInv == Init => IInv
<1> SUFFICES ASSUME Init PROVE IInv
  OBVIOUS
<1>1. TypeOK
  <2>1. wal = <<>> /\ chan = <<>> /\ xact = <<>> /\ db = <<>>
    BY DEF Init
  <2>2. wal \in Seq(Record) /\ chan \in Seq(Message) /\ xact \in Seq(Lsn) /\ db \in Seq(Lsn)
    BY <2>1
  <2>3. Len(wal) = 0 /\ Len(chan) = 0
    BY <2>1
  <2>4. DataOK
    BY <2>2, <2>3 DEF Init, DataOK, Places, Lsn
  <2>5. FlagsOK
    BY Zenon DEF Init, FlagsOK
  <2> QED
    BY <2>4, <2>5 DEF TypeOK
<1>2. WalOK /\ ChanBounded /\ DecodingOK /\ BatchOK
  BY DEF Init, WalOK, ChanBounded, DecodingOK, BatchOK
<1>3. SentCovered /\ ChanCovered /\ WorkerCovered
  BY DEF Init, SentCovered, ChanCovered, WorkerCovered, Covered, Complete
<1> QED
  BY <1>1, <1>2, <1>3 DEF IInv

\* Steps that neither write nor send nor receive: the set of executed changes may
\* grow, every position stays where it is.
LEMMA QuietStep ==
  ASSUME IInv, Executed \subseteq Executed',
         UNCHANGED <<wal, chan, sentPtr, decoding, pending, confirmed, output_lsn, reply>>
  PROVE  /\ WalOK' /\ ChanBounded' /\ DecodingOK'
         /\ SentCovered' /\ ChanCovered' /\ WorkerCovered'
<1>1. WalOK' /\ ChanBounded'
  BY DEF IInv, WalOK, ChanBounded
<1>2. DecodingOK'
  BY DEF IInv, DecodingOK, ChangesOf
<1>3. ASSUME NEW p \in Nat, NEW n \in Nat, Covered(p, n)
      PROVE  Complete(wal', Executed' \cup Flight(chan', n), p)
  BY <1>3, CompleteMonotone DEF Covered
<1>4. SentCovered'
  BY <1>3 DEF IInv, SentCovered, Covered, TypeOK, DataOK
<1>5. ChanCovered'
  <2> SUFFICES ASSUME NEW k \in 1..Len(chan)
               PROVE  Complete(wal', Executed' \cup Flight(chan', k - 1), chan[k].lsn)
    BY DEF ChanCovered, Covered
  <2>1. chan[k].lsn \in Nat /\ k - 1 \in Nat
    BY MessageLsn DEF IInv, TypeOK, DataOK
  <2>2. Covered(chan[k].lsn, k - 1)
    BY DEF IInv, ChanCovered
  <2> QED
    BY <2>1, <2>2, <1>3
<1>6. WorkerCovered'
  <2>1. WorkerCovered
    BY DEF IInv
  <2>2. output_lsn \in Nat /\ reply \in Nat /\ confirmed \in Nat
    BY DEF IInv, TypeOK, DataOK
  <2> QED
    BY <2>1, <2>2, <1>3 DEF WorkerCovered, Covered
<1> QED
  BY <1>1, <1>2, <1>4, <1>5, <1>6

\* Writing a record of an open transaction moves no position past it.
LEMMA PublisherStep ==
  ASSUME IInv, NEW r \in Record, ~Committed(r.txn),
         wal' = Append(wal, r),
         UNCHANGED <<confirmed, sentPtr, decoding, pending, connVars, workerVars, histVars>>
  PROVE  IInv'
<1> USE DEF connVars, workerVars, histVars
<1>1. /\ Len(wal) \in Nat /\ Len(wal') = Len(wal) + 1
      /\ \A i \in 1..Len(wal) : wal'[i] = wal[i]
      /\ wal'[Len(wal) + 1] = r
  BY DEF IInv, TypeOK, DataOK
<1>2. \A i \in 1..Len(wal) : wal[i].commit => wal[i].txn # r.txn
  BY DEF Committed
<1>3. TypeOK'
  <2>1. DataOK'
    BY <1>1 DEF IInv, TypeOK, DataOK
  <2>2. FlagsOK'
    BY Zenon DEF IInv, TypeOK, FlagsOK
  <2> QED
    BY <2>1, <2>2 DEF TypeOK
<1>4. WalOK'
  BY <1>1, <1>2 DEF IInv, WalOK
<1>5. ChanBounded' /\ BatchOK'
  BY DEF IInv, ChanBounded, BatchOK
<1>6. Executed' = Executed
  BY DEF Executed
<1>7. DecodingOK'
  <2> DEFINE t == wal[sentPtr].txn
  <2> SUFFICES ASSUME decoding PROVE DecodingOK'
    BY DEF DecodingOK
  <2>1. sentPtr \in 1..Len(wal) /\ wal'[sentPtr] = wal[sentPtr] /\ wal[sentPtr].commit
    BY <1>1 DEF DecodingOK, IInv, TypeOK, DataOK
  <2>2. {j \in 1..Len(wal') : ~wal'[j].commit /\ wal'[j].txn = t} = ChangesOf(t)
    BY <2>1, <1>1, <1>2 DEF ChangesOf
  <2>3. /\ pending \subseteq ChangesOf(t)
        /\ ChangesOf(t) \subseteq pending \cup Executed \cup Flight(chan, Len(chan))
    BY DEF DecodingOK, IInv
  <2>4. sentPtr <= Len(wal')
    BY <2>1, <1>1
  <2> HIDE DEF t
  <2> QED
    BY <2>1, <2>2, <2>3, <2>4, <1>6 DEF DecodingOK, ChangesOf, t
<1>8. ASSUME NEW p \in 0..(Len(wal) + 1), NEW n \in Nat, Covered(p, n)
      PROVE  Complete(wal', Executed' \cup Flight(chan', n), p)
  BY <1>8, <1>6, <1>2, CompleteAppend DEF IInv, TypeOK, DataOK, Covered
<1>0. /\ chan \in Seq(Message) /\ Len(chan) \in Nat
      /\ sentPtr \in 0..(Len(wal) + 1) /\ confirmed \in 0..(Len(wal) + 1)
      /\ reply \in 0..(Len(wal) + 1) /\ output_lsn \in 0..(Len(wal) + 1)
  BY <1>1 DEF IInv, TypeOK, DataOK
<1>9. SentCovered'
  BY <1>8, <1>0 DEF IInv, SentCovered, Covered
<1>10. ChanCovered'
  <2> SUFFICES ASSUME NEW k \in 1..Len(chan)
               PROVE  Complete(wal', Executed' \cup Flight(chan', k - 1), chan[k].lsn)
    BY DEF ChanCovered, Covered
  <2>1. chan[k].lsn \in 0..(Len(wal) + 1) /\ k - 1 \in Nat
    BY <1>0, <1>1, MessageLsn DEF IInv, ChanBounded
  <2>2. Covered(chan[k].lsn, k - 1)
    BY DEF IInv, ChanCovered
  <2> QED
    BY <2>1, <2>2, <1>8
<1>11. WorkerCovered'
  BY <1>8, <1>0 DEF IInv, WorkerCovered, Covered
<1> QED
  BY <1>3, <1>4, <1>5, <1>7, <1>9, <1>10, <1>11 DEF IInv

\* Sending a message whose position is covered by what was sent before it.
LEMMA SendStep ==
  ASSUME IInv, NEW msg \in Message, Covered(msg.lsn, Len(chan)),
         msg.lsn <= sentPtr, msg.type = "w" => msg.lsn >= 1,
         chan' = Append(chan, msg),
         UNCHANGED <<wal, sentPtr, confirmed, avail, reply, workerVars, aborted>>
  PROVE  /\ WalOK' /\ ChanBounded' /\ BatchOK'
         /\ SentCovered' /\ ChanCovered' /\ WorkerCovered'
         /\ chan' \in Seq(Message) /\ avail' \in 0..Len(chan')
<1> USE DEF workerVars
<1>1. /\ chan \in Seq(Message) /\ Len(chan) \in Nat /\ Len(chan') = Len(chan) + 1
      /\ \A k \in 1..Len(chan) : chan'[k] = chan[k]
      /\ chan'[Len(chan) + 1] = msg
      /\ avail \in 0..Len(chan)
  BY DEF IInv, TypeOK, DataOK
<1>2. chan' \in Seq(Message) /\ avail' \in 0..Len(chan')
  BY <1>1
<1>3. WalOK' /\ BatchOK'
  BY DEF IInv, WalOK, BatchOK
<1>4. ChanBounded'
  BY <1>1 DEF IInv, ChanBounded
<1>5. Executed' = Executed
  BY DEF Executed
<1>6. /\ \A n \in 0..Len(chan) : Flight(chan', n) = Flight(chan, n)
      /\ Flight(chan, Len(chan)) \subseteq Flight(chan', Len(chan) + 1)
  BY <1>1, FlightAppend
<1>7. SentCovered'
  <2>1. Complete(wal, Executed \cup Flight(chan, Len(chan)), sentPtr)
    BY DEF IInv, SentCovered, Covered
  <2>2. sentPtr \in Nat
    BY DEF IInv, TypeOK, DataOK
  <2>3. Complete(wal, Executed \cup Flight(chan', Len(chan) + 1), sentPtr)
    BY <2>1, <2>2, <1>6, CompleteMonotone
  <2> QED
    BY <2>3, <1>1, <1>5 DEF SentCovered, Covered
<1>8. ChanCovered'
  <2> SUFFICES ASSUME NEW k \in 1..(Len(chan) + 1)
               PROVE  Complete(wal, Executed \cup Flight(chan', k - 1), chan'[k].lsn)
    BY <1>1, <1>5 DEF ChanCovered, Covered
  <2>1. k - 1 \in 0..Len(chan) /\ Flight(chan', k - 1) = Flight(chan, k - 1)
    BY <1>1, <1>6
  <2>2. CASE k = Len(chan) + 1
    BY <2>1, <2>2, <1>1 DEF Covered
  <2>3. CASE k \in 1..Len(chan)
    BY <2>1, <2>3, <1>1 DEF IInv, ChanCovered, Covered
  <2> QED
    BY <2>2, <2>3, <1>1
<1>9. WorkerCovered'
  <2>1. Flight(chan', 0) = Flight(chan, 0)
    BY <1>1, <1>6
  <2> QED
    BY <2>1, <1>5 DEF IInv, WorkerCovered, Covered
<1> QED
  BY <1>2, <1>3, <1>4, <1>7, <1>8, <1>9

\* Decoding a change record skips no commit; decoding a commit record makes every
\* change of its transaction pending.
LEMMA DecodeStep == ASSUME IInv, WalSenderDecode PROVE IInv'
<1> USE DEF WalSenderDecode, connVars, workerVars, histVars
<1>1. /\ Len(wal) \in Nat /\ sentPtr \in 1..Len(wal) /\ ~decoding
      /\ chan \in Seq(Message) /\ Len(chan) \in Nat
  BY DEF IInv, TypeOK, DataOK
<1>2. Executed' = Executed
  BY DEF Executed
<1>3. WalOK' /\ BatchOK' /\ WorkerCovered' /\ ChanCovered'
  BY <1>2 DEF IInv, WalOK, BatchOK, WorkerCovered, ChanCovered, Covered
<1>4. CASE wal[sentPtr].commit
  <2>1. decoding' = TRUE /\ pending' = ChangesOf(wal[sentPtr].txn) /\ sentPtr' = sentPtr
    BY <1>4
  <2>2. TypeOK'
    <3>1. DataOK'
      BY <2>1 DEF IInv, TypeOK, DataOK, ChangesOf
    <3>2. FlagsOK'
      BY <2>1, Zenon DEF IInv, TypeOK, FlagsOK
    <3> QED
      BY <3>1, <3>2 DEF TypeOK
  <2>3. ChanBounded' /\ SentCovered'
    BY <2>1, <1>2 DEF IInv, ChanBounded, SentCovered, Covered
  <2>4. DecodingOK'
    BY <2>1, <1>1, <1>4 DEF DecodingOK, ChangesOf
  <2> QED
    BY <2>2, <2>3, <2>4, <1>3 DEF IInv
<1>5. CASE ~wal[sentPtr].commit
  <2>1. sentPtr' = sentPtr + 1 /\ UNCHANGED <<decoding, pending>>
    BY <1>5
  <2>2. TypeOK'
    <3>1. DataOK'
      BY <2>1, <1>1 DEF IInv, TypeOK, DataOK
    <3>2. FlagsOK'
      BY <2>1, Zenon DEF IInv, TypeOK, FlagsOK
    <3> QED
      BY <3>1, <3>2 DEF TypeOK
  <2>3. ChanBounded'
    <3> SUFFICES ASSUME NEW k \in 1..Len(chan) PROVE chan[k].lsn <= sentPtr + 1
      BY <2>1 DEF ChanBounded, IInv
    <3> QED
      BY <1>1, MessageLsn DEF IInv, ChanBounded
  <2>4. DecodingOK'
    BY <2>1, <1>1 DEF DecodingOK
  <2>5. SentCovered'
    <3>1. Complete(wal, Executed \cup Flight(chan, Len(chan)), sentPtr)
      BY DEF IInv, SentCovered, Covered
    <3>2. Complete(wal, Executed \cup Flight(chan, Len(chan)), sentPtr + 1)
      BY <3>1, <1>1, <1>5 DEF Complete
    <3> QED
      BY <3>2, <2>1, <1>2 DEF SentCovered, Covered
  <2> QED
    BY <2>2, <2>3, <2>4, <2>5, <1>3 DEF IInv
<1> QED
  BY <1>4, <1>5

\* A pending change that is sent is in flight instead.
LEMMA ChangeStep == ASSUME IInv, WalSenderChange PROVE IInv'
<1>1. PICK j \in pending :
        /\ chan' = Append(chan, [type |-> "w", lsn |-> j, replyRequested |-> FALSE])
        /\ pending' = pending \ {j}
  BY DEF WalSenderChange, Send
<1> DEFINE msg == [type |-> "w", lsn |-> j, replyRequested |-> FALSE]
<1>2. UNCHANGED <<wal, confirmed, sentPtr, decoding, avail, reply, workerVars, histVars>>
  BY DEF WalSenderChange
<1>3. /\ decoding /\ sentPtr \in 1..Len(wal) /\ wal[sentPtr].commit
      /\ pending \subseteq ChangesOf(wal[sentPtr].txn)
      /\ ChangesOf(wal[sentPtr].txn) \subseteq pending \cup Executed \cup Flight(chan, Len(chan))
      /\ chan \in Seq(Message) /\ Len(chan) \in Nat /\ Len(wal) \in Nat
  BY DEF IInv, DecodingOK, TypeOK, DataOK, WalSenderChange
<1>4. j \in 1..Len(wal) /\ j < sentPtr
  BY <1>3 DEF IInv, WalOK, ChangesOf
<1>5. msg \in Message /\ msg.lsn = j /\ msg.type = "w"
  BY <1>4, <1>3 DEF Message
<1>6. Covered(j, Len(chan))
  BY <1>3, <1>4, CompleteMonotone DEF IInv, SentCovered, Covered
<1>7. /\ WalOK' /\ ChanBounded' /\ BatchOK'
      /\ SentCovered' /\ ChanCovered' /\ WorkerCovered'
      /\ chan' \in Seq(Message) /\ avail' \in 0..Len(chan')
  <2> HIDE DEF msg
  <2>1. chan' = Append(chan, msg)
    BY <1>1 DEF msg
  <2> QED
    BY <2>1, <1>2, <1>3, <1>4, <1>5, <1>6, SendStep DEF histVars
<1>8. DecodingOK'
  <2>1. Executed' = Executed
    BY <1>2 DEF Executed, workerVars, histVars
  <2>2. Len(chan') = Len(chan) + 1
    BY <1>1, <1>3
  <2>3. /\ Flight(chan, Len(chan)) \subseteq Flight(chan', Len(chan'))
        /\ j \in Flight(chan', Len(chan'))
    <3> HIDE DEF msg
    <3>1. chan' = Append(chan, msg)
      BY <1>1 DEF msg
    <3> QED
      BY <3>1, <2>2, <1>3, <1>5, FlightAppend
  <2>4. ChangesOf(wal[sentPtr].txn) \subseteq pending' \cup Executed' \cup Flight(chan', Len(chan'))
    BY <2>1, <2>3, <1>1, <1>3
  <2>5. pending' \subseteq ChangesOf(wal[sentPtr].txn)
    BY <1>1, <1>3
  <2> QED
    BY <2>4, <2>5, <1>2, <1>3 DEF DecodingOK, ChangesOf
<1>9. TypeOK'
  <2>1. DataOK'
    BY <1>1, <1>2, <1>7 DEF IInv, TypeOK, DataOK, workerVars, histVars
  <2>2. FlagsOK'
    BY <1>2, Zenon DEF IInv, TypeOK, FlagsOK, workerVars
  <2> QED
    BY <2>1, <2>2 DEF TypeOK
<1> QED
  BY <1>7, <1>8, <1>9 DEF IInv

\* sentPtr passes a commit record only when all its changes have been sent.
LEMMA DoneStep == ASSUME IInv, WalSenderDone PROVE IInv'
<1> USE DEF WalSenderDone, connVars, workerVars, histVars
<1>1. /\ decoding /\ pending = {} /\ sentPtr \in 1..Len(wal) /\ wal[sentPtr].commit
      /\ ChangesOf(wal[sentPtr].txn) \subseteq Executed \cup Flight(chan, Len(chan))
      /\ chan \in Seq(Message) /\ Len(wal) \in Nat
  BY DEF IInv, DecodingOK, TypeOK, DataOK
<1>2. Executed' = Executed
  BY DEF Executed
<1>3. WalOK' /\ BatchOK' /\ WorkerCovered' /\ ChanCovered'
  BY <1>2 DEF IInv, WalOK, BatchOK, WorkerCovered, ChanCovered, Covered
<1>4. TypeOK'
  <2>1. DataOK'
    BY <1>1 DEF IInv, TypeOK, DataOK
  <2>2. FlagsOK'
    BY Zenon DEF IInv, TypeOK, FlagsOK
  <2> QED
    BY <2>1, <2>2 DEF TypeOK
<1>5. ChanBounded'
  <2> SUFFICES ASSUME NEW k \in 1..Len(chan) PROVE chan[k].lsn <= sentPtr + 1
    BY DEF ChanBounded, IInv
  <2> QED
    BY <1>1, MessageLsn DEF IInv, ChanBounded
<1>6. DecodingOK'
  BY DEF DecodingOK
<1>7. SentCovered'
  <2>1. Complete(wal, Executed \cup Flight(chan, Len(chan)), sentPtr)
    BY DEF IInv, SentCovered, Covered
  <2>2. Complete(wal, Executed \cup Flight(chan, Len(chan)), sentPtr + 1)
    BY <2>1, <1>1 DEF Complete, ChangesOf
  <2> QED
    BY <2>2, <1>2 DEF SentCovered, Covered
<1> QED
  BY <1>3, <1>4, <1>5, <1>6, <1>7 DEF IInv

\* A keepalive carries sentPtr, the end of the stream carries nothing.
LEMMA KeepaliveOrEndStep ==
  ASSUME IInv, WalSenderEnd \/ \E requested \in BOOLEAN : WalSenderKeepalive(requested)
  PROVE  IInv'
<1>1. PICK msg \in Message :
        /\ chan' = Append(chan, msg) /\ msg.type # "w"
        /\ msg.lsn = sentPtr \/ msg.lsn = 0
  <2>1. CASE WalSenderEnd
    <3> DEFINE m == [type |-> "end", lsn |-> 0, replyRequested |-> FALSE]
    <3>1. m \in Message /\ m.type # "w" /\ m.lsn = 0
      BY DEF Message
    <3>2. chan' = Append(chan, m)
      BY <2>1 DEF WalSenderEnd, Send
    <3> QED
      BY <3>1, <3>2
  <2>2. CASE \E requested \in BOOLEAN : WalSenderKeepalive(requested)
    <3>1. PICK requested \in BOOLEAN : WalSenderKeepalive(requested)
      BY <2>2
    <3> DEFINE m == [type |-> "k", lsn |-> sentPtr, replyRequested |-> requested]
    <3>2. sentPtr \in Nat
      BY DEF IInv, TypeOK, DataOK
    <3>3. m \in Message /\ m.type # "w" /\ m.lsn = sentPtr
      BY <3>2 DEF Message
    <3>4. chan' = Append(chan, m)
      BY <3>1 DEF WalSenderKeepalive, Send
    <3> QED
      BY <3>3, <3>4
  <2> QED
    BY <2>1, <2>2
<1>2. /\ UNCHANGED <<pubVars, avail, reply, workerVars, aborted, start, base, failures>>
      /\ keepalives' \in Nat
  <2>1. keepalives \in Nat
    BY DEF IInv, TypeOK, DataOK
  <2>2. CASE WalSenderEnd
    BY <2>1, <2>2 DEF WalSenderEnd, histVars
  <2>3. CASE \E requested \in BOOLEAN : WalSenderKeepalive(requested)
    BY <2>1, <2>3 DEF WalSenderKeepalive
  <2> QED
    BY <2>2, <2>3
<1>3. /\ sentPtr \in Nat /\ sentPtr >= 1 /\ chan \in Seq(Message) /\ Len(chan) \in Nat
  BY DEF IInv, TypeOK, DataOK
<1>4. Covered(msg.lsn, Len(chan)) /\ msg.lsn <= sentPtr
  BY <1>1, <1>3, CompleteMonotone DEF IInv, SentCovered, Covered
<1>5. /\ WalOK' /\ ChanBounded' /\ BatchOK'
      /\ SentCovered' /\ ChanCovered' /\ WorkerCovered'
      /\ chan' \in Seq(Message) /\ avail' \in 0..Len(chan')
  BY <1>1, <1>2, <1>4, SendStep DEF pubVars
<1>6. DecodingOK'
  <2>1. Executed' = Executed
    BY <1>2 DEF Executed, workerVars
  <2>2. Flight(chan, Len(chan)) \subseteq Flight(chan', Len(chan'))
    BY <1>1, <1>3, FlightAppend
  <2> QED
    BY <2>1, <2>2, <1>2 DEF IInv, DecodingOK, ChangesOf, pubVars
<1>7. TypeOK'
  <2>1. DataOK'
    BY <1>2, <1>5 DEF IInv, TypeOK, DataOK, pubVars, workerVars
  <2>2. FlagsOK'
    BY <1>2, Zenon DEF IInv, TypeOK, FlagsOK, pubVars, workerVars
  <2> QED
    BY <2>1, <2>2 DEF TypeOK
<1> QED
  BY <1>5, <1>6, <1>7 DEF IInv

\* The slot takes over a position the worker has sent, or keeps its own.
LEMMA ConfirmStep == ASSUME IInv, SlotConfirm PROVE IInv'
<1> USE DEF SlotConfirm, workerVars, histVars
<1>1. Executed' = Executed
  BY DEF Executed
<1>2. confirmed' = confirmed \/ confirmed' = reply
  BY DEF Max2
<1>3. DataOK'
  BY DEF IInv, TypeOK, DataOK, Max2
<1>4. FlagsOK'
  BY Zenon DEF IInv, TypeOK, FlagsOK
<1>5. WalOK' /\ ChanBounded' /\ BatchOK'
  BY DEF IInv, WalOK, ChanBounded, BatchOK
<1>6. DecodingOK'
  BY <1>1 DEF IInv, DecodingOK, ChangesOf
<1>7. SentCovered' /\ ChanCovered'
  BY <1>1 DEF IInv, SentCovered, ChanCovered, Covered
<1>8. Complete(wal, Executed \cup Flight(chan, 0), 0)
  BY CompleteMonotone DEF IInv, WorkerCovered, Covered, TypeOK, DataOK
<1>9. WorkerCovered'
  BY <1>1, <1>2, <1>8 DEF IInv, WorkerCovered, Covered
<1> QED
  BY <1>3, <1>4, <1>5, <1>6, <1>7, <1>9 DEF IInv, TypeOK

\* A new connection forgets what was in flight and resumes at the slot's position.
LEMMA StartStep == ASSUME IInv, Start PROVE IInv'
<1> USE DEF Start
<1>1. chan' = <<>> /\ xact' = <<>> /\ Len(chan') = 0 /\ xact = <<>>
  BY DEF IInv, BatchOK
<1>2. Executed' = Executed
  BY <1>1 DEF Executed
<1>3. DataOK'
  <2>1. chan' \in Seq(Message) /\ xact' \in Seq(Lsn) /\ Len(db) \in Nat
    BY <1>1 DEF IInv, TypeOK, DataOK
  <2> QED
    BY <2>1, <1>1 DEF IInv, TypeOK, DataOK, Places, Lsn
<1>4. FlagsOK'
  BY Zenon DEF FlagsOK
<1>5. WalOK' /\ BatchOK' /\ DecodingOK'
  BY DEF IInv, WalOK, BatchOK, DecodingOK
<1>6. ChanBounded' /\ ChanCovered'
  BY <1>1 DEF ChanBounded, ChanCovered
<1>7. Flight(chan, 0) = {} /\ Flight(chan', 0) = {}
  BY FlightEmpty
<1>8. SentCovered'
  BY <1>1, <1>2, <1>7 DEF IInv, SentCovered, WorkerCovered, Covered
<1>9. WorkerCovered'
  <2>1. Complete(wal, Executed \cup Flight(chan, 0), 0)
    BY CompleteMonotone DEF IInv, WorkerCovered, Covered, TypeOK, DataOK
  <2> QED
    BY <2>1, <1>2, <1>7 DEF IInv, WorkerCovered, Covered
<1> QED
  BY <1>3, <1>4, <1>5, <1>6, <1>8, <1>9 DEF IInv, TypeOK

\* Taking the first message: the positions of the worker become that of the
\* message, which was covered by what had been executed already.
LEMMA RecvStep ==
  ASSUME IInv, avail > 0, Consume, AdvanceTo(Head(chan).lsn),
         reply' = reply \/ reply' = output_lsn',
         Executed \subseteq Executed',
         Head(chan).type = "w" => Head(chan).lsn \in Executed',
         UNCHANGED <<pubVars, got_sigterm>>
  PROVE  /\ WalOK' /\ ChanBounded' /\ DecodingOK' /\ FlagsOK'
         /\ SentCovered' /\ ChanCovered' /\ WorkerCovered'
         /\ chan' \in Seq(Message) /\ avail' \in 0..Len(chan')
         /\ output_lsn' \in 0..(Len(wal) + 1)
         /\ reply' \in 0..(Len(wal) + 1)
<1> USE DEF pubVars
<1>1. /\ chan \in Seq(Message) /\ chan # <<>> /\ Len(chan) \in Nat /\ Len(chan) >= 1
      /\ avail \in 1..Len(chan) /\ Len(wal) \in Nat
  BY DEF IInv, TypeOK, DataOK
<1>2. /\ chan' = Tail(chan) /\ avail' = avail - 1 /\ Head(chan) = chan[1]
      /\ Len(chan') = Len(chan) - 1 /\ chan' \in Seq(Message)
      /\ \A k \in 1..(Len(chan) - 1) : chan'[k] = chan[k + 1]
  BY <1>1 DEF Consume
<1>3. /\ Head(chan).lsn \in 0..(Len(wal) + 1)
      /\ Covered(Head(chan).lsn, 0)
  <2>1. chan[1].lsn \in Nat /\ chan[1].lsn <= sentPtr
    BY <1>1, MessageLsn DEF IInv, ChanBounded
  <2>2. sentPtr \in 1..(Len(wal) + 1)
    BY DEF IInv, TypeOK, DataOK
  <2>3. Covered(chan[1].lsn, 1 - 1)
    BY <1>1 DEF IInv, ChanCovered
  <2> QED
    BY <2>1, <2>2, <2>3, <1>1, <1>2
<1>4. /\ output_lsn' = output_lsn \/ output_lsn' = Head(chan).lsn
      /\ output_lsn' \in 0..(Len(wal) + 1)
      /\ reply' \in 0..(Len(wal) + 1)
  BY <1>3 DEF AdvanceTo, Max2, IInv, TypeOK, DataOK
<1>5. WalOK' /\ FlagsOK'
  <2>1. WalOK'
    BY DEF IInv, WalOK
  <2>2. FlagsOK'
    BY Zenon DEF IInv, TypeOK, FlagsOK
  <2> QED
    BY <2>1, <2>2
<1>6. ChanBounded'
  BY <1>1, <1>2 DEF IInv, ChanBounded
<1>7. ASSUME NEW n \in 0..(Len(chan) - 1)
      PROVE  Executed \cup Flight(chan, n + 1) \subseteq Executed' \cup Flight(chan', n)
  BY <1>1, <1>2, FlightTail
<1>8. Executed \cup Flight(chan, Len(chan)) \subseteq Executed' \cup Flight(chan', Len(chan'))
  <2>1. Len(chan) - 1 \in 0..(Len(chan) - 1) /\ (Len(chan) - 1) + 1 = Len(chan)
    BY <1>1
  <2> QED
    BY <2>1, <1>2, <1>7
<1>9. DecodingOK'
  BY <1>8 DEF IInv, DecodingOK, ChangesOf
<1>10. SentCovered'
  <2>1. sentPtr \in Nat
    BY DEF IInv, TypeOK, DataOK
  <2> QED
    BY <2>1, <1>8, CompleteMonotone DEF IInv, SentCovered, Covered
<1>11. ChanCovered'
  <2> SUFFICES ASSUME NEW k \in 1..(Len(chan) - 1)
               PROVE  Complete(wal, Executed' \cup Flight(chan', k - 1), chan[k + 1].lsn)
    BY <1>1, <1>2 DEF ChanCovered, Covered
  <2>1. k + 1 \in 1..Len(chan) /\ k - 1 \in 0..(Len(chan) - 1) /\ (k + 1) - 1 = (k - 1) + 1
    BY <1>1
  <2>2. chan[k + 1].lsn \in Nat
    BY <2>1, <1>1, MessageLsn
  <2>3. Complete(wal, Executed \cup Flight(chan, (k - 1) + 1), chan[k + 1].lsn)
    BY <2>1 DEF IInv, ChanCovered, Covered
  <2>4. Executed \cup Flight(chan, (k - 1) + 1) \subseteq Executed' \cup Flight(chan', k - 1)
    BY <2>1, <1>7
  <2> QED
    BY <2>2, <2>3, <2>4, CompleteMonotone
<1>12. WorkerCovered'
  <2>1. Flight(chan, 0) = {} /\ Flight(chan', 0) = {}
    BY FlightEmpty
  <2>2. ASSUME NEW p \in Nat, Covered(p, 0)
        PROVE  Complete(wal, Executed' \cup Flight(chan', 0), p)
    BY <2>1, <2>2, CompleteMonotone DEF Covered
  <2>3. output_lsn \in Nat /\ reply \in Nat /\ confirmed \in Nat
    BY DEF IInv, TypeOK, DataOK
  <2>4. Complete(wal, Executed' \cup Flight(chan', 0), output_lsn')
    <3>1. Head(chan).lsn \in Nat
      BY <1>3
    <3>2. Complete(wal, Executed' \cup Flight(chan', 0), Head(chan).lsn)
      BY <3>1, <2>2, <1>3
    <3>3. Complete(wal, Executed' \cup Flight(chan', 0), output_lsn)
      BY <2>2, <2>3 DEF IInv, WorkerCovered
    <3> QED
      BY <3>2, <3>3, <1>4
  <2>5. Complete(wal, Executed' \cup Flight(chan', 0), reply)
    BY <2>2, <2>3 DEF IInv, WorkerCovered
  <2>6. Complete(wal, Executed' \cup Flight(chan', 0), confirmed)
    BY <2>2, <2>3 DEF IInv, WorkerCovered
  <2> QED
    BY <2>4, <2>5, <2>6 DEF WorkerCovered, Covered
<1> QED
  BY <1>1, <1>2, <1>4, <1>5, <1>6, <1>9, <1>10, <1>11, <1>12

\* The reply to a keepalive carries the position the worker has reached.
LEMMA KeepaliveStep == ASSUME IInv, RecvKeepalive PROVE IInv'
<1>1. /\ avail > 0 /\ Consume /\ AdvanceTo(Head(chan).lsn) /\ Head(chan).type = "k"
      /\ reply' = reply \/ reply' = output_lsn'
      /\ UNCHANGED <<pubVars, pc, got_sigterm, xact, db, histVars>>
  BY DEF RecvKeepalive, sendFeedback
<1>2. Executed' = Executed
  BY <1>1 DEF Executed, histVars
<1>3. /\ WalOK' /\ ChanBounded' /\ DecodingOK' /\ FlagsOK'
      /\ SentCovered' /\ ChanCovered' /\ WorkerCovered'
      /\ chan' \in Seq(Message) /\ avail' \in 0..Len(chan')
      /\ output_lsn' \in 0..(Len(wal) + 1)
      /\ reply' \in 0..(Len(wal) + 1)
  BY <1>1, <1>2, RecvStep
<1>4. DataOK'
  BY <1>1, <1>3 DEF IInv, TypeOK, DataOK, pubVars, histVars
<1>5. BatchOK'
  BY <1>1 DEF IInv, BatchOK
<1> QED
  BY <1>3, <1>4, <1>5 DEF IInv, TypeOK

\* A change taken from the stream is executed in the open transaction.
LEMMA ApplyStep == ASSUME IInv, RecvChange PROVE IInv'
<1>1. /\ pc = "recv" /\ avail > 0 /\ Consume /\ AdvanceTo(Head(chan).lsn)
      /\ Head(chan).type = "w" /\ xact' = Append(xact, Head(chan).lsn)
      /\ UNCHANGED <<pubVars, reply, pc, got_sigterm, db, histVars>>
  BY DEF RecvChange
<1>2. Head(chan).lsn \in Lsn /\ xact \in Seq(Lsn)
  <2>1. chan \in Seq(Message) /\ 1 \in 1..Len(chan) /\ Head(chan) = chan[1] /\ xact \in Seq(Lsn)
    BY <1>1 DEF IInv, TypeOK, DataOK
  <2>2. chan[1].lsn \in Nat /\ chan[1].lsn >= 1
    BY <2>1, <1>1, MessageLsn DEF IInv, ChanBounded
  <2> QED
    BY <2>1, <2>2 DEF Lsn
<1>3. Elems(xact') = Elems(xact) \cup {Head(chan).lsn}
  BY <1>1, <1>2, ElemsAppend
<1>4. Executed \subseteq Executed' /\ Head(chan).lsn \in Executed'
  BY <1>1, <1>3 DEF Executed, histVars
<1>5. /\ WalOK' /\ ChanBounded' /\ DecodingOK' /\ FlagsOK'
      /\ SentCovered' /\ ChanCovered' /\ WorkerCovered'
      /\ chan' \in Seq(Message) /\ avail' \in 0..Len(chan')
      /\ output_lsn' \in 0..(Len(wal) + 1)
      /\ reply' \in 0..(Len(wal) + 1)
  BY <1>1, <1>4, RecvStep
<1>6. xact' \in Seq(Lsn)
  BY <1>1, <1>2
<1>7. DataOK'
  BY <1>1, <1>5, <1>6 DEF IInv, TypeOK, DataOK, pubVars, histVars
<1>8. BatchOK'
  BY <1>1 DEF BatchOK
<1> QED
  BY <1>5, <1>7, <1>8 DEF IInv, TypeOK

\* Committing the batch moves its changes from the open transaction to the
\* database.
LEMMA CommitKeeps ==
  ASSUME IInv, CommitBatch, aborted' = aborted
  PROVE  Executed' = Executed /\ db' \in Seq(Lsn) /\ xact' \in Seq(Lsn) /\ BatchOK'
<1>1. db \in Seq(Lsn) /\ xact \in Seq(Lsn) /\ xact' = <<>> /\ db' = db \o xact
  BY DEF IInv, TypeOK, DataOK, CommitBatch
<1>2. Elems(db') = Elems(db) \cup Elems(xact) /\ Elems(xact') = {}
  BY <1>1, ElemsConcat, ElemsEmpty
<1>3. db' \in Seq(Lsn) /\ xact' \in Seq(Lsn)
  BY <1>1
<1> QED
  BY <1>1, <1>2, <1>3 DEF Executed, BatchOK

\* The worker's steps that leave the stream alone, and the stuttering step.
LEMMA LocalStep ==
  ASSUME IInv,
         \/ LoopTop \/ BatchEnd \/ StreamEnd \/ StreamFailure \/ SelectTimeout
         \/ SelectData \/ receiver_raw_sigterm \/ WorkerFails \/ UNCHANGED vars
  PROVE  IInv'
<1> USE DEF pubVars, connVars, workerVars, histVars
<1>1. UNCHANGED <<wal, chan, sentPtr, decoding, pending, confirmed, output_lsn, reply>>
  BY DEF LoopTop, BatchEnd, StreamEnd, StreamFailure, SelectTimeout, SelectData,
         receiver_raw_sigterm, WorkerFails, vars
<1>2. FlagsOK'
  <2>1. got_sigterm' = got_sigterm \/ got_sigterm' = TRUE
    BY DEF LoopTop, BatchEnd, StreamEnd, StreamFailure, SelectTimeout, SelectData,
           receiver_raw_sigterm, WorkerFails, vars
  <2>2. decoding' = decoding
    BY <1>1
  <2> QED
    BY <2>1, <2>2, Zenon DEF IInv, TypeOK, FlagsOK
<1>3. CASE BatchEnd \/ StreamEnd \/ StreamFailure
  <2>1. /\ CommitBatch /\ pc' \in Places /\ failures' \in Nat
        /\ UNCHANGED <<avail, aborted, start, base, keepalives>>
    <3>1. failures \in Nat
      BY DEF IInv, TypeOK, DataOK
    <3> QED
      BY <3>1, <1>3 DEF BatchEnd, StreamEnd, StreamFailure, Places
  <2>2. Executed' = Executed /\ db' \in Seq(Lsn) /\ xact' \in Seq(Lsn) /\ BatchOK'
    BY <2>1, CommitKeeps
  <2>3. DataOK'
    BY <2>1, <2>2, <1>1 DEF IInv, TypeOK, DataOK
  <2> QED
    BY <2>2, <2>3, <1>1, <1>2, QuietStep DEF IInv, TypeOK
<1>4. CASE \/ LoopTop \/ SelectTimeout \/ SelectData \/ receiver_raw_sigterm \/ UNCHANGED vars
  <2>1. /\ avail' \in 0..Len(chan) /\ pc' \in Places
        /\ UNCHANGED <<xact, db, aborted, start, base, keepalives, failures>>
    BY <1>4, SMTT(20) DEF LoopTop, SelectTimeout, SelectData, receiver_raw_sigterm, vars, Places,
                IInv, TypeOK, DataOK
  <2>2. Executed' = Executed
    BY <2>1 DEF Executed
  <2>3. BatchOK'
    BY <1>4 DEF LoopTop, SelectTimeout, SelectData, receiver_raw_sigterm, vars, IInv, BatchOK
  <2>4. DataOK'
    BY <2>1, <1>1 DEF IInv, TypeOK, DataOK
  <2> QED
    BY <2>2, <2>3, <2>4, <1>1, <1>2, QuietStep DEF IInv, TypeOK
<1>5. CASE WorkerFails
  <2>1. /\ pc' \in Places /\ failures' \in Nat /\ xact' = <<>>
        /\ aborted' = aborted \cup Elems(xact)
        /\ UNCHANGED <<avail, db, start, base, keepalives>>
    BY <1>5 DEF WorkerFails, Places, IInv, TypeOK, DataOK
  <2>2. Executed' = Executed
    BY <2>1, ElemsEmpty DEF Executed
  <2>3. BatchOK' /\ xact' \in Seq(Lsn)
    BY <2>1 DEF BatchOK
  <2>4. aborted' \subseteq Lsn
    BY <2>1 DEF Elems, IInv, TypeOK, DataOK
  <2>5. DataOK'
    BY <2>1, <2>3, <2>4, <1>1 DEF IInv, TypeOK, DataOK
  <2> QED
    BY <2>2, <2>3, <2>5, <1>1, <1>2, QuietStep DEF IInv, TypeOK
<1> QED
  BY <1>3, <1>4, <1>5

\* Every step keeps the inductive invariant, action by action.
LEMMA NextInv == IInv /\ [Next]_vars => IInv'
<1> SUFFICES ASSUME IInv, [Next]_vars PROVE IInv'
  OBVIOUS
<1>1. CASE Publisher
  <2>1. PICK t \in Txns : PublisherChange(t) \/ PublisherCommit(t)
    BY <1>1 DEF Publisher
  <2>2. PICK c \in BOOLEAN :
          /\ ~Committed(t) /\ wal' = Append(wal, [txn |-> t, commit |-> c])
          /\ UNCHANGED <<confirmed, sentPtr, decoding, pending, connVars, workerVars, histVars>>
    BY <2>1 DEF PublisherChange, PublisherCommit
  <2>3. [txn |-> t, commit |-> c] \in Record /\ [txn |-> t, commit |-> c].txn = t
    BY DEF Record
  <2> QED
    BY <2>2, <2>3, PublisherStep
<1>2. CASE WalSender
  BY <1>2, DecodeStep, ChangeStep, DoneStep, KeepaliveOrEndStep, ConfirmStep DEF WalSender
<1>3. CASE WorkerStep
  BY <1>3, LocalStep, KeepaliveStep, ApplyStep DEF WorkerStep
<1>4. CASE Start
  BY <1>4, StartStep
<1>5. CASE \/ receiver_raw_sigterm \/ StreamFailure \/ WorkerFails \/ UNCHANGED vars
  BY <1>5, LocalStep
<1> QED
  BY <1>1, <1>2, <1>3, <1>4, <1>5 DEF Next

\* The inductive invariant holds throughout.
LEMMA Invariant == Spec => []IInv
  BY InitInv, NextInv, PTL DEF Spec

-----------------------------------------------------------------------------
(* Theorems.                                                               *)

\* The variables of the worker, the slot and the stream keep their types; libpq
\* holds no more than was sent and no position passes the end of the WAL.
THEOREM TypeCorrect == Spec => []TypeOK
<1>1. IInv => TypeOK
  BY DEF IInv
<1> QED
  BY <1>1, Invariant, PTL

\* What sendFeedback confirms, and so what the slot forgets, has been run through
\* SPI_execute by the worker, in whatever batches, restarts and failures.
THEOREM ConfirmedWasExecutedTheorem == Spec => []ConfirmedWasExecuted
<1>1. IInv => ConfirmedWasExecuted
  BY DEF IInv, WorkerCovered, ConfirmedWasExecuted
<1> QED
  BY <1>1, Invariant, PTL

\* A transaction the slot has confirmed can be missing from the local database
\* between two batches only when a local transaction was aborted.
THEOREM LossOnlyByAbortTheorem == Spec => []LossOnlyByAbort
<1>1. ASSUME IInv, aborted = {}, pc \in {"down", "loop"}
      PROVE  \A i \in 1..Len(wal) : wal[i].commit /\ i < confirmed =>
               ChangesOf(wal[i].txn) \subseteq Elems(db)
  <2>1. Executed = Elems(db)
    BY <1>1, ElemsEmpty DEF IInv, BatchOK, Executed
  <2>2. Complete(wal, Elems(db), confirmed)
    BY <2>1, <1>1, FlightEmpty DEF IInv, WorkerCovered, Covered
  <2> QED
    BY <2>2 DEF Complete, ChangesOf
<1>2. IInv => LossOnlyByAbort
  BY <1>1 DEF LossOnlyByAbort, ConfirmedIsReplayed
<1> QED
  BY <1>2, Invariant, PTL

-----------------------------------------------------------------------------
(* ReceiverRaw implements Replica.  Beyond IInv this needs that changes in *)
(* flight are in commit order without a gap.                               *)

\* A change in flight finds executed, or in flight ahead of it, all that comes
\* before it in commit order.
ChanReady ==
  \A m \in 1..Len(chan) :
    chan[m].type = "w" => R!Ready(wal, Executed \cup Flight(chan, m - 1), chan[m].lsn)

-----------------------------------------------------------------------------
(* The operators of Replica.                                               *)

\* The two modules mean the same by a complete prefix.
LEMMA SameComplete ==
  ASSUME NEW w, NEW S, NEW p PROVE R!Complete(w, S, p) <=> Complete(w, S, p)
  BY DEF Complete, R!Complete

\* Executing more never makes a change unready.
LEMMA ReadyMonotone ==
  ASSUME NEW w, NEW S, NEW T, NEW j, R!Ready(w, S, j), S \subseteq T
  PROVE  R!Ready(w, T, j)
  BY DEF R!Ready, R!Complete

\* Nor does a record of a transaction that has not committed.
LEMMA ReadyAppend ==
  ASSUME NEW w \in Seq(Record), NEW S, NEW j, NEW r \in Record,
         \A i \in 1..Len(w) : w[i].commit => w[i].txn # r.txn,
         R!Ready(w, S, j)
  PROVE  R!Ready(Append(w, r), S, j)
<1> DEFINE v == Append(w, r)
<1>1. /\ Len(w) \in Nat /\ Len(v) = Len(w) + 1
      /\ \A i \in 1..Len(w) : v[i] = w[i]
  OBVIOUS
<1>2. j \in 1..Len(w) /\ ~w[j].commit
  BY DEF R!Ready
<1>3. PICK b \in 1..Len(w) : w[b].commit /\ w[b].txn = w[j].txn /\ R!Complete(w, S, b)
  BY DEF R!Ready
<1>4. Complete(v, S, b)
  BY <1>1, <1>3, SameComplete, CompleteAppend
<1>5. v[b] = w[b] /\ v[j] = w[j] /\ b \in 1..Len(v) /\ j \in 1..Len(v)
  BY <1>1, <1>2, <1>3
<1>6. \A k \in 1..(j - 1) : v[k] = w[k]
  BY <1>1, <1>2
<1>7. \A k \in 1..(j - 1) : ~v[k].commit /\ v[k].txn = v[j].txn => k \in S
  BY <1>5, <1>6 DEF R!Ready
<1>8. R!Complete(v, S, b)
  BY <1>4, SameComplete
<1> HIDE DEF v
<1>9. R!Ready(v, S, j)
  BY <1>2, <1>3, <1>5, <1>7, <1>8 DEF R!Ready
<1> QED
  BY <1>9 DEF v

-----------------------------------------------------------------------------
(* Changes in flight are ready in their turn.                              *)

\* A message other than a change leaves the changes in flight as they are.
LEMMA ReadySend ==
  ASSUME IInv, ChanReady, NEW msg \in Message,
         msg.type = "w" => R!Ready(wal, Executed \cup Flight(chan, Len(chan)), msg.lsn),
         chan' = Append(chan, msg), wal' = wal, Executed' = Executed
  PROVE  ChanReady'
<1>1. /\ chan \in Seq(Message) /\ Len(chan) \in Nat /\ Len(chan') = Len(chan) + 1
      /\ \A m \in 1..Len(chan) : chan'[m] = chan[m]
      /\ chan'[Len(chan) + 1] = msg
  BY DEF IInv, TypeOK, DataOK
<1>2. \A n \in 0..Len(chan) : Flight(chan', n) = Flight(chan, n)
  BY <1>1, FlightAppend
<1> SUFFICES ASSUME NEW m \in 1..(Len(chan) + 1), chan'[m].type = "w"
             PROVE  R!Ready(wal, Executed \cup Flight(chan', m - 1), chan'[m].lsn)
  BY <1>1 DEF ChanReady
<1>3. m - 1 \in 0..Len(chan)
  BY <1>1
<1>4. CASE m = Len(chan) + 1
  <2>1. m - 1 = Len(chan) /\ chan'[m] = msg
    BY <1>1, <1>4
  <2> QED
    BY <2>1, <1>2, <1>3
<1>5. CASE m \in 1..Len(chan)
  BY <1>1, <1>2, <1>3, <1>5 DEF ChanReady
<1> QED
  BY <1>1, <1>4, <1>5

\* The walsender sends the first pending change of the transaction it decodes:
\* earlier transactions and earlier changes of this one have been sent.
LEMMA ReadyChange == ASSUME IInv, ChanReady, WalSenderChange PROVE ChanReady'
<1>1. PICK j \in pending :
        /\ \A k \in pending : j <= k
        /\ chan' = Append(chan, [type |-> "w", lsn |-> j, replyRequested |-> FALSE])
  BY DEF WalSenderChange, Send
<1> DEFINE msg == [type |-> "w", lsn |-> j, replyRequested |-> FALSE]
<1> DEFINE S == Executed \cup Flight(chan, Len(chan))
<1>2. /\ sentPtr \in 1..Len(wal) /\ wal[sentPtr].commit /\ Len(wal) \in Nat
      /\ pending \subseteq ChangesOf(wal[sentPtr].txn)
      /\ ChangesOf(wal[sentPtr].txn) \subseteq pending \cup S
      /\ Complete(wal, S, sentPtr)
  BY DEF IInv, DecodingOK, TypeOK, DataOK, WalSenderChange, SentCovered, Covered
<1>3. j \in 1..Len(wal) /\ ~wal[j].commit /\ wal[j].txn = wal[sentPtr].txn
  BY <1>2 DEF ChangesOf
<1> HIDE DEF S
<1>4. \A k \in 1..(j - 1) : ~wal[k].commit /\ wal[k].txn = wal[j].txn => k \in S
  <2> SUFFICES ASSUME NEW k \in 1..(j - 1), ~wal[k].commit, wal[k].txn = wal[j].txn
               PROVE  k \in S
    OBVIOUS
  <2>1. k \in ChangesOf(wal[sentPtr].txn) /\ k < j
    BY <1>2, <1>3 DEF ChangesOf
  <2>2. k \notin pending
    BY <2>1, <1>1, <1>2, <1>3
  <2> QED
    BY <2>1, <2>2, <1>2
<1>5. R!Complete(wal, S, sentPtr)
  BY <1>2, SameComplete
<1>6. R!Ready(wal, S, j)
  BY <1>2, <1>3, <1>4, <1>5 DEF R!Ready
<1>7. msg \in Message /\ msg.lsn = j
  BY <1>3, <1>2 DEF Message
<1>8. wal' = wal /\ Executed' = Executed
  BY DEF WalSenderChange, Executed, workerVars, histVars
<1> HIDE DEF msg
<1>9. chan' = Append(chan, msg)
  BY <1>1 DEF msg
<1> QED
  BY <1>6, <1>7, <1>8, <1>9, ReadySend DEF S

\* Taking the first message leaves the others ready if it is executed.
LEMMA ReadyTail ==
  ASSUME IInv, ChanReady, avail > 0, chan' = Tail(chan), wal' = wal,
         Executed \subseteq Executed',
         Head(chan).type = "w" => Head(chan).lsn \in Executed'
  PROVE  ChanReady'
<1>1. /\ chan \in Seq(Message) /\ chan # <<>> /\ Len(chan) \in Nat /\ Len(chan) >= 1
      /\ Len(chan') = Len(chan) - 1
      /\ \A k \in 1..(Len(chan) - 1) : chan'[k] = chan[k + 1]
  BY DEF IInv, TypeOK, DataOK
<1> SUFFICES ASSUME NEW m \in 1..(Len(chan) - 1), chan[m + 1].type = "w"
             PROVE  R!Ready(wal, Executed' \cup Flight(chan', m - 1), chan[m + 1].lsn)
  BY <1>1 DEF ChanReady
<1>2. m + 1 \in 1..Len(chan) /\ m - 1 \in 0..(Len(chan) - 1) /\ (m + 1) - 1 = (m - 1) + 1
  BY <1>1
<1>3. Executed \cup Flight(chan, (m - 1) + 1) \subseteq Executed' \cup Flight(chan', m - 1)
  BY <1>1, <1>2, FlightTail
<1>4. R!Ready(wal, Executed \cup Flight(chan, (m - 1) + 1), chan[m + 1].lsn)
  BY <1>2 DEF ChanReady
<1> QED
  BY <1>3, <1>4, ReadyMonotone

\* Steps that leave the stream alone.
LEMMA ReadyQuiet ==
  ASSUME ChanReady, UNCHANGED <<chan, wal>>, Executed' = Executed PROVE ChanReady'
  BY DEF ChanReady

\* RecvChange adds exactly the first message's change to the open transaction.
LEMMA ApplyExecutes ==
  ASSUME IInv, RecvChange PROVE Elems(xact') = Elems(xact) \cup {Head(chan).lsn}
<1>1. /\ chan \in Seq(Message) /\ 1 \in 1..Len(chan) /\ Head(chan) = chan[1]
      /\ xact \in Seq(Lsn) /\ chan[1].type = "w"
  BY DEF IInv, TypeOK, DataOK, RecvChange
<1>2. chan[1].lsn \in Nat /\ chan[1].lsn >= 1
  BY <1>1, MessageLsn DEF IInv, ChanBounded
<1>3. Head(chan).lsn \in Lsn
  BY <1>1, <1>2 DEF Lsn
<1> QED
  BY <1>1, <1>3, ElemsAppend DEF RecvChange

\* Every step keeps the changes in flight ready in their turn.
LEMMA NextReady == IInv /\ ChanReady /\ [Next]_vars => ChanReady'
<1> SUFFICES ASSUME IInv, ChanReady, [Next]_vars PROVE ChanReady'
  OBVIOUS
<1> USE DEF pubVars, connVars, workerVars, histVars
<1>1. CASE Publisher
  <2>1. PICK t \in Txns : PublisherChange(t) \/ PublisherCommit(t)
    BY <1>1 DEF Publisher
  <2>2. PICK c \in BOOLEAN :
          /\ ~Committed(t) /\ wal' = Append(wal, [txn |-> t, commit |-> c])
          /\ UNCHANGED <<chan, xact, db, aborted>>
    BY <2>1 DEF PublisherChange, PublisherCommit
  <2> DEFINE r == [txn |-> t, commit |-> c]
  <2>3. r \in Record /\ r.txn = t
    BY DEF Record
  <2>4. \A i \in 1..Len(wal) : wal[i].commit => wal[i].txn # r.txn
    BY <2>2, <2>3 DEF Committed
  <2>5. Executed' = Executed /\ wal \in Seq(Record)
    BY <2>2 DEF Executed, IInv, TypeOK, DataOK
  <2> HIDE DEF r
  <2>6. wal' = Append(wal, r)
    BY <2>2 DEF r
  <2>7. ASSUME NEW m \in 1..Len(chan), chan[m].type = "w"
        PROVE  R!Ready(wal', Executed \cup Flight(chan, m - 1), chan[m].lsn)
    <3>1. R!Ready(wal, Executed \cup Flight(chan, m - 1), chan[m].lsn)
      BY <2>7 DEF ChanReady
    <3> QED
      BY <3>1, <2>3, <2>4, <2>5, <2>6, ReadyAppend
  <2> QED
    BY <2>2, <2>5, <2>7 DEF ChanReady
<1>2. CASE WalSenderChange
  BY <1>2, ReadyChange
<1>3. CASE WalSenderEnd
  <2> DEFINE m == [type |-> "end", lsn |-> 0, replyRequested |-> FALSE]
  <2>1. m \in Message /\ m.type # "w"
    BY DEF Message
  <2>2. wal' = wal /\ Executed' = Executed
    BY <1>3 DEF WalSenderEnd, Executed
  <2>3. chan' = Append(chan, m)
    BY <1>3 DEF WalSenderEnd, Send
  <2> HIDE DEF m
  <2> QED
    BY <2>1, <2>2, <2>3, ReadySend
<1>4. CASE \E requested \in BOOLEAN : WalSenderKeepalive(requested)
  <2>1. PICK requested \in BOOLEAN : WalSenderKeepalive(requested)
    BY <1>4
  <2> DEFINE m == [type |-> "k", lsn |-> sentPtr, replyRequested |-> requested]
  <2>2. sentPtr \in Nat
    BY DEF IInv, TypeOK, DataOK
  <2>3. m \in Message /\ m.type # "w"
    BY <2>2 DEF Message
  <2>4. wal' = wal /\ Executed' = Executed
    BY <2>1 DEF WalSenderKeepalive, Executed
  <2>5. chan' = Append(chan, m)
    BY <2>1 DEF WalSenderKeepalive, Send
  <2> HIDE DEF m
  <2> QED
    BY <2>3, <2>4, <2>5, ReadySend
<1>5. CASE RecvKeepalive
  <2>1. /\ avail > 0 /\ chan' = Tail(chan) /\ wal' = wal /\ Head(chan).type = "k"
        /\ UNCHANGED <<xact, db, aborted>>
    BY <1>5 DEF RecvKeepalive, Consume
  <2>2. Executed' = Executed
    BY <2>1 DEF Executed
  <2> QED
    BY <2>1, <2>2, ReadyTail
<1>6. CASE RecvChange
  <2>1. /\ avail > 0 /\ chan' = Tail(chan) /\ wal' = wal
        /\ xact' = Append(xact, Head(chan).lsn) /\ UNCHANGED <<db, aborted>>
    BY <1>6 DEF RecvChange, Consume
  <2>2. Elems(xact') = Elems(xact) \cup {Head(chan).lsn}
    BY <1>6, ApplyExecutes
  <2>3. Executed \subseteq Executed' /\ Head(chan).lsn \in Executed'
    BY <2>1, <2>2 DEF Executed
  <2> QED
    BY <2>1, <2>3, ReadyTail
<1>7. CASE Start
  <2>1. Len(chan') = 0
    BY <1>7 DEF Start
  <2> QED
    BY <2>1 DEF ChanReady
<1>8. CASE BatchEnd \/ StreamEnd \/ StreamFailure
  <2>1. UNCHANGED <<chan, wal>> /\ CommitBatch /\ aborted' = aborted
    BY <1>8 DEF BatchEnd, StreamEnd, StreamFailure
  <2> QED
    BY <2>1, CommitKeeps, ReadyQuiet
<1>9. CASE WorkerFails
  <2>1. /\ UNCHANGED <<chan, wal, db>> /\ xact' = <<>>
        /\ aborted' = aborted \cup Elems(xact)
    BY <1>9 DEF WorkerFails
  <2>2. Executed' = Executed
    BY <2>1, ElemsEmpty DEF Executed
  <2> QED
    BY <2>1, <2>2, ReadyQuiet
<1>10. CASE \/ WalSenderDecode \/ WalSenderDone \/ SlotConfirm \/ LoopTop \/ SelectTimeout
            \/ SelectData \/ receiver_raw_sigterm \/ UNCHANGED vars
  <2>1. UNCHANGED <<chan, wal, xact, db, aborted>>
    BY <1>10 DEF WalSenderDecode, WalSenderDone, SlotConfirm, LoopTop, SelectTimeout,
                 SelectData, receiver_raw_sigterm, vars
  <2>2. Executed' = Executed
    BY <2>1 DEF Executed
  <2> QED
    BY <2>1, <2>2, ReadyQuiet
<1> QED
  BY <1>1, <1>2, <1>3, <1>4, <1>5, <1>6, <1>7, <1>8, <1>9, <1>10
     DEF Next, WalSender, WorkerStep

-----------------------------------------------------------------------------
(* The simulation.                                                         *)

\* The worker and its publisher start as the abstract replica does.
LEMMA InitSimulates == Init => R!Init /\ ChanReady
<1> SUFFICES ASSUME Init PROVE R!Init /\ ChanReady
  OBVIOUS
<1>1. Elems(xact) = {} /\ Elems(db) = {}
  BY ElemsEmpty DEF Init
<1>2. R!Init
  BY <1>1 DEF Init, R!Init
<1>3. ChanReady
  BY DEF Init, ChanReady
<1> QED
  BY <1>2, <1>3

\* Each step is a step of the abstract replica or leaves it alone: a change taken
\* from the stream is executed, the end of a batch commits or aborts what is open,
\* a status update confirms, and everything else is invisible.
LEMMA NextSimulates == IInv /\ ChanReady /\ [Next]_vars => [R!Next]_(R!replicaVars)
<1> SUFFICES ASSUME IInv, ChanReady, [Next]_vars
             PROVE  R!Next \/ UNCHANGED R!replicaVars
  OBVIOUS
<1> USE DEF pubVars, connVars, workerVars, histVars
<1>1. CASE Publisher
  <2>1. PICK t \in Txns : PublisherChange(t) \/ PublisherCommit(t)
    BY <1>1 DEF Publisher
  <2>2. PICK c \in BOOLEAN :
          /\ ~Committed(t) /\ wal' = Append(wal, [txn |-> t, commit |-> c])
          /\ UNCHANGED <<confirmed, xact, db, aborted>>
    BY <2>1 DEF PublisherChange, PublisherCommit
  <2>3. R!Publish(t, c)
    BY <2>2 DEF R!Publish, Committed
  <2> QED
    BY <2>3 DEF R!Next
<1>2. CASE RecvChange
  <2> DEFINE j == Head(chan).lsn
  <2>1. /\ avail > 0 /\ Head(chan).type = "w" /\ UNCHANGED <<wal, db, aborted, confirmed>>
    BY <1>2 DEF RecvChange
  <2>2. /\ chan \in Seq(Message) /\ 1 \in 1..Len(chan) /\ Head(chan) = chan[1]
    BY <2>1 DEF IInv, TypeOK, DataOK
  <2>3. R!Ready(wal, Executed \cup Flight(chan, 1 - 1), j)
    BY <2>1, <2>2 DEF ChanReady
  <2>4. Flight(chan, 1 - 1) = {}
    BY FlightEmpty
  <2>5. R!executed = Executed \cup Flight(chan, 1 - 1)
    BY <2>4 DEF R!executed, Executed
  <2>6. Elems(xact') = Elems(xact) \cup {j}
    BY <1>2, ApplyExecutes
  <2>7. R!Ready(wal, R!executed, j)
    BY <2>3, <2>5
  <2>8. R!Execute(j)
    BY <2>1, <2>6, <2>7 DEF R!Execute
  <2>9. j \in 1..Len(wal)
    BY <2>7 DEF R!Ready
  <2> QED
    BY <2>8, <2>9 DEF R!Next
<1>3. CASE BatchEnd \/ StreamEnd \/ StreamFailure
  <2>1. UNCHANGED <<wal, aborted, confirmed>> /\ db' = db \o xact /\ xact' = <<>>
    BY <1>3 DEF BatchEnd, StreamEnd, StreamFailure, CommitBatch
  <2>2. Elems(db') = Elems(db) \cup Elems(xact) /\ Elems(xact') = {}
    BY <2>1, ElemsConcat, ElemsEmpty DEF IInv, TypeOK, DataOK
  <2>3. R!CommitLocal
    BY <2>1, <2>2 DEF R!CommitLocal
  <2> QED
    BY <2>3 DEF R!Next
<1>4. CASE WorkerFails
  <2>1. /\ UNCHANGED <<wal, db, confirmed>> /\ xact' = <<>>
        /\ aborted' = aborted \cup Elems(xact)
    BY <1>4 DEF WorkerFails
  <2>2. R!AbortLocal
    BY <2>1, ElemsEmpty DEF R!AbortLocal
  <2> QED
    BY <2>2 DEF R!Next
<1>5. CASE SlotConfirm
  <2>1. UNCHANGED <<wal, xact, db, aborted>> /\ confirmed' = Max2(confirmed, reply)
    BY <1>5 DEF SlotConfirm
  <2>2. /\ confirmed \in Nat /\ reply \in 0..(Len(wal) + 1) /\ Len(wal) \in Nat
        /\ Complete(wal, Executed \cup Flight(chan, 0), reply)
    BY DEF IInv, TypeOK, DataOK, WorkerCovered, Covered
  <2>3. CASE reply > confirmed
    <3>1. Executed \cup Flight(chan, 0) = R!executed
      BY FlightEmpty DEF R!executed, Executed
    <3>2. R!Complete(wal, R!executed, reply)
      BY <3>1, <2>2, SameComplete
    <3>3. confirmed' = reply /\ reply \in 1..(Len(wal) + 1)
      BY <2>1, <2>2, <2>3 DEF Max2
    <3>4. R!Confirm(reply)
      BY <3>2, <3>3, <2>1, <2>3 DEF R!Confirm
    <3> QED
      BY <3>3, <3>4 DEF R!Next
  <2>4. CASE ~(reply > confirmed)
    <3>1. confirmed' = confirmed
      BY <2>1, <2>2, <2>4 DEF Max2
    <3> QED
      BY <3>1, <2>1 DEF R!replicaVars
  <2> QED
    BY <2>3, <2>4
<1>6. CASE Start
  <2>1. xact' = <<>> /\ xact = <<>> /\ UNCHANGED <<wal, db, aborted, confirmed>>
    BY <1>6 DEF Start, IInv, BatchOK
  <2> QED
    BY <2>1 DEF R!replicaVars
<1>7. CASE \/ WalSenderDecode \/ WalSenderChange \/ WalSenderDone \/ WalSenderEnd
           \/ (\E requested \in BOOLEAN : WalSenderKeepalive(requested))
           \/ LoopTop \/ RecvKeepalive \/ SelectTimeout \/ SelectData
           \/ receiver_raw_sigterm \/ UNCHANGED vars
  <2>1. UNCHANGED <<wal, xact, db, aborted, confirmed>>
    BY <1>7 DEF WalSenderDecode, WalSenderChange, WalSenderDone, WalSenderEnd,
                WalSenderKeepalive, LoopTop, RecvKeepalive, SelectTimeout, SelectData,
                receiver_raw_sigterm, vars
  <2> QED
    BY <2>1 DEF R!replicaVars
<1> QED
  BY <1>1, <1>2, <1>3, <1>4, <1>5, <1>6, <1>7 DEF Next, WalSender, WorkerStep

\* receiver_raw, with its walsender, its connection, its batches and its restarts,
\* implements the abstract replica.
THEOREM Refinement == Spec => ImplementsReplica
<1>1. Init => R!Init /\ IInv /\ ChanReady
  BY InitInv, InitSimulates
<1>2. IInv /\ ChanReady /\ [Next]_vars => IInv' /\ ChanReady'
  BY NextInv, NextReady
<1> QED
  BY <1>1, <1>2, NextSimulates, PTL DEF Spec, ImplementsReplica, R!Spec

-----------------------------------------------------------------------------
(* One connection: changes are executed in commit order, once each.        *)

\* Record b commits change j.
Commits(w, b, j) ==
  /\ b \in 1..Len(w) /\ j \in 1..Len(w)
  /\ w[b].commit /\ ~w[j].commit /\ w[b].txn = w[j].txn

\* The changes of the transaction that record b commits, and of all that commit from one
\* position up to another.
OfCommit(w, b) == {k \in 1..Len(w) : Commits(w, b, k)}
Due(w, from, p) == {k \in 1..Len(w) : \E a \in from..(p - 1) : Commits(w, a, k)}

\* S is what a connection that started at the position has to do before the change j.
InTurn(w, from, S, j) ==
  \E b \in from..Len(w) : Commits(w, b, j) /\ S = Due(w, from, b) \cup {k \in OfCommit(w, b) : k < j}

First(s, n) == {s[m] : m \in 1..n}

\* What the connection has executed, each change in its turn.
ExecutedInTurn == \A n \in 1..Len(Session) : InTurn(wal, start, First(Session, n - 1), Session[n])

\* What is in flight will be executed in its turn too.
SentInTurn ==
  \A m \in 1..Len(chan) :
    chan[m].type = "w" => InTurn(wal, start, Elems(Session) \cup Flight(chan, m - 1), chan[m].lsn)

\* All that was sent is what committed since the start of the connection, and of the
\* transaction being decoded the first changes.
SentIsDue ==
  LET sent == Elems(Session) \cup Flight(chan, Len(chan))
  IN /\ start <= sentPtr
     /\ ~decoding => sent = Due(wal, start, sentPtr)
     /\ decoding =>
          /\ sent = Due(wal, start, sentPtr) \cup (OfCommit(wal, sentPtr) \ pending)
          /\ \A k \in OfCommit(wal, sentPtr) \ pending : \A p \in pending : k < p

SessionInv ==
  /\ base <= Len(db) /\ ExecutedInTurn
  /\ Connected => SentInTurn /\ SentIsDue

\* A record of a transaction that has not committed changes nothing of this.
LEMMA TurnAppend ==
  ASSUME NEW w \in Seq(Record), NEW r \in Record,
         \A i \in 1..Len(w) : w[i].commit => w[i].txn # r.txn
  PROVE  LET v == Append(w, r)
         IN /\ \A b \in 1..Len(w) : OfCommit(v, b) = OfCommit(w, b)
            /\ \A from \in Lsn : \A p \in 1..(Len(w) + 1) : Due(v, from, p) = Due(w, from, p)
            /\ \A from \in Lsn : \A S, j : InTurn(w, from, S, j) => InTurn(v, from, S, j)
<1> DEFINE v == Append(w, r)
<1>1. /\ Len(w) \in Nat /\ Len(v) = Len(w) + 1 /\ v[Len(w) + 1] = r
      /\ \A i \in 1..Len(w) : v[i] = w[i]
  OBVIOUS
<1> HIDE DEF v
<1>2. ASSUME NEW b \in 1..Len(w), NEW k PROVE Commits(v, b, k) <=> Commits(w, b, k)
  <2>1. CASE k \in 1..Len(w)
    BY <2>1, <1>1, <1>2 DEF Commits
  <2>2. CASE k = Len(w) + 1
    BY <2>2, <1>1, <1>2 DEF Commits
  <2> QED
    BY <2>1, <2>2, <1>1, <1>2 DEF Commits
<1>3. \A b \in 1..Len(w) : OfCommit(v, b) = OfCommit(w, b)
  BY <1>2 DEF OfCommit, Commits
<1>4. ASSUME NEW from \in Lsn, NEW p \in 1..(Len(w) + 1) PROVE Due(v, from, p) = Due(w, from, p)
  <2>1. \A a \in from..(p - 1) : a \in 1..Len(w)
    BY <1>1, <1>4 DEF Lsn
  <2> QED
    BY <2>1, <1>2 DEF Due, Commits
<1>5. ASSUME NEW from \in Lsn, NEW S, NEW j, InTurn(w, from, S, j) PROVE InTurn(v, from, S, j)
  <2>1. PICK b \in from..Len(w) :
          Commits(w, b, j) /\ S = Due(w, from, b) \cup {k \in OfCommit(w, b) : k < j}
    BY <1>5 DEF InTurn
  <2>2. b \in 1..Len(w) /\ b \in from..Len(v) /\ b \in 1..(Len(w) + 1)
    BY <1>1 DEF Lsn
  <2> QED
    BY <2>1, <2>2, <1>2, <1>3, <1>4 DEF InTurn
<1> QED
  BY <1>3, <1>4, <1>5 DEF v

\* The changes of the connection by their place.
LEMMA SessionPlaces ==
  ASSUME NEW d \in Seq(Lsn), NEW x \in Seq(Lsn), NEW n \in Nat, n <= Len(d)
  PROVE  LET s == SubSeq(d, n + 1, Len(d)) \o x
         IN /\ s \in Seq(Lsn) /\ Len(s) = (Len(d) - n) + Len(x)
            /\ \A i \in 1..(Len(d) - n) : s[i] = d[n + i]
            /\ \A i \in 1..Len(x) : s[(Len(d) - n) + i] = x[i]
<1> DEFINE t == SubSeq(d, n + 1, Len(d))
<1>1. Len(d) \in Nat /\ Len(x) \in Nat
  OBVIOUS
<1>2. t \in Seq(Lsn) /\ Len(t) = Len(d) - n /\ \A i \in 1..(Len(d) - n) : t[i] = d[n + i]
  <2>1. Len(t) = Len(d) - n
    BY <1>1
  <2>2. \A i \in (n + 1)..Len(d) : d[i] \in Lsn
    BY <1>1
  <2>3. t \in Seq(Lsn)
    BY <1>1, <2>2
  <2>4. \A i \in 1..(Len(d) - n) : t[i] = d[n + i]
    BY <1>1
  <2> QED
    BY <2>1, <2>3, <2>4
<1> HIDE DEF t
<1>3. t \o x \in Seq(Lsn) /\ Len(t \o x) = Len(t) + Len(x)
  BY <1>2, ConcatProperties
<1>4. \A i \in 1..Len(t) : (t \o x)[i] = t[i]
  BY <1>2
<1>5. \A i \in 1..Len(x) : (t \o x)[Len(t) + i] = x[i]
  BY <1>2
<1>6. \A i \in 1..(Len(d) - n) : (t \o x)[i] = d[n + i]
  BY <1>2, <1>4
<1>7. \A i \in 1..Len(x) : (t \o x)[(Len(d) - n) + i] = x[i]
  BY <1>2, <1>5
<1>8. Len(t \o x) = (Len(d) - n) + Len(x)
  BY <1>2, <1>3
<1> QED
  BY <1>3, <1>6, <1>7, <1>8 DEF t

\* A sequence by its places.
LEMMA FirstAppend ==
  ASSUME NEW s \in Seq(Lsn), NEW e \in Lsn
  PROVE  /\ \A n \in 0..Len(s) : First(Append(s, e), n) = First(s, n)
         /\ First(s, Len(s)) = Elems(s)
<1>1. Len(s) \in Nat /\ \A i \in 1..Len(s) : Append(s, e)[i] = s[i]
  OBVIOUS
<1> QED
  BY <1>1 DEF First, Elems

\* What the first message taken away was carrying.
LEMMA FlightAfterHead ==
  ASSUME NEW ch \in Seq(Message), ch # <<>>, NEW n \in 0..(Len(ch) - 1)
  PROVE  Flight(ch, n + 1) =
           Flight(Tail(ch), n) \cup (IF Head(ch).type = "w" THEN {Head(ch).lsn} ELSE {})
<1>1. Len(ch) \in Nat /\ Head(ch) = ch[1] /\ Len(Tail(ch)) = Len(ch) - 1
  OBVIOUS
<1>2. \A i \in 1..(Len(ch) - 1) : Tail(ch)[i] = ch[i + 1]
  OBVIOUS
<1> DEFINE rest == Tail(ch)
<1>3. \A i \in 1..n : rest[i] = ch[i + 1] /\ i + 1 \in 1..(n + 1)
  BY <1>1, <1>2
<1> HIDE DEF rest
<1>4. Flight(rest, n) \subseteq Flight(ch, n + 1)
  BY <1>3 DEF Flight
<1>5. Head(ch).type = "w" => Head(ch).lsn \in Flight(ch, n + 1)
  BY <1>1 DEF Flight
<1> QED
  BY <1>4, <1>5, FlightTail DEF rest

\* Steps that leave the stream and what was executed alone.
LEMMA SessionQuiet ==
  ASSUME SessionInv, UNCHANGED <<wal, start, base, chan, sentPtr, decoding, pending>>,
         Session' = Session, Connected' => Connected, base' <= Len(db')
  PROVE  SessionInv'
<1>1. ExecutedInTurn'
  BY DEF SessionInv, ExecutedInTurn
<1>2. SentInTurn => SentInTurn'
  BY DEF SentInTurn
<1>3. SentIsDue => SentIsDue'
  BY DEF SentIsDue
<1> QED
  BY <1>1, <1>2, <1>3 DEF SessionInv

\* The record is one of a transaction that has not committed.
LEMMA SessionPublish ==
  ASSUME IInv, SessionInv, NEW r \in Record, ~Committed(r.txn), wal' = Append(wal, r),
         UNCHANGED <<start, base, chan, sentPtr, decoding, pending, db, xact, pc>>
  PROVE  SessionInv'
<1>1. /\ wal \in Seq(Record) /\ start \in Lsn /\ sentPtr \in 1..(Len(wal) + 1)
      /\ decoding => sentPtr \in 1..Len(wal)
  BY DEF IInv, TypeOK, DataOK, DecodingOK
<1>2. /\ \A b \in 1..Len(wal) : OfCommit(wal', b) = OfCommit(wal, b)
      /\ \A p \in 1..(Len(wal) + 1) : Due(wal', start, p) = Due(wal, start, p)
      /\ \A S, j : InTurn(wal, start, S, j) => InTurn(wal', start, S, j)
  BY <1>1, TurnAppend DEF Committed
<1>3. Session' = Session /\ (Connected' <=> Connected)
  BY DEF Session, Connected
<1>4. ExecutedInTurn'
  BY <1>2, <1>3 DEF SessionInv, ExecutedInTurn
<1>5. SentInTurn => SentInTurn'
  BY <1>2, <1>3 DEF SentInTurn
<1>6. SentIsDue => SentIsDue'
  BY <1>1, <1>2, <1>3 DEF SentIsDue
<1> QED
  BY <1>3, <1>4, <1>5, <1>6 DEF SessionInv

\* Nothing is due yet where a connection starts.
LEMMA NothingDue == ASSUME NEW w, NEW p \in Nat PROVE Due(w, p, p) = {}
<1>1. ASSUME NEW a \in Int, p <= a, a <= p - 1 PROVE FALSE
  BY <1>1
<1>2. \A a : a \notin p..(p - 1)
  BY <1>1
<1> QED
  BY <1>2 DEF Due

\* A connection starts with nothing done at the slot's position.
LEMMA SessionStart == ASSUME IInv, Start PROVE SessionInv'
<1>1. /\ db \in Seq(Lsn) /\ Len(db) \in Nat /\ sentPtr' = start' /\ start' \in Nat
      /\ ~decoding' /\ chan' = <<>> /\ base' = Len(db') /\ db' = db /\ xact' = <<>>
  BY DEF Start, IInv, TypeOK, DataOK
<1>2. Session' = <<>>
  <2>1. SubSeq(db, Len(db) + 1, Len(db)) = <<>>
    BY <1>1
  <2> QED
    BY <2>1, <1>1 DEF Session
<1>3. Elems(Session') = {} /\ Flight(chan', 0) = {} /\ Len(chan') = 0 /\ Len(Session') = 0
  BY <1>1, <1>2, FlightEmpty, ElemsEmpty
<1>4. Due(wal', start', sentPtr') = {}
  BY <1>1, NothingDue
<1>5. SentIsDue'
  BY <1>1, <1>3, <1>4 DEF SentIsDue
<1>6. SentInTurn' /\ ExecutedInTurn'
  BY <1>3 DEF SentInTurn, ExecutedInTurn
<1> QED
  BY <1>1, <1>5, <1>6 DEF SessionInv

\* The walsender decodes a record: one that commits nothing makes nothing due.
LEMMA SessionDecode == ASSUME IInv, SessionInv, WalSenderDecode PROVE SessionInv'
<1> USE DEF connVars, workerVars, histVars
<1>1. /\ Len(wal) \in Nat /\ sentPtr \in 1..Len(wal) /\ ~decoding /\ start \in Lsn
      /\ SentInTurn /\ SentIsDue
      /\ UNCHANGED <<wal, chan, start, base, db, xact, pc>>
  BY DEF WalSenderDecode, StreamOpen, IInv, TypeOK, DataOK, SessionInv
<1>2. Session' = Session
  BY <1>1 DEF Session
<1>3. SentInTurn' /\ ExecutedInTurn'
  BY <1>1, <1>2 DEF SessionInv, SentInTurn, ExecutedInTurn
<1>4. CASE wal[sentPtr].commit
  <2>1. decoding' /\ sentPtr' = sentPtr /\ pending' = ChangesOf(wal[sentPtr].txn)
    BY <1>4 DEF WalSenderDecode
  <2>2. OfCommit(wal, sentPtr) = ChangesOf(wal[sentPtr].txn)
    BY <1>1, <1>4 DEF OfCommit, Commits, ChangesOf
  <2>3. SentIsDue'
    BY <1>1, <1>2, <2>1, <2>2 DEF SentIsDue
  <2> QED
    BY <1>1, <1>3, <2>3 DEF SessionInv
<1>5. CASE ~wal[sentPtr].commit
  <2>1. ~decoding' /\ sentPtr' = sentPtr + 1
    BY <1>1, <1>5 DEF WalSenderDecode
  <2>2. \A k : ~Commits(wal, sentPtr, k)
    BY <1>5 DEF Commits
  <2>3. start <= sentPtr /\ start \in Nat
    BY <1>1 DEF SentIsDue, Lsn
  <2>4. \A a \in start..((sentPtr + 1) - 1) : a \in start..(sentPtr - 1) \/ a = sentPtr
    BY <1>1, <2>3
  <2>5. \A a \in start..(sentPtr - 1) : a \in start..((sentPtr + 1) - 1)
    BY <1>1, <2>3
  <2>6. Due(wal, start, sentPtr + 1) = Due(wal, start, sentPtr)
    BY <2>2, <2>4, <2>5 DEF Due
  <2>7. SentIsDue'
    BY <1>1, <1>2, <2>1, <2>3, <2>6 DEF SentIsDue
  <2> QED
    BY <1>1, <1>3, <2>7 DEF SessionInv
<1> QED
  BY <1>4, <1>5

\* All changes of the transaction have been sent: it is done.
LEMMA SessionDone == ASSUME IInv, SessionInv, WalSenderDone PROVE SessionInv'
<1> USE DEF connVars, workerVars, histVars
<1>1. /\ Len(wal) \in Nat /\ sentPtr \in 1..Len(wal) /\ decoding /\ pending = {} /\ start \in Lsn
      /\ ~decoding' /\ sentPtr' = sentPtr + 1 /\ SentInTurn /\ SentIsDue
      /\ UNCHANGED <<wal, chan, start, base, db, xact, pc>>
  BY DEF WalSenderDone, StreamOpen, IInv, TypeOK, DataOK, DecodingOK, SessionInv
<1>2. Session' = Session
  BY <1>1 DEF Session
<1>3. SentInTurn' /\ ExecutedInTurn'
  BY <1>1, <1>2 DEF SessionInv, SentInTurn, ExecutedInTurn
<1>4. start <= sentPtr /\ start \in Nat
  BY <1>1 DEF SentIsDue, Lsn
<1>5. \A a \in start..((sentPtr + 1) - 1) : a \in start..(sentPtr - 1) \/ a = sentPtr
  BY <1>1, <1>4
<1>6. \A a \in start..(sentPtr - 1) : a \in start..((sentPtr + 1) - 1)
  BY <1>1, <1>4
<1>7. sentPtr \in start..((sentPtr + 1) - 1)
  BY <1>1, <1>4
<1>8. Due(wal, start, sentPtr + 1) = Due(wal, start, sentPtr) \cup OfCommit(wal, sentPtr)
  BY <1>5, <1>6, <1>7 DEF Due, OfCommit
<1>9. SentIsDue'
  BY <1>1, <1>2, <1>4, <1>8 DEF SentIsDue
<1> QED
  BY <1>1, <1>3, <1>9 DEF SessionInv

\* The first pending change is sent in its turn.
LEMMA SessionChange == ASSUME IInv, SessionInv, WalSenderChange PROVE SessionInv'
<1> USE DEF connVars, workerVars, histVars
<1>1. PICK j \in pending :
        /\ \A k \in pending : j <= k
        /\ chan' = Append(chan, [type |-> "w", lsn |-> j, replyRequested |-> FALSE])
        /\ pending' = pending \ {j}
  BY DEF WalSenderChange, Send
<1> DEFINE msg == [type |-> "w", lsn |-> j, replyRequested |-> FALSE]
           sent == Elems(Session) \cup Flight(chan, Len(chan))
           of == OfCommit(wal, sentPtr)
<1>2. /\ Len(wal) \in Nat /\ sentPtr \in 1..Len(wal) /\ decoding /\ decoding' /\ start \in Lsn
      /\ wal[sentPtr].commit /\ pending \subseteq ChangesOf(wal[sentPtr].txn)
      /\ SentInTurn /\ SentIsDue /\ chan \in Seq(Message) /\ Len(chan) \in Nat
      /\ UNCHANGED <<wal, sentPtr, start, base, db, xact, pc>>
  BY DEF WalSenderChange, StreamOpen, IInv, TypeOK, DataOK, DecodingOK, SessionInv
<1>3. Session' = Session
  BY <1>2 DEF Session
<1>4. /\ start <= sentPtr /\ start \in Nat
      /\ sent = Due(wal, start, sentPtr) \cup (of \ pending)
      /\ \A k \in of \ pending : \A p \in pending : k < p
  BY <1>2 DEF SentIsDue, Lsn
<1>5. of = ChangesOf(wal[sentPtr].txn) /\ of \subseteq Nat
  BY <1>2 DEF OfCommit, Commits, ChangesOf
<1>6. j \in of /\ Commits(wal, sentPtr, j) /\ j \in Nat /\ pending \subseteq Nat
  BY <1>2, <1>5 DEF OfCommit
<1> HIDE DEF of, sent
<1>7. of \ pending = {k \in of : k < j}
  BY <1>1, <1>4, <1>5, <1>6
<1>8. InTurn(wal, start, sent, j)
  <2>1. sentPtr \in start..Len(wal)
    BY <1>2, <1>4
  <2> QED
    BY <2>1, <1>4, <1>6, <1>7 DEF InTurn, of
<1>9. msg \in Message /\ msg.lsn = j /\ msg.type = "w"
  BY <1>6 DEF Message
<1> HIDE DEF msg
<1>10. /\ chan' = Append(chan, msg) /\ Len(chan') = Len(chan) + 1
       /\ \A m \in 1..Len(chan) : chan'[m] = chan[m]
       /\ chan'[Len(chan) + 1] = msg
  BY <1>1, <1>2, <1>9 DEF msg
<1>11. \A n \in 0..Len(chan) : Flight(chan', n) = Flight(chan, n)
  BY <1>2, <1>9, <1>10, FlightAppend
<1>12. Flight(chan', Len(chan')) = Flight(chan, Len(chan)) \cup {j}
  BY <1>2, <1>9, <1>10 DEF Flight
<1>13. SentInTurn'
  <2> SUFFICES ASSUME NEW m \in 1..(Len(chan) + 1), chan'[m].type = "w"
               PROVE  InTurn(wal, start, Elems(Session) \cup Flight(chan', m - 1), chan'[m].lsn)
    BY <1>2, <1>3, <1>10 DEF SentInTurn
  <2>1. m - 1 \in 0..Len(chan)
    BY <1>2
  <2>2. CASE m = Len(chan) + 1
    <3>1. m - 1 = Len(chan) /\ chan'[m] = msg
      BY <2>2, <1>2, <1>10
    <3> QED
      BY <3>1, <2>1, <1>8, <1>9, <1>11 DEF sent
  <2>3. CASE m \in 1..Len(chan)
    BY <2>1, <2>3, <1>2, <1>10, <1>11 DEF SentInTurn
  <2> QED
    BY <1>2, <2>2, <2>3
<1>14. SentIsDue'
  <2>1. Elems(Session') \cup Flight(chan', Len(chan')) = sent \cup {j}
    BY <1>3, <1>12 DEF sent
  <2>2. sent \cup {j} = Due(wal, start, sentPtr) \cup (of \ pending')
    BY <1>1, <1>4, <1>6
  <2>3. \A k \in of \ pending' : \A p \in pending' : k < p
    <3>1. \A p \in pending' : p \in pending /\ j < p
      BY <1>1, <1>6
    <3>2. \A k \in of \ pending' : k \in of \ pending \/ k = j
      BY <1>1
    <3> QED
      BY <3>1, <3>2, <1>4
  <2> QED
    BY <2>1, <2>2, <2>3, <1>2, <1>4 DEF SentIsDue, of
<1>15. ExecutedInTurn'
  BY <1>2, <1>3 DEF SessionInv, ExecutedInTurn
<1> QED
  BY <1>2, <1>13, <1>14, <1>15 DEF SessionInv

\* Keepalives and the end of the stream carry no change.
LEMMA SessionSend ==
  ASSUME IInv, SessionInv, NEW msg \in Message, msg.type # "w", chan' = Append(chan, msg),
         UNCHANGED <<wal, sentPtr, decoding, pending, start, base, db, xact, pc>>
  PROVE  SessionInv'
<1>1. /\ chan \in Seq(Message) /\ Len(chan) \in Nat /\ Len(chan') = Len(chan) + 1
      /\ \A m \in 1..Len(chan) : chan'[m] = chan[m]
      /\ chan'[Len(chan) + 1] = msg
  BY DEF IInv, TypeOK, DataOK
<1>2. \A n \in 0..Len(chan) : Flight(chan', n) = Flight(chan, n)
  BY <1>1, FlightAppend
<1>3. Flight(chan', Len(chan')) = Flight(chan, Len(chan))
  BY <1>1 DEF Flight
<1>4. Session' = Session /\ (Connected' <=> Connected)
  BY DEF Session, Connected
<1>5. SentInTurn => SentInTurn'
  <2> SUFFICES ASSUME SentInTurn, NEW m \in 1..(Len(chan) + 1), chan'[m].type = "w"
               PROVE  InTurn(wal, start, Elems(Session) \cup Flight(chan', m - 1), chan'[m].lsn)
    BY <1>1, <1>4 DEF SentInTurn
  <2>1. m \in 1..Len(chan) /\ m - 1 \in 0..Len(chan)
    BY <1>1
  <2> QED
    BY <2>1, <1>1, <1>2 DEF SentInTurn
<1>6. SentIsDue => SentIsDue'
  BY <1>3, <1>4 DEF SentIsDue
<1>7. ExecutedInTurn'
  BY <1>4 DEF SessionInv, ExecutedInTurn
<1> QED
  BY <1>4, <1>5, <1>6, <1>7 DEF SessionInv

\* Taking the first message: what it carries goes from the stream to the session.
LEMMA SessionTail ==
  ASSUME IInv, SentInTurn, SentIsDue, avail > 0, chan' = Tail(chan),
         UNCHANGED <<wal, sentPtr, decoding, pending, start>>,
         Elems(Session') = Elems(Session) \cup (IF Head(chan).type = "w" THEN {Head(chan).lsn} ELSE {})
  PROVE  SentInTurn' /\ SentIsDue'
<1>1. /\ chan \in Seq(Message) /\ chan # <<>> /\ Len(chan) \in Nat /\ Len(chan) >= 1
      /\ Len(chan') = Len(chan) - 1
      /\ \A k \in 1..(Len(chan) - 1) : chan'[k] = chan[k + 1]
  BY DEF IInv, TypeOK, DataOK
<1>2. ASSUME NEW n \in 0..(Len(chan) - 1)
      PROVE  Elems(Session') \cup Flight(chan', n) = Elems(Session) \cup Flight(chan, n + 1)
  <2>1. Flight(chan, n + 1) =
          Flight(chan', n) \cup (IF Head(chan).type = "w" THEN {Head(chan).lsn} ELSE {})
    BY <1>1, <1>2, FlightAfterHead
  <2> QED
    BY <2>1
<1>3. SentInTurn'
  <2> SUFFICES ASSUME NEW m \in 1..(Len(chan) - 1), chan[m + 1].type = "w"
               PROVE  InTurn(wal, start, Elems(Session') \cup Flight(chan', m - 1), chan[m + 1].lsn)
    BY <1>1 DEF SentInTurn
  <2>1. m + 1 \in 1..Len(chan) /\ m - 1 \in 0..(Len(chan) - 1) /\ (m + 1) - 1 = (m - 1) + 1
    BY <1>1
  <2>2. InTurn(wal, start, Elems(Session) \cup Flight(chan, (m - 1) + 1), chan[m + 1].lsn)
    BY <2>1 DEF SentInTurn
  <2> QED
    BY <2>1, <2>2, <1>2
<1>4. SentIsDue'
  <2>1. Len(chan) - 1 \in 0..(Len(chan) - 1) /\ (Len(chan) - 1) + 1 = Len(chan)
    BY <1>1
  <2>2. Elems(Session') \cup Flight(chan', Len(chan')) = Elems(Session) \cup Flight(chan, Len(chan))
    BY <2>1, <1>1, <1>2
  <2> QED
    BY <2>2 DEF SentIsDue
<1> QED
  BY <1>3, <1>4

\* RecvChange executes the change in its turn.
LEMMA SessionApply == ASSUME IInv, SessionInv, RecvChange PROVE SessionInv'
<1> USE DEF pubVars, histVars
<1> DEFINE j == Head(chan).lsn
<1>1. /\ avail > 0 /\ chan' = Tail(chan) /\ Head(chan).type = "w" /\ xact' = Append(xact, j)
      /\ UNCHANGED <<wal, sentPtr, decoding, pending, start, base, db, pc>>
      /\ SentInTurn /\ SentIsDue
  BY DEF RecvChange, Consume, SessionInv, Connected
<1>2. /\ chan \in Seq(Message) /\ 1 \in 1..Len(chan) /\ Head(chan) = chan[1] /\ xact \in Seq(Lsn)
      /\ db \in Seq(Lsn) /\ base \in Nat /\ base <= Len(db) /\ Len(db) \in Nat
  BY <1>1 DEF IInv, TypeOK, DataOK, SessionInv
<1>3. InTurn(wal, start, Elems(Session), j)
  <2>1. InTurn(wal, start, Elems(Session) \cup Flight(chan, 1 - 1), j)
    BY <1>1, <1>2 DEF SentInTurn
  <2> QED
    BY <2>1, FlightEmpty
<1>4. j \in Lsn
  BY <1>1, <1>2, MessageLsn DEF IInv, ChanBounded, Lsn
<1> HIDE DEF j
<1>5. Session \in Seq(Lsn) /\ Session' = Append(Session, j)
  <2> DEFINE head == SubSeq(db, base + 1, Len(db))
  <2>1. head \in Seq(Lsn) /\ Session \in Seq(Lsn)
    <3>1. \A i \in (base + 1)..Len(db) : db[i] \in Lsn
      BY <1>2
    <3>2. head \in Seq(Lsn)
      BY <1>2, <3>1
    <3> QED
      BY <3>2, <1>2, SessionPlaces DEF Session
  <2> HIDE DEF head
  <2>2. head \o Append(xact, j) = Append(head \o xact, j)
    BY <2>1, <1>2, <1>4
  <2> QED
    BY <2>1, <2>2, <1>1 DEF Session, head
<1>6. /\ Elems(Session') = Elems(Session) \cup {j} /\ Len(Session') = Len(Session) + 1
      /\ \A i \in 1..Len(Session) : Session'[i] = Session[i]
      /\ Session'[Len(Session) + 1] = j /\ Len(Session) \in Nat
  BY <1>4, <1>5, ElemsAppend
<1>7. SentInTurn' /\ SentIsDue'
  BY <1>1, <1>6, SessionTail DEF j
<1>8. ExecutedInTurn'
  <2>1. /\ \A n \in 0..Len(Session) : First(Session', n) = First(Session, n)
        /\ First(Session, Len(Session)) = Elems(Session)
    BY <1>4, <1>5, FirstAppend
  <2> SUFFICES ASSUME NEW n \in 1..(Len(Session) + 1)
               PROVE  InTurn(wal, start, First(Session', n - 1), Session'[n])
    BY <1>1, <1>6 DEF ExecutedInTurn
  <2>2. n - 1 \in 0..Len(Session)
    BY <1>6
  <2>3. CASE n = Len(Session) + 1
    <3>1. n - 1 = Len(Session) /\ Session'[n] = j
      BY <2>3, <1>6
    <3> QED
      BY <3>1, <2>1, <2>2, <1>3
  <2>4. CASE n \in 1..Len(Session)
    BY <2>1, <2>2, <2>4, <1>6 DEF SessionInv, ExecutedInTurn
  <2> QED
    BY <1>6, <2>3, <2>4
<1> QED
  BY <1>1, <1>7, <1>8 DEF SessionInv

\* The end of a batch moves what was executed to the database, in the same order.
LEMMA SessionCommit ==
  ASSUME IInv, SessionInv, CommitBatch, base' = base
  PROVE  Session' = Session /\ base' <= Len(db')
<1>1. /\ db \in Seq(Lsn) /\ xact \in Seq(Lsn) /\ base \in Nat /\ base <= Len(db)
      /\ Len(db) \in Nat /\ Len(xact) \in Nat /\ db' = db \o xact /\ xact' = <<>>
  BY DEF IInv, TypeOK, DataOK, SessionInv, CommitBatch
<1>2. db' \in Seq(Lsn) /\ Len(db') = Len(db) + Len(xact)
  BY <1>1, ConcatProperties
<1>3. \A i \in 1..Len(db) : db'[i] = db[i]
  BY <1>1
<1>4. \A i \in 1..Len(xact) : db'[Len(db) + i] = xact[i]
  BY <1>1
<1>5. base' <= Len(db') /\ base' \in Nat /\ xact' \in Seq(Lsn) /\ Len(xact') = 0
  BY <1>1, <1>2
<1>6. /\ Session \in Seq(Lsn) /\ Len(Session) = (Len(db) - base) + Len(xact)
      /\ \A i \in 1..(Len(db) - base) : Session[i] = db[base + i]
      /\ \A i \in 1..Len(xact) : Session[(Len(db) - base) + i] = xact[i]
  BY <1>1, SessionPlaces DEF Session
<1>7. /\ Session' \in Seq(Lsn) /\ Len(Session') = (Len(db') - base') + 0
      /\ \A i \in 1..(Len(db') - base') : Session'[i] = db'[base' + i]
  BY <1>2, <1>5, SessionPlaces DEF Session
<1>8. ASSUME NEW i \in 1..Len(Session) PROVE Session'[i] = Session[i]
  <2>1. Session'[i] = db'[base + i]
    BY <1>1, <1>2, <1>6, <1>7
  <2>2. CASE i <= Len(db) - base
    <3>1. base + i \in 1..Len(db) /\ i \in 1..(Len(db) - base)
      BY <1>1, <2>2
    <3> QED
      BY <3>1, <2>1, <1>3, <1>6
  <2>3. CASE i > Len(db) - base
    <3> DEFINE k == i - (Len(db) - base)
    <3>1. k \in 1..Len(xact) /\ i = (Len(db) - base) + k /\ base + i = Len(db) + k
      BY <1>1, <1>6, <2>3
    <3> HIDE DEF k
    <3> QED
      BY <3>1, <2>1, <1>4, <1>6
  <2> QED
    BY <1>1, <2>2, <2>3
<1>9. Len(Session') = Len(Session)
  BY <1>1, <1>2, <1>6, <1>7
<1>10. Session' = Session
  BY <1>6, <1>7, <1>8, <1>9, SeqEqual
<1> QED
  BY <1>5, <1>10

\* A failure keeps of the session what was committed, its first part.
LEMMA SessionFails == ASSUME IInv, SessionInv, WorkerFails PROVE SessionInv'
<1> USE DEF pubVars, connVars
<1>1. /\ db \in Seq(Lsn) /\ xact \in Seq(Lsn) /\ base \in Nat /\ base <= Len(db)
      /\ Len(db) \in Nat /\ Len(xact) \in Nat /\ xact' = <<>> /\ pc' = "down"
      /\ UNCHANGED <<wal, start, base, db>>
  BY DEF IInv, TypeOK, DataOK, SessionInv, WorkerFails
<1>2. xact' \in Seq(Lsn) /\ Len(xact') = 0
  BY <1>1
<1>3. /\ Len(Session) = (Len(db) - base) + Len(xact)
      /\ \A i \in 1..(Len(db) - base) : Session[i] = db[base + i]
  BY <1>1, SessionPlaces DEF Session
<1>4. /\ Len(Session') = (Len(db) - base) + 0
      /\ \A i \in 1..(Len(db) - base) : Session'[i] = db[base + i]
  BY <1>1, <1>2, SessionPlaces DEF Session
<1>5. Len(Session') <= Len(Session) /\ Len(Session') \in Nat /\ Len(Session) \in Nat
  BY <1>1, <1>3, <1>4
<1>6. \A i \in 1..Len(Session') : Session'[i] = Session[i]
  <2>1. \A i \in 1..Len(Session') : i \in 1..(Len(db) - base)
    BY <1>1, <1>4
  <2> QED
    BY <2>1, <1>3, <1>4
<1>7. ASSUME NEW n \in 1..Len(Session')
      PROVE  InTurn(wal, start, First(Session', n - 1), Session'[n])
  <2>1. \A m \in 1..(n - 1) : m \in 1..Len(Session')
    BY <1>5
  <2>2. First(Session', n - 1) = First(Session, n - 1)
    BY <2>1, <1>6 DEF First
  <2>3. n \in 1..Len(Session)
    BY <1>5
  <2> QED
    BY <2>2, <2>3, <1>6, <1>7 DEF SessionInv, ExecutedInTurn
<1>8. ExecutedInTurn' /\ ~Connected'
  BY <1>1, <1>7 DEF ExecutedInTurn, Connected
<1> QED
  BY <1>1, <1>8 DEF SessionInv

LEMMA NextSession == IInv /\ SessionInv /\ [Next]_vars => SessionInv'
<1> SUFFICES ASSUME IInv, SessionInv, [Next]_vars PROVE SessionInv'
  OBVIOUS
<1> USE DEF pubVars, connVars, workerVars, histVars
<1>1. CASE Publisher
  <2>1. PICK t \in Txns : PublisherChange(t) \/ PublisherCommit(t)
    BY <1>1 DEF Publisher
  <2>2. PICK c \in BOOLEAN :
          /\ ~Committed(t) /\ wal' = Append(wal, [txn |-> t, commit |-> c])
          /\ UNCHANGED <<start, base, chan, sentPtr, decoding, pending, db, xact, pc>>
    BY <2>1 DEF PublisherChange, PublisherCommit
  <2> DEFINE r == [txn |-> t, commit |-> c]
  <2>3. r \in Record /\ r.txn = t
    BY DEF Record
  <2> HIDE DEF r
  <2>4. wal' = Append(wal, r)
    BY <2>2 DEF r
  <2> QED
    BY <2>2, <2>3, <2>4, SessionPublish
<1>2. CASE WalSenderEnd
  <2> DEFINE m == [type |-> "end", lsn |-> 0, replyRequested |-> FALSE]
  <2>1. m \in Message /\ m.type # "w"
    BY DEF Message
  <2>2. UNCHANGED <<wal, sentPtr, decoding, pending, start, base, db, xact, pc>>
    BY <1>2 DEF WalSenderEnd
  <2>3. chan' = Append(chan, m)
    BY <1>2 DEF WalSenderEnd, Send
  <2> HIDE DEF m
  <2> QED
    BY <2>1, <2>2, <2>3, SessionSend
<1>3. CASE \E requested \in BOOLEAN : WalSenderKeepalive(requested)
  <2>1. PICK requested \in BOOLEAN : WalSenderKeepalive(requested)
    BY <1>3
  <2> DEFINE m == [type |-> "k", lsn |-> sentPtr, replyRequested |-> requested]
  <2>2. sentPtr \in Nat
    BY DEF IInv, TypeOK, DataOK
  <2>3. m \in Message /\ m.type # "w"
    BY <2>2 DEF Message
  <2>4. UNCHANGED <<wal, sentPtr, decoding, pending, start, base, db, xact, pc>>
    BY <2>1 DEF WalSenderKeepalive
  <2>5. chan' = Append(chan, m)
    BY <2>1 DEF WalSenderKeepalive, Send
  <2> HIDE DEF m
  <2> QED
    BY <2>3, <2>4, <2>5, SessionSend
<1>4. CASE RecvKeepalive
  <2>1. /\ avail > 0 /\ chan' = Tail(chan) /\ Head(chan).type = "k"
        /\ UNCHANGED <<wal, sentPtr, decoding, pending, start, base, db, xact, pc>>
        /\ SentInTurn /\ SentIsDue
    BY <1>4 DEF RecvKeepalive, Consume, SessionInv, Connected
  <2>2. Session' = Session
    BY <2>1 DEF Session
  <2>3. SentInTurn' /\ SentIsDue'
    BY <2>1, <2>2, SessionTail
  <2>4. ExecutedInTurn'
    BY <2>1, <2>2 DEF SessionInv, ExecutedInTurn
  <2> QED
    BY <2>1, <2>3, <2>4 DEF SessionInv
<1>5. CASE BatchEnd \/ StreamEnd \/ StreamFailure
  <2>1. /\ UNCHANGED <<wal, start, base, chan, sentPtr, decoding, pending>> /\ CommitBatch
        /\ Connected
    BY <1>5 DEF BatchEnd, StreamEnd, StreamFailure, Connected
  <2> QED
    BY <2>1, SessionCommit, SessionQuiet
<1>6. CASE SlotConfirm \/ LoopTop \/ SelectTimeout \/ SelectData \/ receiver_raw_sigterm \/ UNCHANGED vars
  <2>1. /\ UNCHANGED <<wal, start, base, chan, sentPtr, decoding, pending, xact, db>>
        /\ Connected' => Connected
    BY <1>6 DEF SlotConfirm, LoopTop, SelectTimeout, SelectData, receiver_raw_sigterm, vars, Connected
  <2>2. Session' = Session /\ base' <= Len(db')
    BY <2>1 DEF Session, SessionInv
  <2> QED
    BY <2>1, <2>2, SessionQuiet
<1> QED
  BY <1>1, <1>2, <1>3, <1>4, <1>5, <1>6, SessionStart, SessionDecode, SessionDone, SessionChange,
     SessionApply, SessionFails DEF Next, WalSender, WorkerStep

\* Being executed in turn is what SessionInOrder says.
LEMMA TurnIsOrder == IInv /\ SessionInv => SessionInOrder
<1> SUFFICES ASSUME IInv, SessionInv, NEW n \in 1..Len(Session)
             PROVE  /\ CommitLsn(Session[n]) >= start
                    /\ \A m \in 1..(n - 1) : Before(Session[m], Session[n])
                    /\ \A i \in start..CommitLsn(Session[n]) : wal[i].commit =>
                         \A j \in ChangesOf(wal[i].txn) :
                           Before(j, Session[n]) => \E m \in 1..(n - 1) : Session[m] = j
  BY DEF SessionInOrder
<1>1. Len(wal) \in Nat /\ start \in Lsn
  BY DEF IInv, TypeOK, DataOK
<1>2. ASSUME NEW b, NEW j, Commits(wal, b, j) PROVE CommitLsn(j) = b /\ b \in Nat /\ j \in Nat
  <2>1. \A i \in 1..Len(wal) : wal[i].commit /\ wal[i].txn = wal[j].txn <=> i = b
    BY <1>2 DEF Commits, IInv, WalOK
  <2> QED
    BY <2>1, <1>2 DEF CommitLsn, Commits
<1>3. PICK b \in start..Len(wal) :
        /\ Commits(wal, b, Session[n])
        /\ First(Session, n - 1) = Due(wal, start, b) \cup {k \in OfCommit(wal, b) : k < Session[n]}
  BY DEF SessionInv, ExecutedInTurn, InTurn
<1>4. CommitLsn(Session[n]) = b /\ b \in Nat /\ b >= start
  BY <1>1, <1>2, <1>3 DEF Lsn
<1>5. ASSUME NEW m \in 1..(n - 1) PROVE Before(Session[m], Session[n])
  <2>1. Session[m] \in First(Session, n - 1)
    BY DEF First
  <2>2. CASE Session[m] \in Due(wal, start, b)
    <3>1. PICK a \in start..(b - 1) : Commits(wal, a, Session[m])
      BY <2>2 DEF Due
    <3>2. a < b
      BY <1>1, <1>4 DEF Lsn
    <3> QED
      BY <3>1, <3>2, <1>2, <1>4 DEF Before
  <2>3. CASE Session[m] \in {k \in OfCommit(wal, b) : k < Session[n]}
    BY <2>3, <1>2, <1>4 DEF Before, OfCommit
  <2> QED
    BY <2>1, <2>2, <2>3, <1>3
<1>6. ASSUME NEW i \in start..b, wal[i].commit, NEW j \in ChangesOf(wal[i].txn),
             Before(j, Session[n])
      PROVE  \E m \in 1..(n - 1) : Session[m] = j
  <2>1. i \in 1..Len(wal) /\ i \in Nat
    BY <1>1, <1>3, <1>6 DEF Lsn
  <2>2. Commits(wal, i, j) /\ j \in 1..Len(wal)
    BY <2>1, <1>6 DEF Commits, ChangesOf
  <2>3. i < b \/ (i = b /\ j < Session[n])
    BY <2>2, <1>2, <1>4, <1>6 DEF Before
  <2>4. CASE i < b
    <3>1. i \in start..(b - 1)
      BY <2>1, <2>4, <1>4, <1>6
    <3> QED
      BY <3>1, <2>2, <1>3 DEF Due, First
  <2>5. CASE i = b /\ j < Session[n]
    BY <2>2, <2>5, <1>3 DEF OfCommit, First
  <2> QED
    BY <2>3, <2>4, <2>5
<1> QED
  BY <1>4, <1>5, <1>6

\* Within one connection receiver_raw_main executes the changes of the transactions that
\* the slot had not confirmed when it connected, in commit order, each once and without a
\* gap, wherever PQgetCopyData cuts the stream into batches.
THEOREM SessionOrdered == Spec => []SessionInOrder
<1>1. Init => SessionInv
  <2> SUFFICES ASSUME Init PROVE SessionInv
    OBVIOUS
  <2>1. db = <<>> /\ xact = <<>> /\ base = 0 /\ ~Connected
    BY DEF Init, Connected
  <2>2. SubSeq(<<>>, 0 + 1, Len(<<>>)) = <<>> /\ Len(<<>>) = 0
    OBVIOUS
  <2>3. Session = <<>>
    BY <2>1, <2>2 DEF Session
  <2> QED
    BY <2>1, <2>3 DEF SessionInv, ExecutedInTurn
<1> QED
  BY <1>1, InitInv, NextInv, NextSession, TurnIsOrder, PTL DEF Spec
=============================================================================

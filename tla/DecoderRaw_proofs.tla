--------------------------- MODULE DecoderRaw_proofs ---------------------------
(***************************************************************************)
(* Proofs about decoder_raw and its subscriber, for every table, every     *)
(* replica identity and every history of transactions and sessions.        *)
(***************************************************************************)
EXTENDS DecoderRaw, FiniteSetTheorems, WellFoundedInduction, TLAPS

-----------------------------------------------------------------------------
(* Induction over finite sets.                                             *)

\* A set of numbers has a least one.
LEMMA NatMin ==
  ASSUME NEW T, T \subseteq Nat, T # {}
  PROVE  \E n \in T : \A m \in T : n <= m
<1>1. PICK n \in T : \A m \in T : ~(<<m, n>> \in OpToRel(<, Nat))
  BY NatLessThanWellFounded, WFMin
<1>2. \A m \in T : ~(m < n)
  BY <1>1 DEF OpToRel
<1> QED
  BY <1>2

\* A set of subsets that holds each one whose proper subsets it holds, holds them all.
LEMMA SubsetInduction ==
  ASSUME NEW S, IsFiniteSet(S), NEW G,
         \A s \in SUBSET S : (\A r \in SUBSET s : r # s => r \in G) => s \in G
  PROVE  \A s \in SUBSET S : s \in G
<1>1. \A s \in SUBSET S : IsFiniteSet(s) /\ Cardinality(s) \in Nat
  BY FS_Subset, FS_CardinalityType
<1> DEFINE D == {n \in Nat : \E s \in SUBSET S : Cardinality(s) = n /\ s \notin G}
<1>2. SUFFICES ASSUME D # {} PROVE FALSE
  BY <1>1
<1>3. PICK n \in D : \A m \in D : n <= m
  <2> HIDE DEF D
  <2>1. D \subseteq Nat
    BY DEF D
  <2> QED
    BY <1>2, <2>1, NatMin
<1>4. PICK s \in SUBSET S : Cardinality(s) = n /\ s \notin G
  BY <1>3
<1>5. ASSUME NEW r \in SUBSET s, r # s PROVE r \in G
  <2>1. r \in SUBSET S /\ Cardinality(r) \in Nat /\ n \in Nat
    BY <1>1, <1>3
  <2>2. Cardinality(r) < n
    BY <2>1, <1>1, <1>4, <1>5, FS_Subset
  <2>3. Cardinality(r) \notin D
    BY <2>1, <2>2, <1>3
  <2> QED
    BY <2>1, <2>3
<1> QED
  BY <1>4, <1>5

-----------------------------------------------------------------------------
(* Sums over finite sets.                                                  *)

Pick(s) == CHOOSE x \in s : TRUE

LEMMA PickIn ==
  ASSUME NEW s, s # {}
  PROVE  Pick(s) \in s /\ s \ {Pick(s)} \in SUBSET s /\ s \ {Pick(s)} # s
<1>1. Pick(s) \in s
  BY DEF Pick
<1> QED
  BY <1>1

\* The function behind the sum of t over S.
IsSum(f, t, S) == f = [s \in SUBSET S |-> IF s = {} THEN 0 ELSE t[Pick(s)] + f[s \ {Pick(s)}]]

Sum(t, S) == MapThenSumSet(LAMBDA x : t[x], S)

LEMMA SumSpec ==
  ASSUME NEW t, NEW S
  PROVE  Sum(t, S) = (CHOOSE f : IsSum(f, t, S))[S]
  BY DEF Sum, MapThenSumSet, MapThenFoldSet, IsSum, Pick

LEMMA IsSumValue ==
  ASSUME NEW f, NEW t, NEW S, IsSum(f, t, S), NEW s \in SUBSET S
  PROVE  f[s] = IF s = {} THEN 0 ELSE t[Pick(s)] + f[s \ {Pick(s)}]
  BY DEF IsSum

\* Where two of them are defined they agree.
LEMMA SumUnique ==
  ASSUME NEW t, NEW S, IsFiniteSet(S), NEW R \in SUBSET S,
         NEW f, IsSum(f, t, S), NEW g, IsSum(g, t, R)
  PROVE  \A s \in SUBSET R : f[s] = g[s]
<1> DEFINE G == {s \in SUBSET R : f[s] = g[s]}
<1>1. IsFiniteSet(R)
  BY FS_Subset
<1>2. ASSUME NEW s \in SUBSET R, \A r \in SUBSET s : r # s => r \in G
      PROVE  s \in G
  <2>1. f[s] = IF s = {} THEN 0 ELSE t[Pick(s)] + f[s \ {Pick(s)}]
    BY IsSumValue
  <2>2. g[s] = IF s = {} THEN 0 ELSE t[Pick(s)] + g[s \ {Pick(s)}]
    BY IsSumValue
  <2>3. s # {} => f[s \ {Pick(s)}] = g[s \ {Pick(s)}]
    BY <1>2, PickIn
  <2> QED
    BY <2>1, <2>2, <2>3
<1>3. \A s \in SUBSET R : s \in G
  <2> HIDE DEF G
  <2> QED
    BY <1>1, <1>2, SubsetInduction
<1> QED
  BY <1>3

\* There is one.
LEMMA SumExists ==
  ASSUME NEW t, NEW S, IsFiniteSet(S)
  PROVE  \E f : IsSum(f, t, S)
<1> DEFINE G == {s \in SUBSET S : \E f : IsSum(f, t, s)}
           F(s) == CHOOSE f : IsSum(f, t, s)
<1>1. ASSUME NEW s \in SUBSET S, \A r \in SUBSET s : r # s => r \in G
      PROVE  s \in G
  <2> DEFINE V(r) == IF r = {} THEN 0 ELSE t[Pick(r)] + F(r \ {Pick(r)})[r \ {Pick(r)}]
             g == [r \in SUBSET s |-> V(r)]
  <2>1. \A r \in SUBSET s : r # s => IsSum(F(r), t, r)
    BY <1>1
  <2> HIDE DEF F
  <2>2. ASSUME NEW r \in SUBSET s, r # s PROVE V(r) = F(r)[r]
    <3>1. IsSum(F(r), t, r) /\ IsFiniteSet(r)
      BY <2>1, <2>2, FS_Subset
    <3>2. F(r)[r] = IF r = {} THEN 0 ELSE t[Pick(r)] + F(r)[r \ {Pick(r)}]
      BY <3>1, IsSumValue
    <3>3. ASSUME r # {} PROVE F(r)[r \ {Pick(r)}] = F(r \ {Pick(r)})[r \ {Pick(r)}]
      <4> DEFINE q == r \ {Pick(r)}
      <4>1. q \in SUBSET r /\ q \in SUBSET s /\ q # s /\ q \in SUBSET q
        BY <3>3, <2>2, PickIn
      <4>2. IsSum(F(q), t, q)
        BY <4>1, <2>1
      <4> HIDE DEF q
      <4>3. F(r)[q] = F(q)[q]
        BY <4>1, <4>2, <3>1, SumUnique
      <4> QED
        BY <4>3 DEF q
    <3> QED
      BY <3>2, <3>3
  <2>3. ASSUME NEW r \in SUBSET s
        PROVE  V(r) = IF r = {} THEN 0 ELSE t[Pick(r)] + g[r \ {Pick(r)}]
    <3>1. CASE r = {}
      BY <3>1
    <3>2. CASE r # {}
      <4> DEFINE q == r \ {Pick(r)}
      <4>1. q \in SUBSET s /\ q # s
        BY <3>2, PickIn
      <4>2. V(q) = F(q)[q]
        BY <4>1, <2>2
      <4>3. g[q] = V(q)
        BY <4>1
      <4> QED
        BY <3>2, <4>2, <4>3
    <3> QED
      BY <3>1, <3>2
  <2>4. IsSum(g, t, s)
    <3>1. g = [r \in SUBSET s |-> IF r = {} THEN 0 ELSE t[Pick(r)] + g[r \ {Pick(r)}]]
      BY <2>3
    <3> QED
      BY <3>1 DEF IsSum
  <2> QED
    BY <2>4
<1>2. \A s \in SUBSET S : s \in G
  <2> HIDE DEF G
  <2> QED
    BY <1>1, SubsetInduction
<1> QED
  BY <1>2

SumFun(t, S) == CHOOSE f : IsSum(f, t, S)

LEMMA SumIsFun ==
  ASSUME NEW t, NEW S, IsFiniteSet(S)
  PROVE  IsSum(SumFun(t, S), t, S) /\ Sum(t, S) = SumFun(t, S)[S]
<1>1. \E f : IsSum(f, t, S)
  BY SumExists
<1>2. IsSum(SumFun(t, S), t, S)
  BY <1>1 DEF SumFun
<1>3. Sum(t, S) = SumFun(t, S)[S]
  BY SumSpec DEF SumFun
<1> QED
  BY <1>2, <1>3

\* A sum of numbers is one, and no less than two of them together.
LEMMA SumBounds ==
  ASSUME NEW t, NEW S, IsFiniteSet(S), \A z \in S : t[z] \in Nat
  PROVE  /\ Sum(t, S) \in Nat
         /\ \A x \in S : t[x] <= Sum(t, S)
         /\ \A x, y \in S : x # y => t[x] + t[y] <= Sum(t, S)
<1> DEFINE f == SumFun(t, S)
<1>1. IsSum(f, t, S) /\ Sum(t, S) = f[S]
  BY SumIsFun
<1> HIDE DEF f
<1> DEFINE G == {s \in SUBSET S : /\ f[s] \in Nat
                                  /\ \A x \in s : t[x] <= f[s]
                                  /\ \A x, y \in s : x # y => t[x] + t[y] <= f[s]}
<1>2. ASSUME NEW s \in SUBSET S, \A r \in SUBSET s : r # s => r \in G
      PROVE  s \in G
  <2>1. f[s] = IF s = {} THEN 0 ELSE t[Pick(s)] + f[s \ {Pick(s)}]
    BY <1>1, IsSumValue
  <2>2. CASE s = {}
    BY <2>1, <2>2
  <2>3. CASE s # {}
    <3> DEFINE p == Pick(s)
               r == s \ {Pick(s)}
    <3>1. p \in s /\ r \in SUBSET s /\ r # s
      BY <2>3, PickIn
    <3>2. /\ f[r] \in Nat /\ \A x \in r : t[x] <= f[r]
          /\ \A x, y \in r : x # y => t[x] + t[y] <= f[r]
      BY <3>1, <1>2
    <3>3. f[s] = t[p] + f[r] /\ t[p] \in Nat /\ f[s] \in Nat
      BY <2>1, <2>3, <3>1, <3>2
    <3>4. \A x \in s : x = p \/ x \in r
      OBVIOUS
    <3> HIDE DEF p, r
    <3>5. ASSUME NEW x \in s PROVE t[x] <= f[s]
      BY <3>2, <3>3, <3>4
    <3>6. ASSUME NEW x \in s, NEW y \in s, x # y PROVE t[x] + t[y] <= f[s]
      <4>1. t[x] \in Nat /\ t[y] \in Nat
        OBVIOUS
      <4>2. CASE x = p
        BY <4>1, <4>2, <3>2, <3>3, <3>4, <3>6
      <4>3. CASE y = p
        BY <4>1, <4>3, <3>2, <3>3, <3>4, <3>6
      <4>4. CASE x \in r /\ y \in r
        BY <4>1, <4>4, <3>2, <3>3, <3>6
      <4> QED
        BY <4>2, <4>3, <4>4, <3>4
    <3> QED
      BY <3>3, <3>5, <3>6
  <2> QED
    BY <2>2, <2>3
<1>3. \A s \in SUBSET S : s \in G
  <2> HIDE DEF G
  <2> QED
    BY <1>2, SubsetInduction
<1>4. S \in G
  BY <1>3
<1> QED
  BY <1>1, <1>4

\* A sum of zeroes and one other value is that value.
LEMMA SumOfOne ==
  ASSUME NEW t, NEW S, IsFiniteSet(S), NEW x, t[x] \in Nat, \A y \in S : y # x => t[y] = 0
  PROVE  Sum(t, S) = IF x \in S THEN t[x] ELSE 0
<1> DEFINE f == SumFun(t, S)
<1>1. IsSum(f, t, S) /\ Sum(t, S) = f[S]
  BY SumIsFun
<1> HIDE DEF f
<1> DEFINE G == {s \in SUBSET S : f[s] = IF x \in s THEN t[x] ELSE 0}
<1>2. ASSUME NEW s \in SUBSET S, \A r \in SUBSET s : r # s => r \in G
      PROVE  s \in G
  <2>1. f[s] = IF s = {} THEN 0 ELSE t[Pick(s)] + f[s \ {Pick(s)}]
    <3>1. IsSum(f, t, S)
      BY <1>1
    <3> QED
      BY <3>1 DEF IsSum
  <2>2. CASE s = {}
    BY <2>1, <2>2
  <2>3. CASE s # {}
    <3>1. /\ Pick(s) \in s
          /\ f[s \ {Pick(s)}] = IF x \in s \ {Pick(s)} THEN t[x] ELSE 0
      BY <2>3, <1>2, PickIn
    <3>2. Pick(s) # x => t[Pick(s)] = 0
      BY <3>1
    <3>3. CASE Pick(s) = x
      BY <2>1, <2>3, <3>1, <3>3
    <3>4. CASE Pick(s) # x
      BY <2>1, <2>3, <3>1, <3>2, <3>4
    <3> QED
      BY <3>3, <3>4
  <2> QED
    BY <2>2, <2>3
<1>3. \A s \in SUBSET S : s \in G
  <2> HIDE DEF G
  <2> QED
    BY <1>2, SubsetInduction
<1>4. S \in G
  BY <1>3
<1> QED
  BY <1>1, <1>4

-----------------------------------------------------------------------------
(* The inductive invariant.                                                *)

Ops == {"INSERT", "UPDATE", "DELETE", "TRUNCATE"}
RelTypes == [ident : Idents, key : KeyKinds]
Tables == [Rows -> Nat]

\* What the log may hold of a row.
Tuples == [k : Keys, v : Plain \cup Toasted \cup {Null, Unchanged}] \cup {NoTuple}

Changes ==
  [op : Ops, rel : RelTypes, old : Tuples, new : Tuples, after : Tables, lossy : BOOLEAN]
Txns == [before : Tables, changes : Seq(Changes)]

\* The change stops the decoding.
Fails(c) == NoSelectivity(c) \/ (~Skipped(c) /\ Rejected(Decoded(c)))

\* It stops it for one of the reasons that FailsOnlyOnIndex allows.
StopsRightly(c) ==
  Fails(c) =>
    \/ c.op \in {"UPDATE", "DELETE"} /\ c.rel.ident = "index" /\ c.rel.key = "none"
    \/ c.op = "UPDATE" /\ c.rel.key = "covering" /\ c.new.v = Unchanged

\* A change that can be expressed: what is decoded from it does to the table what the
\* publisher did.
Faithful(table, c) ==
  ~c.lossy /\ ~Fails(c) => ~Skipped(c) /\ Execute(table, Decoded(c)) = c.after

\* The table before the i-th change of a transaction, and after all of them.
TableAt(before, changes, i) == IF i = 1 THEN before ELSE changes[i - 1].after

Sound(before, changes) ==
  \A i \in 1..Len(changes) : StopsRightly(changes[i]) /\ Faithful(TableAt(before, changes, i), changes[i])

\* The transactions follow each other from table to table.
QueueSound ==
  \A n \in 1..Len(queue) :
    LET txn == queue[n]
    IN /\ Len(txn.changes) > 0 /\ Sound(txn.before, txn.changes)
       /\ txn.changes[Len(txn.changes)].after = IF n < Len(queue) THEN queue[n + 1].before ELSE base

OpenSound == Sound(base, open) /\ pub = TableAt(base, open, Len(open) + 1)

\* A key is one.
Unique(table) ==
  \A row \in Rows : table[row] > 0 =>
    table[row] = 1 /\ \A other \in Rows : other.k = row.k /\ other # row => table[other] = 0

KeyUnique == rel.key # "none" => Unique(pub)

\* Where a session may be in the first transaction of the queue.
Position ==
  /\ queue # <<>> => pos \in 0..(Len(queue[1].changes) + 1)
  /\ session = "off" => pos = 0 /\ work = sub
  /\ session = "failed" => /\ queue # <<>> /\ pos \in 1..Len(queue[1].changes)
                           /\ Fails(queue[1].changes[pos])

IInv ==
  /\ TypeOK /\ open \in Seq(Changes) /\ queue \in Seq(Txns)
  /\ QueueSound /\ OpenSound /\ KeyUnique /\ Position /\ InSync

-----------------------------------------------------------------------------
(* What statements do.                                                     *)

LEMMA RowsFinite == IsFiniteSet(Rows)
<1> DEFINE Vals == Plain \cup Toasted \cup {Null}
           f == [row \in Rows |-> <<row.k, row.v>>]
<1>1. IsFiniteSet(Vals) /\ IsFiniteSet(Keys)
  BY ConstantsAssumption, FS_Union, FS_Singleton
<1>2. IsFiniteSet(Keys \X Vals)
  BY <1>1, FS_Product
<1>3. f \in Injection(Rows, Keys \X Vals)
  <2>1. f \in [Rows -> Keys \X Vals]
    BY DEF Rows
  <2>2. ASSUME NEW a \in Rows, NEW b \in Rows, f[a] = f[b] PROVE a = b
    BY <2>2 DEF Rows
  <2> QED
    BY <2>1, <2>2 DEF Injection, IsInjective
<1> QED
  BY <1>2, <1>3, FS_Injection

LEMMA ExecuteInsert ==
  ASSUME NEW table, NEW stmt, stmt.op = "INSERT"
  PROVE  Execute(table, stmt) = [table EXCEPT ![stmt.set] = @ + 1]
  BY DEF Execute

LEMMA ExecuteTruncate ==
  ASSUME NEW table, NEW stmt, stmt.op = "TRUNCATE" PROVE Execute(table, stmt) = Empty
  BY DEF Execute

LEMMA ExecuteDelete ==
  ASSUME NEW table, NEW stmt, stmt.op = "DELETE"
  PROVE  Execute(table, stmt) = [row \in Rows |-> IF Matches(row, stmt.where) THEN 0 ELSE table[row]]
  BY DEF Execute

\* The rows that an UPDATE turns into the row.
Sources(stmt, row) == {old \in Rows : Matches(old, stmt.where) /\ Overwrite(old, stmt.set) = row}

LEMMA ExecuteUpdate ==
  ASSUME NEW table, NEW stmt, stmt.op = "UPDATE"
  PROVE  Execute(table, stmt) =
           [row \in Rows |-> (IF Matches(row, stmt.where) THEN 0 ELSE table[row])
                             + Sum(table, Sources(stmt, row))]
  BY DEF Execute, Sum, Sources

\* Statements turn tables into tables, also those that do something else than meant.
LEMMA ExecuteType ==
  ASSUME NEW table \in Tables, NEW stmt, stmt.op \in Ops
  PROVE  Execute(table, stmt) \in Tables
<1>1. CASE stmt.op = "INSERT"
  <2>1. CASE stmt.set \in Rows
    <3>1. table[stmt.set] + 1 \in Nat
      BY <2>1 DEF Tables
    <3> QED
      BY <3>1, <1>1, ExecuteInsert DEF Tables
  <2>2. CASE stmt.set \notin Rows
    BY <2>2, <1>1, ExecuteInsert DEF Tables
  <2> QED
    BY <2>1, <2>2
<1>2. CASE stmt.op = "TRUNCATE"
  BY <1>2, ExecuteTruncate DEF Tables, Empty
<1>3. CASE stmt.op = "DELETE"
  <2>1. \A row \in Rows : (IF Matches(row, stmt.where) THEN 0 ELSE table[row]) \in Nat
    BY DEF Tables
  <2> QED
    BY <2>1, <1>3, ExecuteDelete DEF Tables
<1>4. CASE stmt.op = "UPDATE"
  <2>1. ASSUME NEW row \in Rows PROVE Sum(table, Sources(stmt, row)) \in Nat
    <3>1. IsFiniteSet(Sources(stmt, row)) /\ \A z \in Sources(stmt, row) : table[z] \in Nat
      BY RowsFinite, FS_Subset DEF Sources, Tables
    <3> QED
      BY <3>1, SumBounds
  <2>2. \A row \in Rows : (IF Matches(row, stmt.where) THEN 0 ELSE table[row]) \in Nat
    BY DEF Tables
  <2>3. \A row \in Rows : (IF Matches(row, stmt.where) THEN 0 ELSE table[row])
                           + Sum(table, Sources(stmt, row)) \in Nat
    BY <2>1, <2>2
  <2> QED
    BY <2>3, <1>4, ExecuteUpdate DEF Tables
<1> QED
  BY <1>1, <1>2, <1>3, <1>4 DEF Ops

\* The WHERE clause selects one row of the table, which is there once.
Selects(table, where, old) ==
  /\ old \in Rows /\ table[old] = 1 /\ Matches(old, where)
  /\ \A row \in Rows : Matches(row, where) /\ row # old => table[row] = 0

LEMMA DeletesOne ==
  ASSUME NEW table \in Tables, NEW stmt, stmt.op = "DELETE", NEW old, Selects(table, stmt.where, old)
  PROVE  Execute(table, stmt) = [table EXCEPT ![old] = @ - 1]
<1>1. ASSUME NEW row \in Rows
      PROVE  (IF Matches(row, stmt.where) THEN 0 ELSE table[row]) = [table EXCEPT ![old] = @ - 1][row]
  <2>1. CASE row = old
    BY <2>1 DEF Selects, Tables
  <2>2. CASE row # old
    BY <2>2 DEF Selects, Tables
  <2> QED
    BY <2>1, <2>2
<1> QED
  BY <1>1, ExecuteDelete DEF Tables

LEMMA UpdatesOne ==
  ASSUME NEW table \in Tables, NEW stmt, stmt.op = "UPDATE", NEW old, Selects(table, stmt.where, old),
         NEW new \in Rows, Overwrite(old, stmt.set) = new
  PROVE  Execute(table, stmt) = [[table EXCEPT ![old] = @ - 1] EXCEPT ![new] = @ + 1]
<1> DEFINE after == [[table EXCEPT ![old] = @ - 1] EXCEPT ![new] = @ + 1]
           kept(row) == IF Matches(row, stmt.where) THEN 0 ELSE table[row]
           moved(row) == IF row = new THEN 1 ELSE 0
<1>1. old \in Rows /\ table[old] = 1
  BY DEF Selects
<1>2. ASSUME NEW row \in Rows PROVE Sum(table, Sources(stmt, row)) = moved(row)
  <2>1. IsFiniteSet(Sources(stmt, row))
    BY RowsFinite, FS_Subset DEF Sources
  <2>2. \A y \in Sources(stmt, row) : y # old => table[y] = 0
    BY DEF Sources, Selects
  <2>3. Sum(table, Sources(stmt, row)) = IF old \in Sources(stmt, row) THEN table[old] ELSE 0
    BY <2>1, <2>2, <1>1, SumOfOne
  <2>4. old \in Sources(stmt, row) <=> row = new
    BY DEF Sources, Selects
  <2> QED
    BY <2>3, <2>4, <1>1
<1>3. ASSUME NEW row \in Rows PROVE kept(row) = IF row = old THEN 0 ELSE table[row]
  BY <1>1 DEF Selects
<1>4. ASSUME NEW row \in Rows PROVE kept(row) + moved(row) = after[row]
  <2>1. table[row] \in Nat
    BY DEF Tables
  <2>2. [table EXCEPT ![old] = @ - 1][row] = IF row = old THEN 0 ELSE table[row]
    BY <1>1 DEF Tables
  <2>3. after[row] = IF row = new THEN [table EXCEPT ![old] = @ - 1][row] + 1
                                  ELSE [table EXCEPT ![old] = @ - 1][row]
    BY DEF Tables
  <2> QED
    BY <2>1, <2>2, <2>3, <1>3
<1>5. after = [row \in Rows |-> after[row]]
  BY DEF Tables
<1>6. Execute(table, stmt) = [row \in Rows |-> kept(row) + Sum(table, Sources(stmt, row))]
  BY ExecuteUpdate
<1> HIDE DEF after, kept, moved
<1>7. \A row \in Rows : kept(row) + Sum(table, Sources(stmt, row)) = after[row]
  BY <1>2, <1>4
<1>8. Execute(table, stmt) = [row \in Rows |-> after[row]]
  BY <1>6, <1>7
<1> QED
  BY <1>5, <1>8 DEF after

-----------------------------------------------------------------------------
(* What the log holds, and what is decoded from it.                        *)

Made(op, old, new, after, lossy) ==
  [op |-> op, rel |-> rel, old |-> old, new |-> new, after |-> after, lossy |-> lossy]

LEMMA LoggedOldCases ==
  ASSUME NEW op, NEW old, NEW new
  PROVE  /\ rel.ident = "full" => LoggedOld(op, old, new) = old
         /\ rel.ident # "full" /\ ReplidIndex(rel) /\ (op = "DELETE" \/ old.k # new.k) =>
              LoggedOld(op, old, new) = [k |-> old.k, v |-> Null]
         /\ rel.ident # "full" /\ ~(ReplidIndex(rel) /\ (op = "DELETE" \/ old.k # new.k)) =>
              LoggedOld(op, old, new) = NoTuple
<1>1. rel.ident = "full" => ~ReplidIndex(rel)
  BY DEF ReplidIndex
<1>2. CASE rel.ident = "full"
  BY <1>1, <1>2, Zenon DEF LoggedOld
<1>3. CASE rel.ident # "full" /\ ReplidIndex(rel) /\ (op = "DELETE" \/ old.k # new.k)
  BY <1>3, Zenon DEF LoggedOld
<1>4. CASE rel.ident # "full" /\ ~(ReplidIndex(rel) /\ (op = "DELETE" \/ old.k # new.k))
  BY <1>4, Zenon DEF LoggedOld
<1> QED
  BY <1>2, <1>3, <1>4, Zenon

LEMMA InexpressibleCases ==
  ASSUME NEW old
  PROVE  /\ rel.ident = "full" => Inexpressible(old) = (old.v = Null \/ pub[old] > 1)
         /\ rel.ident # "full" /\ ReplidIndex(rel) => Inexpressible(old) = (rel.key = "covering")
         /\ rel.ident # "full" /\ ~ReplidIndex(rel) => Inexpressible(old) = TRUE
<1>1. rel.ident = "full" => ~ReplidIndex(rel)
  BY DEF ReplidIndex
<1>2. CASE rel.ident = "full"
  BY <1>1, <1>2, Zenon DEF Inexpressible
<1>3. CASE rel.ident # "full" /\ ReplidIndex(rel)
  BY <1>3, Zenon DEF Inexpressible
<1>4. CASE rel.ident # "full" /\ ~ReplidIndex(rel)
  BY <1>4, Zenon DEF Inexpressible
<1> QED
  BY <1>2, <1>3, <1>4, Zenon

\* A row is no unchanged pointer, and is a tuple.
LEMMA RowIsTuple ==
  ASSUME NEW row \in Rows
  PROVE  /\ row \in Tuples /\ row # NoTuple /\ row.k \in Keys /\ row.k # Null /\ row.k # Unchanged
         /\ row.v # Unchanged /\ row = [k |-> row.k, v |-> row.v]
         /\ DOMAIN row = {"k", "v"} /\ row["k"] = row.k /\ row["v"] = row.v
<1>1. row \in [k : Keys, v : Plain \cup Toasted \cup {Null, Unchanged}]
  BY DEF Rows
<1>2. row # NoTuple /\ row \in Tuples
  BY <1>1, ConstantsAssumption DEF Tuples
<1>3. row.k # Null /\ row.k # Unchanged /\ row.v # Unchanged
  BY ConstantsAssumption DEF Rows
<1> QED
  BY <1>2, <1>3 DEF Rows

\* The key of a row, as the log holds it.
LEMMA KeyIsTuple ==
  ASSUME NEW row \in Rows
  PROVE  /\ [k |-> row.k, v |-> Null] \in Rows
         /\ [k |-> row.k, v |-> Null] \in Tuples /\ [k |-> row.k, v |-> Null] # NoTuple
<1>1. [k |-> row.k, v |-> Null] \in Rows
  BY DEF Rows
<1> QED
  BY <1>1, RowIsTuple

LEMMA LoggedNewType ==
  ASSUME NEW old \in Rows, NEW new \in Rows
  PROVE  /\ LoggedNew(old, new) \in Tuples /\ LoggedNew(old, new) # NoTuple
         /\ LoggedNew(old, new).k = new.k /\ LoggedNew(old, new)["k"] = new.k
         /\ LoggedNew(old, new).v = LoggedNew(old, new)["v"]
         /\ \/ LoggedNew(old, new).v = Unchanged /\ new.v = old.v
            \/ LoggedNew(old, new).v = new.v
<1>1. CASE new.v = old.v /\ new.v \in Toasted
  <2>1. LoggedNew(old, new) = [new EXCEPT !.v = Unchanged]
    BY <1>1 DEF LoggedNew
  <2>2. [new EXCEPT !.v = Unchanged] = [k |-> new.k, v |-> Unchanged]
    BY DEF Rows
  <2>3. [k |-> new.k, v |-> Unchanged] \in [k : Keys, v : Plain \cup Toasted \cup {Null, Unchanged}]
    BY DEF Rows
  <2>4. LoggedNew(old, new) \in Tuples /\ LoggedNew(old, new) # NoTuple
    BY <2>1, <2>2, <2>3, ConstantsAssumption DEF Tuples
  <2> QED
    BY <2>1, <2>2, <2>4, <1>1
<1>2. CASE ~(new.v = old.v /\ new.v \in Toasted)
  <2>1. LoggedNew(old, new) = new
    BY <1>2 DEF LoggedNew
  <2> QED
    BY <2>1, RowIsTuple
<1> QED
  BY <1>1, <1>2

LEMMA LoggedOldType ==
  ASSUME NEW op, NEW old \in Rows, NEW new \in Rows
  PROVE  LoggedOld(op, old, new) \in Tuples
<1>1. old \in Tuples /\ [k |-> old.k, v |-> Null] \in Tuples /\ NoTuple \in Tuples
  BY RowIsTuple, KeyIsTuple DEF Tuples
<1> QED
  BY <1>1, LoggedOldCases

\* The columns that an UPDATE sets turn the old row into the new one.
LEMMA SetColumns ==
  ASSUME NEW old \in Rows, NEW new \in Rows, NEW r, NEW oldtuple
  PROVE  Overwrite(old, decoder_raw_update(r, oldtuple, LoggedNew(old, new)).set) = new
<1> DEFINE n == LoggedNew(old, new)
           set == [c \in {d \in Columns : n[d] # Unchanged} |-> n[c]]
<1>1. decoder_raw_update(r, oldtuple, n).set = set
  BY DEF decoder_raw_update
<1>2. /\ n["k"] = new.k /\ new.k # Unchanged /\ new.v # Unchanged
      /\ (n["v"] = Unchanged /\ new.v = old.v) \/ n["v"] = new.v
  BY LoggedNewType, RowIsTuple
<1> HIDE DEF n
<1>3. \A c \in Columns : (IF c \in DOMAIN set THEN set[c] ELSE old[c]) =
                         IF n[c] # Unchanged THEN n[c] ELSE old[c]
  OBVIOUS
<1>4. old["k"] = old.k /\ old["v"] = old.v /\ new["k"] = new.k /\ new["v"] = new.v
      /\ DOMAIN new = {"k", "v"}
  BY RowIsTuple
<1>5. \A c \in Columns : (IF n[c] # Unchanged THEN n[c] ELSE old[c]) = new[c]
  BY <1>2, <1>4 DEF Columns
<1>6. Overwrite(old, set) = [c \in Columns |-> new[c]]
  BY <1>3, <1>5 DEF Overwrite
<1>7. new = [c \in Columns |-> new[c]]
  BY <1>4 DEF Columns, Rows
<1> QED
  BY <1>1, <1>6, <1>7 DEF n

-----------------------------------------------------------------------------
(* Each change that the publisher makes is decoded rightly.                *)

Good(table, c) == c \in Changes /\ StopsRightly(c) /\ Faithful(table, c)

LEMMA MadeType ==
  ASSUME NEW op \in Ops, NEW old \in Tuples, NEW new \in Tuples, NEW after \in Tables,
         NEW lossy \in BOOLEAN, rel \in RelTypes
  PROVE  Made(op, old, new, after, lossy) \in Changes
  BY DEF Made, Changes

LEMMA InsertGood ==
  ASSUME NEW row \in Rows, pub \in Tables, rel \in RelTypes
  PROVE  LET after == [pub EXCEPT ![row] = @ + 1]
         IN after \in Tables /\ Good(pub, Made("INSERT", NoTuple, row, after, FALSE))
<1> DEFINE after == [pub EXCEPT ![row] = @ + 1]
           c == Made("INSERT", NoTuple, row, after, FALSE)
<1>1. pub[row] + 1 \in Nat
  BY DEF Tables
<1>2. after \in Tables
  BY <1>1 DEF Tables
<1>3. NoTuple \in Tuples /\ row \in Tuples
  BY RowIsTuple DEF Tuples
<1>4. c \in Changes
  BY <1>2, <1>3, MadeType DEF Ops
<1>5. c.op = "INSERT" /\ c.new = row /\ c.after = after
  BY DEF Made
<1> HIDE DEF c, after
<1>6. Decoded(c) = [op |-> "INSERT", set |-> row, where |-> <<>>]
  BY <1>5 DEF Decoded, decoder_raw_insert
<1>7. ~Fails(c)
  BY <1>5, <1>6 DEF Fails, NoSelectivity, Rejected
<1>8. Execute(pub, Decoded(c)) = after
  BY <1>6, ExecuteInsert DEF after
<1>9. ~Skipped(c)
  BY <1>5 DEF Skipped
<1> QED
  BY <1>2, <1>4, <1>5, <1>7, <1>8, <1>9 DEF Good, StopsRightly, Faithful, c, after

LEMMA TruncateGood ==
  ASSUME rel \in RelTypes
  PROVE  Empty \in Tables /\ Good(pub, Made("TRUNCATE", NoTuple, NoTuple, Empty, FALSE))
<1> DEFINE c == Made("TRUNCATE", NoTuple, NoTuple, Empty, FALSE)
<1>1. Empty \in Tables
  BY DEF Tables, Empty
<1>2. c \in Changes
  BY <1>1, MadeType DEF Ops, Tuples
<1>3. c.op = "TRUNCATE" /\ c.after = Empty
  BY DEF Made
<1> HIDE DEF c
<1>4. Decoded(c) = [op |-> "TRUNCATE", set |-> <<>>, where |-> <<>>]
  BY <1>3 DEF Decoded, decoder_raw_truncate
<1>5. ~Fails(c)
  BY <1>3, <1>4 DEF Fails, NoSelectivity, Rejected
<1>6. Execute(pub, Decoded(c)) = Empty
  BY <1>4, ExecuteTruncate
<1>7. ~Skipped(c)
  BY <1>3 DEF Skipped
<1> QED
  BY <1>1, <1>2, <1>3, <1>5, <1>6, <1>7 DEF Good, StopsRightly, Faithful, c

\* The WHERE clause of an expressible change selects the row that it is about.
LEMMA FullSelects ==
  ASSUME pub \in Tables, NEW old \in Rows, pub[old] = 1, old.v # Null
  PROVE  Selects(pub, old, old)
<1>1. old.k # Null /\ DOMAIN old = {"k", "v"} /\ old["k"] = old.k /\ old["v"] = old.v
  BY RowIsTuple
<1>2. Matches(old, old)
  BY <1>1 DEF Matches
<1>3. ASSUME NEW row \in Rows, Matches(row, old) PROVE row = old
  <2>1. row["k"] = old["k"] /\ row["v"] = old["v"]
    BY <1>1, <1>3 DEF Matches
  <2>2. row.k = old.k /\ row.v = old.v
    BY <2>1, <1>1, RowIsTuple
  <2> QED
    BY <2>2, RowIsTuple
<1> QED
  BY <1>2, <1>3 DEF Selects

LEMMA KeySelects ==
  ASSUME pub \in Tables, NEW old \in Rows, pub[old] > 0, Unique(pub),
         NEW where, DOMAIN where = {"k"}, where["k"] = old.k
  PROVE  Selects(pub, where, old)
<1>1. old["k"] = old.k /\ old.k # Null /\ \A row \in Rows : row["k"] = row.k
  BY RowIsTuple
<1>2. \A row \in Rows : Matches(row, where) <=> row.k = old.k
  BY <1>1 DEF Matches
<1>3. pub[old] = 1 /\ \A row \in Rows : row.k = old.k /\ row # old => pub[row] = 0
  BY DEF Unique
<1> QED
  BY <1>2, <1>3 DEF Selects

\* A WHERE clause holds an unchanged pointer only if it is made of a covering key, out
\* of the new tuple.
LEMMA WhereClause ==
  ASSUME rel \in RelTypes, pub \in Tables, KeyUnique, NEW op, NEW old \in Rows, NEW new \in Rows,
         pub[old] > 0, NEW other, op = "DELETE" \/ other["k"] = new.k
  PROVE  LET oldtuple == LoggedOld(op, old, new)
             where == print_where_clause(rel, oldtuple, other)
         IN /\ ~Inexpressible(old) => ~is_rel_non_selective(rel) /\ Selects(pub, where, old)
            /\ rel.ident = "full" => oldtuple # NoTuple
            /\ \A c \in DOMAIN where : where[c] = Unchanged =>
                 \/ ReplidIndex(rel) /\ rel.key = "covering" /\ op # "DELETE" /\ other["v"] = Unchanged
                 \/ ~ReplidIndex(rel) /\ rel.ident # "full"
<1> DEFINE oldtuple == LoggedOld(op, old, new)
           where == print_where_clause(rel, oldtuple, other)
           key == [k |-> old.k, v |-> Null]
           tuple == IF oldtuple # NoTuple THEN oldtuple ELSE other
<1>1. CASE rel.ident = "full"
  <2>1. oldtuple = old /\ ~ReplidIndex(rel)
    BY <1>1, LoggedOldCases DEF ReplidIndex
  <2>2. where = old
    BY <2>1 DEF print_where_clause
  <2>3. ASSUME ~Inexpressible(old) PROVE Selects(pub, old, old)
    <3>1. old.v # Null /\ ~(pub[old] > 1)
      BY <1>1, <2>3, InexpressibleCases
    <3>2. pub[old] = 1
      BY <3>1 DEF Tables
    <3> QED
      BY <3>1, <3>2, FullSelects
  <2>4. ~is_rel_non_selective(rel)
    BY <1>1 DEF is_rel_non_selective
  <2>5. \A c \in DOMAIN old : old[c] # Unchanged
    BY RowIsTuple
  <2>6. oldtuple # NoTuple
    BY <2>1, RowIsTuple
  <2> QED
    BY <2>2, <2>3, <2>4, <2>5, <2>6
<1>2. CASE rel.ident # "full" /\ ReplidIndex(rel)
  <2>1. ~is_rel_non_selective(rel) /\ rel.key # "none"
    BY <1>2 DEF is_rel_non_selective, ReplidIndex
  <2>2. oldtuple = IF op = "DELETE" \/ old.k # new.k THEN key ELSE NoTuple
    BY <1>2, LoggedOldCases
  <2>3. key # NoTuple /\ key \in Rows /\ key["k"] = old.k /\ key["v"] = Null /\ Null # Unchanged
    BY KeyIsTuple, ConstantsAssumption
  <2>4. tuple = IF op = "DELETE" \/ old.k # new.k THEN key ELSE other
    BY <2>2, <2>3
  <2>5. tuple["k"] = old.k /\ (tuple["v"] = Unchanged => op # "DELETE" /\ other["v"] = Unchanged)
    BY <2>3, <2>4
  <2>6. old.k # Unchanged
    BY RowIsTuple
  <2>7. where = [c \in IndexColumns(rel) |-> tuple[c]]
    BY <1>2 DEF print_where_clause
  <2> HIDE DEF tuple, oldtuple, key
  <2>8. CASE rel.key = "covering"
    <3>1. Inexpressible(old)
      BY <1>2, <2>8, InexpressibleCases
    <3>2. IndexColumns(rel) = {"k", "v"}
      BY <2>8 DEF IndexColumns, Columns
    <3> HIDE DEF where
    <3>3. ASSUME NEW c \in DOMAIN where, where[c] = Unchanged PROVE op # "DELETE" /\ other["v"] = Unchanged
      BY <3>2, <3>3, <2>5, <2>6, <2>7
    <3> QED
      BY <1>2, <2>8, <3>1, <3>3 DEF where, oldtuple
  <2>9. CASE rel.key # "covering"
    <3>1. IndexColumns(rel) = {"k"}
      BY <2>9 DEF IndexColumns
    <3> HIDE DEF where
    <3>2. DOMAIN where = {"k"} /\ where["k"] = old.k
      BY <3>1, <2>5, <2>7
    <3>3. Selects(pub, where, old)
      BY <3>2, <2>1, KeySelects DEF KeyUnique
    <3> QED
      BY <1>2, <2>1, <2>6, <3>2, <3>3 DEF where, oldtuple
  <2> QED
    BY <2>8, <2>9
<1>3. CASE rel.ident # "full" /\ ~ReplidIndex(rel)
  BY <1>3, InexpressibleCases
<1> QED
  BY <1>1, <1>2, <1>3

\* So a change fails only for a reason that FailsOnlyOnIndex allows.
LEMMA FailsForIndex ==
  ASSUME NEW c, c.op \in {"UPDATE", "DELETE"}, c.rel = rel, rel \in RelTypes,
         rel.ident = "full" => c.old # NoTuple,
         \A d \in DOMAIN Decoded(c).where : Decoded(c).where[d] = Unchanged =>
           \/ ReplidIndex(rel) /\ rel.key = "covering" /\ c.op # "DELETE" /\ c.new.v = Unchanged
           \/ ~ReplidIndex(rel) /\ rel.ident # "full",
         Fails(c)
  PROVE  \/ rel.ident = "index" /\ rel.key = "none"
         \/ c.op = "UPDATE" /\ rel.key = "covering" /\ c.new.v = Unchanged
<1>1. CASE ReplidIndex(rel)
  BY <1>1 DEF Fails, NoSelectivity, Rejected
<1>2. CASE ~ReplidIndex(rel) /\ rel.ident = "full"
  BY <1>2 DEF Fails, NoSelectivity, Rejected
<1>3. CASE ~ReplidIndex(rel) /\ rel.ident # "full"
  <2>1. ~is_rel_non_selective(rel)
    BY DEF Fails, NoSelectivity, Skipped
  <2> QED
    BY <1>3, <2>1 DEF is_rel_non_selective, ReplidIndex, RelTypes, Idents, KeyKinds
<1> QED
  BY <1>1, <1>2, <1>3

LEMMA DeleteGood ==
  ASSUME NEW old \in Rows, pub \in Tables, rel \in RelTypes, KeyUnique, pub[old] > 0
  PROVE  LET after == [pub EXCEPT ![old] = @ - 1]
         IN after \in Tables
            /\ Good(pub, Made("DELETE", LoggedOld("DELETE", old, old), NoTuple, after, Inexpressible(old)))
<1> DEFINE after == [pub EXCEPT ![old] = @ - 1]
           oldtuple == LoggedOld("DELETE", old, old)
           where == print_where_clause(rel, oldtuple, oldtuple)
           c == Made("DELETE", oldtuple, NoTuple, after, Inexpressible(old))
<1>1. pub[old] - 1 \in Nat
  BY DEF Tables
<1>2. after \in Tables
  BY <1>1 DEF Tables
<1>3. Inexpressible(old) \in BOOLEAN
  BY InexpressibleCases
<1>4. oldtuple \in Tuples /\ NoTuple \in Tuples
  BY LoggedOldType DEF Tuples
<1> HIDE DEF after, oldtuple
<1>5. c \in Changes
  BY <1>2, <1>3, <1>4, MadeType DEF Ops
<1>6. /\ c.op = "DELETE" /\ c.rel = rel /\ c.old = oldtuple /\ c.after = after
      /\ c.lossy = Inexpressible(old)
  BY DEF Made
<1> HIDE DEF c
<1>7. Decoded(c) = [op |-> "DELETE", set |-> <<>>, where |-> where]
  BY <1>6 DEF Decoded, decoder_raw_delete
<1>8. /\ ~Inexpressible(old) => ~is_rel_non_selective(rel) /\ Selects(pub, where, old)
      /\ rel.ident = "full" => oldtuple # NoTuple
      /\ \A d \in DOMAIN where : where[d] = Unchanged => ~ReplidIndex(rel) /\ rel.ident # "full"
  BY WhereClause DEF oldtuple
<1> HIDE DEF where
<1>9. StopsRightly(c)
  <2>1. Decoded(c).where = where
    BY <1>7
  <2> QED
    BY <1>6, <1>8, <2>1, FailsForIndex DEF StopsRightly
<1>10. Faithful(pub, c)
  <2>1. SUFFICES ASSUME ~Inexpressible(old) PROVE ~Skipped(c) /\ Execute(pub, Decoded(c)) = after
    BY <1>6 DEF Faithful
  <2>2. ~Skipped(c)
    BY <2>1, <1>6, <1>8 DEF Skipped
  <2>3. Decoded(c).op = "DELETE" /\ Decoded(c).where = where
    BY <1>7
  <2>4. Execute(pub, Decoded(c)) = after
    BY <2>1, <2>3, <1>8, DeletesOne DEF after
  <2> QED
    BY <2>2, <2>4
<1> QED
  BY <1>2, <1>5, <1>9, <1>10 DEF Good, c, after, oldtuple

LEMMA UpdateGood ==
  ASSUME NEW old \in Rows, NEW new \in Rows, pub \in Tables, rel \in RelTypes, KeyUnique, pub[old] > 0
  PROVE  LET after == [[pub EXCEPT ![old] = @ - 1] EXCEPT ![new] = @ + 1]
         IN after \in Tables
            /\ Good(pub, Made("UPDATE", LoggedOld("UPDATE", old, new), LoggedNew(old, new), after,
                              Inexpressible(old)))
<1> DEFINE without == [pub EXCEPT ![old] = @ - 1]
           after == [without EXCEPT ![new] = @ + 1]
           oldtuple == LoggedOld("UPDATE", old, new)
           newtuple == LoggedNew(old, new)
           where == print_where_clause(rel, oldtuple, newtuple)
           c == Made("UPDATE", oldtuple, newtuple, after, Inexpressible(old))
<1>1. without \in Tables
  <2>1. pub[old] - 1 \in Nat
    BY DEF Tables
  <2> QED
    BY <2>1 DEF Tables
<1>2. after \in Tables
  <2> HIDE DEF without
  <2>1. without[new] + 1 \in Nat
    BY <1>1 DEF Tables
  <2> QED
    BY <1>1, <2>1 DEF Tables
<1>3. Inexpressible(old) \in BOOLEAN
  BY InexpressibleCases
<1>4. oldtuple \in Tuples /\ newtuple \in Tuples /\ newtuple["k"] = new.k /\ newtuple["v"] = newtuple.v
  BY LoggedOldType, LoggedNewType
<1>5. Overwrite(old, decoder_raw_update(rel, oldtuple, newtuple).set) = new
  BY SetColumns
<1> HIDE DEF after, oldtuple, newtuple
<1>6. c \in Changes
  BY <1>2, <1>3, <1>4, MadeType DEF Ops
<1>7. /\ c.op = "UPDATE" /\ c.rel = rel /\ c.old = oldtuple /\ c.new = newtuple /\ c.after = after
      /\ c.lossy = Inexpressible(old)
  BY DEF Made
<1> HIDE DEF c
<1>8. Decoded(c) = decoder_raw_update(rel, oldtuple, newtuple)
  BY <1>7 DEF Decoded
<1>9. Decoded(c).op = "UPDATE" /\ Decoded(c).where = where /\ Overwrite(old, Decoded(c).set) = new
  BY <1>5, <1>8 DEF decoder_raw_update
<1>10. /\ ~Inexpressible(old) => ~is_rel_non_selective(rel) /\ Selects(pub, where, old)
       /\ rel.ident = "full" => oldtuple # NoTuple
       /\ \A d \in DOMAIN where : where[d] = Unchanged =>
            \/ ReplidIndex(rel) /\ rel.key = "covering" /\ newtuple["v"] = Unchanged
            \/ ~ReplidIndex(rel) /\ rel.ident # "full"
  BY <1>4, WhereClause DEF oldtuple
<1> HIDE DEF where
<1>11. StopsRightly(c)
  BY <1>4, <1>7, <1>9, <1>10, FailsForIndex DEF StopsRightly
<1>12. Faithful(pub, c)
  <2>1. SUFFICES ASSUME ~Inexpressible(old) PROVE ~Skipped(c) /\ Execute(pub, Decoded(c)) = after
    BY <1>7 DEF Faithful
  <2>2. ~Skipped(c)
    BY <2>1, <1>7, <1>10 DEF Skipped
  <2>3. Execute(pub, Decoded(c)) = after
    BY <2>1, <1>9, <1>10, UpdatesOne DEF after
  <2> QED
    BY <2>2, <2>3
<1> QED
  BY <1>2, <1>6, <1>11, <1>12 DEF Good, c, after, oldtuple, newtuple

-----------------------------------------------------------------------------
(* The publisher's steps.                                                  *)

\* Uniqueness of the key, row by row.
LEMMA UniqueDelete ==
  ASSUME NEW table \in Tables, NEW old \in Rows, table[old] > 0, Unique(table)
  PROVE  Unique([table EXCEPT ![old] = @ - 1])
<1> DEFINE after == [table EXCEPT ![old] = @ - 1]
<1>1. \A row \in Rows : after[row] = (IF row = old THEN table[row] - 1 ELSE table[row]) /\ table[row] \in Nat
  BY DEF Tables
<1>2. table[old] = 1
  BY DEF Unique
<1> HIDE DEF after
<1>3. Unique(after)
  BY <1>1, <1>2 DEF Unique
<1> QED
  BY <1>3 DEF after

LEMMA UniqueInsert ==
  ASSUME NEW table \in Tables, NEW new \in Rows, Unique(table),
         \A row \in Rows : row.k = new.k => table[row] = 0
  PROVE  Unique([table EXCEPT ![new] = @ + 1])
<1> DEFINE after == [table EXCEPT ![new] = @ + 1]
<1>1. \A row \in Rows : after[row] = (IF row = new THEN table[row] + 1 ELSE table[row]) /\ table[row] \in Nat
  BY DEF Tables
<1>2. table[new] = 0
  OBVIOUS
<1> HIDE DEF after
<1>3. ASSUME NEW row \in Rows, after[row] > 0
      PROVE  after[row] = 1 /\ \A other \in Rows : other.k = row.k /\ other # row => after[other] = 0
  <2>1. CASE row = new
    BY <2>1, <1>1, <1>2
  <2>2. CASE row # new
    <3>1. table[row] > 0 /\ row.k # new.k
      BY <2>2, <1>1, <1>3
    <3> QED
      BY <3>1, <2>2, <1>1 DEF Unique
  <2> QED
    BY <2>1, <2>2
<1>4. Unique(after)
  BY <1>3 DEF Unique
<1> QED
  BY <1>4 DEF after

\* No two rows of a key, if the rows of each key are one in all.
LEMMA UniqueBySum ==
  ASSUME pub \in Tables,
         \A k \in Keys : MapThenSumSet(LAMBDA row : pub[row], {row \in Rows : row.k = k}) <= 1
  PROVE  Unique(pub)
<1> SUFFICES ASSUME NEW row \in Rows, pub[row] > 0
             PROVE  pub[row] = 1 /\ \A other \in Rows : other.k = row.k /\ other # row => pub[other] = 0
  BY DEF Unique
<1> DEFINE S == {r \in Rows : r.k = row.k}
<1>1. Sum(pub, S) <= 1
  BY RowIsTuple DEF Sum
<1>2. IsFiniteSet(S) /\ \A r \in S : pub[r] \in Nat
  BY RowsFinite, FS_Subset DEF Tables
<1>3. row \in S /\ \A other \in Rows : other.k = row.k => other \in S
  OBVIOUS
<1> HIDE DEF S
<1>4. /\ Sum(pub, S) \in Nat /\ \A x \in S : pub[x] <= Sum(pub, S)
      /\ \A x, y \in S : x # y => pub[x] + pub[y] <= Sum(pub, S)
  BY <1>2, SumBounds
<1>5. pub[row] = 1
  BY <1>1, <1>2, <1>3, <1>4
<1>6. ASSUME NEW other \in Rows, other.k = row.k, other # row PROVE pub[other] = 0
  <2>1. other \in S /\ pub[other] \in Nat
    BY <1>2, <1>3, <1>6
  <2>2. pub[row] + pub[other] <= Sum(pub, S)
    BY <2>1, <1>3, <1>4, <1>6
  <2> QED
    BY <2>1, <2>2, <1>1, <1>4, <1>5
<1> QED
  BY <1>5, <1>6

LEMMA AppendSound ==
  ASSUME NEW before, NEW changes \in Seq(Changes), Sound(before, changes),
         NEW table, table = TableAt(before, changes, Len(changes) + 1), NEW c, Good(table, c)
  PROVE  LET more == Append(changes, c)
         IN /\ more \in Seq(Changes) /\ Sound(before, more)
            /\ c.after = TableAt(before, more, Len(more) + 1)
<1> DEFINE more == Append(changes, c)
<1>1. more \in Seq(Changes) /\ Len(more) = Len(changes) + 1 /\ Len(changes) \in Nat
  BY DEF Good
<1>2. \A i \in 1..Len(changes) : more[i] = changes[i]
  OBVIOUS
<1>3. more[Len(more)] = c
  BY <1>1
<1> HIDE DEF more
<1>4. \A i \in 1..Len(more) : TableAt(before, more, i) = TableAt(before, changes, i)
  <2> TAKE i \in 1..Len(more)
  <2>1. i # 1 => i - 1 \in 1..Len(changes)
    BY <1>1
  <2> QED
    BY <2>1, <1>2 DEF TableAt
<1>5. ASSUME NEW i \in 1..Len(more)
      PROVE  StopsRightly(more[i]) /\ Faithful(TableAt(before, more, i), more[i])
  <2>1. CASE i = Len(more)
    BY <2>1, <1>1, <1>3, <1>4 DEF Good
  <2>2. CASE i # Len(more)
    <3>1. i \in 1..Len(changes)
      BY <2>2, <1>1
    <3> QED
      BY <3>1, <1>2, <1>4 DEF Sound
  <2> QED
    BY <2>1, <2>2
<1>6. c.after = TableAt(before, more, Len(more) + 1)
  BY <1>1, <1>3 DEF TableAt
<1> QED
  BY <1>1, <1>5, <1>6 DEF Sound, more

LEMMA ChangeStep ==
  ASSUME IInv, NEW op, NEW old, NEW new, NEW after \in Tables, NEW lossy,
         Change(op, old, new, after, lossy), Good(pub, Made(op, old, new, after, lossy)),
         rel.key # "none" => Unique(after)
  PROVE  IInv'
<1> DEFINE c == Made(op, old, new, after, lossy)
<1>1. open' = Append(open, c) /\ pub' = after /\ c.after = after
  BY DEF Change, Made
<1>2. UNCHANGED <<rel, base, queue, session, include_transaction, pos, sub, work, tainted>>
  BY DEF Change, subVars
<1> HIDE DEF c
<1>3. open' \in Seq(Changes) /\ Sound(base, open') /\ after = TableAt(base, open', Len(open') + 1)
  <2>1. open \in Seq(Changes) /\ Sound(base, open) /\ pub = TableAt(base, open, Len(open) + 1)
    BY DEF IInv, OpenSound
  <2>2. Good(pub, c)
    BY DEF c
  <2> QED
    BY <1>1, <2>1, <2>2, AppendSound
<1>4. OpenSound'
  BY <1>1, <1>2, <1>3 DEF OpenSound
<1>5. TypeOK'
  BY <1>1, <1>2 DEF IInv, TypeOK, Tables
<1>6. KeyUnique'
  BY <1>1, <1>2 DEF KeyUnique
<1>7. QueueSound' /\ Position' /\ InSync' /\ (queue \in Seq(Txns))'
  BY <1>2 DEF IInv, QueueSound, Position, InSync, Replayed
<1> QED
  BY <1>3, <1>4, <1>5, <1>6, <1>7 DEF IInv

LEMMA Typed == ASSUME IInv PROVE pub \in Tables /\ rel \in RelTypes /\ KeyUnique
  BY DEF IInv, TypeOK, Tables, RelTypes

LEMMA InsertStep == ASSUME IInv, NEW row \in Rows, PubInsert(row) PROVE IInv'
<1> DEFINE after == [pub EXCEPT ![row] = @ + 1]
<1>1. Change("INSERT", NoTuple, row, after, FALSE)
  BY DEF PubInsert
<1>2. after \in Tables /\ Good(pub, Made("INSERT", NoTuple, row, after, FALSE))
  BY Typed, InsertGood
<1>3. rel.key # "none" => Unique(after)
  BY Typed, UniqueInsert DEF KeyUnique, PubInsert, KeyFree
<1> HIDE DEF after
<1> QED
  BY <1>1, <1>2, <1>3, ChangeStep

LEMMA DeleteStep == ASSUME IInv, NEW old \in Rows, PubDelete(old) PROVE IInv'
<1> DEFINE after == [pub EXCEPT ![old] = @ - 1]
           oldtuple == LoggedOld("DELETE", old, old)
<1>1. pub[old] > 0 /\ Change("DELETE", oldtuple, NoTuple, after, Inexpressible(old))
  BY DEF PubDelete
<1>2. after \in Tables /\ Good(pub, Made("DELETE", oldtuple, NoTuple, after, Inexpressible(old)))
  BY <1>1, Typed, DeleteGood
<1>3. rel.key # "none" => Unique(after)
  BY <1>1, Typed, UniqueDelete DEF KeyUnique
<1> HIDE DEF after, oldtuple
<1> QED
  BY <1>1, <1>2, <1>3, ChangeStep

LEMMA UpdateStep == ASSUME IInv, NEW old \in Rows, NEW new \in Rows, PubUpdate(old, new) PROVE IInv'
<1> DEFINE without == [pub EXCEPT ![old] = @ - 1]
           after == [without EXCEPT ![new] = @ + 1]
           oldtuple == LoggedOld("UPDATE", old, new)
           newtuple == LoggedNew(old, new)
<1>1. /\ pub[old] > 0 /\ KeyFree(without, new.k)
      /\ Change("UPDATE", oldtuple, newtuple, after, Inexpressible(old))
  BY DEF PubUpdate
<1>2. after \in Tables /\ Good(pub, Made("UPDATE", oldtuple, newtuple, after, Inexpressible(old)))
  BY <1>1, Typed, UpdateGood
<1>3. ASSUME rel.key # "none" PROVE Unique(after)
  <2>1. Unique(without)
    BY <1>1, <1>3, Typed, UniqueDelete DEF KeyUnique
  <2>2. without \in Tables
    BY <1>1, Typed, DeleteGood
  <2>3. \A row \in Rows : row.k = new.k => without[row] = 0
    BY <1>1, <1>3 DEF KeyFree
  <2> HIDE DEF without
  <2> QED
    BY <2>1, <2>2, <2>3, UniqueInsert
<1> HIDE DEF after, oldtuple, newtuple
<1> QED
  BY <1>1, <1>2, <1>3, ChangeStep

LEMMA TruncateStep == ASSUME IInv, PubTruncate PROVE IInv'
<1>1. Unique(Empty)
  BY DEF Unique, Empty
<1> QED
  BY <1>1, Typed, TruncateGood, ChangeStep DEF PubTruncate

LEMMA DdlStep ==
  ASSUME IInv, NEW ident \in Idents, NEW key \in KeyKinds, PubDdl(ident, key)
  PROVE  IInv'
<1>1. UNCHANGED <<pub, base, open, queue, session, include_transaction, pos, sub, work, tainted>>
  BY DEF PubDdl, subVars
<1>2. rel' = [ident |-> ident, key |-> key] /\ rel' \in RelTypes
  BY DEF PubDdl, RelTypes
<1>3. KeyUnique'
  <2>1. SUFFICES ASSUME key # "none" PROVE Unique(pub)
    BY <1>1, <1>2 DEF KeyUnique, Unique
  <2>2. \A k \in Keys : MapThenSumSet(LAMBDA row : pub[row], {row \in Rows : row.k = k}) <= 1
    BY <2>1 DEF PubDdl
  <2> QED
    BY <2>2, Typed, UniqueBySum
<1>4. TypeOK'
  BY <1>1, <1>2 DEF IInv, TypeOK, RelTypes
<1>5. OpenSound' /\ QueueSound' /\ Position' /\ InSync' /\ (queue \in Seq(Txns))' /\ (open \in Seq(Changes))'
  BY <1>1 DEF IInv, OpenSound, QueueSound, Position, InSync, Replayed
<1> QED
  BY <1>3, <1>4, <1>5 DEF IInv

LEMMA CommitStep == ASSUME IInv, PubCommit PROVE IInv'
<1> DEFINE txn == [before |-> base, changes |-> open]
<1>1. /\ open # <<>> /\ queue' = Append(queue, txn) /\ base' = pub /\ open' = <<>>
      /\ UNCHANGED <<rel, pub, session, include_transaction, pos, sub, work, tainted>>
  BY DEF PubCommit, subVars
<1>2. /\ TypeOK /\ open \in Seq(Changes) /\ queue \in Seq(Txns) /\ QueueSound
      /\ Sound(base, open) /\ pub = TableAt(base, open, Len(open) + 1) /\ KeyUnique
      /\ Position /\ InSync
  BY DEF IInv, OpenSound
<1>3. Len(open) \in Nat /\ Len(open) > 0 /\ Len(queue) \in Nat
  BY <1>1, <1>2
<1>4. open[Len(open)].after = pub
  BY <1>2, <1>3 DEF TableAt
<1>5. txn.before = base /\ txn.changes = open /\ txn \in Txns
  BY <1>2 DEF Txns, TypeOK, Tables
<1> HIDE DEF txn
<1>6. /\ queue' \in Seq(Txns) /\ Len(queue') = Len(queue) + 1 /\ queue'[Len(queue) + 1] = txn
      /\ \A n \in 1..Len(queue) : queue'[n] = queue[n]
  BY <1>1, <1>2, <1>5
<1>7. QueueSound'
  <2>1. ASSUME NEW n \in 1..Len(queue')
        PROVE  /\ Len(queue'[n].changes) > 0 /\ Sound(queue'[n].before, queue'[n].changes)
               /\ queue'[n].changes[Len(queue'[n].changes)].after =
                    IF n < Len(queue') THEN queue'[n + 1].before ELSE base'
    <3>1. CASE n = Len(queue')
      BY <3>1, <1>1, <1>2, <1>3, <1>4, <1>5, <1>6
    <3>2. CASE n # Len(queue')
      <4>1. n \in 1..Len(queue) /\ n < Len(queue')
        BY <3>2, <1>3, <1>6
      <4>2. /\ Len(queue[n].changes) > 0 /\ Sound(queue[n].before, queue[n].changes)
            /\ queue[n].changes[Len(queue[n].changes)].after =
                 IF n < Len(queue) THEN queue[n + 1].before ELSE base
        BY <4>1, <1>2 DEF QueueSound
      <4>3. queue'[n] = queue[n]
        BY <4>1, <1>6
      <4>4. (IF n < Len(queue) THEN queue[n + 1].before ELSE base) = queue'[n + 1].before
        BY <4>1, <1>3, <1>5, <1>6
      <4> QED
        BY <4>1, <4>2, <4>3, <4>4
    <3> QED
      BY <3>1, <3>2
  <2> QED
    BY <2>1, <1>6 DEF QueueSound, Sound
<1>8. OpenSound'
  BY <1>1 DEF OpenSound, Sound, TableAt
<1>9. TypeOK' /\ KeyUnique' /\ (open \in Seq(Changes))'
  <2>1. queue' # <<>>
    BY <1>3, <1>6
  <2> QED
    BY <2>1, <1>1, <1>2 DEF TypeOK, KeyUnique
<1>10. queue' # <<>> /\ Head(queue') = queue'[1] /\ (queue # <<>> => Head(queue) = queue[1])
  BY <1>3, <1>6, <1>2
<1>11. CASE queue = <<>>
  <2>1. queue'[1] = txn /\ pos = 0 /\ session # "failed"
    BY <1>11, <1>2, <1>6 DEF TypeOK, Position
  <2>2. Position'
    BY <2>1, <1>1, <1>2, <1>3, <1>5 DEF Position
  <2>3. Replayed(TRUE) = base /\ Replayed(FALSE) = base
    BY <1>11 DEF Replayed
  <2>4. Replayed(TRUE)' = base /\ Replayed(FALSE)' = base
    BY <2>1, <1>1, <1>5, <1>10 DEF Replayed
  <2>5. InSync'
    BY <2>3, <2>4, <1>1, <1>2 DEF InSync
  <2> QED
    BY <2>2, <2>5, <1>6, <1>7, <1>8, <1>9 DEF IInv
<1>12. CASE queue # <<>>
  <2>1. queue'[1] = queue[1]
    BY <1>12, <1>2, <1>3, <1>6
  <2>2. Position'
    BY <2>1, <1>1, <1>2, <1>12 DEF Position, Fails
  <2>3. Replayed(TRUE)' = Replayed(TRUE) /\ Replayed(FALSE)' = Replayed(FALSE)
    BY <2>1, <1>1, <1>10, <1>12 DEF Replayed
  <2>4. InSync'
    BY <2>3, <1>1, <1>2 DEF InSync
  <2> QED
    BY <2>2, <2>4, <1>6, <1>7, <1>8, <1>9 DEF IInv
<1> QED
  BY <1>11, <1>12

-----------------------------------------------------------------------------
(* The decoder's steps.                                                    *)

LEMMA StartupStep == ASSUME IInv, NEW options, decoder_raw_startup(options) PROVE IInv'
<1>1. /\ session = "off" /\ session' = "on" /\ include_transaction' \in BOOLEAN
      /\ UNCHANGED <<rel, pub, base, open, queue, pos, sub, work, tainted>>
  BY DEF decoder_raw_startup, OptionOn, pubVars, subVars
<1>2. pos = 0 /\ work = sub
  BY <1>1 DEF IInv, Position
<1>3. Replayed(TRUE)' = Replayed(TRUE) /\ Replayed(FALSE)' = Replayed(TRUE)
  BY <1>1, <1>2 DEF Replayed
<1>4. InSync'
  BY <1>1, <1>2, <1>3 DEF IInv, InSync
<1>5. TypeOK' /\ Position'
  BY <1>1 DEF IInv, TypeOK, Position
<1>6. OpenSound' /\ QueueSound' /\ KeyUnique' /\ (queue \in Seq(Txns))' /\ (open \in Seq(Changes))'
  BY <1>1 DEF IInv, OpenSound, QueueSound, KeyUnique
<1> QED
  BY <1>4, <1>5, <1>6 DEF IInv

LEMMA ShutdownStep == ASSUME IInv, decoder_raw_shutdown PROVE IInv'
<1>1. /\ session = "on" /\ session' = "off" /\ pos' = 0 /\ work' = sub
      /\ tainted' = (tainted \/ (~include_transaction /\ pos > 1))
      /\ UNCHANGED <<rel, pub, base, open, queue, include_transaction, sub>>
  BY DEF decoder_raw_shutdown, pubVars
<1>2. pos \in Nat /\ tainted \in BOOLEAN /\ include_transaction \in BOOLEAN /\ queue \in Seq(Txns)
  BY DEF IInv, TypeOK
<1>3. ASSUME ~tainted' PROVE sub = Replayed(TRUE)'
  <2>1. ~tainted /\ (include_transaction \/ pos <= 1)
    <3>1. ~tainted /\ (include_transaction \/ ~(pos > 1))
      BY <1>1, <1>3, Zenon
    <3> QED
      BY <3>1, <1>2
  <2>2. Replayed(TRUE)' = Replayed(TRUE)
    BY <2>1, <1>1, <1>2 DEF Replayed
  <2> QED
    BY <2>1, <2>2 DEF IInv, InSync
<1>4. InSync'
  BY <1>1, <1>3 DEF InSync
<1>5. TypeOK'
  BY <1>1, <1>2 DEF IInv, TypeOK
<1>6. Position'
  <2>1. queue # <<>> => Len(queue[1].changes) \in Nat
    BY <1>2 DEF Txns
  <2> QED
    BY <2>1, <1>1 DEF Position
<1>7. OpenSound' /\ QueueSound' /\ KeyUnique' /\ (queue \in Seq(Txns))' /\ (open \in Seq(Changes))'
  BY <1>1 DEF IInv, OpenSound, QueueSound, KeyUnique
<1> QED
  BY <1>4, <1>5, <1>6, <1>7 DEF IInv

LEMMA BeginStep == ASSUME IInv, decoder_raw_begin_txn PROVE IInv'
<1>1. /\ session = "on" /\ queue # <<>> /\ pos = 0 /\ pos' = 1
      /\ UNCHANGED <<rel, pub, base, open, queue, session, include_transaction, sub, work, tainted>>
  BY DEF decoder_raw_begin_txn, pubVars, subVars
<1>2. Replayed(TRUE)' = Replayed(TRUE) /\ Replayed(FALSE)' = Replayed(FALSE)
  BY <1>1 DEF Replayed
<1>3. InSync' /\ TypeOK'
  BY <1>1, <1>2 DEF IInv, InSync, TypeOK
<1>4. Len(queue[1].changes) \in Nat
  BY <1>1 DEF IInv, Txns
<1>5. Position'
  BY <1>1, <1>4 DEF Position
<1>6. OpenSound' /\ QueueSound' /\ KeyUnique' /\ (queue \in Seq(Txns))' /\ (open \in Seq(Changes))'
  BY <1>1 DEF IInv, OpenSound, QueueSound, KeyUnique
<1> QED
  BY <1>3, <1>5, <1>6 DEF IInv

LEMMA ChangeCallbackStep == ASSUME IInv, decoder_raw_change PROVE IInv'
<1> DEFINE txn == queue[1]
           c == txn.changes[pos]
<1>1. /\ session = "on" /\ queue # <<>> /\ queue \in Seq(Txns) /\ Head(queue) = txn
      /\ txn \in Txns /\ Len(txn.changes) \in Nat /\ pos \in 1..Len(txn.changes)
  <2>1. session = "on" /\ queue # <<>> /\ queue \in Seq(Txns) /\ pos \in 1..Len(Head(queue).changes)
    BY DEF decoder_raw_change, IInv
  <2>2. Head(queue) = queue[1] /\ queue[1] \in Txns
    BY <2>1
  <2>3. Len(txn.changes) \in Nat
    BY <2>2 DEF Txns
  <2> QED
    BY <2>1, <2>2, <2>3
<1>2. UNCHANGED <<rel, pub, base, open, queue, include_transaction>>
  BY DEF decoder_raw_change, pubVars
<1>3. c \in Changes
  BY <1>1 DEF Txns
<1>4. StopsRightly(c) /\ Faithful(TableAt(txn.before, txn.changes, pos), c)
  <2>1. QueueSound /\ 1 \in 1..Len(queue)
    BY <1>1 DEF IInv
  <2>2. Sound(txn.before, txn.changes)
    BY <2>1 DEF QueueSound
  <2> QED
    BY <2>2, <1>1 DEF Sound
<1>5. OpenSound' /\ QueueSound' /\ KeyUnique' /\ (queue \in Seq(Txns))' /\ (open \in Seq(Changes))'
  BY <1>2 DEF IInv, OpenSound, QueueSound, KeyUnique
<1>6. Replayed(FALSE) = TableAt(txn.before, txn.changes, pos)
  BY <1>1 DEF Replayed, TableAt
<1>7. TypeOK /\ InSync /\ pos \in Nat
  BY DEF IInv, TypeOK
<1>8. CASE Fails(c)
  <2>1. session' = "failed" /\ work' = sub /\ UNCHANGED <<sub, tainted, pos>>
    BY <1>1, <1>8 DEF decoder_raw_change, Fails, Fail
  <2>2. TypeOK'
    BY <2>1, <1>2, <1>7 DEF TypeOK
  <2>3. Replayed(TRUE)' = Replayed(TRUE)
    BY <2>1, <1>2 DEF Replayed
  <2>4. InSync'
    BY <2>1, <2>3, <1>1, <1>7 DEF InSync
  <2>5. Position'
    BY <2>1, <1>1, <1>2, <1>8 DEF Position
  <2> QED
    BY <2>2, <2>4, <2>5, <1>5 DEF IInv
<1>9. CASE ~Fails(c)
  <2>1. /\ pos' = pos + 1 /\ tainted' = (tainted \/ c.lossy) /\ UNCHANGED session
        /\ IF Skipped(c) THEN UNCHANGED <<sub, work>> ELSE Write(Decoded(c))
    BY <1>1, <1>9 DEF decoder_raw_change, Fails
  <2> HIDE DEF c, txn
  <2>2. Decoded(c).op \in Ops
    <3>1. c.op \in Ops
      BY <1>3 DEF Changes
    <3> QED
      BY <3>1 DEF Ops, Decoded, decoder_raw_insert, decoder_raw_update, decoder_raw_delete,
                  decoder_raw_truncate
  <2>3. sub' \in Tables /\ work' \in Tables
    <3>1. sub \in Tables /\ work \in Tables
      BY <1>7 DEF TypeOK, Tables
    <3>2. Execute(work, Decoded(c)) \in Tables
      BY <3>1, <2>2, ExecuteType
    <3> QED
      BY <3>1, <3>2, <2>1 DEF Write
  <2>4. c.lossy \in BOOLEAN
    BY <1>3 DEF Changes
  <2>5. TypeOK'
    <3>1. pos' \in Nat /\ tainted' \in BOOLEAN /\ queue' # <<>>
      BY <2>1, <2>4, <1>1, <1>2, <1>7 DEF TypeOK
    <3> QED
      BY <3>1, <2>1, <2>3, <1>2, <1>7 DEF TypeOK, Tables
  <2>6. Position'
    BY <2>1, <1>1, <1>2 DEF Position, txn
  <2>7. ASSUME ~tainted' PROVE work' = c.after /\ sub' = IF include_transaction THEN sub ELSE work'
    <3>1. ~tainted /\ ~c.lossy
      BY <2>1, <2>4, <2>7, <1>7 DEF TypeOK
    <3>2. work = TableAt(txn.before, txn.changes, pos)
      BY <3>1, <1>1, <1>6, <1>7 DEF InSync
    <3>3. ~Skipped(c) /\ Execute(work, Decoded(c)) = c.after
      BY <3>1, <3>2, <1>4, <1>9 DEF Faithful
    <3> QED
      BY <3>3, <2>1 DEF Write
  <2>8. Replayed(FALSE)' = c.after
    <3>1. pos' > 1 /\ pos' - 1 = pos
      BY <2>1, <1>1
    <3>2. queue' # <<>> /\ Head(queue') = txn /\ ~(pos' <= 1)
      BY <1>1, <1>2, <3>1, <2>1
    <3> QED
      BY <3>1, <3>2 DEF Replayed, c
  <2>9. Replayed(TRUE)' = IF include_transaction THEN txn.before ELSE c.after
    <3>1. pos' > 1 /\ pos' - 1 = pos
      BY <2>1, <1>1
    <3>2. queue' # <<>> /\ Head(queue') = txn /\ ~(pos' <= 1) /\ include_transaction' = include_transaction
      BY <1>1, <1>2, <3>1, <2>1
    <3> QED
      BY <3>1, <3>2 DEF Replayed, c
  <2>10. ASSUME ~tainted', include_transaction PROVE sub = txn.before
    <3>1. ~tainted
      BY <2>1, <2>4, <2>10, <1>7 DEF TypeOK
    <3>2. Replayed(TRUE) = txn.before
      BY <2>10, <1>1 DEF Replayed
    <3> QED
      BY <3>1, <3>2, <1>7 DEF InSync
  <2>11. InSync'
    BY <2>7, <2>8, <2>9, <2>10 DEF InSync
  <2> QED
    BY <2>5, <2>6, <2>11, <1>5 DEF IInv
<1> QED
  BY <1>8, <1>9

LEMMA CommitCallbackStep == ASSUME IInv, decoder_raw_commit_txn PROVE IInv'
<1> DEFINE txn == queue[1]
<1>1. /\ session = "on" /\ queue # <<>> /\ pos > Len(Head(queue).changes)
      /\ sub' = work /\ queue' = Tail(queue) /\ pos' = 0
      /\ UNCHANGED <<rel, pub, base, open, session, include_transaction, work, tainted>>
  BY DEF decoder_raw_commit_txn, pubVars
<1>2. /\ TypeOK /\ queue \in Seq(Txns) /\ open \in Seq(Changes) /\ QueueSound /\ OpenSound
      /\ KeyUnique /\ Position /\ InSync
  BY DEF IInv
<1>3. Head(queue) = txn /\ txn \in Txns /\ Len(queue) \in Nat /\ 1 \in 1..Len(queue)
  BY <1>1, <1>2
<1>4. /\ queue' \in Seq(Txns) /\ Len(queue') = Len(queue) - 1
      /\ \A n \in 1..Len(queue') : queue'[n] = queue[n + 1]
  BY <1>1, <1>2
<1>5. /\ Len(txn.changes) > 0
      /\ txn.changes[Len(txn.changes)].after = IF 1 < Len(queue) THEN queue[2].before ELSE base
  BY <1>2, <1>3 DEF QueueSound
<1>6. Len(txn.changes) \in Nat
  BY <1>3 DEF Txns
<1>7. pos = Len(txn.changes) + 1
  <2>1. pos \in 0..(Len(txn.changes) + 1)
    BY <1>1, <1>2 DEF Position
  <2> QED
    BY <2>1, <1>1, <1>3, <1>6
<1>8. ~tainted => work = txn.changes[Len(txn.changes)].after
  <2>1. ~(pos <= 1) /\ pos - 1 = Len(txn.changes)
    BY <1>5, <1>6, <1>7
  <2>2. Replayed(FALSE) = txn.changes[pos - 1].after
    BY <2>1, <1>1, <1>3 DEF Replayed
  <2> QED
    BY <2>1, <2>2, <1>1, <1>2 DEF InSync
<1>9. QueueSound'
  <2>1. ASSUME NEW n \in 1..Len(queue')
        PROVE  /\ Len(queue'[n].changes) > 0 /\ Sound(queue'[n].before, queue'[n].changes)
               /\ queue'[n].changes[Len(queue'[n].changes)].after =
                    IF n < Len(queue') THEN queue'[n + 1].before ELSE base
    <3>1. n + 1 \in 1..Len(queue) /\ queue'[n] = queue[n + 1]
      BY <1>3, <1>4
    <3>2. /\ Len(queue[n + 1].changes) > 0 /\ Sound(queue[n + 1].before, queue[n + 1].changes)
          /\ queue[n + 1].changes[Len(queue[n + 1].changes)].after =
               IF n + 1 < Len(queue) THEN queue[n + 1 + 1].before ELSE base
      BY <3>1, <1>2 DEF QueueSound
    <3>3. /\ n < Len(queue') <=> n + 1 < Len(queue)
          /\ n < Len(queue') => queue'[n + 1] = queue[n + 1 + 1]
      BY <1>3, <1>4
    <3> QED
      BY <3>1, <3>2, <3>3
  <2> QED
    BY <2>1, <1>1 DEF QueueSound, Sound
<1>10. ~tainted' => sub' = Replayed(TRUE)' /\ work' = Replayed(FALSE)'
  <2>1. CASE Len(queue) > 1
    <3>1. queue' # <<>> /\ Head(queue') = queue[2] /\ pos' <= 1
      <4>1. 1 \in 1..Len(queue')
        BY <2>1, <1>3, <1>4
      <4>2. queue'[1] = queue[2]
        BY <4>1, <1>4
      <4>3. queue' # <<>> /\ Head(queue') = queue'[1]
        BY <4>1, <1>4
      <4> QED
        BY <4>2, <4>3, <1>1
    <3>2. Replayed(TRUE)' = queue[2].before /\ Replayed(FALSE)' = queue[2].before
      BY <3>1 DEF Replayed
    <3> QED
      BY <3>2, <2>1, <1>1, <1>5, <1>8
  <2>2. CASE ~(Len(queue) > 1)
    <3>1. queue' = <<>>
      BY <2>2, <1>3, <1>4
    <3>2. Replayed(TRUE)' = base /\ Replayed(FALSE)' = base
      BY <3>1, <1>1 DEF Replayed
    <3> QED
      BY <3>2, <2>2, <1>1, <1>3, <1>5, <1>8
  <2> QED
    BY <2>1, <2>2
<1>11. InSync'
  BY <1>10 DEF InSync
<1>12. TypeOK'
  BY <1>1, <1>2 DEF TypeOK
<1>13. Position'
  <2>1. queue' # <<>> => Len(queue'[1].changes) \in Nat
    BY <1>4 DEF Txns
  <2> QED
    BY <2>1, <1>1 DEF Position
<1>14. OpenSound' /\ KeyUnique' /\ (open \in Seq(Changes))'
  BY <1>1, <1>2 DEF OpenSound, KeyUnique
<1> QED
  BY <1>4, <1>9, <1>11, <1>12, <1>13, <1>14 DEF IInv

-----------------------------------------------------------------------------
(* The theorems.                                                           *)

LEMMA InitInv == ASSUME Init PROVE IInv
<1>1. Empty \in Tables
  BY DEF Empty, Tables
<1>2. TypeOK
  BY <1>1, ConstantsAssumption DEF Init, TypeOK, Tables
<1>3. open \in Seq(Changes) /\ queue \in Seq(Txns) /\ QueueSound /\ OpenSound
  BY DEF Init, QueueSound, OpenSound, Sound, TableAt
<1>4. KeyUnique
  BY DEF Init, KeyUnique, Unique, Empty
<1>5. Position /\ InSync
  BY DEF Init, Position, InSync, Replayed
<1> QED
  BY <1>2, <1>3, <1>4, <1>5 DEF IInv

LEMMA NextInv == ASSUME IInv, [Next]_vars PROVE IInv'
<1>1. ASSUME NEW row \in Rows, PubInsert(row) PROVE IInv'
  BY <1>1, InsertStep
<1>2. ASSUME NEW row \in Rows, PubDelete(row) PROVE IInv'
  BY <1>2, DeleteStep
<1>3. ASSUME NEW old \in Rows, NEW new \in Rows, PubUpdate(old, new) PROVE IInv'
  BY <1>3, UpdateStep
<1>4. ASSUME NEW ident \in Idents, NEW key \in KeyKinds, PubDdl(ident, key) PROVE IInv'
  BY <1>4, DdlStep
<1>5. ASSUME NEW options, decoder_raw_startup(options) PROVE IInv'
  BY <1>5, StartupStep
<1>6. CASE UNCHANGED vars
  <2>1. UNCHANGED <<rel, pub, base, open, queue, session, include_transaction, pos, sub, work, tainted>>
    BY <1>6 DEF vars, pubVars, subVars
  <2> QED
    BY <2>1 DEF IInv, TypeOK, QueueSound, OpenSound, KeyUnique, Position, InSync, Replayed
<1> QED
  BY <1>1, <1>2, <1>3, <1>4, <1>5, <1>6, TruncateStep, CommitStep, ShutdownStep, BeginStep,
     ChangeCallbackStep, CommitCallbackStep DEF Next, Publisher, Decoder

LEMMA Invariant == Spec => []IInv
<1>1. Init => IInv
  BY InitInv
<1>2. IInv /\ [Next]_vars => IInv'
  BY NextInv
<1> QED
  BY <1>1, <1>2, PTL DEF Spec

\* The types hold: the subscriber's table stays a bag of rows, whatever statements it
\* was sent, and no callback has been run for a transaction that is not there.
THEOREM TypeCorrect == Spec => []TypeOK
<1>1. IInv => TypeOK
  BY DEF IInv
<1> QED
  BY <1>1, Invariant, PTL

\* The subscriber's table follows the publisher's change by change, across sessions
\* that are cut and identities that are altered, as long as no change that decoder_raw
\* cannot express has been sent and no session without include_transaction has been
\* cut inside a transaction.
THEOREM SubscriberFollows == Spec => []InSync
<1>1. IInv => InSync
  BY DEF IInv
<1> QED
  BY <1>1, Invariant, PTL

\* Decoding stops only when the replica identity index has been dropped or includes a
\* column whose TOAST pointer is unchanged.
THEOREM StopsOnlyOnIndex == Spec => []FailsOnlyOnIndex
<1>1. IInv => FailsOnlyOnIndex
  <2>1. SUFFICES ASSUME IInv, session = "failed"
                 PROVE  LET c == Head(queue).changes[pos]
                        IN \/ c.op \in {"UPDATE", "DELETE"} /\ c.rel.ident = "index" /\ c.rel.key = "none"
                           \/ c.op = "UPDATE" /\ c.rel.key = "covering" /\ c.new.v = Unchanged
    BY DEF FailsOnlyOnIndex
  <2>2. /\ queue \in Seq(Txns) /\ queue # <<>> /\ pos \in 1..Len(queue[1].changes)
        /\ Fails(queue[1].changes[pos])
    BY <2>1 DEF IInv, Position
  <2>3. Head(queue) = queue[1] /\ 1 \in 1..Len(queue)
    BY <2>2
  <2>4. StopsRightly(queue[1].changes[pos])
    BY <2>1, <2>2, <2>3 DEF IInv, QueueSound, Sound
  <2> QED
    BY <2>2, <2>3, <2>4 DEF StopsRightly
<1> QED
  BY <1>1, Invariant, PTL
=============================================================================

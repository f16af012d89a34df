-------------------------- MODULE PageWalk_proofs ---------------------------
(***************************************************************************)
(* The theorems of PageWalk: a walk never brings a row twice, and one that *)
(* came to its end has missed nothing that it could have brought, for any  *)
(* number of rows, pages of any size, and any insertions and deletions.    *)
(* Behind them: a query sorts the table, and a cursor splits it.           *)
(***************************************************************************)
EXTENDS PageWalk, FiniteSetTheorems, FunctionTheorems, TLAPS

\* What the rows of a table are, for its queries: the id is a key.
IsRow(r) == r.id \in Nat /\ r.at \in Nat
IsTable(S) ==
    /\ IsFiniteSet(S)
    /\ \A r \in S : IsRow(r)
    /\ \A r \in S, q \in S : r.id = q.id => r = q

Cursors == {NoCursor} \cup [lastPreviousId : Nat, lastDate : Nat]

Rank(direction, S, r) == Cardinality({q \in S : Before(direction, q, r)})

-----------------------------------------------------------------------------
(* The order of a query.                                                   *)

\* Both directions order the rows of a table strictly and totally.
LEMMA BeforeOrders ==
    ASSUME NEW S, IsTable(S), NEW direction, NEW a \in S, NEW b \in S, NEW c \in S
    PROVE  /\ ~Before(direction, a, a)
           /\ a = b \/ Before(direction, a, b) \/ Before(direction, b, a)
           /\ ~(Before(direction, a, b) /\ Before(direction, b, a))
           /\ Before(direction, a, b) /\ Before(direction, b, c) => Before(direction, a, c)
  <1>1. /\ a.id \in Nat /\ a.at \in Nat /\ b.id \in Nat /\ b.at \in Nat /\ c.id \in Nat /\ c.at \in Nat
        /\ (a.id = b.id => a = b) /\ (b.id = c.id => b = c) /\ (a.id = c.id => a = c)
    BY DEF IsTable, IsRow
  <1>2. CASE direction = "asc"
    BY <1>1, <1>2 DEF Before
  <1>3. CASE direction # "asc"
    BY <1>1, <1>3 DEF Before
  <1> QED BY <1>2, <1>3

\* A part of a table is a table.
LEMMA PartOfTable ==
    ASSUME NEW S, IsTable(S), NEW T \in SUBSET S
    PROVE  IsTable(T)
  <1>1. IsFiniteSet(T)
    BY FS_Subset DEF IsTable
  <1> QED BY <1>1 DEF IsTable

\* The rank of a row is its place in the order, less one.
LEMMA RankBounds ==
    ASSUME NEW S, IsTable(S), NEW direction, NEW r \in S
    PROVE  /\ Cardinality(S) \in Nat
           /\ Rank(direction, S, r) \in 0 .. Cardinality(S) - 1
  <1> DEFINE T == {q \in S : Before(direction, q, r)}
  <1>1. IsFiniteSet(S)
    BY DEF IsTable
  <1>2. T \in SUBSET S /\ r \notin T
    BY BeforeOrders
  <1>3. IsFiniteSet(T) /\ Cardinality(T) <= Cardinality(S) /\ (Cardinality(S) = Cardinality(T) => S = T)
    BY <1>1, <1>2, FS_Subset
  <1>4. Cardinality(T) \in Nat /\ Cardinality(S) \in Nat
    BY <1>1, <1>3, FS_CardinalityType
  <1>5. Cardinality(S) # Cardinality(T)
    BY <1>2, <1>3
  <1>6. Cardinality(T) \in 0 .. Cardinality(S) - 1
    <2> HIDE DEF T
    <2> QED BY <1>3, <1>4, <1>5
  <1> QED BY <1>4, <1>6 DEF Rank

LEMMA RankGrows ==
    ASSUME NEW S, IsTable(S), NEW direction, NEW q \in S, NEW r \in S, Before(direction, q, r)
    PROVE  Rank(direction, S, q) < Rank(direction, S, r)
  <1> DEFINE T == {p \in S : Before(direction, p, q)}
             U == {p \in S : Before(direction, p, r)}
  <1>1. IsFiniteSet(U)
    BY FS_Subset DEF IsTable
  <1>2. T \in SUBSET U
    BY BeforeOrders
  <1>3. q \in U /\ q \notin T
    BY BeforeOrders
  <1>4. IsFiniteSet(T) /\ Cardinality(T) <= Cardinality(U) /\ (Cardinality(U) = Cardinality(T) => U = T)
    <2> HIDE DEF T, U
    <2> QED BY <1>1, <1>2, FS_Subset
  <1>5. Cardinality(T) \in Nat /\ Cardinality(U) \in Nat /\ U # T
    <2> HIDE DEF T, U
    <2> QED BY <1>1, <1>3, <1>4, FS_CardinalityType
  <1>6. Cardinality(T) < Cardinality(U)
    <2> HIDE DEF T, U
    <2> QED BY <1>4, <1>5
  <1> QED BY <1>6 DEF Rank

\* Every place is taken, by one row.
LEMMA RankIsBijective ==
    ASSUME NEW S, IsTable(S), NEW direction
    PROVE  /\ Cardinality(S) \in Nat
           /\ \A i \in 1 .. Cardinality(S) : \E r \in S : Rank(direction, S, r) = i - 1
           /\ \A q \in S, r \in S : Rank(direction, S, q) = Rank(direction, S, r) => q = r
  <1> DEFINE n == Cardinality(S)
             f == [r \in S |-> Rank(direction, S, r)]
  <1>1. IsFiniteSet(S) /\ n \in Nat
    BY FS_CardinalityType DEF IsTable
  <1>2. \A r \in S : Rank(direction, S, r) \in 0 .. n - 1
    BY RankBounds
  <1>3. ASSUME NEW q \in S, NEW r \in S, Rank(direction, S, q) = Rank(direction, S, r)
        PROVE  q = r
    <2>1. CASE Before(direction, q, r)
      <3>1. Rank(direction, S, q) < Rank(direction, S, r)
        BY <2>1, RankGrows
      <3> QED BY <1>2, <1>3, <3>1
    <2>2. CASE Before(direction, r, q)
      <3>1. Rank(direction, S, r) < Rank(direction, S, q)
        BY <2>2, RankGrows
      <3> QED BY <1>2, <1>3, <3>1
    <2> QED BY <2>1, <2>2, BeforeOrders
  <1>4. f \in Injection(S, 0 .. n - 1)
    <2>1. f \in [S -> 0 .. n - 1]
      BY <1>2
    <2>2. IsInjective(f)
      BY <1>3 DEF IsInjective
    <2> HIDE DEF f
    <2> QED BY <2>1, <2>2 DEF Injection
  <1>5. IsFiniteSet(0 .. n - 1) /\ Cardinality(0 .. n - 1) = n
    <2>1. 0 \in Int /\ n - 1 \in Int
      BY <1>1
    <2>2. IsFiniteSet(0 .. n - 1) /\ Cardinality(0 .. n - 1) = IF 0 > n - 1 THEN 0 ELSE (n - 1) - 0 + 1
      <3> HIDE DEF n
      <3> QED BY <2>1, FS_Interval
    <2> QED BY <1>1, <2>2
  <1>6. f \in Surjection(S, 0 .. n - 1)
    <2> HIDE DEF f
    <2> QED BY <1>4, <1>5, FS_Injection
  <1>7. ASSUME NEW i \in 1 .. n PROVE \E r \in S : Rank(direction, S, r) = i - 1
    <2>1. i - 1 \in 0 .. n - 1
      BY <1>1
    <2>2. PICK r \in S : f[r] = i - 1
      BY <1>6, <2>1 DEF Surjection
    <2> QED BY <2>2
  <1> QED BY <1>1, <1>3, <1>7

\* A query returns every row of the table once, in its order.
LEMMA QuerySorts ==
    ASSUME NEW S, IsTable(S), NEW direction
    PROVE  /\ OrderBy(direction, S) \in Seq(S)
           /\ Len(OrderBy(direction, S)) = Cardinality(S)
           /\ \A r \in S : \E i \in 1 .. Cardinality(S) : OrderBy(direction, S)[i] = r
           /\ \A i, j \in 1 .. Cardinality(S) :
                i < j => Before(direction, OrderBy(direction, S)[i], OrderBy(direction, S)[j])
  <1> DEFINE n == Cardinality(S)
             found == OrderBy(direction, S)
  <1>1. n \in Nat
    BY RankIsBijective
  <1>2. found = [i \in 1 .. n |-> CHOOSE r \in S : Rank(direction, S, r) = i - 1]
    BY DEF OrderBy, Rank
  <1>3. ASSUME NEW i \in 1 .. n
        PROVE  found[i] \in S /\ Rank(direction, S, found[i]) = i - 1
    <2>1. \E r \in S : Rank(direction, S, r) = i - 1
      BY RankIsBijective
    <2>2. found[i] = CHOOSE r \in S : Rank(direction, S, r) = i - 1
      BY <1>2
    <2> HIDE DEF found
    <2> QED BY <2>1, <2>2
  <1>4. found \in Seq(S) /\ Len(found) = n
    <2>1. found \in [1 .. n -> S]
      BY <1>2, <1>3
    <2> HIDE DEF found, n
    <2> QED BY <1>1, <2>1
  <1>5. ASSUME NEW r \in S PROVE \E i \in 1 .. n : found[i] = r
    <2> DEFINE i == Rank(direction, S, r) + 1
    <2>1. i \in 1 .. n /\ i - 1 = Rank(direction, S, r)
      BY RankBounds
    <2>2. found[i] \in S /\ Rank(direction, S, found[i]) = Rank(direction, S, r)
      BY <1>3, <2>1
    <2>3. found[i] = r
      BY <2>2, RankIsBijective
    <2> QED BY <2>1, <2>3
  <1>6. ASSUME NEW i \in 1 .. n, NEW j \in 1 .. n, i < j
        PROVE  Before(direction, found[i], found[j])
    <2> DEFINE a == found[i]
               b == found[j]
    <2>1. a \in S /\ b \in S /\ Rank(direction, S, a) = i - 1 /\ Rank(direction, S, b) = j - 1
      BY <1>3
    <2> HIDE DEF a, b
    <2>2. a # b /\ ~(Rank(direction, S, b) < Rank(direction, S, a))
      BY <1>1, <1>6, <2>1
    <2>3. ~Before(direction, b, a)
      BY <2>1, <2>2, RankGrows
    <2>4. Before(direction, a, b)
      BY <2>1, <2>2, <2>3, BeforeOrders
    <2> QED BY <2>4 DEF a, b
  <1> QED BY <1>4, <1>5, <1>6

-----------------------------------------------------------------------------
(* What a cursor separates.                                                *)

\* The cursor of a row is a cursor, and the rows after it are those that come
\* after the row, whether the row still exists or not.
LEMMA CursorOfRow ==
    ASSUME NEW direction, NEW q, IsRow(q)
    PROVE  /\ CursorAt(q) \in Cursors
           /\ CursorAt(q) # NoCursor
           /\ \A r : AfterCursor(direction, CursorAt(q), r) <=>
                IF direction = "asc" THEN r.at > q.at \/ (r.at = q.at /\ r.id > q.id)
                ELSE r.at < q.at \/ (r.at = q.at /\ r.id < q.id)
  <1>1. CursorAt(q) \in Cursors
    BY DEF CursorAt, Cursors, IsRow
  <1>2. CursorAt(q) # NoCursor
    <2>1. DOMAIN CursorAt(q) = {"lastPreviousId", "lastDate"}
      BY DEF CursorAt
    <2>2. DOMAIN NoCursor = {"none"}
      BY DEF NoCursor
    <2> QED BY <2>1, <2>2
  <1>3. CursorAt(q).lastPreviousId = q.id /\ CursorAt(q).lastDate = q.at
    BY DEF CursorAt
  <1>4. ASSUME NEW r
        PROVE  AfterCursor(direction, CursorAt(q), r) <=>
                 IF direction = "asc" THEN r.at > q.at \/ (r.at = q.at /\ r.id > q.id)
                 ELSE r.at < q.at \/ (r.at = q.at /\ r.id < q.id)
    BY <1>2, <1>3 DEF AfterCursor
  <1> QED BY <1>1, <1>2, <1>4

\* Among the rows of a table it is the order of the query.
LEMMA AfterIsBefore ==
    ASSUME NEW S, IsTable(S), NEW direction, NEW q \in S, NEW r \in S
    PROVE  AfterCursor(direction, CursorAt(q), r) <=> Before(direction, q, r)
  <1>1. /\ q.id \in Nat /\ q.at \in Nat /\ r.id \in Nat /\ r.at \in Nat /\ IsRow(q)
        /\ (q.id = r.id => q = r)
    BY DEF IsTable, IsRow
  <1>2. AfterCursor(direction, CursorAt(q), r) <=>
          IF direction = "asc" THEN r.at > q.at \/ (r.at = q.at /\ r.id > q.id)
          ELSE r.at < q.at \/ (r.at = q.at /\ r.id < q.id)
    BY <1>1, CursorOfRow
  <1>3. CASE direction = "asc"
    BY <1>1, <1>2, <1>3 DEF Before
  <1>4. CASE direction # "asc"
    BY <1>1, <1>2, <1>4 DEF Before
  <1> QED BY <1>3, <1>4

\* The cursor moves in the direction of the walk.
LEMMA CursorAdvances ==
    ASSUME NEW direction, NEW cursor \in Cursors, NEW q, IsRow(q), NEW r, IsRow(r),
           AfterCursor(direction, cursor, q), AfterCursor(direction, CursorAt(q), r)
    PROVE  AfterCursor(direction, cursor, r)
  <1>1. q.id \in Nat /\ q.at \in Nat /\ r.id \in Nat /\ r.at \in Nat
    BY DEF IsRow
  <1>2. IF direction = "asc" THEN r.at > q.at \/ (r.at = q.at /\ r.id > q.id)
        ELSE r.at < q.at \/ (r.at = q.at /\ r.id < q.id)
    BY CursorOfRow
  <1>3. CASE cursor = NoCursor
    BY <1>3 DEF AfterCursor
  <1>4. CASE cursor # NoCursor
    <2>1. cursor.lastPreviousId \in Nat /\ cursor.lastDate \in Nat
      BY <1>4 DEF Cursors
    <2>2. CASE direction = "asc"
      BY <1>1, <1>2, <1>4, <2>1, <2>2 DEF AfterCursor
    <2>3. CASE direction # "asc"
      BY <1>1, <1>2, <1>4, <2>1, <2>3 DEF AfterCursor
    <2> QED BY <2>2, <2>3
  <1> QED BY <1>3, <1>4

-----------------------------------------------------------------------------
(* A page.                                                                 *)

\* A page that has no cursor holds every row after the one it was asked with;
\* any other leaves its own rows behind its cursor and the rest after it.
\* Either way it holds no row twice, and nothing from behind.
Splits(S, direction, cursor, read) ==
    /\ read.data \in Seq({r \in S : AfterCursor(direction, cursor, r)})
    /\ \A i, j \in DOMAIN read.data : read.data[i].id = read.data[j].id => i = j
    /\ read.next \in Cursors
    /\ read.next = NoCursor =>
         \A r \in S : AfterCursor(direction, cursor, r) => \E i \in DOMAIN read.data : read.data[i] = r
    /\ read.next # NoCursor =>
         /\ \A i \in DOMAIN read.data : ~AfterCursor(direction, read.next, read.data[i])
         /\ \A r \in S : AfterCursor(direction, cursor, r) =>
              (\E i \in DOMAIN read.data : read.data[i] = r) \/ AfterCursor(direction, read.next, r)
         /\ \A r \in S : AfterCursor(direction, read.next, r) => AfterCursor(direction, cursor, r)

\* Every page splits the table it is read from, in either direction, whatever
\* the limit and the cursor: fetchCursorPaginatedData, whose cursor names only
\* a second and an id, loses and repeats nothing.
THEOREM PageSplitsTable ==
    ASSUME NEW S, IsTable(S), NEW direction, NEW limit \in Nat \ {0}, NEW cursor \in Cursors
    PROVE  Splits(S, direction, cursor, PageOf(S, direction, limit, cursor))
  <1> DEFINE read == PageOf(S, direction, limit, cursor)
             T == {r \in S : AfterCursor(direction, cursor, r)}
             found == OrderBy(direction, T)
             n == Cardinality(T)
  <1> SUFFICES Splits(S, direction, cursor, read)
    OBVIOUS
  <1>1. IsTable(T)
    BY PartOfTable
  <1>2. /\ found \in Seq(T) /\ Len(found) = n
        /\ \A r \in T : \E i \in 1 .. n : found[i] = r
        /\ \A i, j \in 1 .. n : i < j => Before(direction, found[i], found[j])
    <2> HIDE DEF T
    <2> QED BY <1>1, QuerySorts
  <1>3. n \in Nat /\ DOMAIN found = 1 .. n /\ \A i \in 1 .. n : found[i] \in T
    <2> HIDE DEF T, found, n
    <2>1. n = Len(found)
      BY <1>2
    <2> QED BY <1>2, <2>1
  <1>4. \A r \in T : IsRow(r)
    BY <1>1 DEF IsTable
  <1>5. ASSUME NEW i \in 1 .. n, NEW j \in 1 .. n, found[i].id = found[j].id
        PROVE  i = j
    <2>1. found[i] \in T /\ found[j] \in T
      BY <1>3
    <2>2. found[i] = found[j]
      <3> HIDE DEF T, found, n
      <3> QED BY <1>1, <1>5, <2>1 DEF IsTable
    <2>3. ~(i < j) /\ ~(j < i)
      <3> HIDE DEF T, found, n
      <3> QED BY <1>1, <1>2, <2>1, <2>2, BeforeOrders
    <2> QED BY <1>3, <2>3
  <1>6. CASE ~(n > limit)
    <2>1. read.data = found /\ read.next = NoCursor
      BY <1>2, <1>6 DEF PageOf
    <2>2. NoCursor \in Cursors
      BY DEF Cursors
    <2>3. found \in Seq({r \in S : AfterCursor(direction, cursor, r)})
      BY <1>2
    <2>4. \A r \in S : AfterCursor(direction, cursor, r) => \E i \in 1 .. n : found[i] = r
      BY <1>2
    <2> HIDE DEF found, n, T, read
    <2>5. read.data \in Seq({r \in S : AfterCursor(direction, cursor, r)})
      BY <2>1, <2>3
    <2>6. \A i, j \in DOMAIN read.data : read.data[i].id = read.data[j].id => i = j
      BY <1>3, <1>5, <2>1
    <2>7. \A r \in S : AfterCursor(direction, cursor, r) => \E i \in DOMAIN read.data : read.data[i] = r
      BY <1>3, <2>1, <2>4
    <2>8. read.next \in Cursors /\ read.next = NoCursor
      BY <2>1, <2>2
    <2> QED BY <2>5, <2>6, <2>7, <2>8, Zenon DEF Splits
  <1>7. CASE n > limit
    <2> DEFINE last == found[limit]
               kept == SubSeq(found, 1, limit)
    <2>1. read.data = kept /\ read.next = CursorAt(last)
      BY <1>2, <1>7 DEF PageOf
    <2>2. limit \in 1 .. n /\ last \in T /\ IsRow(last)
      <3>1. limit \in 1 .. n
        BY <1>3, <1>7
      <3> HIDE DEF T, found, n
      <3> QED BY <1>3, <1>4, <3>1
    <2>3. kept \in Seq(T) /\ DOMAIN kept = 1 .. limit /\ \A i \in 1 .. limit : kept[i] = found[i]
      <3> HIDE DEF T, found, n
      <3>1. kept = [i \in 1 .. limit |-> found[i]]
        BY <1>2, <1>3, <2>2
      <3>2. \A i \in 1 .. limit : found[i] \in T
        BY <1>3, <2>2
      <3> QED BY <3>1, <3>2
    <2>4. kept \in Seq({r \in S : AfterCursor(direction, cursor, r)})
      BY <2>3
    <2>5. \A i, j \in 1 .. limit : kept[i].id = kept[j].id => i = j
      <3> HIDE DEF T, found, n, kept
      <3> QED BY <1>3, <1>5, <2>2, <2>3
    <2>6. CursorAt(last) \in Cursors /\ CursorAt(last) # NoCursor
      <3> HIDE DEF last
      <3> QED BY <2>2, CursorOfRow
    <2>7. ASSUME NEW i \in 1 .. limit PROVE ~AfterCursor(direction, CursorAt(last), kept[i])
      <3>1. i \in 1 .. n /\ found[i] \in T /\ kept[i] = found[i]
        <4> HIDE DEF T, found, n, kept
        <4> QED BY <1>3, <2>2, <2>3
      <3>2. ~Before(direction, last, found[i])
        <4>1. CASE i = limit
          <5> HIDE DEF T
          <5> QED BY <1>1, <2>2, <4>1, BeforeOrders
        <4>2. CASE i < limit
          <5>1. Before(direction, found[i], last)
            <6> HIDE DEF T, found, n
            <6> QED BY <1>2, <2>2, <3>1, <4>2
          <5> HIDE DEF T, found, n, last
          <5> QED BY <1>1, <2>2, <3>1, <5>1, BeforeOrders
        <4> QED BY <4>1, <4>2
      <3> HIDE DEF T, found, n, last, kept
      <3> QED BY <1>1, <2>2, <3>1, <3>2, AfterIsBefore
    <2>8. ASSUME NEW r \in T
          PROVE  (\E i \in 1 .. limit : kept[i] = r) \/ AfterCursor(direction, CursorAt(last), r)
      <3>1. PICK i \in 1 .. n : found[i] = r
        BY <1>2
      <3>2. CASE i <= limit
        <4>1. i \in 1 .. limit
          <5> HIDE DEF n
          <5> QED BY <1>3, <3>2
        <4> HIDE DEF T, found, n, kept
        <4> QED BY <2>3, <3>1, <4>1
      <3>3. CASE limit < i
        <4>1. Before(direction, last, r)
          <5> HIDE DEF T, found, n
          <5> QED BY <1>2, <2>2, <3>1, <3>3
        <4> HIDE DEF T, found, n, last, kept
        <4> QED BY <1>1, <2>2, <4>1, AfterIsBefore
      <3> HIDE DEF T, found, n, last, kept
      <3> QED BY <1>3, <3>2, <3>3
    <2>9. ASSUME NEW r \in S, AfterCursor(direction, CursorAt(last), r)
          PROVE  AfterCursor(direction, cursor, r)
      <3>1. IsRow(r) /\ AfterCursor(direction, cursor, last)
        BY <2>2 DEF IsTable
      <3> HIDE DEF T, found, n, last, kept
      <3> QED BY <2>2, <2>9, <3>1, CursorAdvances
    <2>10. \A r \in S : AfterCursor(direction, cursor, r) => r \in T
      OBVIOUS
    <2> HIDE DEF T, found, n, last, kept, read
    <2>11. read.data \in Seq({r \in S : AfterCursor(direction, cursor, r)})
      BY <2>1, <2>4
    <2>12. DOMAIN read.data = 1 .. limit
      BY <2>1, <2>3
    <2>13. \A i, j \in DOMAIN read.data : read.data[i].id = read.data[j].id => i = j
      BY <2>1, <2>5, <2>12
    <2>14. \A i \in DOMAIN read.data : ~AfterCursor(direction, read.next, read.data[i])
      BY <2>1, <2>7, <2>12
    <2>15. \A r \in S : AfterCursor(direction, cursor, r) =>
             (\E i \in DOMAIN read.data : read.data[i] = r) \/ AfterCursor(direction, read.next, r)
      BY <2>1, <2>8, <2>10, <2>12
    <2>16. \A r \in S : AfterCursor(direction, read.next, r) => AfterCursor(direction, cursor, r)
      BY <2>1, <2>9
    <2>17. read.next \in Cursors /\ read.next # NoCursor
      BY <2>1, <2>6
    <2> QED BY <2>11, <2>13, <2>14, <2>15, <2>16, <2>17, Zenon DEF Splits
  <1> QED BY <1>6, <1>7

-----------------------------------------------------------------------------
(* The invariant.                                                          *)

Requests == [backtests : SUBSET Backtests, direction : {"asc", "desc"}, limit : Limits, cursor : Cursors]

\* Ids grow, so that a row that comes behind the walk is one it has not seen.
Types ==
    /\ nextId \in Nat \ {0}
    /\ IsTable(rows)
    /\ \A r \in rows : r.id < nextId
    /\ request = NoRequest \/ request \in Requests
    /\ page = NoPage \/ page.next \in Cursors
    /\ \A id \in seen : id \in Nat /\ id < nextId

Course ==
    /\ phase \in {"idle", "walking", "done"}
    /\ phase = "walking" => request # NoRequest
    /\ request # NoRequest => phase = "walking"
    /\ request = NoRequest => page = NoPage
    /\ phase = "idle" => seen = {}

\* What was seen is behind the cursor the walk goes on with.
Behind ==
    request # NoRequest /\ page = NoPage =>
        \A r \in Matching : r.id \in seen => ~AfterCursor(request.direction, request.cursor, r)

\* A page on its way brings new rows, and leaves them behind its cursor.
Fresh ==
    page # NoPage =>
        /\ IsInjective(page.ids)
        /\ \A id \in Range(page.ids) : id \in Nat /\ id < nextId /\ id \notin seen
        /\ page.next # NoCursor =>
             \A r \in Matching : r.id \in seen \cup Range(page.ids) =>
                 ~AfterCursor(request.direction, page.next, r)

\* What is still to come is in the table, ahead of the cursor.
Ahead(cursor, r) == r \in Matching /\ AfterCursor(request.direction, cursor, r)
Pending ==
    /\ request # NoRequest /\ page = NoPage /\ request.cursor # NoCursor =>
         \A r \in atStart : r.id \in seen \cup gone \/ Ahead(request.cursor, r)
    /\ page # NoPage =>
         \A r \in atStart : \/ r.id \in seen \cup gone \cup Range(page.ids)
                            \/ page.next # NoCursor /\ Ahead(page.next, r)

IInv == Types /\ Course /\ Behind /\ Fresh /\ Pending /\ MissesNothing

LEMMA InitIInv == ASSUME Init PROVE IInv
  <1>1. Types
    BY FS_EmptySet DEF Init, Types, IsTable
  <1>2. Course /\ Behind /\ Fresh /\ Pending /\ MissesNothing
    BY DEF Init, Course, Behind, Fresh, Pending, MissesNothing
  <1> QED BY <1>1, <1>2 DEF IInv

LEMMA InsertKeeps == ASSUME WalkParameters, IInv, Insert PROVE IInv'
  <1>1. /\ UNCHANGED <<request, page, seen, phase, atStart, gone>>
        /\ nextId' = nextId + 1 /\ nextId \in Nat \ {0}
    BY DEF IInv, Types, Insert
  <1>2. PICK b \in Backtests, at \in Times :
          rows' = rows \cup {[id |-> nextId, at |-> at, backtest |-> b]}
    BY DEF Insert
  <1> DEFINE new == [id |-> nextId, at |-> at, backtest |-> b]
  <1>3. /\ rows' = rows \cup {new} /\ new.id = nextId /\ IsRow(new)
        /\ \A r \in rows : IsRow(r) /\ r.id < nextId
    BY <1>1, <1>2 DEF WalkParameters, IInv, Types, IsTable, IsRow
  <1> HIDE DEF new
  <1>4. Types'
    <2>1. IsFiniteSet(rows')
      BY <1>3, FS_AddElement DEF IInv, Types, IsTable
    <2>2. \A r, q \in rows' : r.id = q.id => r = q
      BY <1>1, <1>3 DEF IInv, Types, IsTable, IsRow
    <2>3. IsTable(rows')
      BY <1>3, <2>1, <2>2 DEF IsTable
    <2>4. \A r \in rows' : r.id < nextId'
      BY <1>1, <1>3 DEF IsRow
    <2>5. \A id \in seen' : id \in Nat /\ id < nextId'
      BY <1>1 DEF IInv, Types
    <2> QED BY <1>1, <2>3, <2>4, <2>5 DEF IInv, Types
  <1>5. Course'
    BY <1>1 DEF IInv, Course
  <1>6. new.id \notin seen
    BY <1>1, <1>3 DEF IInv, Types
  <1>7. \A r \in Matching' : r = new \/ r \in Matching
    BY <1>1, <1>3 DEF Matching
  <1>8. Behind'
    BY <1>1, <1>6, <1>7 DEF IInv, Behind
  <1>9. Fresh'
    <2> SUFFICES ASSUME page # NoPage PROVE Fresh'
      BY <1>1 DEF Fresh
    <2>1. \A id \in Range(page.ids) : id \in Nat /\ id < nextId' /\ id \notin seen
      BY <1>1 DEF IInv, Fresh
    <2>2. new.id \notin Range(page.ids)
      BY <1>1, <1>3 DEF IInv, Fresh
    <2>3. ASSUME page.next # NoCursor, NEW r \in Matching', r.id \in seen \cup Range(page.ids)
          PROVE  ~AfterCursor(request.direction, page.next, r)
      <3>1. r \in Matching
        BY <1>6, <1>7, <2>2, <2>3
      <3> QED BY <2>3, <3>1 DEF IInv, Fresh
    <2>4. IsInjective(page.ids)
      BY DEF IInv, Fresh
    <2> QED BY <1>1, <2>1, <2>3, <2>4 DEF Fresh
  <1>10. Pending'
    <2>1. Matching \subseteq Matching'
      BY <1>1, <1>3 DEF Matching
    <2> QED BY <1>1, <2>1 DEF IInv, Pending, Ahead
  <1>11. MissesNothing'
    BY <1>1 DEF IInv, MissesNothing
  <1> QED BY <1>4, <1>5, <1>8, <1>9, <1>10, <1>11 DEF IInv

LEMMA DeleteKeeps == ASSUME IInv, Delete PROVE IInv'
  <1>1. UNCHANGED <<nextId, request, page, seen, phase, atStart>>
    BY DEF Delete
  <1>2. PICK deleted \in SUBSET rows : rows' = rows \ deleted /\ gone' = gone \cup {r.id : r \in deleted}
    BY DEF Delete
  <1>3. rows' \in SUBSET rows
    BY <1>2
  <1>4. Types'
    <2>1. IsTable(rows')
      BY <1>3, PartOfTable DEF IInv, Types
    <2> QED BY <1>1, <1>3, <2>1 DEF IInv, Types
  <1>5. Course' /\ Behind' /\ Fresh'
    <2>1. Matching' \subseteq Matching
      BY <1>1, <1>3 DEF Matching
    <2> QED BY <1>1, <2>1 DEF IInv, Course, Behind, Fresh
  <1>6. \A cursor : \A r : Ahead(cursor, r) => r.id \in gone' \/ Ahead(cursor, r)'
    BY <1>1, <1>2 DEF Ahead, Matching
  <1>7. gone \subseteq gone'
    BY <1>2
  <1>8. Pending'
    <2>1. ASSUME request # NoRequest, page = NoPage, request.cursor # NoCursor, NEW r \in atStart
          PROVE  r.id \in seen \cup gone' \/ Ahead(request.cursor, r)'
      BY <1>1, <1>6, <1>7, <2>1 DEF IInv, Pending
    <2>2. ASSUME page # NoPage, NEW r \in atStart
          PROVE  \/ r.id \in seen \cup gone' \cup Range(page.ids)
                 \/ page.next # NoCursor /\ Ahead(page.next, r)'
      BY <1>1, <1>6, <1>7, <2>2 DEF IInv, Pending
    <2> QED BY <1>1, <2>1, <2>2 DEF Pending
  <1>9. MissesNothing'
    BY <1>1, <1>7 DEF IInv, MissesNothing
  <1> QED BY <1>4, <1>5, <1>8, <1>9 DEF IInv

LEMMA RequestsAreRequests == ASSUME WalkParameters, NEW asked \in Requests PROVE asked # NoRequest
  <1>1. asked.limit \in Limits /\ NoRequest.limit = 0
    BY DEF Requests, NoRequest
  <1> QED BY <1>1 DEF WalkParameters

LEMMA OpenKeeps == ASSUME WalkParameters, IInv, Open PROVE IInv'
  <1>1. /\ UNCHANGED <<rows, nextId, page, seen, atStart, gone>>
        /\ phase = "idle" /\ phase' = "walking"
    BY DEF Open
  <1>2. request' \in Requests /\ request'.cursor = NoCursor
    BY DEF Open, Requests, Cursors
  <1>3. request' # NoRequest
    BY <1>2, RequestsAreRequests
  <1>4. request = NoRequest /\ page = NoPage /\ seen = {}
    BY <1>1 DEF IInv, Course
  <1>5. Types'
    BY <1>1, <1>2 DEF IInv, Types
  <1>6. Course'
    BY <1>1, <1>3, <1>4 DEF Course
  <1>7. Behind' /\ Fresh' /\ Pending' /\ MissesNothing'
    BY <1>1, <1>2, <1>4 DEF Behind, Fresh, Pending, MissesNothing
  <1> QED BY <1>5, <1>6, <1>7 DEF IInv

LEMMA ServeKeeps == ASSUME WalkParameters, IInv, Serve PROVE IInv'
  <1> DEFINE read == PageOf(Matching, request.direction, request.limit, request.cursor)
  <1>1. /\ UNCHANGED <<rows, nextId, request, seen, phase, gone>>
        /\ request # NoRequest /\ page = NoPage
        /\ page' = [ids |-> [i \in DOMAIN read.data |-> read.data[i].id], next |-> read.next]
        /\ atStart' = IF request.cursor = NoCursor THEN Matching ELSE atStart
    BY DEF Serve
  <1>2. request \in Requests
    BY <1>1 DEF IInv, Types
  <1>3. request.limit \in Nat \ {0} /\ request.cursor \in Cursors
    BY <1>2 DEF WalkParameters, Requests
  <1>4. Matching \in SUBSET rows /\ Matching' = Matching /\ IsTable(rows)
    BY <1>1 DEF IInv, Types, Matching
  <1>5. IsTable(Matching)
    BY <1>4, PartOfTable
  <1> DEFINE T == {r \in Matching : AfterCursor(request.direction, request.cursor, r)}
  <1>6. /\ read.data \in Seq(T)
        /\ \A i, j \in DOMAIN read.data : read.data[i].id = read.data[j].id => i = j
        /\ read.next \in Cursors
        /\ read.next = NoCursor => \A r \in T : \E i \in DOMAIN read.data : read.data[i] = r
        /\ read.next # NoCursor =>
             /\ \A i \in DOMAIN read.data : ~AfterCursor(request.direction, read.next, read.data[i])
             /\ \A r \in T : (\E i \in DOMAIN read.data : read.data[i] = r)
                             \/ AfterCursor(request.direction, read.next, r)
             /\ \A r \in Matching : AfterCursor(request.direction, read.next, r) =>
                                    AfterCursor(request.direction, request.cursor, r)
    <2>1. Splits(Matching, request.direction, request.cursor, read)
      BY <1>3, <1>5, PageSplitsTable
    <2> HIDE DEF read
    <2> QED BY <2>1 DEF Splits
  <1> HIDE DEF read
  <1>7. \A i \in DOMAIN read.data : read.data[i] \in T
    <2> HIDE DEF T
    <2> QED BY <1>6
  <1>8. /\ page'.next = read.next
        /\ DOMAIN page'.ids = DOMAIN read.data
        /\ \A i \in DOMAIN read.data : page'.ids[i] = read.data[i].id
    BY <1>1
  <1>9. page' # NoPage
    <2>1. DOMAIN page' = {"ids", "next"}
      BY <1>1
    <2>2. DOMAIN NoPage = {"next"}
      BY DEF NoPage
    <2> QED BY <2>1, <2>2
  <1>10. Range(page'.ids) = {read.data[i].id : i \in DOMAIN read.data}
    BY <1>8 DEF Range
  <1>11. Types'
    BY <1>1, <1>2, <1>6, <1>8 DEF IInv, Types
  <1>12. Course'
    BY <1>1 DEF IInv, Course
  <1>13. Behind'
    BY <1>9 DEF Behind
  <1>14. Fresh'
    <2>1. IsInjective(page'.ids)
      BY <1>6, <1>8 DEF IsInjective
    <2>2. ASSUME NEW i \in DOMAIN read.data
          PROVE  read.data[i].id \in Nat /\ read.data[i].id < nextId /\ read.data[i].id \notin seen
      <3>1. /\ read.data[i] \in Matching /\ read.data[i] \in rows
            /\ AfterCursor(request.direction, request.cursor, read.data[i])
        BY <1>4, <1>7
      <3>2. read.data[i].id \in Nat /\ read.data[i].id < nextId
        BY <3>1 DEF IInv, Types, IsTable, IsRow
      <3>3. read.data[i].id \notin seen
        BY <1>1, <3>1 DEF IInv, Behind
      <3> QED BY <3>2, <3>3
    <2>3. ASSUME read.next # NoCursor, NEW r \in Matching, r.id \in seen \cup Range(page'.ids)
          PROVE  ~AfterCursor(request.direction, read.next, r)
      <3>1. CASE r.id \in Range(page'.ids)
        <4>1. PICK i \in DOMAIN read.data : r.id = read.data[i].id
          BY <1>10, <3>1
        <4>2. r = read.data[i]
          BY <1>5, <1>7, <4>1 DEF IsTable
        <4> QED BY <1>6, <2>3, <4>2
      <3>2. CASE r.id \in seen
        <4>1. ~AfterCursor(request.direction, request.cursor, r)
          BY <1>1, <3>2 DEF IInv, Behind
        <4> QED BY <1>6, <2>3, <4>1
      <3> QED BY <2>3, <3>1, <3>2
    <2> QED BY <1>1, <1>4, <1>8, <1>10, <2>1, <2>2, <2>3 DEF Fresh
  <1>15. Pending'
    <2>1. ASSUME NEW r \in T
          PROVE  \/ r.id \in Range(page'.ids)
                 \/ read.next # NoCursor /\ AfterCursor(request.direction, read.next, r)
      BY <1>6, <1>10
    <2>2. ASSUME NEW r \in atStart'
          PROVE  r.id \in seen \cup gone \/ r \in T
      <3>1. CASE request.cursor = NoCursor
        <4>1. r \in Matching
          BY <1>1, <2>2, <3>1
        <4> QED BY <3>1, <4>1 DEF AfterCursor
      <3>2. CASE request.cursor # NoCursor
        <4>1. r \in atStart
          BY <1>1, <2>2, <3>2
        <4>2. r.id \in seen \cup gone \/ Ahead(request.cursor, r)
          BY <1>1, <3>2, <4>1 DEF IInv, Pending
        <4> QED BY <4>2 DEF Ahead
      <3> QED BY <3>1, <3>2
    <2>3. ASSUME NEW r \in atStart'
          PROVE  \/ r.id \in seen \cup gone \cup Range(page'.ids)
                 \/ /\ page'.next # NoCursor /\ r \in Matching'
                    /\ AfterCursor(request'.direction, page'.next, r)
      <3>1. CASE r.id \in seen \cup gone
        BY <3>1
      <3>2. CASE r \in T
        <4>1. r \in Matching'
          BY <1>4, <3>2
        <4> QED BY <1>1, <1>8, <2>1, <3>2, <4>1
      <3> QED BY <2>2, <3>1, <3>2
    <2>4. seen' = seen /\ gone' = gone
      BY <1>1
    <2> QED BY <1>9, <2>3, <2>4 DEF Pending, Ahead
  <1>16. MissesNothing'
    <2>1. phase' = "walking"
      BY <1>1 DEF IInv, Course
    <2> QED BY <2>1 DEF MissesNothing
  <1> QED BY <1>11, <1>12, <1>13, <1>14, <1>15, <1>16 DEF IInv

LEMMA ReceiveKeeps == ASSUME WalkParameters, IInv, Receive PROVE IInv'
  <1>1. /\ page # NoPage /\ page' = NoPage
        /\ seen' = seen \cup Range(page.ids)
        /\ UNCHANGED <<rows, nextId, atStart, gone>>
    BY DEF Receive
  <1>2. /\ IsInjective(page.ids)
        /\ \A id \in Range(page.ids) : id \in Nat /\ id < nextId /\ id \notin seen
    BY <1>1 DEF IInv, Fresh
  <1>3. Range(page.ids) \cap seen = {}
    BY <1>2
  <1>4. /\ request' = IF page.next = NoCursor THEN NoRequest ELSE [request EXCEPT !.cursor = page.next]
        /\ phase' = IF page.next = NoCursor THEN "done" ELSE "walking"
    BY <1>2, <1>3 DEF Receive
  <1>5. request # NoRequest /\ request \in Requests /\ page.next \in Cursors
    BY <1>1 DEF IInv, Types, Course
  <1>6. page.next # NoCursor =>
          /\ request' \in Requests
          /\ request'.cursor = page.next /\ request'.direction = request.direction
          /\ request'.backtests = request.backtests
    BY <1>4, <1>5 DEF Requests
  <1>7. page.next # NoCursor => request' # NoRequest
    BY <1>6, RequestsAreRequests
  <1>8. page.next # NoCursor => Matching' = Matching
    BY <1>1, <1>6 DEF Matching
  <1>9. Types'
    BY <1>1, <1>2, <1>4, <1>6 DEF IInv, Types
  <1>10. Course'
    BY <1>1, <1>4, <1>7 DEF Course
  <1>11. Behind'
    <2>1. CASE page.next = NoCursor
      BY <1>4, <2>1 DEF Behind
    <2>2. CASE page.next # NoCursor
      BY <1>1, <1>6, <1>8, <2>2 DEF IInv, Behind, Fresh
    <2> QED BY <2>1, <2>2
  <1>12. Fresh'
    BY <1>1 DEF Fresh
  <1>13. \A r \in atStart : \/ r.id \in seen' \cup gone'
                            \/ page.next # NoCursor /\ Ahead(page.next, r)
    <2>1. \A r \in atStart : \/ r.id \in seen \cup gone \cup Range(page.ids)
                             \/ page.next # NoCursor /\ Ahead(page.next, r)
      <3>1. Pending
        BY DEF IInv
      <3> QED BY <1>1, <3>1 DEF Pending
    <2>2. seen' \cup gone' = seen \cup gone \cup Range(page.ids)
      BY <1>1
    <2> QED BY <2>1, <2>2
  <1>14. Pending'
    <2>1. CASE page.next = NoCursor
      BY <1>1, <1>4, <2>1 DEF Pending
    <2>2. CASE page.next # NoCursor
      <3>1. \A r \in atStart : r.id \in seen' \cup gone' \/ Ahead(request.cursor, r)'
        BY <1>6, <1>8, <1>13, <2>2 DEF Ahead
      <3> QED BY <1>1, <3>1 DEF Pending
    <2> QED BY <2>1, <2>2
  <1>15. MissesNothing'
    BY <1>1, <1>4, <1>13 DEF MissesNothing
  <1> QED BY <1>9, <1>10, <1>11, <1>12, <1>14, <1>15 DEF IInv

-----------------------------------------------------------------------------
(* The theorems.                                                           *)

\* What was received is behind the cursor, what is owed is ahead of it, and a
\* page on its way is new: whatever is inserted or deleted meanwhile.
THEOREM WalkInvariant == ASSUME WalkParameters PROVE Spec => []IInv
  <1>1. IInv /\ [Next]_vars => IInv'
    <2> SUFFICES ASSUME IInv, [Next]_vars PROVE IInv'
      OBVIOUS
    <2>1. CASE Insert
      BY <2>1, InsertKeeps
    <2>2. CASE Delete
      BY <2>2, DeleteKeeps
    <2>3. CASE Open
      BY <2>3, OpenKeeps
    <2>4. CASE Serve
      BY <2>4, ServeKeeps
    <2>5. CASE Receive
      BY <2>5, ReceiveKeeps
    <2>6. CASE UNCHANGED vars
      BY <2>6 DEF vars, IInv, Types, Course, Behind, Fresh, Pending, Ahead, Matching, MissesNothing
    <2> QED BY <2>1, <2>2, <2>3, <2>4, <2>5, <2>6 DEF Next
  <1>2. Init => IInv
    BY InitIInv
  <1> QED BY <1>1, <1>2, PTL DEF Spec

\* A walk brings no row twice, rows of one second being told apart by their ids, and
\* one that has come to its end has brought every row that was there from its
\* start to its end (applyCompositeCursorFilter and fetchCursorPaginatedData, as
\* checkAndFetchMore and assertIdUniqueness use them).
THEOREM BringsEachRowOnce == ASSUME WalkParameters PROVE Spec => []EachRowOnce
  <1>1. IInv => EachRowOnce
    BY DEF IInv, Course, EachRowOnce, NeverRepeats
  <1> QED BY <1>1, WalkInvariant, PTL
=============================================================================

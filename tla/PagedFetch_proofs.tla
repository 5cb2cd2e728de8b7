-------------------------- MODULE PagedFetch_proofs --------------------------
(***************************************************************************)
(* Proofs about the paginated fetch.  A page is a stretch of the sorted    *)
(* table, so the lemmas come first on what sorting a set of rows gives and *)
(* on the rank of a row in it, which is what start_row counts.             *)
(***************************************************************************)
EXTENDS PagedFetch, SequenceTheorems, FiniteSetTheorems, TLAPS

Increasing(s) == \A i, j \in DOMAIN s : i < j => s[i] < s[j]

\* The number of rows that come before r in the sort order.
Below(rows, r) == {x \in rows : x < r}
Rank(rows, r) == Cardinality(Below(rows, r))

Lesser(m, n) == IF m < n THEN m ELSE n

-----------------------------------------------------------------------------
(* Sorting. *)

LEMMA RowsAreFinite ==
  ASSUME NEW rows \in SUBSET Rows
  PROVE  /\ IsFiniteSet(rows)
         /\ Cardinality(rows) \in Nat
         /\ rows \subseteq Nat
<1>1. IsFiniteSet(rows)
  BY RowsAssumption, FS_Subset
<1> QED
  BY <1>1, RowsAssumption, FS_CardinalityType

LEMMA FirstRow ==
  ASSUME NEW rows \in SUBSET Nat, rows # {}
  PROVE  \E m \in rows : \A x \in rows : m <= x
<1> DEFINE R == {ss \in Nat \X Nat : ss[1] < ss[2]}
<1>1. IsWellFoundedOn(R, Nat)
  <2>1. OpToRel(<, Nat) = R
    BY DEF OpToRel
  <2> QED
    BY <2>1, NatLessThanWellFounded
<1>2. PICK r \in rows : TRUE
  OBVIOUS
<1>3. PICK m \in rows : \A x \in rows : ~(<<x, m>> \in R)
  <2> HIDE DEF R
  <2> QED
    BY <1>1, <1>2, WFMin
<1>4. \A x \in rows : m <= x
  <2> SUFFICES ASSUME NEW x \in rows PROVE m <= x
    OBVIOUS
  <2>1. x \in Nat /\ m \in Nat
    OBVIOUS
  <2>2. x < m => <<x, m>> \in R
    BY <2>1
  <2> HIDE DEF R
  <2>3. ~(x < m)
    BY <1>3, <2>2
  <2> QED
    BY <2>1, <2>3
<1> QED
  BY <1>4

\* A first row put before sorted rows that are all larger.
LEMMA SortedWithFirst ==
  ASSUME NEW rows \in SUBSET Nat, NEW m \in rows, NEW n \in Nat,
         \A x \in rows : m <= x,
         NEW s \in [1..n -> rows \ {m}], Increasing(s)
  PROVE  \E t \in [1..(n + 1) -> rows] : Increasing(t)
<1> DEFINE t == [i \in 1..(n + 1) |-> IF i = 1 THEN m ELSE s[i - 1]]
<1>1. \A i \in 2..(n + 1) : i - 1 \in 1..n
  OBVIOUS
<1>2. \A i \in 1..(n + 1) : i # 1 => i \in 2..(n + 1)
  OBVIOUS
<1>3. \A i \in 2..(n + 1) : t[i] = s[i - 1] /\ t[i] \in rows /\ m < t[i]
  <2> SUFFICES ASSUME NEW i \in 2..(n + 1)
               PROVE  t[i] = s[i - 1] /\ t[i] \in rows /\ m < t[i]
    OBVIOUS
  <2>1. i \in 1..(n + 1) /\ i # 1
    OBVIOUS
  <2>2. t[i] = s[i - 1]
    BY <2>1
  <2>3. s[i - 1] \in rows \ {m}
    BY <1>1
  <2>4. s[i - 1] \in Nat /\ m \in Nat /\ m <= s[i - 1]
    BY <2>3
  <2> HIDE DEF t
  <2> QED
    BY <2>2, <2>3, <2>4
<1>4. t[1] = m
  OBVIOUS
<1>5. t \in [1..(n + 1) -> rows]
  BY <1>2, <1>3, <1>4
<1>6. DOMAIN t = 1..(n + 1) /\ DOMAIN s = 1..n
  OBVIOUS
<1> HIDE DEF t
<1>7. ASSUME NEW i \in 1..(n + 1), NEW j \in 1..(n + 1), i < j
      PROVE  t[i] < t[j]
  <2>1. j \in 2..(n + 1)
    BY <1>7
  <2>2. CASE i = 1
    BY <1>3, <1>4, <2>1, <2>2
  <2>3. CASE i # 1
    <3>1. i \in 2..(n + 1)
      BY <1>2, <2>3
    <3>2. i - 1 \in 1..n /\ j - 1 \in 1..n /\ i - 1 < j - 1
      BY <1>7, <2>1, <3>1
    <3>3. s[i - 1] < s[j - 1]
      BY <1>6, <3>2 DEF Increasing
    <3> QED
      BY <1>3, <2>1, <3>1, <3>3
  <2> QED
    BY <2>2, <2>3
<1> QED
  BY <1>5, <1>6, <1>7 DEF Increasing

\* Every set of rows can be sorted: one that cannot, and has no smaller such set
\* inside, has a first row, and the other rows can be sorted.
LEMMA SortedExists ==
  ASSUME NEW rows \in SUBSET Rows
  PROVE  \E s \in [1..Cardinality(rows) -> rows] : Increasing(s)
<1> DEFINE Sortable(T) == \E s \in [1..Cardinality(T) -> T] : Increasing(s)
           Bad == {T \in SUBSET Rows : ~Sortable(T)}
<1> SUFFICES ASSUME rows \in Bad PROVE FALSE
  OBVIOUS
<1>1. IsWellFoundedOn(StrictSubsetOrdering(Rows), SUBSET Rows)
  BY RowsAssumption, FS_StrictSubsetOrderingWellFounded, FS_FiniteSubsetsOfFinite
<1>2. PICK T \in Bad : \A U \in Bad : ~(<<U, T>> \in StrictSubsetOrdering(Rows))
  <2>1. Bad \in SUBSET (SUBSET Rows)
    OBVIOUS
  <2> HIDE DEF Bad
  <2> QED
    BY <1>1, <2>1, WFMin
<1>3. T \in SUBSET Rows /\ ~Sortable(T)
  OBVIOUS
<1>4. T # {}
  <2> SUFFICES ASSUME T = {} PROVE FALSE
    OBVIOUS
  <2>1. Cardinality(T) = 0
    BY FS_EmptySet
  <2> DEFINE none == [i \in 1..0 |-> i]
  <2>2. none \in [1..Cardinality(T) -> T] /\ Increasing(none)
    <3>1. 1..0 = {}
      OBVIOUS
    <3> QED
      BY <2>1, <3>1 DEF Increasing
  <2> HIDE DEF none
  <2> QED
    BY <1>3, <2>2
<1>5. T \in SUBSET Nat
  BY <1>3, RowsAreFinite
<1>6. PICK m \in T : \A x \in T : m <= x
  BY <1>4, <1>5, FirstRow
<1> DEFINE rest == T \ {m}
<1>7. Sortable(rest)
  <2>1. rest \in SUBSET Rows /\ rest \subseteq T /\ rest # T
    BY <1>3, <1>6
  <2>2. <<rest, T>> \in StrictSubsetOrdering(Rows)
    BY <1>3, <2>1 DEF StrictSubsetOrdering
  <2>3. rest \notin Bad
    BY <1>2, <2>2
  <2> QED
    BY <2>1, <2>3
<1>8. PICK n \in Nat : n = Cardinality(rest)
  BY <1>3, RowsAreFinite
<1>9. Cardinality(T) = n + 1
  <2>1. IsFiniteSet(rest) /\ m \notin rest /\ T = rest \cup {m}
    BY <1>3, <1>6, RowsAreFinite
  <2> QED
    BY <1>8, <2>1, FS_AddElement
<1>10. PICK s \in [1..n -> rest] : Increasing(s)
  BY <1>7, <1>8
<1>11. \E t \in [1..(n + 1) -> T] : Increasing(t)
  BY <1>5, <1>6, <1>10, SortedWithFirst
<1> QED
  BY <1>3, <1>9, <1>11

\* Sorted lists every row of the set once, in increasing order.
LEMMA SortedProperties ==
  ASSUME NEW rows \in SUBSET Rows
  PROVE  /\ Sorted(rows) \in [1..Cardinality(rows) -> rows]
         /\ Sorted(rows) \in Seq(rows) /\ Sorted(rows) \in Seq(Rows)
         /\ Len(Sorted(rows)) = Cardinality(rows)
         /\ \A i, j \in 1..Cardinality(rows) : i < j => Sorted(rows)[i] < Sorted(rows)[j]
         /\ \A r \in rows : \E i \in 1..Cardinality(rows) : Sorted(rows)[i] = r
<1>1. PICK n \in Nat : n = Cardinality(rows)
  BY RowsAreFinite
<1>2. Sorted(rows) \in [1..n -> rows] /\ Increasing(Sorted(rows))
  BY <1>1, SortedExists DEF Sorted, Increasing
<1>3. PICK s \in [1..n -> rows] : s = Sorted(rows) /\ Increasing(s)
  BY <1>2
<1>4. s \in Seq(rows) /\ s \in Seq(Rows) /\ Len(s) = n
  OBVIOUS
<1>5. \A i, j \in 1..n : i < j => s[i] < s[j]
  BY <1>3 DEF Increasing
<1>6. s \in Surjection(1..n, rows)
  <2>1. ASSUME NEW i \in 1..n, NEW j \in 1..n, s[i] = s[j]
        PROVE  i = j
    <3>1. s[i] \in Nat /\ s[j] \in Nat
      BY RowsAreFinite
    <3> QED
      BY <1>5, <2>1, <3>1
  <2>2. s \in Injection(1..n, rows)
    BY <2>1 DEF Injection, IsInjective
  <2>3. IsFiniteSet(rows) /\ IsFiniteSet(1..n) /\ Cardinality(1..n) = n
    BY RowsAreFinite, FS_Interval
  <2> QED
    BY <1>1, <2>2, <2>3, FS_Injection
<1>7. \A r \in rows : \E i \in 1..n : s[i] = r
  BY <1>6 DEF Surjection
<1> QED
  BY <1>1, <1>3, <1>4, <1>5, <1>7

-----------------------------------------------------------------------------
(* Ranks and pages. *)

\* The row at place i of the sorted table has i - 1 rows before it.
LEMMA RankOfPlace ==
  ASSUME NEW rows \in SUBSET Rows, NEW i \in 1..Cardinality(rows)
  PROVE  Rank(rows, Sorted(rows)[i]) = i - 1
<1> DEFINE s == Sorted(rows)
           first == [k \in 1..(i - 1) |-> s[k]]
<1>1. PICK n \in Nat : n = Cardinality(rows)
  BY RowsAreFinite
<1>2. /\ s \in [1..n -> rows]
      /\ \A k, l \in 1..n : k < l => s[k] < s[l]
      /\ \A r \in rows : \E k \in 1..n : s[k] = r
  BY <1>1, SortedProperties
<1>3. i \in 1..n /\ i - 1 \in Nat /\ rows \subseteq Nat
  BY <1>1, RowsAreFinite
<1> HIDE DEF s
<1>4. \A k \in 1..(i - 1) : k \in 1..n /\ k < i
  BY <1>3
<1>5. \A k \in 1..(i - 1) : s[k] \in Below(rows, s[i])
  BY <1>2, <1>3, <1>4 DEF Below
<1>6. \A r \in Below(rows, s[i]) : \E k \in 1..(i - 1) : s[k] = r
  <2> SUFFICES ASSUME NEW r \in rows, r < s[i]
               PROVE  \E k \in 1..(i - 1) : s[k] = r
    BY DEF Below
  <2>1. PICK k \in 1..n : s[k] = r
    BY <1>2
  <2>2. s[k] \in Nat /\ s[i] \in Nat
    BY <1>2, <1>3
  <2>3. ~(i < k) /\ k # i
    BY <1>2, <1>3, <2>1, <2>2
  <2>4. k \in 1..(i - 1)
    BY <1>3, <2>3
  <2> QED
    BY <2>1, <2>4
<1>7. \A k, l \in 1..(i - 1) : s[k] = s[l] => k = l
  <2> SUFFICES ASSUME NEW k \in 1..(i - 1), NEW l \in 1..(i - 1), s[k] = s[l]
               PROVE  k = l
    OBVIOUS
  <2>1. s[k] \in Nat /\ s[l] \in Nat
    BY <1>2, <1>3, <1>4
  <2>2. ~(k < l) /\ ~(l < k)
    BY <1>2, <1>4, <2>1
  <2> QED
    BY <2>2
<1>8. first \in Bijection(1..(i - 1), Below(rows, s[i]))
  BY <1>5, <1>6, <1>7 DEF Bijection, Injection, Surjection, IsInjective
<1> HIDE DEF first
<1>9. ExistsBijection(1..(i - 1), Below(rows, s[i]))
  BY <1>8 DEF ExistsBijection
<1> QED
  BY <1>3, <1>9, FS_CountingElements DEF Rank, s

\* So a row is where its rank says.
LEMMA PlaceOfRow ==
  ASSUME NEW rows \in SUBSET Rows, NEW r \in rows
  PROVE  /\ Rank(rows, r) \in 0..(Cardinality(rows) - 1)
         /\ Sorted(rows)[Rank(rows, r) + 1] = r
<1>1. PICK n \in Nat : n = Cardinality(rows)
  BY RowsAreFinite
<1>2. PICK i \in 1..n : Sorted(rows)[i] = r
  BY <1>1, SortedProperties
<1>3. Rank(rows, r) = i - 1
  BY <1>1, <1>2, RankOfPlace
<1>4. i - 1 \in 0..(n - 1) /\ (i - 1) + 1 = i
  OBVIOUS
<1> QED
  BY <1>1, <1>2, <1>3, <1>4

\* Rows that come in move the others back, never forward.
LEMMA MoreRowsRaiseRank ==
  ASSUME NEW rows \in SUBSET Rows, NEW more \in SUBSET Rows, rows \subseteq more, NEW r
  PROVE  /\ Rank(rows, r) \in Nat /\ Rank(more, r) \in Nat
         /\ Rank(rows, r) <= Rank(more, r)
<1>1. Below(rows, r) \subseteq Below(more, r)
  BY DEF Below
<1>2. Below(rows, r) \in SUBSET Rows /\ Below(more, r) \in SUBSET Rows
  BY DEF Below
<1> QED
  BY <1>1, <1>2, RowsAreFinite, FS_Subset DEF Rank

\* How many rows a page has, and where they are in a sorted table.
LEMMA PageProperties ==
  ASSUME table \in SUBSET Rows, NEW from \in Nat, NEW size \in Nat,
         NEW data \in Page(from, from + size)
  PROVE  /\ data \in Seq(table) /\ data \in Seq(Rows)
         /\ Len(data) = IF from < Cardinality(table)
                        THEN Lesser(from + size, Cardinality(table)) - from
                        ELSE 0
         /\ sortBy = "key" =>
              /\ data = SubSeq(Sorted(table), from + 1, Lesser(from + size, Cardinality(table)))
              /\ \A k \in 1..Len(data) : data[k] = Sorted(table)[from + k]
         /\ sortBy # "key" =>
              \E rows \in SUBSET table : data = Sorted(rows) /\ Cardinality(rows) = Len(data)
<1> DEFINE s == Sorted(table)
<1>1. PICK n \in Nat : n = Cardinality(table)
  BY RowsAreFinite
<1> DEFINE to == Lesser(from + size, n)
           page == SubSeq(s, from + 1, to)
<1>2. s \in [1..n -> table] /\ s \in Seq(table) /\ Len(s) = n
  BY <1>1, SortedProperties
<1>3. IF sortBy = "key" THEN data = page
      ELSE data \in {Sorted(rows) : rows \in kSubset(Len(page), table)}
  BY <1>2 DEF Page, Lesser
<1>4. /\ to \in Nat /\ to <= n
      /\ IF from < n THEN from <= to ELSE to <= from
  BY DEF Lesser
<1>5. \A i \in (from + 1)..to : s[i] \in table
  BY <1>2, <1>4
<1> HIDE DEF s
<1>6. /\ page \in Seq(table)
      /\ Len(page) = IF from + 1 <= to THEN to - (from + 1) + 1 ELSE 0
      /\ \A i \in 1..(to - (from + 1) + 1) : page[i] = s[(from + 1) + i - 1]
  BY <1>4, <1>5, SubSeqProperties
<1>7. Len(page) = IF from < n THEN to - from ELSE 0
  <2> HIDE DEF page, to
  <2> QED
    BY <1>4, <1>6
<1>8. \A k \in 1..Len(page) : page[k] = s[from + k]
  <2> SUFFICES ASSUME NEW k \in 1..Len(page) PROVE page[k] = s[from + k]
    OBVIOUS
  <2>1. k \in 1..(to - (from + 1) + 1) /\ k \in Nat
    BY <1>4, <1>6
  <2>2. (from + 1) + k - 1 = from + k
    BY <2>1
  <2> QED
    BY <1>6, <2>1, <2>2
<1> HIDE DEF page, to
<1>9. CASE sortBy = "key"
  <2>1. data = page
    BY <1>3, <1>9
  <2>2. data \in Seq(Rows)
    BY <1>6, <2>1, SeqMonotonic
  <2> QED
    BY <1>1, <1>6, <1>7, <1>8, <1>9, <2>1, <2>2 DEF s, page, to
<1>10. CASE sortBy # "key"
  <2>1. PICK rows \in SUBSET table : data = Sorted(rows) /\ Cardinality(rows) = Len(page)
    BY <1>3, <1>10 DEF kSubset
  <2>2. data \in Seq(rows) /\ data \in Seq(Rows) /\ Len(data) = Len(page)
    BY <2>1, SortedProperties
  <2>3. data \in Seq(table)
    BY <2>2, SeqMonotonic
  <2> QED
    BY <1>1, <1>7, <1>10, <2>1, <2>2, <2>3 DEF to
<1> QED
  BY <1>9, <1>10

LEMMA NextMultiple ==
  ASSUME NEW m \in Nat, NEW n \in Nat \ {0}, m % n = 0
  PROVE  (m + n) % n = 0
<1>1. PICK k \in Int : k = m \div n
  OBVIOUS
<1>2. m = n * k
  BY <1>1
<1>3. m + n = n * (k + 1)
  BY <1>2
<1>4. \A l \in Int : (n * l) % n = 0
  OBVIOUS
<1> QED
  BY <1>3, <1>4

LEMMA AppendKeepsRange ==
  ASSUME NEW S, NEW s \in Seq(S), NEW e \in S
  PROVE  e \in Range(Append(s, e)) /\ Range(s) \subseteq Range(Append(s, e))
<1> DEFINE t == Append(s, e)
<1>1. /\ t \in Seq(S) /\ Len(t) = Len(s) + 1 /\ Len(s) \in Nat
      /\ \A i \in 1..Len(s) : t[i] = s[i]
      /\ t[Len(s) + 1] = e
  BY AppendProperties, LenProperties
<1> HIDE DEF t
<1>2. Range(t) = {t[i] : i \in 1..Len(t)} /\ Range(s) = {s[i] : i \in 1..Len(s)}
  BY <1>1, RangeEquality
<1>3. (Len(s) + 1) \in 1..Len(t) /\ \A i \in 1..Len(s) : i \in 1..Len(t)
  BY <1>1
<1>4. e \in Range(t)
  BY <1>1, <1>2, <1>3
<1>5. Range(s) \subseteq Range(t)
  BY <1>1, <1>2, <1>3
<1> QED
  BY <1>4, <1>5 DEF t

-----------------------------------------------------------------------------
(* The invariants, each with what it needs of the earlier ones. *)

\* Where the generator is: start_row moves by whole pages from 0, and passed the
\* end of the table when the generator is done.
ProgressInv ==
  /\ startRow = 0 \/ startRow >= PageSize
  /\ pc = "fc" => startRow = 0 /\ out = << >>
  /\ pc = "done" => startRow >= Cardinality(table)

\* While others only load, the rows there from the beginning are still there, and
\* of these the ones whose rank start_row has passed were yielded.
SeenInv ==
  Range(edits) \subseteq {"insert"} =>
    /\ initial \subseteq table
    /\ sortBy = "key" => \A r \in initial : Rank(table, r) < startRow => r \in Range(out)

\* While nobody disturbs the fetch, what was yielded is the sorted table up to
\* start_row, or as many rows of an unsorted one.
QuietInv ==
  edits = << >> /\ pc \in {"page", "done"} =>
    /\ keyed <=> sortBy = "key"
    /\ keyed => out = SubSeq(Sorted(table), 1, Lesser(startRow, Cardinality(table)))
    /\ ~keyed =>
         /\ Len(out) = Lesser(startRow, Cardinality(table))
         /\ Range(out) \subseteq table
         /\ startRow > 0 /\ Cardinality(table) <= PageSize => Range(out) = table

IInv == TypeOK /\ ProgressInv /\ SeenInv /\ QuietInv

-----------------------------------------------------------------------------
(* A page. *)

\* One turn of the loop ends the fetch beyond the table, or takes a page.
LEMMA TurnOfTheLoop ==
  ASSUME TypeOK, FetchPage
  PROVE  \E data \in Page(startRow, startRow + PageSize) :
           \/ /\ data = << >> /\ startRow >= Cardinality(table)
              /\ pc' = "done" /\ UNCHANGED <<startRow, out>>
           \/ /\ data # << >> /\ startRow < Cardinality(table)
              /\ out' = out \o data /\ startRow' = startRow + PageSize /\ UNCHANGED pc
<1>1. table \in SUBSET Rows /\ startRow \in Nat /\ PageSize \in Nat /\ PageSize > 0
  BY PageSizeAssumption DEF TypeOK
<1>2. PICK data \in Page(startRow, startRow + PageSize) :
        IF data = << >>
        THEN pc' = "done" /\ UNCHANGED <<startRow, out>>
        ELSE out' = out \o data /\ startRow' = startRow + PageSize /\ UNCHANGED pc
  BY DEF FetchPage
<1>3. PICK n \in Nat : n = Cardinality(table)
  BY <1>1, RowsAreFinite
<1>4. /\ data \in Seq(Rows)
      /\ Len(data) = IF startRow < n THEN Lesser(startRow + PageSize, n) - startRow ELSE 0
  BY <1>1, <1>2, <1>3, PageProperties
<1>5. data = << >> <=> Len(data) = 0
  BY <1>4, EmptySeq
<1>6. data = << >> <=> startRow >= n
  BY <1>1, <1>4, <1>5 DEF Lesser
<1>7. data # << >> <=> startRow < n
  BY <1>1, <1>6
<1> QED
  BY <1>2, <1>3, <1>6, <1>7

LEMMA TypeStep ==
  ASSUME TypeOK, [Next]_vars
  PROVE  TypeOK'
<1> USE DEF TypeOK
<1>1. CASE GetFc
  BY <1>1 DEF GetFc
<1>2. CASE FetchPage
  <2>1. UNCHANGED <<table, keyed, sortBy, initial, edits>>
    BY <1>2 DEF FetchPage
  <2>2. PICK data \in Page(startRow, startRow + PageSize) :
           \/ pc' = "done" /\ UNCHANGED <<startRow, out>>
           \/ out' = out \o data /\ startRow' = startRow + PageSize /\ UNCHANGED pc
    BY <1>2, TurnOfTheLoop
  <2>3. data \in Seq(Rows)
    BY <2>2, PageSizeAssumption, PageProperties
  <2>4. out \o data \in Seq(Rows)
    BY <2>3, ConcatProperties
  <2>5. startRow + PageSize \in Nat /\ (startRow + PageSize) % PageSize = 0
    <3>1. startRow \in Nat /\ startRow % PageSize = 0 /\ PageSize \in Nat \ {0}
      BY PageSizeAssumption
    <3>2. (startRow + PageSize) % PageSize = 0
      BY <3>1, NextMultiple
    <3> QED
      BY <3>1, <3>2
  <2> QED
    BY <2>1, <2>2, <2>4, <2>5
<1>3. CASE Fails
  BY <1>3 DEF Fails
<1>4. ASSUME NEW what \in {"insert", "delete", "replace"}, Edit(what)
      PROVE  edits' \in Seq({"insert", "delete", "replace"}) /\ Len(edits') <= MaxEdits
  BY <1>4, MaxEditsAssumption, AppendProperties, LenProperties DEF Edit
<1>5. CASE Insert
  BY <1>4, <1>5 DEF Insert
<1>6. CASE Delete
  BY <1>4, <1>6 DEF Delete
<1>7. CASE Replace
  BY <1>4, <1>7 DEF Replace
<1>8. CASE UNCHANGED vars
  BY <1>8 DEF vars
<1> QED
  BY <1>1, <1>2, <1>3, <1>5, <1>6, <1>7, <1>8 DEF Next

LEMMA InitInv == Init => IInv
<1> SUFFICES ASSUME Init PROVE IInv
  OBVIOUS
<1> USE DEF Init
<1>1. << >> \in Seq(Rows) /\ << >> \in Seq({"insert", "delete", "replace"}) /\ Len(<< >>) = 0
  BY EmptySeq
<1>2. TypeOK
  <2>1. 0 % PageSize = 0
    BY PageSizeAssumption
  <2> QED
    BY <1>1, <2>1, MaxEditsAssumption DEF TypeOK
<1>3. ProgressInv
  BY DEF ProgressInv
<1>4. SeenInv
  BY DEF SeenInv
<1>5. QuietInv
  BY DEF QuietInv
<1> QED
  BY <1>2, <1>3, <1>4, <1>5 DEF IInv

LEMMA RangeOfSorted ==
  ASSUME NEW rows \in SUBSET Rows
  PROVE  Range(Sorted(rows)) = rows
<1>1. PICK n \in Nat : n = Cardinality(rows)
  BY RowsAreFinite
<1>2. /\ Sorted(rows) \in Seq(rows) /\ Len(Sorted(rows)) = n
      /\ \A r \in rows : \E i \in 1..n : Sorted(rows)[i] = r
  BY <1>1, SortedProperties
<1>3. /\ Range(Sorted(rows)) \subseteq rows
      /\ Range(Sorted(rows)) = {Sorted(rows)[i] : i \in 1..n}
  BY <1>2, RangeOfSeq, RangeEquality
<1> QED
  BY <1>2, <1>3

\* A page of a sorted table brings the rows whose ranks it covers.
LEMMA PageKeepsSeen ==
  ASSUME IInv, UNCHANGED <<table, sortBy, initial, edits>>,
         NEW data \in Page(startRow, startRow + PageSize),
         startRow < Cardinality(table),
         out' = out \o data, startRow' = startRow + PageSize
  PROVE  SeenInv'
<1>1. /\ table \in SUBSET Rows /\ startRow \in Nat /\ PageSize \in Nat /\ out \in Seq(Rows)
      /\ SeenInv
  BY PageSizeAssumption DEF IInv, TypeOK
<1>2. PICK n \in Nat : n = Cardinality(table)
  BY <1>1, RowsAreFinite
<1>3. /\ data \in Seq(Rows)
      /\ Len(data) = Lesser(startRow + PageSize, n) - startRow
      /\ sortBy = "key" => \A k \in 1..Len(data) : data[k] = Sorted(table)[startRow + k]
  BY <1>1, <1>2, PageProperties
<1>4. /\ Range(out') = Range(out) \cup Range(data)
      /\ Range(data) = {data[k] : k \in 1..Len(data)}
  BY <1>1, <1>3, RangeConcatenation, RangeEquality
<1> SUFFICES ASSUME Range(edits) \subseteq {"insert"}
             PROVE  /\ initial \subseteq table
                    /\ sortBy = "key" =>
                         \A r \in initial : Rank(table, r) < startRow' => r \in Range(out')
  BY DEF SeenInv
<1>5. initial \subseteq table
  BY <1>1 DEF SeenInv
<1>6. ASSUME sortBy = "key", NEW r \in initial, Rank(table, r) < startRow'
      PROVE  r \in Range(out')
  <2>1. PICK rank \in Nat : rank = Rank(table, r)
    BY <1>1, <1>2, <1>5, PlaceOfRow
  <2>2. rank < n /\ Sorted(table)[rank + 1] = r
    BY <1>1, <1>2, <1>5, <2>1, PlaceOfRow
  <2>3. CASE rank < startRow
    BY <1>1, <1>4, <1>6, <2>1, <2>3 DEF SeenInv
  <2>4. CASE rank >= startRow
    <3>1. rank < startRow + PageSize
      BY <1>6, <2>1
    <3>2. PICK k \in Nat : k = rank + 1 - startRow
      BY <1>1, <2>4
    <3>3. k \in 1..Len(data) /\ startRow + k = rank + 1
      BY <1>1, <1>3, <2>2, <2>4, <3>1, <3>2 DEF Lesser
    <3>4. data[k] = r
      BY <1>3, <1>6, <2>2, <3>3
    <3> QED
      BY <1>4, <3>3, <3>4
  <2> QED
    BY <1>1, <2>3, <2>4
<1> QED
  BY <1>5, <1>6

\* A page goes on where the last one ended.
LEMMA PageKeepsQuiet ==
  ASSUME IInv, UNCHANGED <<table, keyed, sortBy, edits, pc>>,
         NEW data \in Page(startRow, startRow + PageSize),
         startRow < Cardinality(table),
         out' = out \o data, startRow' = startRow + PageSize
  PROVE  QuietInv'
<1>1. /\ table \in SUBSET Rows /\ startRow \in Nat /\ PageSize \in Nat /\ PageSize > 0
      /\ out \in Seq(Rows)
      /\ ProgressInv /\ QuietInv
  BY PageSizeAssumption DEF IInv, TypeOK
<1>2. PICK n \in Nat : n = Cardinality(table)
  BY <1>1, RowsAreFinite
<1> DEFINE to == Lesser(startRow + PageSize, n)
<1>3. /\ data \in Seq(table) /\ data \in Seq(Rows)
      /\ Len(data) = to - startRow
      /\ sortBy = "key" => data = SubSeq(Sorted(table), startRow + 1, to)
      /\ sortBy # "key" =>
           \E rows \in SUBSET table : data = Sorted(rows) /\ Cardinality(rows) = Len(data)
  BY <1>1, <1>2, PageProperties
<1>4. /\ startRow < n /\ Lesser(startRow, n) = startRow
      /\ to \in startRow..n /\ Lesser(startRow', n) = to
      /\ n <= PageSize => to = n
  BY <1>1, <1>2 DEF Lesser
<1> HIDE DEF to
<1> SUFFICES ASSUME edits = << >>, pc \in {"page", "done"}
             PROVE  /\ keyed <=> sortBy = "key"
                    /\ keyed => out' = SubSeq(Sorted(table), 1, to)
                    /\ ~keyed => /\ Len(out') = to
                                 /\ Range(out') \subseteq table
                                 /\ n <= PageSize => Range(out') = table
  BY <1>2, <1>4 DEF QuietInv
<1>5. /\ keyed <=> sortBy = "key"
      /\ keyed => out = SubSeq(Sorted(table), 1, startRow)
      /\ ~keyed => /\ Len(out) = startRow
                   /\ Range(out) \subseteq table
  BY <1>1, <1>2, <1>4 DEF QuietInv
<1>6. CASE keyed
  <2>1. Sorted(table) \in Seq(table) /\ Len(Sorted(table)) = n
    BY <1>1, <1>2, SortedProperties
  <2>2. 1 \in 1..(n + 1) /\ startRow \in (1 - 1)..n /\ to \in startRow..n
    BY <1>1, <1>4
  <2>3. SubSeq(Sorted(table), 1, startRow) \o SubSeq(Sorted(table), startRow + 1, to)
          = SubSeq(Sorted(table), 1, to)
    BY <2>1, <2>2, ConcatAdjacentSubSeq
  <2> QED
    BY <1>3, <1>5, <1>6, <2>3
<1>7. CASE ~keyed
  <2>1. Len(out') = to
    BY <1>1, <1>3, <1>4, <1>5, <1>7, ConcatProperties
  <2>2. Range(out') = Range(out) \cup Range(data) /\ Range(data) \subseteq table
    BY <1>1, <1>3, RangeConcatenation, RangeOfSeq
  <2>3. ASSUME n <= PageSize
        PROVE  Range(out') = table
    <3>1. startRow = 0 /\ to = n
      BY <1>1, <1>4, <2>3 DEF ProgressInv
    <3>2. PICK rows \in SUBSET table : data = Sorted(rows) /\ Cardinality(rows) = n
      BY <1>3, <1>5, <1>7, <3>1
    <3>3. rows = table
      BY <1>1, <1>2, <3>2, RowsAreFinite, FS_Subset
    <3>4. Range(data) = table
      BY <1>1, <3>2, <3>3, RangeOfSorted
    <3> QED
      BY <1>5, <1>7, <2>2, <3>4
  <2> QED
    BY <1>5, <1>7, <2>1, <2>2, <2>3
<1> QED
  BY <1>6, <1>7

LEMMA FetchStep ==
  ASSUME IInv, FetchPage
  PROVE  ProgressInv' /\ SeenInv' /\ QuietInv'
<1>1. TypeOK /\ ProgressInv /\ SeenInv /\ QuietInv /\ startRow \in Nat /\ PageSize \in Nat
  BY PageSizeAssumption DEF IInv, TypeOK
<1>2. pc = "page" /\ UNCHANGED <<table, keyed, sortBy, initial, edits>>
  BY DEF FetchPage
<1>3. PICK data \in Page(startRow, startRow + PageSize) :
           \/ /\ data = << >> /\ startRow >= Cardinality(table)
              /\ pc' = "done" /\ UNCHANGED <<startRow, out>>
           \/ /\ data # << >> /\ startRow < Cardinality(table)
              /\ out' = out \o data /\ startRow' = startRow + PageSize /\ UNCHANGED pc
  BY <1>1, TurnOfTheLoop
<1>4. CASE /\ startRow >= Cardinality(table)
           /\ pc' = "done" /\ UNCHANGED <<startRow, out>>
  <2>1. ProgressInv'
    BY <1>1, <1>2, <1>4 DEF ProgressInv
  <2>2. SeenInv'
    BY <1>1, <1>2, <1>4 DEF SeenInv
  <2>3. QuietInv'
    BY <1>1, <1>2, <1>4 DEF QuietInv
  <2> QED
    BY <2>1, <2>2, <2>3
<1>5. CASE /\ startRow < Cardinality(table)
           /\ out' = out \o data /\ startRow' = startRow + PageSize /\ UNCHANGED pc
  <2>1. ProgressInv'
    <3>1. startRow' >= PageSize
      BY <1>1, <1>5
    <3> QED
      BY <1>2, <1>5, <3>1 DEF ProgressInv
  <2>2. SeenInv'
    BY <1>2, <1>5, PageKeepsSeen
  <2>3. QuietInv'
    BY <1>2, <1>5, PageKeepsQuiet
  <2> QED
    BY <2>1, <2>2, <2>3
<1> QED
  BY <1>3, <1>4, <1>5

-----------------------------------------------------------------------------
(* The other steps. *)

LEMMA GetFcStep ==
  ASSUME IInv, GetFc
  PROVE  ProgressInv' /\ SeenInv' /\ QuietInv'
<1>1. /\ TypeOK /\ startRow = 0 /\ out = << >>
      /\ SeenInv
      /\ startRow' = 0 /\ out' = << >> /\ pc' = "page"
      /\ sortBy' = IF keyed THEN "key" ELSE "nothing"
      /\ UNCHANGED <<table, keyed, initial, edits>>
  BY DEF GetFc, IInv, ProgressInv
<1>2. table \in SUBSET Rows
  BY <1>1 DEF TypeOK
<1>3. PICK n \in Nat : n = Cardinality(table)
  BY <1>2, RowsAreFinite
<1>4. ProgressInv'
  BY <1>1 DEF ProgressInv
<1>5. SeenInv'
  <2> SUFFICES ASSUME Range(edits) \subseteq {"insert"}
               PROVE  \A r \in initial : ~(Rank(table, r) < 0)
    BY <1>1 DEF SeenInv
  <2> SUFFICES ASSUME NEW r \in initial PROVE ~(Rank(table, r) < 0)
    OBVIOUS
  <2>1. Rank(table, r) \in Nat
    BY <1>2, MoreRowsRaiseRank
  <2> QED
    BY <2>1
<1>6. QuietInv'
  <2>1. Lesser(0, n) = 0
    BY DEF Lesser
  <2>2. SubSeq(Sorted(table), 1, 0) = << >>
    BY SubSeqEmpty
  <2>3. << >> \in Seq(Rows) /\ Len(<< >>) = 0
    BY EmptySeq
  <2>4. Range(<< >>) \subseteq table
    BY EmptySeq, RangeOfSeq
  <2> QED
    BY <1>1, <1>3, <2>1, <2>2, <2>3, <2>4 DEF QuietInv
<1> QED
  BY <1>4, <1>5, <1>6

\* An edit is seen in the history, and only while the fetch goes on.
LEMMA EditIsRecorded ==
  ASSUME TypeOK, NEW what \in {"insert", "delete", "replace"}, Edit(what)
  PROVE  /\ pc \in {"fc", "page"}
         /\ edits' # << >>
         /\ what \in Range(edits') /\ Range(edits) \subseteq Range(edits')
<1>1. /\ edits \in Seq({"insert", "delete", "replace"})
      /\ edits' = Append(edits, what) /\ pc \in {"fc", "page"}
  BY DEF TypeOK, Edit
<1> QED
  BY <1>1, AppendKeepsRange, AppendProperties

LEMMA InsertStep ==
  ASSUME IInv, Insert
  PROVE  ProgressInv' /\ SeenInv' /\ QuietInv'
<1>1. /\ TypeOK /\ ProgressInv /\ SeenInv
      /\ Edit("insert") /\ UNCHANGED <<keyed, pc, sortBy, startRow, out, initial>>
      /\ table \in SUBSET Rows /\ startRow \in Nat
  BY DEF IInv, TypeOK, Insert
<1>2. PICK row \in Rows \ table : table' = table \cup {row}
  BY DEF Insert
<1>3. /\ pc \in {"fc", "page"} /\ edits' # << >> /\ Range(edits) \subseteq Range(edits')
  BY <1>1, EditIsRecorded
<1>4. ProgressInv'
  BY <1>1, <1>3 DEF ProgressInv
<1>5. SeenInv'
  <2> SUFFICES ASSUME Range(edits') \subseteq {"insert"}
               PROVE  /\ initial \subseteq table'
                      /\ sortBy = "key" =>
                           \A r \in initial : Rank(table', r) < startRow => r \in Range(out)
    BY <1>1 DEF SeenInv
  <2>1. /\ initial \subseteq table
        /\ sortBy = "key" => \A r \in initial : Rank(table, r) < startRow => r \in Range(out)
    BY <1>1, <1>3 DEF SeenInv
  <2>2. ASSUME sortBy = "key", NEW r \in initial, Rank(table', r) < startRow
        PROVE  r \in Range(out)
    <3>1. /\ Rank(table, r) \in Nat /\ Rank(table', r) \in Nat
          /\ Rank(table, r) <= Rank(table', r)
      BY <1>1, <1>2, MoreRowsRaiseRank
    <3>2. Rank(table, r) < startRow
      BY <1>1, <2>2, <3>1
    <3> QED
      BY <2>1, <2>2, <3>2
  <2> QED
    BY <1>2, <2>1, <2>2
<1>6. QuietInv'
  BY <1>3 DEF QuietInv
<1> QED
  BY <1>4, <1>5, <1>6

\* A deletion or a replacement is the end of what the invariants promise.
LEMMA DisturbingStep ==
  ASSUME IInv, Delete \/ Replace
  PROVE  ProgressInv' /\ SeenInv' /\ QuietInv'
<1>1. /\ TypeOK /\ ProgressInv
      /\ UNCHANGED <<pc, startRow, out>>
      /\ Edit("delete") \/ Edit("replace")
  BY DEF IInv, Delete, Replace
<1>2. /\ pc \in {"fc", "page"} /\ edits' # << >>
      /\ "delete" \in Range(edits') \/ "replace" \in Range(edits')
  BY <1>1, EditIsRecorded
<1>3. ProgressInv'
  BY <1>1, <1>2 DEF ProgressInv
<1>4. SeenInv'
  BY <1>2 DEF SeenInv
<1>5. QuietInv'
  BY <1>2 DEF QuietInv
<1> QED
  BY <1>3, <1>4, <1>5

LEMMA NextInv == IInv /\ [Next]_vars => IInv'
<1> SUFFICES ASSUME IInv, [Next]_vars PROVE IInv'
  OBVIOUS
<1>1. TypeOK'
  BY TypeStep DEF IInv
<1>2. ProgressInv' /\ SeenInv' /\ QuietInv'
  <2>1. CASE GetFc
    BY <2>1, GetFcStep
  <2>2. CASE FetchPage
    BY <2>2, FetchStep
  <2>3. CASE Fails
    <3>1. /\ pc' = "failed" /\ ProgressInv /\ SeenInv
          /\ UNCHANGED <<table, keyed, sortBy, startRow, out, initial, edits>>
      BY <2>3 DEF Fails, IInv
    <3>2. ProgressInv'
      BY <3>1 DEF ProgressInv
    <3>3. SeenInv'
      BY <3>1 DEF SeenInv
    <3>4. QuietInv'
      BY <3>1 DEF QuietInv
    <3> QED
      BY <3>2, <3>3, <3>4
  <2>4. CASE Insert
    BY <2>4, InsertStep
  <2>5. CASE Delete \/ Replace
    BY <2>5, DisturbingStep
  <2>6. CASE UNCHANGED vars
    BY <2>6 DEF IInv, vars, ProgressInv, SeenInv, QuietInv
  <2> QED
    BY <2>1, <2>2, <2>3, <2>4, <2>5, <2>6 DEF Next
<1> QED
  BY <1>1, <1>2 DEF IInv

LEMMA Invariance == Spec => []IInv
BY InitInv, NextInv, PTL DEF Spec

-----------------------------------------------------------------------------
(* The theorems. *)

\* The pages asked for begin at multiples of page_size, and the state keeps its shape.
THEOREM TypeCorrect == Spec => []TypeOK
<1>1. IInv => TypeOK
  BY DEF IInv
<1> QED
  BY <1>1, Invariance, PTL

\* fetch_paginated_dm_data of a table nobody edits meanwhile yields every row once,
\* in the order of the key; without key fields it yields as many rows as there are,
\* and the rows of the table if they fit one page: for every table and page_size.
THEOREM QuietFetches == Spec => []QuietFetchIsExact
<1>1. IInv => QuietFetchIsExact
  <2> SUFFICES ASSUME IInv, pc = "done", edits = << >>
               PROVE  IF keyed
                      THEN out = Sorted(table)
                      ELSE /\ Len(out) = Cardinality(table) /\ Range(out) \subseteq table
                           /\ Len(out) <= PageSize => Range(out) = table
    BY DEF QuietFetchIsExact
  <2>1. /\ table \in SUBSET Rows /\ startRow \in Nat /\ PageSize \in Nat
        /\ keyed \in BOOLEAN
    BY PageSizeAssumption DEF IInv, TypeOK
  <2>2. PICK n \in Nat : n = Cardinality(table)
    BY <2>1, RowsAreFinite
  <2>3. startRow >= n /\ Lesser(startRow, n) = n
    BY <2>1, <2>2 DEF IInv, ProgressInv, Lesser
  <2>4. /\ keyed => out = SubSeq(Sorted(table), 1, n)
        /\ ~keyed => /\ Len(out) = n
                     /\ Range(out) \subseteq table
                     /\ startRow > 0 /\ n <= PageSize => Range(out) = table
    BY <2>2, <2>3 DEF IInv, QuietInv
  <2>5. CASE keyed
    <3>1. Sorted(table) \in Seq(Rows) /\ Len(Sorted(table)) = n
      BY <2>1, <2>2, SortedProperties
    <3> QED
      BY <2>4, <2>5, <3>1, SubSeqFull
  <2>6. CASE ~keyed
    <3>1. CASE startRow > 0
      BY <2>2, <2>4, <2>6, <3>1
    <3>2. CASE startRow = 0
      <4>1. n = 0
        BY <2>3, <3>2
      <4>2. table = {}
        BY <2>1, <2>2, <4>1, RowsAreFinite, FS_EmptySet
      <4> QED
        BY <2>2, <2>4, <2>6, <4>2
    <3> QED
      BY <2>1, <3>1, <3>2
  <2> QED
    BY <2>1, <2>5, <2>6
<1> QED
  BY <1>1, Invariance, PTL

\* Loads of another client between two pages never make a sorted fetch miss a row
\* that was there when it began, however many they are.
THEOREM LoadsLoseNothing == Spec => []MissesOnlyAfterDelete
<1>1. IInv => MissesOnlyAfterDelete
  <2> SUFFICES ASSUME IInv, pc = "done", sortBy = "key", Range(edits) \subseteq {"insert"},
                      NEW r \in initial
               PROVE  r \in Range(out)
    BY DEF MissesOnlyAfterDelete
  <2>1. table \in SUBSET Rows /\ startRow \in Nat
    BY DEF IInv, TypeOK
  <2>2. PICK n \in Nat : n = Cardinality(table)
    BY <2>1, RowsAreFinite
  <2>3. /\ startRow >= n /\ r \in table
        /\ Rank(table, r) < startRow => r \in Range(out)
    BY <2>2 DEF IInv, ProgressInv, SeenInv
  <2>4. Rank(table, r) \in 0..(n - 1)
    BY <2>1, <2>2, <2>3, PlaceOfRow
  <2> QED
    BY <2>1, <2>3, <2>4
<1> QED
  BY <1>1, Invariance, PTL
=============================================================================

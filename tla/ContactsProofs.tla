--------------------------- MODULE ContactsProofs ---------------------------
(***************************************************************************)
(* Proofs about Contacts, for any number of calls, contacts, rows per      *)
(* page, edits, requests and faults.                                       *)
(***************************************************************************)
EXTENDS Contacts, FiniteSetTheorems, TLAPS

(***************************************************************************)
(* What Pick keeps.                                                        *)
(***************************************************************************)

\* The places of I, counted from below, come one after the other: the m-th is
\* the one with m places of I up to it.
LEMMA Places ==
    ASSUME NEW n \in Nat, NEW I \in SUBSET (1 .. n)
    PROVE  /\ Cardinality(I) \in Nat
           /\ \E f \in [1 .. Cardinality(I) -> I] :
                /\ \A m \in 1 .. Cardinality(I) :
                      f[m] = CHOOSE i \in I : Cardinality({j \in I : j <= i}) = m
                /\ \A i \in I : \E m \in 1 .. Cardinality(I) :
                      f[m] = i /\ m = Cardinality({j \in I : j <= i})
                /\ \A m, l \in 1 .. Cardinality(I) : m < l => f[m] < f[l]
  <1> DEFINE Upto(i) == {j \in I : j <= i}
             rank == [i \in I |-> Cardinality(Upto(i))]
             f == [m \in 1 .. Cardinality(I) |-> CHOOSE i \in I : Cardinality(Upto(i)) = m]
  <1>1. IsFiniteSet(I) /\ Cardinality(I) \in Nat
    <2>1. IsFiniteSet(1 .. n)
      BY FS_Interval
    <2> QED BY <2>1, FS_Subset, FS_CardinalityType
  <1>2. \A i \in I : i \in Nat
    OBVIOUS
  <1>3. ASSUME NEW i \in I
        PROVE  IsFiniteSet(Upto(i)) /\ Cardinality(Upto(i)) \in 1 .. Cardinality(I)
    <2>1. Upto(i) \in SUBSET I /\ i \in Upto(i)
      BY <1>2
    <2>2. IsFiniteSet(Upto(i)) /\ Cardinality(Upto(i)) <= Cardinality(I)
      BY <1>1, <2>1, FS_Subset
    <2>3. Cardinality(Upto(i)) \in Nat /\ Cardinality(Upto(i)) # 0
      <3> HIDE DEF Upto
      <3> QED BY <2>1, <2>2, FS_CardinalityType, FS_EmptySet
    <2> HIDE DEF Upto
    <2> QED BY <1>1, <2>2, <2>3
  <1>4. ASSUME NEW i \in I, NEW j \in I, i < j
        PROVE  Cardinality(Upto(i)) < Cardinality(Upto(j))
    <2>1. Upto(i) \in SUBSET Upto(j) /\ j \in Upto(j) /\ j \notin Upto(i)
      <3>1. i \in Nat /\ j \in Nat /\ j \in I
        BY <1>2
      <3>2. \A l \in I : l <= i => l <= j
        BY <1>2, <1>4, <3>1
      <3>3. j <= j /\ ~(j <= i)
        BY <1>4, <3>1
      <3> QED BY <3>1, <3>2, <3>3
    <2>2. Cardinality(Upto(i)) <= Cardinality(Upto(j)) /\ Cardinality(Upto(j)) # Cardinality(Upto(i))
      <3> HIDE DEF Upto
      <3> QED BY <1>3, <2>1, FS_Subset
    <2> HIDE DEF Upto
    <2> QED BY <1>1, <1>3, <2>2
  <1> HIDE DEF Upto
  <1>5. rank \in Injection(I, 1 .. Cardinality(I))
    <2>1. rank \in [I -> 1 .. Cardinality(I)]
      BY <1>3
    <2>2. ASSUME NEW i \in I, NEW j \in I, rank[i] = rank[j] PROVE i = j
      <3>1. ~(i < j) /\ ~(j < i)
        BY <1>1, <1>3, <1>4, <2>2
      <3> QED BY <1>2, <3>1
    <2> HIDE DEF rank
    <2> QED BY <2>1, <2>2 DEF Injection, IsInjective
  <1>6. rank \in Surjection(I, 1 .. Cardinality(I))
    <2>1. IsFiniteSet(1 .. Cardinality(I)) /\ Cardinality(1 .. Cardinality(I)) = Cardinality(I)
      BY <1>1, FS_Interval
    <2> HIDE DEF rank
    <2> QED BY <1>5, <2>1, FS_Injection
  <1>7. \A m \in 1 .. Cardinality(I) : \E i \in I : Cardinality(Upto(i)) = m
    BY <1>6 DEF Surjection
  <1>8. \A m \in 1 .. Cardinality(I) : f[m] \in I /\ Cardinality(Upto(f[m])) = m
    BY <1>7
  <1> HIDE DEF f
  <1>9. f \in [1 .. Cardinality(I) -> I]
    BY <1>8 DEF f
  <1>10. \A i \in I : f[Cardinality(Upto(i))] = i
    <2> TAKE i \in I
    <2>1. /\ Cardinality(Upto(i)) \in 1 .. Cardinality(I)
          /\ f[Cardinality(Upto(i))] \in I
          /\ Cardinality(Upto(f[Cardinality(Upto(i))])) = Cardinality(Upto(i))
      BY <1>3, <1>8
    <2> DEFINE l == f[Cardinality(Upto(i))]
    <2>2. l \in I /\ Cardinality(Upto(l)) = Cardinality(Upto(i)) /\ Cardinality(Upto(i)) \in Nat
      BY <1>1, <2>1
    <2> HIDE DEF l
    <2>3. ~(l < i) /\ ~(i < l)
      <3>1. ASSUME l < i \/ i < l PROVE FALSE
        <4>1. Cardinality(Upto(l)) < Cardinality(Upto(i)) \/ Cardinality(Upto(i)) < Cardinality(Upto(l))
          BY <1>4, <2>2, <3>1
        <4> QED BY <2>2, <4>1
      <3> QED BY <3>1
    <2>4. l = i
      BY <1>2, <2>2, <2>3
    <2> QED BY <2>4 DEF l
  <1>11. \A m, l \in 1 .. Cardinality(I) : m < l => f[m] < f[l]
    <2> SUFFICES ASSUME NEW m \in 1 .. Cardinality(I), NEW l \in 1 .. Cardinality(I), m < l
                 PROVE  f[m] < f[l]
      OBVIOUS
    <2>1. f[m] \in I /\ f[l] \in I /\ Cardinality(Upto(f[m])) = m /\ Cardinality(Upto(f[l])) = l
      BY <1>8
    <2>2. m \in Nat /\ l \in Nat /\ f[m] \in Nat /\ f[l] \in Nat
      <3>1. m \in Nat /\ l \in Nat
        BY <1>1
      <3> QED BY <1>2, <2>1, <3>1
    <2>3. ASSUME f[l] < f[m] PROVE FALSE
      <3>1. Cardinality(Upto(f[l])) < Cardinality(Upto(f[m]))
        BY <1>4, <2>1, <2>3
      <3> QED BY <2>1, <2>2, <3>1
    <2>4. f[l] # f[m]
      BY <2>1, <2>2
    <2> QED BY <2>2, <2>3, <2>4
  <1>12. \A m \in 1 .. Cardinality(I) :
            f[m] = CHOOSE i \in I : Cardinality({j \in I : j <= i}) = m
    BY DEF f, Upto
  <1>13. \A i \in I : \E m \in 1 .. Cardinality(I) : f[m] = i /\ m = Cardinality(Upto(i))
    BY <1>3, <1>10
  <1> QED BY <1>1, <1>9, <1>11, <1>12, <1>13 DEF Upto

\* Rows in the order of the listing; rows of different contacts.
Ordered(s) == \A i, j \in 1 .. Len(s) : i < j => s[i].id < s[j].id

Distinct(s) == \A i, j \in 1 .. Len(s) : s[i].id = s[j].id => i = j

\* Pick takes the elements at the places in I, and keeps their order.
LEMMA Picked ==
    ASSUME NEW S, NEW s \in Seq(S), NEW I \in SUBSET (1 .. Len(s))
    PROVE  /\ Pick(s, I) \in Seq(S)
           /\ RowsOf(Pick(s, I)) = {s[i] : i \in I}
           /\ \A m, l \in 1 .. Len(Pick(s, I)) : m < l =>
                 \E i, j \in I : i < j /\ Pick(s, I)[m] = s[i] /\ Pick(s, I)[l] = s[j]
  <1>1. Len(s) \in Nat /\ \A i \in I : s[i] \in S
    OBVIOUS
  <1>2. PICK f \in [1 .. Cardinality(I) -> I] :
          /\ \A m \in 1 .. Cardinality(I) :
                f[m] = CHOOSE i \in I : Cardinality({j \in I : j <= i}) = m
          /\ \A i \in I : \E m \in 1 .. Cardinality(I) :
                f[m] = i /\ m = Cardinality({j \in I : j <= i})
          /\ \A m, l \in 1 .. Cardinality(I) : m < l => f[m] < f[l]
    BY <1>1, Places, Zenon
  <1>3. Cardinality(I) \in Nat
    BY <1>1, Places, Zenon
  <1>4. Pick(s, I) = [m \in 1 .. Cardinality(I) |-> s[f[m]]]
    <2> DEFINE place(m) == CHOOSE i \in I : Cardinality({j \in I : j <= i}) = m
    <2>1. Pick(s, I) = [m \in 1 .. Cardinality(I) |-> s[place(m)]]
      BY Zenon DEF Pick
    <2>2. \A m \in 1 .. Cardinality(I) : f[m] = place(m)
      BY <1>2, Zenon
    <2> HIDE DEF place
    <2> QED BY <2>1, <2>2
  <1>5. Pick(s, I) \in Seq(S) /\ Len(Pick(s, I)) = Cardinality(I)
    <2>1. \A m \in 1 .. Cardinality(I) : s[f[m]] \in S
      BY <1>1, <1>2
    <2> QED BY <1>3, <1>4, <2>1
  <1> DEFINE p == Pick(s, I)
             N == 1 .. Cardinality(I)
  <1>a. \A m \in N : p[m] = s[f[m]] /\ f[m] \in I
    BY <1>2, <1>4, Zenon
  <1>b. \A i \in I : \E m \in N : f[m] = i
    BY <1>2, Zenon
  <1>c. \A m, l \in N : m < l => f[m] < f[l]
    BY <1>2, Zenon
  <1>6. RowsOf(p) = {s[i] : i \in I}
    <2> HIDE DEF N, p
    <2>1. RowsOf(p) = {p[m] : m \in N}
      BY <1>5 DEF RowsOf, N, p
    <2>2. \A x \in RowsOf(p) : x \in {s[i] : i \in I}
      BY <1>a, <2>1
    <2>3. \A i \in I : s[i] \in RowsOf(p)
      BY <1>a, <1>b, <2>1
    <2> QED BY <2>2, <2>3
  <1>7. \A m, l \in 1 .. Len(Pick(s, I)) : m < l =>
           \E i, j \in I : i < j /\ Pick(s, I)[m] = s[i] /\ Pick(s, I)[l] = s[j]
    <2>1. 1 .. Len(p) = N
      BY <1>5
    <2> HIDE DEF N, p
    <2>2. \A m, l \in N : m < l => \E i, j \in I : i < j /\ p[m] = s[i] /\ p[l] = s[j]
      <3> TAKE m, l \in N
      <3> HAVE m < l
      <3>1. f[m] \in I /\ f[l] \in I /\ f[m] < f[l] /\ p[m] = s[f[m]] /\ p[l] = s[f[l]]
        BY <1>a, <1>c
      <3> QED BY <3>1
    <2>3. \A m, l \in 1 .. Len(p) : m < l =>
             \E i, j \in I : i < j /\ p[m] = s[i] /\ p[l] = s[j]
      BY <2>1, <2>2
    <2> QED BY <2>3 DEF p
  <1> QED BY <1>5, <1>6, <1>7

\* An ordered sequence has no row twice.
LEMMA OrderedDistinct ==
    ASSUME NEW s \in Seq(Rows), Ordered(s)
    PROVE  Distinct(s)
  <1> SUFFICES ASSUME NEW i \in 1 .. Len(s), NEW j \in 1 .. Len(s), s[i].id = s[j].id
               PROVE  i = j
    BY DEF Distinct
  <1>1. s[i].id \in Nat /\ i \in Nat /\ j \in Nat
    <2>1. s[i] \in Rows /\ i \in Nat /\ j \in Nat
      OBVIOUS
    <2>2. s[i].id \in Ids
      BY <2>1 DEF Rows
    <2> QED BY <2>1, <2>2, ConstantsAssumption DEF Ids
  <1>2. ~(i < j) /\ ~(j < i)
    BY <1>1 DEF Ordered
  <1> QED BY <1>1, <1>2

\* To pick rows keeps them apart, and in order.
LEMMA PickedRows ==
    ASSUME NEW s \in Seq(Rows), NEW I \in SUBSET (1 .. Len(s))
    PROVE  /\ Distinct(s) => Distinct(Pick(s, I))
           /\ Ordered(s) => Ordered(Pick(s, I))
  <1>1. Ordered(s) => Ordered(Pick(s, I))
    BY Picked DEF Ordered
  <1>2. ASSUME Distinct(s), NEW m \in 1 .. Len(Pick(s, I)), NEW l \in 1 .. Len(Pick(s, I)),
               Pick(s, I)[m].id = Pick(s, I)[l].id
        PROVE  m = l
    <2>1. m \in Nat /\ l \in Nat
      OBVIOUS
    <2>2. ASSUME NEW x \in 1 .. Len(Pick(s, I)), NEW y \in 1 .. Len(Pick(s, I)), x < y,
                 Pick(s, I)[x].id = Pick(s, I)[y].id
          PROVE  FALSE
      <3>0. \A n, o \in 1 .. Len(Pick(s, I)) : n < o =>
              \E i, j \in I : i < j /\ Pick(s, I)[n] = s[i] /\ Pick(s, I)[o] = s[j]
        BY Picked
      <3>1. PICK i \in I, j \in I : i < j /\ Pick(s, I)[x] = s[i] /\ Pick(s, I)[y] = s[j]
        BY <2>2, <3>0, Zenon
      <3>2. i \in 1 .. Len(s) /\ j \in 1 .. Len(s) /\ s[i].id = s[j].id
        BY <2>2, <3>1
      <3>3. i = j
        BY <1>2, <3>2 DEF Distinct
      <3> QED BY <3>1, <3>2, <3>3
    <2> QED BY <1>2, <2>1, <2>2
  <1> QED BY <1>1, <1>2 DEF Distinct

\* The rows of f in a set of places of the directory.
Among(f, I) == Pick([c \in Ids |-> Row(c, f[c])], I)

\* They are ordered rows, those of f, with these ids.
LEMMA AmongRows ==
    ASSUME NEW f \in [Ids -> Nat], NEW I \in SUBSET {c \in Ids : f[c] > 0}
    PROVE  /\ Among(f, I) \in Seq(Rows)
           /\ Ordered(Among(f, I))
           /\ IdsOf(Among(f, I)) = I
           /\ \A r \in RowsOf(Among(f, I)) : f[r.id] = r.ver
  <1> DEFINE s == [c \in Ids |-> Row(c, f[c])]
             B == [id : Ids, ver : Nat]
  <1>1. s \in Seq(B) /\ Len(s) = MaxContact /\ \A c \in Ids : s[c] = Row(c, f[c])
    <2>1. MaxContact \in Nat /\ Ids = 1 .. MaxContact
      BY ConstantsAssumption DEF Ids
    <2>2. \A c \in Ids : Row(c, f[c]) \in B
      BY DEF Row
    <2> QED BY <2>1, <2>2
  <1>2. I \in SUBSET (1 .. Len(s)) /\ I \in SUBSET Ids
    BY <1>1, ConstantsAssumption DEF Ids
  <1> HIDE DEF s, B
  <1> DEFINE p == Pick(s, I)
  <1>3. /\ p \in Seq(B)
        /\ RowsOf(p) = {s[i] : i \in I}
        /\ \A m, l \in 1 .. Len(p) : m < l =>
              \E i, j \in I : i < j /\ p[m] = s[i] /\ p[l] = s[j]
    <2>1. s \in Seq(B) /\ I \in SUBSET (1 .. Len(s))
      BY <1>1, <1>2
    <2>2. RowsOf(Pick(s, I)) = {s[i] : i \in I}
      BY <2>1, Picked
    <2>3. Pick(s, I) \in Seq(B)
      BY <2>1, Picked
    <2>4. \A m, l \in 1 .. Len(Pick(s, I)) : m < l =>
             \E i, j \in I : i < j /\ Pick(s, I)[m] = s[i] /\ Pick(s, I)[l] = s[j]
      BY <2>1, Picked
    <2> QED BY <2>2, <2>3, <2>4, Zenon
  <1> HIDE DEF p
  <1>4. RowsOf(p) = {Row(c, f[c]) : c \in I}
    BY <1>1, <1>2, <1>3
  <1>5. \A r \in RowsOf(p) : r \in Rows /\ f[r.id] = r.ver /\ r.id \in I
    BY <1>2, <1>4 DEF Row, Rows
  <1>6. IdsOf(p) = I
    <2>1. \A c \in I : Row(c, f[c]).id = c
      BY DEF Row
    <2> QED BY <1>4, <2>1 DEF IdsOf
  <1>7. p \in Seq(Rows)
    BY <1>3, <1>5 DEF RowsOf
  <1>8. Ordered(p)
    <2>1. \A c \in I : s[c].id = c
      <3>1. \A c \in I : s[c] = Row(c, f[c])
        BY <1>1, <1>2
      <3>2. \A c \in I : Row(c, f[c]).id = c
        BY DEF Row
      <3> QED BY <3>1, <3>2
    <2>2. ASSUME NEW m \in 1 .. Len(p), NEW l \in 1 .. Len(p), m < l
          PROVE  p[m].id < p[l].id
      <3>1. PICK i \in I, j \in I : i < j /\ p[m] = s[i] /\ p[l] = s[j]
        BY <1>3, <2>2
      <3> QED BY <2>1, <3>1
    <2> QED BY <2>2 DEF Ordered
  <1> QED BY <1>5, <1>6, <1>7, <1>8 DEF Among, p, s

\* What _handleList answers about f from cursor c: the rows and the next cursor.
Page(f, c) ==
  SubSeq(Behind(f, c), 1, IF Len(Behind(f, c)) < Limit THEN Len(Behind(f, c)) ELSE Limit)

NextOf(f, c) == IF Len(Behind(f, c)) >= Limit THEN Page(f, c)[Limit].id ELSE 0

\* A page holds the contacts that the cursor leaves up to the next cursor, which
\* is its last one, or all of them.
LEMMA PageRows ==
    ASSUME NEW f \in [Ids -> Nat], NEW c \in Nat
    PROVE  /\ Page(f, c) \in Seq(Rows) /\ Len(Page(f, c)) <= Limit
           /\ Ordered(Page(f, c))
           /\ \A r \in RowsOf(Page(f, c)) : f[r.id] = r.ver
           /\ NextOf(f, c) \in {0} \cup Ids
           /\ IdsOf(Page(f, c)) = {b \in Ids : f[b] > 0 /\ Beyond(b, c) /\
                                               (NextOf(f, c) = 0 \/ b <= NextOf(f, c))}
           /\ NextOf(f, c) # 0 => NextOf(f, c) \in IdsOf(Page(f, c))
  <1> DEFINE rest == Behind(f, c)
             page == Page(f, c)
             next == NextOf(f, c)
             there == {b \in Ids : f[b] > 0 /\ Beyond(b, c)}
             l == IF Len(rest) < Limit THEN Len(rest) ELSE Limit
  <1>1. /\ rest \in Seq(Rows) /\ Ordered(rest) /\ IdsOf(rest) = there
        /\ \A r \in RowsOf(rest) : f[r.id] = r.ver
    <2>1. rest = Among(f, there)
      BY DEF Behind, Among
    <2>2. there \in SUBSET {b \in Ids : f[b] > 0}
      OBVIOUS
    <2> HIDE DEF there, rest
    <2> QED BY <2>1, <2>2, AmongRows
  <1>2. page = SubSeq(rest, 1, l) /\ next = IF Len(rest) >= Limit THEN page[Limit].id ELSE 0
    BY DEF Page, NextOf
  <1> HIDE DEF rest, page, next, there
  <1>3. /\ Limit \in Nat \ {0} /\ Len(rest) \in Nat /\ l \in 0 .. Len(rest) /\ l <= Limit
        /\ Ids \subseteq Nat \ {0}
    BY <1>1, ConstantsAssumption DEF Ids
  <1>4. page \in Seq(Rows) /\ Len(page) = l /\ \A i \in 1 .. l : page[i] = rest[i]
    BY <1>1, <1>2, <1>3
  <1> HIDE DEF l
  <1>5. Ordered(page)
    BY <1>1, <1>3, <1>4 DEF Ordered
  <1>6. RowsOf(page) = {rest[i] : i \in 1 .. l} /\ RowsOf(page) \subseteq RowsOf(rest)
    <2>1. RowsOf(page) = {rest[i] : i \in 1 .. l}
      BY <1>4 DEF RowsOf
    <2>2. \A i \in 1 .. l : i \in 1 .. Len(rest)
      BY <1>3
    <2> QED BY <2>1, <2>2 DEF RowsOf
  <1>7. IdsOf(page) = {rest[i].id : i \in 1 .. l} /\ there = {rest[i].id : i \in 1 .. Len(rest)}
    <2>1. IdsOf(page) = {rest[i].id : i \in 1 .. l}
      BY <1>6 DEF IdsOf
    <2>2. IdsOf(rest) = {rest[i].id : i \in 1 .. Len(rest)}
      BY DEF IdsOf, RowsOf
    <2> QED BY <1>1, <2>1, <2>2
  <1>8. CASE Len(rest) >= Limit
    <2>1. l = Limit /\ l \in 1 .. l /\ l \in 1 .. Len(rest)
      BY <1>3, <1>8 DEF l
    <2>2. next = rest[l].id /\ rest[l] \in Rows
      BY <1>1, <1>2, <1>4, <1>8, <2>1
    <2>3. next \in IdsOf(page) /\ next \in there
      BY <1>7, <2>1, <2>2
    <2>4. next \in Ids /\ next # 0
      BY <1>3, <2>3 DEF there
    <2>5. \A i \in 1 .. Len(rest) : rest[i].id <= next <=> i \in 1 .. l
      <3> TAKE i \in 1 .. Len(rest)
      <3>1. i \in Nat /\ i >= 1 /\ l \in Nat
        BY <1>3
      <3>2. rest[i] \in Rows
        BY <1>1
      <3>3. rest[i].id \in Nat /\ next \in Nat
        BY <1>3, <2>4, <3>2 DEF Rows
      <3>4. i < l => rest[i].id < next
        BY <1>1, <2>1, <2>2 DEF Ordered
      <3>5. l < i => next < rest[i].id
        BY <1>1, <2>1, <2>2 DEF Ordered
      <3>6. i = l => rest[i].id = next
        BY <2>2
      <3> QED BY <3>1, <3>3, <3>4, <3>5, <3>6
    <2>6. \A b : b \in IdsOf(page) <=> b \in there /\ b <= next
      <3>1. \A i \in 1 .. l : i \in 1 .. Len(rest)
        BY <1>3
      <3> QED BY <1>7, <2>5, <3>1
    <2>7. IdsOf(page) = {b \in Ids : f[b] > 0 /\ Beyond(b, c) /\ (next = 0 \/ b <= next)}
      BY <2>4, <2>6 DEF there
    <2>8. \A r \in RowsOf(page) : f[r.id] = r.ver
      BY <1>1, <1>6
    <2> QED BY <1>3, <1>4, <1>5, <2>3, <2>4, <2>7, <2>8 DEF page, next
  <1>9. CASE ~(Len(rest) >= Limit)
    <2>1. l = Len(rest) /\ next = 0
      BY <1>2, <1>3, <1>9 DEF l
    <2>2. IdsOf(page) = {b \in Ids : f[b] > 0 /\ Beyond(b, c) /\ (next = 0 \/ b <= next)}
      BY <1>7, <2>1 DEF there
    <2>3. \A r \in RowsOf(page) : f[r.id] = r.ver
      BY <1>1, <1>6
    <2> QED BY <1>3, <1>4, <1>5, <2>1, <2>2, <2>3 DEF page, next
  <1> QED BY <1>8, <1>9

\* Merging adds the rows with ids not there yet, behind the others.
LEMMA MergedRows ==
    ASSUME NEW dst \in Seq(Rows), NEW src \in Seq(Rows)
    PROVE  LET s == mergeContactEntries(dst, src) IN
           /\ s \in Seq(Rows)
           /\ RowsOf(s) \subseteq RowsOf(dst) \cup RowsOf(src)
           /\ IdsOf(s) = IdsOf(dst) \cup IdsOf(src)
           /\ Distinct(dst) /\ Distinct(src) => Distinct(s)
           /\ Ordered(dst) /\ Ordered(src)
                /\ (\A b \in IdsOf(dst), d \in IdsOf(src) \ IdsOf(dst) : b < d) => Ordered(s)
  <1> DEFINE s == mergeContactEntries(dst, src)
             I == {i \in 1 .. Len(src) : src[i].id \notin IdsOf(dst)}
             new == Pick(src, I)
  <1>1. /\ new \in Seq(Rows) /\ RowsOf(new) = {src[i] : i \in I}
        /\ Distinct(src) => Distinct(new)
        /\ Ordered(src) => Ordered(new)
    <2>1. I \in SUBSET (1 .. Len(src))
      OBVIOUS
    <2> HIDE DEF I
    <2> QED BY <2>1, Picked, PickedRows
  <1>2. s = dst \o new
    BY DEF mergeContactEntries
  <1>3. \A r \in RowsOf(new) : r \in RowsOf(src) /\ r.id \in IdsOf(src) /\ r.id \notin IdsOf(dst)
    <2>1. \A i \in I : /\ src[i] \in RowsOf(src) /\ src[i].id \in IdsOf(src)
                       /\ src[i].id \notin IdsOf(dst)
      BY DEF RowsOf, IdsOf
    <2> HIDE DEF I, new
    <2> QED BY <1>1, <2>1
  <1>4. \A r \in RowsOf(src) : r.id \in IdsOf(dst) \/ r \in RowsOf(new)
    <2>1. \A i \in 1 .. Len(src) : src[i].id \in IdsOf(dst) \/ i \in I
      OBVIOUS
    <2> HIDE DEF I, new
    <2> QED BY <1>1, <2>1 DEF RowsOf
  <1> HIDE DEF s, I, new
  <1>5. /\ s \in Seq(Rows) /\ Len(s) = Len(dst) + Len(new) /\ Len(dst) \in Nat /\ Len(new) \in Nat
        /\ \A i \in 1 .. Len(s) :
              \/ i \in 1 .. Len(dst) /\ s[i] = dst[i]
              \/ i > Len(dst) /\ i - Len(dst) \in 1 .. Len(new) /\ s[i] = new[i - Len(dst)]
        /\ \A i \in 1 .. Len(dst) : i \in 1 .. Len(s) /\ s[i] = dst[i]
        /\ \A i \in 1 .. Len(new) : Len(dst) + i \in 1 .. Len(s) /\ s[Len(dst) + i] = new[i]
    BY <1>1, <1>2
  <1>6. RowsOf(s) = RowsOf(dst) \cup RowsOf(new)
    <2>1. \A r \in RowsOf(s) : r \in RowsOf(dst) \/ r \in RowsOf(new)
      <3>1. \A i \in 1 .. Len(dst) : dst[i] \in RowsOf(dst)
        BY DEF RowsOf
      <3>2. \A i \in 1 .. Len(new) : new[i] \in RowsOf(new)
        BY DEF RowsOf
      <3>3. \A i \in 1 .. Len(s) : s[i] \in RowsOf(dst) \/ s[i] \in RowsOf(new)
        BY <1>5, <3>1, <3>2
      <3> QED BY <3>3 DEF RowsOf
    <2>2. \A r \in RowsOf(dst) : r \in RowsOf(s)
      BY <1>5 DEF RowsOf
    <2>3. \A r \in RowsOf(new) : r \in RowsOf(s)
      BY <1>5 DEF RowsOf
    <2> QED BY <2>1, <2>2, <2>3
  <1>7. RowsOf(s) \subseteq RowsOf(dst) \cup RowsOf(src)
    BY <1>3, <1>6
  <1>8. IdsOf(s) = IdsOf(dst) \cup IdsOf(src)
    <2>1. \A b \in IdsOf(src) : b \in IdsOf(dst) \/ b \in IdsOf(new)
      BY <1>4 DEF IdsOf
    <2>2. \A b \in IdsOf(new) : b \in IdsOf(src)
      BY <1>3 DEF IdsOf
    <2>3. IdsOf(s) = IdsOf(dst) \cup IdsOf(new)
      BY <1>6 DEF IdsOf
    <2> QED BY <2>1, <2>2, <2>3
  <1>9. /\ \A i \in 1 .. Len(dst) : dst[i].id \in IdsOf(dst)
        /\ \A i \in 1 .. Len(new) : new[i].id \in IdsOf(src) \ IdsOf(dst)
    <2>1. \A i \in 1 .. Len(dst) : dst[i] \in RowsOf(dst)
      BY DEF RowsOf
    <2>2. \A i \in 1 .. Len(new) : new[i] \in RowsOf(new)
      BY DEF RowsOf
    <2> QED BY <1>3, <2>1, <2>2 DEF IdsOf
  <1>10. ASSUME Distinct(dst), Distinct(src) PROVE Distinct(s)
    <2> SUFFICES ASSUME NEW i \in 1 .. Len(s), NEW j \in 1 .. Len(s), s[i].id = s[j].id
                 PROVE  i = j
      BY DEF Distinct
    <2>1. i \in Nat /\ j \in Nat
      OBVIOUS
    <2>2. Distinct(new)
      BY <1>1, <1>10
    <2>3. CASE i \in 1 .. Len(dst) /\ s[i] = dst[i]
      <3>1. j \in 1 .. Len(dst) /\ s[j] = dst[j]
        <4>1. s[j].id \in IdsOf(dst)
          BY <1>9, <2>3
        <4>2. ASSUME j - Len(dst) \in 1 .. Len(new), s[j] = new[j - Len(dst)] PROVE FALSE
          BY <1>9, <4>1, <4>2
        <4> QED BY <1>5, <4>2
      <3> QED BY <1>10, <2>3, <3>1 DEF Distinct
    <2>4. CASE i > Len(dst) /\ i - Len(dst) \in 1 .. Len(new) /\ s[i] = new[i - Len(dst)]
      <3>1. j > Len(dst) /\ j - Len(dst) \in 1 .. Len(new) /\ s[j] = new[j - Len(dst)]
        BY <1>5, <1>9, <2>4
      <3>2. i - Len(dst) = j - Len(dst)
        BY <2>2, <2>4, <3>1 DEF Distinct
      <3> QED BY <1>5, <2>1, <3>2
    <2> QED BY <1>5, <2>3, <2>4
  <1>11. ASSUME Ordered(dst), Ordered(src),
                \A b \in IdsOf(dst), d \in IdsOf(src) \ IdsOf(dst) : b < d
         PROVE  Ordered(s)
    <2> SUFFICES ASSUME NEW i \in 1 .. Len(s), NEW j \in 1 .. Len(s), i < j
                 PROVE  s[i].id < s[j].id
      BY DEF Ordered
    <2>1. i \in Nat /\ j \in Nat
      OBVIOUS
    <2>2. Ordered(new)
      BY <1>1, <1>11
    <2>3. CASE j \in 1 .. Len(dst) /\ s[j] = dst[j]
      <3>1. i \in 1 .. Len(dst) /\ s[i] = dst[i]
        BY <1>5, <2>1, <2>3
      <3> QED BY <1>11, <2>3, <3>1 DEF Ordered
    <2>4. CASE j > Len(dst) /\ j - Len(dst) \in 1 .. Len(new) /\ s[j] = new[j - Len(dst)]
      <3>1. CASE i \in 1 .. Len(dst) /\ s[i] = dst[i]
        BY <1>9, <1>11, <2>4, <3>1
      <3>2. CASE i > Len(dst) /\ i - Len(dst) \in 1 .. Len(new) /\ s[i] = new[i - Len(dst)]
        <4>1. i - Len(dst) < j - Len(dst)
          BY <1>5, <2>1
        <4> QED BY <2>2, <2>4, <3>2, <4>1 DEF Ordered
      <3> QED BY <1>5, <3>1, <3>2
    <2> QED BY <1>5, <2>3, <2>4
  <1> QED BY <1>5, <1>7, <1>8, <1>10, <1>11 DEF s

(***************************************************************************)
(* Types.                                                                  *)
(***************************************************************************)

\* The types of the state, by part.
Kinds == {"list", "delete"}

Cursors == Ids \cup {0}

Replies == [ok : BOOLEAN, next : Cursors]

CallStates == [pc : {"idle", "request", "waiting", "more", "prune", "dbdelete"}, kind : Kinds,
               req : Nat, cursor : Cursors, all : BOOLEAN, gen : Nat, pending : BOOLEAN,
               ch : Replies \cup {None}]

Asked == [kind : Kinds, req : Nat, cursor : Cursors]

Messages == [type : Kinds \cup {"changed"}, req : Nat, rows : Seq(Rows), next : Cursors,
             ok : BOOLEAN]

PhoneOK ==
  /\ book \in [Ids -> Nat] /\ unborn \subseteq {c \in Ids : book[c] = 0}
  /\ edits \in 0 .. MaxEdits /\ dirty \in BOOLEAN

LinkOK ==
  /\ missed \in BOOLEAN /\ ws \in BOOLEAN /\ fresh \in BOOLEAN /\ owed \in BOOLEAN
  /\ fresh => ws
  /\ faults \in 0 .. MaxFaults

WireOK ==
  /\ asks \subseteq Asked
  /\ \A a \in asks : a.kind = "delete" => a.cursor \in Ids
  /\ net \subseteq Messages
  /\ \A m \in net : Len(m.rows) <= Limit

StoreOK ==
  /\ cache \in Seq(Rows) /\ saves \subseteq Seq(Rows) \ {<<>>}
  /\ db \in [Ids -> Nat] /\ gen \in Nat /\ reqs \in 0 .. MaxReqs
  /\ cut \in BOOLEAN /\ deleted \subseteq Ids /\ late \subseteq Ids

\* A call that waits without a waiter has been failed; one that deletes has a
\* contact and follows no listing.
CallOK(x) ==
  /\ x \in CallStates
  /\ x.pc \in {"idle", "more"} => ~x.pending
  /\ x.pc \in {"request", "waiting"} /\ ~x.pending => x.ch # None
  /\ x.kind = "delete" => x.cursor \in Ids /\ ~x.all
  /\ x.pc \in {"prune", "dbdelete"} => x.kind = "delete" /\ x.ch # None /\ x.ch.ok
  /\ x.pc = "more" => x.kind = "list"

CallsOK == call \in [Calls -> CallStates] /\ \A k \in Calls : CallOK(call[k])

\* Every part has its type.
TypeInv ==
  /\ PhoneOK
  /\ LinkOK
  /\ WireOK
  /\ StoreOK
  /\ CallsOK

\* What the assumption about the constants says, where it is used.
LEMMA Constants ==
    /\ Ids \subseteq Nat \ {0} /\ Ids = 1 .. MaxContact /\ 0 \notin Ids /\ None \notin Replies
    /\ Limit \in Nat \ {0} /\ MaxEdits \in Nat /\ MaxReqs \in Nat /\ MaxFaults \in Nat
  <1>1. Ids \subseteq Nat \ {0} /\ Ids = 1 .. MaxContact
    BY ConstantsAssumption DEF Ids
  <1>2. Replies \subseteq [ok : BOOLEAN, next : Nat]
    BY <1>1 DEF Replies, Cursors
  <1> QED BY <1>1, <1>2, ConstantsAssumption

\* A call that is not under way is a call.
LEMMA IdleOK == CallOK(Idle)
  BY Constants DEF Idle, CallOK, CallStates, Kinds, Cursors

\* The types give TypeOK.
LEMMA TypeImplies == TypeInv => TypeOK
  <1> SUFFICES ASSUME TypeInv PROVE TypeOK
    OBVIOUS
  <1>1. \A s \in Seq(Rows) : RowsOf(s) \subseteq Rows
    BY DEF RowsOf
  <1>2. \A m \in net : RowsOf(m.rows) \subseteq Rows /\ Len(m.rows) <= Limit
    BY <1>1 DEF TypeInv, WireOK, Messages
  <1>3. \A w \in saves : w # <<>> /\ RowsOf(w) \subseteq Rows
    BY <1>1 DEF TypeInv, StoreOK
  <1>4. RowsOf(cache) \subseteq Rows
    BY <1>1 DEF TypeInv, StoreOK
  <1>5. \A k \in Calls :
          /\ call[k].pc \in {"idle", "request", "waiting", "more", "prune", "dbdelete"}
          /\ call[k].pc \in {"idle", "more"} => ~call[k].pending
          /\ call[k].pc = "waiting" /\ ~call[k].pending => call[k].ch # None
    BY DEF TypeInv, CallsOK, CallOK, CallStates
  <1> QED BY <1>2, <1>3, <1>4, <1>5 DEF TypeOK, TypeInv, PhoneOK, LinkOK, StoreOK

\* The types hold at first.
LEMMA InitType == Init => TypeInv
  <1> SUFFICES ASSUME Init PROVE TypeInv
    OBVIOUS
  <1>0. 0 \in 0 .. MaxEdits /\ 0 \in 0 .. MaxReqs /\ 0 \in 0 .. MaxFaults
    BY ConstantsAssumption
  <1>1. PhoneOK
    <2>1. book \in [Ids -> Nat] /\ unborn \subseteq {c \in Ids : book[c] = 0}
      BY DEF Init
    <2>2. edits = 0 /\ dirty \in BOOLEAN
      BY Zenon DEF Init
    <2> QED BY <1>0, <2>1, <2>2 DEF PhoneOK
  <1>2. LinkOK /\ WireOK
    <2>1. /\ missed \in BOOLEAN /\ ws \in BOOLEAN /\ fresh = FALSE /\ owed \in BOOLEAN
          /\ faults = 0 /\ asks = {} /\ net = {}
      BY Zenon DEF Init
    <2> QED BY <1>0, <2>1 DEF LinkOK, WireOK
  <1>3. StoreOK
    <2>1. db \in [Ids -> Nat]
      BY DEF Init
    <2>2. /\ cache = <<>> /\ saves = {} /\ gen = 0 /\ reqs = 0
          /\ cut \in BOOLEAN /\ deleted = {} /\ late = {}
      BY Zenon DEF Init
    <2> QED BY <1>0, <2>1, <2>2 DEF StoreOK
  <1>4. CallsOK
    BY IdleOK DEF Init, CallsOK, CallOK
  <1> QED BY <1>1, <1>2, <1>3, <1>4 DEF TypeInv

\* A part that no step touches keeps its type.
LEMMA Frame ==
    ASSUME TypeInv
    PROVE  /\ UNCHANGED phoneVars => PhoneOK'
           /\ UNCHANGED linkVars => LinkOK'
           /\ UNCHANGED <<asks, net>> => WireOK'
           /\ UNCHANGED <<gen, cache, db, saves, reqs, history>> => StoreOK'
           /\ UNCHANGED call => CallsOK'
  <1>1. UNCHANGED phoneVars => PhoneOK'
    BY DEF TypeInv, PhoneOK, phoneVars
  <1>2. UNCHANGED linkVars => LinkOK'
    BY DEF TypeInv, LinkOK, linkVars
  <1>3. UNCHANGED <<asks, net>> => WireOK'
    BY DEF TypeInv, WireOK
  <1>4. UNCHANGED <<gen, cache, db, saves, reqs, history>> => StoreOK'
    BY DEF TypeInv, StoreOK, history
  <1>5. UNCHANGED call => CallsOK'
    BY DEF TypeInv, CallsOK
  <1> QED BY <1>1, <1>2, <1>3, <1>4, <1>5

\* One call moves and the others stay.
LEMMA CallMoves ==
    ASSUME TypeInv, NEW k \in Calls, NEW x, CallOK(x), call' = [call EXCEPT ![k] = x]
    PROVE  CallsOK' /\ call'[k] = x /\ \A l \in Calls \ {k} : call'[l] = call[l]
  <1>1. x \in CallStates
    BY DEF CallOK
  <1>2. \A l \in Calls : CallOK(call'[l])
    BY DEF TypeInv, CallsOK
  <1> QED BY <1>1, <1>2 DEF TypeInv, CallsOK

\* A message that is turned into an error.
LEMMA Refused ==
    ASSUME NEW y \in Messages
    PROVE  LET e == [y EXCEPT !.ok = FALSE] IN
           /\ e \in Messages /\ e.type = y.type /\ e.req = y.req /\ e.rows = y.rows
           /\ e.next = y.next /\ e.ok = FALSE
  BY DEF Messages

\* A step on the phone.
LEMMA PhoneType ==
    ASSUME TypeInv,
           \/ \E c \in Ids : PhoneEdit(c) \/ PhoneRemove(c)
           \/ Notify
           \/ \E a \in asks : AnswerList(a) \/ AnswerDelete(a)
    PROVE  TypeInv'
  <1> USE Constants
  <1>1. ASSUME NEW c \in Ids, PhoneEdit(c) \/ PhoneRemove(c) PROVE TypeInv'
    <2>1. PhoneOK'
      <3>1. /\ edits' = edits + 1 /\ edits < MaxEdits /\ dirty' = TRUE /\ unborn' \subseteq unborn
            /\ \/ book' = [book EXCEPT ![c] = 0]
               \/ book' = [book EXCEPT ![c] = book[c] + 1] /\ unborn' = unborn \ {c}
        BY <1>1 DEF PhoneEdit, PhoneRemove
      <3>2. book' \in [Ids -> Nat]
        BY <3>1 DEF TypeInv, PhoneOK
      <3>3. unborn' \subseteq {b \in Ids : book'[b] = 0}
        BY <3>1 DEF TypeInv, PhoneOK
      <3>4. edits' \in 0 .. MaxEdits
        BY <3>1 DEF TypeInv, PhoneOK
      <3> QED BY <3>1, <3>2, <3>3, <3>4 DEF PhoneOK
    <2>2. UNCHANGED <<asks, net, linkVars, gen, cache, db, saves, reqs, call, history>>
      BY <1>1 DEF PhoneEdit, PhoneRemove
    <2> QED BY <2>1, <2>2, Frame DEF TypeInv
  <1>2. CASE Notify
    <2>1. /\ dirty' = FALSE /\ UNCHANGED <<book, unborn, edits, asks, linkVars>>
          /\ net' = net \cup {Message("changed", edits)}
          /\ UNCHANGED <<gen, cache, db, saves, reqs, history>> /\ UNCHANGED call
      BY <1>2 DEF Notify
    <2>2. PhoneOK'
      BY <2>1 DEF TypeInv, PhoneOK
    <2>3. WireOK'
      <3>1. edits \in Nat
        BY DEF TypeInv, PhoneOK
      <3>2. /\ Message("changed", edits) \in Messages
            /\ Len(Message("changed", edits).rows) <= Limit
        BY <3>1 DEF Message, Messages, Cursors
      <3> QED BY <2>1, <3>2 DEF TypeInv, WireOK
    <2> QED BY <2>1, <2>2, <2>3, Frame DEF TypeInv
  <1>3. ASSUME NEW a \in asks, AnswerList(a) PROVE TypeInv'
    <2> DEFINE full == [Message("list", a.req) EXCEPT !.rows = Page(book, a.cursor),
                          !.next = NextOf(book, a.cursor)]
               error == [Message("list", a.req) EXCEPT !.ok = FALSE]
    <2>0. net' = net \cup {full} \/ net' = net \cup {error}
      BY <1>3 DEF AnswerList, Page, NextOf
    <2>1. /\ net' = net \cup {full} \/ net' = net \cup {error}
          /\ asks' = asks \ {a}
          /\ (faults' = faults \/ (faults < MaxFaults /\ faults' = faults + 1))
          /\ UNCHANGED phoneVars /\ UNCHANGED <<missed, ws, fresh, owed>>
          /\ UNCHANGED <<gen, cache, db, saves, reqs, history>> /\ UNCHANGED call
      <3>1. (faults' = faults \/ (faults < MaxFaults /\ faults' = faults + 1))
        <4>1. UNCHANGED faults \/ Fault
          BY <1>3 DEF AnswerList
        <4> QED BY <4>1 DEF Fault
      <3>2. /\ asks' = asks \ {a}
            /\ UNCHANGED phoneVars /\ UNCHANGED <<missed, ws, fresh, owed>>
            /\ UNCHANGED <<gen, cache, db, saves, reqs, history>> /\ UNCHANGED call
        BY <1>3 DEF AnswerList
      <3> HIDE DEF full, error
      <3> QED BY <2>0, <3>1, <3>2
    <2>2. a \in Asked /\ a.req \in Nat /\ a.cursor \in Nat
      BY DEF TypeInv, WireOK, Asked, Cursors
    <2>3. /\ Page(book, a.cursor) \in Seq(Rows) /\ Len(Page(book, a.cursor)) <= Limit
          /\ NextOf(book, a.cursor) \in Cursors
      BY <2>2, PageRows DEF TypeInv, PhoneOK, Cursors
    <2>4. full \in Messages /\ Len(full.rows) <= Limit
      BY <2>2, <2>3 DEF Message, Messages, Kinds
    <2>5. error \in Messages /\ Len(error.rows) <= Limit
      <3>1. Message("list", a.req) \in Messages /\ Message("list", a.req).rows = <<>>
        BY <2>2 DEF Message, Messages, Kinds, Cursors
      <3> QED BY <3>1, Refused
    <2> HIDE DEF full, error
    <2>6. WireOK'
      BY <2>1, <2>4, <2>5 DEF TypeInv, WireOK
    <2>7. LinkOK'
      BY <2>1 DEF TypeInv, LinkOK
    <2> QED BY <2>1, <2>6, <2>7, Frame DEF TypeInv
  <1>4. ASSUME NEW a \in asks, AnswerDelete(a) PROVE TypeInv'
    <2> DEFINE full == Message("delete", a.req)
               error == [Message("delete", a.req) EXCEPT !.ok = FALSE]
    <2>1. /\ net' = net \cup {full} \/ net' = net \cup {error}
          /\ asks' = asks \ {a}
          /\ (faults' = faults \/ (faults < MaxFaults /\ faults' = faults + 1))
          /\ UNCHANGED <<unborn, edits>> /\ UNCHANGED <<missed, ws, fresh, owed>>
          /\ \/ book' = [book EXCEPT ![a.cursor] = 0] /\ dirty' = TRUE
             \/ UNCHANGED <<book, dirty>>
          /\ UNCHANGED <<gen, cache, db, saves, reqs, history>> /\ UNCHANGED call
      <3>1. (faults' = faults \/ (faults < MaxFaults /\ faults' = faults + 1))
        <4>1. UNCHANGED faults \/ Fault
          BY <1>4 DEF AnswerDelete
        <4> QED BY <4>1 DEF Fault
      <3>2. /\ asks' = asks \ {a}
            /\ UNCHANGED <<unborn, edits>> /\ UNCHANGED <<missed, ws, fresh, owed>>
            /\ UNCHANGED <<gen, cache, db, saves, reqs, history>> /\ UNCHANGED call
        BY <1>4 DEF AnswerDelete
      <3>3. net' = net \cup {full} \/ net' = net \cup {error}
        BY <1>4 DEF AnswerDelete
      <3>4. \/ book' = [book EXCEPT ![a.cursor] = 0] /\ dirty' = TRUE
            \/ UNCHANGED <<book, dirty>>
        BY <1>4 DEF AnswerDelete
      <3> HIDE DEF full, error
      <3> QED BY <3>1, <3>2, <3>3, <3>4
    <2>2. a \in Asked /\ a.req \in Nat
      BY DEF TypeInv, WireOK, Asked
    <2>4. full \in Messages /\ Len(full.rows) <= Limit
      BY <2>2 DEF Message, Messages, Kinds, Cursors
    <2>5. error \in Messages /\ Len(error.rows) <= Limit
      <3>1. Message("delete", a.req) \in Messages /\ Message("delete", a.req).rows = <<>>
        BY <2>2 DEF Message, Messages, Kinds, Cursors
      <3> QED BY <3>1, Refused
    <2> HIDE DEF full, error
    <2>6. WireOK'
      BY <2>1, <2>4, <2>5 DEF TypeInv, WireOK
    <2>7. LinkOK'
      BY <2>1 DEF TypeInv, LinkOK
    <2>8. PhoneOK'
      <3>1. book' \in [Ids -> Nat]
        BY <2>1 DEF TypeInv, PhoneOK
      <3>2. \A c \in Ids : book[c] = 0 => book'[c] = 0
        BY <2>1 DEF TypeInv, PhoneOK
      <3>3. dirty' \in BOOLEAN
        BY <2>1 DEF TypeInv, PhoneOK
      <3> QED BY <2>1, <3>1, <3>2, <3>3 DEF TypeInv, PhoneOK
    <2> QED BY <2>1, <2>6, <2>7, <2>8, Frame DEF TypeInv
  <1> QED BY <1>1, <1>2, <1>3, <1>4

\* A step of a call.
LEMMA CallType ==
    ASSUME TypeInv, NEW k \in Calls,
           \/ \E all \in BOOLEAN : ListContacts(k, all)
           \/ \E c \in Ids : DeleteContact(k, c)
           \/ FollowCursor(k) \/ StopFollowing(k) \/ SendRequest(k)
           \/ Wake(k) \/ Timeout(k) \/ Prune(k) \/ DbDeleteContact(k)
    PROVE  TypeInv'
  <1> USE Constants
  <1>0. CallOK(call[k]) /\ call[k] \in CallStates
    BY DEF TypeInv, CallsOK, CallOK
  <1>1. ASSUME NEW kind \in Kinds, NEW cursor \in Cursors, NEW all \in BOOLEAN,
               Register(k, kind, cursor, all), kind = "delete" => cursor \in Ids /\ ~all
        PROVE  TypeInv'
    <2> DEFINE x == [pc |-> "request", kind |-> kind, req |-> reqs + 1, cursor |-> cursor,
                     all |-> all, gen |-> gen, pending |-> TRUE, ch |-> None]
    <2>1. /\ call' = [call EXCEPT ![k] = x] /\ reqs < MaxReqs /\ reqs' = reqs + 1
          /\ UNCHANGED phoneVars /\ UNCHANGED linkVars /\ UNCHANGED <<asks, net>>
          /\ UNCHANGED <<gen, cache, db, saves, history>>
      BY <1>1 DEF Register
    <2>2. CallOK(x)
      BY <1>1 DEF TypeInv, StoreOK, CallOK, CallStates
    <2> HIDE DEF x
    <2>3. CallsOK'
      BY <2>1, <2>2, CallMoves
    <2>4. StoreOK'
      BY <2>1 DEF TypeInv, StoreOK, history
    <2> QED BY <2>1, <2>3, <2>4, Frame DEF TypeInv
  <1>2. ASSUME NEW all \in BOOLEAN, ListContacts(k, all) PROVE TypeInv'
    BY <1>1, <1>2 DEF ListContacts, Kinds, Cursors
  <1>3. ASSUME NEW c \in Ids, DeleteContact(k, c) PROVE TypeInv'
    BY <1>1, <1>3 DEF DeleteContact, Kinds, Cursors
  <1>4. CASE FollowCursor(k)
    BY <1>0, <1>1, <1>4 DEF FollowCursor, Kinds, CallStates
  <1>5. ASSUME NEW x, CallOK(x), call' = [call EXCEPT ![k] = x],
               cut' \in BOOLEAN, asks' \subseteq asks \cup {[kind |-> call[k].kind,
                  req |-> call[k].req, cursor |-> call[k].cursor]},
               UNCHANGED phoneVars, UNCHANGED linkVars, UNCHANGED net,
               UNCHANGED <<gen, cache, db, saves, reqs, deleted, late>>
        PROVE  TypeInv'
    <2>1. CallsOK'
      BY <1>5, CallMoves
    <2>2. StoreOK'
      BY <1>5 DEF TypeInv, StoreOK
    <2>3. WireOK'
      <3> DEFINE a == [kind |-> call[k].kind, req |-> call[k].req, cursor |-> call[k].cursor]
      <3>1. a \in Asked /\ (a.kind = "delete" => a.cursor \in Ids)
        BY <1>0 DEF CallOK, CallStates, Asked
      <3> HIDE DEF a
      <3>2. asks' \subseteq asks \cup {a}
        BY <1>5 DEF a
      <3> QED BY <1>5, <3>1, <3>2 DEF TypeInv, WireOK
    <2> QED BY <1>5, <2>1, <2>2, <2>3, Frame DEF TypeInv
  <1>6. cut \in BOOLEAN /\ call[k].all \in BOOLEAN
    BY <1>0 DEF TypeInv, StoreOK, CallStates
  <1>7. CASE StopFollowing(k)
    <2>1. /\ call' = [call EXCEPT ![k] = Idle]
          /\ asks' = asks /\ UNCHANGED phoneVars /\ UNCHANGED linkVars /\ UNCHANGED net
          /\ UNCHANGED <<gen, cache, db, saves, reqs, deleted, late>>
      BY <1>7 DEF StopFollowing
    <2>2. cut' \in BOOLEAN
      BY <1>7 DEF StopFollowing
    <2> QED BY <1>5, <2>1, <2>2, IdleOK
  <1>8. CASE SendRequest(k)
    <2> DEFINE x == [call[k] EXCEPT !.pc = "waiting"]
    <2>1. /\ UNCHANGED phoneVars /\ UNCHANGED linkVars /\ UNCHANGED net
          /\ UNCHANGED <<gen, cache, db, saves, reqs, deleted, late>>
          /\ call[k].pc = "request"
      BY <1>8 DEF SendRequest
    <2>2. CASE ws
      <3>1. /\ call' = [call EXCEPT ![k] = x] /\ cut' = cut
            /\ asks' = asks \cup {[kind |-> call[k].kind, req |-> call[k].req,
                                   cursor |-> call[k].cursor]}
        BY <1>8, <2>2 DEF SendRequest
      <3>2. CallOK(x)
        BY <1>0, <2>1 DEF CallOK, CallStates
      <3> HIDE DEF x
      <3> QED BY <1>5, <1>6, <2>1, <3>1, <3>2
    <2>3. CASE ~ws
      <3>1. call' = [call EXCEPT ![k] = Idle] /\ asks' = asks
        BY <1>8, <2>3 DEF SendRequest
      <3>2. cut' \in BOOLEAN
        BY <1>8, <2>3 DEF SendRequest
      <3> QED BY <1>5, <2>1, <3>1, <3>2, IdleOK
    <2> QED BY <2>2, <2>3
  <1>9. CASE Wake(k)
    <2> DEFINE y == call[k]
               x == CASE y.kind = "list" /\ y.ch.ok /\ y.ch.next > 0 ->
                           [Idle EXCEPT !.pc = "more", !.cursor = y.ch.next, !.all = y.all]
                      [] y.kind = "delete" /\ y.ch.ok -> [y EXCEPT !.pc = "prune"]
                      [] OTHER -> Idle
    <2>1. /\ call' = [call EXCEPT ![k] = x] /\ asks' = asks
          /\ UNCHANGED phoneVars /\ UNCHANGED linkVars /\ UNCHANGED net
          /\ UNCHANGED <<gen, cache, db, saves, reqs, deleted, late>>
          /\ y.pc = "waiting" /\ y.ch # None
      BY <1>9 DEF Wake
    <2>2. CallOK(x)
      <3>1. y.ch \in Replies
        BY <1>0, <2>1 DEF CallStates
      <3>2. CASE y.kind = "list" /\ y.ch.ok /\ y.ch.next > 0
        <4>1. x = [Idle EXCEPT !.pc = "more", !.cursor = y.ch.next, !.all = y.all]
          BY <3>2
        <4>2. y.ch.next \in Cursors /\ y.all \in BOOLEAN
          BY <1>0, <3>1 DEF CallStates, Replies
        <4> HIDE DEF x, y
        <4> QED BY <4>1, <4>2 DEF Idle, CallOK, CallStates, Kinds, Cursors
      <3>3. CASE ~(y.kind = "list" /\ y.ch.ok /\ y.ch.next > 0) /\ y.kind = "delete" /\ y.ch.ok
        <4>1. x = [y EXCEPT !.pc = "prune"]
          BY <3>3
        <4>2. CallOK(y)
          BY <1>0
        <4> HIDE DEF x, y
        <4> QED BY <2>1, <3>3, <4>1, <4>2 DEF CallOK, CallStates
      <3>4. CASE /\ ~(y.kind = "list" /\ y.ch.ok /\ y.ch.next > 0)
                 /\ ~(y.kind = "delete" /\ y.ch.ok)
        BY <3>4, IdleOK
      <3> QED BY <3>2, <3>3, <3>4
    <2>3. cut' \in BOOLEAN
      BY <1>9 DEF Wake
    <2> HIDE DEF x, y
    <2> QED BY <1>5, <2>1, <2>2, <2>3
  <1>10. CASE Timeout(k)
    <2>1. /\ call' = [call EXCEPT ![k] = Idle] /\ asks' = asks
          /\ UNCHANGED phoneVars /\ UNCHANGED linkVars /\ UNCHANGED net
          /\ UNCHANGED <<gen, cache, db, saves, reqs, deleted, late>>
      BY <1>10 DEF Timeout
    <2>2. cut' \in BOOLEAN
      BY <1>10 DEF Timeout
    <2> QED BY <1>5, <2>1, <2>2, IdleOK
  <1>11. CASE Prune(k)
    <2> DEFINE x == [call[k] EXCEPT !.pc = "dbdelete"]
               I == {i \in 1 .. Len(cache) : cache[i].id # call[k].cursor}
    <2>1. /\ call' = [call EXCEPT ![k] = x] /\ cache' = Pick(cache, I)
          /\ UNCHANGED phoneVars /\ UNCHANGED linkVars /\ UNCHANGED <<asks, net>>
          /\ UNCHANGED <<gen, db, saves, reqs, history>> /\ call[k].pc = "prune"
      BY <1>11 DEF Prune
    <2>2. CallOK(x)
      BY <1>0, <2>1 DEF CallOK, CallStates
    <2>3. Pick(cache, I) \in Seq(Rows)
      <3>1. I \in SUBSET (1 .. Len(cache)) /\ cache \in Seq(Rows)
        BY DEF TypeInv, StoreOK
      <3> HIDE DEF I
      <3> QED BY <3>1, Picked
    <2> HIDE DEF x, I
    <2>4. CallsOK'
      BY <2>1, <2>2, CallMoves
    <2>5. StoreOK'
      BY <2>1, <2>3 DEF TypeInv, StoreOK, history
    <2> QED BY <2>1, <2>4, <2>5, Frame DEF TypeInv
  <1>12. CASE DbDeleteContact(k)
    <2>1. /\ call' = [call EXCEPT ![k] = Idle] /\ db' = [db EXCEPT ![call[k].cursor] = 0]
          /\ UNCHANGED phoneVars /\ UNCHANGED linkVars /\ UNCHANGED <<asks, net>>
          /\ UNCHANGED <<gen, cache, saves, reqs, cut, late>>
          /\ deleted' = deleted \cup {call[k].cursor} /\ call[k].pc = "dbdelete"
      BY <1>12 DEF DbDeleteContact
    <2>2. call[k].cursor \in Ids
      BY <1>0, <2>1 DEF CallOK
    <2>3. CallsOK'
      BY <2>1, CallMoves, IdleOK
    <2>4. StoreOK'
      BY <2>1, <2>2 DEF TypeInv, StoreOK
    <2> QED BY <2>1, <2>3, <2>4, Frame DEF TypeInv
  <1> QED BY <1>2, <1>3, <1>4, <1>7, <1>8, <1>9, <1>10, <1>11, <1>12

\* What a waiter's channel gets: the first result stays.
Result(x, ok, next) == [x EXCEPT !.ch = IF @ = None THEN [ok |-> ok, next |-> next] ELSE @]

\* A call that gets a result, or is failed, is still a call.
LEMMA ResultOK ==
    ASSUME NEW x, CallOK(x), NEW ok \in BOOLEAN, NEW next \in Cursors
    PROVE  /\ CallOK(Result(x, ok, next)) /\ Result(x, ok, next).ch # None
           /\ \A pending \in BOOLEAN : x.pc \notin {"idle", "more"} \/ ~pending =>
                CallOK([Result(x, ok, next) EXCEPT !.pending = pending])
  <1>1. [ok |-> ok, next |-> next] \in Replies /\ x \in CallStates
    BY DEF Replies, CallOK
  <1> DEFINE r == IF x.ch = None THEN [ok |-> ok, next |-> next] ELSE x.ch
  <1>2. r \in Replies /\ r # None /\ (x.ch # None => r = x.ch)
    BY <1>1, Constants DEF CallStates
  <1>3. Result(x, ok, next) = [x EXCEPT !.ch = r]
    BY DEF Result
  <1> HIDE DEF r
  <1>4. CallOK([x EXCEPT !.ch = r])
    BY <1>1, <1>2 DEF CallOK, CallStates
  <1>5. ASSUME NEW pending \in BOOLEAN, x.pc \notin {"idle", "more"} \/ ~pending
        PROVE  CallOK([[x EXCEPT !.ch = r] EXCEPT !.pending = pending])
    BY <1>1, <1>2, <1>5 DEF CallOK, CallStates
  <1>6. [x EXCEPT !.ch = r].ch = r
    BY <1>1 DEF CallStates
  <1> QED BY <1>2, <1>3, <1>4, <1>5, <1>6

\* A message reaches one call's channel.
LEMMA Answers ==
    ASSUME TypeInv, NEW k \in Calls, NEW m \in Messages, call' = Answered(k, m)
    PROVE  /\ CallsOK' /\ call'[k] = Result(call[k], m.ok, m.next)
           /\ \A l \in Calls \ {k} : call'[l] = call[l]
  <1>1. call' = [call EXCEPT ![k] = Result(call[k], m.ok, m.next)]
    BY DEF Answered, Result
  <1>2. CallOK(call[k]) /\ m.ok \in BOOLEAN /\ m.next \in Cursors
    BY DEF TypeInv, CallsOK, Messages
  <1>3. CallOK(Result(call[k], m.ok, m.next))
    BY <1>2, ResultOK
  <1> QED BY <1>1, <1>3, CallMoves

\* A message that comes.
LEMMA MessageType ==
    ASSUME TypeInv, NEW m \in net,
           \/ \E again \in BOOLEAN : ListResp(m, again) \/ DeleteResp(m, again)
                                     \/ ContactsChanged(m, again)
           \/ Lose(m)
    PROVE  TypeInv'
  <1> USE Constants
  <1>0. m \in Messages /\ m.rows \in Seq(Rows) /\ cache \in Seq(Rows) /\ gen \in Nat
    BY DEF TypeInv, WireOK, Messages, StoreOK
  <1>1. ASSUME NEW again \in BOOLEAN, Deliver(m, again), UNCHANGED <<asks, missed, ws, fresh, owed>>
        PROVE  WireOK' /\ LinkOK'
    <2>1. net' \subseteq net /\ UNCHANGED asks
      BY <1>1 DEF Deliver
    <2>2. faults' = faults \/ (faults < MaxFaults /\ faults' = faults + 1)
      BY <1>1 DEF Deliver, Fault
    <2>3. WireOK'
      BY <2>1 DEF TypeInv, WireOK
    <2>4. LinkOK'
      BY <1>1, <2>2 DEF TypeInv, LinkOK
    <2> QED BY <2>3, <2>4
  <1>2. ASSUME NEW again \in BOOLEAN, ListResp(m, again) PROVE TypeInv'
    <2>1. /\ UNCHANGED phoneVars /\ UNCHANGED <<gen, db, reqs, deleted, late>>
          /\ WireOK' /\ LinkOK'
      BY <1>1, <1>2 DEF ListResp
    <2>2. CASE /\ \A k \in Waiters(m.req) : ~Welcome(k, m)
               /\ UNCHANGED <<call, cache, saves, cut>>
      <3>1. UNCHANGED <<gen, cache, db, saves, reqs, history>> /\ UNCHANGED call
        BY <2>1, <2>2 DEF history
      <3> QED BY <2>1, <3>1, Frame DEF TypeInv
    <2>3. ASSUME NEW k \in Waiters(m.req), NEW beaten \in {FALSE, owed},
                 Welcome(k, m),
                 call' = IF beaten THEN call ELSE Answered(k, m),
                 IF m.ok /\ call[k].all
                 THEN /\ AdoptPage(k, m)
                      /\ cut' = (beaten \/ (call[k].cursor > 0 /\
                                              (cut \/ call[k].cursor \notin IdsOf(cache))))
                 ELSE UNCHANGED <<cache, saves, cut>>
          PROVE  TypeInv'
      <3>1. k \in Calls
        BY DEF Waiters
      <3>2. CallsOK'
        BY <1>0, <2>3, <3>1, Answers, Frame
      <3>3. cache' \in Seq(Rows) /\ saves' \subseteq Seq(Rows) \ {<<>>} /\ cut' \in BOOLEAN
        <4>1. CASE m.ok /\ call[k].all
          <5>1. AdoptPage(k, m)
            BY <2>3, <4>1
          <5>2. cut' \in BOOLEAN
            <6>1. cut' = (beaten \/ (call[k].cursor > 0 /\
                                              (cut \/ call[k].cursor \notin IdsOf(cache))))
              BY <2>3, <4>1
            <6> QED BY <6>1
          <5>3. cache' \in Seq(Rows)
            BY <1>0, <5>1, MergedRows DEF AdoptPage
          <5>4. saves' \subseteq Seq(Rows) \ {<<>>}
            BY <5>1, <5>3 DEF AdoptPage, TypeInv, StoreOK
          <5> QED BY <5>2, <5>3, <5>4
        <4>2. CASE ~(m.ok /\ call[k].all)
          <5>1. UNCHANGED <<cache, saves, cut>>
            BY <2>3, <4>2
          <5> QED BY <5>1 DEF TypeInv, StoreOK
        <4> QED BY <4>1, <4>2
      <3>4. StoreOK'
        BY <2>1, <3>3 DEF TypeInv, StoreOK
      <3> QED BY <2>1, <3>2, <3>4, Frame DEF TypeInv
    <2> QED BY <1>2, <2>2, <2>3 DEF ListResp
  <1>3. ASSUME NEW again \in BOOLEAN, DeleteResp(m, again) PROVE TypeInv'
    <2>1. /\ UNCHANGED phoneVars /\ UNCHANGED <<gen, cache, db, saves, reqs, history>>
          /\ WireOK' /\ LinkOK'
      BY <1>1, <1>3 DEF DeleteResp
    <2>2. \/ \E k \in Calls : call' = Answered(k, m)
          \/ UNCHANGED call
      BY <1>3 DEF DeleteResp, Waiters
    <2>3. CallsOK'
      BY <1>0, <2>2, Answers, Frame
    <2> QED BY <2>1, <2>3, Frame DEF TypeInv
  <1>4. ASSUME NEW again \in BOOLEAN, ContactsChanged(m, again) PROVE TypeInv'
    <2>1. /\ UNCHANGED phoneVars /\ UNCHANGED <<db, saves, reqs, history>> /\ UNCHANGED call
          /\ gen' = gen + 1 /\ cache' = <<>>
          /\ WireOK' /\ LinkOK'
      BY <1>1, <1>4 DEF ContactsChanged
    <2>2. StoreOK'
      BY <1>0, <2>1 DEF TypeInv, StoreOK, history
    <2> QED BY <2>1, <2>2, Frame DEF TypeInv
  <1>5. CASE Lose(m)
    <2>1. /\ UNCHANGED phoneVars /\ UNCHANGED <<asks, ws, fresh, owed>>
          /\ UNCHANGED <<gen, cache, db, saves, reqs, history>> /\ UNCHANGED call
          /\ net' = net \ {m} /\ missed' = (missed \/ m.type = "changed")
      BY <1>5 DEF Lose
    <2>2. faults' = faults \/ (faults < MaxFaults /\ faults' = faults + 1)
      BY <1>5 DEF Lose, Fault
    <2>3. missed' \in BOOLEAN
      BY <2>1
    <2>4. LinkOK'
      BY <2>1, <2>2, <2>3 DEF TypeInv, LinkOK
    <2>5. WireOK'
      BY <2>1 DEF TypeInv, WireOK
    <2> QED BY <2>1, <2>4, <2>5, Frame DEF TypeInv
  <1> QED BY <1>2, <1>3, <1>4, <1>5

\* A step of the database or the link.
LEMMA LinkType ==
    ASSUME TypeInv,
           \/ \E w \in saves : SaveContacts(w)
           \/ Connect \/ Resync \/ Disconnect \/ failPendingContacts \/ Restart
    PROVE  TypeInv'
  <1> USE Constants
  <1>1. ASSUME NEW w \in saves, SaveContacts(w) PROVE TypeInv'
    <2>1. /\ UNCHANGED phoneVars /\ UNCHANGED linkVars /\ UNCHANGED <<asks, net>>
          /\ UNCHANGED <<gen, cache, reqs, cut, deleted>> /\ UNCHANGED call
          /\ saves' = saves \ {w}
          /\ db' = [c \in Ids |-> IF c \in IdsOf(w)
                                  THEN (CHOOSE r \in RowsOf(w) : r.id = c).ver ELSE db[c]]
          /\ late' = late \cup {c \in IdsOf(w) : db[c] > db'[c] \/ c \in deleted}
      BY <1>1 DEF SaveContacts
    <2>2. w \in Seq(Rows)
      BY DEF TypeInv, StoreOK
    <2>3. ASSUME NEW c \in IdsOf(w)
          PROVE  c \in Ids /\ (CHOOSE r \in RowsOf(w) : r.id = c).ver \in Nat
      <3>1. \E r \in RowsOf(w) : r.id = c
        BY <2>3 DEF IdsOf
      <3>2. (CHOOSE r \in RowsOf(w) : r.id = c) \in RowsOf(w) /\ RowsOf(w) \subseteq Rows
        <4>1. RowsOf(w) \subseteq Rows
          BY <2>2 DEF RowsOf
        <4> QED BY <3>1, <4>1
      <3> QED BY <3>1, <3>2 DEF Rows
    <2>4. db' \in [Ids -> Nat]
      BY <2>1, <2>3 DEF TypeInv, StoreOK
    <2>5. late' \subseteq Ids
      BY <2>1, <2>3 DEF TypeInv, StoreOK
    <2>6. StoreOK'
      BY <2>1, <2>4, <2>5 DEF TypeInv, StoreOK
    <2> QED BY <2>1, <2>6, Frame DEF TypeInv
  <1>2. CASE Connect
    <2>1. /\ UNCHANGED phoneVars /\ UNCHANGED <<asks, net>>
          /\ UNCHANGED <<gen, cache, db, saves, reqs, history>> /\ UNCHANGED call
          /\ ws' = TRUE /\ fresh' = TRUE /\ owed' = ws /\ UNCHANGED missed
          /\ (faults' = faults \/ (faults < MaxFaults /\ faults' = faults + 1))
      BY <1>2 DEF Connect, Fault
    <2>2. LinkOK'
      BY <2>1 DEF TypeInv, LinkOK
    <2> QED BY <2>1, <2>2, Frame DEF TypeInv
  <1>3. CASE Resync
    <2>1. /\ UNCHANGED phoneVars /\ UNCHANGED <<asks, net>>
          /\ UNCHANGED <<db, saves, reqs, history>> /\ UNCHANGED call
          /\ gen' = gen + 1 /\ cache' = <<>>
          /\ fresh' = FALSE /\ missed' = FALSE /\ UNCHANGED <<ws, owed, faults>>
      BY <1>3 DEF Resync
    <2>2. LinkOK'
      BY <2>1 DEF TypeInv, LinkOK
    <2>3. StoreOK'
      BY <2>1 DEF TypeInv, StoreOK, history
    <2> QED BY <2>1, <2>2, <2>3, Frame DEF TypeInv
  <1>4. CASE Disconnect
    <2>1. /\ UNCHANGED phoneVars /\ UNCHANGED net /\ asks' \subseteq asks
          /\ UNCHANGED <<gen, cache, db, saves, reqs, history>> /\ UNCHANGED call
          /\ ws' = FALSE /\ owed' = TRUE /\ ~fresh /\ UNCHANGED <<missed, fresh>>
          /\ faults < MaxFaults /\ faults' = faults + 1
      BY <1>4 DEF Disconnect, Fault
    <2>2. LinkOK'
      <3>1. ws' \in BOOLEAN /\ fresh' \in BOOLEAN /\ owed' \in BOOLEAN /\ missed' \in BOOLEAN
        BY <2>1 DEF TypeInv, LinkOK
      <3>2. fresh' => ws'
        BY <2>1
      <3>3. faults' \in 0 .. MaxFaults
        BY <2>1 DEF TypeInv, LinkOK
      <3> QED BY <3>1, <3>2, <3>3 DEF LinkOK
    <2>3. WireOK'
      BY <2>1 DEF TypeInv, WireOK
    <2> QED BY <2>1, <2>2, <2>3, Frame DEF TypeInv
  <1>5. CASE failPendingContacts
    <2>1. /\ UNCHANGED phoneVars /\ UNCHANGED <<asks, net>>
          /\ UNCHANGED <<gen, cache, db, saves, reqs, history>>
          /\ owed' = FALSE /\ UNCHANGED <<missed, ws, fresh, faults>>
          /\ call' = [k \in Calls |->
                       IF call[k].pending
                       THEN [Result(call[k], FALSE, 0) EXCEPT !.pending = FALSE]
                       ELSE call[k]]
      BY <1>5 DEF failPendingContacts, Result
    <2>2. LinkOK'
      BY <2>1 DEF TypeInv, LinkOK
    <2>3. \A k \in Calls : CallOK(call'[k])
      <3> TAKE k \in Calls
      <3>1. CallOK(call[k]) /\ 0 \in Cursors
        BY DEF TypeInv, CallsOK, Cursors
      <3> QED BY <2>1, <3>1, ResultOK
    <2>4. CallsOK'
      BY <2>1, <2>3 DEF CallsOK, CallOK
    <2> QED BY <2>1, <2>2, <2>4, Frame DEF TypeInv
  <1>6. CASE Restart
    <2>1. /\ UNCHANGED phoneVars /\ UNCHANGED <<asks, net>>
          /\ UNCHANGED <<db, reqs, deleted, late>>
          /\ ws' = FALSE /\ fresh' = FALSE /\ owed' = FALSE /\ UNCHANGED missed
          /\ gen' = 0 /\ cache' = Listed(db) /\ saves' = {} /\ cut' = TRUE
          /\ call' = [k \in Calls |-> Idle]
          /\ faults < MaxFaults /\ faults' = faults + 1
      BY <1>6 DEF Restart, Fault
    <2>2. LinkOK'
      <3>1. ws' \in BOOLEAN /\ fresh' \in BOOLEAN /\ owed' \in BOOLEAN /\ missed' \in BOOLEAN
        BY <2>1 DEF TypeInv, LinkOK
      <3>2. fresh' => ws'
        BY <2>1
      <3>3. faults' \in 0 .. MaxFaults
        BY <2>1 DEF TypeInv, LinkOK
      <3> QED BY <3>1, <3>2, <3>3 DEF LinkOK
    <2>3. CallsOK'
      BY <2>1, IdleOK DEF CallsOK, CallOK
    <2>4. cache' \in Seq(Rows)
      <3> DEFINE I == {c \in Ids : db[c] > 0 /\ Beyond(c, 0)}
      <3>1. I \in SUBSET {c \in Ids : db[c] > 0} /\ db \in [Ids -> Nat]
        BY DEF TypeInv, StoreOK
      <3>2. cache' = Among(db, I)
        BY <2>1 DEF Listed, Behind, Among
      <3> HIDE DEF I
      <3> QED BY <3>1, <3>2, AmongRows
    <2>5. StoreOK'
      BY <2>1, <2>4 DEF TypeInv, StoreOK
    <2> QED BY <2>1, <2>2, <2>3, <2>5, Frame DEF TypeInv
  <1> QED BY <1>1, <1>2, <1>3, <1>4, <1>5, <1>6

\* Every step keeps the types.
LEMMA NextType == TypeInv /\ [Next]_vars => TypeInv'
  <1>1. CASE TypeInv /\ UNCHANGED vars
    <2>1. UNCHANGED phoneVars /\ UNCHANGED linkVars /\ UNCHANGED <<asks, net>> /\ UNCHANGED call
          /\ UNCHANGED <<gen, cache, db, saves, reqs, history>>
      BY <1>1 DEF vars
    <2> QED BY <1>1, <2>1, Frame DEF TypeInv
  <1>2. CASE TypeInv /\ Next
    BY <1>2, PhoneType, CallType, MessageType, LinkType DEF Next
  <1> QED BY <1>1, <1>2

\* The types, and how a call's place and its waiter fit.
THEOREM TypeCorrect == Spec => []TypeOK
  <1>1. Init => TypeInv
    BY InitType
  <1>2. TypeInv /\ [Next]_vars => TypeInv'
    BY NextType
  <1>3. TypeInv => TypeOK
    BY TypeImplies
  <1> QED BY <1>1, <1>2, <1>3, PTL DEF Spec

(***************************************************************************)
(* The calls that the end of a socket fails.                               *)
(***************************************************************************)

\* Only a new socket, one that ends, failPendingContacts and a restart touch
\* these; only SendRequest lets a call wait, and a result stays.
LEMMA NextNoForgotten == TypeInv /\ NoForgottenCall /\ Next => NoForgottenCall'
  <1> SUFFICES ASSUME TypeInv, NoForgottenCall, Next, ~ws', ~owed',
                      NEW k \in Calls, call'[k].pc = "waiting"
               PROVE  call'[k].ch # None
    BY DEF NoForgottenCall
  <1> USE Constants
  <1>0. /\ call \in [Calls -> CallStates] /\ CallOK(call[k])
    BY DEF TypeInv, CallsOK, CallOK
  <1>1. ASSUME UNCHANGED <<ws, owed>>, call'[k] = call[k] PROVE call'[k].ch # None
    BY <1>1 DEF NoForgottenCall
  <1>2. ASSUME UNCHANGED <<ws, owed>>, UNCHANGED call PROVE call'[k].ch # None
    BY <1>1, <1>2
  <1>3. ASSUME NEW c \in Ids, PhoneEdit(c) \/ PhoneRemove(c) PROVE call'[k].ch # None
    BY <1>2, <1>3 DEF PhoneEdit, PhoneRemove, linkVars
  <1>4. CASE Notify
    BY <1>2, <1>4 DEF Notify, linkVars
  <1>5. ASSUME NEW a \in asks, AnswerList(a) \/ AnswerDelete(a) PROVE call'[k].ch # None
    <2>1. UNCHANGED <<ws, owed>> /\ UNCHANGED call
      BY <1>5 DEF AnswerList, AnswerDelete
    <2> QED BY <1>2, <2>1
  <1>6. ASSUME NEW l \in Calls, NEW x, call' = [call EXCEPT ![l] = x], UNCHANGED <<ws, owed>>,
               x.pc # "waiting"
        PROVE  call'[k].ch # None
    BY <1>0, <1>1, <1>6
  <1>7. Idle.pc # "waiting"
    BY DEF Idle
  <1>8. ASSUME NEW l \in Calls,
               \/ \E all \in BOOLEAN : ListContacts(l, all)
               \/ \E c \in Ids : DeleteContact(l, c)
               \/ FollowCursor(l)
        PROVE  call'[k].ch # None
    <2>1. PICK kind, cursor, all : Register(l, kind, cursor, all)
      BY <1>8 DEF ListContacts, DeleteContact, FollowCursor
    <2> DEFINE x == [pc |-> "request", kind |-> kind, req |-> reqs + 1, cursor |-> cursor,
                     all |-> all, gen |-> gen, pending |-> TRUE, ch |-> None]
    <2>2. call' = [call EXCEPT ![l] = x] /\ UNCHANGED <<ws, owed>>
      BY <2>1 DEF Register, linkVars
    <2>3. x.pc # "waiting"
      OBVIOUS
    <2> HIDE DEF x
    <2> QED BY <1>6, <2>2, <2>3
  <1>9. ASSUME NEW l \in Calls, StopFollowing(l) \/ Timeout(l) \/ DbDeleteContact(l)
        PROVE  call'[k].ch # None
    <2>1. call' = [call EXCEPT ![l] = Idle] /\ UNCHANGED <<ws, owed>>
      BY <1>9 DEF StopFollowing, Timeout, DbDeleteContact, linkVars
    <2> QED BY <1>6, <1>7, <2>1
  <1>10. ASSUME NEW l \in Calls, SendRequest(l) PROVE call'[k].ch # None
    <2>1. UNCHANGED <<ws, owed>>
      BY <1>10 DEF SendRequest, linkVars
    <2>2. call' = [call EXCEPT ![l] = Idle]
      BY <1>10, <2>1 DEF SendRequest
    <2> QED BY <1>6, <1>7, <2>1, <2>2
  <1>11. ASSUME NEW l \in Calls, Wake(l) PROVE call'[k].ch # None
    <2> DEFINE y == call[l]
               x == CASE y.kind = "list" /\ y.ch.ok /\ y.ch.next > 0 ->
                           [Idle EXCEPT !.pc = "more", !.cursor = y.ch.next, !.all = y.all]
                      [] y.kind = "delete" /\ y.ch.ok -> [y EXCEPT !.pc = "prune"]
                      [] OTHER -> Idle
    <2>1. call' = [call EXCEPT ![l] = x] /\ UNCHANGED <<ws, owed>>
      BY <1>11 DEF Wake, linkVars
    <2>2. x.pc # "waiting"
      <3>1. y \in CallStates
        BY <1>0
      <3> QED BY <3>1 DEF Idle, CallStates
    <2> HIDE DEF x
    <2> QED BY <1>6, <2>1, <2>2
  <1>12. ASSUME NEW l \in Calls, Prune(l) PROVE call'[k].ch # None
    <2> DEFINE x == [call[l] EXCEPT !.pc = "dbdelete"]
    <2>1. call' = [call EXCEPT ![l] = x] /\ UNCHANGED <<ws, owed>>
      BY <1>12 DEF Prune, linkVars
    <2>2. x.pc # "waiting"
      BY <1>0 DEF CallStates
    <2> HIDE DEF x
    <2> QED BY <1>6, <2>1, <2>2
  <1>13. ASSUME NEW m \in net, NEW again \in BOOLEAN, ListResp(m, again) \/ DeleteResp(m, again)
         PROVE  call'[k].ch # None
    <2>1. UNCHANGED <<ws, owed>>
      BY <1>13 DEF ListResp, DeleteResp
    <2>2. call' = call \/ \E l \in Calls : call' = Answered(l, m)
      BY <1>13 DEF ListResp, DeleteResp, Waiters
    <2>3. m \in Messages
      BY DEF TypeInv, WireOK
    <2>4. ASSUME NEW l \in Calls, call' = Answered(l, m) PROVE call'[k].ch # None
      <3>1. l # k => call'[k] = call[k]
        BY <2>3, <2>4, Answers
      <3>2. l = k => call'[k] = Result(call[k], m.ok, m.next)
        BY <2>3, <2>4, Answers
      <3>3. m.ok \in BOOLEAN /\ m.next \in Cursors
        BY <2>3 DEF Messages
      <3> QED BY <1>0, <1>1, <2>1, <3>1, <3>2, <3>3, ResultOK
    <2> QED BY <1>2, <2>1, <2>2, <2>4
  <1>14. ASSUME NEW m \in net, NEW again \in BOOLEAN, ContactsChanged(m, again)
         PROVE  call'[k].ch # None
    BY <1>2, <1>14 DEF ContactsChanged
  <1>15. ASSUME NEW m \in net, Lose(m) PROVE call'[k].ch # None
    BY <1>2, <1>15 DEF Lose
  <1>16. ASSUME NEW w \in saves, SaveContacts(w) PROVE call'[k].ch # None
    <2>1. UNCHANGED <<ws, owed>> /\ UNCHANGED call
      BY <1>16 DEF SaveContacts, linkVars
    <2> QED BY <1>2, <2>1
  <1>17. CASE Connect \/ Resync \/ Disconnect
    <2>1. Resync
      BY <1>17 DEF Connect, Disconnect
    <2> QED BY <1>2, <2>1 DEF Resync
  <1>18. CASE failPendingContacts
    <2>1. call'[k] = IF call[k].pending
                     THEN [Result(call[k], FALSE, 0) EXCEPT !.pending = FALSE]
                     ELSE call[k]
      BY <1>18 DEF failPendingContacts, Result
    <2>2. CASE ~call[k].pending
      BY <1>0, <2>1, <2>2 DEF CallOK
    <2>3. CASE call[k].pending
      <3>1. CallOK(Result(call[k], FALSE, 0)) /\ Result(call[k], FALSE, 0).ch # None
        BY <1>0, ResultOK DEF Cursors
      <3>2. Result(call[k], FALSE, 0) \in CallStates
        BY <3>1 DEF CallOK
      <3>3. [Result(call[k], FALSE, 0) EXCEPT !.pending = FALSE].ch = Result(call[k], FALSE, 0).ch
        BY <3>2 DEF CallStates
      <3> QED BY <2>1, <2>3, <3>1, <3>3
    <2> QED BY <2>2, <2>3
  <1>19. CASE Restart
    BY <1>7, <1>19 DEF Restart
  <1> QED BY <1>3, <1>4, <1>5, <1>8, <1>9, <1>10, <1>11, <1>12, <1>13, <1>14, <1>15, <1>16,
             <1>17, <1>18, <1>19 DEF Next

\* When the socket has ended and its goroutine is done, no call waits for an
\* answer that cannot come (failPendingSyncRequests).
THEOREM CallsAreFailed == Spec => []NoForgottenCall
  <1>1. Init => TypeInv /\ NoForgottenCall
    BY InitType DEF Init, NoForgottenCall, Idle
  <1>2. TypeInv /\ NoForgottenCall /\ [Next]_vars => (TypeInv /\ NoForgottenCall)'
    <2>1. CASE UNCHANGED vars
      BY <2>1, NextType DEF vars, linkVars, NoForgottenCall
    <2>2. CASE Next
      BY <2>2, NextType, NextNoForgotten
    <2> QED BY <2>1, <2>2
  <1> QED BY <1>1, <1>2, PTL DEF Spec

(***************************************************************************)
(* What a step does to the calls and the wire.                             *)
(***************************************************************************)

\* A call x goes on with the request of y.
Same(x, y) ==
  /\ x.kind = y.kind /\ x.req = y.req /\ x.cursor = y.cursor /\ x.all = y.all /\ x.gen = y.gen
  /\ x.pending => y.pending
  /\ x.pc = "request" => y.pc = "request"

\* What becomes of the call y where no request is registered: it is over, it goes
\* on, it is failed, or a message is its result.
Rest(x, y) ==
  \/ x.pc \in {"idle", "more"} /\ ~x.pending /\ x.req = 0 /\ x.kind = "list" /\ x.ch = None
  \/ Same(x, y) /\ x.ch = y.ch
  \/ Same(x, y) /\ ~x.pending /\ x.ch # None /\ y.ch = None /\ ~x.ch.ok
  \/ /\ Same(x, y) /\ y.pending /\ y.ch = None /\ x.ch # None
     /\ \E m \in net : /\ m.type = y.kind /\ m.req = y.req
                       /\ x.ch.ok = m.ok /\ x.ch.next = m.next

\* Nothing is asked, answered or registered.
QuietStep ==
  /\ reqs' = reqs
  /\ asks' \subseteq asks
  /\ \A m \in net' : (m.type = "changed" /\ m.rows = <<>>) \/ m \in net
  /\ \A k \in Calls : Rest(call'[k], call[k])
  /\ gen' = gen \/ (gen' = gen + 1 /\ call' = call) \/ \A k \in Calls : call'[k] = Idle

\* A contact that was there and is not any more does not come back.
Dead(c) == book[c] = 0 /\ c \notin unborn

\* The phone answers: an answer is of the kind asked for, and true.
AnswerStep(a) ==
  /\ a \in asks
  /\ UNCHANGED <<call, reqs, gen>>
  /\ asks' = asks \ {a}
  /\ \E m \in Messages :
       /\ net' = net \cup {m} /\ m.type = a.kind /\ m.req = a.req
       /\ IF m.type = "list" /\ m.ok
          THEN m.rows = Page(book, a.cursor) /\ m.next = NextOf(book, a.cursor)
          ELSE m.rows = <<>>
       /\ m.type = "delete" /\ m.ok => Dead(a.cursor)'

\* A call registers its waiter.
RegisterStep(k) ==
  /\ reqs' = reqs + 1
  /\ UNCHANGED <<asks, net, gen>>
  /\ \A l \in Calls \ {k} : call'[l] = call[l]
  /\ call'[k].req = reqs + 1 /\ call'[k].gen = gen /\ call'[k].pending /\ call'[k].ch = None
  /\ call'[k].pc = "request" /\ call[k].pc \in {"idle", "more"}
  /\ \/ call'[k].kind = "delete"
     \/ call'[k].kind = "list" /\ call'[k].cursor = 0 /\ call[k].pc = "idle"
     \/ /\ call'[k].kind = "list" /\ call[k].pc = "more"
        /\ call'[k].cursor = call[k].cursor /\ call'[k].all = call[k].all

\* A request goes out.
SendStep(k) ==
  /\ call[k].pc = "request"
  /\ UNCHANGED <<net, reqs, gen>>
  /\ \A l \in Calls \ {k} : call'[l] = call[l]
  /\ Same(call'[k], call[k]) /\ call'[k].pc = "waiting" /\ call'[k].ch = call[k].ch
  /\ asks' = asks \cup {[kind |-> call[k].kind, req |-> call[k].req, cursor |-> call[k].cursor]}

\* A call that does not move rests.
LEMMA RestSame == \A x : Rest(x, x)
  BY DEF Rest, Same

\* A call that ends rests.
LEMMA RestIdle == \A y : Rest(Idle, y)
  BY DEF Rest, Idle

\* One call is over or goes on.
LEMMA OneRests ==
    ASSUME TypeInv, NEW k \in Calls, NEW x, Rest(x, call[k]), call' = [call EXCEPT ![k] = x],
           UNCHANGED <<reqs, gen, net>>, asks' \subseteq asks
    PROVE  QuietStep
  <1>1. call'[k] = x /\ \A l \in Calls \ {k} : call'[l] = call[l]
    BY DEF TypeInv, CallsOK
  <1>2. \A l \in Calls : Rest(call'[l], call[l])
    <2> TAKE l \in Calls
    <2> QED BY <1>1, RestSame
  <1> QED BY <1>2 DEF QuietStep

\* A step that moves no call and asks nothing new is quiet.
LEMMA StaysQuiet ==
    ASSUME UNCHANGED call, asks' \subseteq asks, reqs' = reqs,
           \A m \in net' : (m.type = "changed" /\ m.rows = <<>>) \/ m \in net, gen' = gen \/ gen' = gen + 1
    PROVE  QuietStep
  BY RestSame DEF QuietStep

\* The waiters of a message's request take it as their result.
LEMMA AnsweredRests ==
    ASSUME TypeInv, NEW m \in net, NEW k \in Calls, call[k].pending, m.req = call[k].req,
           m.type = call[k].kind, call' = Answered(k, m)
    PROVE  \A l \in Calls : Rest(call'[l], call[l])
  <1> TAKE l \in Calls
  <1>1. m \in Messages /\ CallOK(call[k]) /\ call[k] \in CallStates
    BY DEF TypeInv, WireOK, CallsOK, CallOK
  <1>2. CASE l # k
    BY <1>1, <1>2, Answers, RestSame
  <1>3. CASE l = k
    <2>1. call'[k] = Result(call[k], m.ok, m.next)
      BY <1>1, Answers
    <2>2. CASE call[k].ch # None
      <3>1. call'[k] = [call[k] EXCEPT !.ch = call[k].ch]
        BY <2>1, <2>2 DEF Result
      <3>2. call'[k] = call[k]
        BY <1>1, <3>1 DEF CallStates
      <3> QED BY <1>3, <3>2, RestSame
    <2>3. CASE call[k].ch = None
      <3> DEFINE r == [ok |-> m.ok, next |-> m.next]
      <3>1. call'[k] = [call[k] EXCEPT !.ch = r]
        BY <2>1, <2>3 DEF Result
      <3>2. r.ok = m.ok /\ r.next = m.next /\ r \in Replies
        BY <1>1 DEF Replies, Messages
      <3> HIDE DEF r
      <3>3. call'[k].ch = r /\ r # None /\ Same(call'[k], call[k])
        BY <1>1, <3>1, <3>2, Constants DEF CallStates, Same
      <3> QED BY <1>3, <2>3, <3>2, <3>3 DEF Rest
    <2> QED BY <2>2, <2>3
  <1> QED BY <1>2, <1>3

(***************************************************************************)
(* Requests: each is asked once and answered once, and an answer fits its  *)
(* waiter.                                                                 *)
(***************************************************************************)

\* A call whose request may still be asked or answered.
Live(x) == x.pending \/ x.pc = "request"

\* No two requests or answers under way have the same number.
WireReq ==
  /\ \A a \in asks : a.req <= reqs /\ \A b \in asks : a.req = b.req => a = b
  /\ \A m \in net : m.type # "changed" =>
       /\ m.req <= reqs
       /\ \A n \in net : n.type # "changed" /\ n.req = m.req => n = m
       /\ \A a \in asks : a.req # m.req

\* What is under way for a call is its own, and nothing is before it is sent.
Fits(x, A, M, n, g) ==
  /\ x.req <= n
  /\ x.pending => x.gen <= g
  /\ x.pc = "request" =>
       /\ \A a \in A : a.req # x.req
       /\ \A m \in M : m.type # "changed" => m.req # x.req
       /\ x.pending => x.ch = None
       /\ x.ch # None => ~x.ch.ok
  /\ \A a \in A : x.pending /\ a.req = x.req =>
       a.kind = x.kind /\ a.cursor = x.cursor /\ x.ch = None
  /\ \A m \in M : x.pending /\ m.type # "changed" /\ m.req = x.req =>
       m.type = x.kind /\ (x.ch # None => x.ch.ok = m.ok /\ x.ch.next = m.next)

\* Each call fits what is under way; no two live calls share a request.
CallReq(k) == Fits(call[k], asks, net, reqs, gen)

OwnReq ==
  \A k, l \in Calls : Live(call[k]) /\ Live(call[l]) /\ call[k].req = call[l].req => k = l

\* Requests are numbered apart, and what is under way about one fits its call.
ReqInv ==
  /\ WireReq
  /\ \A k \in Calls : CallReq(k)
  /\ OwnReq

\* Where the numbers of requests and generations come from.
LEMMA Numbers ==
    ASSUME TypeInv
    PROVE  /\ reqs \in Nat /\ gen \in Nat
           /\ \A a \in asks : a.req \in Nat
           /\ \A m \in net : m.req \in Nat
           /\ \A k \in Calls : call[k].req \in Nat /\ call[k].gen \in Nat
  BY Constants DEF TypeInv, StoreOK, WireOK, Asked, Messages, CallsOK, CallStates

\* The requests fit at first.
LEMMA InitReq == Init => ReqInv
  <1> SUFFICES ASSUME Init PROVE ReqInv
    OBVIOUS
  <1>1. asks = {} /\ net = {} /\ reqs = 0 /\ call = [k \in Calls |-> Idle]
    BY Zenon DEF Init
  <1>2. WireReq
    BY <1>1 DEF WireReq
  <1>3. \A k \in Calls : CallReq(k) /\ ~Live(call[k])
    BY <1>1 DEF CallReq, Fits, Idle, Live
  <1> QED BY <1>2, <1>3 DEF ReqInv, OwnReq

\* The requests fit after a quiet step,
LEMMA QuietReq == TypeInv /\ TypeInv' /\ ReqInv /\ QuietStep => ReqInv'
  <1> SUFFICES ASSUME TypeInv, TypeInv', ReqInv, QuietStep PROVE ReqInv'
    OBVIOUS
  <1>0. /\ reqs' = reqs /\ asks' \subseteq asks
        /\ \A m \in net' : m.type = "changed" \/ m \in net
        /\ gen' = gen \/ (gen' = gen + 1 /\ call' = call) \/ \A k \in Calls : call'[k] = Idle
    BY DEF QuietStep
  <1>1. WireReq'
    BY <1>0 DEF ReqInv, WireReq
  <1>2. ASSUME NEW k \in Calls PROVE Rest(call'[k], call[k]) /\ Fits(call[k], asks, net, reqs, gen)
    BY DEF QuietStep, ReqInv, CallReq
  <1>3. ASSUME NEW k \in Calls PROVE CallReq(k)'
    <2> DEFINE x == call'[k]
               y == call[k]
    <2>0. Rest(x, y) /\ Fits(y, asks, net, reqs, gen)
      BY <1>2
    <2>a. x.pending => x.gen <= gen' /\ y.pending
      <3>1. y.gen \in Nat /\ gen \in Nat
        BY Numbers
      <3>2. CASE gen' = gen
        BY <2>0, <3>1, <3>2 DEF Rest, Fits, Same
      <3>3. CASE gen' = gen + 1 /\ call' = call
        BY <2>0, <3>1, <3>3 DEF CallReq, Fits
      <3>4. CASE \A l \in Calls : call'[l] = Idle
        BY <3>4 DEF Idle
      <3> QED BY <1>0, <3>2, <3>3, <3>4
    <2>b. y \in CallStates
      BY DEF TypeInv, CallsOK
    <2>c. reqs' = reqs /\ reqs \in Nat
      BY Numbers, <1>0
    <2>d. /\ \A a \in asks' : a \in asks
          /\ \A m \in net' : m.type # "changed" => m \in net
      BY <1>0
    <2> SUFFICES Fits(x, asks', net', reqs', gen')
      BY DEF CallReq
    <2> HIDE DEF x, y
    <2>1. CASE x.pc \in {"idle", "more"} /\ ~x.pending /\ x.req = 0 /\ x.kind = "list" /\ x.ch = None
      <3>1. x.req <= reqs' /\ x.pc # "request" /\ ~x.pending
        BY <2>1, <2>c
      <3> QED BY <3>1 DEF Fits
    <2>2. CASE Same(x, y) /\ x.ch = y.ch
      BY <2>0, <2>2, <2>a, <2>c, <2>d DEF Fits, Same
    <2>3. CASE Same(x, y) /\ ~x.pending /\ x.ch # None /\ y.ch = None /\ ~x.ch.ok
      BY <2>0, <2>3, <2>c, <2>d DEF Fits, Same
    <2>4. ASSUME Same(x, y), y.pending, y.ch = None, x.ch # None,
                 NEW m \in net, m.type = y.kind, m.req = y.req,
                 x.ch.ok = m.ok, x.ch.next = m.next
          PROVE  Fits(x, asks', net', reqs', gen')
      <3>1. m.type # "changed"
        BY <2>4, <2>b DEF CallStates, Kinds
      <3>2. \A a \in asks : a.req # y.req
        BY <2>4, <3>1 DEF ReqInv, WireReq
      <3>3. \A n \in net : n.type # "changed" /\ n.req = y.req => n = m
        BY <2>4, <3>1 DEF ReqInv, WireReq
      <3>4. y.pc # "request"
        BY <2>0, <2>4, <3>1 DEF CallReq, Fits
      <3> QED BY <2>0, <2>4, <2>a, <2>c, <2>d, <3>1, <3>2, <3>3, <3>4 DEF Fits, Same
    <2>5. CASE /\ Same(x, y) /\ y.pending /\ y.ch = None /\ x.ch # None
               /\ \E m \in net : /\ m.type = y.kind /\ m.req = y.req
                                 /\ x.ch.ok = m.ok /\ x.ch.next = m.next
      BY <2>4, <2>5
    <2> QED BY <2>0, <2>1, <2>2, <2>3, <2>5 DEF Rest
  <1>4. OwnReq'
    <2>1. \A k \in Calls : Live(call'[k]) => Live(call[k]) /\ call'[k].req = call[k].req
      BY <1>2 DEF Rest, Same, Live
    <2> QED BY <2>1 DEF ReqInv, OwnReq
  <1> QED BY <1>1, <1>3, <1>4 DEF ReqInv

\* after an answer,
LEMMA AnswerReq ==
    ASSUME TypeInv, TypeInv', ReqInv, NEW a \in asks, AnswerStep(a)
    PROVE  ReqInv'
  <1>1. PICK m \in Messages : net' = net \cup {m} /\ m.type = a.kind /\ m.req = a.req
    BY DEF AnswerStep
  <1>2. UNCHANGED <<call, reqs, gen>> /\ asks' = asks \ {a}
    BY DEF AnswerStep
  <1>3. m.type # "changed"
    BY <1>1 DEF TypeInv, WireOK, Asked, Kinds
  <1>4. WireReq'
    BY <1>1, <1>2, <1>3 DEF ReqInv, WireReq
  <1>5. ASSUME NEW k \in Calls PROVE CallReq(k)'
    <2>1. CallReq(k)
      BY DEF ReqInv
    <2> QED BY <1>1, <1>2, <1>3, <2>1 DEF CallReq, Fits
  <1>6. OwnReq'
    BY <1>2 DEF ReqInv, OwnReq
  <1> QED BY <1>2, <1>4, <1>5, <1>6 DEF ReqInv

\* after a call takes the next number,
LEMMA RegisterReq ==
    ASSUME TypeInv, TypeInv', ReqInv, NEW k \in Calls, RegisterStep(k)
    PROVE  ReqInv'
  <1>1. /\ reqs' = reqs + 1 /\ UNCHANGED <<asks, net, gen>>
        /\ \A l \in Calls \ {k} : call'[l] = call[l]
        /\ call'[k].req = reqs + 1 /\ call'[k].gen = gen /\ call'[k].ch = None
    BY DEF RegisterStep
  <1>2. WireReq'
    BY <1>1, Numbers DEF ReqInv, WireReq
  <1>3. ASSUME NEW l \in Calls PROVE CallReq(l)'
    <2>1. CASE l = k
      <3>1. /\ \A a \in asks : a.req <= reqs /\ a.req \in Nat
            /\ \A m \in net : m.type # "changed" => m.req <= reqs /\ m.req \in Nat
            /\ reqs \in Nat /\ gen \in Nat
        BY Numbers DEF ReqInv, WireReq
      <3>2. /\ \A a \in asks : a.req # reqs + 1
            /\ \A m \in net : m.type # "changed" => m.req # reqs + 1
            /\ reqs + 1 <= reqs + 1 /\ gen <= gen
        BY <3>1
      <3> QED BY <1>1, <2>1, <3>2 DEF CallReq, Fits
    <2>2. CASE l # k
      <3>1. CallReq(l) /\ reqs \in Nat /\ call[l].req \in Nat
        BY Numbers DEF ReqInv
      <3>2. call[l].req <= reqs + 1
        BY <3>1 DEF CallReq, Fits
      <3> QED BY <1>1, <2>2, <3>1, <3>2 DEF CallReq, Fits
    <2> QED BY <2>1, <2>2
  <1>4. OwnReq'
    <2>1. \A l \in Calls : call[l].req # reqs + 1
      BY Numbers DEF ReqInv, CallReq, Fits
    <2> QED BY <1>1, <2>1 DEF ReqInv, OwnReq
  <1> QED BY <1>2, <1>3, <1>4 DEF ReqInv

\* and after a request is sent.
LEMMA SendReq ==
    ASSUME TypeInv, TypeInv', ReqInv, NEW k \in Calls, SendStep(k)
    PROVE  ReqInv'
  <1> DEFINE a == [kind |-> call[k].kind, req |-> call[k].req, cursor |-> call[k].cursor]
  <1>1. /\ asks' = asks \cup {a} /\ UNCHANGED <<net, reqs, gen>>
        /\ \A l \in Calls \ {k} : call'[l] = call[l]
        /\ Same(call'[k], call[k]) /\ call'[k].pc = "waiting" /\ call'[k].ch = call[k].ch
        /\ call[k].pc = "request"
    BY DEF SendStep
  <1>2. a.kind = call[k].kind /\ a.req = call[k].req /\ a.cursor = call[k].cursor
    OBVIOUS
  <1> HIDE DEF a
  <1>3. CallReq(k)
    BY DEF ReqInv
  <1>4. WireReq'
    BY <1>1, <1>2, <1>3 DEF ReqInv, WireReq, CallReq, Fits
  <1>5. ASSUME NEW l \in Calls PROVE CallReq(l)'
    <2>1. CASE l = k
      BY <1>1, <1>2, <1>3, <2>1 DEF CallReq, Fits, Same
    <2>2. CASE l # k
      <3>1. CallReq(l) /\ call'[l] = call[l]
        BY <1>1, <2>2 DEF ReqInv
      <3>2. Live(call[l]) => call[l].req # call[k].req
        BY <1>1, <2>2 DEF ReqInv, OwnReq, Live
      <3> QED BY <1>1, <1>2, <3>1, <3>2 DEF CallReq, Fits, Live
    <2> QED BY <2>1, <2>2
  <1>6. OwnReq'
    <2>1. \A l \in Calls : Live(call'[l]) => Live(call[l]) /\ call'[l].req = call[l].req
      BY <1>1 DEF Live, Same
    <2> QED BY <2>1 DEF ReqInv, OwnReq
  <1> QED BY <1>4, <1>5, <1>6 DEF ReqInv

\* Which steps take a number: those that start a request.
LEMMA RegisterSteps ==
    ASSUME TypeInv, NEW k \in Calls,
           \/ \E all \in BOOLEAN : ListContacts(k, all)
           \/ \E c \in Ids : DeleteContact(k, c)
           \/ FollowCursor(k)
    PROVE  RegisterStep(k)
  <1>1. PICK kind, cursor, all :
          /\ Register(k, kind, cursor, all)
          /\ \/ kind = "list" /\ cursor = 0 /\ call[k].pc = "idle"
             \/ kind = "delete" /\ call[k].pc = "idle"
             \/ kind = "list" /\ call[k].pc = "more" /\ cursor = call[k].cursor /\ all = call[k].all
    BY DEF ListContacts, DeleteContact, FollowCursor
  <1> DEFINE x == [pc |-> "request", kind |-> kind, req |-> reqs + 1, cursor |-> cursor,
                   all |-> all, gen |-> gen, pending |-> TRUE, ch |-> None]
  <1>2. call' = [call EXCEPT ![k] = x] /\ reqs' = reqs + 1 /\ UNCHANGED <<asks, net, gen>>
    BY <1>1 DEF Register
  <1>3. call'[k] = x /\ \A l \in Calls \ {k} : call'[l] = call[l]
    <2> HIDE DEF x
    <2> QED BY <1>2 DEF TypeInv, CallsOK
  <1>4. /\ x.req = reqs + 1 /\ x.gen = gen /\ x.pending /\ x.ch = None /\ x.pc = "request"
        /\ x.kind = kind /\ x.cursor = cursor /\ x.all = all
    OBVIOUS
  <1> HIDE DEF x
  <1> QED BY <1>1, <1>2, <1>3, <1>4 DEF RegisterStep

\* The other steps of a call send its request or are quiet.
LEMMA CallSteps ==
    ASSUME TypeInv, NEW k \in Calls,
           StopFollowing(k) \/ SendRequest(k) \/ Wake(k) \/ Timeout(k) \/ Prune(k)
             \/ DbDeleteContact(k)
    PROVE  QuietStep \/ (SendStep(k) /\ ws)
  <1>0. call[k] \in CallStates
    BY DEF TypeInv, CallsOK
  <1>1. CASE StopFollowing(k) \/ Timeout(k) \/ DbDeleteContact(k) \/ (SendRequest(k) /\ ~ws)
    <2>1. call' = [call EXCEPT ![k] = Idle] /\ UNCHANGED <<reqs, gen, net>> /\ asks' \subseteq asks
      BY <1>1 DEF StopFollowing, Timeout, DbDeleteContact, SendRequest
    <2> QED BY <2>1, OneRests, RestIdle
  <1>2. CASE SendRequest(k) /\ ws
    <2> DEFINE x == [call[k] EXCEPT !.pc = "waiting"]
    <2>1. /\ call' = [call EXCEPT ![k] = x] /\ UNCHANGED <<reqs, gen, net>>
          /\ asks' = asks \cup {[kind |-> call[k].kind, req |-> call[k].req,
                                 cursor |-> call[k].cursor]}
          /\ call[k].pc = "request"
      BY <1>2 DEF SendRequest
    <2>2. Same(x, call[k]) /\ x.pc = "waiting" /\ x.ch = call[k].ch
      BY <1>0 DEF CallStates, Same
    <2> HIDE DEF x
    <2>3. call'[k] = x /\ \A l \in Calls \ {k} : call'[l] = call[l]
      BY <2>1 DEF TypeInv, CallsOK
    <2> QED BY <1>2, <2>1, <2>2, <2>3 DEF SendStep
  <1>3. CASE Wake(k)
    <2> DEFINE y == call[k]
               x == CASE y.kind = "list" /\ y.ch.ok /\ y.ch.next > 0 ->
                           [Idle EXCEPT !.pc = "more", !.cursor = y.ch.next, !.all = y.all]
                      [] y.kind = "delete" /\ y.ch.ok -> [y EXCEPT !.pc = "prune"]
                      [] OTHER -> Idle
    <2>1. call' = [call EXCEPT ![k] = x] /\ UNCHANGED <<reqs, gen, net>> /\ asks' \subseteq asks
      BY <1>3 DEF Wake
    <2>2. Rest(x, y)
      <3>1. CASE x = Idle
        BY <3>1, RestIdle
      <3>2. CASE x = [Idle EXCEPT !.pc = "more", !.cursor = y.ch.next, !.all = y.all]
        <4> HIDE DEF x, y
        <4> QED BY <3>2 DEF Idle, Rest
      <3>3. CASE x = [y EXCEPT !.pc = "prune"]
        <4>1. y \in CallStates
          BY <1>0
        <4> HIDE DEF x, y
        <4>2. Same(x, y) /\ x.ch = y.ch
          BY <3>3, <4>1 DEF CallStates, Same
        <4> QED BY <4>2 DEF Rest
      <3> QED BY <3>1, <3>2, <3>3
    <2> HIDE DEF x
    <2> QED BY <2>1, <2>2, OneRests
  <1>4. CASE Prune(k)
    <2> DEFINE x == [call[k] EXCEPT !.pc = "dbdelete"]
    <2>1. call' = [call EXCEPT ![k] = x] /\ UNCHANGED <<reqs, gen, net>> /\ asks' \subseteq asks
      BY <1>4 DEF Prune
    <2>2. Same(x, call[k]) /\ x.ch = call[k].ch
      BY <1>0 DEF CallStates, Same
    <2> HIDE DEF x
    <2> QED BY <2>1, <2>2, OneRests DEF Rest
  <1> QED BY <1>1, <1>2, <1>3, <1>4

\* An answer of the phone is about the book as it is.
LEMMA PhoneSteps ==
    ASSUME TypeInv, NEW a \in asks, AnswerList(a) \/ AnswerDelete(a)
    PROVE  AnswerStep(a)
  <1>1. UNCHANGED <<call, reqs, gen>> /\ asks' = asks \ {a}
    BY DEF AnswerList, AnswerDelete
  <1>2. a.req \in Nat /\ a.cursor \in Nat
    BY Constants DEF TypeInv, WireOK, Asked, Cursors
  <1> DEFINE e(t) == [Message(t, a.req) EXCEPT !.ok = FALSE]
  <1>3. ASSUME NEW t \in Kinds
        PROVE  /\ Message(t, a.req) \in Messages /\ e(t) \in Messages
               /\ Message(t, a.req).type = t /\ Message(t, a.req).req = a.req
               /\ e(t).type = t /\ e(t).req = a.req /\ ~e(t).ok
               /\ Message(t, a.req).rows = <<>> /\ e(t).rows = <<>>
    <2>1. Message(t, a.req) \in Messages
      BY <1>2 DEF Message, Messages, Cursors
    <2>2. /\ Message(t, a.req).type = t /\ Message(t, a.req).req = a.req
          /\ Message(t, a.req).rows = <<>>
      BY DEF Message
    <2> QED BY <2>1, <2>2, Refused
  <1>4. ASSUME NEW m \in Messages, net' = net \cup {m}, m.type = a.kind, m.req = a.req,
               IF m.type = "list" /\ m.ok
               THEN m.rows = Page(book, a.cursor) /\ m.next = NextOf(book, a.cursor)
               ELSE m.rows = <<>>,
               m.type = "delete" /\ m.ok => Dead(a.cursor)'
        PROVE  AnswerStep(a)
    BY <1>1, <1>4 DEF AnswerStep
  <1>5. ASSUME NEW t \in Kinds, net' = net \cup {e(t)}, a.kind = t PROVE AnswerStep(a)
    <2>1. /\ e(t) \in Messages /\ e(t).type = a.kind /\ e(t).req = a.req /\ ~e(t).ok
          /\ e(t).rows = <<>>
      BY <1>3, <1>5
    <2> HIDE DEF e
    <2> QED BY <1>4, <1>5, <2>1
  <1>6. CASE AnswerList(a)
    <2> DEFINE full == [Message("list", a.req) EXCEPT !.rows = Page(book, a.cursor),
                          !.next = NextOf(book, a.cursor)]
    <2>1. a.kind = "list" /\ (net' = net \cup {full} \/ net' = net \cup {e("list")})
      BY <1>6 DEF AnswerList, Page, NextOf
    <2>2. Page(book, a.cursor) \in Seq(Rows) /\ NextOf(book, a.cursor) \in Cursors
      BY <1>2, PageRows DEF TypeInv, PhoneOK, Cursors
    <2>3. /\ full \in Messages /\ full.type = "list" /\ full.req = a.req /\ full.ok
          /\ full.rows = Page(book, a.cursor) /\ full.next = NextOf(book, a.cursor)
      BY <1>2, <2>2 DEF Message, Messages, Kinds
    <2> HIDE DEF full, e
    <2> QED BY <1>4, <1>5, <2>1, <2>3 DEF Kinds
  <1>7. CASE AnswerDelete(a)
    <2>1. a.kind = "delete"
      BY <1>7 DEF AnswerDelete
    <2>2. CASE net' = net \cup {e("delete")}
      BY <1>5, <2>1, <2>2 DEF Kinds
    <2>3. CASE /\ book[a.cursor] > 0 /\ book' = [book EXCEPT ![a.cursor] = 0]
               /\ net' = net \cup {Message("delete", a.req)} /\ unborn' = unborn
      <3>1. a.cursor \in Ids
        BY <2>1 DEF TypeInv, WireOK
      <3>2. Dead(a.cursor)'
        BY <2>3, <3>1 DEF Dead, TypeInv, PhoneOK
      <3> QED BY <1>3, <1>4, <2>1, <2>3, <3>2 DEF Kinds
    <2>4. \/ net' = net \cup {e("delete")}
          \/ /\ book[a.cursor] > 0 /\ book' = [book EXCEPT ![a.cursor] = 0]
             /\ net' = net \cup {Message("delete", a.req)} /\ unborn' = unborn
      BY <1>7 DEF AnswerDelete
    <2> QED BY <2>2, <2>3, <2>4
  <1> QED BY <1>6, <1>7

\* What arrives is quiet: a result reaches the call that asked.
LEMMA MessageSteps ==
    ASSUME TypeInv, ReqInv, NEW m \in net,
           \/ \E again \in BOOLEAN : ListResp(m, again) \/ DeleteResp(m, again)
                                     \/ ContactsChanged(m, again)
           \/ Lose(m)
    PROVE  QuietStep
  <1>1. \A again \in BOOLEAN : Deliver(m, again) => net' \subseteq net
    BY DEF Deliver
  <1>2. ASSUME NEW again \in BOOLEAN, ListResp(m, again) \/ DeleteResp(m, again)
        PROVE  QuietStep
    <2>1. net' \subseteq net /\ UNCHANGED <<asks, gen, reqs>> /\ m.type # "changed"
      BY <1>1, <1>2 DEF ListResp, DeleteResp
    <2>2. call' = call \/ \E k \in Waiters(m.req) : call' = Answered(k, m)
      BY <1>2 DEF ListResp, DeleteResp
    <2>3. CASE call' = call
      BY <2>1, <2>3, StaysQuiet
    <2>4. ASSUME NEW k \in Waiters(m.req), call' = Answered(k, m) PROVE QuietStep
      <3>1. k \in Calls /\ call[k].pending /\ m.req = call[k].req
        BY DEF Waiters
      <3>2. m.type = call[k].kind
        BY <2>1, <3>1 DEF ReqInv, CallReq, Fits
      <3>3. \A l \in Calls : Rest(call'[l], call[l])
        BY <2>4, <3>1, <3>2, AnsweredRests
      <3> QED BY <2>1, <3>3 DEF QuietStep
    <2> QED BY <2>2, <2>3, <2>4
  <1>3. ASSUME NEW again \in BOOLEAN, ContactsChanged(m, again) PROVE QuietStep
    BY <1>1, <1>3, StaysQuiet DEF ContactsChanged
  <1>4. CASE Lose(m)
    BY <1>4, StaysQuiet DEF Lose
  <1> QED BY <1>2, <1>3, <1>4

\* The user, the database and the link are quiet.
LEMMA LinkSteps ==
    ASSUME TypeInv,
           \/ \E c \in Ids : PhoneEdit(c) \/ PhoneRemove(c)
           \/ Notify
           \/ \E w \in saves : SaveContacts(w)
           \/ Connect \/ Resync \/ Disconnect \/ failPendingContacts \/ Restart
    PROVE  QuietStep
  <1>1. CASE (\E c \in Ids : PhoneEdit(c) \/ PhoneRemove(c)) \/ \E w \in saves : SaveContacts(w)
    <2>1. UNCHANGED <<asks, net, gen, reqs>> /\ UNCHANGED call
      BY <1>1 DEF PhoneEdit, PhoneRemove, SaveContacts
    <2> QED BY <2>1, StaysQuiet
  <1>2. CASE Notify
    <2>1. net' = net \cup {Message("changed", edits)} /\ UNCHANGED <<asks, gen, reqs>>
          /\ UNCHANGED call
      BY <1>2 DEF Notify
    <2>2. Message("changed", edits).type = "changed" /\ Message("changed", edits).rows = <<>>
      BY DEF Message
    <2> QED BY <2>1, <2>2, StaysQuiet
  <1>3. CASE Connect \/ Resync \/ Disconnect
    <2>1. UNCHANGED <<net, reqs>> /\ UNCHANGED call /\ asks' \subseteq asks
      BY <1>3 DEF Connect, Resync, Disconnect
    <2>2. gen' = gen \/ gen' = gen + 1
      BY <1>3 DEF Connect, Resync, Disconnect
    <2> QED BY <2>1, <2>2, StaysQuiet
  <1>4. CASE failPendingContacts
    <2>1. UNCHANGED <<asks, net, gen, reqs>>
      BY <1>4 DEF failPendingContacts
    <2>2. ASSUME NEW k \in Calls PROVE Rest(call'[k], call[k])
      <3>1. call'[k] = IF call[k].pending
                       THEN [Result(call[k], FALSE, 0) EXCEPT !.pending = FALSE]
                       ELSE call[k]
        BY <1>4 DEF failPendingContacts, Result
      <3>2. call[k] \in CallStates
        BY DEF TypeInv, CallsOK
      <3>3. CASE ~call[k].pending
        BY <3>1, <3>3, RestSame
      <3>4. CASE call[k].pending /\ call[k].ch # None
        <4>1. call'[k] = [[call[k] EXCEPT !.ch = call[k].ch] EXCEPT !.pending = FALSE]
          BY <3>1, <3>4 DEF Result
        <4>2. Same(call'[k], call[k]) /\ call'[k].ch = call[k].ch
          BY <3>2, <4>1 DEF CallStates, Same
        <4> QED BY <4>2 DEF Rest
      <3>5. CASE call[k].pending /\ call[k].ch = None
        <4> DEFINE r == [ok |-> FALSE, next |-> 0]
        <4>1. call'[k] = [[call[k] EXCEPT !.ch = r] EXCEPT !.pending = FALSE]
          BY <3>1, <3>5 DEF Result
        <4>2. r \in Replies /\ ~r.ok
          BY DEF Replies, Cursors
        <4> HIDE DEF r
        <4>3. /\ Same(call'[k], call[k]) /\ call'[k].ch = r /\ r # None
              /\ call'[k].pending = FALSE
          BY <3>2, <4>1, <4>2, Constants DEF CallStates, Same
        <4> QED BY <3>5, <4>2, <4>3 DEF Rest
      <3> QED BY <3>3, <3>4, <3>5
    <2> QED BY <2>1, <2>2 DEF QuietStep
  <1>5. CASE Restart
    <2>1. UNCHANGED <<asks, net, reqs>> /\ \A k \in Calls : call'[k] = Idle
      BY <1>5 DEF Restart
    <2> QED BY <2>1, RestIdle DEF QuietStep
  <1> QED BY <1>1, <1>2, <1>3, <1>4, <1>5

\* Every step keeps the requests fitting.
LEMMA NextReq == TypeInv /\ ReqInv /\ [Next]_vars => ReqInv'
  <1> SUFFICES ASSUME TypeInv, ReqInv, [Next]_vars PROVE ReqInv'
    OBVIOUS
  <1>0. TypeInv'
    BY NextType
  <1>1. CASE UNCHANGED vars
    <2>1. UNCHANGED <<asks, net, reqs, gen>> /\ UNCHANGED call
      BY <1>1 DEF vars
    <2> QED BY <1>0, <2>1, StaysQuiet, QuietReq
  <1>2. CASE \E a \in asks : AnswerList(a) \/ AnswerDelete(a)
    BY <1>0, <1>2, PhoneSteps, AnswerReq
  <1>3. ASSUME NEW k \in Calls,
               \/ \E all \in BOOLEAN : ListContacts(k, all)
               \/ \E c \in Ids : DeleteContact(k, c)
               \/ FollowCursor(k)
        PROVE  ReqInv'
    BY <1>0, <1>3, RegisterSteps, RegisterReq
  <1>4. ASSUME NEW k \in Calls,
               StopFollowing(k) \/ SendRequest(k) \/ Wake(k) \/ Timeout(k) \/ Prune(k)
                 \/ DbDeleteContact(k)
        PROVE  ReqInv'
    BY <1>0, <1>4, CallSteps, SendReq, QuietReq
  <1>5. CASE \E m \in net : \/ \E again \in BOOLEAN : ListResp(m, again) \/ DeleteResp(m, again)
                                                    \/ ContactsChanged(m, again)
                            \/ Lose(m)
    BY <1>0, <1>5, MessageSteps, QuietReq
  <1>6. CASE \/ \E c \in Ids : PhoneEdit(c) \/ PhoneRemove(c)
             \/ Notify
             \/ \E w \in saves : SaveContacts(w)
             \/ Connect \/ Resync \/ Disconnect \/ failPendingContacts \/ Restart
    BY <1>0, <1>6, LinkSteps, QuietReq
  <1> QED BY <1>1, <1>2, <1>3, <1>4, <1>5, <1>6 DEF Next

(***************************************************************************)
(* What a step does to the directory and to what the Mac has heard.        *)
(***************************************************************************)

\* The Mac is not connected or has a change yet to hear of.
Stale == ~UpToDate

\* Rows that are there, in the version they have.
Current(s) == \A r \in RowsOf(s) : book[r.id] = r.ver

\* A page comes for a waiter of this generation, and is added to the directory.
Adopts(m, k) ==
  /\ m \in net /\ m.type = "list" /\ m.ok
  /\ k \in Calls /\ call[k].pending /\ m.req = call[k].req
  /\ call[k].gen = gen /\ call[k].all
  /\ AdoptPage(k, m)

\* What the Mac has heard is as it was, or nothing in the directory counts.
LEMMA HeardSteps ==
    ASSUME TypeInv, Next
    PROVE  \/ Stale'
           \/ ~Stale /\ book' = book
           \/ gen' = gen + 1 /\ cache' = <<>> /\ call' = call
  <1>1. ASSUME UNCHANGED <<book, dirty, missed, ws, fresh>>,
               \A m \in net : m.type = "changed" => m \in net'
        PROVE  Stale' \/ (~Stale /\ book' = book)
    BY <1>1 DEF Stale, UpToDate, Notice
  <1>2. ASSUME dirty' \/ ~ws' \/ fresh' PROVE Stale'
    BY <1>2 DEF Stale, UpToDate, Notice
  <1>3. ASSUME NEW c \in Ids, PhoneEdit(c) \/ PhoneRemove(c) PROVE Stale'
    BY <1>2, <1>3 DEF PhoneEdit, PhoneRemove
  <1>4. CASE Notify
    <2>1. Message("changed", edits) \in net' /\ Message("changed", edits).type = "changed"
      BY <1>4 DEF Notify, Message
    <2> QED BY <2>1 DEF Stale, UpToDate, Notice
  <1>5. ASSUME NEW a \in asks, AnswerList(a) PROVE Stale' \/ (~Stale /\ book' = book)
    <2>1. UNCHANGED <<book, dirty, missed, ws, fresh>> /\ net \subseteq net'
      BY <1>5 DEF AnswerList, phoneVars
    <2> QED BY <1>1, <2>1
  <1>6. ASSUME NEW a \in asks, AnswerDelete(a) PROVE Stale' \/ (~Stale /\ book' = book)
    <2>1. UNCHANGED <<missed, ws, fresh>> /\ net \subseteq net'
          /\ (dirty' \/ UNCHANGED <<book, dirty>>)
      BY <1>6 DEF AnswerDelete
    <2> QED BY <1>1, <1>2, <2>1
  <1>7. ASSUME NEW k \in Calls,
               \/ \E all \in BOOLEAN : ListContacts(k, all)
               \/ \E c \in Ids : DeleteContact(k, c)
               \/ FollowCursor(k) \/ StopFollowing(k) \/ SendRequest(k)
               \/ Wake(k) \/ Timeout(k) \/ Prune(k) \/ DbDeleteContact(k)
        PROVE  Stale' \/ (~Stale /\ book' = book)
    <2>1. UNCHANGED phoneVars /\ UNCHANGED linkVars /\ UNCHANGED net
      BY <1>7 DEF ListContacts, DeleteContact, FollowCursor, Register, StopFollowing,
         SendRequest, Wake, Timeout, Prune, DbDeleteContact
    <2> QED BY <1>1, <2>1 DEF phoneVars, linkVars
  <1>8. ASSUME NEW m \in net, NEW again \in BOOLEAN, ListResp(m, again) \/ DeleteResp(m, again)
        PROVE  Stale' \/ (~Stale /\ book' = book)
    <2>1. /\ UNCHANGED phoneVars /\ UNCHANGED <<missed, ws, fresh>> /\ m.type # "changed"
          /\ (net' = net \/ net' = net \ {m})
      BY <1>8 DEF ListResp, DeleteResp, Deliver
    <2> QED BY <1>1, <2>1 DEF phoneVars
  <1>9. ASSUME NEW m \in net, NEW again \in BOOLEAN, ContactsChanged(m, again)
        PROVE  gen' = gen + 1 /\ cache' = <<>> /\ call' = call
    BY <1>9 DEF ContactsChanged
  <1>10. ASSUME NEW m \in net, Lose(m) PROVE Stale' \/ (~Stale /\ book' = book)
    <2>1. UNCHANGED phoneVars /\ UNCHANGED <<ws, fresh>> /\ net' = net \ {m}
          /\ missed' = (missed \/ m.type = "changed")
      BY <1>10 DEF Lose
    <2>2. CASE m.type = "changed"
      BY <2>1, <2>2 DEF Stale, UpToDate, Notice
    <2>3. CASE m.type # "changed"
      <3>1. missed' = missed
        BY <2>1, <2>3 DEF TypeInv, LinkOK
      <3> QED BY <1>1, <2>1, <2>3, <3>1 DEF phoneVars
    <2> QED BY <2>2, <2>3
  <1>11. ASSUME NEW w \in saves, SaveContacts(w) PROVE Stale' \/ (~Stale /\ book' = book)
    <2>1. UNCHANGED phoneVars /\ UNCHANGED linkVars /\ UNCHANGED net
      BY <1>11 DEF SaveContacts
    <2> QED BY <1>1, <2>1 DEF phoneVars, linkVars
  <1>12. CASE Connect \/ Disconnect \/ Restart
    BY <1>2, <1>12 DEF Connect, Disconnect, Restart
  <1>13. CASE Resync
    BY <1>13 DEF Resync
  <1>14. CASE failPendingContacts
    BY <1>1, <1>14 DEF failPendingContacts, phoneVars
  <1> QED BY <1>3, <1>4, <1>5, <1>6, <1>7, <1>8, <1>9, <1>10, <1>11, <1>12, <1>13, <1>14 DEF Next

\* The directory is as it was, emptied, filled from the database, or a row goes
\* or a page comes.
LEMMA CacheSteps ==
    ASSUME TypeInv, Next
    PROVE  \/ UNCHANGED <<cache, saves>>
           \/ cache' = cache /\ \E w \in saves : SaveContacts(w)
           \/ cache' = <<>> /\ UNCHANGED saves
           \/ Restart
           \/ \E k \in Calls : Prune(k)
           \/ \E m \in net, k \in Calls : Adopts(m, k)
  <1>1. CASE \/ \E c \in Ids : PhoneEdit(c) \/ PhoneRemove(c)
             \/ Notify
             \/ \E a \in asks : AnswerList(a) \/ AnswerDelete(a)
    BY <1>1 DEF PhoneEdit, PhoneRemove, Notify, AnswerList, AnswerDelete
  <1>2. ASSUME NEW k \in Calls,
               \/ \E all \in BOOLEAN : ListContacts(k, all)
               \/ \E c \in Ids : DeleteContact(k, c)
               \/ FollowCursor(k) \/ StopFollowing(k) \/ SendRequest(k)
               \/ Wake(k) \/ Timeout(k) \/ DbDeleteContact(k)
        PROVE  UNCHANGED <<cache, saves>>
    BY <1>2 DEF ListContacts, DeleteContact, FollowCursor, Register, StopFollowing,
       SendRequest, Wake, Timeout, DbDeleteContact
  <1>3. ASSUME NEW m \in net, NEW again \in BOOLEAN, ListResp(m, again)
        PROVE  UNCHANGED <<cache, saves>> \/ \E k \in Calls : Adopts(m, k)
    <2>1. CASE UNCHANGED <<cache, saves>>
      BY <2>1
    <2>2. CASE ~UNCHANGED <<cache, saves>>
      <3>1. PICK k \in Waiters(m.req) : Welcome(k, m) /\ m.ok /\ call[k].all /\ AdoptPage(k, m)
        BY <1>3, <2>2 DEF ListResp
      <3>2. k \in Calls /\ call[k].pending /\ m.req = call[k].req
        BY DEF Waiters
      <3>3. call[k].gen = gen /\ m.type = "list"
        BY <1>3, <3>1 DEF Welcome, ListResp
      <3> QED BY <3>1, <3>2, <3>3 DEF Adopts
    <2> QED BY <2>1, <2>2
  <1>4. ASSUME NEW m \in net, NEW again \in BOOLEAN,
               DeleteResp(m, again) \/ ContactsChanged(m, again) \/ Lose(m)
        PROVE  UNCHANGED saves /\ (cache' = cache \/ cache' = <<>>)
    BY <1>4 DEF DeleteResp, ContactsChanged, Lose
  <1>5. CASE Connect \/ Resync \/ Disconnect \/ failPendingContacts
    BY <1>5 DEF Connect, Resync, Disconnect, failPendingContacts
  <1>6. ASSUME NEW w \in saves, SaveContacts(w) PROVE cache' = cache
    BY <1>6 DEF SaveContacts
  <1> QED BY <1>1, <1>2, <1>3, <1>4, <1>5, <1>6 DEF Next

\* A row that goes leaves the others; a page that comes brings its own.
LEMMA PruneRows ==
    ASSUME TypeInv, NEW k \in Calls, Prune(k)
    PROVE  /\ RowsOf(cache') = {r \in RowsOf(cache) : r.id # call[k].cursor}
           /\ Distinct(cache) => Distinct(cache')
           /\ Ordered(cache) => Ordered(cache')
  <1> DEFINE I == {i \in 1 .. Len(cache) : cache[i].id # call[k].cursor}
  <1>1. cache' = Pick(cache, I) /\ cache \in Seq(Rows) /\ I \in SUBSET (1 .. Len(cache))
    BY DEF Prune, TypeInv, StoreOK
  <1>2. \A i \in 1 .. Len(cache) : i \in I <=> cache[i].id # call[k].cursor
    OBVIOUS
  <1> HIDE DEF I
  <1>3. RowsOf(cache') = {cache[i] : i \in I}
    BY <1>1, Picked
  <1>4. RowsOf(cache') = {r \in RowsOf(cache) : r.id # call[k].cursor}
    BY <1>1, <1>2, <1>3 DEF RowsOf
  <1> QED BY <1>1, <1>4, PickedRows

\* What a page that is adopted leaves in the directory and for the goroutine.
LEMMA AdoptRows ==
    ASSUME TypeInv, NEW m \in net, NEW k \in Calls, Adopts(m, k)
    PROVE  /\ RowsOf(cache') \subseteq RowsOf(cache) \cup RowsOf(m.rows)
           /\ Distinct(cache) /\ Distinct(m.rows) => Distinct(cache')
           /\ cache' = <<>> \/ cache' \in saves'
           /\ saves \subseteq saves' /\ saves' \subseteq saves \cup {cache'}
  <1>1. m.rows \in Seq(Rows) /\ cache \in Seq(Rows)
    BY DEF TypeInv, WireOK, Messages, StoreOK
  <1>2. CASE call[k].cursor = 0
    BY <1>2 DEF Adopts, AdoptPage
  <1>3. CASE call[k].cursor # 0
    BY <1>1, <1>3, MergedRows DEF Adopts, AdoptPage
  <1> QED BY <1>2, <1>3

(***************************************************************************)
(* The directory is current.                                               *)
(***************************************************************************)

\* The directory is current, and so is every page that it would still take.
FreshInv ==
  /\ Stale \/ Current(cache)
  /\ \A m \in net, k \in Calls :
       call[k].pending /\ m.req = call[k].req /\ m.type = "list" /\ m.ok /\ call[k].gen = gen =>
         Stale \/ (/\ m.rows = Page(book, call[k].cursor)
                   /\ m.next = NextOf(book, call[k].cursor))

\* A page about the book as it is has current rows.
LEMMA PageCurrent ==
    ASSUME TypeInv, NEW m \in net, NEW k \in Calls, m.rows = Page(book, call[k].cursor)
    PROVE  Current(m.rows) /\ Ordered(m.rows)
  <1>1. book \in [Ids -> Nat] /\ call[k].cursor \in Nat
    BY Constants DEF TypeInv, PhoneOK, CallsOK, CallStates, Cursors
  <1> QED BY <1>1, PageRows DEF Current

\* A step's kind, with what each kind keeps.
LEMMA NextKinds ==
    ASSUME TypeInv, ReqInv, Next
    PROVE  \/ QuietStep
           \/ \E a \in asks : AnswerStep(a)
           \/ \E k \in Calls : RegisterStep(k)
           \/ \E k \in Calls : SendStep(k)
  <1>1. CASE \E a \in asks : AnswerList(a) \/ AnswerDelete(a)
    BY <1>1, PhoneSteps
  <1>2. ASSUME NEW k \in Calls,
               \/ \E all \in BOOLEAN : ListContacts(k, all)
               \/ \E c \in Ids : DeleteContact(k, c)
               \/ FollowCursor(k)
        PROVE  RegisterStep(k)
    BY <1>2, RegisterSteps
  <1>3. ASSUME NEW k \in Calls,
               StopFollowing(k) \/ SendRequest(k) \/ Wake(k) \/ Timeout(k) \/ Prune(k)
                 \/ DbDeleteContact(k)
        PROVE  QuietStep \/ SendStep(k)
    BY <1>3, CallSteps
  <1>4. CASE \E m \in net : \/ \E again \in BOOLEAN : ListResp(m, again) \/ DeleteResp(m, again)
                                                    \/ ContactsChanged(m, again)
                            \/ Lose(m)
    BY <1>4, MessageSteps
  <1>5. CASE \/ \E c \in Ids : PhoneEdit(c) \/ PhoneRemove(c)
             \/ Notify
             \/ \E w \in saves : SaveContacts(w)
             \/ Connect \/ Resync \/ Disconnect \/ failPendingContacts \/ Restart
    BY <1>5, LinkSteps
  <1> QED BY <1>1, <1>2, <1>3, <1>4, <1>5 DEF Next

\* A list that a waiter of this generation may take was there for the waiter, or
\* is the answer that the phone has just given.
LEMMA AnswerComes ==
    ASSUME TypeInv, ReqInv, Next, NEW m \in net', NEW k \in Calls,
           call'[k].pending, m.req = call'[k].req, m.type # "changed"
    PROVE  /\ call[k].pending /\ Same(call'[k], call[k])
           /\ \/ m \in net /\ (call'[k].gen = gen' => call[k].gen = gen)
              \/ /\ UNCHANGED <<call, gen>>
                 /\ m.type = call[k].kind
                 /\ IF m.type = "list" /\ m.ok
                    THEN /\ m.rows = Page(book, call[k].cursor)
                         /\ m.next = NextOf(book, call[k].cursor)
                    ELSE m.rows = <<>>
                 /\ m.type = "delete" /\ m.ok => Dead(call[k].cursor)'
  <1>0. gen \in Nat /\ call[k].gen \in Nat /\ (call[k].pending => call[k].gen <= gen)
    BY Numbers DEF ReqInv, CallReq, Fits
  <1>1. CASE QuietStep
    <2>1. m \in net /\ Rest(call'[k], call[k])
      BY <1>1 DEF QuietStep
    <2>2. call[k].pending /\ Same(call'[k], call[k])
      BY <2>1 DEF Rest, Same
    <2>3. call'[k].gen = gen' => call[k].gen = gen
      <3>1. CASE gen' = gen
        BY <2>2, <3>1 DEF Same
      <3>2. CASE gen' = gen + 1 /\ call' = call
        BY <1>0, <2>2, <3>2
      <3>3. CASE \A l \in Calls : call'[l] = Idle
        BY <3>3 DEF Idle
      <3> QED BY <1>1, <3>1, <3>2, <3>3 DEF QuietStep
    <2> QED BY <2>1, <2>2, <2>3
  <1>2. ASSUME NEW a \in asks, AnswerStep(a)
        PROVE  /\ UNCHANGED <<call, gen>>
               /\ \/ m \in net
                  \/ /\ m.type = call[k].kind
                     /\ IF m.type = "list" /\ m.ok
                        THEN /\ m.rows = Page(book, call[k].cursor)
                             /\ m.next = NextOf(book, call[k].cursor)
                        ELSE m.rows = <<>>
                     /\ m.type = "delete" /\ m.ok => Dead(call[k].cursor)'
    <2>1. UNCHANGED <<call, gen>>
      BY <1>2 DEF AnswerStep
    <2>2. PICK n \in Messages :
            /\ net' = net \cup {n} /\ n.type = a.kind /\ n.req = a.req
            /\ IF n.type = "list" /\ n.ok
               THEN n.rows = Page(book, a.cursor) /\ n.next = NextOf(book, a.cursor)
               ELSE n.rows = <<>>
            /\ n.type = "delete" /\ n.ok => Dead(a.cursor)'
      BY <1>2 DEF AnswerStep
    <2>3. CASE m \in net
      BY <2>1, <2>3
    <2>4. CASE m = n
      <3>1. a.kind = call[k].kind /\ a.cursor = call[k].cursor
        BY <2>1, <2>2, <2>4 DEF ReqInv, CallReq, Fits
      <3>2. Dead(a.cursor)' = Dead(call[k].cursor)'
        BY <2>1, <3>1
      <3> QED BY <2>1, <2>2, <2>4, <3>1, <3>2
    <2> QED BY <2>2, <2>3, <2>4
  <1>3. ASSUME NEW l \in Calls, RegisterStep(l)
        PROVE  m \in net /\ gen' = gen /\ call'[k] = call[k]
    <2>1. m \in net /\ gen' = gen
      BY <1>3 DEF RegisterStep
    <2>2. m.req <= reqs /\ m.req \in Nat /\ reqs \in Nat
      BY <2>1, Numbers DEF ReqInv, WireReq
    <2>3. k # l
      BY <1>3, <2>2 DEF RegisterStep
    <2> QED BY <1>3, <2>1, <2>3 DEF RegisterStep
  <1>4. ASSUME NEW l \in Calls, SendStep(l)
        PROVE  m \in net /\ gen' = gen /\ Same(call'[k], call[k])
    BY <1>4 DEF SendStep, Same
  <1>5. Same(call[k], call[k])
    BY DEF Same
  <1>6. CASE \E a \in asks : AnswerStep(a)
    BY <1>2, <1>5, <1>6
  <1>7. CASE \E l \in Calls : RegisterStep(l)
    BY <1>3, <1>5, <1>7
  <1>8. CASE \E l \in Calls : SendStep(l)
    BY <1>4, <1>8 DEF Same
  <1> QED BY <1>1, <1>6, <1>7, <1>8, NextKinds

\* No step leaves the directory behind once the Mac is up to date,
LEMMA NextFresh == TypeInv /\ ReqInv /\ FreshInv /\ Next => FreshInv'
  <1> SUFFICES ASSUME TypeInv, ReqInv, FreshInv, Next PROVE FreshInv'
    OBVIOUS
  <1>1. CASE Stale'
    BY <1>1 DEF FreshInv
  <1>2. CASE gen' = gen + 1 /\ cache' = <<>> /\ call' = call
    <2>1. Current(cache)'
      BY <1>2 DEF Current, RowsOf
    <2>2. \A k \in Calls : call'[k].pending => call'[k].gen # gen'
      BY <1>2, Numbers DEF ReqInv, CallReq, Fits
    <2> QED BY <2>1, <2>2 DEF FreshInv
  <1>3. CASE ~Stale' /\ ~Stale /\ book' = book
    <2>1. Current(cache)'
      <3>1. Current(cache)
        BY <1>3 DEF FreshInv
      <3>2. CASE cache' = cache
        BY <1>3, <3>1, <3>2 DEF Current
      <3>3. CASE cache' = <<>>
        BY <3>3 DEF Current, RowsOf
      <3>4. CASE Restart
        BY <1>3, <3>4 DEF Restart, Stale, UpToDate
      <3>5. ASSUME NEW k \in Calls, Prune(k) PROVE Current(cache)'
        BY <1>3, <3>1, <3>5, PruneRows DEF Current
      <3>6. ASSUME NEW m \in net, NEW k \in Calls, Adopts(m, k) PROVE Current(cache)'
        <4>1. m.rows = Page(book, call[k].cursor)
          BY <1>3, <3>6 DEF FreshInv, Adopts
        <4> QED BY <1>3, <3>1, <3>6, <4>1, AdoptRows, PageCurrent DEF Current
      <3> QED BY <3>2, <3>3, <3>4, <3>5, <3>6, CacheSteps
    <2>2. ASSUME NEW m \in net', NEW k \in Calls, call'[k].pending, m.req = call'[k].req,
                 m.type = "list", m.ok, call'[k].gen = gen'
          PROVE  /\ m.rows = Page(book', call'[k].cursor)
                 /\ m.next = NextOf(book', call'[k].cursor)
      <3>1. call[k].pending /\ call'[k].cursor = call[k].cursor /\ call'[k].req = call[k].req
        BY <2>2, AnswerComes DEF Same
      <3>2. CASE m \in net /\ call[k].gen = gen
        BY <1>3, <2>2, <3>1, <3>2 DEF FreshInv
      <3>3. CASE /\ m.rows = Page(book, call[k].cursor)
                 /\ m.next = NextOf(book, call[k].cursor)
        BY <1>3, <3>1, <3>3
      <3> QED BY <2>2, <3>2, <3>3, AnswerComes
    <2> QED BY <2>1, <2>2 DEF FreshInv
  <1> QED BY <1>1, <1>2, <1>3, HeardSteps

\* nor does a stuttering one.
LEMMA StutterFresh == FreshInv /\ UNCHANGED vars => FreshInv'
  <1> SUFFICES ASSUME FreshInv, UNCHANGED vars PROVE FreshInv'
    OBVIOUS
  <1>1. UNCHANGED <<cache, book, net, gen>> /\ UNCHANGED call /\ Stale' = Stale
    BY DEF vars, phoneVars, linkVars, Stale, UpToDate, Notice
  <1> QED BY <1>1 DEF FreshInv, Current

\* The directory is current at first.
LEMMA InitFresh == Init => FreshInv
  <1>1. Init => net = {} /\ ws = FALSE
    BY Zenon DEF Init
  <1> QED BY <1>1 DEF FreshInv, Stale, UpToDate

\* Once the Mac is up to date the directory has no contact that was deleted and
\* none in an older version: contactsGen and the waiters keep late pages out.
THEOREM DirectoryIsCurrent == Spec => []RowsAreCurrent
  <1>1. Init => TypeInv /\ ReqInv /\ FreshInv
    BY InitType, InitReq, InitFresh
  <1>2. TypeInv /\ ReqInv /\ FreshInv /\ [Next]_vars => (TypeInv /\ ReqInv /\ FreshInv)'
    BY NextType, NextReq, NextFresh, StutterFresh
  <1>3. FreshInv => RowsAreCurrent
    BY DEF FreshInv, Stale, Current, RowsAreCurrent
  <1> QED BY <1>1, <1>2, <1>3, PTL DEF Spec

(***************************************************************************)
(* A contact is in the directory once.                                     *)
(***************************************************************************)

\* Pages are ordered; the directory and what is to be saved have no row twice.
RowsInv ==
  /\ \A m \in net : Ordered(m.rows)
  /\ Distinct(cache)
  /\ \A w \in saves : Distinct(w)

\* An empty directory has no row twice.
LEMMA EmptyRows == Ordered(<<>>) /\ Distinct(<<>>)
  BY DEF Ordered, Distinct

\* The rows that the app reads at its start.
LEMMA ListedRows ==
    ASSUME NEW f \in [Ids -> Nat]
    PROVE  /\ Listed(f) = Among(f, {c \in Ids : f[c] > 0})
           /\ Distinct(Listed(f)) /\ \A r \in RowsOf(Listed(f)) : f[r.id] = r.ver
  <1> DEFINE I == {c \in Ids : f[c] > 0}
  <1>1. I = {c \in Ids : f[c] > 0 /\ Beyond(c, 0)}
    BY DEF Beyond
  <1>2. Listed(f) = Among(f, I)
    BY <1>1, Zenon DEF Listed, Behind, Among
  <1>3. I \in SUBSET {c \in Ids : f[c] > 0}
    OBVIOUS
  <1> HIDE DEF I
  <1>4. Distinct(Listed(f)) /\ \A r \in RowsOf(Listed(f)) : f[r.id] = r.ver
    BY <1>2, <1>3, AmongRows, OrderedDistinct
  <1> QED BY <1>2, <1>4 DEF I

\* No step brings a row twice.
LEMMA NextRows == TypeInv /\ ReqInv /\ RowsInv /\ Next => RowsInv'
  <1> SUFFICES ASSUME TypeInv, ReqInv, RowsInv, Next PROVE RowsInv'
    OBVIOUS
  <1>1. ASSUME NEW m \in net' PROVE Ordered(m.rows)
    <2>1. m \in net => Ordered(m.rows)
      BY DEF RowsInv
    <2>2. CASE QuietStep
      BY <2>1, <2>2, EmptyRows DEF QuietStep
    <2>3. ASSUME NEW a \in asks, AnswerStep(a) PROVE Ordered(m.rows)
      <3>1. \/ m \in net
            \/ m.rows = <<>>
            \/ m.rows = Page(book, a.cursor)
        BY <2>3 DEF AnswerStep
      <3>2. book \in [Ids -> Nat] /\ a.cursor \in Nat
        BY Constants DEF TypeInv, PhoneOK, WireOK, Asked, Cursors
      <3> QED BY <2>1, <3>1, <3>2, EmptyRows, PageRows
    <2>4. CASE \E k \in Calls : RegisterStep(k) \/ SendStep(k)
      BY <2>1, <2>4 DEF RegisterStep, SendStep
    <2> QED BY <2>2, <2>3, <2>4, NextKinds
  <1>2. Distinct(cache') /\ \A w \in saves' : Distinct(w)
    <2>1. CASE UNCHANGED <<cache, saves>>
      BY <2>1 DEF RowsInv
    <2>2. ASSUME NEW w \in saves, SaveContacts(w), cache' = cache
          PROVE  Distinct(cache') /\ \A x \in saves' : Distinct(x)
      BY <2>2 DEF RowsInv, SaveContacts
    <2>3. CASE cache' = <<>> /\ UNCHANGED saves
      BY <2>3, EmptyRows DEF RowsInv
    <2>4. CASE Restart
      <3>1. cache' = Listed(db) /\ saves' = {} /\ db \in [Ids -> Nat]
        BY <2>4 DEF Restart, TypeInv, StoreOK
      <3> QED BY <3>1, ListedRows
    <2>5. ASSUME NEW k \in Calls, Prune(k)
          PROVE  Distinct(cache') /\ \A x \in saves' : Distinct(x)
      <3>1. saves' = saves
        BY <2>5 DEF Prune
      <3> QED BY <2>5, <3>1, PruneRows DEF RowsInv
    <2>6. ASSUME NEW m \in net, NEW k \in Calls, Adopts(m, k)
          PROVE  Distinct(cache') /\ \A x \in saves' : Distinct(x)
      <3>1. Ordered(m.rows) /\ m.rows \in Seq(Rows)
        BY DEF RowsInv, TypeInv, WireOK, Messages
      <3>2. Distinct(m.rows)
        BY <3>1, OrderedDistinct
      <3> QED BY <2>6, <3>2, AdoptRows DEF RowsInv
    <2> QED BY <2>1, <2>2, <2>3, <2>4, <2>5, <2>6, CacheSteps
  <1> QED BY <1>1, <1>2 DEF RowsInv

\* No row is there twice at first.
LEMMA InitRows == Init => RowsInv
  <1>1. Init => net = {} /\ cache = <<>> /\ saves = {}
    BY Zenon DEF Init
  <1> QED BY <1>1, EmptyRows DEF RowsInv

\* A contact is in the directory once, also where pages overlap because contacts
\* were added and deleted between them, or come twice (mergeContactEntries).
THEOREM RowsOnce == Spec => []NoDuplicateRows
  <1>1. Init => TypeInv /\ ReqInv /\ RowsInv
    BY InitType, InitReq, InitRows
  <1>2. TypeInv /\ ReqInv /\ RowsInv /\ [Next]_vars => (TypeInv /\ ReqInv /\ RowsInv)'
    <2>1. RowsInv /\ UNCHANGED vars => RowsInv'
      BY DEF vars, RowsInv
    <2> QED BY <2>1, NextType, NextReq, NextRows
  <1>3. RowsInv => NoDuplicateRows
    BY DEF RowsInv, Distinct, NoDuplicateRows
  <1> QED BY <1>1, <1>2, <1>3, PTL DEF Spec

(***************************************************************************)
(* The directory is saved.                                                 *)
(***************************************************************************)

\* A call that is about to delete a contact from the database does so, unless
\* the app starts again.
LEMMA DeletionStays ==
    ASSUME TypeInv, Next, NEW k \in Calls, call[k].pc = "dbdelete"
    PROVE  \/ call'[k].pc = "dbdelete" /\ call'[k].cursor = call[k].cursor
           \/ DbDeleteContact(k)
           \/ Restart
  <1> DEFINE Stays == call'[k].pc = "dbdelete" /\ call'[k].cursor = call[k].cursor
  <1>0. call \in [Calls -> CallStates]
    BY DEF TypeInv, CallsOK
  <1>1. CASE UNCHANGED call
    BY <1>1
  <1>2. ASSUME NEW l \in Calls, NEW x, call' = [call EXCEPT ![l] = x], l # k PROVE Stays
    BY <1>0, <1>2
  <1>3. CASE \/ \E c \in Ids : PhoneEdit(c) \/ PhoneRemove(c)
             \/ Notify
             \/ \E a \in asks : AnswerList(a) \/ AnswerDelete(a)
             \/ \E m \in net : \/ \E again \in BOOLEAN : ContactsChanged(m, again)
                               \/ Lose(m)
             \/ \E w \in saves : SaveContacts(w)
             \/ Connect \/ Resync \/ Disconnect
    <2>1. UNCHANGED call
      BY <1>3 DEF PhoneEdit, PhoneRemove, Notify, AnswerList, AnswerDelete, ContactsChanged,
         Lose, SaveContacts, Connect, Resync, Disconnect
    <2> QED BY <1>1, <2>1
  <1>4. ASSUME NEW l \in Calls,
               \/ \E all \in BOOLEAN : ListContacts(l, all)
               \/ \E c \in Ids : DeleteContact(l, c)
               \/ FollowCursor(l) \/ StopFollowing(l) \/ SendRequest(l)
               \/ Wake(l) \/ Timeout(l) \/ Prune(l)
        PROVE  Stays
    <2>1. l # k
      BY <1>4 DEF ListContacts, DeleteContact, FollowCursor, StopFollowing, SendRequest, Wake,
         Timeout, Prune
    <2>2. \E x : call' = [call EXCEPT ![l] = x]
      BY <1>4 DEF ListContacts, DeleteContact, FollowCursor, Register, StopFollowing,
         SendRequest, Wake, Timeout, Prune
    <2> QED BY <1>2, <2>1, <2>2
  <1>5. ASSUME NEW l \in Calls, DbDeleteContact(l) PROVE Stays \/ DbDeleteContact(k)
    <2>1. call' = [call EXCEPT ![l] = Idle]
      BY <1>5 DEF DbDeleteContact
    <2> QED BY <1>2, <1>5, <2>1
  <1>6. ASSUME NEW m \in net, NEW again \in BOOLEAN, ListResp(m, again) \/ DeleteResp(m, again)
        PROVE  Stays
    <2>1. call' = call \/ \E l \in Calls : call' = Answered(l, m)
      BY <1>6 DEF ListResp, DeleteResp, Waiters
    <2>2. ASSUME NEW l \in Calls, call' = Answered(l, m) PROVE Stays
      <3>1. call'[k] = call[k] \/ call'[k] = Result(call[k], m.ok, m.next)
        BY <2>2, Answers DEF TypeInv, WireOK
      <3>2. Result(call[k], m.ok, m.next).pc = call[k].pc
            /\ Result(call[k], m.ok, m.next).cursor = call[k].cursor
        BY <1>0 DEF Result, CallStates
      <3> QED BY <3>1, <3>2
    <2> QED BY <1>1, <2>1, <2>2
  <1>7. CASE failPendingContacts
    <2>1. call'[k] = call[k] \/ call'[k] = [Result(call[k], FALSE, 0) EXCEPT !.pending = FALSE]
      BY <1>7 DEF failPendingContacts, Result
    <2> DEFINE x == Result(call[k], FALSE, 0)
    <2>2. x.pc = call[k].pc /\ x.cursor = call[k].cursor
          /\ [x EXCEPT !.pending = FALSE].pc = x.pc /\ [x EXCEPT !.pending = FALSE].cursor = x.cursor
      <3>1. x \in CallStates
        <4>1. CallOK(call[k])
          BY DEF TypeInv, CallsOK
        <4>2. CallOK(x)
          BY <4>1, ResultOK, Constants DEF Cursors
        <4> QED BY <4>2 DEF CallOK
      <3>2. x.pc = call[k].pc /\ x.cursor = call[k].cursor
        BY <1>0 DEF Result, CallStates
      <3> HIDE DEF x
      <3> QED BY <3>1, <3>2 DEF CallStates
    <2> HIDE DEF x
    <2> QED BY <2>1, <2>2 DEF x
  <1> QED BY <1>3, <1>4, <1>5, <1>6, <1>7 DEF Next

\* Which steps touch the database: those that delete or save.
LEMMA StoreSteps ==
    ASSUME Next
    PROVE  \/ UNCHANGED <<db, deleted, late>>
           \/ UNCHANGED cache /\ UNCHANGED saves /\ \E k \in Calls : DbDeleteContact(k)
           \/ UNCHANGED cache /\ \E w \in saves : SaveContacts(w)
  <1>1. CASE \/ \E c \in Ids : PhoneEdit(c) \/ PhoneRemove(c)
             \/ Notify
             \/ \E a \in asks : AnswerList(a) \/ AnswerDelete(a)
             \/ Connect \/ Resync \/ Disconnect \/ failPendingContacts \/ Restart
    BY <1>1 DEF PhoneEdit, PhoneRemove, Notify, AnswerList, AnswerDelete, Connect, Resync,
       Disconnect, failPendingContacts, Restart, history
  <1>2. ASSUME NEW k \in Calls,
               \/ \E all \in BOOLEAN : ListContacts(k, all)
               \/ \E c \in Ids : DeleteContact(k, c)
               \/ FollowCursor(k) \/ StopFollowing(k) \/ SendRequest(k)
               \/ Wake(k) \/ Timeout(k) \/ Prune(k)
        PROVE  UNCHANGED <<db, deleted, late>>
    BY <1>2 DEF ListContacts, DeleteContact, FollowCursor, Register, StopFollowing,
       SendRequest, Wake, Timeout, Prune, history
  <1>3. ASSUME NEW m \in net,
               \/ \E again \in BOOLEAN : ListResp(m, again) \/ DeleteResp(m, again)
                                         \/ ContactsChanged(m, again)
               \/ Lose(m)
        PROVE  UNCHANGED <<db, deleted, late>>
    BY <1>3 DEF ListResp, DeleteResp, ContactsChanged, Lose, history
  <1>4. ASSUME NEW k \in Calls, DbDeleteContact(k) PROVE UNCHANGED cache /\ UNCHANGED saves
    BY <1>4 DEF DbDeleteContact
  <1>5. ASSUME NEW w \in saves, SaveContacts(w) PROVE UNCHANGED cache
    BY <1>5 DEF SaveContacts
  <1> QED BY <1>1, <1>2, <1>3, <1>4, <1>5 DEF Next

\* Where a row of the directory is, but for the directory.
Saved(r) ==
  \/ db[r.id] >= r.ver
  \/ r.id \in late \cup deleted
  \/ \E k \in Calls : call[k].pc = "dbdelete" /\ call[k].cursor = r.id
  \/ \E w \in saves : r \in RowsOf(w)

\* A snapshot that is saved brings its rows to the database.
LEMMA SavedRows ==
    ASSUME TypeInv, RowsInv, NEW w \in saves, SaveContacts(w), NEW r \in RowsOf(w)
    PROVE  r.id \in Ids /\ db'[r.id] = r.ver /\ r.ver \in Nat
  <1>1. w \in Seq(Rows) /\ Distinct(w)
    BY DEF TypeInv, StoreOK, RowsInv
  <1>2. r \in Rows /\ r.id \in IdsOf(w)
    BY <1>1 DEF RowsOf, IdsOf
  <1>3. \A x \in RowsOf(w) : x.id = r.id => x = r
    BY <1>1 DEF RowsOf, Distinct
  <1>4. (CHOOSE x \in RowsOf(w) : x.id = r.id) = r
    BY <1>3
  <1>5. db' = [c \in Ids |-> IF c \in IdsOf(w)
                             THEN (CHOOSE x \in RowsOf(w) : x.id = c).ver ELSE db[c]]
    BY DEF SaveContacts
  <1> QED BY <1>2, <1>4, <1>5 DEF Rows

\* A row that is saved remains so until the app starts again.
LEMMA StaysSaved ==
    ASSUME TypeInv, RowsInv, Next, ~Restart, NEW r \in Rows, Saved(r)
    PROVE  Saved(r)'
  <1>0. r.id \in Ids /\ r.ver \in Nat /\ db \in [Ids -> Nat]
    BY DEF Rows, TypeInv, StoreOK
  <1>1. late \subseteq late' /\ deleted \subseteq deleted'
    BY StoreSteps DEF SaveContacts, DbDeleteContact
  <1>2. CASE db[r.id] >= r.ver
    <2>1. CASE db' = db
      BY <1>2, <2>1 DEF Saved
    <2>2. ASSUME NEW k \in Calls, DbDeleteContact(k) PROVE Saved(r)'
      <3>1. db' = [db EXCEPT ![call[k].cursor] = 0] /\ deleted' = deleted \cup {call[k].cursor}
        BY <2>2 DEF DbDeleteContact
      <3>2. CASE call[k].cursor = r.id
        BY <3>1, <3>2 DEF Saved
      <3>3. CASE call[k].cursor # r.id
        <4>1. db'[r.id] = db[r.id]
          BY <1>0, <3>1, <3>3
        <4> QED BY <1>2, <4>1 DEF Saved
      <3> QED BY <3>2, <3>3
    <2>3. ASSUME NEW w \in saves, SaveContacts(w) PROVE Saved(r)'
      <3>1. late' = late \cup {c \in IdsOf(w) : db[c] > db'[c] \/ c \in deleted}
        BY <2>3 DEF SaveContacts
      <3>2. db' = [c \in Ids |-> IF c \in IdsOf(w)
                                 THEN (CHOOSE x \in RowsOf(w) : x.id = c).ver ELSE db[c]]
        BY <2>3 DEF SaveContacts
      <3>3. CASE r.id \notin IdsOf(w)
        <4>1. db'[r.id] = db[r.id]
          BY <1>0, <3>2, <3>3
        <4> QED BY <1>2, <4>1 DEF Saved
      <3>4. CASE r.id \in IdsOf(w) /\ db[r.id] > db'[r.id]
        BY <3>1, <3>4 DEF Saved
      <3>5. CASE r.id \in IdsOf(w) /\ ~(db[r.id] > db'[r.id])
        <4>1. db'[r.id] \in Nat
          BY <1>0, NextType DEF TypeInv, StoreOK
        <4>2. db'[r.id] >= r.ver
          BY <1>0, <1>2, <3>5, <4>1
        <4> QED BY <4>2 DEF Saved
      <3> QED BY <3>3, <3>4, <3>5
    <2> QED BY <2>1, <2>2, <2>3, StoreSteps
  <1>3. CASE r.id \in late \cup deleted
    BY <1>1, <1>3 DEF Saved
  <1>4. ASSUME NEW k \in Calls, call[k].pc = "dbdelete", call[k].cursor = r.id PROVE Saved(r)'
    <2>1. CASE call'[k].pc = "dbdelete" /\ call'[k].cursor = call[k].cursor
      BY <1>4, <2>1 DEF Saved
    <2>2. CASE DbDeleteContact(k)
      BY <1>4, <2>2 DEF Saved, DbDeleteContact
    <2> QED BY <1>4, <2>1, <2>2, DeletionStays
  <1>5. ASSUME NEW w \in saves, r \in RowsOf(w) PROVE Saved(r)'
    <2>1. CASE SaveContacts(w)
      <3>1. db'[r.id] = r.ver
        BY <1>5, <2>1, SavedRows
      <3> QED BY <1>0, <3>1 DEF Saved
    <2>2. CASE w \in saves'
      BY <1>5, <2>2 DEF Saved
    <2>3. SaveContacts(w) \/ w \in saves'
      <3>1. CASE UNCHANGED saves
        BY <3>1
      <3>2. ASSUME NEW x \in saves, SaveContacts(x) PROVE SaveContacts(w) \/ w \in saves'
        BY <3>2 DEF SaveContacts
      <3>3. ASSUME NEW k \in Calls, Prune(k) PROVE w \in saves'
        BY <3>3 DEF Prune
      <3>4. ASSUME NEW m \in net, NEW k \in Calls, Adopts(m, k) PROVE w \in saves'
        BY <3>4, AdoptRows
      <3> QED BY <3>1, <3>2, <3>3, <3>4, CacheSteps
    <2> QED BY <2>1, <2>2, <2>3
  <1> QED BY <1>2, <1>3, <1>4, <1>5 DEF Saved

\* Every step keeps the directory saved.
LEMMA NextSaved == TypeInv /\ RowsInv /\ DirectoryIsSaved /\ Next => DirectoryIsSaved'
  <1> SUFFICES ASSUME TypeInv, RowsInv, DirectoryIsSaved, Next, NEW r \in RowsOf(cache')
               PROVE  Saved(r)'
    BY DEF DirectoryIsSaved, Saved
  <1>1. CASE r \in RowsOf(cache) /\ ~Restart
    <2>1. Saved(r) /\ r \in Rows
      BY <1>1 DEF DirectoryIsSaved, Saved, TypeInv, StoreOK, RowsOf
    <2> QED BY <1>1, <2>1, StaysSaved
  <1>2. CASE Restart
    <2>1. cache' = Listed(db) /\ db' = db /\ db \in [Ids -> Nat]
      BY <1>2 DEF Restart, TypeInv, StoreOK
    <2>2. db[r.id] = r.ver
      BY <2>1, ListedRows
    <2>3. r \in Rows
      BY NextType DEF TypeInv, StoreOK, RowsOf
    <2> QED BY <2>1, <2>2, <2>3 DEF Saved, Rows
  <1>3. CASE cache' = <<>>
    BY <1>3 DEF RowsOf
  <1>4. ASSUME NEW k \in Calls, Prune(k) PROVE r \in RowsOf(cache)
    BY <1>4, PruneRows
  <1>5. ASSUME NEW m \in net, NEW k \in Calls, Adopts(m, k), cache' # <<>> PROVE Saved(r)'
    BY <1>5, AdoptRows DEF Saved
  <1> QED BY <1>1, <1>2, <1>3, <1>4, <1>5, CacheSteps

\* What the directory shows is in the database, in this version or a newer one,
\* or about to be, but for rows that an older snapshot, saved late, wrote over,
\* and for contacts deleted meanwhile (the goroutines that ingestContactsBody
\* starts to save what it adopted).
THEOREM DirectoryReachesDb == Spec => []DirectoryIsSaved
  <1>1. Init => TypeInv /\ ReqInv /\ RowsInv /\ DirectoryIsSaved
    <2>1. Init => cache = <<>>
      BY Zenon DEF Init
    <2>2. Init => DirectoryIsSaved
      BY <2>1 DEF DirectoryIsSaved, RowsOf
    <2> QED BY <2>2, InitType, InitReq, InitRows
  <1>2. TypeInv /\ ReqInv /\ RowsInv /\ DirectoryIsSaved /\ [Next]_vars
          => (TypeInv /\ ReqInv /\ RowsInv /\ DirectoryIsSaved)'
    <2>1. RowsInv /\ UNCHANGED vars => RowsInv'
      BY DEF vars, RowsInv
    <2>2. DirectoryIsSaved /\ UNCHANGED vars => DirectoryIsSaved'
      BY DEF vars, history, DirectoryIsSaved
    <2> QED BY <2>1, <2>2, NextType, NextReq, NextRows, NextSaved
  <1> QED BY <1>1, <1>2, PTL DEF Spec

(***************************************************************************)
(* What the Mac takes for deleted is.                                      *)
(***************************************************************************)

\* A deletion that went well is for good: its answer, the call that took it and
\* the history name contacts that the phone will not have again.
DeadInv ==
  /\ \A m \in net, k \in Calls :
       call[k].pending /\ m.req = call[k].req /\ m.type = "delete" /\ m.ok => Dead(call[k].cursor)
  /\ \A k \in Calls :
       call[k].kind = "delete" /\ call[k].ch # None /\ call[k].ch.ok => Dead(call[k].cursor)
  /\ \A c \in deleted : Dead(c)

\* A contact that is gone from the phone is gone for good.
LEMMA StaysDead ==
    ASSUME TypeInv, Next, NEW c \in Ids, Dead(c)
    PROVE  Dead(c)'
  <1>0. book \in [Ids -> Nat] /\ book[c] = 0 /\ c \notin unborn
    BY DEF TypeInv, PhoneOK, Dead
  <1>1. CASE UNCHANGED <<book, unborn>>
    BY <1>0, <1>1 DEF Dead
  <1>2. ASSUME NEW b \in Ids, PhoneEdit(b) PROVE Dead(c)'
    <2>1. b # c /\ book' = [book EXCEPT ![b] = @ + 1] /\ unborn' = unborn \ {b}
      BY <1>0, <1>2 DEF PhoneEdit
    <2> QED BY <1>0, <2>1 DEF Dead
  <1>3. ASSUME NEW b, book' = [book EXCEPT ![b] = 0], unborn' = unborn PROVE Dead(c)'
    BY <1>0, <1>3 DEF Dead
  <1>4. ASSUME NEW b \in Ids, PhoneRemove(b) PROVE Dead(c)'
    BY <1>3, <1>4 DEF PhoneRemove
  <1>5. ASSUME NEW a \in asks, AnswerDelete(a) PROVE Dead(c)'
    <2>1. unborn' = unborn /\ (book' = book \/ book' = [book EXCEPT ![a.cursor] = 0])
      BY <1>5 DEF AnswerDelete
    <2> QED BY <1>1, <1>3, <2>1
  <1>6. ASSUME NEW a \in asks, AnswerList(a) PROVE UNCHANGED <<book, unborn>>
    BY <1>6 DEF AnswerList, phoneVars
  <1>7. ASSUME NEW k \in Calls,
               \/ \E all \in BOOLEAN : ListContacts(k, all)
               \/ \E b \in Ids : DeleteContact(k, b)
               \/ FollowCursor(k) \/ StopFollowing(k) \/ SendRequest(k)
               \/ Wake(k) \/ Timeout(k) \/ Prune(k) \/ DbDeleteContact(k)
        PROVE  UNCHANGED <<book, unborn>>
    BY <1>7 DEF ListContacts, DeleteContact, FollowCursor, Register, StopFollowing,
       SendRequest, Wake, Timeout, Prune, DbDeleteContact, phoneVars
  <1>8. ASSUME NEW m \in net,
               \/ \E again \in BOOLEAN : ListResp(m, again) \/ DeleteResp(m, again)
                                         \/ ContactsChanged(m, again)
               \/ Lose(m)
        PROVE  UNCHANGED <<book, unborn>>
    BY <1>8 DEF ListResp, DeleteResp, ContactsChanged, Lose, phoneVars
  <1>9. ASSUME \/ Notify
               \/ \E w \in saves : SaveContacts(w)
               \/ Connect \/ Resync \/ Disconnect \/ failPendingContacts \/ Restart
        PROVE  UNCHANGED <<book, unborn>>
    BY <1>9 DEF Notify, SaveContacts, Connect, Resync, Disconnect, failPendingContacts,
       Restart, phoneVars
  <1> QED BY <1>1, <1>2, <1>4, <1>5, <1>6, <1>7, <1>8, <1>9 DEF Next

\* No step brings a deleted contact back.
LEMMA NextDead == TypeInv /\ ReqInv /\ DeadInv /\ Next => DeadInv'
  <1> SUFFICES ASSUME TypeInv, ReqInv, DeadInv, Next PROVE DeadInv'
    OBVIOUS
  <1>0. \A k \in Calls : call[k].kind = "delete" => call[k].cursor \in Ids
    BY DEF TypeInv, CallsOK, CallOK
  <1>1. ASSUME NEW m \in net, NEW k \in Calls, call[k].pending, m.req = call[k].req,
               m.type = "delete", m.ok, NEW c, c = call[k].cursor
        PROVE  Dead(c)'
    <2>1. call[k].kind = "delete"
      BY <1>1 DEF ReqInv, CallReq, Fits
    <2>2. Dead(call[k].cursor) /\ c \in Ids
      BY <1>0, <1>1, <2>1 DEF DeadInv
    <2> QED BY <1>1, <2>2, StaysDead
  <1>2. ASSUME NEW k \in Calls, call[k].kind = "delete", call[k].ch # None, call[k].ch.ok,
               NEW c, c = call[k].cursor
        PROVE  Dead(c)'
    <2>1. Dead(call[k].cursor) /\ c \in Ids
      BY <1>0, <1>2 DEF DeadInv
    <2> QED BY <1>2, <2>1, StaysDead
  <1>3. ASSUME NEW m \in net', NEW k \in Calls, call'[k].pending, m.req = call'[k].req,
               m.type = "delete", m.ok
        PROVE  Dead(call[k].cursor)'
    <2>1. /\ call[k].pending /\ call'[k].cursor = call[k].cursor /\ call'[k].req = call[k].req
          /\ m \in net \/ Dead(call[k].cursor)'
      BY <1>3, AnswerComes DEF Same
    <2>2. CASE m \in net
      <3> DEFINE c == call[k].cursor
      <3>1. PICK d : d = c
        OBVIOUS
      <3>2. Dead(d)'
        BY <1>1, <1>3, <2>1, <2>2, <3>1
      <3> QED BY <2>1, <3>1, <3>2 DEF Dead
    <2> QED BY <2>1, <2>2
  <1>4. ASSUME NEW k \in Calls, call'[k].kind = "delete", call'[k].ch # None, call'[k].ch.ok
        PROVE  Dead(call[k].cursor)'
    <2>1. \/ /\ call'[k].kind = call[k].kind /\ call'[k].ch = call[k].ch
             /\ call'[k].cursor = call[k].cursor
          \/ /\ call'[k].kind = call[k].kind /\ call'[k].cursor = call[k].cursor /\ call[k].pending
             /\ \E m \in net : /\ m.type = call[k].kind /\ m.req = call[k].req
                               /\ call'[k].ch.ok = m.ok
      <3>1. CASE QuietStep
        BY <1>4, <3>1 DEF QuietStep, Rest, Same
      <3>2. CASE UNCHANGED call
        BY <3>2
      <3>3. ASSUME NEW l \in Calls, RegisterStep(l) PROVE l # k /\ call'[k] = call[k]
        BY <1>4, <3>3 DEF RegisterStep
      <3>4. ASSUME NEW l \in Calls, SendStep(l)
            PROVE  /\ call'[k].kind = call[k].kind /\ call'[k].ch = call[k].ch
                   /\ call'[k].cursor = call[k].cursor
        BY <3>4 DEF SendStep, Same
      <3>5. ASSUME NEW a \in asks, AnswerStep(a) PROVE UNCHANGED call
        BY <3>5 DEF AnswerStep
      <3> QED BY <3>1, <3>2, <3>3, <3>4, <3>5, NextKinds
    <2>2. PICK c : c = call[k].cursor
      OBVIOUS
    <2>3. Dead(c)'
      BY <1>1, <1>2, <1>4, <2>1, <2>2
    <2>4. call'[k].cursor = c
      BY <2>1, <2>2
    <2> QED BY <2>3, <2>4 DEF Dead
  <1>5. ASSUME NEW c \in deleted' PROVE Dead(c)'
    <2>1. c \in deleted => Dead(c)'
      BY StaysDead DEF DeadInv, TypeInv, StoreOK
    <2>2. ASSUME NEW k \in Calls, DbDeleteContact(k) PROVE Dead(c)'
      <3>1. deleted' = deleted \cup {call[k].cursor} /\ call[k].pc = "dbdelete"
        BY <2>2 DEF DbDeleteContact
      <3>2. CallOK(call[k])
        BY DEF TypeInv, CallsOK
      <3>3. c = call[k].cursor => Dead(c)'
        BY <1>2, <3>1, <3>2 DEF CallOK
      <3>4. c \in deleted \/ c = call[k].cursor
        BY <3>1
      <3> QED BY <2>1, <3>3, <3>4
    <2>3. ASSUME NEW w \in saves, SaveContacts(w) PROVE deleted' = deleted
      BY <2>3 DEF SaveContacts
    <2> QED BY <2>1, <2>2, <2>3, StoreSteps
  <1> QED BY <1>3, <1>4, <1>5 DEF DeadInv, Dead

\* The same of a stuttering step,
LEMMA StutterDead == DeadInv /\ UNCHANGED vars => DeadInv'
  BY DEF vars, phoneVars, history, DeadInv, Dead

\* and of the start.
LEMMA InitDead == Init => DeadInv
  <1>1. Init => net = {} /\ deleted = {} /\ call = [k \in Calls |-> Idle]
    BY Zenon DEF Init
  <1> QED BY <1>1 DEF DeadInv, Idle

\* The Mac takes a row for deleted, out of the directory and out of the database,
\* only when the phone has deleted the contact: no answer that comes late or
\* twice, of another request or in a socket's last moments, passes for it
\* (ingestContactsBody finds the waiter by the request's id).
THEOREM DeletionsAreTrue == Spec => []DeletedOnPhone
  <1>1. Init => TypeInv /\ ReqInv /\ DeadInv
    BY InitType, InitReq, InitDead
  <1>2. TypeInv /\ ReqInv /\ DeadInv /\ [Next]_vars => (TypeInv /\ ReqInv /\ DeadInv)'
    BY NextType, NextReq, NextDead, StutterDead
  <1>3. TypeInv /\ DeadInv => DeletedOnPhone
    <2> SUFFICES ASSUME TypeInv, DeadInv PROVE DeletedOnPhone
      OBVIOUS
    <2>1. ASSUME NEW k \in Calls, call[k].pc \in {"prune", "dbdelete"}
          PROVE  book[call[k].cursor] = 0
      <3>1. CallOK(call[k])
        BY DEF TypeInv, CallsOK
      <3> QED BY <2>1, <3>1 DEF CallOK, DeadInv, Dead
    <2> QED BY <2>1 DEF DeletedOnPhone, DeadInv, Dead
  <1> QED BY <1>1, <1>2, <1>3, PTL DEF Spec

(***************************************************************************)
(* A listing that was followed to its end is whole.                        *)
(***************************************************************************)

\* The contacts of the phone.
Present == {c \in Ids : book[c] > 0}

\* The cursor up to which a call has followed its listing.
Ahead(x) == IF x.pc = "more" \/ x.ch = None \/ ~x.ch.ok THEN x.cursor ELSE x.ch.next

\* A call is on its way through a listing.
OnTheWay(x) == x.pc \in {"request", "waiting", "more"} /\ x.all /\ Ahead(x) > 0

\* The contacts that the directory has or will not get.
Accounted == {c \in Ids : c \in IdsOf(cache) \/ PassedOver(c)}

\* Below what is in the directory nothing is left to come.
Gapless == \A d \in IdsOf(cache), c \in Present : c <= d => c \in Accounted

\* The directory is stale, cut short, empty, or without gaps and either whole or
\* about to be brought on by some call.
WholeInv ==
  \/ Stale \/ cut \/ cache = <<>>
  \/ Gapless /\ (Present \subseteq Accounted \/ \E k \in Calls : OnTheWay(call[k]))

\* A call on its way gets no further and does not give up.
Keeps(x, y) == OnTheWay(y) => OnTheWay(x) /\ Ahead(x) = Ahead(y)

\* ingestContactsBody adopts a page and its waiter gets it.
FollowsOn(m, k) ==
  /\ Adopts(m, k)
  /\ call' = Answered(k, m)
  /\ cut' = (call[k].cursor > 0 /\ (cut \/ call[k].cursor \notin IdsOf(cache)))

\* What the waiter's channel holds.
LEMMA ResultFields ==
    ASSUME NEW x \in CallStates, NEW ok \in BOOLEAN, NEW next \in Cursors
    PROVE  LET y == Result(x, ok, next) IN
           /\ y \in CallStates
           /\ y.pc = x.pc /\ y.all = x.all /\ y.cursor = x.cursor /\ y.kind = x.kind
           /\ y.ch = IF x.ch = None THEN [ok |-> ok, next |-> next] ELSE x.ch
  <1>1. [ok |-> ok, next |-> next] \in Replies
    BY DEF Replies
  <1>2. (IF x.ch = None THEN [ok |-> ok, next |-> next] ELSE x.ch) \in Replies \cup {None}
    BY <1>1 DEF CallStates
  <1> DEFINE z == IF x.ch = None THEN [ok |-> ok, next |-> next] ELSE x.ch
  <1>3. Result(x, ok, next) = [x EXCEPT !.ch = z]
    BY DEF Result
  <1> HIDE DEF z
  <1>4. [x EXCEPT !.ch = z] \in CallStates /\ [x EXCEPT !.ch = z].ch = z
        /\ [x EXCEPT !.ch = z].pc = x.pc /\ [x EXCEPT !.ch = z].all = x.all
        /\ [x EXCEPT !.ch = z].cursor = x.cursor /\ [x EXCEPT !.ch = z].kind = x.kind
    BY <1>2 DEF z, CallStates
  <1> QED BY <1>3, <1>4 DEF z

\* An error, or what is there already, gets no call any further.
LEMMA ErrorKeeps ==
    ASSUME NEW x \in CallStates, NEW ok \in BOOLEAN, NEW next \in Cursors, ~ok \/ x.ch # None
    PROVE  /\ Keeps(Result(x, ok, next), x)
           /\ Keeps([Result(x, ok, next) EXCEPT !.pending = FALSE], x)
  <1> DEFINE y == Result(x, ok, next)
             z == [y EXCEPT !.pending = FALSE]
  <1>1. /\ y \in CallStates
        /\ y.pc = x.pc /\ y.all = x.all /\ y.cursor = x.cursor
        /\ y.ch = IF x.ch = None THEN [ok |-> ok, next |-> next] ELSE x.ch
    BY ResultFields
  <1> HIDE DEF y
  <1>2. z.pc = y.pc /\ z.all = y.all /\ z.cursor = y.cursor /\ z.ch = y.ch
    BY <1>1 DEF CallStates
  <1> HIDE DEF z
  <1>3. [ok |-> ok, next |-> next].ok = ok
    OBVIOUS
  <1>4. Ahead(y) = Ahead(x)
    BY <1>1, <1>3 DEF Ahead
  <1>5. Ahead(z) = Ahead(y)
    BY <1>2 DEF Ahead
  <1>6. Keeps(y, x) /\ Keeps(z, x)
    BY <1>1, <1>2, <1>4, <1>5 DEF Keeps, OnTheWay
  <1> QED BY <1>6 DEF y, z

\* A call's own steps get it no further, unless they cut its listing short.
LEMMA CallKeeps ==
    ASSUME TypeInv, ws, NEW k \in Calls,
           \/ \E all \in BOOLEAN : ListContacts(k, all)
           \/ \E c \in Ids : DeleteContact(k, c)
           \/ FollowCursor(k) \/ StopFollowing(k) \/ SendRequest(k)
           \/ Wake(k) \/ Timeout(k) \/ Prune(k) \/ DbDeleteContact(k)
    PROVE  /\ cut => cut'
           /\ cut' \/ \A l \in Calls : Keeps(call'[l], call[l])
  <1> DEFINE x == call[k]
  <1>0. call \in [Calls -> CallStates] /\ x \in CallStates /\ CallOK(x) /\ cut \in BOOLEAN
    BY DEF TypeInv, CallsOK, StoreOK
  <1>1. \A y : Keeps(y, y)
    BY DEF Keeps
  <1>2. ASSUME NEW y, Keeps(y, x), call' = [call EXCEPT ![k] = y]
        PROVE  \A l \in Calls : Keeps(call'[l], call[l])
    BY <1>0, <1>1, <1>2
  <1>3. CASE (\E all \in BOOLEAN : ListContacts(k, all)) \/ \E c \in Ids : DeleteContact(k, c)
    <2>1. cut' = cut /\ x.pc = "idle" /\ \E y : call' = [call EXCEPT ![k] = y]
      BY <1>3 DEF ListContacts, DeleteContact, Register, history
    <2>2. \A y : Keeps(y, x)
      BY <2>1 DEF Keeps, OnTheWay
    <2> QED BY <1>2, <2>1, <2>2
  <1>4. CASE FollowCursor(k)
    <2> DEFINE y == [pc |-> "request", kind |-> "list", req |-> reqs + 1, cursor |-> x.cursor,
                     all |-> x.all, gen |-> gen, pending |-> TRUE, ch |-> None]
    <2>1. cut' = cut /\ x.pc = "more" /\ call' = [call EXCEPT ![k] = y]
      BY <1>4 DEF FollowCursor, Register, history
    <2>2. y.pc = "request" /\ y.cursor = x.cursor /\ y.all = x.all /\ y.ch = None
      OBVIOUS
    <2> HIDE DEF y
    <2>3. Ahead(y) = x.cursor /\ Ahead(x) = x.cursor
      BY <2>1, <2>2 DEF Ahead
    <2>4. Keeps(y, x)
      BY <2>2, <2>3 DEF Keeps, OnTheWay
    <2> QED BY <1>2, <2>1, <2>4
  <1>5. CASE StopFollowing(k)
    <2>1. call' = [call EXCEPT ![k] = Idle] /\ cut' = (cut \/ x.all)
      BY <1>5 DEF StopFollowing
    <2>2. ~x.all => Keeps(Idle, x)
      BY DEF Keeps, OnTheWay
    <2> QED BY <1>0, <1>2, <2>1, <2>2
  <1>6. CASE SendRequest(k)
    <2> DEFINE y == [x EXCEPT !.pc = "waiting"]
    <2>1. cut' = cut /\ x.pc = "request" /\ call' = [call EXCEPT ![k] = y]
      BY <1>6 DEF SendRequest
    <2>2. y.pc = "waiting" /\ y.cursor = x.cursor /\ y.all = x.all /\ y.ch = x.ch
      BY <1>0 DEF CallStates
    <2> HIDE DEF y
    <2>3. Ahead(y) = Ahead(x)
      BY <2>1, <2>2 DEF Ahead
    <2>4. Keeps(y, x)
      BY <2>2, <2>3 DEF Keeps, OnTheWay
    <2> QED BY <1>2, <2>1, <2>4
  <1>7. CASE Wake(k)
    <2>1. /\ x.pc = "waiting" /\ x.ch # None
          /\ call' = [call EXCEPT ![k] =
               CASE x.kind = "list" /\ x.ch.ok /\ x.ch.next > 0 ->
                      [Idle EXCEPT !.pc = "more", !.cursor = x.ch.next, !.all = x.all]
                 [] x.kind = "delete" /\ x.ch.ok -> [x EXCEPT !.pc = "prune"]
                 [] OTHER -> Idle]
          /\ cut' = (cut \/ (x.all /\ x.cursor > 0 /\ ~x.ch.ok))
      BY <1>7 DEF Wake
    <2>2. CASE ~OnTheWay(x)
      <3>1. \A y : Keeps(y, x)
        BY <2>2 DEF Keeps
      <3> QED BY <1>0, <1>2, <2>1, <3>1
    <2>3. CASE OnTheWay(x) /\ ~x.ch.ok
      BY <1>0, <2>1, <2>3 DEF OnTheWay, Ahead
    <2>4. CASE OnTheWay(x) /\ x.ch.ok
      <3>1. x.all /\ Ahead(x) = x.ch.next /\ x.ch.next > 0
        BY <2>1, <2>4 DEF OnTheWay, Ahead
      <3>2. x.kind = "list"
        BY <1>0, <3>1 DEF CallOK, CallStates, Kinds
      <3> DEFINE y == [Idle EXCEPT !.pc = "more", !.cursor = x.ch.next, !.all = x.all]
      <3>3. call' = [call EXCEPT ![k] = y] /\ cut' = cut
        BY <1>0, <2>1, <2>4, <3>1, <3>2
      <3>4. y.pc = "more" /\ y.cursor = x.ch.next /\ y.all = x.all
        BY DEF Idle
      <3> HIDE DEF y
      <3>5. Keeps(y, x)
        BY <3>1, <3>4 DEF Keeps, OnTheWay, Ahead
      <3> QED BY <1>2, <1>0, <3>3, <3>5
    <2> QED BY <2>2, <2>3, <2>4
  <1>8. CASE Timeout(k)
    <2>1. /\ x.ch = None /\ call' = [call EXCEPT ![k] = Idle]
          /\ cut' = (cut \/ (x.all /\ x.cursor > 0))
      BY <1>8 DEF Timeout
    <2>2. ~(x.all /\ x.cursor > 0) => Keeps(Idle, x)
      BY <2>1 DEF Keeps, OnTheWay, Ahead
    <2> QED BY <1>0, <1>2, <2>1, <2>2
  <1>9. CASE Prune(k) \/ DbDeleteContact(k)
    <2>1. cut' = cut /\ x.pc \in {"prune", "dbdelete"} /\ \E y : call' = [call EXCEPT ![k] = y]
      BY <1>9 DEF Prune, DbDeleteContact, history
    <2>2. \A y : Keeps(y, x)
      BY <2>1 DEF Keeps, OnTheWay
    <2> QED BY <1>2, <2>1, <2>2
  <1> QED BY <1>3, <1>4, <1>5, <1>6, <1>7, <1>8, <1>9

\* A step cuts a listing short, brings one on by a page, or gets none further
\* and none aside.
LEMMA ListingSteps ==
    ASSUME TypeInv, ReqInv, ~Stale, Next
    PROVE  \/ cut'
           \/ \E m \in net, k \in Calls : FollowsOn(m, k)
           \/ /\ cut => cut'
              /\ cache' = cache \/ cache' = <<>> \/ \E k \in Calls : Prune(k)
              /\ \A k \in Calls : Keeps(call'[k], call[k])
  <1>0. call \in [Calls -> CallStates] /\ ws
    BY DEF TypeInv, CallsOK, Stale, UpToDate
  <1>1. \A y : Keeps(y, y)
    BY DEF Keeps
  <1>2. ASSUME UNCHANGED call PROVE \A k \in Calls : Keeps(call'[k], call[k])
    BY <1>1, <1>2
  <1>3. CASE \/ \E c \in Ids : PhoneEdit(c) \/ PhoneRemove(c)
             \/ Notify
             \/ \E a \in asks : AnswerList(a) \/ AnswerDelete(a)
             \/ \E m \in net : \/ \E again \in BOOLEAN : ContactsChanged(m, again)
                               \/ Lose(m)
             \/ \E w \in saves : SaveContacts(w)
             \/ Connect \/ Resync \/ Disconnect
    <2>1. UNCHANGED <<call, cut>> /\ (cache' = cache \/ cache' = <<>>)
      BY <1>3 DEF PhoneEdit, PhoneRemove, Notify, AnswerList, AnswerDelete, ContactsChanged,
         Lose, SaveContacts, Connect, Resync, Disconnect, history
    <2> QED BY <1>2, <2>1
  <1>4. ASSUME NEW k \in Calls,
               \/ \E all \in BOOLEAN : ListContacts(k, all)
               \/ \E c \in Ids : DeleteContact(k, c)
               \/ FollowCursor(k) \/ StopFollowing(k) \/ SendRequest(k)
               \/ Wake(k) \/ Timeout(k) \/ Prune(k) \/ DbDeleteContact(k)
        PROVE  \/ cut'
               \/ /\ cut => cut'
                  /\ cache' = cache \/ Prune(k)
                  /\ \A l \in Calls : Keeps(call'[l], call[l])
    <2>1. cache' = cache \/ Prune(k)
      BY <1>4 DEF ListContacts, DeleteContact, FollowCursor, Register, StopFollowing,
         SendRequest, Wake, Timeout, DbDeleteContact
    <2> QED BY <1>0, <1>4, <2>1, CallKeeps
  <1>5. ASSUME NEW m \in net, NEW k \in Waiters(m.req), call' = Answered(k, m),
               ~m.ok \/ ~call[k].all
        PROVE  \A l \in Calls : Keeps(call'[l], call[l])
    <2>1. k \in Calls /\ m \in Messages /\ m.ok \in BOOLEAN /\ m.next \in Cursors
      BY DEF Waiters, TypeInv, WireOK, Messages
    <2>2. /\ call'[k] = Result(call[k], m.ok, m.next)
          /\ \A l \in Calls \ {k} : call'[l] = call[l]
      BY <1>5, <2>1, Answers
    <2>3. ~call[k].all => Keeps(Result(call[k], m.ok, m.next), call[k])
      BY DEF Keeps, OnTheWay
    <2>4. ~m.ok => Keeps(Result(call[k], m.ok, m.next), call[k])
      BY <1>0, <2>1, ErrorKeeps
    <2>5. Keeps(call'[k], call[k])
      BY <1>5, <2>2, <2>3, <2>4
    <2> QED BY <1>1, <2>2, <2>5
  <1>6. ASSUME NEW m \in net, NEW again \in BOOLEAN, DeleteResp(m, again)
        PROVE  /\ UNCHANGED <<cut, cache>>
               /\ \A l \in Calls : Keeps(call'[l], call[l])
    <2>1. UNCHANGED <<cut, cache>> /\ m.type = "delete"
      BY <1>6 DEF DeleteResp, history
    <2>2. ASSUME NEW k \in Waiters(m.req) PROVE ~call[k].all
      <3>1. k \in Calls /\ call[k].pending /\ call[k].req = m.req
        BY DEF Waiters
      <3>2. call[k].kind = "delete" /\ CallOK(call[k])
        BY <2>1, <3>1 DEF ReqInv, CallReq, Fits, TypeInv, CallsOK
      <3> QED BY <3>2 DEF CallOK
    <2>3. UNCHANGED call \/ \E k \in Waiters(m.req) : call' = Answered(k, m)
      BY <1>6 DEF DeleteResp
    <2> QED BY <1>2, <1>5, <2>1, <2>2, <2>3
  <1>7. ASSUME NEW m \in net, NEW again \in BOOLEAN, ListResp(m, again)
        PROVE  \/ cut'
               \/ \E k \in Calls : FollowsOn(m, k)
               \/ /\ UNCHANGED <<cut, cache>>
                  /\ \A l \in Calls : Keeps(call'[l], call[l])
    <2>1. m.type = "list"
      BY <1>7 DEF ListResp
    <2>2. CASE UNCHANGED <<call, cache, cut>>
      BY <1>2, <2>2
    <2>3. ASSUME NEW k \in Waiters(m.req), NEW beaten \in {FALSE, owed}, Welcome(k, m),
                 call' = IF beaten THEN call ELSE Answered(k, m),
                 IF m.ok /\ call[k].all
                 THEN /\ AdoptPage(k, m)
                      /\ cut' = (\/ beaten
                                 \/ /\ call[k].cursor > 0
                                    /\ (cut \/ call[k].cursor \notin IdsOf(cache)))
                 ELSE UNCHANGED <<cache, saves, cut>>
          PROVE  \/ cut'
                 \/ \E l \in Calls : FollowsOn(m, l)
                 \/ /\ UNCHANGED <<cut, cache>>
                    /\ \A l \in Calls : Keeps(call'[l], call[l])
      <3>1. k \in Calls /\ call[k].pending /\ call[k].req = m.req
        BY DEF Waiters
      <3>2. CASE m.ok /\ call[k].all
        <4>1. Adopts(m, k)
          BY <2>1, <2>3, <3>1, <3>2 DEF Adopts, Welcome
        <4>2. beaten \in BOOLEAN
          BY DEF TypeInv, LinkOK
        <4> QED BY <2>3, <3>1, <3>2, <4>1, <4>2 DEF FollowsOn
      <3>3. CASE ~(m.ok /\ call[k].all)
        BY <1>2, <1>5, <2>3, <3>3
      <3> QED BY <3>2, <3>3
    <2> QED BY <1>7, <2>2, <2>3 DEF ListResp
  <1>8. CASE failPendingContacts
    <2>1. UNCHANGED <<cut, cache>>
      BY <1>8 DEF failPendingContacts, history
    <2>2. ASSUME NEW k \in Calls PROVE Keeps(call'[k], call[k])
      <3>1. call'[k] = call[k] \/ call'[k] = [Result(call[k], FALSE, 0) EXCEPT !.pending = FALSE]
        BY <1>8 DEF failPendingContacts, Result
      <3>2. Keeps([Result(call[k], FALSE, 0) EXCEPT !.pending = FALSE], call[k])
        BY <1>0, ErrorKeeps DEF Cursors
      <3> QED BY <1>1, <3>1, <3>2
    <2> QED BY <2>1, <2>2
  <1>9. CASE Restart
    BY <1>9 DEF Restart
  <1> QED BY <1>3, <1>4, <1>6, <1>7, <1>8, <1>9 DEF Next

\* A deletion takes no row that is current.
LEMMA PruneTakesNone ==
    ASSUME TypeInv, Current(cache), DeadInv, NEW k \in Calls, Prune(k)
    PROVE  RowsOf(cache') = RowsOf(cache)
  <1>1. call[k].pc = "prune" /\ CallOK(call[k])
    BY DEF Prune, TypeInv, CallsOK
  <1>2. book[call[k].cursor] = 0
    BY <1>1 DEF CallOK, DeadInv, Dead
  <1>3. cache \in Seq(Rows)
    BY DEF TypeInv, StoreOK
  <1>4. ASSUME NEW r \in RowsOf(cache) PROVE r.id # call[k].cursor
    <2>1. r \in Rows /\ book[r.id] = r.ver
      BY <1>3 DEF RowsOf, Current
    <2> QED BY <1>2, <2>1 DEF Rows
  <1> QED BY <1>4, PruneRows

\* Of the contacts up to its next cursor, a page asked for with a cursor in the
\* directory leaves only those that are before the cursor or passed over.
LEMMA PageAccounts ==
    ASSUME TypeInv, NEW x \in Cursors, NEW S, NEW c \in Ids, book[c] > 0,
           x = 0 \/ x \in S, NextOf(book, x) = 0 \/ c <= NextOf(book, x)
    PROVE  \/ c \in IdsOf(Page(book, x))
           \/ x \in S /\ c <= x
           \/ \E d \in S : d < c /\ Fold[d] = Fold[c] /\ Name[d] # Name[c]
  <1>1. book \in [Ids -> Nat] /\ x \in Nat /\ c \in Nat
    BY Constants DEF TypeInv, PhoneOK, Cursors
  <1>2. Beyond(c, x) => c \in IdsOf(Page(book, x))
    BY <1>1, PageRows
  <1>3. CASE x = 0 \/ c <= x
    BY <1>2, <1>3, Constants DEF Beyond
  <1>4. CASE x # 0 /\ x < c /\ ~Beyond(c, x)
    <2>1. x \in Ids /\ x \in S /\ ~(Fold[c] > Fold[x]) /\ Name[c] # Name[x]
      BY <1>4 DEF Cursors, Beyond
    <2>2. Fold[x] <= Fold[c] /\ Fold[x] \in Nat /\ Fold[c] \in Nat
      BY <1>1, <1>4, <2>1, NamesAssumption
    <2>3. Fold[x] = Fold[c]
      BY <2>1, <2>2
    <2> QED BY <1>4, <2>1, <2>3
  <1> QED BY <1>1, <1>2, <1>3, <1>4

\* A page brings the directory on, or makes it whole.
LEMMA PageFollows ==
    ASSUME TypeInv, TypeInv', ReqInv, FreshInv, WholeInv, ~Stale, book' = book, ~cut',
           NEW m \in net, NEW k \in Calls, FollowsOn(m, k)
    PROVE  Gapless' /\ ((Present \subseteq Accounted)' \/ \E l \in Calls : OnTheWay(call[l])')
  <1> DEFINE x == call[k]
             next == NextOf(book, x.cursor)
             page == IdsOf(m.rows)
  <1>0. /\ book \in [Ids -> Nat] /\ x \in CallStates /\ CallOK(x)
        /\ x.cursor \in Nat /\ x.cursor \in Cursors
        /\ cache \in Seq(Rows) /\ m \in Messages
    BY Constants DEF TypeInv, PhoneOK, CallsOK, StoreOK, WireOK, CallStates, Cursors
  <1>1. /\ m.type = "list" /\ m.ok /\ x.pending /\ m.req = x.req /\ x.gen = gen /\ x.all
        /\ AdoptPage(k, m)
        /\ call' = Answered(k, m)
        /\ cut' = (x.cursor > 0 /\ (cut \/ x.cursor \notin IdsOf(cache)))
    BY DEF FollowsOn, Adopts
  <1>2. m.rows = Page(book, x.cursor) /\ m.next = next
    BY <1>1 DEF FreshInv
  <1>3. /\ m.rows \in Seq(Rows) /\ next \in {0} \cup Ids
        /\ \A b \in page : next = 0 \/ b <= next
    BY <1>0, <1>2, PageRows
  <1>4. x.pc = "waiting" /\ (x.ch # None => x.ch.ok /\ x.ch.next = next)
    <2>1. Fits(x, asks, net, reqs, gen)
      BY DEF ReqInv, CallReq
    <2>2. x.pc # "request" /\ (x.ch # None => x.ch.ok = m.ok /\ x.ch.next = m.next)
      BY <1>1, <2>1 DEF Fits
    <2>3. x.pc \notin {"idle", "more", "prune", "dbdelete"}
      BY <1>0, <1>1 DEF CallOK
    <2>4. x.pc = "waiting"
      BY <1>0, <2>2, <2>3 DEF CallStates
    <2> QED BY <1>1, <1>2, <2>2, <2>4
  <1>5. next \in Nat /\ Present \subseteq Ids /\ Ids \subseteq Nat \ {0} /\ Present' = Present
    BY <1>3, Constants DEF Present
  <1>6. next # 0 => OnTheWay(call'[k])
    <2>1. call'[k] = Result(x, m.ok, m.next)
      BY <1>0, <1>1, Answers
    <2> DEFINE y == Result(x, m.ok, m.next)
    <2>2. /\ y.pc = x.pc /\ y.all = x.all
          /\ y.ch = IF x.ch = None THEN [ok |-> m.ok, next |-> m.next] ELSE x.ch
      BY <1>0, ResultFields DEF Messages
    <2>3. [ok |-> m.ok, next |-> m.next].ok /\ [ok |-> m.ok, next |-> m.next].next = next
          /\ [ok |-> m.ok, next |-> m.next] # None
      <3>1. [ok |-> m.ok, next |-> m.next] \in Replies
        BY <1>0 DEF Messages, Replies
      <3> QED BY <1>1, <1>2, <3>1, Constants
    <2> HIDE DEF y, next, x
    <2>4. y.pc = "waiting" /\ y.all /\ y.ch # None /\ y.ch.ok /\ y.ch.next = next
      BY <1>1, <1>4, <2>2, <2>3
    <2>5. next # 0 => OnTheWay(y)
      BY <1>5, <2>4 DEF OnTheWay, Ahead
    <2> QED BY <2>1, <2>5 DEF y, x
  <1>7. /\ page \subseteq IdsOf(cache')
        /\ x.cursor = 0 \/ x.cursor \in IdsOf(cache')
        /\ \A d \in IdsOf(cache') :
             \/ d \in page
             \/ x.cursor # 0 /\ d \in IdsOf(cache)
        /\ x.cursor # 0 => Gapless /\ x.cursor \in IdsOf(cache) /\ IdsOf(cache) \subseteq IdsOf(cache')
    <2>1. CASE x.cursor = 0
      <3>1. cache' = m.rows
        BY <1>1, <2>1 DEF AdoptPage
      <3> QED BY <2>1, <3>1
    <2>2. CASE x.cursor # 0
      <3>1. ~cut /\ x.cursor \in IdsOf(cache)
        <4>1. x.cursor > 0
          BY <1>0, <2>2
        <4>2. ~(cut \/ x.cursor \notin IdsOf(cache))
          BY <1>1, <4>1, Zenon
        <4> QED BY <4>2, Zenon
      <3>2. cache # <<>>
        BY <3>1 DEF IdsOf, RowsOf
      <3>3. Gapless
        BY <3>1, <3>2 DEF WholeInv
      <3>4. cache' = mergeContactEntries(cache, m.rows)
        BY <1>1, <2>2 DEF AdoptPage
      <3>5. IdsOf(cache') = IdsOf(cache) \cup page
        BY <1>0, <1>3, <3>4, MergedRows
      <3> HIDE DEF page
      <3> QED BY <2>2, <3>1, <3>3, <3>5
    <2> QED BY <2>1, <2>2
  <1> HIDE DEF page
  <1>8. ASSUME NEW c \in Present, next = 0 \/ c <= next
        PROVE  c \in Accounted'
    <2>1. c \in Ids /\ book[c] > 0
      BY DEF Present
    <2>2. \/ c \in page
          \/ x.cursor \in IdsOf(cache') /\ c <= x.cursor
          \/ \E d \in IdsOf(cache') : d < c /\ Fold[d] = Fold[c] /\ Name[d] # Name[c]
      BY <1>0, <1>2, <1>7, <1>8, <2>1, PageAccounts DEF page
    <2>3. ASSUME c <= x.cursor, c \notin page PROVE c \in Accounted'
      <3>1. x.cursor # 0
        BY <1>5, <2>1, <2>3
      <3>2. c \in Accounted
        BY <1>7, <2>3, <3>1 DEF Gapless
      <3> QED BY <1>7, <3>1, <3>2 DEF Accounted, PassedOver
    <2> QED BY <1>7, <2>1, <2>2, <2>3 DEF Accounted, PassedOver
  <1>9. Gapless'
    <2> SUFFICES ASSUME NEW d \in IdsOf(cache'), NEW c \in Present, c <= d
                 PROVE  c \in Accounted'
      BY <1>5 DEF Gapless
    <2>0. c \in Nat /\ d \in Nat
      <3>1. cache' \in Seq(Rows)
        BY DEF TypeInv, StoreOK
      <3>2. PICK i \in 1 .. Len(cache') : d = cache'[i].id
        BY DEF IdsOf, RowsOf
      <3>3. cache'[i] \in Rows
        BY <3>1
      <3>4. d \in Ids
        BY <3>2, <3>3 DEF Rows
      <3> QED BY <1>5, <3>4
    <2>1. CASE d \in page
      <3>1. next = 0 \/ d <= next
        BY <1>3, <2>1 DEF page
      <3>2. next = 0 \/ c <= next
        <4> HIDE DEF next
        <4> QED BY <1>5, <2>0, <3>1
      <3> QED BY <1>8, <3>2
    <2>2. CASE x.cursor # 0 /\ d \in IdsOf(cache)
      <3>1. c \in Accounted
        BY <1>7, <2>2 DEF Gapless
      <3> QED BY <1>7, <2>2, <3>1 DEF Accounted, PassedOver
    <2> QED BY <1>7, <2>1, <2>2
  <1>10. next = 0 => (Present \subseteq Accounted)'
    BY <1>5, <1>8
  <1> QED BY <1>6, <1>9, <1>10

\* No step leaves a gap in a listing that is not cut.
LEMMA NextWhole ==
    TypeInv /\ TypeInv' /\ ReqInv /\ FreshInv /\ DeadInv /\ WholeInv /\ Next => WholeInv'
  <1> DEFINE Good == Gapless /\ (Present \subseteq Accounted \/ \E k \in Calls : OnTheWay(call[k]))
  <1> SUFFICES ASSUME TypeInv, TypeInv', ReqInv, FreshInv, DeadInv, WholeInv, Next,
                      ~Stale', ~cut', cache' # <<>>
               PROVE  Good'
    BY DEF WholeInv
  <1>1. ~Stale /\ book' = book /\ Present' = Present
    BY HeardSteps DEF Present
  <1>2. ASSUME NEW m \in net, NEW k \in Calls, FollowsOn(m, k)
        PROVE  Good'
    BY <1>1, <1>2, PageFollows
  <1>3. ASSUME cut => cut',
               cache' = cache \/ cache' = <<>> \/ \E k \in Calls : Prune(k),
               \A k \in Calls : Keeps(call'[k], call[k])
        PROVE  Good'
    <2>1. RowsOf(cache') = RowsOf(cache) /\ cache # <<>>
      <3>1. CASE cache' = cache
        BY <3>1
      <3>2. ASSUME NEW k \in Calls, Prune(k)
            PROVE  RowsOf(cache') = RowsOf(cache) /\ cache # <<>>
        <4>1. Current(cache)
          BY <1>1 DEF FreshInv
        <4>2. RowsOf(cache') = RowsOf(cache)
          BY <3>2, <4>1, PruneTakesNone
        <4>3. cache' \in Seq(Rows)
          BY DEF TypeInv, StoreOK
        <4>4. RowsOf(cache') # {}
          BY <4>3 DEF RowsOf
        <4>5. cache = <<>> => RowsOf(cache) = {}
          BY DEF RowsOf
        <4> QED BY <4>2, <4>4, <4>5
      <3> QED BY <1>3, <3>1, <3>2
    <2>2. IdsOf(cache') = IdsOf(cache)
      BY <2>1 DEF IdsOf
    <2>3. Accounted' = Accounted
      BY <2>2 DEF Accounted, PassedOver
    <2>4. Good
      BY <1>1, <1>3, <2>1 DEF WholeInv
    <2>5. Gapless'
      BY <1>1, <2>2, <2>3, <2>4 DEF Gapless
    <2>6. ASSUME NEW k \in Calls, OnTheWay(call[k]) PROVE OnTheWay(call[k])'
      <3>1. OnTheWay(call'[k])
        BY <1>3, <2>6 DEF Keeps
      <3> QED BY <3>1 DEF OnTheWay, Ahead
    <2> QED BY <1>1, <2>3, <2>4, <2>5, <2>6
  <1> QED BY <1>1, <1>2, <1>3, ListingSteps

\* Nor does a stuttering one.
LEMMA StutterWhole == WholeInv /\ UNCHANGED vars => WholeInv'
  <1> SUFFICES ASSUME WholeInv, UNCHANGED vars PROVE WholeInv'
    OBVIOUS
  <1>1. UNCHANGED <<cache, book, cut>> /\ UNCHANGED call /\ Stale' = Stale
    BY DEF vars, phoneVars, linkVars, history, Stale, UpToDate, Notice
  <1>2. Present' = Present /\ Accounted' = Accounted
    BY <1>1 DEF Present, Accounted, PassedOver
  <1> QED BY <1>1, <1>2 DEF WholeInv, Gapless, OnTheWay, Ahead

\* Once the Mac is up to date, a directory whose listing was followed to its end
\* has every contact but those that the boundary between two pages passes over
\* (queryContacts), whatever changes, late and repeated pages, deletions and
\* overlapping listings came before.
THEOREM DirectoryIsWhole == Spec => []CacheIsWhole
  <1>1. Init => TypeInv /\ ReqInv /\ FreshInv /\ DeadInv /\ WholeInv
    <2>1. Init => cache = <<>>
      BY Zenon DEF Init
    <2>2. Init => WholeInv
      BY <2>1 DEF WholeInv
    <2> QED BY <2>2, InitType, InitReq, InitFresh, InitDead
  <1>2. TypeInv /\ ReqInv /\ FreshInv /\ DeadInv /\ WholeInv /\ [Next]_vars
          => (TypeInv /\ ReqInv /\ FreshInv /\ DeadInv /\ WholeInv)'
    BY NextType, NextReq, NextFresh, StutterFresh, NextDead, StutterDead, NextWhole, StutterWhole
  <1>3. WholeInv => CacheIsWhole
    <2> SUFFICES ASSUME WholeInv, UpToDate, cache # <<>>, ~cut,
                        \A k \in Calls : call[k].pc = "idle" \/ ~call[k].all,
                        NEW c \in Ids, book[c] > 0
                 PROVE  c \in IdsOf(cache) \/ PassedOver(c)
      BY DEF CacheIsWhole
    <2>1. \A k \in Calls : ~OnTheWay(call[k])
      BY DEF OnTheWay
    <2>2. c \in Present /\ Present \subseteq Accounted
      BY <2>1 DEF WholeInv, Stale, Present
    <2> QED BY <2>2 DEF Accounted
  <1> QED BY <1>1, <1>2, <1>3, PTL DEF Spec

=============================================================================

------------------------- MODULE LibraryIndexProofs -------------------------
(***************************************************************************)
(* Proofs about LibraryIndex, for any books, limits and batch sizes. Each  *)
(* operation on the index file keeps it well formed, with one record per   *)
(* book and different numbers; LibraryIInv is inductive; and every step is *)
(* one of Catalogue, or none.                                              *)
(***************************************************************************)
EXTENDS LibraryIndex, TLAPS, FiniteSetTheorems, WellFoundedInduction

USE LibraryAssumption

(* The three invariants of the file, of a value of it. *)
WellFormed(x) == x \in Indexes /\ Len(x.recs) <= MaxBooks /\ Len(x.recs) <= x.count
Single(x) == \A i, j \in Live(x) : x.recs[i].book = x.recs[j].book => i = j
Numbered(x) ==
    \A i, j \in Live(x) : x.recs[i].seq < x.seq /\ (x.recs[i].seq = x.recs[j].seq => i = j)

(* The first of some slots is one of them. *)
LEMMA FirstIn ==
    ASSUME NEW n \in Nat, NEW S \in SUBSET (1..n), S # {} PROVE First(S) \in S
<1> DEFINE T == {1..i : i \in S}
<1>1. IsFiniteSet(1..n)
  BY FS_Interval
<1>2. IsWellFoundedOn(StrictSubsetOrdering(1..n), SUBSET (1..n))
  BY <1>1, FS_StrictSubsetOrderingWellFounded, FS_FiniteSubsetsOfFinite
<1>3. T \subseteq SUBSET (1..n) /\ T # {}
  <2>1. \A i \in S : 1..i \subseteq 1..n
    OBVIOUS
  <2>2. PICK i \in S : TRUE
    OBVIOUS
  <2>3. 1..i \in T
    BY <2>2
  <2> QED
    BY <2>1, <2>3
<1>4. PICK t \in T : \A u \in T : <<u, t>> \notin StrictSubsetOrdering(1..n)
  BY <1>2, <1>3, WFMin
<1>5. PICK i \in S : t = 1..i
  BY <1>4
<1>6. ASSUME NEW j \in S PROVE i <= j
  <2>1. 1..j \in T /\ <<1..j, t>> \notin StrictSubsetOrdering(1..n)
    BY <1>4
  <2>2. SUFFICES ASSUME j < i PROVE FALSE
    OBVIOUS
  <2>3. 1..j \subseteq t /\ 1..j # t
    <3>1. i \in t /\ i \notin 1..j
      BY <1>5, <2>2
    <3> QED
      BY <1>5, <2>2, <3>1
  <2>4. <<1..j, t>> \in (SUBSET (1..n)) \X (SUBSET (1..n))
    BY <1>3, <1>4
  <2> QED
    BY <2>1, <2>3, <2>4 DEF StrictSubsetOrdering
<1> QED
  BY <1>6 DEF First

(* The slots 1..n. *)
LEMMA Interval == ASSUME NEW n \in Nat PROVE IsFiniteSet(1..n) /\ Cardinality(1..n) = n
  BY FS_Interval

(* The slots of a well-formed index. *)
LEMMA Slots ==
    ASSUME NEW x, WellFormed(x)
    PROVE  /\ Seen(x) = 1..Len(x.recs) /\ Len(x.recs) \in Nat
           /\ \A i \in Seen(x) : x.recs[i] \in Records
           /\ Live(x) \subseteq Seen(x) /\ Free(x) \subseteq Seen(x)
           /\ x.count \in Nat /\ x.seq \in Nat
  BY DEF WellFormed, Indexes, Seen, Live, Free

(* No more books than live records. *)
LEMMA FewerBooks ==
    ASSUME NEW x, WellFormed(x)
    PROVE  /\ IsFiniteSet(Live(x)) /\ Cardinality(Live(x)) \in Nat
           /\ Cardinality(Listed(x)) \in Nat /\ Cardinality(Listed(x)) <= Cardinality(Live(x))
<1>1. IsFiniteSet(Live(x))
  <2>1. Live(x) \subseteq 1..Len(x.recs) /\ Len(x.recs) \in Nat
    BY Slots
  <2>2. IsFiniteSet(1..Len(x.recs))
    BY <2>1, Interval
  <2> QED
    BY <2>1, <2>2, FS_Subset
<1>2. [i \in Live(x) |-> x.recs[i].book] \in Surjection(Live(x), Listed(x))
  BY DEF Surjection, Listed
<1>3. IsFiniteSet(Listed(x)) /\ Cardinality(Listed(x)) <= Cardinality(Live(x))
  BY <1>1, <1>2, FS_Surjection
<1> QED
  BY <1>1, <1>3, FS_CardinalityType

(* The empty index. *)
LEMMA EmptyIndex == WellFormed(Empty) /\ Single(Empty) /\ Numbered(Empty) /\ Listed(Empty) = {}
<1>1. Live(Empty) = {}
  BY DEF Empty, Live, Seen
<1>2. WellFormed(Empty)
  BY DEF Empty, WellFormed, Indexes
<1> QED
  BY <1>1, <1>2 DEF Single, Numbered, Listed

(* Writing one slot of an index. *)
Written(x, k, r, s) == [count |-> x.count, seq |-> s, recs |-> [x.recs EXCEPT ![k] = r]]

LEMMA SlotWritten ==
    ASSUME NEW x, WellFormed(x), NEW k \in Seen(x), NEW r \in Records, NEW s \in Nat, NEW y,
           y = Written(x, k, r, s)
    PROVE  /\ WellFormed(y) /\ Seen(y) = Seen(x) /\ y.recs[k] = r
           /\ \A i \in Seen(x) \ {k} : y.recs[i] = x.recs[i]
           /\ r.dead => Live(y) = Live(x) \ {k}
           /\ ~r.dead => Live(y) = Live(x) \cup {k}
<1> USE DEF Written
<1>1. x.recs \in Seq(Records) /\ Seen(x) = 1..Len(x.recs)
  BY Slots DEF WellFormed, Indexes
<1>2. y.recs \in Seq(Records) /\ Len(y.recs) = Len(x.recs) /\ Seen(y) = Seen(x)
  BY <1>1 DEF Seen
<1>3. y.recs[k] = r /\ \A i \in Seen(x) \ {k} : y.recs[i] = x.recs[i]
  BY <1>1
<1>4. WellFormed(y)
  BY <1>2, Slots DEF WellFormed, Indexes
<1>5. /\ r.dead => Live(y) = Live(x) \ {k}
      /\ ~r.dead => Live(y) = Live(x) \cup {k}
  BY <1>1, <1>2, <1>3 DEF Live
<1> QED
  BY <1>2, <1>3, <1>4, <1>5

(* A tombstone used again: whether the header follows (s) or not. *)
ReusedAt(x, b, s) == [Reuse(x, b) EXCEPT !.seq = s]

LEMMA SlotReused ==
    ASSUME NEW x, WellFormed(x), NEW b \in Books, Free(x) # {}, ~Known(x, b), NEW s \in Nat, NEW y,
           y = ReusedAt(x, b, s)
    PROVE  /\ WellFormed(y) /\ Listed(y) = Listed(x) \cup {b}
           /\ Single(x) => Single(y)
           /\ s = x.seq + 1 /\ Numbered(x) => Numbered(y)
           /\ Cardinality(Listed(x)) < MaxBooks
           /\ y.count = x.count /\ Len(y.recs) = Len(x.recs)
<1> DEFINE k == First(Free(x))
           r == Record(x, b)
<1>1. k \in Free(x) /\ k \in Seen(x) /\ k \notin Live(x)
  BY FirstIn, Slots DEF Free
<1>2. r \in Records /\ r.book = b /\ r.seq = x.seq /\ ~r.dead
  BY Slots DEF Record, Records
<1>3. y = Written(x, k, r, s)
  BY DEF Written, ReusedAt, Reuse, WellFormed, Indexes
<1> HIDE DEF k, r
<1>4. /\ WellFormed(y) /\ Seen(y) = Seen(x) /\ y.recs[k] = r
      /\ \A i \in Seen(x) \ {k} : y.recs[i] = x.recs[i]
      /\ Live(y) = Live(x) \cup {k}
  <2>1. WellFormed(x) /\ k \in Seen(x) /\ r \in Records /\ s \in Nat /\ y = Written(x, k, r, s)
    BY <1>1, <1>2, <1>3
  <2> QED
    BY ONLY <1>2, <2>1, SlotWritten
<1>5. \A i \in Live(x) : i # k /\ y.recs[i] = x.recs[i] /\ x.recs[i].book # b
  BY <1>1, <1>4, Slots DEF Known, Of
<1>6. Listed(y) = Listed(x) \cup {b}
  BY <1>2, <1>4, <1>5 DEF Listed
<1>7. ASSUME Single(x) PROVE Single(y)
  BY <1>2, <1>4, <1>5, <1>7 DEF Single
<1>8. ASSUME s = x.seq + 1, Numbered(x) PROVE Numbered(y)
  <2>1. y.seq = x.seq + 1 /\ x.seq \in Nat
    BY <1>3, <1>8, Slots DEF Written
  <2>2. \A i \in Live(x) : y.recs[i].seq < x.seq /\ y.recs[i].seq \in Nat
    BY <1>5, <1>8, Slots DEF Numbered, Records
  <2>3. \A i, j \in Live(x) : y.recs[i].seq = y.recs[j].seq => i = j
    BY <1>5, <1>8 DEF Numbered
  <2> QED
    BY <1>2, <1>4, <2>1, <2>2, <2>3 DEF Numbered
<1>9. Cardinality(Listed(x)) < MaxBooks
  <2>1. IsFiniteSet(Seen(x)) /\ Cardinality(Seen(x)) = Len(x.recs)
    <3>1. Seen(x) = 1..Len(x.recs) /\ Len(x.recs) \in Nat
      BY Slots
    <3>2. IsFiniteSet(1..Len(x.recs)) /\ Cardinality(1..Len(x.recs)) = Len(x.recs)
      BY <3>1, Interval, Zenon
    <3> QED
      BY <3>1, <3>2
  <2>2. IsFiniteSet(Live(x)) /\ Cardinality(Live(x)) < Len(x.recs)
    BY <1>1, <2>1, Slots, FS_Subset, FS_CardinalityType
  <2> QED
    BY <2>2, FewerBooks, Slots DEF WellFormed
<1>10. y.count = x.count /\ Len(y.recs) = Len(x.recs)
  <2>1. Len(y.recs) \in Nat /\ Len(x.recs) \in Nat
        /\ 1..Len(y.recs) = 1..Len(x.recs)
    BY <1>4, Slots
  <2> QED
    BY <1>3, <2>1 DEF Written
<1> QED
  BY <1>4, <1>6, <1>7, <1>8, <1>9, <1>10

(* A record appended. *)
LEMMA CountedIs ==
    ASSUME NEW x, WellFormed(x), NEW y, y = Counted(x)
    PROVE  y = [count |-> x.count + 1, seq |-> x.seq + 1, recs |-> x.recs]
  BY DEF Counted, WellFormed, Indexes

LEMMA GrownIs ==
    ASSUME NEW x, WellFormed(x), NEW b, NEW y, y = Grown(x, b)
    PROVE  y = [count |-> x.count + 1, seq |-> x.seq + 1,
                recs |-> Append(x.recs, Record(x, b))]
<1>1. PICK z : z = Counted(x)
  OBVIOUS
<1>2. z = [count |-> x.count + 1, seq |-> x.seq + 1, recs |-> x.recs]
  BY <1>1, CountedIs
<1>3. y = [z EXCEPT !.recs = Append(@, Record(x, b))]
  BY <1>1 DEF Grown
<1> QED
  BY <1>2, <1>3

LEMMA RecordAppended ==
    ASSUME NEW x, WellFormed(x), NEW b \in Books, ~Known(x, b), Free(x) = {}, ~isLibraryFull(x)
    PROVE  LET y == Grown(x, b) IN
           /\ WellFormed(y) /\ Listed(y) = Listed(x) \cup {b}
           /\ Single(x) => Single(y)
           /\ Numbered(x) => Numbered(y)
           /\ Cardinality(Listed(x)) < MaxBooks
           /\ y.count = x.count + 1 /\ Len(y.recs) = Len(x.recs) + 1
<1> DEFINE y == Grown(x, b)
           n == Len(x.recs)
           r == Record(x, b)
<1>1. n \in Nat /\ x.recs \in Seq(Records) /\ Seen(x) = 1..n /\ x.count \in Nat /\ x.seq \in Nat
  BY Slots DEF WellFormed, Indexes
<1>2. Live(x) = 1..n
  BY <1>1 DEF Free, Live
<1>3. n < MaxBooks
  <2>1. Cardinality(1..n) = n
    BY <1>1, Interval, Zenon
  <2>2. Cardinality(Live(x)) \in Nat /\ ~(Cardinality(Live(x)) >= MaxBooks)
    BY FewerBooks DEF isLibraryFull
  <2> QED
    BY <1>1, <1>2, <2>1, <2>2
<1>4. r \in Records /\ r.book = b /\ r.seq = x.seq /\ ~r.dead
  BY <1>1 DEF Record, Records
<1>5. y = [count |-> x.count + 1, seq |-> x.seq + 1, recs |-> Append(x.recs, r)]
  BY GrownIs
<1>6. y.count = x.count + 1 /\ y.seq = x.seq + 1 /\ y.recs = Append(x.recs, r)
  BY <1>5
<1> HIDE DEF y, r
<1>7. /\ y.recs \in Seq(Records) /\ Len(y.recs) = n + 1 /\ y.recs[n + 1] = r
      /\ \A i \in 1..n : y.recs[i] = x.recs[i]
  BY <1>1, <1>4, <1>6
<1>8. WellFormed(y)
  <2>1. y \in Indexes
    BY <1>1, <1>5, <1>6, <1>7 DEF Indexes
  <2> QED
    BY <1>1, <1>3, <1>6, <1>7, <2>1 DEF WellFormed
<1>9. Live(y) = Live(x) \cup {n + 1}
  <2>1. Seen(y) = 1..(n + 1)
    BY <1>1, <1>7, <1>8, Slots
  <2>2. \A i \in 1..n : ~y.recs[i].dead
    BY <1>2, <1>7 DEF Live
  <2> QED
    BY <1>1, <1>2, <1>4, <1>7, <2>1, <2>2 DEF Live
<1>10. \A i \in Live(x) : i # n + 1 /\ y.recs[i] = x.recs[i] /\ x.recs[i].book # b
  BY <1>1, <1>2, <1>7 DEF Known, Of
<1>11. Listed(y) = Listed(x) \cup {b}
  BY <1>4, <1>7, <1>9, <1>10 DEF Listed
<1>12. ASSUME Single(x) PROVE Single(y)
  BY <1>4, <1>7, <1>9, <1>10, <1>12 DEF Single
<1>13. ASSUME Numbered(x) PROVE Numbered(y)
  <2>1. \A i \in Live(x) : y.recs[i].seq < x.seq /\ y.recs[i].seq \in Nat
    BY <1>10, <1>13, Slots DEF Numbered, Records
  <2>2. \A i, j \in Live(x) : y.recs[i].seq = y.recs[j].seq => i = j
    BY <1>10, <1>13 DEF Numbered
  <2>3. y.recs[n + 1].seq = x.seq /\ n + 1 \notin Live(x)
    BY <1>1, <1>2, <1>4, <1>7
  <2>4. \A i \in Live(y) : y.recs[i].seq < y.seq
    <3> SUFFICES ASSUME NEW i \in Live(y) PROVE y.recs[i].seq < x.seq + 1
      BY <1>6
    <3>1. CASE i = n + 1
      BY <1>1, <2>3, <3>1
    <3>2. CASE i \in Live(x)
      BY <1>1, <2>1, <3>2
    <3> QED
      BY <1>9, <3>1, <3>2
  <2>5. \A i \in Live(x) : y.recs[i].seq # y.recs[n + 1].seq
    BY <1>1, <2>1, <2>3
  <2> QED
    BY <1>9, <2>2, <2>4, <2>5 DEF Numbered
<1>14. Cardinality(Listed(x)) < MaxBooks
  BY FewerBooks DEF isLibraryFull
<1> QED
  BY <1>6, <1>7, <1>8, <1>11, <1>12, <1>13, <1>14 DEF y

(* Writing a record, to the end. *)
LEMMA RecordStored ==
    ASSUME NEW x, WellFormed(x), NEW b \in Books
    PROVE  /\ WellFormed(Stored(x, b))
           /\ Single(x) => Single(Stored(x, b))
           /\ Numbered(x) => Numbered(Stored(x, b))
           /\ x.count = Len(x.recs) => Stored(x, b).count = Len(Stored(x, b).recs)
           /\ \/ Listed(Stored(x, b)) = Listed(x)
              \/ Listed(Stored(x, b)) = Listed(x) \cup {b} /\ Cardinality(Listed(x)) < MaxBooks
<1>1. CASE Stored(x, b) = x
  BY <1>1
<1>2. CASE ~Known(x, b) /\ Free(x) # {}
  <2>1. Stored(x, b) = ReusedAt(x, b, x.seq + 1)
    BY <1>2 DEF Stored, ReusedAt, Reused, Reuse, WellFormed, Indexes
  <2>2. x.seq + 1 \in Nat
    BY Slots
  <2> DEFINE y == Stored(x, b)
             s == x.seq + 1
  <2> HIDE DEF y, s
  <2>3. y = ReusedAt(x, b, s) /\ s \in Nat /\ s = x.seq + 1
    BY <2>1, <2>2 DEF y, s
  <2>4. /\ WellFormed(y) /\ Listed(y) = Listed(x) \cup {b}
        /\ Single(x) => Single(y)
        /\ Numbered(x) => Numbered(y)
        /\ Cardinality(Listed(x)) < MaxBooks
        /\ y.count = x.count /\ Len(y.recs) = Len(x.recs)
    BY ONLY WellFormed(x), b \in Books, <1>2, <2>3, SlotReused
  <2> QED
    BY <2>4 DEF y
<1>3. CASE ~Known(x, b) /\ Free(x) = {} /\ ~isLibraryFull(x)
  <2>1. Stored(x, b) = Grown(x, b)
    BY <1>3 DEF Stored
  <2> QED
    BY <1>3, <2>1, RecordAppended
<1> QED
  BY <1>1, <1>2, <1>3 DEF Stored

(* Writing a record, cut short. *)
LEMMA RecordCut ==
    ASSUME NEW x, WellFormed(x), NEW b \in Books
    PROVE  /\ WellFormed(Cut(x, b))
           /\ Single(x) => Single(Cut(x, b))
           /\ ~Tears(x, b) /\ Numbered(x) => Numbered(Cut(x, b))
           /\ \/ Listed(Cut(x, b)) = Listed(x)
              \/ Listed(Cut(x, b)) = Listed(x) \cup {b} /\ Cardinality(Listed(x)) < MaxBooks
<1>1. CASE Cut(x, b) = x
  BY <1>1
<1>2. CASE ~Known(x, b) /\ Free(x) # {}
  <2>1. Cut(x, b) = ReusedAt(x, b, x.seq)
    BY <1>2 DEF Cut, ReusedAt, Reuse, WellFormed, Indexes
  <2>2. x.seq \in Nat
    BY Slots
  <2> QED
    BY <1>2, <2>1, <2>2, SlotReused DEF Tears
<1>3. CASE Cut(x, b) = Counted(x)
  <2> DEFINE y == Cut(x, b)
  <2>1. y = [count |-> x.count + 1, seq |-> x.seq + 1, recs |-> x.recs]
    BY <1>3 DEF Counted, WellFormed, Indexes
  <2>2. y.count = x.count + 1 /\ y.seq = x.seq + 1 /\ y.recs = x.recs
    BY <2>1
  <2> HIDE DEF y
  <2>3. WellFormed(y)
    BY <2>1, <2>2, Slots DEF WellFormed, Indexes
  <2>4. Live(y) = Live(x)
    BY <2>2 DEF Live, Seen
  <2>5. Listed(y) = Listed(x) /\ (Single(x) => Single(y))
    BY <2>2, <2>4 DEF Listed, Single
  <2>6. ASSUME Numbered(x) PROVE Numbered(y)
    <3>1. \A i \in Live(x) : x.recs[i].seq \in Nat /\ x.recs[i].seq < x.seq /\ x.seq \in Nat
      BY <2>6, Slots DEF Numbered, Records
    <3> QED
      BY <2>2, <2>4, <2>6, <3>1 DEF Numbered
  <2> QED
    BY <2>3, <2>5, <2>6 DEF y
<1> QED
  BY <1>1, <1>2, <1>3 DEF Cut

(* Some records made tombstones, the others as they were. *)
Fewer(x, y) ==
    /\ y \in Indexes /\ y.count = x.count /\ y.seq = x.seq /\ Len(y.recs) = Len(x.recs)
    /\ \A i \in Live(y) : i \in Live(x) /\ y.recs[i] = x.recs[i]

LEMMA FewerKeeps ==
    ASSUME NEW x, WellFormed(x), NEW y, Fewer(x, y)
    PROVE  /\ WellFormed(y) /\ Listed(y) \subseteq Listed(x)
           /\ Single(x) => Single(y)
           /\ Numbered(x) => Numbered(y)
           /\ x.count = Len(x.recs) => y.count = Len(y.recs)
  BY DEF Fewer, WellFormed, Listed, Single, Numbered

LEMMA TombstonedFewer ==
    ASSUME NEW x, WellFormed(x), NEW b PROVE Fewer(x, Tombstoned(x, b))
<1>1. CASE Of(x, b) = {}
  BY <1>1 DEF Tombstoned, Fewer, WellFormed
<1>2. CASE Of(x, b) # {}
  <2> DEFINE k == First(Of(x, b))
             r == [x.recs[k] EXCEPT !.dead = TRUE]
             y == Tombstoned(x, b)
  <2>1. k \in Of(x, b) /\ k \in Seen(x)
    <3>1. Of(x, b) \subseteq Seen(x) /\ Seen(x) = 1..Len(x.recs) /\ Len(x.recs) \in Nat
      BY Slots DEF Of
    <3> QED
      BY <1>2, <3>1, FirstIn
  <2>2. r \in Records /\ r.dead /\ x.seq \in Nat
    BY <2>1, Slots DEF Records
  <2>3. y = Written(x, k, r, x.seq)
    BY <1>2 DEF Tombstoned, Written, WellFormed, Indexes
  <2>4. y.count = x.count /\ y.seq = x.seq
    BY <2>3 DEF Written
  <2> HIDE DEF k, r, y
  <2>5. /\ WellFormed(y) /\ Seen(y) = Seen(x)
        /\ \A i \in Seen(x) \ {k} : y.recs[i] = x.recs[i]
        /\ Live(y) = Live(x) \ {k}
    BY ONLY WellFormed(x), <2>1, <2>2, <2>3, SlotWritten
  <2>6. Len(y.recs) = Len(x.recs)
    BY <2>5, Slots
  <2> QED
    BY <2>4, <2>5, <2>6, Slots DEF Fewer, WellFormed, y
<1> QED
  BY <1>1, <1>2

LEMMA SweptFewer ==
    ASSUME NEW x, WellFormed(x), NEW n \in Nat PROVE Fewer(x, Swept(x, n))
<1> DEFINE y == Swept(x, n)
           g(i) == [x.recs[i] EXCEPT !.dead = @ \/ (i <= n /\ i \in Ghosts(x))]
<1>1. y = [count |-> x.count, seq |-> x.seq, recs |-> [i \in Seen(x) |-> g(i)]]
  <2>1. x.recs \in Seq(Records) /\ x = [count |-> x.count, seq |-> x.seq, recs |-> x.recs]
    BY DEF WellFormed, Indexes
  <2>2. y = [x EXCEPT !.recs = [i \in Seen(x) |-> g(i)]]
    BY DEF Swept
  <2> HIDE DEF g
  <2> QED
    BY <2>1, <2>2
<1>2. Seen(x) = 1..Len(x.recs) /\ Len(x.recs) \in Nat /\ \A i \in Seen(x) : x.recs[i] \in Records
  BY Slots
<1>3. \A i \in Seen(x) : /\ g(i) \in Records
                         /\ ~g(i).dead => ~x.recs[i].dead /\ g(i) = x.recs[i]
  BY <1>2 DEF Records
<1> HIDE DEF g
<1>4. y.recs = [i \in Seen(x) |-> g(i)] /\ y.count = x.count /\ y.seq = x.seq
  BY <1>1
<1>5. y.recs \in Seq(Records) /\ Len(y.recs) = Len(x.recs)
  BY <1>2, <1>3, <1>4
<1>6. y \in Indexes
  BY <1>1, <1>4, <1>5, Slots DEF Indexes
<1> HIDE DEF y
<1>7. \A i \in Live(y) : i \in Live(x) /\ y.recs[i] = x.recs[i]
  BY <1>3, <1>4 DEF Live, Seen
<1> QED
  BY <1>4, <1>5, <1>6, <1>7 DEF Fewer, y

-----------------------------------------------------------------------------
(* What every step does to the file, and to the list of Catalogue. *)
File(x, tearing, troubles) ==
    /\ WellFormed(x) /\ Single(x) /\ (~tearing => Numbered(x))
    /\ troubles = 0 => x.count = Len(x.recs)
Moves(x, y, troubles) ==
    \/ \E b \in Books : Cardinality(Listed(x)) < MaxBooks /\ Listed(y) = Listed(x) \cup {b}
    \/ Listed(y) \subseteq Listed(x)
    \/ troubles > 0 /\ \E b \in Books : Listed(y) \subseteq {b}
FileStep ==
    /\ File(index', torn', trouble') /\ Moves(index, index', trouble')
    /\ trouble' \in 0..MaxTrouble /\ trouble' >= trouble

LEMMA BaseFile ==
    ASSUME File(index, torn, trouble), trouble \in Nat
    PROVE  /\ File(Base(index), torn, trouble)
           /\ Base(index) = index \/ (Base(index) = Empty /\ Unfit(index) /\ trouble > 0)
<1>1. CASE Unfit(index)
  <2>1. Base(index) = Empty
    BY <1>1 DEF Base
  <2>2. trouble # 0
    BY <1>1 DEF Unfit, File, WellFormed, Indexes
  <2> QED
    BY <1>1, <2>1, <2>2, EmptyIndex DEF File
<1>2. CASE ~Unfit(index)
  BY <1>2 DEF Base
<1> QED
  BY <1>1, <1>2

LEMMA EmptyFile == ASSUME NEW w, NEW t PROVE File(Empty, w, t)
<1>1. Empty.count = 0 /\ Len(Empty.recs) = 0
  BY DEF Empty
<1> QED
  BY <1>1, EmptyIndex DEF File

(* What is listed after writing a record to an index, or to an empty one. *)
LEMMA StoredMoves ==
    ASSUME NEW x, WellFormed(x), NEW b \in Books, NEW t \in Nat,
           NEW y \in {x, Empty}, y = x \/ t > 0
    PROVE  Moves(x, Stored(y, b), t) /\ Moves(x, Cut(y, b), t)
<1>1. WellFormed(y)
  BY EmptyIndex
<1>2. CASE y = x
  BY <1>2, RecordStored, RecordCut DEF Moves
<1>3. CASE y = Empty /\ t > 0
  <2>1. Listed(Stored(y, b)) \subseteq {b} /\ Listed(Cut(y, b)) \subseteq {b}
    BY <1>1, <1>3, EmptyIndex, RecordStored, RecordCut
  <2> QED
    BY <1>3, <2>1 DEF Moves
<1> QED
  BY <1>2, <1>3

LEMMA StoredFile ==
    ASSUME NEW x, NEW w, NEW t, File(x, w, t), NEW b \in Books PROVE File(Stored(x, b), w, t)
  BY RecordStored DEF File

LEMMA ScrapesStep ==
    ASSUME TypeOK, File(index, torn, trouble), NEW b \in Paths, Scrapes(b)
    PROVE  /\ FileStep
           /\ origin' \in [Paths -> Books \cup {None}] /\ wiped' \in BOOLEAN /\ torn' = torn
           /\ ~wiped' => ~wiped /\ Listed(index) \subseteq Listed(index')
<1>1. trouble \in 0..MaxTrouble /\ trouble \in Nat /\ MaxTrouble \in Nat /\ WellFormed(index)
  BY DEF TypeOK, File
<1>2. CASE UNCHANGED <<index, origin, history>>
  BY <1>1, <1>2 DEF FileStep, Moves, TypeOK, history
<1>3. CASE b \in Books /\ origin' = [origin EXCEPT ![b] = b] /\ torn' = torn
  <2>1. origin' \in [Paths -> Books \cup {None}]
    BY <1>3 DEF TypeOK, Paths
  <2>2. CASE /\ index' = Stored(Base(index), b) /\ trouble' = trouble
             /\ wiped' = (wiped \/ Unfit(index))
    <3>1. /\ File(Base(index), torn, trouble) /\ Base(index) \in {index, Empty}
          /\ Base(index) = index \/ (Unfit(index) /\ trouble > 0)
      BY <1>1, BaseFile
    <3>2. Moves(index, index', trouble')
      BY <1>1, <1>3, <2>2, <3>1, StoredMoves
    <3>3. File(index', torn', trouble')
      BY <1>3, <2>2, <3>1, StoredFile
    <3>4. wiped' \in BOOLEAN
      BY <2>2 DEF TypeOK
    <3>5. ASSUME ~wiped' PROVE ~wiped /\ Listed(index) \subseteq Listed(index')
      <4>1. ~wiped /\ index' = Stored(index, b)
        BY <2>2, <3>1, <3>5
      <4> QED
        BY <1>1, <1>3, <4>1, RecordStored
    <3> QED
      BY <1>1, <1>3, <2>1, <2>2, <3>2, <3>3, <3>4, <3>5 DEF FileStep
  <2>3. CASE /\ trouble < MaxTrouble /\ trouble' = trouble + 1
             /\ index' = Stored(Empty, b) /\ wiped' = TRUE
    <3>1. trouble' \in 0..MaxTrouble /\ trouble' > 0 /\ trouble' >= trouble /\ trouble' \in Nat
      BY <1>1, <2>3
    <3>2. Moves(index, index', trouble')
      BY <1>1, <1>3, <2>3, <3>1, StoredMoves
    <3>3. File(index', torn', trouble')
      BY <1>3, <2>3, EmptyFile, StoredFile
    <3> QED
      BY <1>3, <2>1, <2>3, <3>1, <3>2, <3>3 DEF FileStep
  <2> QED
    BY <1>3, <2>2, <2>3, Zenon DEF Scrapes, Paths
<1> QED
  BY <1>2, <1>3 DEF Scrapes

LEMMA CutStep ==
    ASSUME TypeOK, File(index, torn, trouble), NEW b \in Paths, ScrapeCut(b)
    PROVE  FileStep /\ origin' \in [Paths -> Books \cup {None}] /\ torn' \in BOOLEAN
<1>1. /\ trouble \in 0..MaxTrouble /\ trouble \in Nat /\ MaxTrouble \in Nat /\ WellFormed(index)
      /\ b \in Books /\ trouble' = trouble + 1 /\ trouble < MaxTrouble
  BY DEF TypeOK, File, ScrapeCut
<1>2. trouble' \in 0..MaxTrouble /\ trouble' \in Nat /\ trouble' > 0 /\ trouble' >= trouble
  BY <1>1
<1>3. origin' \in [Paths -> Books \cup {None}]
  <2>1. origin' = [origin EXCEPT ![b] = None] \/ origin' = [origin EXCEPT ![b] = b]
    BY DEF ScrapeCut
  <2> QED
    BY <1>1, <2>1 DEF TypeOK, Paths
<1>4. CASE index' = index /\ torn' = torn
  BY <1>2, <1>3, <1>4 DEF FileStep, File, Moves, TypeOK
<1>5. ASSUME NEW x \in {Base(index), Empty}, index' = Cut(x, b), torn' = (torn \/ Tears(x, b))
      PROVE  FileStep /\ torn' \in BOOLEAN
  <2>1. /\ File(Base(index), torn, trouble)
        /\ Base(index) \in {index, Empty}
    BY <1>1, BaseFile
  <2>2. WellFormed(x) /\ Single(x) /\ (~torn => Numbered(x)) /\ x \in {index, Empty}
    BY <2>1, EmptyIndex DEF File
  <2>3. Moves(index, index', trouble')
    BY <1>1, <1>2, <1>5, <2>2, StoredMoves
  <2>4. File(index', torn', trouble')
    <3>1. WellFormed(index') /\ Single(index')
      BY <1>1, <1>5, <2>2, RecordCut
    <3>2. ASSUME ~torn' PROVE Numbered(index')
      BY <1>1, <1>5, <2>2, <3>2, RecordCut
    <3> QED
      BY <1>2, <3>1, <3>2 DEF File
  <2>5. torn' \in BOOLEAN
    BY <1>5 DEF TypeOK, Tears, Known
  <2> QED
    BY <1>2, <2>3, <2>4, <2>5 DEF FileStep
<1> QED
  BY <1>3, <1>4, <1>5 DEF ScrapeCut

LEMMA FewerStep ==
    ASSUME TypeOK, File(index, torn, trouble),
           index' = index \/ Fewer(index, index'), UNCHANGED <<trouble, torn>>
    PROVE  FileStep
<1>1. WellFormed(index) /\ trouble \in 0..MaxTrouble /\ MaxTrouble \in Nat
  BY DEF TypeOK, File
<1>2. CASE index' = index
  BY <1>1, <1>2 DEF FileStep, Moves
<1>3. CASE Fewer(index, index')
  <2>1. /\ WellFormed(index') /\ Listed(index') \subseteq Listed(index)
        /\ Single(index) => Single(index')
        /\ Numbered(index) => Numbered(index')
        /\ index.count = Len(index.recs) => index'.count = Len(index'.recs)
    BY ONLY <1>1, <1>3, FewerKeeps
  <2> QED
    BY <1>1, <2>1 DEF FileStep, File, Moves
<1> QED
  BY <1>2, <1>3

(* The other screens only take records away. *)
LEMMA HomeStep ==
    ASSUME TypeOK, File(index, torn, trouble), NEW b,
           index' \in {index, Tombstoned(index, b)}, UNCHANGED <<trouble, torn>>
    PROVE  FileStep
<1>1. index' = index \/ Fewer(index, index')
  BY TombstonedFewer DEF File
<1> QED
  BY <1>1, FewerStep

LEMMA NextFile == ASSUME TypeOK, File(index, torn, trouble), [Next]_vars PROVE FileStep
<1> USE DEF card, batch, history
<1>1. CASE index' = index /\ UNCHANGED <<trouble, torn>>
  BY <1>1, FewerStep
<1>2. CASE \E b \in Paths : IndexBook(b)
  <2>1. PICK b \in Paths : IndexBook(b)
    BY <1>2
  <2>2. CASE Fails
    BY <1>1, <2>2 DEF Fails
  <2>3. CASE Scrapes(b)
    BY <2>3, ScrapesStep
  <2> QED
    BY <2>1, <2>2, <2>3 DEF IndexBook
<1>3. CASE IndexSingle
  <2>1. CASE Fails
    BY <1>1, <2>1 DEF Fails
  <2>2. CASE Scrapes(target)
    <3>1. target \in Paths
      BY <2>2, LibraryAssumption DEF Scrapes, Paths
    <3> QED
      BY <2>2, <3>1, ScrapesStep
  <2> QED
    BY <1>3, <2>1, <2>2 DEF IndexSingle
<1>4. CASE \E b \in Paths : ScrapeCut(b)
  BY <1>4, CutStep
<1>5. CASE Tick
  <2>1. CASE NoMemory \/ HeapCheck \/ Discover \/ BatchEnds \/ LibraryFull
    BY <1>1, <2>1 DEF NoMemory, HeapCheck, Discover, BatchEnds, LibraryFull
  <2> QED
    BY <1>2, <1>3, <1>4, <1>5, <2>1 DEF Tick
<1>6. CASE Close \/ startDirIndexing \/ Reset \/ SetFolder \/ ClearCaches
  BY <1>1, <1>6 DEF Close, startDirIndexing, Reset, SetFolder, ClearCaches, Idle
<1>7. CASE \E b \in Paths \cup {None} : Index(b)
  BY <1>1, <1>7 DEF Index, Opens
<1>8. ASSUME NEW b \in Paths, CardChanges(b) \/ DeleteCache(b) \/ Delete(b) PROVE FileStep
  <2>1. index' \in {index, Tombstoned(index, b)} /\ UNCHANGED <<trouble, torn>>
    BY <1>8 DEF CardChanges, DeleteCache, Delete, Idle
  <2> QED
    BY <2>1, HomeStep
<1>9. ASSUME NEW b \in Books, NEW s \in Shelf, Archive(b, s) PROVE FileStep
  <2>1. index' \in {index, Tombstoned(index, b)} /\ UNCHANGED <<trouble, torn>>
    BY <1>9 DEF Archive, Idle
  <2> QED
    BY <2>1, HomeStep
<1>10. ASSUME NEW s \in Shelf, Restore(s) PROVE FileStep
  BY <1>1, <1>10 DEF Restore, Opens, Idle
<1>11. ASSUME NEW n \in 0..MaxBooks, sanitizeIndex(n) PROVE FileStep
  <2>1. index' = Swept(index, n) /\ UNCHANGED <<trouble, torn>> /\ n \in Nat
    BY <1>11 DEF sanitizeIndex, Idle
  <2>2. Fewer(index, index')
    BY <2>1, SweptFewer DEF File
  <2> QED
    BY <2>1, <2>2, FewerStep
<1>12. CASE UNCHANGED vars
  BY <1>1, <1>12 DEF vars
<1> QED
  BY <1>5, <1>6, <1>7, <1>8, <1>9, <1>10, <1>11, <1>12 DEF Next

-----------------------------------------------------------------------------
(* The invariant: the file, the types of the rest, and the batch in hand. *)
LEMMA Parts ==
    LibraryIInv <=> /\ TypeOK /\ File(index, torn, trouble) /\ LastBatchHasAll /\ NothingMissed
<1>1. TypeOK => trouble \in Nat /\ WellFormed(index)
  BY DEF TypeOK, WellFormed
<1> QED
  BY <1>1 DEF LibraryIInv, File, Single, Numbered, OneRecordPerBook, SequencesDiffer, CountExact

(* The types, but for the file. *)
Rest ==
    /\ files \subseteq Paths /\ origin \in [Paths -> Books \cup {None}]
    /\ everywhere \in BOOLEAN /\ state \in States /\ target \in Paths \cup {None}
    /\ failedHashes \subseteq Paths /\ left \subseteq Paths /\ lastBatch \in BOOLEAN
    /\ batchSize \in BatchSizes \cup {0} /\ torn \in BOOLEAN /\ wiped \in BOOLEAN

LEMMA NextRest ==
    ASSUME TypeOK, File(index, torn, trouble), [Next]_vars PROVE Rest'
<1> USE DEF card, batch, history, States, Asking, Over
<1>1. Rest
  BY DEF TypeOK, Rest
<1>2. CASE UNCHANGED vars
  BY <1>1, <1>2 DEF vars, Rest
<1>3. CASE NoMemory \/ HeapCheck \/ BatchEnds \/ LibraryFull
  BY <1>1, <1>3 DEF Rest, NoMemory, HeapCheck, BatchEnds, LibraryFull
<1>4. CASE Discover \/ Close \/ Reset
  BY <1>1, <1>4 DEF Rest, Discover, Close, Reset, Closed
<1>5. CASE startDirIndexing
  <2>1. left' \subseteq Paths
    <3>1. Walked \subseteq Paths
      BY <1>1 DEF Rest, Walked
    <3> QED
      BY <1>1, <1>5, <3>1 DEF Rest, startDirIndexing, Batches, ToDo
  <2>2. lastBatch' \in BOOLEAN
    <3>1. Short(left') \in BOOLEAN
      BY DEF Short
    <3> QED
      BY <1>1, <1>5, <3>1, Zenon DEF Rest, startDirIndexing
  <2> QED
    BY <1>1, <1>5, <2>1, <2>2 DEF Rest, startDirIndexing
<1>6. ASSUME NEW b \in Paths, IndexBook(b) PROVE Rest'
  <2>1. /\ origin' \in [Paths -> Books \cup {None}] /\ wiped' \in BOOLEAN /\ torn' = torn
    <3>1. CASE Fails
      BY <1>1, <3>1 DEF Fails, Rest
    <3>2. CASE Scrapes(b)
      BY <3>2, ScrapesStep
    <3> QED
      BY <1>6, <3>1, <3>2 DEF IndexBook
  <2> QED
    BY <1>1, <1>6, <2>1 DEF Rest, IndexBook
<1>7. CASE IndexSingle
  <2>1. /\ origin' \in [Paths -> Books \cup {None}] /\ wiped' \in BOOLEAN /\ torn' = torn
    <3>1. CASE Fails
      BY <1>1, <3>1 DEF Fails, Rest
    <3>2. CASE Scrapes(target)
      <4>1. target \in Paths
        BY <3>2 DEF Scrapes, Paths
      <4> QED
        BY <3>2, <4>1, ScrapesStep
    <3> QED
      BY <1>7, <3>1, <3>2 DEF IndexSingle
  <2> QED
    BY <1>1, <1>7, <2>1 DEF Rest, IndexSingle
<1>8. ASSUME NEW b \in Paths, ScrapeCut(b) PROVE Rest'
  BY <1>1, <1>8, CutStep DEF Rest, ScrapeCut, Closed
<1>9. CASE SetFolder
  BY <1>1, <1>9 DEF Rest, SetFolder, Idle
<1>10. CASE ClearCaches
  BY <1>1, <1>10 DEF Rest, ClearCaches, Idle
<1>11. CASE \E b \in Paths \cup {None} : Index(b)
  BY <1>1, <1>11 DEF Rest, Index, Opens
<1>12. ASSUME NEW b \in Paths, CardChanges(b) \/ DeleteCache(b) \/ Delete(b) PROVE Rest'
  BY <1>1, <1>12 DEF Rest, CardChanges, DeleteCache, Delete, Idle
<1>13. ASSUME NEW from \in Paths, NEW to \in Paths, Rename(from, to)
       PROVE  files' \subseteq Paths /\ origin' \in [Paths -> Books \cup {None}]
  BY <1>1, <1>13 DEF Rest, Rename, Moved
<1>14. ASSUME NEW b \in Books, NEW s \in Shelf, Archive(b, s) PROVE Rest'
  BY <1>1, <1>13, <1>14 DEF Rest, Archive, Idle, Paths
<1>15. ASSUME NEW s \in Shelf, Restore(s) PROVE Rest'
  BY <1>1, <1>13, <1>15 DEF Rest, Restore, Opens, Idle, Paths
<1>16. ASSUME NEW n \in 0..MaxBooks, sanitizeIndex(n) PROVE Rest'
  BY <1>1, <1>16 DEF Rest, sanitizeIndex, Idle
<1> QED
  BY <1>2, <1>3, <1>4, <1>5, <1>6, <1>7, <1>8, <1>9, <1>10, <1>11, <1>12, <1>14, <1>15, <1>16
  DEF Next, Tick

(* The rest of a batch keeps what is still to do, and a scrape does not take from the
   list unless the index is created anew. *)
LEMMA NextBatch ==
    ASSUME TypeOK, File(index, torn, trouble), LastBatchHasAll, NothingMissed, [Next]_vars
    PROVE  LastBatchHasAll' /\ NothingMissed'
<1> USE DEF card, batch, history
<1>1. CASE state' \notin {"indexing", "complete"}
  BY <1>1 DEF LastBatchHasAll, NothingMissed
<1>2. CASE Discover
  <2>1. \/ state' # "indexing" /\ Walked \subseteq Listed(index)
        \/ state' \notin {"indexing", "complete"}
    BY <1>2 DEF Discover, Closed
  <2> QED
    BY <1>1, <1>2, <2>1 DEF Discover, Closed, LastBatchHasAll, NothingMissed, Walked, isLibraryFull
<1>3. CASE startDirIndexing
  <2>1. UNCHANGED <<index, files, everywhere>>
    BY <1>3 DEF startDirIndexing
  <2>2. ASSUME state' = "complete" PROVE Walked \subseteq Listed(index) \cup failedHashes'
    BY <1>3, <2>2 DEF startDirIndexing, ToDo
  <2>3. ASSUME state' = "indexing", lastBatch'
        PROVE  Walked \subseteq Listed(index) \cup failedHashes' \cup left'
    BY <1>3, <2>3 DEF startDirIndexing, ToDo, Batches, Short
  <2> QED
    BY <2>1, <2>2, <2>3 DEF LastBatchHasAll, NothingMissed, Walked
<1>4. CASE BatchEnds
  BY <1>4 DEF BatchEnds, LastBatchHasAll, NothingMissed, Walked, isLibraryFull
<1>5. CASE LibraryFull
  BY <1>5 DEF LibraryFull, LastBatchHasAll, NothingMissed, isLibraryFull
<1>6. ASSUME NEW b \in Paths, IndexBook(b) PROVE LastBatchHasAll' /\ NothingMissed'
  <2>1. state = "indexing" /\ state' = "indexing" /\ lastBatch' = lastBatch
        /\ left' = left \ {b} /\ UNCHANGED <<files, everywhere>>
    BY <1>6 DEF IndexBook
  <2>2. ASSUME ~wiped' PROVE ~wiped /\ Listed(index) \subseteq Listed(index')
    <3>1. CASE Fails
      BY <2>2, <3>1 DEF Fails
    <3>2. CASE Scrapes(b)
      BY <2>2, <3>2, ScrapesStep
    <3> QED
      BY <1>6, <3>1, <3>2 DEF IndexBook
  <2>3. failedHashes \subseteq failedHashes' /\ b \in Shelf \cup Listed(index') \cup failedHashes'
    BY <1>6 DEF IndexBook, Succeeded
  <2>4. (Walked \ Shelf)' = Walked \ Shelf
    BY <2>1 DEF Walked
  <2> QED
    BY <2>1, <2>2, <2>3, <2>4 DEF LastBatchHasAll, NothingMissed
<1>7. CASE UNCHANGED vars
  BY <1>7 DEF vars, LastBatchHasAll, NothingMissed, Walked, isLibraryFull
<1>8. CASE NoMemory \/ HeapCheck \/ IndexSingle
  BY <1>1, <1>8 DEF NoMemory, HeapCheck, IndexSingle
<1>9. CASE \/ Close \/ Reset \/ SetFolder \/ ClearCaches
           \/ \E b \in Paths \cup {None} : Index(b)
           \/ \E b \in Paths : CardChanges(b) \/ DeleteCache(b) \/ Delete(b) \/ ScrapeCut(b)
           \/ \E b \in Books, s \in Shelf : Archive(b, s)
           \/ \E s \in Shelf : Restore(s)
           \/ \E n \in 0..MaxBooks : sanitizeIndex(n)
  BY <1>1, <1>9 DEF Close, Reset, Closed, SetFolder, ClearCaches, Index, Opens, Home, Idle,
     CardChanges, DeleteCache, Delete, ScrapeCut, Archive, Restore, sanitizeIndex
<1> QED
  BY <1>2, <1>3, <1>4, <1>5, <1>6, <1>7, <1>8, <1>9 DEF Next, Tick

LEMMA InitIInv == Init => LibraryIInv
<1> SUFFICES ASSUME Init PROVE LibraryIInv
  OBVIOUS
<1>1. File(index, torn, trouble)
  BY EmptyFile DEF Init
<1>2. TypeOK
  <2>1. index \in Indexes /\ Len(index.recs) <= MaxBooks /\ Len(index.recs) <= index.count
    BY <1>1 DEF File, WellFormed
  <2>2. files \subseteq Paths /\ origin \in [Paths -> Books \cup {None}]
    BY DEF Init, Paths
  <2>3. trouble \in 0..MaxTrouble
    BY DEF Init
  <2>4. state \in States /\ everywhere \in BOOLEAN /\ target \in Paths \cup {None}
    BY DEF Init, States, Over
  <2>5. /\ failedHashes \subseteq Paths /\ left \subseteq Paths /\ lastBatch \in BOOLEAN
        /\ batchSize \in BatchSizes \cup {0} /\ torn \in BOOLEAN /\ wiped \in BOOLEAN
    BY DEF Init
  <2> QED
    BY <2>1, <2>2, <2>3, <2>4, <2>5 DEF TypeOK
<1>3. LastBatchHasAll /\ NothingMissed
  BY DEF Init, LastBatchHasAll, NothingMissed
<1> QED
  BY <1>1, <1>2, <1>3, Parts

LEMMA NextIInv == LibraryIInv /\ [Next]_vars => LibraryIInv' /\ FileStep
<1> SUFFICES ASSUME LibraryIInv, [Next]_vars PROVE LibraryIInv' /\ FileStep
  OBVIOUS
<1>1. TypeOK /\ File(index, torn, trouble) /\ LastBatchHasAll /\ NothingMissed
  BY Parts
<1>2. FileStep /\ Rest' /\ LastBatchHasAll' /\ NothingMissed'
  BY <1>1, NextFile, NextRest, NextBatch
<1>3. TypeOK' /\ File(index, torn, trouble)'
  BY <1>2 DEF FileStep, File, WellFormed, Rest, TypeOK, Single, Numbered, Live, Seen
<1> QED
  BY <1>2, <1>3, Parts, PTL

LEMMA Inductive == Spec => []LibraryIInv
<1>1. Init => LibraryIInv
  BY InitIInv
<1>2. LibraryIInv /\ [Next]_vars => LibraryIInv'
  BY NextIInv
<1> QED
  BY <1>1, <1>2, PTL DEF Spec

-----------------------------------------------------------------------------
(* The index file is always one a reader accepts: its records are those the header counts,
   or fewer, and never more than MAX_LIBRARY_BOOKS, however writes are cut short. *)
THEOREM LibraryTypeCorrect == Spec => []TypeOK
<1>1. LibraryIInv => TypeOK
  BY DEF LibraryIInv
<1> QED
  BY <1>1, Inductive, PTL

(* No book is ever listed twice, for any number of books and resets. *)
THEOREM OneRecord == Spec => []OneRecordPerBook
<1>1. LibraryIInv => OneRecordPerBook
  BY DEF LibraryIInv
<1> QED
  BY <1>1, Inductive, PTL

(* Until a reuse is cut short, listed books have different numbers below the next. *)
THEOREM SequencesSafe == Spec => []SequencesDiffer
<1>1. LibraryIInv => SequencesDiffer
  BY DEF LibraryIInv
<1> QED
  BY <1>1, Inductive, PTL

(* Indexing that says it is complete has left no book out, for any batch size. *)
THEOREM NothingMissedSafe == Spec => []NothingMissed
<1>1. LibraryIInv => NothingMissed
  BY DEF LibraryIInv
<1> QED
  BY <1>1, Inductive, PTL

(* The index implements Catalogue: books leave the list only where something removes
   them, and all together only after trouble. *)
THEOREM CatalogueKept == Spec => KeepsCatalogue
<1>1. Init => Promised!CatalogueInit
  BY EmptyIndex DEF Init, Promised!CatalogueInit
<1>2. LibraryIInv /\ [Next]_vars => [Promised!CatalogueNext]_(Promised!catalogueVars)
  <2> SUFFICES ASSUME LibraryIInv, [Next]_vars PROVE Promised!CatalogueNext
    OBVIOUS
  <2>1. FileStep
    BY NextIInv
  <2> QED
    <3>1. trouble' >= trouble
      BY <2>1 DEF FileStep
    <3>2. \A S : Promised!Cardinality(S) = Cardinality(S)
      BY DEF Cardinality, Promised!Cardinality
    <3>3. CASE \E b \in Books : Cardinality(Listed(index)) < MaxBooks
                                /\ Listed(index') = Listed(index) \cup {b}
      BY <3>1, <3>2, <3>3 DEF Promised!CatalogueNext, Promised!List
    <3>4. CASE Listed(index') \subseteq Listed(index)
      BY <3>1, <3>4 DEF Promised!CatalogueNext, Promised!Drop
    <3>5. CASE trouble' > 0 /\ \E b \in Books : Listed(index') \subseteq {b}
      BY <3>1, <3>5 DEF Promised!CatalogueNext, Promised!Lose
    <3> QED
      BY <2>1, <3>3, <3>4, <3>5 DEF FileStep, Moves
<1> QED
  BY <1>1, <1>2, Inductive, PTL DEF Spec, KeepsCatalogue, Promised!CatalogueSpec
=============================================================================

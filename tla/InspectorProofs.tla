-------------------------- MODULE InspectorProofs --------------------------
(***************************************************************************)
(* Proofs about the request book, under the tasks of Link that share it:   *)
(* an outcome is shown on the request it belongs to, and a tunnel's        *)
(* records make room for its own only.                                     *)
(***************************************************************************)
EXTENDS LinkProofs, FunctionTheorems, FiniteSetTheorems, WellFoundedInduction

RecordStates ==
  [id : Nat, tunnel : Names, of : Visitors, status : {Pending} \cup Visitors]

\* A book that holds some records of another, each once.
Chosen(t, s) ==
  \E f \in Injection(DOMAIN t, DOMAIN s) : \A j \in DOMAIN t : t[j] = s[f[j]]

\* The place where a record was before the one at k went.
Before(k, j) == IF j < k THEN j ELSE j + 1

-----------------------------------------------------------------------------
(* The book. *)

\* A tunnel's records are finitely many.
LEMMA OfIsFinite ==
  ASSUME NEW s \in Seq(RecordStates), NEW n
  PROVE  /\ IsFiniteSet(Of(s, n)) /\ Cardinality(Of(s, n)) \in Nat
         /\ Of(s, n) \subseteq DOMAIN s
<1>1. IsFiniteSet(1..Len(s)) /\ DOMAIN s = 1..Len(s)
  BY FS_Interval
<1>2. Of(s, n) \subseteq 1..Len(s)
  BY <1>1 DEF Of
<1>3. QED
  BY <1>1, <1>2, FS_Subset, FS_CardinalityType

\* No tunnel has more records in what is chosen.
LEMMA ChosenIsFewer ==
  ASSUME NEW s \in Seq(RecordStates), NEW t \in Seq(RecordStates), Chosen(t, s), NEW n
  PROVE  Cardinality(Of(t, n)) <= Cardinality(Of(s, n))
<1>1. PICK f \in Injection(DOMAIN t, DOMAIN s) : \A j \in DOMAIN t : t[j] = s[f[j]]
  BY DEF Chosen
<1>2. PICK g : g = [j \in Of(t, n) |-> f[j]]
  OBVIOUS
<1>3. f \in [DOMAIN t -> DOMAIN s] /\ \A i, j \in DOMAIN t : f[i] = f[j] => i = j
  BY <1>1 DEF Injection, IsInjective
<1>4. g \in [Of(t, n) -> Of(s, n)] /\ \A i, j \in Of(t, n) : g[i] = g[j] => i = j
  BY <1>1, <1>2, <1>3 DEF Of
<1>5. g \in Injection(Of(t, n), Of(s, n))
  BY <1>4, Fun_IsInj
<1>6. QED
  BY <1>5, OfIsFinite, FS_Injection

\* Of a set of numbers that is not empty, one is the least.
LEMMA Least ==
  ASSUME NEW S \in SUBSET Nat, S # {}
  PROVE  \E i \in S : \A j \in S : i <= j
<1>1. PICK T : T = {0..i : i \in S}
  OBVIOUS
<1>2. T # {} /\ T \subseteq FiniteSubsetsOf(Nat)
  <2>1. \A i \in Nat : 0..i \in FiniteSubsetsOf(Nat)
    BY FS_Interval DEF FiniteSubsetsOf
  <2>2. QED
    BY <1>1, <2>1
<1>3. \E t \in T : \A u \in T : <<u, t>> \notin StrictSubsetOrdering(Nat)
  BY <1>2, FS_StrictSubsetOrderingWellFounded, WFMin
<1>4. PICK i \in S : \A j \in S : <<0..j, 0..i>> \notin StrictSubsetOrdering(Nat)
  BY <1>1, <1>3
<1>5. ASSUME NEW j \in S, j < i PROVE FALSE
  <2>1. 0..j \subseteq 0..i /\ 0..j \in SUBSET Nat /\ 0..i \in SUBSET Nat
    BY <1>5
  <2>2. i \in 0..i /\ i \notin 0..j
    BY <1>5
  <2>3. <<0..j, 0..i>> \in StrictSubsetOrdering(Nat)
    BY <2>1, <2>2 DEF StrictSubsetOrdering
  <2>4. QED
    BY <1>4, <2>3
<1>6. QED
  BY <1>5

\* What is left when the record at k has gone.
LEMMA RemoveOne ==
  ASSUME NEW s \in Seq(RecordStates), NEW k \in DOMAIN s
  PROVE  /\ RemoveAt(s, k) \in Seq(RecordStates)
         /\ DOMAIN RemoveAt(s, k) = 1..(Len(s) - 1)
         /\ \A j \in 1..(Len(s) - 1) :
              Before(k, j) \in DOMAIN s /\ RemoveAt(s, k)[j] = s[Before(k, j)]
<1>1. Len(s) \in Nat /\ DOMAIN s = 1..Len(s) /\ k \in 1..Len(s)
  OBVIOUS
<1>2. PICK a, b : a = SubSeq(s, 1, k - 1) /\ b = SubSeq(s, k + 1, Len(s))
  OBVIOUS
<1>3. /\ a \in Seq(RecordStates) /\ Len(a) = k - 1
      /\ \A j \in 1..(k - 1) : a[j] = s[j]
  BY <1>1, <1>2
<1>4. /\ b \in Seq(RecordStates) /\ Len(b) = Len(s) - k
      /\ \A j \in 1..(Len(s) - k) : b[j] = s[j + k]
  BY <1>1, <1>2
<1>5. /\ a \o b \in Seq(RecordStates) /\ Len(a \o b) = Len(a) + Len(b)
      /\ \A j \in 1..(Len(a) + Len(b)) :
           (a \o b)[j] = IF j <= Len(a) THEN a[j] ELSE b[j - Len(a)]
  BY <1>3, <1>4, ConcatProperties
<1>6. ASSUME NEW j \in 1..(Len(s) - 1)
      PROVE  Before(k, j) \in DOMAIN s /\ (a \o b)[j] = s[Before(k, j)]
  <2>1. CASE j < k
    BY <1>1, <1>3, <1>4, <1>5, <2>1 DEF Before
  <2>2. CASE ~(j < k)
    <3>1. j - (k - 1) \in 1..(Len(s) - k) /\ j - (k - 1) + k = j + 1
      BY <1>1, <2>2
    <3>2. (a \o b)[j] = b[j - (k - 1)]
      BY <1>1, <1>3, <1>4, <1>5, <2>2
    <3>3. b[j - (k - 1)] = s[j + 1]
      BY <1>4, <3>1
    <3>4. Before(k, j) = j + 1 /\ j + 1 \in DOMAIN s
      BY <1>1, <2>2 DEF Before
    <3>5. QED
      BY <3>2, <3>3, <3>4
  <2>3. QED
    BY <2>1, <2>2
<1>7. RemoveAt(s, k) = a \o b
  BY <1>2 DEF RemoveAt
<1>8. DOMAIN (a \o b) = 1..(Len(s) - 1)
  <2>1. PICK c \in Seq(RecordStates) : c = a \o b
    BY <1>5
  <2>2. Len(c) = Len(s) - 1
    <3>1. Len(c) = Len(a) + Len(b)
      BY <1>5, <2>1
    <3>2. (k - 1) + (Len(s) - k) = Len(s) - 1
      BY <1>1
    <3>3. QED
      BY <1>3, <1>4, <3>1, <3>2
  <2>3. DOMAIN c = 1..Len(c)
    OBVIOUS
  <2>4. QED
    BY <2>1, <2>2, <2>3
<1>9. QED
  BY <1>5, <1>6, <1>7, <1>8

\* One record less: of its tunnel one less, and the others are those there were.
LEMMA RemoveOneOf ==
  ASSUME NEW s \in Seq(RecordStates), NEW n, NEW k \in Of(s, n)
  PROVE  /\ Chosen(RemoveAt(s, k), s)
         /\ Cardinality(Of(RemoveAt(s, k), n)) = Cardinality(Of(s, n)) - 1
         /\ \A i \in DOMAIN s \ {k} : \E j \in DOMAIN RemoveAt(s, k) : RemoveAt(s, k)[j] = s[i]
<1>1. /\ Len(s) \in Nat /\ DOMAIN s = 1..Len(s) /\ k \in 1..Len(s) /\ k \in DOMAIN s
      /\ s[k].tunnel = n
  BY DEF Of
<1>2. PICK t : t = RemoveAt(s, k)
  OBVIOUS
<1>3. /\ t \in Seq(RecordStates) /\ DOMAIN t = 1..(Len(s) - 1)
      /\ \A j \in DOMAIN t : Before(k, j) \in DOMAIN s /\ t[j] = s[Before(k, j)]
  BY <1>1, <1>2, RemoveOne
<1>4. \A i, j \in DOMAIN t : Before(k, i) = Before(k, j) => i = j
  BY <1>1, <1>3 DEF Before
<1>5. \A j \in DOMAIN t : Before(k, j) # k
  BY <1>1, <1>3 DEF Before
<1>6. ASSUME NEW i \in DOMAIN s, i # k
      PROVE  \E j \in DOMAIN t : Before(k, j) = i
  <2>1. CASE i < k
    <3>1. i \in DOMAIN t /\ Before(k, i) = i
      BY <1>1, <1>3, <2>1 DEF Before
    <3>2. QED
      BY <3>1
  <2>2. CASE ~(i < k)
    <3>1. i - 1 \in DOMAIN t /\ Before(k, i - 1) = i
      BY <1>1, <1>3, <1>6, <2>2 DEF Before
    <3>2. QED
      BY <3>1
  <2>3. QED
    BY <2>1, <2>2
<1>7. Chosen(t, s)
  <2>1. PICK f : f = [j \in DOMAIN t |-> Before(k, j)]
    OBVIOUS
  <2>2. f \in [DOMAIN t -> DOMAIN s] /\ \A i, j \in DOMAIN t : f[i] = f[j] => i = j
    BY <1>3, <1>4, <2>1
  <2>3. f \in Injection(DOMAIN t, DOMAIN s)
    BY <2>2, Fun_IsInj
  <2>4. \A j \in DOMAIN t : t[j] = s[f[j]]
    BY <1>3, <2>1
  <2>5. QED
    BY <2>3, <2>4 DEF Chosen
<1>8. Cardinality(Of(t, n)) = Cardinality(Of(s, n)) - 1
  <2>1. PICK g : g = [j \in Of(t, n) |-> Before(k, j)]
    OBVIOUS
  <2>2. \A j \in DOMAIN t : j \in Of(t, n) <=> Before(k, j) \in Of(s, n)
    BY <1>3 DEF Of
  <2>3. Of(t, n) \subseteq DOMAIN t /\ Of(s, n) \subseteq DOMAIN s
    BY DEF Of
  <2>4. g \in [Of(t, n) -> Of(s, n) \ {k}]
    BY <1>5, <2>1, <2>2, <2>3
  <2>5. \A i, j \in Of(t, n) : g[i] = g[j] => i = j
    BY <1>4, <2>1, <2>3
  <2>6. ASSUME NEW i \in Of(s, n) \ {k} PROVE \E j \in Of(t, n) : g[j] = i
    <3>1. PICK j \in DOMAIN t : Before(k, j) = i
      BY <1>6, <2>3
    <3>2. j \in Of(t, n)
      BY <2>2, <3>1
    <3>3. QED
      BY <2>1, <3>1, <3>2
  <2>7. g \in Bijection(Of(t, n), Of(s, n) \ {k})
    BY <2>4, <2>5, <2>6, Fun_IsBij
  <2>8. ExistsBijection(Of(t, n), Of(s, n) \ {k})
    BY <2>7 DEF ExistsBijection
  <2>9. Cardinality(Of(t, n)) = Cardinality(Of(s, n) \ {k})
    BY <1>3, <2>8, OfIsFinite, FS_Bijection
  <2>10. QED
    BY <2>9, OfIsFinite, FS_RemoveElement
<1>9. \A i \in DOMAIN s \ {k} : \E j \in DOMAIN t : t[j] = s[i]
  BY <1>3, <1>6
<1>10. QED
  BY <1>2, <1>7, <1>8, <1>9

\* A tunnel with too many records loses its oldest, and only that.
LEMMA Eviction ==
  ASSUME NEW s \in Seq(RecordStates), NEW n
  PROVE  /\ EvictOldest(s, n) \in Seq(RecordStates)
         /\ Chosen(EvictOldest(s, n), s)
         /\ \/ EvictOldest(s, n) = s /\ Cardinality(Of(s, n)) <= PerTunnelLimit
            \/ /\ Cardinality(Of(s, n)) > PerTunnelLimit
               /\ \E k \in Of(s, n) : EvictOldest(s, n) = RemoveAt(s, k)
<1>1. PerTunnelLimit \in Nat /\ Cardinality(Of(s, n)) \in Nat
  BY InspectorAssumption, OfIsFinite
<1>2. CASE Cardinality(Of(s, n)) > PerTunnelLimit
  <2>1. Of(s, n) # {}
    BY <1>1, <1>2, OfIsFinite, FS_EmptySet
  <2>2. Of(s, n) \in SUBSET Nat
    BY OfIsFinite
  <2>3. \E i \in Of(s, n) : \A j \in Of(s, n) : i <= j
    BY <2>1, <2>2, Least
  <2>4. PICK k : k = CHOOSE i \in Of(s, n) : \A j \in Of(s, n) : i <= j
    OBVIOUS
  <2>5. k \in Of(s, n)
    BY <2>3, <2>4
  <2>6. EvictOldest(s, n) = RemoveAt(s, k)
    BY <1>2, <2>4 DEF EvictOldest
  <2>7. k \in DOMAIN s
    BY <2>5 DEF Of
  <2>8. RemoveAt(s, k) \in Seq(RecordStates) /\ Chosen(RemoveAt(s, k), s)
    BY <2>5, <2>7, RemoveOne, RemoveOneOf
  <2>9. QED
    BY <1>2, <2>5, <2>6, <2>8
<1>3. CASE ~(Cardinality(Of(s, n)) > PerTunnelLimit)
  <2>1. EvictOldest(s, n) = s
    BY <1>3 DEF EvictOldest
  <2>2. PICK f : f = [j \in DOMAIN s |-> j]
    OBVIOUS
  <2>3. f \in Injection(DOMAIN s, DOMAIN s)
    BY <2>2, Fun_IsInj
  <2>4. Chosen(s, s)
    BY <2>2, <2>3 DEF Chosen
  <2>5. QED
    BY <1>1, <1>3, <2>1, <2>4
<1>4. QED
  BY <1>2, <1>3

\* One record more.
LEMMA AddOne ==
  ASSUME NEW s \in Seq(RecordStates), NEW r \in RecordStates
  PROVE  /\ Append(s, r) \in Seq(RecordStates)
         /\ \A i \in DOMAIN Append(s, r) :
              \/ i \in DOMAIN s /\ Append(s, r)[i] = s[i]
              \/ i = Len(s) + 1 /\ Append(s, r)[i] = r
         /\ \A i \in DOMAIN s : i \in DOMAIN Append(s, r) /\ Append(s, r)[i] = s[i]
         /\ Cardinality(Of(Append(s, r), r.tunnel)) <= Cardinality(Of(s, r.tunnel)) + 1
         /\ \A n : n # r.tunnel => Of(Append(s, r), n) = Of(s, n)
<1>1. /\ Append(s, r) \in Seq(RecordStates)
      /\ DOMAIN Append(s, r) = 1..(Len(s) + 1) /\ DOMAIN s = 1..Len(s) /\ Len(s) \in Nat
      /\ \A i \in 1..Len(s) : Append(s, r)[i] = s[i]
      /\ Append(s, r)[Len(s) + 1] = r
  OBVIOUS
<1>2. PICK t \in Seq(RecordStates) : t = Append(s, r)
  BY <1>1
<1>3. \A i \in DOMAIN t : \/ i \in DOMAIN s /\ t[i] = s[i]
                          \/ i = Len(s) + 1 /\ t[i] = r
  <2>1. \A i \in 1..(Len(s) + 1) : i \in 1..Len(s) \/ i = Len(s) + 1
    BY <1>1
  <2>2. QED
    BY <1>1, <1>2, <2>1
<1>4. \A i \in DOMAIN s : i \in DOMAIN t /\ t[i] = s[i]
  BY <1>1, <1>2
<1>5. Cardinality(Of(t, r.tunnel)) <= Cardinality(Of(s, r.tunnel)) + 1
  <2>1. Of(t, r.tunnel) \subseteq Of(s, r.tunnel) \cup {Len(s) + 1}
    BY <1>3 DEF Of
  <2>2. /\ IsFiniteSet(Of(s, r.tunnel) \cup {Len(s) + 1})
        /\ Cardinality(Of(s, r.tunnel) \cup {Len(s) + 1}) <= Cardinality(Of(s, r.tunnel)) + 1
        /\ Cardinality(Of(s, r.tunnel) \cup {Len(s) + 1}) \in Nat
    <3>1. IsFiniteSet(Of(s, r.tunnel)) /\ Cardinality(Of(s, r.tunnel)) \in Nat
      BY OfIsFinite
    <3>2. PICK c : c = Of(s, r.tunnel)
      OBVIOUS
    <3>3. /\ IsFiniteSet(c \cup {Len(s) + 1})
          /\ \/ Cardinality(c \cup {Len(s) + 1}) = Cardinality(c)
             \/ Cardinality(c \cup {Len(s) + 1}) = Cardinality(c) + 1
      BY <3>1, <3>2, FS_AddElement
    <3>4. QED
      BY <3>1, <3>2, <3>3
  <2>3. /\ Cardinality(Of(t, r.tunnel)) <= Cardinality(Of(s, r.tunnel) \cup {Len(s) + 1})
        /\ Cardinality(Of(t, r.tunnel)) \in Nat
    BY <2>1, <2>2, FS_Subset, OfIsFinite
  <2>4. QED
    BY <2>2, <2>3, OfIsFinite
<1>6. \A n : n # r.tunnel => Of(t, n) = Of(s, n)
  BY <1>3, <1>4 DEF Of
<1>7. QED
  BY <1>2, <1>3, <1>4, <1>5, <1>6

-----------------------------------------------------------------------------
(* The invariant. *)

\* A task between its two calls.
HasNumber(v) == v.at \in {"drawn", "recorded"}

\* Each record has a number of its own, and what is shown as its outcome is its own;
\* a number drawn is in no record, and one recorded is in the record of that request.
GoodBook(book, last, where) ==
  /\ \A i \in DOMAIN book :
       book[i].id \in 1..last /\ book[i].status \in {Pending, book[i].of}
  /\ \A i, j \in DOMAIN book : book[i].id = book[j].id => i = j
  /\ \A v \in Visitors, i \in DOMAIN book :
       /\ where[v].at = "drawn" => book[i].id # where[v].record
       /\ where[v].at = "recorded" /\ book[i].id = where[v].record => book[i].of = v

\* Each task's number is its own.
GoodNumbers(last, where) ==
  /\ \A v \in Visitors : HasNumber(where[v]) => where[v].record \in 1..last
  /\ \A v, w \in Visitors :
       HasNumber(where[v]) /\ HasNumber(where[w]) /\ where[v].record = where[w].record => v = w

\* What is recorded goes under a tunnel's name.
Taken(where) ==
  \A v \in Visitors : where[v].at \in {"served", "drawn"} => where[v].taken_to \in Names

WithinLimit(book) == \A n \in Names : Cardinality(Of(book, n)) <= PerTunnelLimit

BookInv ==
  /\ records \in Seq(RecordStates) /\ next_record \in Nat
  /\ GoodBook(records, next_record, visitor)
  /\ GoodNumbers(next_record, visitor)
  /\ Taken(visitor)
  /\ WithinLimit(records)

\* What is chosen from a good book is one.
LEMMA ChosenIsGood ==
  ASSUME NEW s \in Seq(RecordStates), NEW t \in Seq(RecordStates), Chosen(t, s)
  PROVE  /\ \A last, where : GoodBook(s, last, where) => GoodBook(t, last, where)
         /\ WithinLimit(s) => WithinLimit(t)
         /\ \A j \in DOMAIN t : \E i \in DOMAIN s : t[j] = s[i]
<1>1. PICK f \in Injection(DOMAIN t, DOMAIN s) : \A j \in DOMAIN t : t[j] = s[f[j]]
  BY DEF Chosen
<1>2. f \in [DOMAIN t -> DOMAIN s] /\ \A i, j \in DOMAIN t : f[i] = f[j] => i = j
  BY <1>1 DEF Injection, IsInjective
<1>3. \A j \in DOMAIN t : f[j] \in DOMAIN s /\ t[j] = s[f[j]]
  BY <1>1, <1>2
<1>4. ASSUME NEW last, NEW where, GoodBook(s, last, where) PROVE GoodBook(t, last, where)
  BY <1>2, <1>3, <1>4 DEF GoodBook
<1>5. WithinLimit(s) => WithinLimit(t)
  <2> SUFFICES ASSUME WithinLimit(s), NEW n \in Names
               PROVE  Cardinality(Of(t, n)) <= PerTunnelLimit
    BY DEF WithinLimit
  <2>1. Cardinality(Of(t, n)) <= Cardinality(Of(s, n)) /\ Cardinality(Of(s, n)) <= PerTunnelLimit
    BY ChosenIsFewer DEF WithinLimit
  <2>2. QED
    BY <2>1, OfIsFinite, InspectorAssumption
<1>6. QED
  BY <1>3, <1>4, <1>5

-----------------------------------------------------------------------------
(* The steps. *)

\* A step of no task between its two calls, and of the book's user neither.
LEMMA ElsewhereKeeps ==
  ASSUME BookInv, UNCHANGED <<records, next_record>>,
         \A v \in Visitors :
           \/ visitor'[v] = visitor[v]
           \/ /\ visitor'[v].at \notin {"drawn", "recorded"}
              /\ visitor'[v].at = "served" => visitor'[v].taken_to \in Names
  PROVE  BookInv'
<1>1. \A v \in Visitors : HasNumber(visitor'[v]) => visitor'[v] = visitor[v]
  BY DEF HasNumber
<1>2. GoodBook(records, next_record, visitor)'
  BY <1>1 DEF BookInv, GoodBook, HasNumber
<1>3. GoodNumbers(next_record, visitor)'
  BY <1>1 DEF BookInv, GoodNumbers
<1>4. Taken(visitor)'
  BY DEF BookInv, Taken
<1>5. WithinLimit(records)'
  BY DEF BookInv, WithinLimit
<1>6. QED
  BY <1>2, <1>3, <1>4, <1>5 DEF BookInv

\* A number that is drawn is new.
LEMMA DrawsKeeps ==
  ASSUME BookInv, LinkTypeOK, NEW v \in Visitors, DrawsRecord(v)
  PROVE  BookInv'
<1>1. /\ next_record \in Nat /\ next_record' = next_record + 1 /\ records' = records
      /\ visitor[v].at = "served" /\ visitor[v] \in VisitorStates
      /\ visitor' = [visitor EXCEPT ![v].at = "drawn", ![v].record = next_record + 1]
      /\ visitor \in [Visitors -> VisitorStates]
  BY DEF BookInv, DrawsRecord, DrawRecordId, LinkTypeOK
<1>2. /\ \A w \in Visitors : w # v => visitor'[w] = visitor[w]
      /\ visitor'[v].at = "drawn" /\ visitor'[v].record = next_record + 1
      /\ visitor'[v].taken_to = visitor[v].taken_to
  BY <1>1 DEF VisitorStates
<1>3. \A i \in 1..next_record : i \in 1..(next_record + 1) /\ i # next_record + 1
  BY <1>1
<1>4. GoodBook(records, next_record, visitor)'
  <2>1. \A i \in DOMAIN records : records[i].id \in 1..next_record
    BY DEF BookInv, GoodBook
  <2>2. QED
    BY <1>1, <1>2, <1>3, <2>1 DEF BookInv, GoodBook
<1>5. GoodNumbers(next_record, visitor)'
  <2>1. next_record + 1 \in 1..(next_record + 1)
    BY <1>1
  <2>2. \A w \in Visitors : HasNumber(visitor[w]) => visitor[w].record \in 1..next_record
    BY DEF BookInv, GoodNumbers
  <2>3. QED
    BY <1>1, <1>2, <1>3, <2>1, <2>2 DEF BookInv, GoodNumbers
<1>6. Taken(visitor)'
  BY <1>1, <1>2 DEF BookInv, Taken
<1>7. WithinLimit(records)'
  BY <1>1 DEF BookInv, WithinLimit
<1>8. QED
  BY <1>1, <1>4, <1>5, <1>6, <1>7 DEF BookInv

\* What a task records, and the book with it before anything is evicted.
LEMMA Recording ==
  ASSUME BookInv, LinkTypeOK, NEW v \in Visitors, Records(v)
  PROVE  \E r \in RecordStates :
           /\ r.id = visitor[v].record /\ r.of = v /\ r.status = Pending
           /\ r.tunnel = visitor[v].taken_to /\ r.tunnel \in Names
           /\ records' = EvictOldest(Append(records, r), r.tunnel)
           /\ next_record' = next_record
           /\ visitor'[v].at = "recorded" /\ visitor'[v].record = visitor[v].record
           /\ \A w \in Visitors : w # v => visitor'[w] = visitor[w]
<1>1. /\ visitor[v].at = "drawn" /\ visitor[v] \in VisitorStates
      /\ visitor' = [visitor EXCEPT ![v] =
           [Nowhere EXCEPT !.at = "recorded", !.record = visitor[v].record]]
      /\ RecordRequest(visitor[v].record, visitor[v].taken_to, v)
      /\ visitor \in [Visitors -> VisitorStates]
  BY DEF Records, LinkTypeOK
<1>2. PICK r : r = [id |-> visitor[v].record, tunnel |-> visitor[v].taken_to, of |-> v, status |-> Pending]
  OBVIOUS
<1>3. visitor[v].taken_to \in Names /\ visitor[v].record \in Nat
  BY <1>1 DEF BookInv, Taken, VisitorStates
<1>4. /\ r \in RecordStates /\ r.id = visitor[v].record /\ r.of = v /\ r.status = Pending
      /\ r.tunnel = visitor[v].taken_to
  BY <1>2, <1>3 DEF RecordStates
<1>5. records' = EvictOldest(Append(records, r), r.tunnel) /\ next_record' = next_record
  BY <1>1, <1>2, <1>4 DEF RecordRequest, Record
<1>6. /\ visitor'[v].at = "recorded" /\ visitor'[v].record = visitor[v].record
      /\ \A w \in Visitors : w # v => visitor'[w] = visitor[w]
  BY <1>1 DEF Nowhere
<1>7. QED
  BY <1>3, <1>4, <1>5, <1>6

\* A record comes under the number drawn for it, which no other has.
LEMMA RecordsKeeps ==
  ASSUME BookInv, LinkTypeOK, NEW v \in Visitors, Records(v)
  PROVE  BookInv'
<1>1. PICK r \in RecordStates :
        /\ r.id = visitor[v].record /\ r.of = v /\ r.status = Pending
        /\ r.tunnel = visitor[v].taken_to /\ r.tunnel \in Names
        /\ records' = EvictOldest(Append(records, r), r.tunnel)
        /\ next_record' = next_record
        /\ visitor'[v].at = "recorded" /\ visitor'[v].record = visitor[v].record
        /\ \A w \in Visitors : w # v => visitor'[w] = visitor[w]
  BY Recording
<1>2. visitor[v].at = "drawn" /\ records \in Seq(RecordStates)
  BY DEF Records, BookInv
<1>3. PICK s \in Seq(RecordStates) : s = Append(records, r)
  BY <1>2, AddOne
<1>4. /\ \A i \in DOMAIN s : \/ i \in DOMAIN records /\ s[i] = records[i]
                             \/ i = Len(records) + 1 /\ s[i] = r
      /\ Cardinality(Of(s, r.tunnel)) <= Cardinality(Of(records, r.tunnel)) + 1
      /\ \A n : n # r.tunnel => Of(s, n) = Of(records, n)
  BY <1>2, <1>3, AddOne
<1>5. /\ records' \in Seq(RecordStates) /\ Chosen(records', s)
      /\ \/ records' = s /\ Cardinality(Of(s, r.tunnel)) <= PerTunnelLimit
         \/ \E k \in Of(s, r.tunnel) : records' = RemoveAt(s, k)
  BY <1>1, <1>3, Eviction
<1>6. GoodBook(s, next_record, visitor')
  <2>1. /\ \A i \in DOMAIN records :
             records[i].id \in 1..next_record /\ records[i].status \in {Pending, records[i].of}
        /\ \A i, j \in DOMAIN records : records[i].id = records[j].id => i = j
        /\ \A i \in DOMAIN records : records[i].id # r.id
        /\ r.id \in 1..next_record
    BY <1>1, <1>2 DEF BookInv, GoodBook, GoodNumbers, HasNumber
  <2>2. \A i \in DOMAIN s : s[i].id \in 1..next_record /\ s[i].status \in {Pending, s[i].of}
    BY <1>1, <1>4, <2>1
  <2>3. \A i, j \in DOMAIN s : s[i].id = s[j].id => i = j
    BY <1>4, <2>1
  <2>4. ASSUME NEW w \in Visitors, NEW i \in DOMAIN s
        PROVE  /\ visitor'[w].at = "drawn" => s[i].id # visitor'[w].record
               /\ visitor'[w].at = "recorded" /\ s[i].id = visitor'[w].record => s[i].of = w
    <3>1. CASE w = v
      BY <1>1, <1>4, <2>1, <3>1
    <3>2. CASE w # v
      <4>1. HasNumber(visitor[w]) => visitor[w].record # r.id
        BY <1>1, <1>2, <3>2 DEF BookInv, GoodNumbers, HasNumber
      <4>2. visitor'[w] = visitor[w]
        BY <1>1, <3>2
      <4>3. CASE i \in DOMAIN records /\ s[i] = records[i]
        BY <4>2, <4>3 DEF BookInv, GoodBook
      <4>4. CASE s[i] = r
        BY <4>1, <4>2, <4>4 DEF HasNumber
      <4>5. QED
        BY <1>4, <4>3, <4>4
    <3>3. QED
      BY <3>1, <3>2
  <2>5. QED
    BY <2>2, <2>3, <2>4 DEF GoodBook
<1>7. GoodBook(records, next_record, visitor)'
  BY <1>1, <1>5, <1>6, ChosenIsGood
<1>8. GoodNumbers(next_record, visitor)'
  BY <1>1, <1>2 DEF BookInv, GoodNumbers, HasNumber
<1>9. Taken(visitor)'
  BY <1>1 DEF BookInv, Taken
<1>10. WithinLimit(records)'
  <2> SUFFICES ASSUME NEW n \in Names
               PROVE  Cardinality(Of(records', n)) <= PerTunnelLimit
    BY DEF WithinLimit
  <2>1. /\ Cardinality(Of(records, n)) <= PerTunnelLimit
        /\ Cardinality(Of(records, n)) \in Nat /\ Cardinality(Of(s, n)) \in Nat
        /\ Cardinality(Of(records', n)) \in Nat /\ PerTunnelLimit \in Nat
    BY <1>2, <1>5, OfIsFinite, InspectorAssumption DEF BookInv, WithinLimit
  <2>2. CASE n # r.tunnel
    <3>1. Cardinality(Of(records', n)) <= Cardinality(Of(s, n))
      BY <1>5, ChosenIsFewer
    <3>2. QED
      BY <1>4, <2>1, <2>2, <3>1
  <2>3. CASE n = r.tunnel
    <3>1. CASE records' = s /\ Cardinality(Of(s, r.tunnel)) <= PerTunnelLimit
      BY <2>3, <3>1
    <3>2. CASE \E k \in Of(s, r.tunnel) : records' = RemoveAt(s, k)
      <4>1. Cardinality(Of(records', n)) = Cardinality(Of(s, n)) - 1
        BY <2>3, <3>2, RemoveOneOf
      <4>2. QED
        BY <1>4, <2>1, <2>3, <4>1
    <3>3. QED
      BY <1>5, <3>1, <3>2
  <2>4. QED
    BY <2>2, <2>3
<1>11. QED
  BY <1>1, <1>5, <1>7, <1>8, <1>9, <1>10 DEF BookInv

\* A response goes on the record with its number: that of the same request.
LEMMA RespondsKeeps ==
  ASSUME BookInv, LinkTypeOK, NEW v \in Visitors, visitor[v].at = "recorded",
         RecordResponse(visitor[v].record, v),
         visitor' = [visitor EXCEPT ![v] = Gone]
  PROVE  /\ BookInv'
         /\ DOMAIN records' = DOMAIN records
         /\ \A i \in DOMAIN records : records'[i].id = records[i].id
<1>1. /\ records \in Seq(RecordStates) /\ next_record' = next_record
      /\ visitor \in [Visitors -> VisitorStates]
  BY DEF BookInv, RecordResponse, LinkTypeOK
<1>2. \A i \in DOMAIN records : records[i] \in RecordStates
  BY <1>1
<1>3. /\ DOMAIN records' = DOMAIN records
      /\ \A i \in DOMAIN records : records'[i] =
           IF records[i].id = visitor[v].record THEN [records[i] EXCEPT !.status = v] ELSE records[i]
  BY DEF RecordResponse
<1>4. \A i \in DOMAIN records :
        /\ records'[i] \in RecordStates
        /\ records'[i].id = records[i].id /\ records'[i].tunnel = records[i].tunnel
        /\ records'[i].of = records[i].of
        /\ \/ records'[i].status = records[i].status
           \/ records[i].id = visitor[v].record /\ records'[i].status = v
  BY <1>2, <1>3 DEF RecordStates
<1>5. records' \in Seq(RecordStates)
  <2>1. PICK s : s = records'
    OBVIOUS
  <2>2. DOMAIN records = 1..Len(records) /\ Len(records) \in Nat
    BY <1>1
  <2>3. s = [i \in 1..Len(records) |-> s[i]]
    BY <1>3, <2>1, <2>2 DEF RecordResponse
  <2>4. \A i \in 1..Len(records) : s[i] \in RecordStates
    BY <1>4, <2>1, <2>2
  <2>5. QED
    BY <2>1, <2>2, <2>3, <2>4, IsASeq
<1>6. \A w \in Visitors : w # v => visitor'[w] = visitor[w]
  BY <1>1
<1>7. visitor'[v].at = "gone"
  BY <1>1 DEF Gone, Nowhere
<1>8. GoodBook(records, next_record, visitor)'
  <2>1. \A i \in DOMAIN records :
          records'[i].id \in 1..next_record /\ records'[i].status \in {Pending, records'[i].of}
    BY <1>4 DEF BookInv, GoodBook
  <2>2. \A i, j \in DOMAIN records : records'[i].id = records'[j].id => i = j
    BY <1>4 DEF BookInv, GoodBook
  <2>3. \A w \in Visitors, i \in DOMAIN records :
          /\ visitor'[w].at = "drawn" => records'[i].id # visitor'[w].record
          /\ visitor'[w].at = "recorded" /\ records'[i].id = visitor'[w].record => records'[i].of = w
    BY <1>4, <1>6, <1>7 DEF BookInv, GoodBook
  <2>4. QED
    BY <1>1, <1>3, <2>1, <2>2, <2>3 DEF GoodBook
<1>9. GoodNumbers(next_record, visitor)'
  BY <1>1, <1>6, <1>7 DEF BookInv, GoodNumbers, HasNumber
<1>10. Taken(visitor)'
  BY <1>6, <1>7 DEF BookInv, Taken
<1>11. WithinLimit(records)'
  <2>1. \A n : Of(records', n) = Of(records, n)
    BY <1>3, <1>4 DEF Of
  <2>2. QED
    BY <2>1 DEF BookInv, WithinLimit
<1>12. QED
  BY <1>1, <1>3, <1>4, <1>5, <1>8, <1>9, <1>10, <1>11 DEF BookInv

\* Clearing leaves some of the records.
LEMMA ClearChooses ==
  ASSUME BookInv, ClearAll \/ \E n \in Names : Clear(n)
  PROVE  records' \in Seq(RecordStates) /\ Chosen(records', records) /\ next_record' = next_record
<1>1. records \in Seq(RecordStates)
  BY DEF BookInv
<1>2. CASE ClearAll
  <2>1. PICK f : f = [j \in {} |-> j]
    OBVIOUS
  <2>2. f \in Injection({}, DOMAIN records)
    BY <2>1, Fun_IsInj
  <2>3. DOMAIN <<>> = {}
    OBVIOUS
  <2>4. Chosen(<<>>, records)
    BY <2>2, <2>3 DEF Chosen
  <2>5. QED
    BY <1>2, <2>4 DEF ClearAll
<1>3. ASSUME NEW n \in Names, Clear(n)
      PROVE  records' \in Seq(RecordStates) /\ Chosen(records', records)
  <2>1. PICK kept : kept = DOMAIN records \ Of(records, n)
    OBVIOUS
  <2>2. PICK m : m = Cardinality(kept)
    OBVIOUS
  <2>3. IsFiniteSet(kept) /\ m \in Nat /\ kept \subseteq DOMAIN records
    <3>1. IsFiniteSet(DOMAIN records)
      BY <1>1, FS_Interval
    <3>2. QED
      BY <2>1, <2>2, <3>1, FS_Subset, FS_CardinalityType
  <2>4. PICK at \in [1..m -> kept] :
          /\ \A j, k \in 1..m : j < k => at[j] < at[k]
          /\ records' = [k \in 1..m |-> records[at[k]]]
    <3>1. PICK a \in [1..m -> kept] :
            /\ \A j, k \in DOMAIN a : j < k => a[j] < a[k]
            /\ records' = [k \in DOMAIN a |-> records[a[k]]]
      BY <1>3, <2>1, <2>2 DEF Clear
    <3>2. DOMAIN a = 1..m
      OBVIOUS
    <3>3. QED
      BY <3>1, <3>2
  <2>5. \A j, k \in 1..m : at[j] = at[k] => j = k
    <3> SUFFICES ASSUME NEW j \in 1..m, NEW k \in 1..m, at[j] = at[k] PROVE j = k
      OBVIOUS
    <3>1. at[j] \in Nat /\ at[k] \in Nat
      BY <1>1, <2>3, <2>4
    <3>2. ~(j < k) /\ ~(k < j)
      BY <2>4, <3>1
    <3>3. QED
      BY <2>3, <3>2
  <2>6. at \in Injection(1..m, DOMAIN records)
    <3>1. at \in [1..m -> DOMAIN records]
      BY <2>3, <2>4
    <3>2. QED
      BY <2>5, <3>1, Fun_IsInj
  <2>7. \A k \in 1..m : records[at[k]] \in RecordStates
    BY <1>1, <2>3, <2>4
  <2>8. records' \in Seq(RecordStates)
    BY <2>3, <2>4, <2>7, IsASeq
  <2>9. DOMAIN records' = 1..m
    BY <2>4
  <2>10. QED
    BY <2>4, <2>6, <2>8, <2>9 DEF Chosen
<1>4. QED
  BY <1>2, <1>3 DEF ClearAll, Clear

-----------------------------------------------------------------------------
(* The theorems. *)

\* A route, once found, is that of a tunnel.
LEMMA RoutesTake ==
  ASSUME LinkInv, BookInv, NEW v \in Visitors, Routes(v)
  PROVE  BookInv'
<1>1. PICK home : Consistent(home)
  BY DEF LinkInv
<1>2. LinkTypeOK /\ visitor[v].at = "accepted" /\ visitor[v].id \in Ids
  BY <1>1 DEF Consistent, Homes, Routes, OnItsWay
<1>3. /\ visitor \in [Visitors -> VisitorStates] /\ visitor[v] \in VisitorStates
      /\ ports[visitor[v].id] \in Names \cup {None}
  BY <1>2 DEF LinkTypeOK
<1>4. \A w \in Visitors : w # v => visitor'[w] = visitor[w]
  BY <1>3 DEF Routes
<1>5. /\ visitor'[v].at \notin {"drawn", "recorded"}
      /\ visitor'[v].at = "served" => visitor'[v].taken_to \in Names
  <2>1. CASE ports[visitor[v].id] = None
    BY <1>3, <2>1 DEF Routes, VisitorStates
  <2>2. CASE ports[visitor[v].id] # None
    BY <1>3, <2>2 DEF Routes, Nowhere
  <2>3. QED
    BY <2>1, <2>2
<1>6. UNCHANGED <<records, next_record>>
  BY DEF Routes, inspectorVars
<1>7. QED
  BY <1>4, <1>5, <1>6, ElsewhereKeeps

\* The steps of a visitor that leave the book alone.
LEMMA VisitorElsewhere ==
  ASSUME BookInv, LinkTypeOK, NEW v \in Visitors,
         \/ \E n \in AsksFor[v] : Arrives(v, n)
         \/ Accepts(v) \/ DriverStops(v) \/ LeavesUnrecorded(v)
         \/ Leaves(v, "recorded") /\ UNCHANGED inspectorVars
  PROVE  BookInv'
<1>1. visitor \in [Visitors -> VisitorStates]
  BY DEF LinkTypeOK
<1>2. UNCHANGED <<records, next_record>>
  BY DEF Arrives, Accepts, DriverStops, LeavesUnrecorded, inspectorVars
<1>3. Gone.at = "gone"
  BY DEF Gone, Nowhere
<1>4. \A w \in Visitors : visitor'[w] = visitor[w] \/ visitor'[w].at \in {"gone", "stream", "accepted"}
  <2>1. CASE \E n \in AsksFor[v] : Arrives(v, n)
    <3>1. PICK h \in AsksFor[v] : Arrives(v, h)
      BY <2>1
    <3>2. CASE mux = "gone"
      <4>1. visitor' = [visitor EXCEPT ![v] = Gone]
        BY <3>1, <3>2 DEF Arrives
      <4>2. QED
        BY <1>1, <1>3, <4>1
    <3>3. CASE mux # "gone"
      <4>1. PICK x : x = [Nowhere EXCEPT !.at = "stream", !.name = tunnels[h].name, !.id = StreamHeader(h),
                                         !.promised = promised[tunnels[h].name] = StreamHeader(h)]
        OBVIOUS
      <4>2. visitor' = [visitor EXCEPT ![v] = x]
        BY <3>1, <3>3, <4>1 DEF Arrives
      <4>3. x.at = "stream"
        BY <4>1 DEF Nowhere
      <4>4. QED
        BY <1>1, <4>2, <4>3
    <3>4. QED
      BY <3>2, <3>3
  <2>2. CASE Accepts(v)
    BY <1>1, <2>2 DEF Accepts, Moves, VisitorStates
  <2>3. CASE DriverStops(v)
    BY <1>1, <1>3, <2>3 DEF DriverStops, VisitorsCutOff
  <2>4. CASE Leaves(v, "served") \/ Leaves(v, "recorded")
    BY <1>1, <1>3, <2>4 DEF Leaves
  <2>5. QED
    BY <2>1, <2>2, <2>3, <2>4 DEF LeavesUnrecorded
<1>5. QED
  BY <1>2, <1>4, ElsewhereKeeps

\* The book is good in every state: each record has a number of its own, which is
\* that of the request whose outcome it shows, and no tunnel has more of them than
\* the limit.
THEOREM BookInvariant == Spec => []BookInv
<1>1. Init => BookInv
  <2> SUFFICES ASSUME Init PROVE BookInv
    OBVIOUS
  <2>1. records = <<>> /\ next_record = 0 /\ \A v \in Visitors : visitor[v].at = "away"
    BY DEF Init, InspectorInit, Nowhere
  <2>2. \A n : Of(records, n) = {}
    BY <2>1 DEF Of
  <2>3. WithinLimit(records)
    <3>1. 0 <= PerTunnelLimit
      BY InspectorAssumption
    <3>2. \A n : Cardinality(Of(records, n)) = 0
      BY <2>2, FS_EmptySet
    <3>3. QED
      BY <3>1, <3>2 DEF WithinLimit
  <2>4. QED
    BY <2>1, <2>3 DEF BookInv, GoodBook, GoodNumbers, Taken, HasNumber
<1>2. LinkInv /\ BookInv /\ [Next]_vars => BookInv'
  <2> SUFFICES ASSUME LinkInv, BookInv, [Next]_vars PROVE BookInv'
    OBVIOUS
  <2>1. LinkTypeOK
    BY DEF LinkInv, Consistent
  <2>2. CASE UNCHANGED <<records, next_record, visitor>>
    BY <2>2, ElsewhereKeeps
  <2>3. CASE Breaks
    <3>1. UNCHANGED <<records, next_record>>
      BY <2>3 DEF Breaks, inspectorVars
    <3>2. \A v \in Visitors : visitor'[v] = visitor[v] \/ visitor'[v].at = "gone"
      BY <2>3 DEF Breaks, VisitorsCutOff, Gone, Nowhere
    <3>3. QED
      BY <3>1, <3>2, ElsewhereKeeps
  <2>4. CASE UserClears
    <3>1. /\ records \in Seq(RecordStates) /\ records' \in Seq(RecordStates)
          /\ Chosen(records', records) /\ next_record' = next_record
      BY <2>4, ClearChooses DEF UserClears, BookInv
    <3>2. visitor' = visitor
      BY <2>4 DEF UserClears
    <3>3. /\ GoodBook(records, next_record, visitor) /\ WithinLimit(records)
          /\ GoodNumbers(next_record, visitor) /\ Taken(visitor) /\ next_record \in Nat
      BY DEF BookInv
    <3>4. GoodBook(records', next_record, visitor) /\ WithinLimit(records')
      BY <3>1, <3>3, ChosenIsGood
    <3>5. QED
      BY <3>1, <3>2, <3>3, <3>4 DEF BookInv
  <2>5. ASSUME NEW v \in Visitors, Visitor(v) PROVE BookInv'
    <3>1. CASE \/ \E n \in AsksFor[v] : Arrives(v, n)
               \/ Accepts(v) \/ DriverStops(v) \/ LeavesUnrecorded(v)
               \/ Leaves(v, "recorded") /\ UNCHANGED inspectorVars
      BY <2>1, <3>1, VisitorElsewhere
    <3>2. CASE Routes(v)
      BY <3>2, RoutesTake
    <3>3. CASE DrawsRecord(v)
      BY <2>1, <3>3, DrawsKeeps
    <3>4. CASE Records(v)
      BY <2>1, <3>4, RecordsKeeps
    <3>5. CASE RecordsStatus(v) /\ RecordResponse(visitor[v].record, v)
      BY <2>1, <3>5, RespondsKeeps DEF RecordsStatus, Leaves
    <3>6. QED
      BY <2>5, <3>1, <3>2, <3>3, <3>4, <3>5 DEF Visitor, RecordsStatus
  <2>6. CASE Engine \/ ControlLoop \/ Server \/ DataPlaneEnds \/ UNCHANGED vars
    <3>1. UNCHANGED <<records, next_record, visitor>>
      BY <2>6
         DEF Engine, CallOpen, CallClose, Disconnect, ControlLoop, SeesCancel, SendOpen, SendFails,
             SendClose, Opened, Reply, Refused, Dismissed, EndLoop, LoopGone, Server, ServerOpens,
             ServerRefuses, ServerCloses, ServerKicks, ServerLeaves, DataPlaneEnds, vars, inspectorVars
    <3>2. QED
      BY <2>2, <3>1
  <2>7. QED
    BY <2>3, <2>4, <2>5, <2>6 DEF Next
<1>3. QED
  BY <1>1, <1>2, LinkInvariant, PTL DEF Spec

\* What is shown as the outcome of a request is that request's, whatever other
\* tasks have recorded between a task's two calls (record_response() finds the
\* record by its number).
THEOREM OutcomesAreOwn == Spec => []ResponseOnOwnRecord
<1>1. BookInv => ResponseOnOwnRecord
  BY DEF BookInv, GoodBook, ResponseOnOwnRecord
<1>2. QED
  BY <1>1, BookInvariant, PTL

\* A record that leaves as another comes.
LEMMA OnlyOwnLeaves ==
  ASSUME BookInv, LinkTypeOK, NEW v \in Visitors, Records(v),
         NEW i \in DOMAIN records, NEW k \in DOMAIN records',
         \A j \in DOMAIN records' : records'[j].id # records[i].id,
         \A j \in DOMAIN records : records[j].id # records'[k].id
  PROVE  /\ records[i].tunnel = records'[k].tunnel
         /\ Cardinality(Of(records', records'[k].tunnel)) = PerTunnelLimit
<1>1. PICK r \in RecordStates :
        /\ r.tunnel \in Names
        /\ records' = EvictOldest(Append(records, r), r.tunnel)
  BY Recording
<1>2. records \in Seq(RecordStates)
  BY DEF BookInv
<1>3. PICK s \in Seq(RecordStates) : s = Append(records, r)
  BY <1>2, AddOne
<1>4. /\ \A j \in DOMAIN s : (j \in DOMAIN records /\ s[j] = records[j]) \/ s[j] = r
      /\ \A j \in DOMAIN records : j \in DOMAIN s /\ s[j] = records[j]
      /\ Cardinality(Of(s, r.tunnel)) <= Cardinality(Of(records, r.tunnel)) + 1
  BY <1>2, <1>3, AddOne
<1>5. /\ records' \in Seq(RecordStates) /\ Chosen(records', s)
      /\ \/ records' = s
         \/ /\ Cardinality(Of(s, r.tunnel)) > PerTunnelLimit
            /\ \E l \in Of(s, r.tunnel) : records' = RemoveAt(s, l)
  BY <1>1, <1>3, Eviction
<1>6. records' # s
  BY <1>4
<1>7. PICK l \in Of(s, r.tunnel) : records' = RemoveAt(s, l)
  BY <1>5, <1>6
<1>8. i = l
  <2>1. i \in DOMAIN s /\ s[i] = records[i]
    BY <1>4
  <2>2. \A m \in DOMAIN s \ {l} : \E j \in DOMAIN records' : records'[j] = s[m]
    BY <1>7, RemoveOneOf
  <2>3. QED
    BY <2>1, <2>2
<1>9. records[i].tunnel = r.tunnel
  BY <1>4, <1>7, <1>8 DEF Of
<1>10. records'[k] = r
  <2>1. PICK m \in DOMAIN s : records'[k] = s[m]
    BY <1>5, ChosenIsGood
  <2>2. QED
    BY <1>4, <2>1
<1>11. Cardinality(Of(records', r.tunnel)) = PerTunnelLimit
  <2>1. Cardinality(Of(records', r.tunnel)) = Cardinality(Of(s, r.tunnel)) - 1
    BY <1>7, RemoveOneOf
  <2>2. /\ Cardinality(Of(records, r.tunnel)) \in Nat /\ Cardinality(Of(s, r.tunnel)) \in Nat
        /\ PerTunnelLimit \in Nat
    BY <1>2, OfIsFinite, InspectorAssumption
  <2>3. Cardinality(Of(records, r.tunnel)) <= PerTunnelLimit
    BY <1>1 DEF BookInv, WithinLimit
  <2>4. QED
    BY <1>4, <1>5, <1>6, <2>1, <2>2, <2>3
<1>12. QED
  BY <1>9, <1>10, <1>11

\* A record makes room for one of its own tunnel only, when that has a full set of
\* others: a busy tunnel does not push out the requests of a quiet one.
THEOREM QuietTunnelsKeepTheirs == Spec => OthersRecordsKept
<1> DEFINE Kept ==
      \A i \in DOMAIN records, k \in DOMAIN records' :
        LET old == records[i]
            new == records'[k]
        IN  /\ \A j \in DOMAIN records' : records'[j].id # old.id
            /\ \A j \in DOMAIN records : records[j].id # new.id
            => /\ old.tunnel = new.tunnel
               /\ Cardinality(Of(records', new.tunnel)) = PerTunnelLimit
<1>1. LinkInv /\ BookInv /\ [Next]_vars => [Kept]_records
  <2> SUFFICES ASSUME LinkInv, BookInv, [Next]_vars, records' # records,
                      NEW i \in DOMAIN records, NEW k \in DOMAIN records',
                      \A j \in DOMAIN records' : records'[j].id # records[i].id,
                      \A j \in DOMAIN records : records[j].id # records'[k].id
               PROVE  /\ records[i].tunnel = records'[k].tunnel
                      /\ Cardinality(Of(records', records'[k].tunnel)) = PerTunnelLimit
    OBVIOUS
  <2>1. LinkTypeOK /\ records \in Seq(RecordStates)
    BY DEF LinkInv, Consistent, BookInv
  <2>2. ~(UserClears)
    <3> SUFFICES ASSUME UserClears PROVE FALSE
      OBVIOUS
    <3>1. records' \in Seq(RecordStates) /\ Chosen(records', records)
      BY ClearChooses DEF UserClears
    <3>2. \E j \in DOMAIN records : records'[k] = records[j]
      BY <2>1, <3>1, ChosenIsGood
    <3>3. QED
      BY <3>2
  <2>3. PICK v \in Visitors : Visitor(v)
    BY <2>2
       DEF Next, Engine, CallOpen, CallClose, Disconnect, ControlLoop, SeesCancel, SendOpen, SendFails,
           SendClose, Opened, Reply, Refused, Dismissed, EndLoop, LoopGone, Server, ServerOpens,
           ServerRefuses, ServerCloses, ServerKicks, ServerLeaves, DataPlaneEnds, Breaks, vars,
           inspectorVars
  <2>4. ~(RecordsStatus(v) /\ RecordResponse(visitor[v].record, v))
    <3> SUFFICES ASSUME RecordsStatus(v), RecordResponse(visitor[v].record, v) PROVE FALSE
      OBVIOUS
    <3>1. DOMAIN records' = DOMAIN records /\ records'[i].id = records[i].id
      BY <2>1, RespondsKeeps DEF RecordsStatus, Leaves
    <3>2. QED
      BY <3>1
  <2>5. Records(v)
    BY <2>3, <2>4
       DEF Visitor, Arrives, Accepts, DriverStops, Routes, LeavesUnrecorded, DrawsRecord, DrawRecordId,
           RecordsStatus, inspectorVars
  <2>6. QED
    BY <2>1, <2>5, OnlyOwnLeaves
<1>2. QED
  BY <1>1, LinkInvariant, BookInvariant, PTL DEF Spec, OthersRecordsKept
=============================================================================

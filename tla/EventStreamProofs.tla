------------------------- MODULE EventStreamProofs -------------------------
(***************************************************************************)
(* What a client of a run's event stream may rely on, for every number of  *)
(* clients and every size of the run, the buffer and the backlog.          *)
(***************************************************************************)
EXTENDS EventStream, FiniteSetTheorems, WellFoundedInduction, TLAPS

---------------------------------------------------------------------------
(* Sets of naturals: least and largest elements, and the sorted reading of *)
(* a query's rows.                                                         *)

\* Every nonempty set of naturals has a least element.
LEMMA LeastElement ==
  ASSUME NEW T \in SUBSET Nat, T # {}
  PROVE  \E m \in T : \A x \in T : m <= x
<1>1. PICK m \in T : \A y \in T : ~ (<<y, m>> \in OpToRel(<, Nat))
  BY NatLessThanWellFounded, WFMin
<1>2. \A y \in T : ~ (y < m)
  BY <1>1 DEF OpToRel
<1> QED BY <1>2

\* Largest(S) is 0 for the empty set and the maximum of any other.
LEMMA LargestIsMax ==
  ASSUME NEW n \in Nat, NEW S \in SUBSET (0..n)
  PROVE  /\ Largest(S) \in 0..n
         /\ Largest(S) # 0 => Largest(S) \in S
         /\ \A s \in S : s <= Largest(S)
<1>1. \E m \in S \cup {0} : \A s \in S : s <= m
  <2>1. CASE S = {} BY <2>1
  <2>2. CASE S # {}
    <3> DEFINE T == {n - s : s \in S}
    <3>0. ASSUME NEW s \in S PROVE n - s \in Nat
      <4>1. s \in 0..n OBVIOUS
      <4> QED BY <4>1
    <3>1. T \in SUBSET Nat /\ T # {} BY <2>2, <3>0
    <3>2. PICK m \in T : \A x \in T : m <= x BY <3>1, LeastElement
    <3>3. PICK s \in S : m = n - s BY <3>2
    <3>4. \A x \in S : n - x \in T OBVIOUS
    <3>5. \A x \in S : x <= s BY <3>2, <3>3, <3>4
    <3> QED BY <3>5
  <2> QED BY <2>1, <2>2
<1>2. Largest(S) \in S \cup {0} /\ \A s \in S : s <= Largest(S)
  BY <1>1 DEF Largest
<1>3. 0 \in 0..n /\ \A s \in S : s \in 0..n OBVIOUS
<1> QED BY <1>2, <1>3

\* For every k below the size of S one element has exactly k below it.
LEMMA RankExists ==
  ASSUME NEW S \in SUBSET Nat, IsFiniteSet(S), NEW k \in 0..(Cardinality(S) - 1)
  PROVE  \E s \in S : Cardinality({t \in S : t < s}) = k
<1> DEFINE Below(s) == {t \in S : t < s}
           Bad == {j \in 0..(Cardinality(S) - 1) : ~ \E s \in S : Cardinality(Below(s)) = j}
<1>0. Cardinality(S) \in Nat BY FS_CardinalityType
<1>1. SUFFICES ASSUME Bad # {} PROVE FALSE OBVIOUS
<1>2. Bad \in SUBSET Nat BY <1>0
<1>3. PICK j \in Bad : \A i \in Bad : j <= i BY <1>1, <1>2, LeastElement
<1>4. j \in Nat /\ j < Cardinality(S) BY <1>0, <1>3
<1>5. CASE j = 0
  <2>1. S # {} BY <1>4, <1>5, FS_EmptySet
  <2>2. PICK m \in S : \A x \in S : m <= x BY <2>1, LeastElement
  <2>3. \A t \in S : ~ (t < m) BY <2>2
  <2>4. Below(m) = {} BY <2>3
  <2> QED BY <2>4, <1>3, <1>5, FS_EmptySet
<1>6. CASE j # 0
  <2>0. j - 1 \in 0..(Cardinality(S) - 1) BY <1>0, <1>4, <1>6
  <2>1. j - 1 \notin Bad
    <3>1. ~ (j <= j - 1) BY <1>4
    <3> QED BY <3>1, <1>3
  <2>2. PICK s \in S : Cardinality(Below(s)) = j - 1 BY <2>0, <2>1
  <2>3. s \notin Below(s) /\ Below(s) \in SUBSET S BY <2>2
  <2>4. IsFiniteSet(Below(s)) BY <2>3, FS_Subset
  <2> DEFINE U == Below(s) \cup {s}
  <2>5. Cardinality(U) = j
    <3>1. Cardinality(U) = Cardinality(Below(s)) + 1 BY <2>3, <2>4, FS_AddElement
    <3> QED BY <3>1, <2>2, <1>4
  <2>6. U # S
    <3>1. Cardinality(U) # Cardinality(S) BY <2>5, <1>0, <1>4
    <3> QED BY <3>1
  <2>7. S \ U # {} /\ S \ U \in SUBSET Nat BY <2>6, <2>3
  <2>8. PICK m \in S \ U : \A x \in S \ U : m <= x BY <2>7, LeastElement
  <2>9. Below(m) = U
    <3>1. m \in Nat /\ s \in Nat /\ m > s BY <2>8
    <3>2. ASSUME NEW t \in S PROVE t < m <=> t \in U
      <4>1. t \in Nat OBVIOUS
      <4>2. CASE t \in U BY <4>1, <4>2, <3>1
      <4>3. CASE t \notin U BY <4>1, <4>3, <2>8, <3>1
      <4> QED BY <4>2, <4>3
    <3> QED BY <3>2, <2>3
  <2> QED BY <2>5, <2>9, <1>3
<1> QED BY <1>5, <1>6

\* ORDER BY seq LIMIT n: rows of the set, in ascending order, and all of them
\* when the limit does not bite.
LEMMA FirstRowsSorted ==
  ASSUME NEW m \in Nat, NEW S \in SUBSET (1..m), NEW n \in Nat
  PROVE  /\ FirstRows(S, n) \in Seq(S)
         /\ Ascending(FirstRows(S, n))
         /\ n >= m => S \subseteq ToSet(FirstRows(S, n))
<1> DEFINE Below(s) == {t \in S : t < s}
           len == IF Cardinality(S) < n THEN Cardinality(S) ELSE n
           q == FirstRows(S, n)
<1>1. IsFiniteSet(S) /\ Cardinality(S) \in Nat /\ Cardinality(S) <= m /\ S \in SUBSET Nat
  <2>1. IsFiniteSet(1..m) /\ Cardinality(1..m) = m BY FS_Interval
  <2>2. IsFiniteSet(S) /\ Cardinality(S) <= m BY <2>1, FS_Subset
  <2>3. Cardinality(S) \in Nat BY <2>2, FS_CardinalityType
  <2>4. \A s \in S : s \in Nat OBVIOUS
  <2> QED BY <2>2, <2>3, <2>4
<1>2. len \in Nat /\ len <= Cardinality(S) BY <1>1
<1> HIDE DEF len
<1>3. \A i \in 1..len : q[i] \in S /\ Cardinality(Below(q[i])) = i - 1
  <2>1. TAKE i \in 1..len
  <2>2. i - 1 \in 0..(Cardinality(S) - 1) BY <1>1, <1>2
  <2>3. \E s \in S : Cardinality(Below(s)) = i - 1 BY <2>2, <1>1, RankExists
  <2>4. q[i] = CHOOSE s \in S : Cardinality(Below(s)) = i - 1 BY DEF FirstRows, len
  <2> QED BY <2>3, <2>4
<1>4. q = [i \in 1..len |-> q[i]] /\ DOMAIN q = 1..len
  <2>1. q = [i \in 1..len |-> CHOOSE s \in S : Cardinality({t \in S : t < s}) = i - 1]
    BY DEF FirstRows, len
  <2> HIDE DEF q
  <2> QED BY <2>1
<1>5. q \in Seq(S) /\ Len(q) = len
  <2>1. \E k \in Nat : q \in [1..k -> S] BY <1>2, <1>3, <1>4
  <2> QED BY <2>1, <1>2, <1>4
<1> HIDE DEF q
<1>6. ASSUME NEW s \in S, NEW t \in S, Cardinality(Below(s)) < Cardinality(Below(t)) PROVE s < t
  <2>1. SUFFICES ASSUME t <= s PROVE FALSE BY <1>1
  <2>0. \A x \in S : x < t => x < s BY <2>1, <1>1
  <2>2. Below(t) \in SUBSET Below(s) BY <2>0
  <2>3. IsFiniteSet(Below(s)) /\ IsFiniteSet(Below(t)) BY <1>1, FS_Subset
  <2>4. Cardinality(Below(t)) <= Cardinality(Below(s)) BY <2>2, <2>3, FS_Subset
  <2>5. Cardinality(Below(t)) \in Nat /\ Cardinality(Below(s)) \in Nat
    BY <2>3, FS_CardinalityType
  <2> QED BY <2>4, <2>5, <1>6
<1>7. Ascending(q)
  <2>1. SUFFICES ASSUME NEW i \in 1..len, NEW j \in 1..len, i < j PROVE q[i] < q[j]
    BY <1>5 DEF Ascending
  <2>2. i - 1 < j - 1 BY <2>1, <1>2
  <2> QED BY <2>2, <1>3, <1>6
<1>8. ASSUME n >= m, NEW s \in S PROVE s \in ToSet(q)
  <2>1. len = Cardinality(S) BY <1>8, <1>1 DEF len
  <2>2. Below(s) \in SUBSET (S \ {s})
    <3>1. s \in Nat /\ ~ (s < s) BY <1>1
    <3> QED BY <3>1
  <2>3. IsFiniteSet(S \ {s}) /\ Cardinality(S \ {s}) = Cardinality(S) - 1 BY <1>1, FS_RemoveElement
  <2>4. Cardinality(Below(s)) <= Cardinality(S) - 1 /\ IsFiniteSet(Below(s))
    BY <2>2, <2>3, FS_Subset
  <2>5. Cardinality(Below(s)) \in Nat BY <2>4, FS_CardinalityType
  <2> DEFINE i == Cardinality(Below(s)) + 1
  <2>6. i \in 1..len BY <1>1, <2>1, <2>4, <2>5
  <2>7. Cardinality(Below(q[i])) = Cardinality(Below(s)) /\ q[i] \in S BY <2>6, <2>5, <1>3
  <2>8. q[i] = s
    <3>1. ASSUME NEW x \in S, NEW y \in S, x < y PROVE Cardinality(Below(x)) # Cardinality(Below(y))
      <4>0. \A t \in S : t < x => t < y BY <3>1, <1>1
      <4>1. Below(x) \in SUBSET Below(y) BY <4>0
      <4>2. x \in Below(y) /\ x \notin Below(x) BY <3>1, <1>1
      <4>3. Below(x) # Below(y) BY <4>2
      <4>4. IsFiniteSet(Below(y)) BY <1>1, FS_Subset
      <4> QED BY <4>1, <4>3, <4>4, FS_Subset
    <3>2. q[i] \in Nat /\ s \in Nat BY <2>7, <1>1
    <3>3. q[i] < s \/ s < q[i] \/ q[i] = s BY <3>2
    <3> QED BY <2>7, <3>1, <3>3
  <2> QED BY <2>6, <2>8, <1>4 DEF ToSet
<1>9. n >= m => S \subseteq ToSet(q) BY <1>8
<1> QED BY <1>5, <1>7, <1>9 DEF q

---------------------------------------------------------------------------
(* Sequences: what appending, joining and taking the head does to order    *)
(* and to the set of elements.                                             *)

LEMMA SetOfAppend ==
  ASSUME NEW S, NEW q \in Seq(S), NEW e \in S
  PROVE  ToSet(Append(q, e)) = ToSet(q) \cup {e}
<1>1. DOMAIN Append(q, e) = 1..(Len(q) + 1) /\ DOMAIN q = 1..Len(q) /\ Len(q) \in Nat OBVIOUS
<1>2. \A i \in 1..Len(q) : Append(q, e)[i] = q[i] OBVIOUS
<1>3. Append(q, e)[Len(q) + 1] = e OBVIOUS
<1>4. \A i \in 1..(Len(q) + 1) : i \in 1..Len(q) \/ i = Len(q) + 1 BY <1>1
<1>5. \A i \in 1..Len(q) : i \in 1..(Len(q) + 1) BY <1>1
<1>6. Len(q) + 1 \in 1..(Len(q) + 1) BY <1>1
<1> QED BY <1>1, <1>2, <1>3, <1>4, <1>5, <1>6, Zenon DEF ToSet

LEMMA SetOfJoin ==
  ASSUME NEW S, NEW p \in Seq(S), NEW q \in Seq(S)
  PROVE  ToSet(p \o q) = ToSet(p) \cup ToSet(q)
<1>1. Len(p) \in Nat /\ Len(q) \in Nat /\ Len(p \o q) = Len(p) + Len(q) OBVIOUS
<1>2. DOMAIN p = 1..Len(p) /\ DOMAIN q = 1..Len(q) /\ DOMAIN (p \o q) = 1..(Len(p) + Len(q)) OBVIOUS
<1>3. \A i \in 1..(Len(p) + Len(q)) :
        (p \o q)[i] = IF i <= Len(p) THEN p[i] ELSE q[i - Len(p)] OBVIOUS
<1>4. ASSUME NEW i \in 1..Len(p) PROVE i \in 1..(Len(p) + Len(q)) /\ (p \o q)[i] = p[i]
  BY <1>1, <1>3
<1>5. ASSUME NEW i \in 1..Len(q)
      PROVE  Len(p) + i \in 1..(Len(p) + Len(q)) /\ (p \o q)[Len(p) + i] = q[i]
  BY <1>1, <1>3
<1>6. ASSUME NEW i \in 1..(Len(p) + Len(q))
      PROVE  \/ i \in 1..Len(p) /\ (p \o q)[i] = p[i]
             \/ i - Len(p) \in 1..Len(q) /\ (p \o q)[i] = q[i - Len(p)]
  BY <1>1, <1>3
<1> DEFINE r == p \o q
<1>7. DOMAIN r = 1..(Len(p) + Len(q)) BY <1>2
<1>8. \A i \in 1..Len(p) : i \in DOMAIN r /\ r[i] = p[i] BY <1>4, <1>7
<1>9. \A i \in 1..Len(q) : Len(p) + i \in DOMAIN r /\ r[Len(p) + i] = q[i] BY <1>5, <1>7
<1>10. \A i \in DOMAIN r : (i \in 1..Len(p) /\ r[i] = p[i])
                           \/ (i - Len(p) \in 1..Len(q) /\ r[i] = q[i - Len(p)]) BY <1>6, <1>7
<1> HIDE DEF r
<1>11. ToSet(r) = ToSet(p) \cup ToSet(q) BY <1>2, <1>8, <1>9, <1>10 DEF ToSet
<1> QED BY <1>11 DEF r

LEMMA SetOfTail ==
  ASSUME NEW S, NEW q \in Seq(S), q # <<>>
  PROVE  ToSet(q) = {Head(q)} \cup ToSet(Tail(q))
<1>1. Len(q) \in Nat /\ Len(q) # 0 /\ Len(Tail(q)) = Len(q) - 1 /\ Tail(q) \in Seq(S) OBVIOUS
<1>2. DOMAIN q = 1..Len(q) /\ DOMAIN Tail(q) = 1..(Len(q) - 1) BY <1>1
<1>3. \A i \in 1..(Len(q) - 1) : Tail(q)[i] = q[i + 1] /\ i + 1 \in 1..Len(q) BY <1>1
<1>4. Head(q) = q[1] /\ 1 \in 1..Len(q) BY <1>1
<1>5. \A i \in 1..Len(q) : i = 1 \/ (i - 1 \in 1..(Len(q) - 1) /\ Tail(q)[i - 1] = q[i])
  BY <1>1
<1> DEFINE r == Tail(q)
           h == Head(q)
<1>6. /\ DOMAIN r = 1..(Len(q) - 1)
      /\ \A i \in DOMAIN r : r[i] = q[i + 1] /\ i + 1 \in DOMAIN q
      /\ h = q[1] /\ 1 \in DOMAIN q
      /\ \A i \in DOMAIN q : i = 1 \/ (i - 1 \in DOMAIN r /\ r[i - 1] = q[i])
  BY <1>2, <1>3, <1>4, <1>5
<1> HIDE DEF r, h
<1>7. ToSet(q) = {h} \cup ToSet(r) BY <1>6 DEF ToSet
<1> QED BY <1>7 DEF r, h

LEMMA AscendingAppend ==
  ASSUME NEW q \in Seq(Nat), NEW e \in Nat, Ascending(q), \A s \in ToSet(q) : s < e
  PROVE  Ascending(Append(q, e))
<1>1. \A i \in 1..Len(q) : q[i] < e BY DEF ToSet
<1> QED BY <1>1 DEF Ascending

LEMMA AscendingTail ==
  ASSUME NEW q \in Seq(Nat), q # <<>>, Ascending(q)
  PROVE  Ascending(Tail(q)) /\ \A t \in ToSet(Tail(q)) : Head(q) < t
<1>1. Len(q) \in Nat /\ Len(q) # 0 /\ Len(Tail(q)) = Len(q) - 1 /\ Tail(q) \in Seq(Nat) OBVIOUS
<1>2. \A i \in 1..(Len(q) - 1) : Tail(q)[i] = q[i + 1] BY <1>1
<1>3. Head(q) = q[1] OBVIOUS
<1>4. Ascending(Tail(q)) BY <1>1, <1>2 DEF Ascending
<1>5. \A i \in 1..(Len(q) - 1) : q[1] < q[i + 1] BY <1>1 DEF Ascending
<1>6. DOMAIN Tail(q) = 1..(Len(q) - 1) BY <1>1
<1> QED BY <1>2, <1>3, <1>4, <1>5, <1>6 DEF ToSet

LEMMA AscendingJoin ==
  ASSUME NEW p \in Seq(Nat), NEW q \in Seq(Nat), Ascending(p), Ascending(q),
         \A s \in ToSet(p), t \in ToSet(q) : s < t
  PROVE  Ascending(p \o q)
<1>1. \A i \in 1..Len(p), j \in 1..Len(q) : p[i] < q[j] BY DEF ToSet
<1>2. Len(p \o q) = Len(p) + Len(q) /\ Len(p) \in Nat /\ Len(q) \in Nat OBVIOUS
<1>3. SUFFICES ASSUME NEW i \in 1..(Len(p) + Len(q)), NEW j \in 1..(Len(p) + Len(q)), i < j
               PROVE  (p \o q)[i] < (p \o q)[j]
  BY <1>2 DEF Ascending
<1>4. CASE j <= Len(p) BY <1>2, <1>3, <1>4 DEF Ascending
<1>5. CASE i > Len(p)
  <2>1. (p \o q)[i] = q[i - Len(p)] /\ (p \o q)[j] = q[j - Len(p)] BY <1>2, <1>3, <1>5
  <2>2. i - Len(p) \in 1..Len(q) /\ j - Len(p) \in 1..Len(q) /\ i - Len(p) < j - Len(p)
    BY <1>2, <1>3, <1>5
  <2> QED BY <2>1, <2>2 DEF Ascending
<1>6. CASE i <= Len(p) /\ j > Len(p)
  <2>1. (p \o q)[i] = p[i] /\ (p \o q)[j] = q[j - Len(p)] BY <1>2, <1>3, <1>6
  <2>2. i \in 1..Len(p) /\ j - Len(p) \in 1..Len(q) BY <1>2, <1>3, <1>6
  <2> QED BY <2>1, <2>2, <1>1
<1> QED BY <1>2, <1>3, <1>4, <1>5, <1>6

LEMMA EmptySequence == ToSet(<<>>) = {} /\ Ascending(<<>>)
  BY DEF ToSet, Ascending

\* A record of sequences is a sequence of naturals.
LEMMA SeqsAreNat == Seqs \subseteq Nat /\ 0..MaxSeq \subseteq Nat /\ Seqs \subseteq 0..MaxSeq
                    /\ \A q \in Seq(Seqs) : q \in Seq(Nat) /\ ToSet(q) \subseteq Seqs
<1>1. Seqs \subseteq Nat /\ 0..MaxSeq \subseteq Nat /\ Seqs \subseteq 0..MaxSeq BY DEF Seqs
<1>2. ASSUME NEW q \in Seq(Seqs) PROVE q \in Seq(Nat)
  <2>1. Len(q) \in Nat /\ q \in [1..Len(q) -> Seqs] OBVIOUS
  <2>2. q \in [1..Len(q) -> Nat] BY <2>1, <1>1
  <2> QED BY <2>1, <2>2
<1>3. ASSUME NEW q \in Seq(Seqs) PROVE ToSet(q) \subseteq Seqs BY DEF ToSet
<1> QED BY <1>1, <1>2, <1>3

---------------------------------------------------------------------------
(* The ordered part of the invariant, one client at a time.                *)

SameClient(c) ==
  /\ got'[c] = got[c] /\ backlog'[c] = backlog[c] /\ chan'[c] = chan[c]
  /\ pc'[c] = pc[c] /\ after'[c] = after[c]

\* A client no variable of which changes stays in order, though it may have
\* been cut off.
LEMMA FrameClient ==
  ASSUME NEW c \in Clients, ClientOrdered(c), SameClient(c), c \in subs' => c \in subs
  PROVE  ClientOrdered(c)'
  BY DEF ClientOrdered, SameClient, Coming

LEMMA InitOrdered == StreamInit => StreamOrdered
<1> SUFFICES ASSUME StreamInit PROVE StreamOrdered OBVIOUS
<1> USE DEF StreamInit
<1>1. StreamTypeOK
  <2>1. <<>> \in Seq(Seqs) /\ Len(<<>>) = 0 OBVIOUS
  <2>2. 0 \in 0..MaxSeq /\ 0 \in 0..MaxDrops /\ 0 <= Buffer BY StreamAssumption
  <2>3. /\ row \in [Seqs -> RowKinds] /\ pending \in Seq(Seqs) /\ closing \in BOOLEAN
        /\ pc \in [Clients -> {"out", "rows", "register", "on"}] /\ subs \subseteq Clients
    BY <2>1 DEF RowKinds
  <2>4. /\ mark \in [Clients -> 0..MaxSeq] /\ after \in [Clients -> 0..MaxSeq]
        /\ synced \in [Clients -> 0..MaxSeq] /\ drops \in [Clients -> 0..MaxDrops]
        /\ closes \in [Clients -> Nat]
    BY <2>2
  <2>5. /\ backlog \in [Clients -> Seq(Seqs)] /\ chan \in [Clients -> Seq(Seqs)]
        /\ got \in [Clients -> Seq(Seqs)]
    BY <2>1
  <2>6. \A c \in Clients : Len(chan[c]) <= Buffer BY <2>1, <2>2
  <2> QED BY <2>3, <2>4, <2>5, <2>6 DEF StreamTypeOK
<1>2. ChannelClosedOnce BY DEF ChannelClosedOnce
<1>3. ASSUME NEW c \in Clients PROVE Coming(c) = {} /\ ToSet(got[c]) = {}
  BY EmptySequence DEF Coming
<1>4. OnlyRowsUntilEnd BY <1>3 DEF OnlyRowsUntilEnd
<1>5. EndStillToCome BY EmptySequence DEF EndStillToCome, Ended
<1>6. ASSUME NEW c \in Clients PROVE ClientOrdered(c)
  BY <1>3, EmptySequence DEF ClientOrdered
<1> QED BY <1>1, <1>2, <1>4, <1>5, <1>6 DEF StreamOrdered

---------------------------------------------------------------------------
(* The database.                                                           *)

\* A new row comes after every row there is.
LEMMA NextSeqIsNew ==
  ASSUME StreamTypeOK
  PROVE  NextSeq \in 1..(MaxSeq + 1) /\ \A s \in Seqs : row[s] # "none" => s < NextSeq
<1> DEFINE S == {s \in Seqs : row[s] # "none"}
<1>1. S \in SUBSET (0..MaxSeq) BY SeqsAreNat
<1>2. MaxSeq \in Nat BY StreamAssumption
<1> HIDE DEF S
<1>3. Largest(S) \in 0..MaxSeq /\ \A s \in S : s <= Largest(S) BY <1>1, <1>2, LargestIsMax
<1>4. NextSeq = Largest(S) + 1 BY DEF NextSeq, S
<1>5. \A s \in S : s \in 0..MaxSeq BY <1>1
<1>6. \A s \in S : s < NextSeq BY <1>2, <1>3, <1>4, <1>5
<1> QED BY <1>2, <1>3, <1>4, <1>6 DEF S

LEMMA AppendOrdered ==
  ASSUME StreamOrdered, NEW kinds \in Batches, appendEventTx(kinds)
  PROVE  StreamOrdered'
<1> DEFINE first == NextSeq
           n == Len(kinds)
<1> USE DEF StreamOrdered
<1>1. n \in {1, 2} /\ \A i \in 1..n : kinds[i] \in RowKinds /\ kinds[i] \notin {"none", "mark"}
  BY DEF Batches, RowKinds
<1>2. first \in 1..(MaxSeq + 1) /\ \A s \in Seqs : row[s] # "none" => s < first BY NextSeqIsNew
<1>3. first + n - 1 <= MaxSeq /\ MaxSeq \in Nat BY StreamAssumption DEF appendEventTx
<1>4. row' = [s \in Seqs |-> IF s >= first /\ s < first + n THEN kinds[s - first + 1] ELSE row[s]]
  BY DEF appendEventTx
<1>5. pending' = [i \in 1..n |-> first + i - 1] BY DEF appendEventTx
<1>6. UNCHANGED <<closing, clientVars>> /\ ~ Ended /\ pending = <<>> /\ ~ closing
  BY DEF appendEventTx, WriteFree
<1> HIDE DEF first, n
<1>7. \A s \in Seqs : row[s] # "none" => row'[s] = row[s] BY <1>2, <1>3, <1>4, SeqsAreNat
<1>8. \A i \in 1..n : /\ first + i - 1 \in Seqs
                      /\ row'[first + i - 1] = kinds[i]
  <2>1. TAKE i \in 1..n
  <2>2. first + i - 1 \in Seqs /\ first + i - 1 >= first /\ first + i - 1 < first + n
    BY <1>1, <1>2, <1>3 DEF Seqs
  <2>3. (first + i - 1) - first + 1 = i BY <1>1, <1>2
  <2> QED BY <2>2, <2>3, <1>4
<1>9. pending' \in Seq(Seqs) /\ Len(pending') = n /\ \A i \in 1..n : pending'[i] = first + i - 1
  <2>1. pending' \in [1..n -> Seqs] BY <1>5, <1>8
  <2>2. n \in Nat BY <1>1
  <2>3. pending' \in Seq(Seqs) BY <2>1, <2>2
  <2>4. Len(pending') = n BY <2>1, <2>2, <2>3
  <2> QED BY <2>3, <2>4, <1>5
<1>10. \A s \in Seqs : row'[s] # row[s] => \E i \in 1..n : s = first + i - 1 /\ row'[s] = kinds[i]
  <2>1. TAKE s \in Seqs
  <2>2. HAVE row'[s] # row[s]
  <2>3. s >= first /\ s < first + n /\ s \in Nat BY <2>2, <1>4, SeqsAreNat
  <2>4. s - first + 1 \in 1..n /\ s = first + (s - first + 1) - 1 BY <2>3, <1>1, <1>2
  <2> QED BY <2>4, <1>8
<1>11. row' \in [Seqs -> RowKinds]
  <2>1. ASSUME NEW s \in Seqs PROVE row'[s] \in RowKinds
    BY <1>1, <1>10 DEF StreamTypeOK
  <2> QED BY <2>1, <1>4
<1>12. StreamTypeOK' BY <1>6, <1>9, <1>11 DEF StreamTypeOK, clientVars
<1>13. ChannelClosedOnce' BY <1>6 DEF ChannelClosedOnce, clientVars
<1>14. ASSUME NEW c \in Clients PROVE ClientOrdered(c)' /\ Coming(c)' = Coming(c)
  BY <1>6, FrameClient DEF clientVars, SameClient, Coming
<1>15. EndStillToCome'
  <2>1. Ascending(pending)' BY <1>1, <1>2, <1>9 DEF Ascending
  <2>2. ASSUME Ended' PROVE \E i \in 1..Len(pending') : row'[pending'[i]] = "end"
    <3>1. PICK s \in Seqs : row'[s] = "end" BY <2>2 DEF Ended
    <3>2. row[s] # "end" BY <1>6 DEF Ended
    <3>3. PICK i \in 1..n : s = first + i - 1 BY <3>1, <3>2, <1>10
    <3> QED BY <3>1, <3>3, <1>9
  <2> QED BY <2>1, <2>2 DEF EndStillToCome
<1>16. OnlyRowsUntilEnd'
  <2>1. SUFFICES ASSUME ~ Ended' PROVE OnlyRowsUntilEnd' BY DEF OnlyRowsUntilEnd
  <2>2. \A s \in Seqs : row[s] # "mark" BY <1>6 DEF OnlyRowsUntilEnd
  <2>3. \A s \in Seqs : row'[s] # "mark" BY <2>2, <1>1, <1>10
  <2>4. \A i \in 1..Len(pending') : row'[pending'[i]] # "none" BY <1>1, <1>8, <1>9
  <2>5. ASSUME NEW c \in Clients
        PROVE  /\ mark'[c] = 0 /\ synced'[c] = 0
               /\ after'[c] = 0 \/ row'[after'[c]] # "none"
               /\ \A s \in ToSet(got'[c]) \cup Coming(c)' : row'[s] # "none"
    <3>1. mark'[c] = 0 /\ synced'[c] = 0 BY <1>6 DEF OnlyRowsUntilEnd, clientVars
    <3>2. after'[c] = after[c] /\ got'[c] = got[c] BY <1>6 DEF clientVars
    <3>3. after[c] \in 0..MaxSeq BY DEF StreamTypeOK
    <3>4. after[c] = 0 \/ (after[c] \in Seqs /\ row[after[c]] # "none")
      BY <1>3, <1>6, <3>3 DEF OnlyRowsUntilEnd, Seqs
    <3>5. ToSet(got[c]) \cup Coming(c) \subseteq Seqs
      BY SeqsAreNat DEF StreamTypeOK, Coming
    <3>6. \A s \in ToSet(got[c]) \cup Coming(c) : row[s] # "none" BY <1>6 DEF OnlyRowsUntilEnd
    <3>7. \A s \in ToSet(got[c]) \cup Coming(c) : row'[s] # "none"
      BY <3>5, <3>6, <1>7
    <3>8. after[c] = 0 \/ row'[after[c]] # "none" BY <3>4, <1>7
    <3> QED BY <3>1, <3>2, <3>7, <3>8, <1>14
  <2> QED BY <2>3, <2>4, <2>5 DEF OnlyRowsUntilEnd
<1> QED BY <1>12, <1>13, <1>14, <1>15, <1>16

\* Compaction removes log rows and turns one into the watermark.
LEMMA CompactionKeeps ==
  ASSUME StreamTypeOK, CompactRunLogs
  PROVE  /\ row' \in [Seqs -> RowKinds]
         /\ \A s \in Seqs : row'[s] = row[s] \/ (row[s] = "log" /\ row'[s] \in {"none", "mark"})
<1> DEFINE newer(s) == {t \in Logs : t > s}
           S == {s \in Logs : Cardinality(newer(s)) >= Keep}
           wm == Largest(S)
<1>1. row' = [s \in Seqs |-> IF s = wm THEN "mark"
                             ELSE IF s < wm /\ row[s] = "log" THEN "none" ELSE row[s]]
      /\ wm # 0
  BY DEF CompactRunLogs
<1>2. S \in SUBSET (0..MaxSeq) BY SeqsAreNat DEF Logs
<1>3. S \subseteq Logs OBVIOUS
<1> HIDE DEF S
<1>4. wm \in S BY <1>1, <1>2, LargestIsMax, StreamAssumption
<1>5. wm \in Seqs /\ row[wm] = "log" BY <1>3, <1>4 DEF Logs
<1> HIDE DEF wm
<1>6. \A s \in Seqs : row'[s] = row[s] \/ (row[s] = "log" /\ row'[s] \in {"none", "mark"})
  BY <1>1, <1>5
<1>7. \A s \in Seqs : row'[s] \in RowKinds BY <1>6 DEF StreamTypeOK, RowKinds
<1>8. row' \in [Seqs -> RowKinds] BY <1>1, <1>7
<1> QED BY <1>6, <1>8

LEMMA CompactOrdered ==
  ASSUME StreamOrdered, CompactRunLogs
  PROVE  StreamOrdered'
<1> USE DEF StreamOrdered
<1>1. UNCHANGED <<pending, closing, clientVars>> /\ Ended /\ WriteFree BY DEF CompactRunLogs
<1>2. row' \in [Seqs -> RowKinds]
      /\ \A s \in Seqs : row'[s] = row[s] \/ (row[s] = "log" /\ row'[s] \in {"none", "mark"})
  BY CompactionKeeps
<1>3. Ended' BY <1>1, <1>2 DEF Ended
<1>4. StreamTypeOK' BY <1>1, <1>2 DEF StreamTypeOK, clientVars
<1>5. ChannelClosedOnce' BY <1>1 DEF ChannelClosedOnce, clientVars
<1>6. ASSUME NEW c \in Clients PROVE ClientOrdered(c)'
  BY <1>1, FrameClient DEF clientVars, SameClient
<1>7. OnlyRowsUntilEnd' BY <1>3 DEF OnlyRowsUntilEnd
<1>8. EndStillToCome'
  BY <1>1, EmptySequence DEF EndStillToCome, WriteFree, clientVars
<1> QED BY <1>4, <1>5, <1>6, <1>7, <1>8

---------------------------------------------------------------------------
(* The broker.                                                             *)

LEMMA PublishOrdered ==
  ASSUME StreamOrdered, Publish
  PROVE  StreamOrdered'
<1> DEFINE e == Head(pending)
           due == {c \in subs : after[c] < e}
           full == {c \in due : Len(chan[c]) >= Buffer}
<1> USE DEF StreamOrdered
<1>1. pending # <<>> /\ ~ closing /\ BrokerFree BY DEF Publish
<1>2. /\ chan' = [c \in Clients |-> IF c \in due \ full THEN Append(chan[c], e) ELSE chan[c]]
      /\ after' = [c \in Clients |-> IF c \in due \ full THEN e ELSE after[c]]
      /\ subs' = subs \ full
      /\ closes' = [c \in Clients |-> IF c \in full THEN closes[c] + 1 ELSE closes[c]]
  BY DEF Publish
<1>3. /\ pending' = Tail(pending) /\ closing' = (row[e] = "end")
      /\ UNCHANGED <<row, pc, mark, backlog, got, synced, drops>>
  BY DEF Publish
<1>4. /\ e \in Seqs /\ e \in Nat /\ Tail(pending) \in Seq(Seqs) /\ pending \in Seq(Nat)
      /\ pending \in Seq(Seqs) /\ Len(pending) \in Nat
  BY <1>1, SeqsAreNat DEF StreamTypeOK
<1>5. full \subseteq subs /\ due \subseteq subs /\ subs \subseteq Clients
      /\ \A c \in due \ full : after[c] < e /\ ~ (Len(chan[c]) >= Buffer)
  BY DEF StreamTypeOK
<1>6. e = pending[1] /\ \A i \in 1..(Len(pending) - 1) : Tail(pending)[i] = pending[i + 1]
      /\ Len(Tail(pending)) = Len(pending) - 1
  BY <1>1, <1>4
<1> HIDE DEF e, due, full
<1>7. StreamTypeOK'
  <2>1. chan' \in [Clients -> Seq(Seqs)] /\ \A c \in Clients : Len(chan'[c]) <= Buffer
    <3>1. ASSUME NEW c \in Clients PROVE chan'[c] \in Seq(Seqs) /\ Len(chan'[c]) <= Buffer
      <4>1. chan[c] \in Seq(Seqs) /\ Len(chan[c]) <= Buffer /\ Len(chan[c]) \in Nat
        BY DEF StreamTypeOK
      <4>2. CASE c \in due \ full
        <5>1. chan'[c] = Append(chan[c], e) BY <4>2, <1>2
        <5> QED BY <5>1, <4>1, <4>2, <1>4, <1>5, StreamAssumption
      <4>3. CASE c \notin due \ full BY <4>1, <4>3, <1>2
      <4> QED BY <4>2, <4>3
    <3> QED BY <3>1, <1>2
  <2>2. after' \in [Clients -> 0..MaxSeq] BY <1>2, <1>4, SeqsAreNat DEF StreamTypeOK
  <2>3. closes' \in [Clients -> Nat] BY <1>2 DEF StreamTypeOK
  <2>4. subs' \subseteq Clients /\ closing' \in BOOLEAN BY <1>2, <1>3, <1>5
  <2> QED BY <2>1, <2>2, <2>3, <2>4, <1>3, <1>4 DEF StreamTypeOK
<1>8. ChannelClosedOnce'
  <2>1. ASSUME NEW c \in Clients PROVE closes'[c] <= 1 /\ (c \in subs' => closes'[c] = 0)
    <3>1. closes[c] \in Nat /\ closes[c] <= 1 /\ (c \in subs => closes[c] = 0)
      BY DEF ChannelClosedOnce, StreamTypeOK
    <3> QED BY <3>1, <1>2, <1>5
  <2> QED BY <2>1 DEF ChannelClosedOnce
<1>9. ASSUME NEW c \in Clients
      PROVE  /\ ClientOrdered(c)'
             /\ Coming(c)' \subseteq Coming(c) \cup {e}
             /\ after'[c] \in {after[c], e}
  <2>1. CASE c \notin due \ full
    <3>1. SameClient(c) /\ (c \in subs' => c \in subs) /\ Coming(c)' = Coming(c)
      BY <2>1, <1>2, <1>3 DEF SameClient, Coming
    <3> QED BY <3>1, FrameClient DEF SameClient
  <2>2. CASE c \in due \ full
    <3>1. c \in subs /\ after[c] < e BY <2>2, <1>5
    <3>2. /\ chan'[c] = Append(chan[c], e) /\ after'[c] = e
          /\ got'[c] = got[c] /\ backlog'[c] = backlog[c] /\ pc'[c] = pc[c]
      BY <2>2, <1>2, <1>3
    <3>3. /\ pc[c] = "on" /\ backlog[c] = <<>> /\ Ascending(got[c]) /\ Ascending(chan[c])
          /\ \A s \in ToSet(got[c]) : s <= after[c] /\ \A t \in ToSet(chan[c]) : s < t
          /\ \A t \in ToSet(chan[c]) : t <= after[c]
      BY <3>1 DEF ClientOrdered, Coming
    <3>4. /\ chan[c] \in Seq(Seqs) /\ chan[c] \in Seq(Nat) /\ after[c] \in Nat
          /\ ToSet(got[c]) \subseteq Nat /\ ToSet(chan[c]) \subseteq Nat
      BY SeqsAreNat DEF StreamTypeOK
    <3>5. ToSet(chan'[c]) = ToSet(chan[c]) \cup {e} BY <3>2, <3>4, <1>4, SetOfAppend
    <3>6. Coming(c) = ToSet(chan[c]) /\ Coming(c)' = ToSet(chan[c]) \cup {e}
      BY <3>2, <3>3, <3>5, EmptySequence DEF Coming
    <3>7. \A t \in ToSet(chan[c]) : t < e BY <3>1, <3>3, <3>4, <1>4
    <3>8. \A s \in ToSet(got[c]) : s < e BY <3>1, <3>3, <3>4, <1>4
    <3>9. Ascending(chan'[c]) BY <3>2, <3>3, <3>4, <3>7, <1>4, AscendingAppend
    <3>10. \A s \in ToSet(got[c]) : s <= e /\ \A t \in Coming(c)' : s < t
      BY <3>3, <3>4, <3>6, <3>8, <1>4
    <3>11. \A t \in Coming(c)' : t <= e BY <3>4, <3>6, <3>7, <1>4
    <3>12. ClientOrdered(c)'
      BY <3>2, <3>3, <3>9, <3>10, <3>11, EmptySequence DEF ClientOrdered
    <3> QED BY <3>2, <3>6, <3>12
  <2> QED BY <2>1, <2>2
<1>10. EndStillToCome'
  <2>1. Ascending(pending') BY <1>1, <1>3, <1>4, AscendingTail DEF EndStillToCome
  <2>2. ASSUME Ended', ~ closing', subs' # {}
        PROVE  \E i \in 1..Len(pending') : row'[pending'[i]] = "end"
    <3>1. Ended /\ subs # {} /\ row[e] # "end" BY <2>2, <1>2, <1>3 DEF Ended
    <3>2. PICK i \in 1..Len(pending) : row[pending[i]] = "end" BY <3>1, <1>1 DEF EndStillToCome
    <3>3. i # 1 BY <3>1, <3>2, <1>6
    <3>4. i - 1 \in 1..(Len(pending) - 1) BY <3>3, <1>4
    <3>5. Tail(pending)[i - 1] = pending[i] BY <3>4, <1>6, <1>4
    <3> QED BY <3>2, <3>4, <3>5, <1>3, <1>6
  <2> QED BY <2>1, <2>2 DEF EndStillToCome
<1>11. OnlyRowsUntilEnd'
  <2>1. SUFFICES ASSUME ~ Ended' PROVE OnlyRowsUntilEnd' BY DEF OnlyRowsUntilEnd
  <2>2. ~ Ended BY <2>1, <1>3 DEF Ended
  <2>3. \A i \in 1..Len(pending) : row[pending[i]] # "none" BY <2>2 DEF OnlyRowsUntilEnd
  <2>4. row[e] # "none"
    <3>1. 1 \in 1..Len(pending) BY <1>1, <1>4
    <3> QED BY <3>1, <2>3, <1>6
  <2>5. \A i \in 1..Len(pending') : row[pending'[i]] # "none"
    <3>1. TAKE i \in 1..Len(pending')
    <3>2. i \in 1..(Len(pending) - 1) /\ i + 1 \in 1..Len(pending) BY <1>3, <1>4, <1>6
    <3> QED BY <3>2, <2>3, <1>3, <1>6
  <2>6. ASSUME NEW c \in Clients
        PROVE  /\ mark[c] = 0 /\ synced[c] = 0
               /\ after'[c] = 0 \/ row[after'[c]] # "none"
               /\ \A s \in ToSet(got[c]) \cup Coming(c)' : row[s] # "none"
    BY <2>2, <2>4, <1>9 DEF OnlyRowsUntilEnd
  <2>7. \A s \in Seqs : row[s] # "mark" BY <2>2 DEF OnlyRowsUntilEnd
  <2> QED BY <2>5, <2>6, <2>7, <1>3 DEF OnlyRowsUntilEnd
<1> QED BY <1>7, <1>8, <1>9, <1>10, <1>11

LEMMA CloseOrdered ==
  ASSUME StreamOrdered, closeRun
  PROVE  StreamOrdered'
<1> USE DEF StreamOrdered
<1>1. /\ closing' = FALSE /\ subs' = {}
      /\ closes' = [c \in Clients |-> IF c \in subs THEN closes[c] + 1 ELSE closes[c]]
      /\ UNCHANGED <<row, pending, pc, mark, backlog, after, chan, got, synced, drops>>
  BY DEF closeRun
<1>2. StreamTypeOK'
  <2>1. closes' \in [Clients -> Nat]
    <3>1. \A c \in Clients : closes[c] + 1 \in Nat /\ closes[c] \in Nat BY DEF StreamTypeOK
    <3> QED BY <3>1, <1>1
  <2> QED BY <2>1, <1>1 DEF StreamTypeOK
<1>3. ChannelClosedOnce' BY <1>1 DEF ChannelClosedOnce, StreamTypeOK
<1>4. ASSUME NEW c \in Clients PROVE ClientOrdered(c)' /\ Coming(c)' = Coming(c)
  BY <1>1, FrameClient DEF SameClient, Coming
<1>5. EndStillToCome' BY <1>1 DEF EndStillToCome
<1>6. OnlyRowsUntilEnd' BY <1>1, <1>4 DEF OnlyRowsUntilEnd, Ended
<1> QED BY <1>2, <1>3, <1>4, <1>5, <1>6

---------------------------------------------------------------------------
(* The clients.                                                            *)

\* A step of one client leaves the others as they are.
LEMMA OtherClients ==
  ASSUME NEW c \in Clients, NEW d \in Clients, d # c, ClientOrdered(d),
         SameClient(d), d \in subs' => d \in subs
  PROVE  ClientOrdered(d)' /\ Coming(d)' = Coming(d)
  BY FrameClient DEF SameClient, Coming

LEMMA SubscribeOrdered ==
  ASSUME StreamOrdered, NEW c \in Clients, Subscribe(c)
  PROVE  StreamOrdered'
<1> USE DEF StreamOrdered
<1>1. /\ pc[c] = "out" /\ mark' = [mark EXCEPT ![c] = Watermark]
      /\ pc' = [pc EXCEPT ![c] = "rows"]
      /\ UNCHANGED <<row, pending, closing, backlog, after, subs, chan, closes, got, synced, drops>>
  BY DEF Subscribe
<1>2. Watermark \in 0..MaxSeq /\ (~ Ended => Watermark = 0)
  <2> DEFINE S == {s \in Seqs : row[s] = "mark"}
  <2>1. S \in SUBSET (0..MaxSeq) BY SeqsAreNat
  <2>2. ~ Ended => S = {} BY DEF OnlyRowsUntilEnd
  <2> HIDE DEF S
  <2>3. Largest(S) \in 0..MaxSeq /\ (Largest(S) # 0 => Largest(S) \in S)
    BY <2>1, LargestIsMax, StreamAssumption
  <2> QED BY <2>2, <2>3 DEF Watermark, S
<1>3. StreamTypeOK'
  <2>1. mark' \in [Clients -> 0..MaxSeq] BY <1>1, <1>2 DEF StreamTypeOK
  <2>2. pc' \in [Clients -> {"out", "rows", "register", "on"}] BY <1>1 DEF StreamTypeOK
  <2> QED BY <2>1, <2>2, <1>1 DEF StreamTypeOK
<1>4. ChannelClosedOnce' BY <1>1 DEF ChannelClosedOnce
<1>5. EndStillToCome' BY <1>1 DEF EndStillToCome, Ended
<1>6. ASSUME NEW d \in Clients PROVE ClientOrdered(d)' /\ Coming(d)' = Coming(d)
  <2>1. CASE d = c BY <2>1, <1>1 DEF ClientOrdered, Coming, StreamTypeOK
  <2>2. CASE d # c BY <2>2, <1>1, OtherClients DEF SameClient, StreamTypeOK
  <2> QED BY <2>1, <2>2
<1>7. OnlyRowsUntilEnd'
  <2>1. ASSUME ~ Ended, NEW d \in Clients PROVE mark'[d] = 0
    BY <2>1, <1>1, <1>2 DEF OnlyRowsUntilEnd, StreamTypeOK
  <2> QED BY <2>1, <1>1, <1>6 DEF OnlyRowsUntilEnd, Ended
<1> QED BY <1>3, <1>4, <1>5, <1>6, <1>7

\* Seen(c) is the last sequence the client has, or that a resync stood for.
LEMMA SeenIsLast ==
  ASSUME StreamTypeOK, NEW c \in Clients
  PROVE  /\ Seen(c) \in 0..MaxSeq
         /\ \A s \in ToSet(got[c]) : s <= Seen(c)
         /\ synced[c] <= Seen(c)
         /\ Seen(c) = 0 \/ Seen(c) = synced[c] \/ Seen(c) \in ToSet(got[c])
<1> DEFINE S == ToSet(got[c]) \cup {synced[c]}
<1>1. S \in SUBSET (0..MaxSeq)
  <2>1. ToSet(got[c]) \subseteq 0..MaxSeq /\ synced[c] \in 0..MaxSeq
    BY SeqsAreNat DEF StreamTypeOK
  <2> QED BY <2>1
<1> HIDE DEF S
<1>2. /\ Largest(S) \in 0..MaxSeq /\ \A s \in S : s <= Largest(S)
      /\ Largest(S) # 0 => Largest(S) \in S
  BY <1>1, LargestIsMax, StreamAssumption
<1> QED BY <1>2 DEF Seen, S

Start(c) == IF Resyncs(c) THEN mark[c] ELSE Seen(c)

\* What ReadRows finds: retained rows behind everything the client has.
LEMMA ReadRowsFinds ==
  ASSUME StreamTypeOK, NEW c \in Clients, ReadRows(c)
  PROVE  /\ Start(c) \in 0..MaxSeq /\ Seen(c) <= Start(c)
         /\ backlog'[c] = FirstRows(Retained(Start(c)), BacklogLimit)
         /\ backlog'[c] \in Seq(Seqs) /\ Ascending(backlog'[c])
         /\ ToSet(backlog'[c]) \subseteq Retained(Start(c))
         /\ after'[c] \in 0..MaxSeq /\ Start(c) <= after'[c]
         /\ \A t \in ToSet(backlog'[c]) : t <= after'[c]
         /\ after'[c] = 0 \/ after'[c] = Start(c) \/ after'[c] \in ToSet(backlog'[c])
<1> DEFINE rows == FirstRows(Retained(Start(c)), BacklogLimit)
<1>1. Start(c) \in 0..MaxSeq /\ Seen(c) <= Start(c)
  <2>1. mark[c] \in 0..MaxSeq BY DEF StreamTypeOK
  <2>2. Seen(c) \in 0..MaxSeq BY SeenIsLast
  <2> QED BY <2>1, <2>2, StreamAssumption DEF Start, Resyncs
<1>2. backlog'[c] = rows BY DEF ReadRows, Start, StreamTypeOK
<1>3. after'[c] = Largest(ToSet(rows) \cup {Start(c)}) BY DEF ReadRows, Start, StreamTypeOK
<1>4. Retained(Start(c)) \in SUBSET (1..MaxSeq) BY DEF Retained, Seqs
<1>5. rows \in Seq(Retained(Start(c))) /\ Ascending(rows)
  BY <1>4, FirstRowsSorted, StreamAssumption
<1> HIDE DEF rows
<1>6. ToSet(rows) \subseteq Retained(Start(c)) BY <1>5 DEF ToSet
<1>7. rows \in Seq(Seqs)
  <2>1. Len(rows) \in Nat /\ rows \in [1..Len(rows) -> Retained(Start(c))] BY <1>5
  <2>2. rows \in [1..Len(rows) -> Seqs] BY <2>1, <1>4 DEF Seqs
  <2> QED BY <2>1, <2>2
<1> DEFINE S == ToSet(rows) \cup {Start(c)}
<1>8. S \in SUBSET (0..MaxSeq)
  <2>1. ToSet(rows) \subseteq 0..MaxSeq BY <1>6, SeqsAreNat DEF Retained
  <2> QED BY <2>1, <1>1
<1> HIDE DEF S
<1>9. /\ Largest(S) \in 0..MaxSeq /\ \A s \in S : s <= Largest(S)
      /\ Largest(S) # 0 => Largest(S) \in S
  BY <1>8, LargestIsMax, StreamAssumption
<1>10. /\ after'[c] \in 0..MaxSeq /\ Start(c) <= after'[c]
       /\ \A t \in ToSet(rows) : t <= after'[c]
       /\ after'[c] = 0 \/ after'[c] = Start(c) \/ after'[c] \in ToSet(rows)
  BY <1>3, <1>9 DEF S
<1> QED BY <1>1, <1>2, <1>5, <1>6, <1>7, <1>10 DEF rows

LEMMA ReadRowsOrdered ==
  ASSUME StreamOrdered, NEW c \in Clients, ReadRows(c)
  PROVE  StreamOrdered'
<1> USE DEF StreamOrdered
<1>1. /\ pc[c] = "rows" /\ pc' = [pc EXCEPT ![c] = "register"]
      /\ backlog' = [backlog EXCEPT ![c] = backlog'[c]]
      /\ after' = [after EXCEPT ![c] = after'[c]]
      /\ UNCHANGED <<row, pending, closing, mark, subs, chan, closes, got, synced, drops>>
  BY DEF ReadRows, StreamTypeOK
<1>2. /\ Start(c) \in 0..MaxSeq /\ Seen(c) <= Start(c)
      /\ backlog'[c] \in Seq(Seqs) /\ Ascending(backlog'[c])
      /\ ToSet(backlog'[c]) \subseteq Retained(Start(c))
      /\ after'[c] \in 0..MaxSeq /\ Start(c) <= after'[c]
      /\ \A t \in ToSet(backlog'[c]) : t <= after'[c]
      /\ after'[c] = 0 \/ after'[c] = Start(c) \/ after'[c] \in ToSet(backlog'[c])
  BY ReadRowsFinds
<1>3. StreamTypeOK'
  <2>1. backlog' \in [Clients -> Seq(Seqs)] BY <1>1, <1>2 DEF StreamTypeOK
  <2>2. after' \in [Clients -> 0..MaxSeq] BY <1>1, <1>2 DEF StreamTypeOK
  <2>3. pc' \in [Clients -> {"out", "rows", "register", "on"}] BY <1>1 DEF StreamTypeOK
  <2> QED BY <2>1, <2>2, <2>3, <1>1 DEF StreamTypeOK
<1>4. ChannelClosedOnce' BY <1>1 DEF ChannelClosedOnce
<1>5. EndStillToCome' BY <1>1 DEF EndStillToCome, Ended
<1>6. Seen(c) \in 0..MaxSeq /\ synced[c] <= Seen(c) /\ \A s \in ToSet(got[c]) : s <= Seen(c)
  BY SeenIsLast
<1>7. ClientOrdered(c)' /\ Coming(c)' = ToSet(backlog'[c])
  <2>1. chan'[c] = <<>> /\ c \notin subs' /\ pc'[c] = "register" /\ got'[c] = got[c]
    BY <1>1 DEF ClientOrdered, StreamTypeOK
  <2>2. Coming(c)' = ToSet(backlog'[c]) BY <2>1, EmptySequence DEF Coming
  <2>3. ToSet(got[c]) \subseteq Nat BY SeqsAreNat DEF StreamTypeOK
  <2>4. \A t \in ToSet(backlog'[c]) : t \in Nat /\ t > Start(c)
    BY <1>2, SeqsAreNat DEF Retained
  <2>5. \A s \in ToSet(got[c]) : s <= after'[c] /\ \A t \in ToSet(backlog'[c]) : s < t
    BY <2>3, <2>4, <1>2, <1>6
  <2>6. Ascending(got[c]) BY DEF ClientOrdered
  <2> QED BY <2>1, <2>2, <2>5, <2>6, <1>2, EmptySequence DEF ClientOrdered
<1>8. ASSUME NEW d \in Clients, d # c
      PROVE  ClientOrdered(d)' /\ Coming(d)' = Coming(d) /\ after'[d] = after[d]
  BY <1>8, <1>1, OtherClients DEF SameClient, StreamTypeOK
<1>9. OnlyRowsUntilEnd'
  <2>1. SUFFICES ASSUME ~ Ended' PROVE OnlyRowsUntilEnd' BY DEF OnlyRowsUntilEnd
  <2>2. ~ Ended BY <2>1, <1>1 DEF Ended
  <2>3. mark[c] = 0 /\ synced[c] = 0 /\ \A s \in ToSet(got[c]) : row[s] # "none"
    BY <2>2 DEF OnlyRowsUntilEnd
  <2>4. \A s \in ToSet(backlog'[c]) : row[s] # "none" BY <1>2 DEF Retained
  <2>5. Start(c) = 0 \/ row[Start(c)] # "none"
    <3>1. ~ Resyncs(c) BY <2>3, <1>6 DEF Resyncs
    <3>2. Seen(c) = 0 \/ Seen(c) = synced[c] \/ Seen(c) \in ToSet(got[c]) BY SeenIsLast
    <3> QED BY <3>1, <3>2, <2>3 DEF Start
  <2>6. after'[c] = 0 \/ row[after'[c]] # "none" BY <2>4, <2>5, <1>2
  <2>7. ASSUME NEW d \in Clients
        PROVE  /\ mark[d] = 0 /\ synced[d] = 0
               /\ after'[d] = 0 \/ row[after'[d]] # "none"
               /\ \A s \in ToSet(got[d]) \cup Coming(d)' : row[s] # "none"
    <3>1. CASE d = c BY <3>1, <2>3, <2>4, <2>6, <1>7
    <3>2. CASE d # c BY <3>2, <2>2, <1>8 DEF OnlyRowsUntilEnd
    <3> QED BY <3>1, <3>2
  <2> QED BY <2>2, <2>7, <1>1 DEF OnlyRowsUntilEnd
<1> QED BY <1>3, <1>4, <1>5, <1>7, <1>8, <1>9

LEMMA RegisterOrdered ==
  ASSUME StreamOrdered, NEW c \in Clients, Register(c)
  PROVE  StreamOrdered'
<1> USE DEF StreamOrdered
<1>1. /\ pc[c] = "register" /\ pc' = [pc EXCEPT ![c] = "on"]
      /\ chan' = [chan EXCEPT ![c] = <<>>]
      /\ closes' = [closes EXCEPT ![c] = IF Ended THEN 1 ELSE 0]
      /\ subs' = IF Ended THEN subs ELSE subs \cup {c}
      /\ synced' = [synced EXCEPT ![c] = IF Resyncs(c) THEN mark[c] ELSE @]
      /\ got' = [got EXCEPT ![c] = @ \o backlog[c]]
      /\ backlog' = [backlog EXCEPT ![c] = <<>>]
      /\ UNCHANGED <<row, pending, closing, mark, after, drops>>
  BY DEF Register
<1>2. /\ got[c] \in Seq(Seqs) /\ backlog[c] \in Seq(Seqs) /\ c \notin subs
      /\ got[c] \in Seq(Nat) /\ backlog[c] \in Seq(Nat) /\ <<>> \in Seq(Seqs)
  BY <1>1, SeqsAreNat DEF StreamTypeOK, ClientOrdered
<1>3. StreamTypeOK'
  <2>1. got' \in [Clients -> Seq(Seqs)] BY <1>1, <1>2 DEF StreamTypeOK
  <2>2. chan' \in [Clients -> Seq(Seqs)] /\ backlog' \in [Clients -> Seq(Seqs)]
    BY <1>1, <1>2 DEF StreamTypeOK
  <2>3. \A d \in Clients : Len(chan'[d]) <= Buffer
    <3>1. Len(<<>>) = 0 /\ 0 <= Buffer BY StreamAssumption
    <3> QED BY <3>1, <1>1 DEF StreamTypeOK
  <2>4. synced' \in [Clients -> 0..MaxSeq] BY <1>1 DEF StreamTypeOK
  <2>5. closes' \in [Clients -> Nat] BY <1>1 DEF StreamTypeOK
  <2>6. pc' \in [Clients -> {"out", "rows", "register", "on"}] /\ subs' \subseteq Clients
    BY <1>1 DEF StreamTypeOK
  <2> QED BY <2>1, <2>2, <2>3, <2>4, <2>5, <2>6, <1>1 DEF StreamTypeOK
<1>4. ChannelClosedOnce'
  <2>1. ASSUME NEW d \in Clients PROVE closes'[d] <= 1 /\ (d \in subs' => closes'[d] = 0)
    <3>1. closes[d] <= 1 /\ (d \in subs => closes[d] = 0) BY DEF ChannelClosedOnce
    <3>2. CASE d = c BY <3>2, <1>1, <1>2 DEF StreamTypeOK
    <3>3. CASE d # c BY <3>1, <3>3, <1>1 DEF StreamTypeOK
    <3> QED BY <3>2, <3>3
  <2> QED BY <2>1 DEF ChannelClosedOnce
<1>5. EndStillToCome' BY <1>1 DEF EndStillToCome, Ended
<1>6. /\ ToSet(got'[c]) = ToSet(got[c]) \cup ToSet(backlog[c])
      /\ Coming(c)' = {} /\ ToSet(backlog[c]) \subseteq Coming(c)
      /\ got'[c] = got[c] \o backlog[c] /\ chan'[c] = <<>> /\ backlog'[c] = <<>>
      /\ pc'[c] = "on" /\ after'[c] = after[c]
  <2>1. /\ got'[c] = got[c] \o backlog[c] /\ chan'[c] = <<>> /\ backlog'[c] = <<>>
        /\ pc'[c] = "on" /\ after'[c] = after[c]
    BY <1>1 DEF StreamTypeOK
  <2>2. ToSet(got'[c]) = ToSet(got[c]) \cup ToSet(backlog[c]) BY <2>1, <1>2, SetOfJoin
  <2> QED BY <2>1, <2>2, EmptySequence DEF Coming
<1>7. ClientOrdered(c)'
  <2>1. Ascending(got[c]) /\ Ascending(backlog[c])
        /\ (\A s \in ToSet(got[c]) : s <= after[c] /\ \A t \in ToSet(backlog[c]) : s < t)
        /\ (\A t \in ToSet(backlog[c]) : t <= after[c])
    BY <1>1, <1>6 DEF ClientOrdered
  <2>2. Ascending(got'[c]) BY <2>1, <1>2, <1>6, AscendingJoin
  <2>3. \A s \in ToSet(got'[c]) : s <= after'[c] BY <2>1, <1>6
  <2> QED BY <2>2, <2>3, <1>6, EmptySequence DEF ClientOrdered
<1>8. ASSUME NEW d \in Clients, d # c
      PROVE  /\ ClientOrdered(d)' /\ Coming(d)' = Coming(d) /\ got'[d] = got[d]
             /\ synced'[d] = synced[d]
  BY <1>8, <1>1, OtherClients DEF SameClient, StreamTypeOK
<1>9. OnlyRowsUntilEnd'
  <2>1. SUFFICES ASSUME ~ Ended' PROVE OnlyRowsUntilEnd' BY DEF OnlyRowsUntilEnd
  <2>2. ~ Ended BY <2>1, <1>1 DEF Ended
  <2>3. ASSUME NEW d \in Clients
        PROVE  /\ mark[d] = 0 /\ synced'[d] = 0
               /\ after[d] = 0 \/ row[after[d]] # "none"
               /\ \A s \in ToSet(got'[d]) \cup Coming(d)' : row[s] # "none"
    <3>1. CASE d = c
      <4>1. synced'[c] \in {mark[c], synced[c]} BY <1>1 DEF StreamTypeOK
      <4> QED BY <3>1, <4>1, <2>2, <1>6 DEF OnlyRowsUntilEnd
    <3>2. CASE d # c BY <3>2, <2>2, <1>8 DEF OnlyRowsUntilEnd
    <3> QED BY <3>1, <3>2
  <2> QED BY <2>2, <2>3, <1>1 DEF OnlyRowsUntilEnd
<1> QED BY <1>3, <1>4, <1>5, <1>7, <1>8, <1>9

LEMMA ReceiveOrdered ==
  ASSUME StreamOrdered, NEW c \in Clients, Receive(c)
  PROVE  StreamOrdered'
<1> DEFINE e == Head(chan[c])
<1> USE DEF StreamOrdered
<1>1. /\ pc[c] = "on" /\ chan[c] # <<>>
      /\ got' = [got EXCEPT ![c] = Append(@, e)]
      /\ chan' = [chan EXCEPT ![c] = Tail(@)]
      /\ UNCHANGED <<row, pending, closing, pc, mark, backlog, after, subs, closes, synced, drops>>
  BY DEF Receive
<1>2. /\ got[c] \in Seq(Seqs) /\ got[c] \in Seq(Nat) /\ chan[c] \in Seq(Seqs)
      /\ chan[c] \in Seq(Nat) /\ Len(chan[c]) <= Buffer /\ backlog[c] = <<>>
  BY <1>1, SeqsAreNat DEF StreamTypeOK, ClientOrdered
<1>3. /\ e \in Seqs /\ e \in Nat /\ Tail(chan[c]) \in Seq(Seqs)
      /\ Len(Tail(chan[c])) <= Buffer
  BY <1>1, <1>2, SeqsAreNat, StreamAssumption
<1>4. ToSet(chan[c]) = {e} \cup ToSet(Tail(chan[c])) BY <1>1, <1>2, SetOfTail
<1>5. Ascending(Tail(chan[c])) /\ \A t \in ToSet(Tail(chan[c])) : e < t
  BY <1>1, <1>2, AscendingTail DEF ClientOrdered
<1> HIDE DEF e
<1>6. ToSet(Append(got[c], e)) = ToSet(got[c]) \cup {e} BY <1>2, <1>3, SetOfAppend
<1>7. got'[c] = Append(got[c], e) /\ chan'[c] = Tail(chan[c]) /\ backlog'[c] = <<>>
  BY <1>1, <1>2 DEF StreamTypeOK
<1>8. StreamTypeOK'
  <2>1. got' \in [Clients -> Seq(Seqs)] BY <1>1, <1>2, <1>3 DEF StreamTypeOK
  <2>2. chan' \in [Clients -> Seq(Seqs)] BY <1>1, <1>3 DEF StreamTypeOK
  <2>3. \A d \in Clients : Len(chan'[d]) <= Buffer BY <1>1, <1>3, <1>7 DEF StreamTypeOK
  <2> QED BY <2>1, <2>2, <2>3, <1>1 DEF StreamTypeOK
<1>9. ChannelClosedOnce' BY <1>1 DEF ChannelClosedOnce
<1>10. EndStillToCome' BY <1>1 DEF EndStillToCome, Ended
<1>11. Coming(c) = ToSet(chan[c]) /\ Coming(c)' = ToSet(Tail(chan[c]))
  BY <1>2, <1>7, EmptySequence DEF Coming
<1>12. ClientOrdered(c)'
  <2>1. /\ Ascending(got[c]) /\ \A s \in ToSet(got[c]) : s <= after[c] /\ s < e
        /\ e <= after[c] /\ \A t \in ToSet(chan[c]) : t <= after[c]
        /\ \A s \in ToSet(got[c]) : \A t \in ToSet(chan[c]) : s < t
    BY <1>1, <1>4, <1>11 DEF ClientOrdered
  <2>2. Ascending(Append(got[c], e)) BY <2>1, <1>2, <1>3, AscendingAppend
  <2>3. \A s \in ToSet(got'[c]) : s <= after'[c] /\ \A t \in Coming(c)' : s < t
    BY <2>1, <1>1, <1>4, <1>5, <1>6, <1>7, <1>11
  <2>4. \A t \in Coming(c)' : t <= after'[c] BY <2>1, <1>1, <1>4, <1>11
  <2>5. pc'[c] = "on" BY <1>1
  <2> QED BY <2>2, <2>3, <2>4, <2>5, <1>5, <1>7, EmptySequence DEF ClientOrdered
<1>13. ASSUME NEW d \in Clients, d # c
       PROVE  ClientOrdered(d)' /\ Coming(d)' = Coming(d) /\ got'[d] = got[d]
  BY <1>13, <1>1, OtherClients DEF SameClient, StreamTypeOK
<1>14. ASSUME NEW d \in Clients
       PROVE  ToSet(got'[d]) \cup Coming(d)' = ToSet(got[d]) \cup Coming(d)
  <2>1. CASE d = c BY <2>1, <1>4, <1>6, <1>7, <1>11
  <2>2. CASE d # c BY <2>2, <1>13
  <2> QED BY <2>1, <2>2
<1>15. OnlyRowsUntilEnd' BY <1>1, <1>14 DEF OnlyRowsUntilEnd, Ended
<1> QED BY <1>8, <1>9, <1>10, <1>12, <1>13, <1>15

\* Finish and Drop both end in the handler's deferred unsubscribe.
LEMMA LeaveOrdered ==
  ASSUME StreamOrdered, NEW c \in Clients, Leave(c), pc[c] = "on",
         drops' \in [Clients -> 0..MaxDrops]
  PROVE  StreamOrdered'
<1> USE DEF StreamOrdered
<1>1. /\ closes' = [closes EXCEPT ![c] = IF c \in subs THEN @ + 1 ELSE @]
      /\ subs' = subs \ {c}
      /\ pc' = [pc EXCEPT ![c] = "out"]
      /\ chan' = [chan EXCEPT ![c] = <<>>]
      /\ UNCHANGED <<row, pending, closing, mark, backlog, after, got, synced>>
  BY DEF Leave, unsubscribe
<1>2. StreamTypeOK'
  <2>1. chan' \in [Clients -> Seq(Seqs)] BY <1>1 DEF StreamTypeOK
  <2>2. \A d \in Clients : Len(chan'[d]) <= Buffer
    <3>1. Len(<<>>) = 0 /\ 0 <= Buffer BY StreamAssumption
    <3> QED BY <3>1, <1>1 DEF StreamTypeOK
  <2>3. closes' \in [Clients -> Nat] BY <1>1 DEF StreamTypeOK
  <2>4. pc' \in [Clients -> {"out", "rows", "register", "on"}] /\ subs' \subseteq Clients
    BY <1>1 DEF StreamTypeOK
  <2> QED BY <2>1, <2>2, <2>3, <2>4, <1>1 DEF StreamTypeOK
<1>3. ChannelClosedOnce'
  <2>1. ASSUME NEW d \in Clients PROVE closes'[d] <= 1 /\ (d \in subs' => closes'[d] = 0)
    <3>1. closes[d] \in Nat /\ closes[d] <= 1 /\ (d \in subs => closes[d] = 0)
      BY DEF ChannelClosedOnce, StreamTypeOK
    <3>2. CASE d = c BY <3>1, <3>2, <1>1 DEF StreamTypeOK
    <3>3. CASE d # c BY <3>1, <3>3, <1>1 DEF StreamTypeOK
    <3> QED BY <3>2, <3>3
  <2> QED BY <2>1 DEF ChannelClosedOnce
<1>4. EndStillToCome' BY <1>1 DEF EndStillToCome, Ended
<1>5. ClientOrdered(c)' /\ Coming(c)' \subseteq Coming(c)
  <2>1. chan'[c] = <<>> /\ backlog'[c] = <<>> /\ pc'[c] = "out" /\ c \notin subs'
        /\ Ascending(got'[c])
    BY <1>1 DEF ClientOrdered, StreamTypeOK
  <2>2. Coming(c)' = {} BY <2>1, EmptySequence DEF Coming
  <2> QED BY <2>1, <2>2, EmptySequence DEF ClientOrdered
<1>6. ASSUME NEW d \in Clients, d # c
      PROVE  ClientOrdered(d)' /\ Coming(d)' = Coming(d)
  BY <1>6, <1>1, OtherClients DEF SameClient, StreamTypeOK
<1>7. \A d \in Clients : Coming(d)' \subseteq Coming(d) BY <1>5, <1>6
<1>8. OnlyRowsUntilEnd' BY <1>1, <1>7 DEF OnlyRowsUntilEnd, Ended
<1> QED BY <1>2, <1>3, <1>4, <1>5, <1>6, <1>8

LEMMA NextOrdered == StreamOrdered /\ [StreamNext]_streamVars => StreamOrdered'
<1> SUFFICES ASSUME StreamOrdered, [StreamNext]_streamVars PROVE StreamOrdered' OBVIOUS
<1>1. ASSUME NEW kinds \in Batches, appendEventTx(kinds) PROVE StreamOrdered'
  BY <1>1, AppendOrdered
<1>2. CASE CompactRunLogs BY <1>2, CompactOrdered
<1>3. CASE Publish BY <1>3, PublishOrdered
<1>4. CASE closeRun BY <1>4, CloseOrdered
<1>5. ASSUME NEW c \in Clients, Subscribe(c) PROVE StreamOrdered' BY <1>5, SubscribeOrdered
<1>6. ASSUME NEW c \in Clients, ReadRows(c) PROVE StreamOrdered' BY <1>6, ReadRowsOrdered
<1>7. ASSUME NEW c \in Clients, Register(c) PROVE StreamOrdered' BY <1>7, RegisterOrdered
<1>8. ASSUME NEW c \in Clients, Receive(c) PROVE StreamOrdered' BY <1>8, ReceiveOrdered
<1>9. ASSUME NEW c \in Clients, Finish(c) PROVE StreamOrdered'
  <2>1. drops' \in [Clients -> 0..MaxDrops] /\ Leave(c) /\ pc[c] = "on"
    BY <1>9 DEF Finish, StreamOrdered, StreamTypeOK
  <2> QED BY <2>1, LeaveOrdered
<1>10. ASSUME NEW c \in Clients, Drop(c) PROVE StreamOrdered'
  <2>1. drops[c] + 1 \in 0..MaxDrops
    BY <1>10, StreamAssumption DEF Drop, StreamOrdered, StreamTypeOK
  <2>2. drops' \in [Clients -> 0..MaxDrops] /\ Leave(c) /\ pc[c] = "on"
    BY <1>10, <2>1 DEF Drop, StreamOrdered, StreamTypeOK
  <2> QED BY <2>2, LeaveOrdered
<1>11. CASE UNCHANGED streamVars
  <2>1. \A c \in Clients : ClientOrdered(c)' /\ Coming(c)' = Coming(c)
    BY <1>11, FrameClient DEF streamVars, SameClient, Coming, StreamOrdered
  <2>2. StreamTypeOK' /\ ChannelClosedOnce' /\ EndStillToCome'
    BY <1>11 DEF streamVars, StreamOrdered, StreamTypeOK, ChannelClosedOnce, EndStillToCome, Ended
  <2>3. OnlyRowsUntilEnd'
    BY <2>1, <1>11 DEF streamVars, StreamOrdered, OnlyRowsUntilEnd, Ended
  <2> QED BY <2>1, <2>2, <2>3 DEF StreamOrdered
<1> QED
  BY <1>1, <1>2, <1>3, <1>4, <1>5, <1>6, <1>7, <1>8, <1>9, <1>10, <1>11 DEF StreamNext

\* Whatever the length of the backlog and however slow a client is: its events
\* arrive in ascending order and once (Subscribe's lock against the gap between
\* commit and publication), no channel is closed twice (publish, closeRun and
\* unsubscribe), and nobody is left waiting on a run that has ended.
THEOREM StreamOrderly ==
  StreamSpec => [](StreamOrdered /\ AscendingOnce /\ NobodyWaitsOnEndedRun)
<1>1. StreamOrdered => AscendingOnce BY DEF StreamOrdered, AscendingOnce, ClientOrdered
<1>2. StreamOrdered => NobodyWaitsOnEndedRun
  BY DEF StreamOrdered, EndStillToCome, NobodyWaitsOnEndedRun, WriteFree
<1> QED BY InitOrdered, NextOrdered, <1>1, <1>2, PTL DEF StreamSpec

---------------------------------------------------------------------------
(* Nothing that is retained is skipped, as long as the backlog fits into   *)
(* the limit Subscribe passes to EventsAfter.                              *)

Complete == \A c \in Clients : ClientComplete(c)

\* A client of which nothing changes has no gap afterwards if the retained
\* rows did not grow and what it waits for is still to be published.
LEMMA FrameComplete ==
  ASSUME NEW c \in Clients, ClientComplete(c), SameClient(c),
         synced'[c] = synced[c], mark'[c] = mark[c],
         Retained(0)' \subseteq Retained(0),
         pc[c] = "register" \/ c \in subs' => (Retained(after[c]))' \subseteq ToSet(pending')
  PROVE  ClientComplete(c)'
<1>1. Stood(c)' = Stood(c) BY DEF Stood, Resyncs, Seen, SameClient
<1>2. Coming(c)' = Coming(c) /\ ToSet(got'[c]) = ToSet(got[c]) BY DEF SameClient, Coming
<1> QED BY <1>1, <1>2 DEF ClientComplete, SameClient

LEMMA InitComplete == StreamInit => Complete
  BY EmptySequence DEF StreamInit, Complete, ClientComplete, Retained

LEMMA AppendComplete ==
  ASSUME StreamOrdered, Complete, NEW kinds \in Batches, appendEventTx(kinds)
  PROVE  Complete'
<1> DEFINE first == NextSeq
           n == Len(kinds)
<1> USE DEF StreamOrdered
<1>1. n \in {1, 2} /\ MaxSeq \in Nat BY StreamAssumption DEF Batches
<1>2. first \in 1..(MaxSeq + 1) /\ \A s \in Seqs : row[s] # "none" => s < first BY NextSeqIsNew
<1>3. /\ row' = [s \in Seqs |-> IF s >= first /\ s < first + n THEN kinds[s - first + 1] ELSE row[s]]
      /\ pending' = [i \in 1..n |-> first + i - 1]
      /\ UNCHANGED clientVars /\ ~ Ended /\ pending = <<>>
  BY DEF appendEventTx, WriteFree
<1> HIDE DEF first, n
<1>4. \A s \in Seqs : row'[s] # row[s] => s >= first /\ s \in ToSet(pending')
  <2>1. TAKE s \in Seqs
  <2>2. HAVE row'[s] # row[s]
  <2>3. s >= first /\ s < first + n /\ s \in Nat BY <2>2, <1>3, SeqsAreNat
  <2>4. s - first + 1 \in 1..n /\ s = first + (s - first + 1) - 1 BY <2>3, <1>1, <1>2
  <2>5. DOMAIN pending' = 1..n /\ pending'[s - first + 1] = s BY <2>4, <1>3
  <2> QED BY <2>3, <2>4, <2>5 DEF ToSet
<1>5. ASSUME NEW s \in Retained(0)'
      PROVE  s \in Nat /\ (s \in Retained(0) \/ (s >= first /\ s \in ToSet(pending')))
  BY <1>4, SeqsAreNat DEF Retained
<1>6. SUFFICES ASSUME NEW c \in Clients PROVE ClientComplete(c)' BY DEF Complete
<1>7. /\ got'[c] = got[c] /\ synced'[c] = synced[c] /\ after'[c] = after[c] /\ pc'[c] = pc[c]
      /\ subs' = subs /\ Coming(c)' = Coming(c) /\ Stood(c)' = Stood(c)
  BY <1>3 DEF clientVars, Coming, Stood, Resyncs, Seen
<1>8. after[c] \in Nat /\ after[c] < first
  <2>1. after[c] \in 0..MaxSeq BY DEF StreamTypeOK
  <2>2. after[c] = 0 \/ (after[c] \in Seqs /\ row[after[c]] # "none")
    BY <2>1, <1>1, <1>3 DEF OnlyRowsUntilEnd, Seqs
  <2> QED BY <2>1, <2>2, <1>1, <1>2
<1>9. \A g \in ToSet(got[c]) : g \in Nat /\ g < first
  <2>1. ToSet(got[c]) \subseteq Seqs BY SeqsAreNat DEF StreamTypeOK
  <2>2. \A g \in ToSet(got[c]) : row[g] # "none" BY <1>3 DEF OnlyRowsUntilEnd
  <2> QED BY <2>1, <2>2, <1>2, SeqsAreNat
<1>10. ClientComplete(c) BY DEF Complete
<1>11. ASSUME NEW s \in Retained(0)', NEW g \in ToSet(got[c]), s <= g
       PROVE  s \in ToSet(got[c]) \/ s <= synced[c]
  <2>1. s \in Retained(0) BY <1>5, <1>9, <1>11, <1>2
  <2> QED BY <2>1, <1>10, <1>11 DEF ClientComplete
<1>12. ASSUME pc[c] \in {"register", "on"}, NEW s \in Retained(0)', s <= after[c]
       PROVE  s \in ToSet(got[c]) \cup Coming(c) \/ s <= Stood(c)
  <2>1. s \in Retained(0) BY <1>5, <1>8, <1>12, <1>2
  <2> QED BY <2>1, <1>10, <1>12 DEF ClientComplete
<1>13. ASSUME pc[c] = "register" \/ c \in subs, NEW s \in Seqs, s \in (Retained(after[c]))'
       PROVE  s \in ToSet(pending')
  <2>1. s \in Retained(0)' /\ s > after[c] BY <1>7, <1>8, <1>13, SeqsAreNat DEF Retained
  <2>2. CASE s \in Retained(0)
    <3>1. s \in Retained(after[c]) BY <2>1, <2>2 DEF Retained
    <3> QED BY <3>1, <1>3, <1>10, <1>13, EmptySequence DEF ClientComplete
  <2> QED BY <2>1, <2>2, <1>5
<1>14. (Retained(after[c]))' \subseteq Seqs BY DEF Retained
<1> QED BY <1>7, <1>11, <1>12, <1>13, <1>14 DEF ClientComplete

LEMMA CompactComplete ==
  ASSUME StreamOrdered, Complete, CompactRunLogs
  PROVE  Complete'
<1> USE DEF StreamOrdered
<1>1. UNCHANGED <<pending, clientVars>> BY DEF CompactRunLogs
<1>2. \A s \in Seqs : row'[s] = row[s] \/ (row[s] = "log" /\ row'[s] \in {"none", "mark"})
  BY CompactionKeeps
<1>3. SUFFICES ASSUME NEW c \in Clients PROVE ClientComplete(c)' BY DEF Complete
<1>4. Retained(0)' \subseteq Retained(0) BY <1>2 DEF Retained
<1>5. (Retained(after[c]))' \subseteq Retained(after[c])
  BY <1>1, <1>2 DEF Retained, clientVars
<1>6. pc[c] = "register" \/ c \in subs' => (Retained(after[c]))' \subseteq ToSet(pending')
  BY <1>1, <1>5 DEF Complete, ClientComplete, clientVars
<1> QED BY <1>1, <1>4, <1>6, FrameComplete DEF Complete, SameClient, clientVars

LEMMA PublishComplete ==
  ASSUME StreamOrdered, Complete, Publish
  PROVE  Complete'
<1> DEFINE e == Head(pending)
           due == {c \in subs : after[c] < e}
           full == {c \in due : Len(chan[c]) >= Buffer}
<1> USE DEF StreamOrdered
<1>1. pending # <<>> /\ BrokerFree BY DEF Publish
<1>2. /\ chan' = [c \in Clients |-> IF c \in due \ full THEN Append(chan[c], e) ELSE chan[c]]
      /\ after' = [c \in Clients |-> IF c \in due \ full THEN e ELSE after[c]]
      /\ subs' = subs \ full /\ pending' = Tail(pending)
      /\ UNCHANGED <<row, pc, mark, backlog, got, synced>>
  BY DEF Publish
<1>3. e \in Seqs /\ e \in Nat /\ pending \in Seq(Seqs) /\ pending \in Seq(Nat)
  BY <1>1, SeqsAreNat DEF StreamTypeOK
<1>4. ToSet(pending) = {e} \cup ToSet(pending') BY <1>1, <1>2, <1>3, SetOfTail
<1>5. \A t \in ToSet(pending') : e < t BY <1>1, <1>2, <1>3, AscendingTail DEF EndStillToCome
<1>6. SUFFICES ASSUME NEW c \in Clients PROVE ClientComplete(c)' BY DEF Complete
<1>7. /\ pc[c] # "register" /\ after[c] \in Nat /\ ClientComplete(c)
      /\ \A s \in Retained(0) : s \in Nat
  BY <1>1, SeqsAreNat DEF BrokerFree, Complete, StreamTypeOK, Retained
<1>8. Retained(0)' = Retained(0) BY <1>2 DEF Retained
<1>9. CASE c \notin due \ full
  <2>1. SameClient(c) /\ synced'[c] = synced[c] /\ mark'[c] = mark[c]
    BY <1>9, <1>2 DEF SameClient
  <2>2. ASSUME c \in subs' PROVE (Retained(after[c]))' \subseteq ToSet(pending')
    <3>1. c \in subs /\ ~ (after[c] < e) BY <2>2, <1>2, <1>9
    <3>2. Retained(after[c]) \subseteq ToSet(pending) BY <3>1, <1>7 DEF ClientComplete
    <3>3. (Retained(after[c]))' = Retained(after[c]) BY <2>1, <1>2 DEF Retained, SameClient
    <3>4. \A s \in Retained(after[c]) : s # e BY <3>1, <1>3, <1>7 DEF Retained
    <3> QED BY <3>2, <3>3, <3>4, <1>4
  <2> QED BY <2>1, <2>2, <1>7, <1>8, FrameComplete
<1>10. CASE c \in due \ full
  <2>1. c \in subs /\ after[c] < e BY <1>10
  <2> HIDE DEF e, due, full
  <2>2. /\ chan'[c] = Append(chan[c], e) /\ after'[c] = e /\ pc'[c] = pc[c]
        /\ got'[c] = got[c] /\ synced'[c] = synced[c] /\ backlog'[c] = backlog[c]
    BY <1>2, <1>10
  <2>3. ToSet(chan'[c]) = ToSet(chan[c]) \cup {e} BY <2>2, <1>3, SetOfAppend DEF StreamTypeOK
  <2>4. Coming(c)' = Coming(c) \cup {e} BY <2>2, <2>3 DEF Coming
  <2>5. Stood(c)' = synced[c] /\ Stood(c) = synced[c] BY <2>2, <1>7 DEF Stood
  <2>6. pc[c] = "on" BY <2>1 DEF ClientOrdered
  <2>7. Retained(after[c]) \subseteq ToSet(pending) BY <2>1, <1>7 DEF ClientComplete
  <2>8. ASSUME NEW s \in Retained(0), s <= e
        PROVE  s \in ToSet(got[c]) \cup Coming(c) \cup {e} \/ s <= synced[c]
    <3>1. CASE s <= after[c] BY <3>1, <2>5, <2>6, <1>7 DEF ClientComplete
    <3>2. CASE s > after[c]
      <4>1. s \in ToSet(pending) BY <3>2, <2>7 DEF Retained
      <4>2. s \notin ToSet(pending') BY <2>8, <1>3, <1>5, <1>7
      <4> QED BY <4>1, <4>2, <1>4
    <3> QED BY <3>1, <3>2, <1>7
  <2>9. (Retained(after[c]))' \subseteq ToSet(pending')
    <3>1. (Retained(after[c]))' = Retained(e) BY <2>2, <1>2 DEF Retained
    <3>2. \A s \in Retained(e) : s \in Retained(after[c]) /\ s # e
      BY <2>1, <1>3, <1>7, SeqsAreNat DEF Retained
    <3> QED BY <3>1, <3>2, <2>7, <1>4
  <2> QED BY <2>2, <2>4, <2>5, <2>8, <2>9, <1>7, <1>8 DEF ClientComplete
<1> QED BY <1>9, <1>10

LEMMA CloseComplete ==
  ASSUME StreamOrdered, Complete, closeRun
  PROVE  Complete'
<1>1. subs' = {} /\ UNCHANGED <<row, pending, pc, mark, backlog, after, chan, got, synced>>
  BY DEF closeRun
<1>2. SUFFICES ASSUME NEW c \in Clients PROVE ClientComplete(c)' BY DEF Complete
<1>3. Retained(0)' = Retained(0) /\ (Retained(after[c]))' = Retained(after[c])
  BY <1>1 DEF Retained
<1>4. pc[c] = "register" \/ c \in subs' => (Retained(after[c]))' \subseteq ToSet(pending')
  BY <1>1, <1>3 DEF Complete, ClientComplete
<1> QED BY <1>1, <1>3, <1>4, FrameComplete DEF Complete, SameClient

\* The steps of a client leave the others as they are.
LEMMA OtherComplete ==
  ASSUME NEW c \in Clients, NEW d \in Clients, d # c, Complete, SameClient(d),
         synced'[d] = synced[d], mark'[d] = mark[d], d \in subs' => d \in subs,
         row' = row, pending' = pending
  PROVE  ClientComplete(d)'
<1>1. Retained(0)' = Retained(0) /\ (Retained(after[d]))' = Retained(after[d])
  BY DEF Retained, SameClient
<1>2. pc[d] = "register" \/ d \in subs' => (Retained(after[d]))' \subseteq ToSet(pending')
  BY <1>1 DEF Complete, ClientComplete
<1> QED BY <1>1, <1>2, FrameComplete DEF Complete

LEMMA SubscribeComplete ==
  ASSUME StreamOrdered, Complete, NEW c \in Clients, Subscribe(c)
  PROVE  Complete'
<1> USE DEF StreamOrdered
<1>1. /\ pc[c] = "out" /\ mark' = [mark EXCEPT ![c] = Watermark]
      /\ pc' = [pc EXCEPT ![c] = "rows"]
      /\ UNCHANGED <<row, pending, backlog, after, subs, chan, got, synced>>
  BY DEF Subscribe
<1>2. ClientComplete(c)'
  <2>1. pc'[c] = "rows" /\ c \notin subs' BY <1>1 DEF StreamTypeOK, ClientOrdered
  <2>2. Retained(0)' = Retained(0) BY <1>1 DEF Retained
  <2> QED BY <2>1, <2>2, <1>1 DEF ClientComplete, Complete
<1>3. ASSUME NEW d \in Clients, d # c PROVE ClientComplete(d)'
  BY <1>1, <1>3, OtherComplete DEF SameClient, StreamTypeOK
<1> QED BY <1>2, <1>3 DEF Complete

\* With room for the whole backlog ReadRows leaves nothing behind.
LEMMA ReadRowsComplete ==
  ASSUME StreamOrdered, Complete, BacklogLimit >= MaxSeq, NEW c \in Clients, ReadRows(c)
  PROVE  Complete'
<1> USE DEF StreamOrdered
<1>1. /\ pc[c] = "rows" /\ pc' = [pc EXCEPT ![c] = "register"]
      /\ backlog' = [backlog EXCEPT ![c] = backlog'[c]]
      /\ after' = [after EXCEPT ![c] = after'[c]]
      /\ UNCHANGED <<row, pending, mark, subs, chan, got, synced>>
  BY DEF ReadRows, StreamTypeOK
<1>2. /\ Start(c) \in 0..MaxSeq
      /\ backlog'[c] = FirstRows(Retained(Start(c)), BacklogLimit)
      /\ after'[c] \in 0..MaxSeq /\ Start(c) <= after'[c]
      /\ \A t \in ToSet(backlog'[c]) : t <= after'[c]
  BY ReadRowsFinds
<1>3. Retained(Start(c)) \subseteq ToSet(backlog'[c])
  <2>1. Retained(Start(c)) \in SUBSET (1..MaxSeq) BY DEF Retained, Seqs
  <2> QED BY <2>1, <1>2, FirstRowsSorted, StreamAssumption
<1>4. /\ got'[c] = got[c] /\ pc'[c] = "register" /\ c \notin subs' /\ synced'[c] = synced[c]
      /\ ToSet(backlog'[c]) \subseteq Coming(c)'
      /\ Retained(0)' = Retained(0) /\ \A s \in Retained(0) : s \in Nat /\ s # 0
  BY <1>1, SeqsAreNat DEF StreamTypeOK, ClientOrdered, Coming, Retained, Seqs
<1>5. Stood(c)' = IF Resyncs(c) THEN mark[c] ELSE synced[c]
  BY <1>1, <1>4 DEF Stood, Resyncs, Seen
<1>6. ClientComplete(c)'
  <2>1. ASSUME NEW s \in Retained(0), s <= after'[c]
        PROVE  s \in ToSet(got[c]) \cup Coming(c)' \/ s <= Stood(c)'
    <3>1. CASE s > Start(c)
      <4>1. s \in Retained(Start(c)) BY <3>1 DEF Retained
      <4> QED BY <4>1, <1>3, <1>4
    <3>2. CASE s <= Start(c) /\ Resyncs(c) BY <3>2, <1>5 DEF Start
    <3>3. CASE s <= Start(c) /\ ~ Resyncs(c)
      <4>1. s <= Seen(c) /\ Stood(c)' = synced[c] BY <3>3, <1>5 DEF Start
      <4>2. Seen(c) = 0 \/ Seen(c) = synced[c] \/ Seen(c) \in ToSet(got[c]) BY SeenIsLast
      <4>3. Seen(c) # 0 BY <4>1, <1>4
      <4>4. CASE Seen(c) = synced[c] BY <4>1, <4>4
      <4>5. CASE Seen(c) \in ToSet(got[c]) BY <4>1, <4>5 DEF Complete, ClientComplete
      <4> QED BY <4>2, <4>3, <4>4, <4>5
    <3> QED BY <3>1, <3>2, <3>3, <1>2, <1>4
  <2>2. (Retained(after[c]))' \subseteq ToSet(pending')
    <3>1. SUFFICES ASSUME NEW s \in Seqs, s > after'[c], row[s] \notin {"none", "mark"} PROVE FALSE
      BY <1>1 DEF Retained
    <3>2. s \in Retained(Start(c)) BY <3>1, <1>2, SeqsAreNat DEF Retained
    <3>3. s <= after'[c] BY <3>2, <1>2, <1>3
    <3> QED BY <3>1, <3>3, <1>2, SeqsAreNat
  <2>3. \A s \in Retained(0) : (\E g \in ToSet(got[c]) : s <= g)
                               => s \in ToSet(got[c]) \/ s <= synced[c]
    BY DEF Complete, ClientComplete
  <2> QED BY <2>1, <2>2, <2>3, <1>4 DEF ClientComplete
<1>7. ASSUME NEW d \in Clients, d # c PROVE ClientComplete(d)'
  BY <1>1, <1>7, OtherComplete DEF SameClient, StreamTypeOK
<1> QED BY <1>6, <1>7 DEF Complete

LEMMA RegisterComplete ==
  ASSUME StreamOrdered, Complete, NEW c \in Clients, Register(c)
  PROVE  Complete'
<1> USE DEF StreamOrdered
<1>1. /\ pc[c] = "register" /\ pc' = [pc EXCEPT ![c] = "on"]
      /\ chan' = [chan EXCEPT ![c] = <<>>]
      /\ subs' = IF Ended THEN subs ELSE subs \cup {c}
      /\ synced' = [synced EXCEPT ![c] = IF Resyncs(c) THEN mark[c] ELSE @]
      /\ got' = [got EXCEPT ![c] = @ \o backlog[c]]
      /\ backlog' = [backlog EXCEPT ![c] = <<>>]
      /\ UNCHANGED <<row, pending, mark, after>>
  BY DEF Register
<1>2. /\ got[c] \in Seq(Seqs) /\ backlog[c] \in Seq(Seqs) /\ chan[c] = <<>>
  BY <1>1 DEF StreamTypeOK, ClientOrdered
<1>3. /\ got'[c] = got[c] \o backlog[c] /\ pc'[c] = "on" /\ after'[c] = after[c]
      /\ synced'[c] = Stood(c) /\ Stood(c)' = synced'[c]
      /\ chan'[c] = <<>> /\ backlog'[c] = <<>>
  BY <1>1 DEF StreamTypeOK, Stood
<1>4. ToSet(got'[c]) = ToSet(got[c]) \cup ToSet(backlog[c]) BY <1>2, <1>3, SetOfJoin
<1>5. Coming(c) = ToSet(backlog[c]) BY <1>2, EmptySequence DEF Coming
<1>6. Retained(0)' = Retained(0) /\ (Retained(after[c]))' = Retained(after[c])
      /\ \A s \in Retained(0) : s \in Nat
  BY <1>1, SeqsAreNat DEF Retained
<1>7. after[c] \in Nat /\ \A g \in ToSet(got'[c]) : g \in Nat /\ g <= after[c]
  <2>1. \A g \in ToSet(got[c]) \cup ToSet(backlog[c]) : g <= after[c]
    BY <1>1, <1>5 DEF ClientOrdered
  <2>2. ToSet(got[c]) \cup ToSet(backlog[c]) \subseteq Nat /\ after[c] \in Nat
    BY SeqsAreNat DEF StreamTypeOK
  <2> QED BY <2>1, <2>2, <1>4
<1>8. ClientComplete(c)'
  <2>1. ASSUME NEW s \in Retained(0), s <= after[c]
        PROVE  s \in ToSet(got'[c]) \/ s <= synced'[c]
    BY <2>1, <1>1, <1>3, <1>4, <1>5 DEF Complete, ClientComplete
  <2>2. ASSUME NEW s \in Retained(0), NEW g \in ToSet(got'[c]), s <= g
        PROVE  s \in ToSet(got'[c]) \/ s <= synced'[c]
    BY <2>1, <2>2, <1>6, <1>7
  <2>3. Retained(after[c]) \subseteq ToSet(pending') BY <1>1 DEF Complete, ClientComplete
  <2> QED BY <2>1, <2>2, <2>3, <1>3, <1>6 DEF ClientComplete
<1>9. ASSUME NEW d \in Clients, d # c PROVE ClientComplete(d)'
  BY <1>1, <1>9, OtherComplete DEF SameClient, StreamTypeOK
<1> QED BY <1>8, <1>9 DEF Complete

LEMMA ReceiveComplete ==
  ASSUME StreamOrdered, Complete, NEW c \in Clients, Receive(c)
  PROVE  Complete'
<1> DEFINE e == Head(chan[c])
<1> USE DEF StreamOrdered
<1>1. /\ pc[c] = "on" /\ chan[c] # <<>>
      /\ got' = [got EXCEPT ![c] = Append(@, e)]
      /\ chan' = [chan EXCEPT ![c] = Tail(@)]
      /\ UNCHANGED <<row, pending, pc, mark, backlog, after, subs, synced>>
  BY DEF Receive
<1>2. /\ got[c] \in Seq(Seqs) /\ chan[c] \in Seq(Seqs) /\ chan[c] \in Seq(Nat)
      /\ backlog[c] = <<>> /\ Ascending(chan[c]) /\ after[c] \in Nat
      /\ ToSet(got[c]) \subseteq Nat /\ ToSet(chan[c]) \subseteq Nat
  BY <1>1, SeqsAreNat DEF StreamTypeOK, ClientOrdered
<1>3. e \in Seqs /\ e \in Nat BY <1>1, <1>2, SeqsAreNat
<1>4. ToSet(chan[c]) = {e} \cup ToSet(Tail(chan[c])) BY <1>1, <1>2, SetOfTail
<1>5. \A t \in ToSet(Tail(chan[c])) : e < t BY <1>1, <1>2, AscendingTail
<1> HIDE DEF e
<1>6. ToSet(Append(got[c], e)) = ToSet(got[c]) \cup {e} BY <1>2, <1>3, SetOfAppend
<1>7. /\ got'[c] = Append(got[c], e) /\ chan'[c] = Tail(chan[c]) /\ backlog'[c] = <<>>
      /\ Stood(c) = synced[c] /\ Stood(c)' = synced[c]
  BY <1>1, <1>2 DEF StreamTypeOK, Stood
<1>8. Coming(c) = ToSet(chan[c]) /\ Coming(c)' = ToSet(Tail(chan[c]))
  BY <1>2, <1>7, EmptySequence DEF Coming
<1>9. ToSet(got'[c]) = ToSet(got[c]) \cup {e}
      /\ ToSet(got'[c]) \cup Coming(c)' = ToSet(got[c]) \cup Coming(c)
  BY <1>4, <1>6, <1>7, <1>8
<1>10. \A g \in ToSet(got'[c]) : g \in Nat /\ g <= after[c] /\ \A t \in Coming(c)' : t \in Nat /\ g < t
  <2>1. \A g \in ToSet(got[c]) : g <= after[c] /\ \A t \in ToSet(chan[c]) : g < t
    BY <1>1, <1>8 DEF ClientOrdered
  <2>2. e <= after[c] BY <1>4, <1>8 DEF ClientOrdered
  <2> QED BY <2>1, <2>2, <1>2, <1>3, <1>4, <1>5, <1>8, <1>9
<1>11. Retained(0)' = Retained(0) /\ (Retained(after[c]))' = Retained(after[c])
       /\ \A s \in Retained(0) : s \in Nat
  BY <1>1, SeqsAreNat DEF Retained
<1>12. ASSUME NEW s \in Retained(0), s <= after[c]
       PROVE  s \in ToSet(got'[c]) \cup Coming(c)' \/ s <= synced[c]
  BY <1>1, <1>7, <1>9, <1>12 DEF Complete, ClientComplete
<1>13. ASSUME NEW s \in Retained(0), NEW g \in ToSet(got'[c]), s <= g
       PROVE  s \in ToSet(got'[c]) \/ s <= synced[c]
  <2>1. s <= after[c] BY <1>2, <1>10, <1>11, <1>13
  <2>2. s \notin Coming(c)' BY <1>10, <1>11, <1>13
  <2> QED BY <2>1, <2>2, <1>12
<1>14. c \in subs => Retained(after[c]) \subseteq ToSet(pending) BY DEF Complete, ClientComplete
<1>15. ClientComplete(c)'
  BY <1>1, <1>7, <1>11, <1>12, <1>13, <1>14 DEF ClientComplete
<1>16. ASSUME NEW d \in Clients, d # c PROVE ClientComplete(d)'
  BY <1>1, <1>16, OtherComplete DEF SameClient, StreamTypeOK
<1> QED BY <1>15, <1>16 DEF Complete

LEMMA LeaveComplete ==
  ASSUME StreamOrdered, Complete, NEW c \in Clients, Leave(c)
  PROVE  Complete'
<1> USE DEF StreamOrdered
<1>1. /\ subs' = subs \ {c} /\ pc' = [pc EXCEPT ![c] = "out"]
      /\ chan' = [chan EXCEPT ![c] = <<>>]
      /\ UNCHANGED <<row, pending, mark, backlog, after, got, synced>>
  BY DEF Leave, unsubscribe
<1>2. ClientComplete(c)'
  <2>1. pc'[c] = "out" /\ c \notin subs' BY <1>1 DEF StreamTypeOK
  <2>2. Retained(0)' = Retained(0) BY <1>1 DEF Retained
  <2> QED BY <2>1, <2>2, <1>1 DEF ClientComplete, Complete
<1>3. ASSUME NEW d \in Clients, d # c PROVE ClientComplete(d)'
  BY <1>1, <1>3, OtherComplete DEF SameClient, StreamTypeOK
<1> QED BY <1>2, <1>3 DEF Complete

LEMMA NextComplete ==
  ASSUME BacklogLimit >= MaxSeq
  PROVE  StreamOrdered /\ Complete /\ [StreamNext]_streamVars => Complete'
<1> SUFFICES ASSUME StreamOrdered, Complete, [StreamNext]_streamVars PROVE Complete' OBVIOUS
<1>1. ASSUME NEW kinds \in Batches, appendEventTx(kinds) PROVE Complete'
  BY <1>1, AppendComplete
<1>2. CASE CompactRunLogs BY <1>2, CompactComplete
<1>3. CASE Publish BY <1>3, PublishComplete
<1>4. CASE closeRun BY <1>4, CloseComplete
<1>5. ASSUME NEW c \in Clients, Subscribe(c) PROVE Complete' BY <1>5, SubscribeComplete
<1>6. ASSUME NEW c \in Clients, ReadRows(c) PROVE Complete' BY <1>6, ReadRowsComplete
<1>7. ASSUME NEW c \in Clients, Register(c) PROVE Complete' BY <1>7, RegisterComplete
<1>8. ASSUME NEW c \in Clients, Receive(c) PROVE Complete' BY <1>8, ReceiveComplete
<1>9. ASSUME NEW c \in Clients, Finish(c) PROVE Complete' BY <1>9, LeaveComplete DEF Finish
<1>10. ASSUME NEW c \in Clients, Drop(c) PROVE Complete' BY <1>10, LeaveComplete DEF Drop
<1>11. CASE UNCHANGED streamVars
  <2>1. SUFFICES ASSUME NEW c \in Clients PROVE ClientComplete(c)' BY DEF Complete
  <2>2. Retained(0)' = Retained(0) /\ (Retained(after[c]))' = Retained(after[c])
    BY <1>11 DEF Retained, streamVars
  <2>3. pc[c] = "register" \/ c \in subs' => (Retained(after[c]))' \subseteq ToSet(pending')
    BY <1>11, <2>2 DEF Complete, ClientComplete, streamVars
  <2> QED BY <1>11, <2>2, <2>3, FrameComplete DEF Complete, SameClient, streamVars
<1> QED
  BY <1>1, <1>2, <1>3, <1>4, <1>5, <1>6, <1>7, <1>8, <1>9, <1>10, <1>11 DEF StreamNext

\* A client without a gap in what it holds, as the property states it.
LEMMA CompleteMeansNoGap ==
  ASSUME StreamTypeOK, Complete PROVE NoRetainedGap
<1>1. SUFFICES ASSUME NEW c \in Clients, NEW s \in Seqs, s <= Seen(c),
                      row[s] \notin {"none", "mark"}
               PROVE  s \in ToSet(got[c]) \/ s <= synced[c]
  BY DEF NoRetainedGap
<1>2. s \in Retained(0) /\ s # 0 /\ s \in Nat BY <1>1, SeqsAreNat DEF Retained, Seqs
<1>3. Seen(c) = 0 \/ Seen(c) = synced[c] \/ Seen(c) \in ToSet(got[c]) BY SeenIsLast
<1>4. CASE Seen(c) = 0 BY <1>1, <1>2, <1>4
<1>5. CASE Seen(c) = synced[c] BY <1>1, <1>5
<1>6. CASE Seen(c) \in ToSet(got[c]) BY <1>1, <1>2, <1>6 DEF Complete, ClientComplete
<1> QED BY <1>3, <1>4, <1>5, <1>6

\* As long as a backlog fits into the limit of EventsAfter, a client that lost
\* its connections, was cut off for being slow or came after a compaction has
\* no hole in what it holds; everything of StreamOrderly holds as well.
THEOREM StreamInvariance ==
  ASSUME BacklogLimit >= MaxSeq
  PROVE  StreamSpec => []StreamInv
<1>1. StreamInit => StreamOrdered /\ Complete BY InitOrdered, InitComplete
<1>2. StreamOrdered /\ Complete /\ [StreamNext]_streamVars => (StreamOrdered /\ Complete)'
  BY NextOrdered, NextComplete
<1>3. StreamOrdered /\ Complete => StreamInv
  <2> SUFFICES ASSUME StreamOrdered, Complete PROVE StreamInv OBVIOUS
  <2>1. NoRetainedGap BY CompleteMeansNoGap DEF StreamOrdered
  <2>2. AscendingOnce BY DEF StreamOrdered, AscendingOnce, ClientOrdered
  <2>3. NobodyWaitsOnEndedRun
    BY DEF StreamOrdered, EndStillToCome, NobodyWaitsOnEndedRun, WriteFree
  <2> QED BY <2>1, <2>2, <2>3 DEF StreamInv, Complete
<1> QED BY <1>1, <1>2, <1>3, PTL DEF StreamSpec

===========================================================================

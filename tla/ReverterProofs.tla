--------------------------- MODULE ReverterProofs ---------------------------
(***************************************************************************)
(* Proofs about the reverter, for every number of findings, events,        *)
(* installations, days and restarts: first the clusters one call builds,   *)
(* then what the handlers make of them.                                    *)
(***************************************************************************)
EXTENDS Reverter, ClusterCall, FiniteSetTheorems, SequenceTheorems, WellFoundedInduction, TLAPS

IsSequence(s) == s \in Seq(Range(s))

(* A sequence is one of the things in it. *)
LEMMA SequenceOfItsRange == ASSUME NEW S, NEW s \in Seq(S) PROVE IsSequence(s)
<1>1. Len(s) \in Nat /\ s \in [1 .. Len(s) -> Range(s)]  BY LenProperties DEF Range
<1> QED  BY <1>1, SeqDef DEF IsSequence

Below == {p \in Nat \X Nat : p[1] < p[2]}

(* A set of naturals that is not empty has a least member. *)
LEMMA Least ==
  ASSUME NEW T, T \subseteq Nat, T # {}
  PROVE  \E x \in T : \A y \in T : x <= y
<1>1. Below = OpToRel(<, Nat)  BY Zenon DEF Below, OpToRel
<1>2. PICK x \in T : \A y \in T : <<y, x>> \notin Below
  BY <1>1, NatLessThanWellFounded, WFMin, Zenon
<1>3. ASSUME NEW y \in T, y < x PROVE FALSE
  <2>1. <<y, x>> \in Below  BY <1>3 DEF Below
  <2> QED  BY <1>2, <2>1
<1> QED  BY <1>3

(***************************************************************************)
(* Sorting.  The rank of a member is the number of members before it: no   *)
(* two have the same rank and there are as many ranks as members, so each  *)
(* rank is somebody's.                                                     *)
(***************************************************************************)
StrictOrder(S, before) ==
  /\ \A x \in S : <<x, x>> \notin before
  /\ \A x, y \in S : x # y => <<x, y>> \in before \/ <<y, x>> \in before
  /\ \A x, y, z \in S : <<x, y>> \in before /\ <<y, z>> \in before => <<x, z>> \in before

(* A listing of S in the order: every member at one place. *)
ListsInOrder(l, S, before) ==
  /\ l \in [1 .. Cardinality(S) -> S]
  /\ \A x \in S : \E k \in 1 .. Cardinality(S) : l[k] = x
  /\ \A j, k \in 1 .. Cardinality(S) : j < k => <<l[j], l[k]>> \in before
  /\ \A j, k \in 1 .. Cardinality(S) : l[j] = l[k] => j = k

(* Who comes before a member comes before all behind it, and so does it. *)
LEMMA RanksAreDistinct ==
  ASSUME NEW S, NEW before, IsFiniteSet(S), StrictOrder(S, before),
         NEW x \in S, NEW y \in S, <<x, y>> \in before
  PROVE  Cardinality({z \in S : <<z, x>> \in before}) < Cardinality({z \in S : <<z, y>> \in before})
<1> DEFINE P == {z \in S : <<z, x>> \in before}
           Q == {z \in S : <<z, y>> \in before}
<1>1. P \in SUBSET Q /\ x \in Q /\ x \notin P  BY DEF StrictOrder
<1>2. Q \in SUBSET S  OBVIOUS
<1> HIDE DEF P, Q
<1>3. IsFiniteSet(Q)  BY <1>2, FS_Subset
<1>4. IsFiniteSet(P) /\ Cardinality(P) <= Cardinality(Q) /\ Cardinality(P) # Cardinality(Q)
  BY <1>1, <1>3, FS_Subset
<1>5. Cardinality(P) \in Nat /\ Cardinality(Q) \in Nat  BY <1>3, <1>4, FS_CardinalityType
<1>6. Cardinality(P) < Cardinality(Q)  BY <1>4, <1>5
<1> QED  BY <1>6 DEF P, Q

(* So the member of a rank exists and is the only one: the listing sorts. *)
LEMMA ListingSorts ==
  ASSUME NEW S, NEW before, IsFiniteSet(S), StrictOrder(S, before)
  PROVE  Cardinality(S) \in Nat /\ ListsInOrder(Listing(S, before), S, before)
<1> DEFINE n == Cardinality(S)
           rank(x) == Cardinality({y \in S : <<y, x>> \in before})
           l == Listing(S, before)
<1>1. n \in Nat  BY FS_CardinalityType
<1>2. \A x, y \in S : <<x, y>> \in before => rank(x) < rank(y)
  BY RanksAreDistinct
<1>3. \A x \in S : rank(x) \in 0 .. n - 1
  <2> TAKE x \in S
  <2> DEFINE P == {y \in S : <<y, x>> \in before}
  <2>1. P \in SUBSET S /\ x \notin P  BY DEF StrictOrder
  <2>2. rank(x) = Cardinality(P)  OBVIOUS
  <2> HIDE DEF P, rank
  <2>3. IsFiniteSet(P) /\ Cardinality(P) <= n /\ Cardinality(P) # n  BY <2>1, FS_Subset
  <2>4. Cardinality(P) \in Nat  BY <2>3, FS_CardinalityType
  <2> HIDE DEF n
  <2> QED  BY <1>1, <2>2, <2>3, <2>4
<1> HIDE DEF rank
<1>4. \A x, y \in S : rank(x) = rank(y) => x = y
  <2> SUFFICES ASSUME NEW x \in S, NEW y \in S, rank(x) = rank(y), x # y PROVE FALSE
    OBVIOUS
  <2>1. rank(x) < rank(y) \/ rank(y) < rank(x)  BY <1>2 DEF StrictOrder
  <2>2. rank(x) \in Int /\ rank(y) \in Int
    <3> HIDE DEF n
    <3> QED  BY <1>1, <1>3
  <2> QED  BY <2>1, <2>2
<1>5. \A r \in 0 .. n - 1 : \E x \in S : rank(x) = r
  <2> DEFINE R == 0 .. n - 1
             f == [x \in S |-> rank(x)]
  <2>1. f \in [S -> R]  BY <1>3
  <2>2. f \in Injection(S, R)  BY <1>4, <2>1 DEF Injection, IsInjective
  <2>3. IsFiniteSet(R) /\ Cardinality(R) = n
    <3> HIDE DEF n
    <3>1. n - 1 \in Int /\ (0 > n - 1 => n = 0) /\ n - 1 - 0 + 1 = n  BY <1>1
    <3>2. IsFiniteSet(R) /\ Cardinality(R) = IF 0 > n - 1 THEN 0 ELSE n - 1 - 0 + 1
      BY <3>1, FS_Interval
    <3> QED  BY <3>1, <3>2
  <2> HIDE DEF R
  <2>4. f \in Surjection(S, R)  BY <2>2, <2>3, FS_Injection
  <2>5. \A r \in R : \E x \in S : f[x] = r  BY <2>4 DEF Surjection
  <2> QED  BY <2>5 DEF R
<1>6. \A k \in 1 .. n : l[k] \in S /\ rank(l[k]) = k - 1
  <2> TAKE k \in 1 .. n
  <2>1. k - 1 \in 0 .. n - 1
    <3> HIDE DEF n
    <3> QED  BY <1>1
  <2>2. l[k] = CHOOSE x \in S : rank(x) = k - 1  BY DEF Listing, rank
  <2> HIDE DEF l
  <2> QED  BY <1>5, <2>1, <2>2
<1>7. l \in [1 .. n -> S]
  <2> DEFINE member(k) == CHOOSE x \in S : Cardinality({y \in S : <<y, x>> \in before}) = k - 1
  <2>1. l = [k \in 1 .. n |-> member(k)]  BY DEF Listing
  <2> HIDE DEF l, member
  <2> QED  BY <1>6, <2>1
<1> HIDE DEF l
<1>8. ASSUME NEW j \in 1 .. n, NEW k \in 1 .. n, l[j] = l[k] PROVE j = k
  <2>1. j - 1 = k - 1  BY <1>6, <1>8
  <2>2. j \in Int /\ k \in Int
    <3> HIDE DEF n
    <3> QED  BY <1>1
  <2> QED  BY <2>1, <2>2
<1>9. ASSUME NEW x \in S PROVE \E k \in 1 .. n : l[k] = x
  <2>1. rank(x) + 1 \in 1 .. n /\ (rank(x) + 1) - 1 = rank(x)
    <3> HIDE DEF n
    <3>1. rank(x) \in 0 .. n - 1  BY <1>3
    <3> QED  BY <1>1, <3>1
  <2>2. l[rank(x) + 1] = x  BY <1>4, <1>6, <2>1
  <2> QED  BY <2>1, <2>2
<1>10. ASSUME NEW j \in 1 .. n, NEW k \in 1 .. n, j < k PROVE <<l[j], l[k]>> \in before
  <2>1. j \in Int /\ k \in Int /\ j # k /\ ~ (k - 1 < j - 1)
    <3> HIDE DEF n
    <3> QED  BY <1>1, <1>10
  <2>2. l[j] # l[k]  BY <1>8, <2>1
  <2>3. <<l[k], l[j]>> \notin before
    BY <1>2, <1>6, <2>1
  <2> QED  BY <1>6, <2>2, <2>3 DEF StrictOrder
<1> QED  BY <1>1, <1>7, <1>8, <1>9, <1>10 DEF ListsInOrder, l

-----------------------------------------------------------------------------

(* What is numbered from 1 is a sequence. *)
LEMMA NumberedIsSequence ==
  ASSUME NEW s, NEW n \in Nat, s \in [1 .. n -> Range(s)]
  PROVE  IsSequence(s) /\ Len(s) = n /\ DOMAIN s = 1 .. n
<1>1. s \in Seq(Range(s))  BY SeqDef
<1>2. DOMAIN s = 1 .. Len(s) /\ Len(s) \in Nat  BY <1>1, LenProperties
<1>3. Len(s) = n  BY <1>1
<1> QED  BY <1>1, <1>2, <1>3 DEF IsSequence

(***************************************************************************)
(* Grouping.  The first finding of a group is its head; a finding is in    *)
(* the group of the first finding with its key, and in no other.           *)
(***************************************************************************)
Heads(fs) == {i \in Located(fs) : \A j \in GroupAt(fs, i) : i <= j}

IsPartition(groups, m, fs) ==
  /\ \A k \in 1 .. m : groups[k] \subseteq Located(fs)
  /\ \A k \in 1 .. m : \A i, j \in groups[k] : GroupKey(fs[i]) = GroupKey(fs[j])
  /\ \A i \in Located(fs) : \E k \in 1 .. m : i \in groups[k]
  /\ \A j, k \in 1 .. m : \A i \in groups[j] : i \in groups[k] => j = k

LEMMA GroupsPartition ==
  ASSUME NEW fs, NEW n \in Nat, DOMAIN fs = 1 .. n
  PROVE  \E m \in Nat : Len(Groups(fs)) = m /\ IsPartition(Groups(fs), m, fs)
<1> DEFINE H == Heads(fs)
           earlier == {p \in H \X H : p[1] < p[2]}
           l == Listing(H, earlier)
           m == Cardinality(H)
           G == Groups(fs)
<1>1. H \in SUBSET (1 .. n) /\ IsFiniteSet(1 .. n)
  <2>1. 0 \in Int /\ 1 \in Int /\ n \in Int  OBVIOUS
  <2>2. IsFiniteSet(1 .. n)  BY <2>1, FS_Interval
  <2> QED  BY <2>2 DEF Heads, Located
<1>2. IsFiniteSet(H)  BY <1>1, FS_Subset
<1>3. StrictOrder(H, earlier)
  <2>1. \A x, y \in H : <<x, y>> \in earlier <=> x < y  OBVIOUS
  <2>2. \A x \in H : x \in Int  BY <1>1
  <2> HIDE DEF H, earlier
  <2>3. \A x \in H : ~ (x < x)  BY <2>2
  <2>4. \A x, y \in H : x # y => x < y \/ y < x  BY <2>2
  <2>5. \A x, y, z \in H : x < y /\ y < z => x < z  BY <2>2
  <2> QED  BY <2>1, <2>3, <2>4, <2>5, Zenon DEF StrictOrder
<1>4. m \in Nat /\ ListsInOrder(l, H, earlier)
  <2> HIDE DEF H, earlier
  <2> QED  BY <1>2, <1>3, ListingSorts
<1>5. G = [k \in DOMAIN l |-> GroupAt(fs, l[k])]
  BY DEF Groups, Heads
<1> HIDE DEF l, earlier, G
<1>6. DOMAIN l = 1 .. m /\ \A k \in 1 .. m : l[k] \in H  BY <1>4 DEF ListsInOrder
<1> HIDE DEF m
<1>7. G = [k \in 1 .. m |-> GroupAt(fs, l[k])]  BY <1>5, <1>6
<1>8. Len(G) = m
  <2>1. G \in [1 .. m -> Range(G)]  BY <1>7 DEF Range
  <2> QED  BY <1>4, <2>1, NumberedIsSequence
<1>9. ASSUME NEW k \in 1 .. m
      PROVE  G[k] \subseteq Located(fs) /\ \A i, j \in G[k] : GroupKey(fs[i]) = GroupKey(fs[j])
  BY <1>7, <1>9 DEF GroupAt
<1>10. ASSUME NEW i \in Located(fs) PROVE \E k \in 1 .. m : i \in G[k]
  <2>1. i \in GroupAt(fs, i)  BY DEF GroupAt
  <2>2. GroupAt(fs, i) \subseteq Nat  BY DEF GroupAt, Located
  <2>3. PICK h \in GroupAt(fs, i) : \A j \in GroupAt(fs, i) : h <= j  BY <2>1, <2>2, Least
  <2>4. h \in Located(fs) /\ GroupAt(fs, h) = GroupAt(fs, i)  BY <2>3 DEF GroupAt
  <2>5. h \in H  BY <2>3, <2>4 DEF Heads
  <2>6. PICK k \in 1 .. m : l[k] = h  BY <1>4, <2>5 DEF ListsInOrder, m
  <2>7. G[k] = GroupAt(fs, i)  BY <1>7, <2>4, <2>6
  <2> QED  BY <2>1, <2>7
<1>11. ASSUME NEW j \in 1 .. m, NEW k \in 1 .. m, NEW i \in G[j], i \in G[k] PROVE j = k
  <2>1. i \in GroupAt(fs, l[j]) /\ i \in GroupAt(fs, l[k])  BY <1>7, <1>11
  <2>2. l[j] \in GroupAt(fs, l[k]) /\ l[k] \in GroupAt(fs, l[j])
    BY <1>6, <2>1 DEF GroupAt, Heads
  <2>3. l[j] <= l[k] /\ l[k] <= l[j]  BY <1>6, <2>2 DEF Heads
  <2>4. l[j] \in Int /\ l[k] \in Int  BY <1>1, <1>6
  <2>5. l[j] = l[k]  BY <2>3, <2>4
  <2> QED  BY <1>4, <2>5 DEF ListsInOrder, m
<1>12. IsPartition(G, m, fs)  BY <1>9, <1>10, <1>11 DEF IsPartition
<1> QED  BY <1>4, <1>8, <1>12 DEF G

(***************************************************************************)
(* Sorting a group by line: its findings, each once, and none behind one   *)
(* of a later line.                                                        *)
(***************************************************************************)
LEMMA SortedIsSequence ==
  ASSUME NEW fs, NEW n \in Nat, DOMAIN fs = 1 .. n, NEW g \in SUBSET Located(fs)
  PROVE  /\ IsFiniteSet(g) /\ Cardinality(g) \in Nat
         /\ IsSequence(SortedByLine(fs, g)) /\ Len(SortedByLine(fs, g)) = Cardinality(g)
<1> DEFINE s == SortedByLine(fs, g)
           c == Cardinality(g)
<1>1. IsFiniteSet(g) /\ c \in Nat
  <2>1. 1 \in Int /\ n \in Int  OBVIOUS
  <2>2. IsFiniteSet(1 .. n)  BY <2>1, FS_Interval
  <2>3. g \in SUBSET (1 .. n)  BY DEF Located
  <2>4. IsFiniteSet(g)  BY <2>2, <2>3, FS_Subset
  <2> QED  BY <2>4, FS_CardinalityType
<1>2. s \in [1 .. c -> Range(s)]
  <2>1. PICK o : DOMAIN o = 1 .. c /\ s = [k \in DOMAIN o |-> fs[o[k]]]
    BY DEF SortedByLine, Listing
  <2> HIDE DEF s
  <2> QED  BY <2>1 DEF Range
<1> HIDE DEF s, c
<1> QED  BY <1>1, <1>2, NumberedIsSequence DEF s, c

IsInput(fs) ==
  /\ \E n \in Nat : DOMAIN fs = 1 .. n
  /\ \A i \in DOMAIN fs : fs[i].fingerprint = i /\ fs[i].start \in Nat /\ fs[i].end \in Nat

(* The findings of a group of places, sorted. *)
IsSorted(s, len, g, fs) ==
  /\ \A k \in 1 .. len : s[k].fingerprint \in g /\ s[k] = fs[s[k].fingerprint]
  /\ \A i \in g : \E k \in 1 .. len : s[k].fingerprint = i
  /\ \A j, k \in 1 .. len : s[j].fingerprint = s[k].fingerprint => j = k
  /\ \A j, k \in 1 .. len : j < k => ~ Earlier(s[k], s[j])

LEMMA SortedIsSorted ==
  ASSUME NEW fs, IsInput(fs), NEW g \in SUBSET Located(fs)
  PROVE  IsSorted(SortedByLine(fs, g), Cardinality(g), g, fs)
<1> PICK n \in Nat : DOMAIN fs = 1 .. n  BY DEF IsInput
<1> DEFINE s == SortedByLine(fs, g)
           c == Cardinality(g)
           before == {p \in g \X g :
                        \/ Earlier(fs[p[1]], fs[p[2]])
                        \/ ~Earlier(fs[p[2]], fs[p[1]]) /\ p[1] < p[2]}
           o == Listing(g, before)
<1>1. IsFiniteSet(g) /\ c \in Nat  BY SortedIsSequence
<1>2. \A i \in g : i \in Nat /\ i \in DOMAIN fs /\ fs[i].fingerprint = i /\ fs[i].start \in Nat
  BY DEF Located, IsInput
<1>3. \A x, y \in g : <<x, y>> \in before
        <=> Earlier(fs[x], fs[y]) \/ (~Earlier(fs[y], fs[x]) /\ x < y)
  OBVIOUS
<1>4. StrictOrder(g, before)
  <2> HIDE DEF before
  <2>1. \A x \in g : <<x, x>> \notin before  BY <1>2, <1>3 DEF Earlier, NoLine
  <2>2. \A x, y \in g : x # y => <<x, y>> \in before \/ <<y, x>> \in before
    <3> SUFFICES ASSUME NEW x \in g, NEW y \in g, x # y
                 PROVE <<x, y>> \in before \/ <<y, x>> \in before
      OBVIOUS
    <3>1. x < y \/ y < x  BY <1>2
    <3> QED  BY <1>3, <3>1
  <2>3. \A x, y, z \in g : <<x, y>> \in before /\ <<y, z>> \in before => <<x, z>> \in before
    <3> SUFFICES ASSUME NEW x \in g, NEW y \in g, NEW z \in g,
                        <<x, y>> \in before, <<y, z>> \in before
                 PROVE  <<x, z>> \in before
      OBVIOUS
    <3>1. x \in Nat /\ y \in Nat /\ z \in Nat  BY <1>2
    <3>2. PICK a \in Nat, b \in Nat, d \in Nat :
            a = fs[x].start /\ b = fs[y].start /\ d = fs[z].start
      BY <1>2
    <3>3. \/ (a # 0 /\ (b = 0 \/ a < b))
          \/ ~ (b # 0 /\ (a = 0 \/ b < a)) /\ x < y
      BY <1>3, <3>2 DEF Earlier, NoLine
    <3>4. \/ (b # 0 /\ (d = 0 \/ b < d))
          \/ ~ (d # 0 /\ (b = 0 \/ d < b)) /\ y < z
      BY <1>3, <3>2 DEF Earlier, NoLine
    <3>5. \/ (a # 0 /\ (d = 0 \/ a < d))
          \/ ~ (d # 0 /\ (a = 0 \/ d < a)) /\ x < z
      BY ONLY <3>1, <3>3, <3>4, a \in Nat, b \in Nat, d \in Nat
    <3> QED  BY <1>3, <3>2, <3>5 DEF Earlier, NoLine
  <2> QED  BY <2>1, <2>2, <2>3, Zenon DEF StrictOrder
<1>5. ListsInOrder(o, g, before)
  <2> HIDE DEF before
  <2> QED  BY <1>1, <1>4, ListingSorts
<1>6. s = [k \in DOMAIN o |-> fs[o[k]]]  BY DEF SortedByLine
<1> HIDE DEF s, o, before
<1>7. o \in [1 .. c -> g]  BY <1>5 DEF ListsInOrder
<1> HIDE DEF c
<1>8. \A k \in 1 .. c : o[k] \in g /\ s[k] = fs[o[k]] /\ s[k].fingerprint = o[k]
  BY <1>2, <1>6, <1>7
<1>9. \A i \in g : \E k \in 1 .. c : s[k].fingerprint = i
  BY <1>5, <1>8 DEF ListsInOrder, c
<1>10. \A j, k \in 1 .. c : s[j].fingerprint = s[k].fingerprint => j = k
  BY <1>5, <1>8 DEF ListsInOrder, c
<1>11. ASSUME NEW j \in 1 .. c, NEW k \in 1 .. c, j < k PROVE ~ Earlier(s[k], s[j])
  <2>1. <<o[j], o[k]>> \in before  BY <1>5, <1>11 DEF ListsInOrder, c
  <2>2. Earlier(s[j], s[k]) \/ ~ Earlier(s[k], s[j])  BY <1>3, <1>8, <2>1
  <2>3. s[j].start \in Nat /\ s[k].start \in Nat  BY <1>2, <1>8
  <2> QED  BY <2>2, <2>3 DEF Earlier, NoLine
<1>12. \A k \in 1 .. c : s[k].fingerprint \in g /\ s[k] = fs[s[k].fingerprint]  BY <1>8
<1> QED  BY <1>9, <1>10, <1>11, <1>12 DEF IsSorted, s, c

-----------------------------------------------------------------------------

(***************************************************************************)
(* Each loop, as the function of its rounds, satisfies its definition: for *)
(* any number of rounds there is a function that does, else there would be *)
(* a least number for which there is none.                                 *)
(***************************************************************************)
FirstRound(clusters) ==
  [clusters |-> clusters, slice |-> << >>, start |-> 1, end |-> 1, left |-> FALSE]

LEMMA BlockLoopIsDefined ==
  ASSUME NEW clusters, NEW s, Len(s) \in Nat
  PROVE  /\ BlockLoop(clusters, s)[0] = FirstRound(clusters)
         /\ \A k \in 1 .. Len(s) :
              BlockLoop(clusters, s)[k] = BlockStep(BlockLoop(clusters, s)[k - 1], s[k])
<1> DEFINE first == FirstRound(clusters)
           Is(f, m) == f = [k \in 0 .. m |-> IF k = 0 THEN first ELSE BlockStep(f[k - 1], s[k])]
           T == {m \in Nat : ~ \E f : Is(f, m)}
<1>1. T = {}
  <2> HIDE DEF first
  <2> SUFFICES ASSUME T # {} PROVE FALSE
    OBVIOUS
  <2>1. PICK m \in T : \A j \in T : m <= j
    BY Least
  <2> m \in Nat
    OBVIOUS
  <2>2. m # 0
    <3>1. Is([k \in 0 .. 0 |-> first], 0)
      OBVIOUS
    <3> QED  BY <3>1
  <2>3. PICK f : Is(f, m - 1)
    <3> HIDE DEF Is
    <3>1. m - 1 \in Nat /\ ~ (m <= m - 1)
      BY ONLY <2>2, m \in Nat
    <3>2. m - 1 \notin T
      BY ONLY <2>1, <3>1
    <3> QED  BY ONLY <3>1, <3>2, Zenon DEF T
  <2> DEFINE h == [k \in 0 .. m |-> IF k = 0 THEN first ELSE BlockStep(f[k - 1], s[k])]
  <2>4. /\ h = [k \in 0 .. m |-> h[k]]
        /\ h[0] = first
        /\ \A k \in 1 .. m : h[k] = BlockStep(f[k - 1], s[k]) /\ h[k - 1] = f[k - 1]
    BY <2>3
  <2> HIDE DEF h
  <2>5. ASSUME NEW k \in 0 .. m
        PROVE  h[k] = IF k = 0 THEN first ELSE BlockStep(h[k - 1], s[k])
    <3>1. CASE k = 0
      BY ONLY <2>4, <3>1
    <3>2. CASE k # 0
      <4>1. k \in 1 .. m
        BY ONLY <3>2, <2>5, m \in Nat
      <4> QED  BY ONLY <4>1, <3>2, <2>4, Zenon
    <3> QED  BY <3>1, <3>2
  <2>6. Is(h, m)
    BY <2>4, <2>5, Zenon
  <2> QED  BY <2>6
<1>2. Is(BlockLoop(clusters, s), Len(s))
  BY <1>1 DEF BlockLoop, FirstRound
<1> QED  BY <1>2

(* The same of the loop over the groups. *)
LEMMA GroupLoopIsDefined ==
  ASSUME NEW fs, NEW groups, Len(groups) \in Nat
  PROVE  /\ GroupLoop(fs, groups)[0] = << >>
         /\ \A k \in 1 .. Len(groups) :
              GroupLoop(fs, groups)[k]
                = AddGroup(GroupLoop(fs, groups)[k - 1], SortedByLine(fs, groups[k]))
<1> DEFINE Once(f, k) == AddGroup(f[k - 1], SortedByLine(fs, groups[k]))
           Is(f, m) == f = [k \in 0 .. m |-> IF k = 0 THEN << >> ELSE Once(f, k)]
           T == {m \in Nat : ~ \E f : Is(f, m)}
<1>1. T = {}
  <2> SUFFICES ASSUME T # {} PROVE FALSE
    OBVIOUS
  <2>1. PICK m \in T : \A j \in T : m <= j
    BY Least
  <2> m \in Nat
    OBVIOUS
  <2>2. m # 0
    <3>1. Is([k \in 0 .. 0 |-> << >>], 0)
      OBVIOUS
    <3> QED  BY <3>1
  <2>3. PICK f : Is(f, m - 1)
    <3> HIDE DEF Is
    <3>1. m - 1 \in Nat /\ ~ (m <= m - 1)
      BY ONLY <2>2, m \in Nat
    <3>2. m - 1 \notin T
      BY ONLY <2>1, <3>1
    <3> QED  BY ONLY <3>1, <3>2, Zenon DEF T
  <2> DEFINE h == [k \in 0 .. m |-> IF k = 0 THEN << >> ELSE Once(f, k)]
  <2>4. /\ h = [k \in 0 .. m |-> h[k]]
        /\ h[0] = << >>
        /\ \A k \in 1 .. m : h[k] = Once(f, k) /\ h[k - 1] = f[k - 1]
    BY <2>3
  <2> HIDE DEF h
  <2>5. ASSUME NEW k \in 0 .. m
        PROVE  h[k] = IF k = 0 THEN << >> ELSE Once(h, k)
    <3>1. CASE k = 0
      BY ONLY <2>4, <3>1
    <3>2. CASE k # 0
      <4>1. k \in 1 .. m
        BY ONLY <3>2, <2>5, m \in Nat
      <4> QED  BY ONLY <4>1, <3>2, <2>4, Zenon
    <3> QED  BY <3>1, <3>2
  <2>6. Is(h, m)
    BY <2>4, <2>5, Zenon
  <2> QED  BY <2>6
<1>2. Is(GroupLoop(fs, groups), Len(groups))
  BY <1>1 DEF GroupLoop
<1> QED  BY <1>2

(***************************************************************************)
(* What holds before the first round, and after a round if it did before,  *)
(* holds after every round: the first round after which it did not would   *)
(* follow one after which it did.                                          *)
(***************************************************************************)
LEMMA EveryRound ==
  ASSUME NEW n \in Nat, NEW Held, 0 \in Held,
         \A k \in 1 .. n : k - 1 \in Held => k \in Held
  PROVE  \A k \in 0 .. n : k \in Held
<1> DEFINE T == {k \in 0 .. n : k \notin Held}
<1> SUFFICES ASSUME T # {} PROVE FALSE
  OBVIOUS
<1>1. PICK k \in T : \A j \in T : k <= j
  <2>1. T \subseteq Nat  OBVIOUS
  <2> QED  BY <2>1, Least
<1>2. k \in 0 .. n /\ k \notin Held  OBVIOUS
<1>3. k \in 1 .. n /\ k - 1 \in 0 .. n /\ ~ (k <= k - 1)  BY <1>2
<1>4. k - 1 \in Held  BY <1>1, <1>3
<1> QED  BY <1>2, <1>3, <1>4

(* What Append does to a sequence. *)
LEMMA Appended ==
  ASSUME NEW s, IsSequence(s), NEW x
  PROVE  /\ IsSequence(Append(s, x))
         /\ Len(s) \in Nat /\ DOMAIN s = 1 .. Len(s)
         /\ Len(Append(s, x)) = Len(s) + 1
         /\ DOMAIN Append(s, x) = 1 .. Len(s) + 1
         /\ \A i \in 1 .. Len(s) : Append(s, x)[i] = s[i]
         /\ Append(s, x)[Len(s) + 1] = x
<1>1. s \in Seq(Range(s) \cup {x}) /\ x \in Range(s) \cup {x}
  <2>1. s \in Seq(Range(s))  BY DEF IsSequence
  <2> QED  BY <2>1, SeqMonotonic
<1>2. /\ Append(s, x) \in Seq(Range(s) \cup {x}) /\ Len(Append(s, x)) = Len(s) + 1
      /\ \A i \in 1 .. Len(s) : Append(s, x)[i] = s[i]
      /\ Append(s, x)[Len(s) + 1] = x
  BY <1>1, AppendProperties
<1>3. Len(s) \in Nat /\ DOMAIN s = 1 .. Len(s)  BY <1>1, LenProperties
<1>4. DOMAIN Append(s, x) = 1 .. Len(s) + 1  BY <1>2, LenProperties
<1> QED  BY <1>2, <1>3, <1>4, SequenceOfItsRange

(* The state of the inner loop. *)
IsLoop(loop) ==
  /\ DOMAIN loop = {"clusters", "slice", "start", "end", "left"}
  /\ IsSequence(loop.clusters) /\ IsSequence(loop.slice) /\ loop.left \in BOOLEAN
  /\ loop.slice # << >> => Len(loop.slice) \in Nat \ {0}

(* The cluster that the open block will be. *)
Closed(loop) ==
  [rule |-> loop.slice[1].rule, wcagSc |-> loop.slice[1].wcagSc,
   file |-> loop.slice[1].file, start |-> loop.start, end |-> loop.end,
   fingerprints |-> [i \in DOMAIN loop.slice |-> loop.slice[i].fingerprint]]

LEMMA FlushIsSequence == ASSUME NEW loop, IsLoop(loop) PROVE IsSequence(Flush(loop))
BY Appended DEF Flush, IsLoop

(* What each step of the inner loop does to its state. *)
LEMMA OpenShape ==
  ASSUME NEW loop, IsLoop(loop), NEW f
  PROVE  LET open == OpenBlock(loop, f)
         IN  /\ IsLoop(open) /\ open.clusters = loop.clusters /\ open.left = loop.left
             /\ open.slice = <<f>> /\ open.start = FirstLine(f) /\ open.end = LastLine(f)
<1> DEFINE open == OpenBlock(loop, f)
<1>1. /\ DOMAIN open = {"clusters", "slice", "start", "end", "left"}
      /\ open.clusters = loop.clusters /\ open.left = loop.left
      /\ open.slice = <<f>> /\ open.start = FirstLine(f) /\ open.end = LastLine(f)
  BY DEF OpenBlock, IsLoop
<1>2. IsSequence(<<f>>) /\ Len(<<f>>) = 1
  <2>1. <<f>> \in Seq({f})  OBVIOUS
  <2> QED  BY <2>1, SequenceOfItsRange
<1> HIDE DEF open
<1>3. IsLoop(open)  BY <1>1, <1>2 DEF IsLoop
<1> QED  BY <1>1, <1>3 DEF open

LEMMA ExtendShape ==
  ASSUME NEW loop, IsLoop(loop), NEW f
  PROVE  LET extended == ExtendBlock(loop, f)
         IN  /\ IsLoop(extended) /\ extended.clusters = loop.clusters
             /\ extended.left = loop.left /\ extended.start = loop.start
             /\ extended.slice = Append(loop.slice, f)
             /\ extended.end = IF LastLine(f) > loop.end THEN LastLine(f) ELSE loop.end
<1> DEFINE extended == ExtendBlock(loop, f)
<1>1. /\ DOMAIN extended = {"clusters", "slice", "start", "end", "left"}
      /\ extended.clusters = loop.clusters /\ extended.left = loop.left
      /\ extended.start = loop.start /\ extended.slice = Append(loop.slice, f)
      /\ extended.end = IF LastLine(f) > loop.end THEN LastLine(f) ELSE loop.end
  BY DEF ExtendBlock, IsLoop
<1>2. IsSequence(Append(loop.slice, f)) /\ Len(Append(loop.slice, f)) \in Nat \ {0}
  <2>1. IsSequence(loop.slice)  BY DEF IsLoop
  <2>2. Len(Append(loop.slice, f)) = Len(loop.slice) + 1 /\ Len(loop.slice) \in Nat
    BY <2>1, Appended
  <2> QED  BY <2>1, <2>2, Appended
<1> HIDE DEF extended
<1>3. IsLoop(extended)  BY <1>1, <1>2 DEF IsLoop
<1> QED  BY <1>1, <1>3 DEF extended

LEMMA StartShape ==
  ASSUME NEW loop, IsLoop(loop), NEW f
  PROVE  LET started == StartBlock(loop, f)
         IN  /\ IsLoop(started) /\ started.clusters = Flush(loop)
             /\ \/ /\ Len(Flush(loop)) >= MaxClusters /\ started.left
                   /\ started.slice = loop.slice
                   /\ started.start = loop.start /\ started.end = loop.end
                \/ /\ started.left = loop.left /\ started.slice = <<f>>
                   /\ started.start = FirstLine(f) /\ started.end = LastLine(f)
<1> DEFINE flushed == [loop EXCEPT !.clusters = Flush(loop)]
           left == [flushed EXCEPT !.left = TRUE]
           started == StartBlock(loop, f)
<1>1. /\ IsLoop(flushed) /\ flushed.clusters = Flush(loop) /\ flushed.left = loop.left
  BY FlushIsSequence DEF IsLoop
<1>2. CASE Len(Flush(loop)) >= MaxClusters
  <2>1. started = left  BY <1>1, <1>2 DEF StartBlock
  <2>2. /\ IsLoop(left) /\ left.clusters = Flush(loop) /\ left.left /\ left.slice = loop.slice
        /\ left.start = loop.start /\ left.end = loop.end
    BY FlushIsSequence DEF IsLoop
  <2> HIDE DEF left, started
  <2>3. /\ IsLoop(started) /\ started.clusters = Flush(loop) /\ started.left
        /\ started.slice = loop.slice /\ started.start = loop.start /\ started.end = loop.end
    BY <2>1, <2>2
  <2> QED  BY <1>2, <2>3 DEF started
<1>3. CASE ~ (Len(Flush(loop)) >= MaxClusters)
  <2>1. started = OpenBlock(flushed, f)  BY <1>1, <1>3 DEF StartBlock
  <2> HIDE DEF flushed, started
  <2>2. /\ IsLoop(started) /\ started.clusters = Flush(loop)
        /\ started.left = loop.left /\ started.slice = <<f>>
        /\ started.start = FirstLine(f) /\ started.end = LastLine(f)
    BY <1>1, <2>1, OpenShape
  <2> QED  BY <2>2 DEF started
<1> QED  BY <1>2, <1>3

LEMMA StepShape ==
  ASSUME NEW loop, IsLoop(loop), NEW f
  PROVE  IsLoop(BlockStep(loop, f))
<1>1. loop.left \in BOOLEAN  BY DEF IsLoop
<1>2. CASE loop.left  BY <1>2 DEF BlockStep
<1>3. CASE ~ loop.left /\ loop.slice = << >>  BY <1>3, OpenShape DEF BlockStep
<1>4. CASE ~ loop.left /\ loop.slice # << >>
  BY <1>4, ExtendShape, StartShape DEF BlockStep
<1> QED  BY <1>1, <1>2, <1>3, <1>4

LEMMA LoopShape ==
  ASSUME NEW clusters, IsSequence(clusters), NEW s, Len(s) \in Nat
  PROVE  \A k \in 0 .. Len(s) : IsLoop(BlockLoop(clusters, s)[k])
<1> DEFINE n == Len(s)
           loop == BlockLoop(clusters, s)
           Held == {k \in 0 .. n : IsLoop(loop[k])}
<1>1. loop[0] = FirstRound(clusters) /\ \A k \in 1 .. n : loop[k] = BlockStep(loop[k - 1], s[k])
  BY BlockLoopIsDefined
<1> HIDE DEF loop
<1>2. IsLoop(FirstRound(clusters))
  <2>1. IsSequence(<< >>)
    <3>1. << >> \in Seq({})  BY EmptySeq
    <3> QED  BY <3>1, SequenceOfItsRange
  <2> QED  BY <2>1 DEF IsLoop, FirstRound
<1>3. 0 \in Held  BY <1>1, <1>2
<1>4. \A k \in 1 .. n : k - 1 \in Held => k \in Held
  BY <1>1, StepShape
<1> HIDE DEF n, Held
<1>5. n \in Nat  BY DEF n
<1>6. \A k \in 0 .. n : k \in Held  BY <1>3, <1>4, <1>5, EveryRound
<1> QED  BY <1>6 DEF Held, n, loop

(* One group's clusters go behind those made before. *)
LEMMA AddGroupIsSequence ==
  ASSUME NEW clusters, IsSequence(clusters), NEW s, Len(s) \in Nat
  PROVE  IsSequence(AddGroup(clusters, s))
<1>1. Len(s) \in 0 .. Len(s)  OBVIOUS
<1>2. IsLoop(BlockLoop(clusters, s)[Len(s)])  BY <1>1, LoopShape
<1> QED  BY <1>2, FlushIsSequence DEF AddGroup

(* The clusters of any sequence of findings are a sequence. *)
LEMMA ClustersAreASequence ==
  ASSUME NEW fs, IsSequence(fs)
  PROVE  IsSequence(BuildFindingClusters(fs))
<1> DEFINE groups == Groups(fs)
           made == GroupLoop(fs, groups)
<1>1. Len(fs) \in Nat /\ DOMAIN fs = 1 .. Len(fs)  BY LenProperties DEF IsSequence
<1>2. PICK m \in Nat : Len(groups) = m /\ IsPartition(groups, m, fs)  BY <1>1, GroupsPartition
<1>3. made[0] = << >> /\ \A k \in 1 .. m : made[k] = AddGroup(made[k - 1], SortedByLine(fs, groups[k]))
  BY <1>2, GroupLoopIsDefined
<1>4. BuildFindingClusters(fs) = made[m]  BY <1>2 DEF BuildFindingClusters
<1> HIDE DEF groups, made
<1> DEFINE Held == {k \in 0 .. m : IsSequence(made[k])}
<1>5. 0 \in Held
  <2>1. << >> \in Seq({})  BY EmptySeq
  <2>2. IsSequence(<< >>)  BY <2>1, SequenceOfItsRange
  <2> QED  BY <1>3, <2>2
<1>6. ASSUME NEW k \in 1 .. m, k - 1 \in Held PROVE k \in Held
  <2>1. groups[k] \in SUBSET Located(fs)  BY <1>2 DEF IsPartition
  <2>2. Len(SortedByLine(fs, groups[k])) \in Nat  BY <1>1, <2>1, SortedIsSequence
  <2>3. IsSequence(made[k - 1]) /\ k \in 0 .. m  BY <1>6
  <2>4. IsSequence(made[k])  BY <1>3, <2>2, <2>3, AddGroupIsSequence
  <2> QED  BY <2>3, <2>4
<1> HIDE DEF Held
<1>7. \A k \in 0 .. m : k \in Held  BY <1>5, <1>6, EveryRound
<1>8. m \in 0 .. m  OBVIOUS
<1> QED  BY <1>4, <1>7, <1>8 DEF Held

-----------------------------------------------------------------------------

(***************************************************************************)
(* Where the findings are.  Placed: each finding of a set is at one place  *)
(* of one cluster, and no other finding is in any.  A finding is placed in *)
(* a new cluster behind the others, or at the end of the last one.         *)
(***************************************************************************)
Placed(clusters, done) ==
  /\ \A i \in done : InOneCluster(i, clusters)
  /\ \A k \in DOMAIN clusters : \A p \in DOMAIN clusters[k].fingerprints :
       clusters[k].fingerprints[p] \in done

LEMMA PlacedInNew ==
  ASSUME NEW cs, IsSequence(cs), NEW done, Placed(cs, done), NEW i, i \notin done,
         NEW c, DOMAIN c.fingerprints = {1}, c.fingerprints[1] = i
  PROVE  Placed(Append(cs, c), done \cup {i})
<1> DEFINE new == Append(cs, c)
           n == Len(cs)
<1>1. /\ n \in Nat /\ DOMAIN cs = 1 .. n /\ DOMAIN new = 1 .. n + 1
      /\ \A k \in 1 .. n : new[k] = cs[k]
      /\ new[n + 1] = c
  BY Appended
<1> HIDE DEF new, n
<1>2. /\ \A k \in DOMAIN new : (k \in DOMAIN cs /\ new[k] = cs[k]) \/ (k = n + 1 /\ new[k] = c)
      /\ \A k \in DOMAIN cs : k \in DOMAIN new /\ new[k] = cs[k] /\ k # n + 1
      /\ n + 1 \in DOMAIN new /\ new[n + 1] = c
  <2>1. \A k \in 1 .. n + 1 : k \in 1 .. n \/ k = n + 1  BY <1>1
  <2>2. \A k \in 1 .. n : k \in 1 .. n + 1 /\ k # n + 1  BY <1>1
  <2>3. n + 1 \in 1 .. n + 1  BY <1>1
  <2> QED  BY <1>1, <2>1, <2>2, <2>3, Zenon
<1>3. \A k \in DOMAIN new : \A p \in DOMAIN new[k].fingerprints :
        new[k].fingerprints[p] \in done \cup {i}
  BY <1>2 DEF Placed
<1>4. InOneCluster(i, new)
  <2>1. 1 \in DOMAIN new[n + 1].fingerprints /\ new[n + 1].fingerprints[1] = i  BY <1>2
  <2>2. ASSUME NEW l \in DOMAIN new, NEW m \in DOMAIN new[l].fingerprints,
               new[l].fingerprints[m] = i
        PROVE  l = n + 1 /\ m = 1
    <3>1. ~ (l \in DOMAIN cs /\ new[l] = cs[l])  BY <2>2 DEF Placed
    <3>2. l = n + 1 /\ new[l] = c  BY <1>2, <3>1, Zenon
    <3>3. m \in {1}  BY <2>2, <3>2, Zenon
    <3> QED  BY <3>2, <3>3
  <2>3. \A l \in DOMAIN new : \A m \in DOMAIN new[l].fingerprints :
          new[l].fingerprints[m] = i => l = n + 1 /\ m = 1
    BY <2>2
  <2>4. n + 1 \in DOMAIN new  BY <1>2
  <2> QED  BY <2>1, <2>3, <2>4, Zenon DEF InOneCluster
<1>5. ASSUME NEW x \in done PROVE InOneCluster(x, new)
  <2> DEFINE Only(k, p) ==
               /\ cs[k].fingerprints[p] = x
               /\ \A l \in DOMAIN cs : \A m \in DOMAIN cs[l].fingerprints :
                    cs[l].fingerprints[m] = x => l = k /\ m = p
  <2>0. PICK k \in DOMAIN cs : \E p \in DOMAIN cs[k].fingerprints : Only(k, p)
    BY <1>5 DEF Placed, InOneCluster
  <2>1. PICK p \in DOMAIN cs[k].fingerprints : Only(k, p)
    BY <2>0
  <2>2. k \in DOMAIN new /\ p \in DOMAIN new[k].fingerprints /\ new[k].fingerprints[p] = x
    BY <1>2, <2>1
  <2>3. ASSUME NEW l \in DOMAIN new, NEW m \in DOMAIN new[l].fingerprints,
               new[l].fingerprints[m] = x
        PROVE  l = k /\ m = p
    <3>1. ~ (new[l] = c)  BY <1>5, <2>3
    <3>2. l \in DOMAIN cs /\ new[l] = cs[l]  BY <1>2, <3>1
    <3> QED  BY <2>1, <2>3, <3>2
  <2> QED  BY <2>2, <2>3, Zenon DEF InOneCluster
<1> QED  BY <1>3, <1>4, <1>5 DEF Placed, new

(* A cluster d that is c with one more finding i, its q+1st. *)
OneMore(c, d, q, i) ==
  /\ DOMAIN c.fingerprints = 1 .. q /\ DOMAIN d.fingerprints = 1 .. q + 1
  /\ d.fingerprints[q + 1] = i
  /\ \A p \in 1 .. q : d.fingerprints[p] = c.fingerprints[p]

LEMMA PlacedInLast ==
  ASSUME NEW cs, IsSequence(cs), NEW done, NEW i, i \notin done,
         NEW c, NEW d, NEW q \in Nat, OneMore(c, d, q, i), Placed(Append(cs, c), done)
  PROVE  Placed(Append(cs, d), done \cup {i})
<1> USE DEF OneMore
<1> DEFINE old == Append(cs, c)
           new == Append(cs, d)
           n == Len(cs)
<1>1. /\ n \in Nat /\ DOMAIN old = 1 .. n + 1 /\ DOMAIN new = 1 .. n + 1
      /\ \A k \in 1 .. n : old[k] = cs[k] /\ new[k] = cs[k]
      /\ old[n + 1] = c /\ new[n + 1] = d
  BY Appended
<1>2. Placed(old, done)  OBVIOUS
<1> HIDE DEF old, new, n
<1>3. DOMAIN new = DOMAIN old /\ n + 1 \in DOMAIN old
  BY <1>1
<1>4. \A k \in DOMAIN old : k = n + 1 \/ new[k] = old[k]  BY <1>1
(* An old place is a new one, and a new one is old or the last. *)
<1>5. \A k \in DOMAIN old : \A p \in DOMAIN old[k].fingerprints :
        /\ p \in DOMAIN new[k].fingerprints
        /\ new[k].fingerprints[p] = old[k].fingerprints[p]
  <2> TAKE k \in DOMAIN old
  <2>1. CASE k = n + 1
    <3>1. old[k] = c /\ new[k] = d  BY <1>1, <2>1
    <3>2. \A p \in 1 .. q : p \in 1 .. q + 1  OBVIOUS
    <3> QED  BY <3>1, <3>2
  <2>2. CASE k # n + 1  BY <1>4, <2>2
  <2> QED  BY <2>1, <2>2
<1>6. \A k \in DOMAIN old : \A p \in DOMAIN new[k].fingerprints :
        \/ p \in DOMAIN old[k].fingerprints /\ new[k].fingerprints[p] = old[k].fingerprints[p]
        \/ k = n + 1 /\ p = q + 1 /\ new[k].fingerprints[p] = i
  <2> TAKE k \in DOMAIN old
  <2>1. CASE k = n + 1
    <3>1. old[k] = c /\ new[k] = d  BY <1>1, <2>1
    <3>2. \A p \in 1 .. q + 1 : p \in 1 .. q \/ p = q + 1  OBVIOUS
    <3> QED  BY <2>1, <3>1, <3>2
  <2>2. CASE k # n + 1  BY <1>4, <2>2
  <2> QED  BY <2>1, <2>2
<1>7. \A k \in DOMAIN new : \A p \in DOMAIN new[k].fingerprints :
        new[k].fingerprints[p] \in done \cup {i}
  BY <1>2, <1>3, <1>6 DEF Placed
<1>8. InOneCluster(i, new)
  <2>1. q + 1 \in DOMAIN new[n + 1].fingerprints /\ new[n + 1].fingerprints[q + 1] = i
    <3>1. q + 1 \in 1 .. q + 1  OBVIOUS
    <3> QED  BY <1>1, <3>1
  <2>2. ASSUME NEW l \in DOMAIN new, NEW m \in DOMAIN new[l].fingerprints,
               new[l].fingerprints[m] = i
        PROVE  l = n + 1 /\ m = q + 1
    BY <1>2, <1>3, <1>6, <2>2 DEF Placed
  <2>3. \A l \in DOMAIN new : \A m \in DOMAIN new[l].fingerprints :
          new[l].fingerprints[m] = i => l = n + 1 /\ m = q + 1
    BY <2>2
  <2>4. n + 1 \in DOMAIN new  BY <1>3
  <2> QED  BY <2>1, <2>3, <2>4, Zenon DEF InOneCluster
<1>9. ASSUME NEW x \in done PROVE InOneCluster(x, new)
  <2> DEFINE Only(k, p) ==
               /\ old[k].fingerprints[p] = x
               /\ \A l \in DOMAIN old : \A m \in DOMAIN old[l].fingerprints :
                    old[l].fingerprints[m] = x => l = k /\ m = p
  <2>0. PICK k \in DOMAIN old : \E p \in DOMAIN old[k].fingerprints : Only(k, p)
    BY <1>2, <1>9 DEF Placed, InOneCluster
  <2>1. PICK p \in DOMAIN old[k].fingerprints : Only(k, p)
    BY <2>0
  <2>2. k \in DOMAIN new /\ p \in DOMAIN new[k].fingerprints /\ new[k].fingerprints[p] = x
    BY <1>3, <1>5, <2>1
  <2>3. ASSUME NEW l \in DOMAIN new, NEW m \in DOMAIN new[l].fingerprints,
               new[l].fingerprints[m] = x
        PROVE  l = k /\ m = p
    <3>1. x # i  BY <1>9
    <3>2. m \in DOMAIN old[l].fingerprints /\ old[l].fingerprints[m] = x
      BY <1>3, <1>6, <2>3, <3>1
    <3> QED  BY <1>3, <2>1, <3>2
  <2> QED  BY <2>2, <2>3, Zenon DEF InOneCluster
<1> QED  BY <1>7, <1>8, <1>9 DEF Placed, new

(* A cluster speaks for its findings: their rule, their file, their lines. *)
Covers(c, fs) ==
  \A p \in DOMAIN c.fingerprints :
    LET f == fs[c.fingerprints[p]]
    IN  /\ c.fingerprints[p] \in DOMAIN fs
        /\ f.rule = c.rule /\ f.file = c.file
        /\ f.start # NoLine => c.start <= FirstLine(f) /\ LastLine(f) <= c.end

AllCover(clusters, fs) == \A k \in DOMAIN clusters : Covers(clusters[k], fs)

LEMMA AllCoverOneMore ==
  ASSUME NEW cs, IsSequence(cs), NEW c, NEW fs
  PROVE  AllCover(Append(cs, c), fs) <=> AllCover(cs, fs) /\ Covers(c, fs)
<1> DEFINE new == Append(cs, c)
           n == Len(cs)
<1>1. /\ n \in Nat /\ DOMAIN cs = 1 .. n /\ DOMAIN new = 1 .. n + 1
      /\ \A k \in 1 .. n : new[k] = cs[k]
      /\ new[n + 1] = c
  BY Appended
<1> HIDE DEF new, n
<1>2. /\ \A k \in DOMAIN new : (k \in DOMAIN cs /\ new[k] = cs[k]) \/ (k = n + 1 /\ new[k] = c)
      /\ \A k \in DOMAIN cs : k \in DOMAIN new /\ new[k] = cs[k]
      /\ n + 1 \in DOMAIN new /\ new[n + 1] = c
  <2>1. \A k \in 1 .. n + 1 : k \in 1 .. n \/ k = n + 1  BY <1>1
  <2>2. \A k \in 1 .. n : k \in 1 .. n + 1 /\ k # n + 1  BY <1>1
  <2>3. n + 1 \in 1 .. n + 1  BY <1>1
  <2> QED  BY <1>1, <2>1, <2>2, <2>3, Zenon
<1>3. AllCover(new, fs) <=> AllCover(cs, fs) /\ Covers(c, fs)
  <2> HIDE DEF Covers
  <2> QED  BY <1>2, Zenon DEF AllCover
<1> QED  BY <1>3 DEF new

(* The open block, once closed. *)
LEMMA ClosedFields ==
  ASSUME NEW loop
  PROVE  LET c == Closed(loop)
         IN  /\ c.rule = loop.slice[1].rule /\ c.file = loop.slice[1].file
             /\ c.start = loop.start /\ c.end = loop.end
BY DEF Closed

LEMMA ClosedSingle ==
  ASSUME NEW loop, NEW f, loop.slice = <<f>>
  PROVE  LET c == Closed(loop)
         IN  /\ DOMAIN c.fingerprints = {1} /\ c.fingerprints[1] = f.fingerprint
             /\ c.rule = f.rule /\ c.file = f.file /\ c.start = loop.start /\ c.end = loop.end
<1>1. DOMAIN loop.slice = {1} /\ loop.slice[1] = f  OBVIOUS
<1> QED  BY <1>1 DEF Closed

LEMMA ClosedExtended ==
  ASSUME NEW loop, IsLoop(loop), loop.slice # << >>, NEW f, NEW next,
         next.slice = Append(loop.slice, f)
  PROVE  /\ \E q \in Nat : OneMore(Closed(loop), Closed(next), q, f.fingerprint)
         /\ next.slice[1] = loop.slice[1]
<1> USE DEF OneMore
<1>1. PICK q \in Nat : q = Len(loop.slice)  BY Appended DEF IsLoop
<1>2. /\ q \in Nat \ {0} /\ DOMAIN loop.slice = 1 .. q /\ DOMAIN next.slice = 1 .. q + 1
      /\ \A p \in 1 .. q : next.slice[p] = loop.slice[p]
      /\ next.slice[q + 1] = f
  BY <1>1, Appended DEF IsLoop
<1>3. next.slice[1] = loop.slice[1]  BY <1>2
<1>4. \A p \in 1 .. q : p \in 1 .. q + 1  OBVIOUS
<1>5. q + 1 \in 1 .. q + 1  OBVIOUS
<1> QED  BY <1>2, <1>3, <1>4, <1>5 DEF Closed

-----------------------------------------------------------------------------

(***************************************************************************)
(* The inner loop, over the sorted findings s of a group, behind clusters  *)
(* that place the findings of done.  After k rounds, closing the open      *)
(* block would place the first k findings as well; the block begins before *)
(* every finding to come; and a loop that was left has reached the cap.    *)
(***************************************************************************)
Seen(s, k) == {s[j].fingerprint : j \in 1 .. k}

OpensBefore(loop, s, k, len) ==
  \A j \in k + 1 .. len : s[j].start # NoLine => loop.start <= FirstLine(s[j])

BlockInv(loop, fs, s, k, len, key, done) ==
  /\ IsLoop(loop) /\ loop.start \in Int /\ loop.end \in Int
  /\ loop.slice # << >> => <<loop.slice[1].rule, loop.slice[1].file>> = key
  /\ loop.left => Len(loop.clusters) >= MaxClusters
  /\ ~loop.left /\ loop.slice # << >> => OpensBefore(loop, s, k, len)
  /\ AllCover(Flush(loop), fs)
  /\ ~loop.left => Placed(Flush(loop), done \cup Seen(s, k))

(* A sorted group, none of whose findings is placed yet. *)
IsGroup(s, len, g, fs, key, done) ==
  /\ IsInput(fs) /\ g \subseteq Located(fs) /\ IsSorted(s, len, g, fs) /\ len \in Nat
  /\ \A i \in g : <<fs[i].rule, fs[i].file>> = key
  /\ g \cap done = {}

LEMMA NextOfGroup ==
  ASSUME NEW fs, NEW s, NEW len, NEW g, NEW key, NEW done, IsGroup(s, len, g, fs, key, done),
         NEW k \in 1 .. len
  PROVE  /\ s[k].fingerprint \notin done \cup Seen(s, k - 1)
         /\ done \cup Seen(s, k) = (done \cup Seen(s, k - 1)) \cup {s[k].fingerprint}
         /\ s[k].fingerprint \in DOMAIN fs
         /\ s[k] = fs[s[k].fingerprint] /\ <<s[k].rule, s[k].file>> = key
         /\ FirstLine(s[k]) \in Int /\ LastLine(s[k]) \in Int
         /\ \A j \in k + 1 .. len : s[j].start # NoLine => FirstLine(s[k]) <= FirstLine(s[j])
<1>1. len \in Nat /\ k \in Nat  BY DEF IsGroup
<1>2. \A j \in 1 .. len : /\ s[j].fingerprint \in g /\ s[j].fingerprint \in DOMAIN fs
                          /\ s[j] = fs[s[j].fingerprint]
                          /\ s[j].start \in Nat /\ s[j].end \in Nat
  BY DEF IsGroup, IsSorted, IsInput, Located
<1>3. s[k].fingerprint \notin Seen(s, k - 1)
  <2> SUFFICES ASSUME NEW j \in 1 .. k - 1, s[j].fingerprint = s[k].fingerprint PROVE FALSE
    BY DEF Seen
  <2>1. j \in 1 .. len /\ j # k  BY <1>1
  <2> QED  BY <2>1 DEF IsGroup, IsSorted
<1>4. s[k].fingerprint \notin done  BY <1>2 DEF IsGroup
<1>5. Seen(s, k) = Seen(s, k - 1) \cup {s[k].fingerprint}
  <2>1. \A j : j \in 1 .. k <=> j \in 1 .. k - 1 \/ j = k  BY <1>1
  <2> QED  BY <2>1 DEF Seen
<1>6. <<s[k].rule, s[k].file>> = key  BY <1>2 DEF IsGroup
<1>7. FirstLine(s[k]) \in Int /\ LastLine(s[k]) \in Int  BY <1>2 DEF FirstLine, LastLine
<1>8. ASSUME NEW j \in k + 1 .. len, s[j].start # NoLine
      PROVE  FirstLine(s[k]) <= FirstLine(s[j])
  <2>1. j \in 1 .. len /\ k < j  BY <1>1
  <2>2. ~ Earlier(s[j], s[k])  BY <2>1 DEF IsGroup, IsSorted
  <2>3. s[j].start \in Nat /\ s[k].start \in Nat  BY <1>2, <2>1
  <2> QED  BY <1>8, <2>2, <2>3 DEF Earlier, FirstLine, NoLine
<1> QED  BY <1>2, <1>3, <1>4, <1>5, <1>6, <1>7, <1>8

(* The first finding of a block, in the first round or behind a full one. *)
LEMMA NewBlock ==
  ASSUME NEW fs, NEW s, NEW len, NEW g, NEW key, NEW done, IsGroup(s, len, g, fs, key, done),
         NEW k \in 1 .. len, NEW loop, BlockInv(loop, fs, s, k - 1, len, key, done), ~loop.left,
         NEW next, IsLoop(next), next.clusters = Flush(loop), ~next.left,
         next.slice = <<s[k]>>, next.start = FirstLine(s[k]), next.end = LastLine(s[k])
  PROVE  BlockInv(next, fs, s, k, len, key, done)
<1> DEFINE f == s[k]
           c == Closed(next)
           before == done \cup Seen(s, k - 1)
<1>1. /\ f.fingerprint \notin before
      /\ done \cup Seen(s, k) = before \cup {f.fingerprint}
      /\ f.fingerprint \in DOMAIN fs /\ f = fs[f.fingerprint] /\ <<f.rule, f.file>> = key
      /\ FirstLine(f) \in Int /\ LastLine(f) \in Int
      /\ \A j \in k + 1 .. len : s[j].start # NoLine => FirstLine(f) <= FirstLine(s[j])
  BY NextOfGroup
<1> HIDE DEF before
<1>2. /\ DOMAIN c.fingerprints = {1} /\ c.fingerprints[1] = f.fingerprint
      /\ c.rule = f.rule /\ c.file = f.file /\ c.start = next.start /\ c.end = next.end
  BY ClosedSingle
<1>3. Flush(next) = Append(Flush(loop), c)
  <2>1. next.slice # << >>  OBVIOUS
  <2> QED  BY <2>1 DEF Flush, Closed
<1>4. IsSequence(Flush(loop)) /\ AllCover(Flush(loop), fs) /\ Placed(Flush(loop), before)
  BY FlushIsSequence DEF BlockInv, before
<1>5. next.slice # << >> /\ next.slice[1] = f  OBVIOUS
<1> HIDE DEF c, f
<1>6. Covers(c, fs)
  <2>1. c.start <= FirstLine(f) /\ LastLine(f) <= c.end  BY <1>1, <1>2 DEF f
  <2>2. f.rule = c.rule /\ f.file = c.file /\ f.fingerprint \in DOMAIN fs
    BY <1>1, <1>2
  <2> QED  BY <1>1, <1>2, <2>1, <2>2 DEF Covers
<1>7. AllCover(Flush(next), fs)  BY <1>3, <1>4, <1>6, AllCoverOneMore
<1>8. Placed(Flush(next), done \cup Seen(s, k))  BY <1>1, <1>2, <1>3, <1>4, PlacedInNew
<1>9. OpensBefore(next, s, k, len)  BY <1>1 DEF OpensBefore, f
<1>10. next.start \in Int /\ next.end \in Int  BY <1>1 DEF f
<1> QED  BY <1>1, <1>5, <1>7, <1>8, <1>9, <1>10 DEF BlockInv

(* One more finding in the open block. *)
LEMMA LongerBlock ==
  ASSUME NEW fs, NEW s, NEW len, NEW g, NEW key, NEW done, IsGroup(s, len, g, fs, key, done),
         NEW k \in 1 .. len, NEW loop, BlockInv(loop, fs, s, k - 1, len, key, done), ~loop.left,
         loop.slice # << >>
  PROVE  BlockInv(ExtendBlock(loop, s[k]), fs, s, k, len, key, done)
<1> DEFINE f == s[k]
           next == ExtendBlock(loop, f)
           c == Closed(loop)
           d == Closed(next)
           before == done \cup Seen(s, k - 1)
<1>1. /\ f.fingerprint \notin before
      /\ done \cup Seen(s, k) = before \cup {f.fingerprint}
      /\ f.fingerprint \in DOMAIN fs /\ f = fs[f.fingerprint] /\ <<f.rule, f.file>> = key
      /\ FirstLine(f) \in Int /\ LastLine(f) \in Int
      /\ \A j \in k + 1 .. len : s[j].start # NoLine => FirstLine(f) <= FirstLine(s[j])
  BY NextOfGroup
<1>2. /\ IsLoop(loop) /\ loop.start \in Int /\ loop.end \in Int
      /\ <<loop.slice[1].rule, loop.slice[1].file>> = key
      /\ OpensBefore(loop, s, k - 1, len)
      /\ AllCover(Flush(loop), fs) /\ Placed(Flush(loop), before)
  BY DEF BlockInv
<1> HIDE DEF before
<1>3. /\ IsLoop(next) /\ next.clusters = loop.clusters /\ next.left = loop.left
      /\ next.start = loop.start /\ next.slice = Append(loop.slice, f)
      /\ next.end = IF LastLine(f) > loop.end THEN LastLine(f) ELSE loop.end
  BY <1>2, ExtendShape
<1> HIDE DEF next
<1>4. next.end \in Int /\ loop.end <= next.end /\ LastLine(f) <= next.end
  BY <1>1, <1>2, <1>3
<1>5. /\ \E q \in Nat : OneMore(c, d, q, f.fingerprint)
      /\ next.slice[1] = loop.slice[1]
  <2> HIDE DEF f
  <2> QED  BY <1>2, <1>3, ClosedExtended
<1>51. /\ c.rule = loop.slice[1].rule /\ c.file = loop.slice[1].file
       /\ c.start = loop.start /\ c.end = loop.end
       /\ d.rule = next.slice[1].rule /\ d.file = next.slice[1].file
       /\ d.start = next.start /\ d.end = next.end
  BY ClosedFields
<1>52. PICK q \in Nat : OneMore(c, d, q, f.fingerprint)
  <2> HIDE DEF c, d, f
  <2> QED  BY <1>5
<1>6. next.slice # << >>
  <2>1. Len(next.slice) = Len(loop.slice) + 1 /\ Len(loop.slice) \in Nat
    BY <1>2, <1>3, Appended DEF IsLoop
  <2> QED  BY <2>1
<1>7. Flush(loop) = Append(loop.clusters, c) /\ Flush(next) = Append(loop.clusters, d)
  BY <1>3, <1>6 DEF Flush, Closed
<1>8. IsSequence(loop.clusters)  BY <1>2 DEF IsLoop
<1> HIDE DEF c, d, f
<1>9. AllCover(loop.clusters, fs) /\ Covers(c, fs)
  BY <1>2, <1>7, <1>8, AllCoverOneMore
<1>10. f.start # NoLine => loop.start <= FirstLine(f)
  <2>1. k \in (k - 1) + 1 .. len  BY DEF IsGroup
  <2> QED  BY <1>2, <2>1 DEF OpensBefore, f
<1>11. Covers(d, fs)
  <2> SUFFICES ASSUME NEW p \in 1 .. q + 1, NEW x, x = fs[d.fingerprints[p]]
               PROVE  /\ d.fingerprints[p] \in DOMAIN fs
                      /\ x.rule = d.rule /\ x.file = d.file
                      /\ x.start # NoLine => d.start <= FirstLine(x) /\ LastLine(x) <= d.end
    BY <1>52 DEF Covers, OneMore
  <2>1. CASE p = q + 1
    <3>1. x = f  BY <1>1, <1>52, <2>1 DEF OneMore
    <3>2. <<d.rule, d.file>> = key  BY <1>2, <1>5, <1>51, <1>52
    <3>3. x.rule = d.rule /\ x.file = d.file  BY <1>1, <3>1, <3>2
    <3>4. x.start # NoLine => d.start <= FirstLine(x)  BY <1>3, <1>5, <1>51, <1>52, <1>10, <3>1
    <3>5. LastLine(x) <= d.end  BY <1>4, <1>5, <1>51, <1>52, <3>1
    <3>6. d.fingerprints[p] \in DOMAIN fs  BY <1>1, <1>52, <2>1 DEF OneMore
    <3> QED  BY <3>3, <3>4, <3>5, <3>6
  <2>2. CASE p # q + 1
    <3>1. p \in 1 .. q  BY <2>2
    <3>2. x = fs[c.fingerprints[p]]  BY <1>52, <3>1 DEF OneMore
    <3>3. /\ c.fingerprints[p] \in DOMAIN fs /\ x.rule = c.rule /\ x.file = c.file
          /\ x.start # NoLine => c.start <= FirstLine(x) /\ LastLine(x) <= c.end
      BY <1>52, <1>9, <3>1, <3>2 DEF Covers, OneMore
    <3>4. LastLine(x) \in Int  BY <3>2, <3>3 DEF IsGroup, IsInput, FirstLine, LastLine
    <3>5. d.fingerprints[p] = c.fingerprints[p]  BY <1>52, <3>1 DEF OneMore
    <3>6. d.rule = c.rule /\ d.file = c.file /\ d.start = c.start /\ d.end = next.end /\ c.end = loop.end
      BY <1>3, <1>5, <1>51
    <3>7. LastLine(x) <= c.end => LastLine(x) <= d.end  BY <1>2, <1>4, <3>4, <3>6
    <3> QED  BY <3>3, <3>5, <3>6, <3>7
  <2> QED  BY <2>1, <2>2
<1>12. AllCover(Flush(next), fs)  BY <1>7, <1>8, <1>9, <1>11, AllCoverOneMore
<1>13. Placed(Flush(next), done \cup Seen(s, k))
  <2>1. Placed(Append(loop.clusters, c), before)  BY <1>2, <1>7
  <2>2. Placed(Append(loop.clusters, d), before \cup {f.fingerprint})
    BY <1>1, <1>52, <1>8, <2>1, PlacedInLast
  <2> QED  BY <1>1, <1>7, <2>2
<1>14. OpensBefore(next, s, k, len)
  <2>1. \A j \in k + 1 .. len : j \in (k - 1) + 1 .. len  BY DEF IsGroup
  <2> QED  BY <1>2, <1>3, <2>1 DEF OpensBefore
<1>15. <<next.slice[1].rule, next.slice[1].file>> = key  BY <1>2, <1>5
<1> QED  BY <1>2, <1>3, <1>4, <1>12, <1>13, <1>14, <1>15 DEF BlockInv, next, f

(* The cap reached: the block just closed is still the open one. *)
LEMMA LeftLoop ==
  ASSUME NEW fs, NEW s, NEW len, NEW k, NEW j, NEW key, NEW done,
         NEW loop, BlockInv(loop, fs, s, j, len, key, done), loop.slice # << >>,
         NEW next, IsLoop(next), next.clusters = Flush(loop), next.left,
         Len(Flush(loop)) >= MaxClusters,
         next.slice = loop.slice, next.start = loop.start, next.end = loop.end
  PROVE  BlockInv(next, fs, s, k, len, key, done)
<1> DEFINE c == Closed(loop)
<1>1. /\ IsLoop(loop) /\ loop.start \in Int /\ loop.end \in Int
      /\ <<loop.slice[1].rule, loop.slice[1].file>> = key /\ AllCover(Flush(loop), fs)
  BY DEF BlockInv
<1>2. Flush(loop) = Append(loop.clusters, c) /\ Flush(next) = Append(Flush(loop), c)
  BY DEF Flush, Closed
<1>3. IsSequence(loop.clusters) /\ IsSequence(Flush(loop))
  BY <1>1, FlushIsSequence DEF IsLoop
<1> HIDE DEF c
<1>4. Covers(c, fs)  BY <1>1, <1>2, <1>3, AllCoverOneMore
<1>5. AllCover(Flush(next), fs)  BY <1>1, <1>2, <1>3, <1>4, AllCoverOneMore
<1> QED  BY <1>1, <1>5 DEF BlockInv

LEMMA StepKeepsBlockInv ==
  ASSUME NEW fs, NEW s, NEW len, NEW g, NEW key, NEW done, IsGroup(s, len, g, fs, key, done),
         NEW k \in 1 .. len, NEW loop, BlockInv(loop, fs, s, k - 1, len, key, done)
  PROVE  BlockInv(BlockStep(loop, s[k]), fs, s, k, len, key, done)
<1> DEFINE f == s[k]
           next == BlockStep(loop, f)
<1>1. IsLoop(loop) /\ loop.left \in BOOLEAN  BY DEF BlockInv, IsLoop
<1>2. CASE loop.left
  <2>1. next = loop  BY <1>2 DEF BlockStep
  <2>2. BlockInv(loop, fs, s, k, len, key, done)  BY <1>2 DEF BlockInv
  <2> QED  BY <2>1, <2>2
<1>3. CASE ~ loop.left /\ loop.slice = << >>
  <2>1. next = OpenBlock(loop, f)  BY <1>3 DEF BlockStep
  <2>2. Flush(loop) = loop.clusters  BY <1>3 DEF Flush
  <2> HIDE DEF next
  <2>3. /\ IsLoop(next) /\ next.clusters = Flush(loop) /\ ~next.left
        /\ next.slice = <<f>> /\ next.start = FirstLine(f) /\ next.end = LastLine(f)
    BY <1>1, <1>3, <2>1, <2>2, OpenShape
  <2>4. BlockInv(next, fs, s, k, len, key, done)  BY <1>3, <2>3, NewBlock
  <2> QED  BY <2>4 DEF next
<1>4. CASE ~ loop.left /\ loop.slice # << >> /\ FitsBlock(loop, f)
  <2>1. next = ExtendBlock(loop, f)  BY <1>4 DEF BlockStep
  <2> QED  BY <1>4, <2>1, LongerBlock
<1>5. CASE ~ loop.left /\ loop.slice # << >> /\ ~ FitsBlock(loop, f)
  <2>1. next = StartBlock(loop, f)  BY <1>5 DEF BlockStep
  <2> HIDE DEF next
  <2>2. /\ IsLoop(next) /\ next.clusters = Flush(loop)
        /\ \/ /\ Len(Flush(loop)) >= MaxClusters /\ next.left
              /\ next.slice = loop.slice
              /\ next.start = loop.start /\ next.end = loop.end
           \/ /\ next.left = loop.left /\ next.slice = <<f>>
              /\ next.start = FirstLine(f) /\ next.end = LastLine(f)
    BY <1>1, <2>1, StartShape
  <2>3. CASE /\ Len(Flush(loop)) >= MaxClusters /\ next.left
             /\ next.slice = loop.slice
             /\ next.start = loop.start /\ next.end = loop.end
    <3>1. BlockInv(next, fs, s, k, len, key, done)
      <4> HIDE DEF f
      <4> QED  BY <1>5, <2>2, <2>3, LeftLoop
    <3> QED  BY <3>1 DEF next
  <2>4. CASE /\ next.left = loop.left /\ next.slice = <<f>>
             /\ next.start = FirstLine(f) /\ next.end = LastLine(f)
    <3>1. BlockInv(next, fs, s, k, len, key, done)  BY <1>5, <2>2, <2>4, NewBlock
    <3> QED  BY <3>1 DEF next
  <2> QED  BY <2>2, <2>3, <2>4
<1> QED  BY <1>1, <1>2, <1>3, <1>4, <1>5

(***************************************************************************)
(* One group: behind the clusters of the groups before it, or nothing at   *)
(* the cap.                                                                *)
(***************************************************************************)
ClustersInv(clusters, fs, done) ==
  /\ IsSequence(clusters) /\ AllCover(clusters, fs)
  /\ Len(clusters) >= MaxClusters \/ Placed(clusters, done)

LEMMA GroupKeepsInv ==
  ASSUME NEW fs, NEW s, NEW g, NEW key, NEW done, IsGroup(s, Len(s), g, fs, key, done),
         NEW clusters, ClustersInv(clusters, fs, done)
  PROVE  ClustersInv(AddGroup(clusters, s), fs, done \cup g)
<1> DEFINE n == Len(s)
           loop == BlockLoop(clusters, s)
           Held == {k \in 0 .. n : BlockInv(loop[k], fs, s, k, n, key, done)}
           last == loop[n]
<1>1. n \in Nat /\ IsSequence(clusters) /\ Len(clusters) \in Nat
  BY Appended DEF IsGroup, ClustersInv
<1>2. CASE Len(clusters) >= MaxClusters
  BY <1>2 DEF AddGroup, ClustersInv
<1>3. CASE ~ (Len(clusters) >= MaxClusters)
  <2>1. AddGroup(clusters, s) = Flush(last)  BY <1>3 DEF AddGroup
  <2>2. /\ loop[0] = FirstRound(clusters)
        /\ \A k \in 1 .. n : loop[k] = BlockStep(loop[k - 1], s[k])
    BY <1>1, BlockLoopIsDefined
  <2>3. IsLoop(loop[0])
    <3>1. 0 \in 0 .. n  BY <1>1
    <3> QED  BY <1>1, <3>1, LoopShape
  <2> HIDE DEF loop
  <2>4. 0 \in Held
    <3>1. Flush(loop[0]) = clusters  BY <2>2 DEF Flush, FirstRound
    <3>2. done \cup Seen(s, 0) = done  BY DEF Seen
    <3>3. /\ loop[0].start = 1 /\ loop[0].end = 1 /\ loop[0].slice = << >> /\ ~loop[0].left
      BY <2>2 DEF FirstRound
    <3>4. BlockInv(loop[0], fs, s, 0, n, key, done)
      <4>1. AllCover(clusters, fs) /\ Placed(clusters, done)  BY <1>3 DEF ClustersInv
      <4>2. loop[0].start \in Int /\ loop[0].end \in Int  BY <3>3
      <4> QED  BY <2>3, <3>1, <3>2, <3>3, <4>1, <4>2, Zenon DEF BlockInv
    <3> HIDE DEF n
    <3> QED  BY <1>1, <3>4
  <2>5. ASSUME NEW k \in 1 .. n, k - 1 \in Held PROVE k \in Held
    <3>1. BlockInv(loop[k - 1], fs, s, k - 1, n, key, done)  BY <2>5
    <3>2. BlockInv(loop[k], fs, s, k, n, key, done)
      BY <2>2, <3>1, StepKeepsBlockInv
    <3>3. k \in 0 .. n  BY <1>1
    <3> QED  BY <3>2, <3>3
  <2>6. BlockInv(last, fs, s, n, n, key, done)
    <3>1. n \in 0 .. n  BY <1>1
    <3> HIDE DEF n, Held
    <3>2. \A k \in 0 .. n : k \in Held  BY <1>1, <2>4, <2>5, EveryRound
    <3> QED  BY <3>1, <3>2 DEF Held
  <2>7. Seen(s, n) = g  BY DEF Seen, IsGroup, IsSorted
  <2> HIDE DEF last, n
  <2>8. IsLoop(last) /\ AllCover(Flush(last), fs)  BY <2>6 DEF BlockInv
  <2>9. CASE ~last.left  BY <2>1, <2>6, <2>7, <2>8, <2>9, FlushIsSequence DEF BlockInv, ClustersInv
  <2>10. CASE last.left
    <3>1. Len(last.clusters) >= MaxClusters /\ IsSequence(last.clusters)
      BY <2>6, <2>8, <2>10 DEF BlockInv, IsLoop
    <3>2. Len(last.clusters) \in Nat /\ MaxClusters \in Nat
      BY <3>1, Appended, ClusterBoundsAssumption
    <3>3. Len(Flush(last)) = Len(last.clusters) \/ Len(Flush(last)) = Len(last.clusters) + 1
      BY <3>1, Appended DEF Flush
    <3>4. Len(Flush(last)) >= MaxClusters  BY <3>1, <3>2, <3>3
    <3> QED  BY <2>1, <2>8, <3>4, FlushIsSequence DEF ClustersInv
  <2> QED  BY <2>9, <2>10
<1> QED  BY <1>2, <1>3

(* All groups: below the cap every finding with a file is placed. *)
LEMMA ClustersPlaceAndCover ==
  ASSUME NEW fs, IsInput(fs)
  PROVE  ClustersInv(BuildFindingClusters(fs), fs, Located(fs))
<1> DEFINE groups == Groups(fs)
           made == GroupLoop(fs, groups)
           done(k) == UNION {groups[j] : j \in 1 .. k}
<1>1. PICK n \in Nat : DOMAIN fs = 1 .. n  BY DEF IsInput
<1>2. PICK m \in Nat : Len(groups) = m /\ IsPartition(groups, m, fs)  BY <1>1, GroupsPartition
<1>3. made[0] = << >> /\ \A k \in 1 .. m : made[k] = AddGroup(made[k - 1], SortedByLine(fs, groups[k]))
  BY <1>2, GroupLoopIsDefined
<1>4. BuildFindingClusters(fs) = made[m]  BY <1>2 DEF BuildFindingClusters
<1> HIDE DEF groups, made
<1> DEFINE Held == {k \in 0 .. m : ClustersInv(made[k], fs, done(k))}
<1>5. 0 \in Held
  <2>1. << >> \in Seq({})  BY EmptySeq
  <2>2. IsSequence(<< >>)  BY <2>1, SequenceOfItsRange
  <2>3. done(0) = {}  OBVIOUS
  <2>4. AllCover(<< >>, fs) /\ Placed(<< >>, {})  BY DEF AllCover, Placed
  <2> HIDE DEF done
  <2>5. ClustersInv(made[0], fs, done(0))  BY <1>3, <2>2, <2>3, <2>4 DEF ClustersInv
  <2> QED  BY <2>5
<1>6. ASSUME NEW k \in 1 .. m, k - 1 \in Held PROVE k \in Held
  <2> DEFINE g == groups[k]
             s == SortedByLine(fs, g)
  <2>1. g \in SUBSET Located(fs) /\ \A i, j \in g : GroupKey(fs[i]) = GroupKey(fs[j])
    BY <1>2 DEF IsPartition
  <2>2. Len(s) = Cardinality(g) /\ Cardinality(g) \in Nat  BY <1>1, <2>1, SortedIsSequence
  <2>3. IsSorted(s, Len(s), g, fs)  BY <2>1, <2>2, SortedIsSorted
  <2>4. \E key : \A i \in g : <<fs[i].rule, fs[i].file>> = key
    <3>1. CASE g = {}  BY <3>1
    <3>2. CASE g # {}
      <4>1. PICK h : h \in g  BY <3>2
      <4>2. \A i \in g : <<fs[i].rule, fs[i].file>> = <<fs[h].rule, fs[h].file>>
        BY <2>1, <4>1 DEF GroupKey
      <4> QED  BY <4>2
    <3> QED  BY <3>1, <3>2
  <2>5. PICK key : \A i \in g : <<fs[i].rule, fs[i].file>> = key  BY <2>4
  <2>6. g \cap done(k - 1) = {}
    <3> SUFFICES ASSUME NEW j \in 1 .. k - 1, NEW i \in groups[j], i \in groups[k] PROVE FALSE
      OBVIOUS
    <3>1. j \in 1 .. m /\ j # k  OBVIOUS
    <3> QED  BY <1>2, <3>1 DEF IsPartition
  <2>7. done(k) = done(k - 1) \cup g
    <3>1. \A j : j \in 1 .. k <=> j \in 1 .. k - 1 \/ j = k  OBVIOUS
    <3> QED  BY <3>1
  <2> HIDE DEF done, g, s
  <2>8. IsGroup(s, Len(s), g, fs, key, done(k - 1))
    BY <2>1, <2>2, <2>3, <2>5, <2>6 DEF IsGroup
  <2>9. ClustersInv(made[k - 1], fs, done(k - 1))  BY <1>6
  <2>10. ClustersInv(AddGroup(made[k - 1], s), fs, done(k - 1) \cup g)
    BY <2>8, <2>9, GroupKeepsInv
  <2>11. made[k] = AddGroup(made[k - 1], s)  BY <1>3 DEF g, s
  <2>12. ClustersInv(made[k], fs, done(k))  BY <2>7, <2>10, <2>11
  <2> QED  BY <2>12
<1>7. done(m) = Located(fs)  BY <1>2 DEF IsPartition
<1> HIDE DEF Held
<1>8. \A k \in 0 .. m : k \in Held  BY <1>5, <1>6, EveryRound
<1>9. m \in 0 .. m  OBVIOUS
<1>10. ClustersInv(made[m], fs, done(m))
  <2>1. m \in Held  BY <1>8, <1>9
  <2> QED  BY <2>1 DEF Held
<1> HIDE DEF done
<1> QED  BY <1>4, <1>7, <1>10

-----------------------------------------------------------------------------

(* What a call is given, and that it returns what the code builds from it. *)
CallInv ==
  /\ IsInput(given)
  /\ returned = << >> \/ returned = BuildFindingClusters(given)

(* Only the call changes anything, and it builds from what it was given. *)
THEOREM CallInvariance == CallSpec => []CallInv
<1>1. CallInit => CallInv
  <2> SUFFICES ASSUME CallInit PROVE IsInput(given)
    BY DEF CallInit, CallInv
  <2>1. PICK n \in 1 .. MaxFindings : \E s \in [1 .. n -> Shapes] :
          given = [i \in 1 .. n |-> Finding(i, s[i])]
    BY DEF CallInit
  <2>2. PICK s \in [1 .. n -> Shapes] : given = [i \in 1 .. n |-> Finding(i, s[i])]  BY <2>1
  <2>3. \A x \in Shapes : x.start \in Nat /\ x.end \in Nat
    BY CallAssumption DEF Shapes, WithLines, NoLine
  <2> HIDE DEF Shapes
  <2>4. DOMAIN given = 1 .. n /\ n \in Nat  BY <2>2, CallAssumption
  <2>5. \A i \in 1 .. n : given[i].fingerprint = i /\ given[i].start \in Nat /\ given[i].end \in Nat
    BY <2>2, <2>3 DEF Finding
  <2> QED  BY <2>4, <2>5 DEF IsInput
<1>2. CallInv /\ [Build]_callVars => CallInv'
  <2> SUFFICES ASSUME CallInv, [Build]_callVars PROVE CallInv'
    OBVIOUS
  <2>1. given' = given  BY DEF Build, callVars
  <2>2. returned' = returned \/ returned' = BuildFindingClusters(given)  BY DEF Build, callVars
  <2>3. IsInput(given)'  BY <2>1 DEF CallInv, IsInput
  <2>4. BuildFindingClusters(given)' = BuildFindingClusters(given)  BY <2>1
  <2> QED  BY <2>2, <2>3, <2>4 DEF CallInv
<1> QED  BY <1>1, <1>2, PTL DEF CallSpec

(* Below the cap every finding with a file is in one cluster, once, for any *)
(* number of findings, rules, files and lines, and any cap and block size.  *)
THEOREM FindingsArePlaced == CallSpec => []EachFindingInOneCluster
<1>1. CallInv => EachFindingInOneCluster
  <2> SUFFICES ASSUME CallInv, returned # << >>, Len(returned) < MaxClusters,
                      NEW i \in DOMAIN given
               PROVE  IF given[i].file = NoFile
                      THEN ~ \E k \in DOMAIN returned : InCluster(i, returned[k])
                      ELSE InOneCluster(i, returned)
    BY DEF EachFindingInOneCluster
  <2>1. returned = BuildFindingClusters(given) /\ IsInput(given)  BY DEF CallInv
  <2>2. ClustersInv(returned, given, Located(given))  BY <2>1, ClustersPlaceAndCover
  <2>3. Len(returned) \in Nat /\ MaxClusters \in Nat
    BY <2>2, Appended, ClusterBoundsAssumption DEF ClustersInv
  <2>4. Placed(returned, Located(given))  BY <2>2, <2>3 DEF ClustersInv
  <2>5. i \in Located(given) <=> given[i].file # NoFile  BY DEF Located
  <2> QED  BY <2>4, <2>5 DEF Placed, InCluster
<1> QED  BY <1>1, CallInvariance, PTL

(* Whatever the blocks, a cluster is of the rule and the file of each of   *)
(* its findings, and its lines cover theirs.                               *)
THEOREM ClustersCover == CallSpec => []ClusterCoversItsFindings
<1>1. CallInv => ClusterCoversItsFindings
  <2> SUFFICES ASSUME CallInv, NEW k \in DOMAIN returned, NEW i \in DOMAIN given,
                      InCluster(i, returned[k])
               PROVE  /\ given[i].rule = returned[k].rule /\ given[i].file = returned[k].file
                      /\ given[i].start # NoLine =>
                           returned[k].start <= FirstLine(given[i]) /\ LastLine(given[i]) <= returned[k].end
    BY DEF ClusterCoversItsFindings
  <2>1. returned # << >>  OBVIOUS
  <2>2. returned = BuildFindingClusters(given) /\ IsInput(given)  BY <2>1 DEF CallInv
  <2>3. AllCover(returned, given)  BY <2>2, ClustersPlaceAndCover DEF ClustersInv
  <2>4. PICK p \in DOMAIN returned[k].fingerprints : returned[k].fingerprints[p] = i
    BY DEF InCluster
  <2>5. Covers(returned[k], given)  BY <2>3 DEF AllCover
  <2> QED  BY <2>4, <2>5 DEF Covers
<1> QED  BY <1>1, CallInvariance, PTL

-----------------------------------------------------------------------------

(***************************************************************************)
(* The overshoot of the daily allowance is bounded.                        *)
(*                                                                         *)
(* The bound is no invariant by itself: from a full ledger one must know   *)
(* how many handlers have passed the check and will still count.  So the   *)
(* invariant adds those in flight to today's count: a handler that passes  *)
(* the check finds today's count below the allowance, and no more handlers *)
(* than the installation has events are ever in flight; each increment     *)
(* takes one handler out of flight.                                        *)
(***************************************************************************)
EventsOf(i) == {e \in Event : InstallationOf[e] = i}

Bound(i) == MaxPrsPerEvent + Cardinality(EventsOf(i))

Fields == {"pc", "todo", "opened", "limited", "skipped", "commented", "sha"}

HandlersOK == DOMAIN handler = Event /\ \A e \in Event : DOMAIN handler[e] = Fields

LedgerOK == day \in Day /\ ledger \in [Installation -> [Day -> Nat]]

(* Nothing is counted on a day that has not come. *)
FutureIsEmpty == \A i \in Installation, d \in Day : d > day => ledger[i][d] = 0

(* Today's count, with those that may still add to it, is below the bound. *)
TodayIsBounded ==
  \A i \in Installation : ledger[i][day] + Cardinality(InFlight(i)) < Bound(i)

DaysAreBounded == \A i \in Installation, d \in Day : ledger[i][d] < Bound(i)

IInv == HandlersOK /\ LedgerOK /\ FutureIsEmpty /\ TodayIsBounded /\ DaysAreBounded

-----------------------------------------------------------------------------

(* The handlers in flight are some of the installation's events, so that  *)
(* both can be counted.                                                   *)
LEMMA FlightIsFinite ==
  ASSUME NEW i
  PROVE  /\ IsFiniteSet(EventsOf(i)) /\ IsFiniteSet(InFlight(i))
         /\ Cardinality(EventsOf(i)) \in Nat /\ Cardinality(InFlight(i)) \in Nat
         /\ Cardinality(InFlight(i)) <= Cardinality(EventsOf(i))
         /\ Bound(i) \in Nat
<1>1. IsFiniteSet(EventsOf(i)) /\ Cardinality(EventsOf(i)) \in Nat
  <2>1. EventsOf(i) \in SUBSET Event  BY DEF EventsOf
  <2>2. IsFiniteSet(Event)  BY ReverterAssumption
  <2>3. IsFiniteSet(EventsOf(i))  BY <2>1, <2>2, FS_Subset
  <2> QED  BY <2>3, FS_CardinalityType
<1>2. InFlight(i) \in SUBSET EventsOf(i)  BY DEF InFlight, EventsOf
<1>3. IsFiniteSet(InFlight(i)) /\ Cardinality(InFlight(i)) <= Cardinality(EventsOf(i))
  BY <1>1, <1>2, FS_Subset
<1>4. Cardinality(InFlight(i)) \in Nat  BY <1>3, FS_CardinalityType
<1>5. MaxPrsPerEvent \in Nat  BY ReverterAssumption
<1> QED  BY <1>1, <1>3, <1>4, <1>5 DEF Bound

(* The same of the handlers in flight after a step. *)
LEMMA NextFlightIsFinite ==
  ASSUME NEW i
  PROVE  /\ IsFiniteSet(InFlight(i)') /\ Cardinality(InFlight(i)') \in Nat
         /\ Cardinality(InFlight(i)') <= Cardinality(EventsOf(i))
<1>1. IsFiniteSet(EventsOf(i)) /\ Cardinality(EventsOf(i)) \in Nat  BY FlightIsFinite
<1>2. InFlight(i)' \in SUBSET EventsOf(i)  BY DEF InFlight, EventsOf
<1>3. IsFiniteSet(InFlight(i)') /\ Cardinality(InFlight(i)') <= Cardinality(EventsOf(i))
  BY <1>1, <1>2, FS_Subset
<1> QED  BY <1>3, FS_CardinalityType

-----------------------------------------------------------------------------

(* A step that counts nothing and puts no handler in flight. *)
Keeps ==
  /\ HandlersOK' /\ UNCHANGED <<day, ledger>>
  /\ \A f \in Event : handler[f].pc \notin Busy \ {"comment"}
                        => handler'[f].pc \notin Busy \ {"comment"}

LEMMA KeepsPreserves == IInv /\ Keeps => IInv'
<1> SUFFICES ASSUME IInv, Keeps PROVE IInv'  OBVIOUS
<1>1. HandlersOK' /\ LedgerOK' /\ FutureIsEmpty' /\ DaysAreBounded'
  BY DEF IInv, Keeps, LedgerOK, FutureIsEmpty, DaysAreBounded, Bound, EventsOf, Installation
<1>2. TodayIsBounded'
  <2> SUFFICES ASSUME NEW i \in Installation
               PROVE  (ledger[i][day] + Cardinality(InFlight(i)))' < Bound(i)'
    BY DEF TodayIsBounded, Installation
  <2>1. InFlight(i)' \in SUBSET InFlight(i)  BY DEF Keeps, InFlight
  <2>2. Cardinality(InFlight(i)') <= Cardinality(InFlight(i))
    BY <2>1, FlightIsFinite, FS_Subset
  <2>3. ledger[i][day] \in Nat /\ (ledger[i][day])' = ledger[i][day]
    BY DEF IInv, LedgerOK, Keeps
  <2>4. ledger[i][day] + Cardinality(InFlight(i)) < Bound(i)  BY DEF IInv, TodayIsBounded
  <2>5. Bound(i)' = Bound(i)  BY DEF Bound, EventsOf
  <2> QED  BY <2>2, <2>3, <2>4, <2>5, FlightIsFinite, NextFlightIsFinite
<1> QED  BY <1>1, <1>2 DEF IInv

(* Every step of a handler but the check of the ledger and the increment. *)
Quiet(e) ==
  \/ Receive(e) \/ Ignore(e) \/ GetFileContent(e) \/ RequestFix(e) \/ CreateBranch(e)
  \/ ReadFileSha(e) \/ CommitFile(e) \/ OpenDraftPr(e) \/ PostIssueComment(e) \/ Return(e)

(* What a handler does with itself in a step: only its own record changes, *)
(* and its place is the one named.                                         *)
Moves(e, pc) ==
  HandlersOK' /\ handler'[e].pc = pc /\ \A f \in Event \ {e} : handler'[f] = handler[f]

LEMMA GotoMoves ==
  ASSUME NEW e \in Event, HandlersOK, NEW pc, Goto(e, pc) PROVE Moves(e, pc)
BY DEF Goto, HandlersOK, Moves, Fields

LEMMA SkipMoves == ASSUME NEW e \in Event, HandlersOK, Skip(e) PROVE Moves(e, "check")
BY DEF Skip, NextCluster, HandlersOK, Moves, Fields

LEMMA RateLimitedMoves ==
  ASSUME NEW e \in Event, HandlersOK, RateLimited(e)
  PROVE  \E pc \in {"comment", "check"} : Moves(e, pc)
<1>1. CASE e \in Commentable /\ ~handler[e].commented
  BY <1>1 DEF RateLimited, NextCluster, HandlersOK, Moves, Fields
<1>2. CASE ~(e \in Commentable /\ ~handler[e].commented)
  BY <1>2 DEF RateLimited, NextCluster, HandlersOK, Moves, Fields
<1> QED  BY <1>1, <1>2

LEMMA QuietKeeps == ASSUME NEW e \in Event, IInv, Quiet(e) PROVE Keeps
<1>1. HandlersOK  BY DEF IInv
<1>2. UNCHANGED <<day, ledger>>
  BY DEF Quiet, Receive, Ignore, GetFileContent, RequestFix, CreateBranch, ReadFileSha,
         CommitFile, OpenDraftPr, PostIssueComment, Return
<1>3. ASSUME NEW pc, Moves(e, pc),
             pc \notin Busy \ {"comment"} \/ handler[e].pc \in Busy \ {"comment"}
      PROVE  Keeps
  BY <1>2, <1>3 DEF Moves, Keeps, Busy
<1>4. CASE Receive(e)
  BY <1>1, <1>2, <1>4 DEF Receive, Keeps, HandlersOK, Fields, Busy, At
<1>5. CASE Ignore(e)  BY <1>1, <1>3, <1>5, GotoMoves DEF Ignore, Busy
<1>6. CASE GetFileContent(e)
  BY <1>1, <1>3, <1>6, GotoMoves, SkipMoves DEF GetFileContent, Throw, At, Busy
<1>7. CASE RequestFix(e)
  BY <1>1, <1>3, <1>7, GotoMoves, SkipMoves, RateLimitedMoves DEF RequestFix, Throw, At, Busy
<1>8. CASE CreateBranch(e)
  BY <1>1, <1>3, <1>8, GotoMoves, SkipMoves DEF CreateBranch, At, Busy
<1>9. CASE ReadFileSha(e)
  BY <1>1, <1>2, <1>9 DEF ReadFileSha, Keeps, HandlersOK, Fields, Busy, At
<1>10. CASE CommitFile(e)
  BY <1>1, <1>3, <1>10, GotoMoves, SkipMoves DEF CommitFile, At, Busy
<1>11. CASE OpenDraftPr(e)
  BY <1>1, <1>3, <1>11, GotoMoves, SkipMoves DEF OpenDraftPr, At, Busy
<1>12. CASE PostIssueComment(e)
  <2>1. CASE Throw(e)  BY <2>1, <1>1, <1>3, GotoMoves DEF Throw, Busy
  <2>2. CASE handler' = [handler EXCEPT ![e] = [NextCluster(e, handler[e]) EXCEPT !.commented = TRUE]]
    BY <2>2, <1>1, <1>2 DEF NextCluster, Keeps, HandlersOK, Fields, Busy
  <2> QED  BY <2>1, <2>2, <1>12 DEF PostIssueComment
<1>13. CASE Return(e)  BY <1>1, <1>3, <1>13, GotoMoves DEF Return, Busy
<1> QED  BY <1>4, <1>5, <1>6, <1>7, <1>8, <1>9, <1>10, <1>11, <1>12, <1>13 DEF Quiet

-----------------------------------------------------------------------------

(* The check: who passes it has read a count below the allowance, and all *)
(* the installation's events together can be in flight at once.           *)
LEMMA CheckPreserves == ASSUME NEW e \in Event, IInv, CheckLedger(e) PROVE IInv'
<1>1. HandlersOK  BY DEF IInv
<1>2. UNCHANGED <<day, ledger>>  BY DEF CheckLedger
<1>3. CASE Capped(e)
  <2>1. RateLimited(e) \/ Goto(e, "done")  BY <1>3 DEF CheckLedger
  <2>2. \E pc \in {"comment", "check", "done"} : Moves(e, pc)
    BY <1>1, <2>1, GotoMoves, RateLimitedMoves
  <2>3. Keeps  BY <1>2, <2>2 DEF Moves, Keeps, Busy
  <2> QED  BY <2>3, KeepsPreserves
<1>4. CASE ~Capped(e)
  <2>1. Moves(e, "fetch")  BY <1>1, <1>4, GotoMoves DEF CheckLedger
  <2>2. HandlersOK'  BY <2>1 DEF Moves
  <2>3. LedgerOK' /\ FutureIsEmpty' /\ DaysAreBounded'
    BY <1>2 DEF IInv, LedgerOK, FutureIsEmpty, DaysAreBounded, Bound, EventsOf, Installation
  <2>4. TodayIsBounded'
    <3> SUFFICES ASSUME NEW i \in Installation
                 PROVE  (ledger[i][day] + Cardinality(InFlight(i)))' < Bound(i)'
      BY DEF TodayIsBounded, Installation
    <3>1. ledger[i][day] \in Nat /\ (ledger[i][day])' = ledger[i][day]
      BY <1>2 DEF IInv, LedgerOK
    <3>2. Bound(i)' = Bound(i)  BY DEF Bound, EventsOf
    <3>3. CASE InstallationOf[e] = i
      <4>1. ledger[i][day] < MaxPrsPerEvent
        BY <3>1, <3>3, <1>4, ReverterAssumption DEF Capped, CurrentCount
      <4> QED  BY <4>1, <3>1, <3>2, FlightIsFinite, NextFlightIsFinite, ReverterAssumption DEF Bound
    <3>4. CASE InstallationOf[e] # i
      <4>1. InFlight(i)' = InFlight(i)  BY <3>4, <2>1 DEF InFlight, Moves
      <4> QED  BY <4>1, <3>1, <3>2 DEF IInv, TodayIsBounded
    <3> QED  BY <3>3, <3>4
  <2> QED  BY <2>2, <2>3, <2>4 DEF IInv
<1> QED  BY <1>3, <1>4

(* The increment: one more today, one handler less in flight. *)
LEMMA IncrementPreserves == ASSUME NEW e \in Event, IInv, Increment(e) PROVE IInv'
<1> DEFINE own == InstallationOf[e]
<1>1. HandlersOK /\ LedgerOK /\ day' = day  BY DEF IInv, Increment
<1>2. own \in Installation  BY DEF Installation
<1>3. ledger' = [ledger EXCEPT ![own][day] = @ + 1]  BY DEF Increment
<1>4. /\ HandlersOK' /\ handler[e].pc = "opened" /\ handler'[e].pc = "check"
      /\ \A f \in Event \ {e} : handler'[f] = handler[f]
  BY <1>1 DEF Increment, At, NextCluster, HandlersOK, Fields
<1>5. LedgerOK'  BY <1>1, <1>2, <1>3 DEF LedgerOK
<1>6. \A i \in Installation, d \in Day :
        ledger'[i][d] = IF i = own /\ d = day THEN ledger[i][d] + 1 ELSE ledger[i][d]
  BY <1>1, <1>2, <1>3 DEF LedgerOK
<1>7. FutureIsEmpty'
  BY <1>1, <1>6 DEF IInv, FutureIsEmpty, LedgerOK, Day, Installation
<1>8. TodayIsBounded'
  <2> SUFFICES ASSUME NEW i \in Installation
               PROVE  (ledger[i][day] + Cardinality(InFlight(i)))' < Bound(i)'
    BY DEF TodayIsBounded, Installation
  <2>1. ledger[i][day] \in Nat  BY <1>1 DEF LedgerOK
  <2>2. ledger[i][day] + Cardinality(InFlight(i)) < Bound(i)  BY DEF IInv, TodayIsBounded
  <2>3. Bound(i)' = Bound(i)  BY DEF Bound, EventsOf
  <2>4. CASE i = own
    <3>1. InFlight(i)' = InFlight(i) \ {e} /\ e \in InFlight(i)
      BY <2>4, <1>4 DEF InFlight, Busy
    <3>2. Cardinality(InFlight(i)') = Cardinality(InFlight(i)) - 1
      BY <3>1, FlightIsFinite, FS_RemoveElement
    <3>3. (ledger[i][day])' = ledger[i][day] + 1  BY <1>1, <1>6, <2>4 DEF LedgerOK
    <3> QED  BY <3>2, <3>3, <2>1, <2>2, <2>3, FlightIsFinite
  <2>5. CASE i # own
    <3>1. InFlight(i)' = InFlight(i)  BY <2>5, <1>4 DEF InFlight
    <3>2. (ledger[i][day])' = ledger[i][day]  BY <1>1, <1>6, <2>5 DEF LedgerOK
    <3> QED  BY <3>1, <3>2, <2>2, <2>3
  <2> QED  BY <2>4, <2>5
<1>9. DaysAreBounded'
  <2> SUFFICES ASSUME NEW i \in Installation, NEW d \in Day PROVE ledger'[i][d] < Bound(i)'
    BY DEF DaysAreBounded, Installation
  <2>1. Bound(i)' = Bound(i)  BY DEF Bound, EventsOf
  <2>2. CASE d = day
    BY <2>1, <2>2, <1>1, <1>5, <1>8, NextFlightIsFinite, FlightIsFinite
    DEF TodayIsBounded, LedgerOK, Installation
  <2>3. CASE d # day  BY <2>1, <2>3, <1>6 DEF IInv, DaysAreBounded
  <2> QED  BY <2>2, <2>3
<1> QED  BY <1>4, <1>5, <1>7, <1>8, <1>9 DEF IInv

(* A new day begins with an empty count, whoever is in flight. *)
LEMMA MidnightPreserves == ASSUME IInv, Midnight PROVE IInv'
<1>1. HandlersOK /\ LedgerOK /\ day' = day + 1 /\ UNCHANGED <<ledger, handler>>
  BY DEF IInv, Midnight
<1>2. HandlersOK' /\ LedgerOK'
  BY <1>1, ReverterAssumption DEF HandlersOK, LedgerOK, Midnight, Day, Installation
<1>3. FutureIsEmpty'
  BY <1>1, ReverterAssumption DEF IInv, FutureIsEmpty, LedgerOK, Day, Installation
<1>4. DaysAreBounded'  BY <1>1 DEF IInv, DaysAreBounded, Bound, EventsOf, Installation
<1>5. TodayIsBounded'
  <2> SUFFICES ASSUME NEW i \in Installation
               PROVE  (ledger[i][day] + Cardinality(InFlight(i)))' < Bound(i)'
    BY DEF TodayIsBounded, Installation
  <2>1. (ledger[i][day])' = 0
    BY <1>1, <1>2 DEF IInv, FutureIsEmpty, LedgerOK, Day
  <2>2. Bound(i)' = Bound(i)  BY DEF Bound, EventsOf
  <2> QED  BY <2>1, <2>2, FlightIsFinite, NextFlightIsFinite, ReverterAssumption DEF Bound
<1> QED  BY <1>2, <1>3, <1>4, <1>5 DEF IInv

(* An empty ledger is within the bound, whatever the handlers do: it is so *)
(* at the start and after a restart.                                       *)
LEMMA EmptyLedgerIsBounded ==
  ASSUME HandlersOK, day \in Day, ledger = [i \in Installation |-> [d \in Day |-> 0]]
  PROVE  IInv
<1>1. \A i \in Installation, d \in Day : ledger[i][d] = 0  OBVIOUS
<1>2. LedgerOK /\ FutureIsEmpty  BY <1>1 DEF LedgerOK, FutureIsEmpty
<1>3. TodayIsBounded
  BY <1>1, FlightIsFinite, ReverterAssumption DEF TodayIsBounded, Bound
<1>4. DaysAreBounded
  BY <1>1, FlightIsFinite, ReverterAssumption DEF DaysAreBounded, Bound
<1> QED  BY <1>2, <1>3, <1>4 DEF IInv

LEMMA RestartPreserves == ASSUME IInv, Restart PROVE IInv'
<1>1. HandlersOK /\ day \in Day /\ day' = day  BY DEF IInv, LedgerOK, Restart
<1>2. HandlersOK'  BY <1>1 DEF HandlersOK, Restart
<1>3. ledger' = [i \in Installation |-> [d \in Day |-> 0]]  BY DEF Restart
<1>4. \A i \in Installation, d \in Day : ledger'[i][d] = 0  BY <1>3
<1>5. LedgerOK' /\ FutureIsEmpty'
  BY <1>1, <1>3, <1>4 DEF LedgerOK, FutureIsEmpty, Installation, Day
<1>0. MaxPrsPerEvent \in Nat \ {0} /\ LastDay \in Nat  BY ReverterAssumption
<1>6. TodayIsBounded'
  BY <1>0, <1>1, <1>4, FlightIsFinite, NextFlightIsFinite
  DEF TodayIsBounded, Bound, Installation, EventsOf
<1>7. DaysAreBounded'
  BY <1>0, <1>1, <1>4, FlightIsFinite
  DEF DaysAreBounded, Bound, Installation, EventsOf, Day
<1> QED  BY <1>2, <1>5, <1>6, <1>7 DEF IInv

-----------------------------------------------------------------------------

(* The handlers in flight, added to today's count, never exceed what the *)
(* events of the installation allow: the inductive invariant holds.      *)
THEOREM Invariance == Spec => []IInv
<1>1. Init => IInv
  <2> SUFFICES ASSUME Init PROVE IInv  OBVIOUS
  <2>1. HandlersOK  BY DEF Init, HandlersOK, Fields
  <2>2. day \in Day  BY ReverterAssumption DEF Init, Day
  <2>3. ledger = [i \in Installation |-> [d \in Day |-> 0]]  BY DEF Init
  <2> QED  BY <2>1, <2>2, <2>3, EmptyLedgerIsBounded
<1>2. IInv /\ [Next]_vars => IInv'
  <2> SUFFICES ASSUME IInv, [Next]_vars PROVE IInv'  OBVIOUS
  <2>1. ASSUME NEW e \in Event, HandlerStep(e) PROVE IInv'
    <3>1. CASE CheckLedger(e)  BY <3>1, CheckPreserves
    <3>2. CASE Increment(e)  BY <3>2, IncrementPreserves
    <3>3. CASE Quiet(e)  BY <3>3, QuietKeeps, KeepsPreserves
    <3> QED  BY <2>1, <3>1, <3>2, <3>3 DEF HandlerStep, Quiet
  <2>2. CASE Midnight  BY <2>2, MidnightPreserves
  <2>3. CASE Restart  BY <2>3, RestartPreserves
  <2>4. CASE UNCHANGED vars
    <3>1. Keeps  BY <2>4 DEF IInv, Keeps, HandlersOK, vars
    <3> QED  BY <3>1, KeepsPreserves
  <2> QED  BY <2>1, <2>2, <2>3, <2>4 DEF Next
<1> QED  BY <1>1, <1>2, PTL DEF Spec

(* However many webhooks overlap, and across midnights and restarts, a day's *)
(* count stays below the allowance plus the installation's events.           *)
THEOREM Overshoot == Spec => []OvershootIsBounded
<1>1. IInv => OvershootIsBounded
  BY DEF IInv, DaysAreBounded, OvershootIsBounded, Bound, EventsOf
<1> QED  BY <1>1, Invariance, PTL

-----------------------------------------------------------------------------
(***************************************************************************)
(* The ledger and GitHub.  A handler whose pull request is there and not   *)
(* yet counted stands for one that the ledger may still add.               *)
(***************************************************************************)

ToCount(i) == {e \in Event : InstallationOf[e] = i /\ handler[e].pc = "opened"}

CountsOK(i) ==
  /\ IsFiniteSet(Counted(i)) /\ IsFiniteSet(PrsOf(i))
  /\ Cardinality(Counted(i)) + Cardinality(ToCount(i)) <= Cardinality(PrsOf(i))

Counts == \A i \in Installation : CountsOK(i)

(***************************************************************************)
(* The branches.  A handler on the way to its pull request has a branch,   *)
(* and when it asks for the pull request its commit is on that branch.     *)
(***************************************************************************)

Committed(b, cluster) ==
  b \in DOMAIN branches /\ \E k \in DOMAIN branches[b] : branches[b][k] = cluster

OnItsBranch(e) ==
  /\ handler[e].pc \in {"sha", "commit", "pr"} => HeadOf(e) \in DOMAIN branches
  /\ handler[e].pc = "pr" => Committed(HeadOf(e), Cluster(e))

Commits ==
  /\ \A b \in DOMAIN branches : IsSequence(branches[b])
  /\ \A e \in Event : OnItsBranch(e)
  /\ \A pr \in prs : Committed(pr.head, pr.cluster)

(***************************************************************************)
(* The books of an event.  While it comments, the cluster that was over    *)
(* the allowance is counted and still in hand.                             *)
(***************************************************************************)

Working == Busy \cup {"check", "done"}

Balanced(e) ==
  handler[e].opened + handler[e].limited + handler[e].skipped + Len(handler[e].todo)
    = Len(BuildFindingClusters(FindingsOf[e])) + (IF handler[e].pc = "comment" THEN 1 ELSE 0)

CommentOK(e) ==
  /\ comments[e] = (IF handler[e].commented THEN 1 ELSE 0)
  /\ handler[e].commented \/ handler[e].pc = "comment" => handler[e].limited > 0
  /\ handler[e].pc = "comment" => ~handler[e].commented

BooksOK(e) ==
  /\ handler[e].opened \in Nat /\ handler[e].limited \in Nat /\ handler[e].skipped \in Nat
  /\ handler[e].commented \in BOOLEAN /\ IsSequence(handler[e].todo)
  /\ handler[e].pc \in Pcs
  /\ handler[e].pc = "idle" => handler[e].opened = 0 /\ handler[e].skipped = 0
                                /\ handler[e].limited = 0 /\ ~handler[e].commented
  /\ handler[e].pc \in Busy => handler[e].todo # << >>
  /\ handler[e].pc = "done" => handler[e].todo = << >>
  /\ handler[e].pc \in Working => Balanced(e)
  /\ handler[e].pc # "failed" => CommentOK(e)

Books == DOMAIN comments = Event /\ \A e \in GitHubEvent : BooksOK(e)

-----------------------------------------------------------------------------
(* The ledger against GitHub, step by step.                                *)

LEMMA ToCountIsFinite ==
  ASSUME NEW i
  PROVE  /\ IsFiniteSet(ToCount(i)) /\ Cardinality(ToCount(i)) \in Nat
         /\ IsFiniteSet(ToCount(i)') /\ Cardinality(ToCount(i)') \in Nat
<1>1. IsFiniteSet(Event)  BY ReverterAssumption
<1>2. ToCount(i) \in SUBSET Event /\ ToCount(i)' \in SUBSET Event  BY DEF ToCount
<1>3. IsFiniteSet(ToCount(i)) /\ IsFiniteSet(ToCount(i)')  BY <1>1, <1>2, FS_Subset
<1> QED  BY <1>3, FS_CardinalityType

(* A step that counts nothing, closes no pull request and brings no handler *)
(* to the point where it counts.                                            *)
LEMMA NothingToCount ==
  ASSUME Counts, ledger' = ledger, prs \subseteq prs',
         \A i \in Installation : IsFiniteSet(PrsOf(i)'),
         \A e \in Event : handler'[e].pc = "opened" => handler[e].pc = "opened"
  PROVE  Counts'
<1> SUFFICES ASSUME NEW i \in Installation PROVE CountsOK(i)'
  BY DEF Counts, Installation
<1>1. CountsOK(i)  BY DEF Counts
<1>2. Counted(i)' = Counted(i)  BY DEF Counted
<1>3. ToCount(i)' \subseteq ToCount(i) /\ PrsOf(i) \subseteq PrsOf(i)'  BY DEF ToCount, PrsOf
<1>4. Cardinality(ToCount(i)') <= Cardinality(ToCount(i))
  BY <1>3, ToCountIsFinite, FS_Subset
<1>5. Cardinality(PrsOf(i)) <= Cardinality(PrsOf(i)') /\ IsFiniteSet(PrsOf(i)')
  BY <1>3, FS_Subset
<1>6. /\ Cardinality(Counted(i)) \in Nat /\ Cardinality(PrsOf(i)) \in Nat
      /\ Cardinality(PrsOf(i)') \in Nat
  BY <1>1, <1>5, FS_CardinalityType DEF CountsOK
<1> QED  BY <1>1, <1>2, <1>4, <1>5, <1>6, ToCountIsFinite DEF CountsOK

(* An empty ledger counts nothing.                                          *)
LEMMA EmptyLedgerCounts ==
  ASSUME NEW i \in Installation, ledger = [j \in Installation |-> [d \in Day |-> 0]],
         IsFiniteSet(PrsOf(i)), Cardinality(ToCount(i)) = 0
  PROVE  CountsOK(i)
<1>1. \A d \in Day : ledger[i][d] = 0  OBVIOUS
<1>2. Counted(i) = {}  BY <1>1 DEF Counted
<1> QED  BY <1>2, FS_EmptySet, FS_CardinalityType DEF CountsOK

(* The pull request is new, since its head had none, and stands for itself  *)
(* until it is counted.                                                     *)
LEMMA OpenKeepsCounts ==
  ASSUME IInv, Counts, NEW e \in Event, OpenDraftPr(e)
  PROVE  Counts'
<1> DEFINE pr == [head |-> HeadOf(e), event |-> e, cluster |-> Cluster(e)]
<1>1. HandlersOK /\ handler[e].pc = "pr" /\ ledger' = ledger
  BY DEF IInv, OpenDraftPr, At
<1>2. pr.head = HeadOf(e) /\ pr.event = e  OBVIOUS
<1>3. ~HasOpenPr(HeadOf(e)) => pr \notin prs  BY <1>2 DEF HasOpenPr
<1>4. prs' = prs \/ (~HasOpenPr(HeadOf(e)) /\ prs' = prs \cup {pr})  BY DEF OpenDraftPr
<1> HIDE DEF pr
<1>5. \A i \in Installation :
        PrsOf(i)' = PrsOf(i) \/ (PrsOf(i)' = PrsOf(i) \cup {pr} /\ pr \notin PrsOf(i))
  BY <1>2, <1>3, <1>4 DEF PrsOf
<1>6. \A i \in Installation : IsFiniteSet(PrsOf(i)')
  BY <1>5, FS_AddElement DEF Counts, CountsOK
<1>7. CASE Skip(e)
  <2>1. Moves(e, "check")  BY <1>1, <1>7, SkipMoves
  <2> QED  BY <1>1, <1>4, <1>6, <2>1, NothingToCount DEF Moves
<1>8. CASE Goto(e, "opened") /\ ~HasOpenPr(HeadOf(e)) /\ prs' = prs \cup {pr}
  <2> SUFFICES ASSUME NEW i \in Installation PROVE CountsOK(i)'
    BY DEF Counts, Installation
  <2>1. Moves(e, "opened")  BY <1>1, <1>8, GotoMoves
  <2>2. CountsOK(i) /\ Counted(i)' = Counted(i)  BY <1>1 DEF Counts, Counted
  <2>3. CASE InstallationOf[e] = i
    <3>1. ToCount(i)' = ToCount(i) \cup {e} /\ e \notin ToCount(i)
      BY <1>1, <2>1, <2>3 DEF ToCount, Moves
    <3>2. Cardinality(ToCount(i)') = Cardinality(ToCount(i)) + 1
      BY <3>1, ToCountIsFinite, FS_AddElement
    <3>3. PrsOf(i)' = PrsOf(i) \cup {pr} /\ pr \notin PrsOf(i)
      BY <1>2, <1>3, <1>8, <2>3 DEF PrsOf
    <3>4. Cardinality(PrsOf(i)') = Cardinality(PrsOf(i)) + 1
      BY <2>2, <3>3, FS_AddElement DEF CountsOK
    <3>5. Cardinality(Counted(i)) \in Nat /\ Cardinality(PrsOf(i)) \in Nat
      BY <2>2, FS_CardinalityType DEF CountsOK
    <3> QED  BY <1>6, <2>2, <3>2, <3>4, <3>5, ToCountIsFinite DEF CountsOK
  <2>4. CASE InstallationOf[e] # i
    <3>1. ToCount(i)' = ToCount(i)  BY <2>1, <2>4 DEF ToCount, Moves
    <3>2. PrsOf(i)' = PrsOf(i)  BY <1>2, <1>8, <2>4 DEF PrsOf
    <3> QED  BY <2>2, <3>1, <3>2 DEF CountsOK
  <2> QED  BY <2>3, <2>4
<1> QED  BY <1>7, <1>8 DEF OpenDraftPr, pr

(* What stood to be counted is counted.                                     *)
LEMMA IncrementKeepsCounts ==
  ASSUME IInv, Counts, NEW e \in Event, Increment(e)
  PROVE  Counts'
<1> DEFINE own == InstallationOf[e]
           n == ledger[own][day] + 1
<1>1. HandlersOK /\ LedgerOK /\ day' = day /\ prs' = prs
  BY DEF IInv, Increment, github
<1>2. own \in Installation  BY DEF Installation
<1>3. /\ handler[e].pc = "opened" /\ handler'[e].pc = "check"
      /\ \A f \in Event \ {e} : handler'[f] = handler[f]
  BY <1>1 DEF Increment, At, NextCluster, HandlersOK, Fields
<1>4. \A i \in Installation, d \in Day :
        ledger'[i][d] = IF i = own /\ d = day THEN n ELSE ledger[i][d]
  BY <1>1, <1>2 DEF LedgerOK, Increment
<1>5. n \in Nat /\ n = ledger[own][day] + 1 /\ ledger[own][day] \in Nat /\ day \in Day
  BY <1>1, <1>2 DEF LedgerOK
<1> HIDE DEF n
<1> SUFFICES ASSUME NEW i \in Installation PROVE CountsOK(i)'
  BY DEF Counts, Installation
<1>6. CountsOK(i) /\ PrsOf(i)' = PrsOf(i)  BY <1>1 DEF Counts, PrsOf
<1>7. CASE i = own
  <2>1. ToCount(i)' = ToCount(i) \ {e} /\ e \in ToCount(i)
    BY <1>3, <1>7 DEF ToCount
  <2>2. Cardinality(ToCount(i)') = Cardinality(ToCount(i)) - 1
    BY <2>1, ToCountIsFinite, FS_RemoveElement
  <2>3. Counted(i)' = Counted(i) \cup {<<day, n>>} /\ <<day, n>> \notin Counted(i)
    <3>1. ledger'[i][day] = n /\ \A d \in Day \ {day} : ledger'[i][d] = ledger[i][d]
      BY <1>4, <1>5, <1>7
    <3>2. 1 .. n = (1 .. ledger[i][day]) \cup {n} /\ n \notin 1 .. ledger[i][day]
      BY <1>5, <1>7
    <3>3. \A x : x \in Counted(i)' <=>
            \E d \in Day : x \in {d} \X (1 .. ledger'[i][d])
      BY Zenon DEF Counted, Day
    <3>4. \A x : x \in Counted(i) <=> \E d \in Day : x \in {d} \X (1 .. ledger[i][d])
      BY Zenon DEF Counted
    <3>5. {day} \X (1 .. n) = ({day} \X (1 .. ledger[i][day])) \cup {<<day, n>>}
      BY <3>2
    <3>6. \A x : x \in Counted(i)' <=> (x \in Counted(i) \/ x = <<day, n>>)
      BY <1>5, <3>1, <3>3, <3>4, <3>5
    <3>7. <<day, n>> \notin Counted(i)
      BY <3>2, <3>4
    <3> QED  BY <3>6, <3>7
  <2>4. /\ IsFiniteSet(Counted(i)') /\ Cardinality(Counted(i)') = Cardinality(Counted(i)) + 1
    BY <1>6, <2>3, FS_AddElement DEF CountsOK
  <2>5. Cardinality(Counted(i)) \in Nat /\ Cardinality(PrsOf(i)) \in Nat
    BY <1>6, FS_CardinalityType DEF CountsOK
  <2> QED  BY <1>6, <2>2, <2>4, <2>5, ToCountIsFinite DEF CountsOK
<1>8. CASE i # own
  <2>1. ToCount(i)' = ToCount(i)  BY <1>3, <1>8 DEF ToCount
  <2>2. Counted(i)' = Counted(i)
    <3>1. \A d \in Day : ledger'[i][d] = ledger[i][d]  BY <1>4, <1>8
    <3> QED  BY <3>1 DEF Counted
  <2> QED  BY <1>6, <2>1, <2>2 DEF CountsOK
<1> QED  BY <1>7, <1>8

(* The ledger of a new process is empty.                                    *)
LEMMA RestartKeepsCounts == ASSUME Counts, Restart PROVE Counts'
<1> SUFFICES ASSUME NEW i \in Installation PROVE CountsOK(i)'
  BY DEF Counts, Installation
<1>1. CountsOK(i) /\ PrsOf(i)' = PrsOf(i)  BY DEF Counts, Restart, PrsOf, github
<1>2. Counted(i)' = {}
  <2>1. \A d \in Day : ledger'[i][d] = 0  BY DEF Restart
  <2> QED  BY <2>1 DEF Counted
<1>3. ToCount(i)' = {}  BY DEF Restart, ToCount
<1> QED  BY <1>1, <1>2, <1>3, FS_EmptySet, FS_CardinalityType DEF CountsOK

(* The other steps of a handler neither open nor count a pull request.      *)
LEMMA OthersKeepCounts ==
  ASSUME IInv, Counts, NEW e \in Event, HandlerStep(e), ~OpenDraftPr(e), ~Increment(e)
  PROVE  Counts'
<1>1. HandlersOK  BY DEF IInv
<1>2. ledger' = ledger /\ prs' = prs
  BY DEF HandlerStep, Receive, Ignore, CheckLedger, GetFileContent, RequestFix, CreateBranch,
         ReadFileSha, CommitFile, PostIssueComment, Return, github
<1>3. \A f \in Event : handler'[f].pc = "opened" => handler[f].pc = "opened"
  <2>1. ASSUME NEW pc, Moves(e, pc), pc # "opened"
        PROVE  \A f \in Event : handler'[f].pc = "opened" => handler[f].pc = "opened"
    BY <2>1 DEF Moves
  <2>2. CASE Receive(e)  BY <1>1, <2>2 DEF Receive, HandlersOK, Fields
  <2>3. CASE ReadFileSha(e)  BY <1>1, <2>3 DEF ReadFileSha, HandlersOK, Fields
  <2>4. CASE PostIssueComment(e)
    <3>1. CASE Throw(e)  BY <3>1, <1>1, <2>1, GotoMoves DEF Throw
    <3>2. CASE handler' = [handler EXCEPT ![e] = [NextCluster(e, handler[e]) EXCEPT !.commented = TRUE]]
      BY <3>2, <1>1 DEF NextCluster, HandlersOK, Fields
    <3> QED  BY <3>1, <3>2, <2>4 DEF PostIssueComment
  <2>5. \/ Receive(e) \/ ReadFileSha(e) \/ PostIssueComment(e) \/ Skip(e) \/ RateLimited(e)
        \/ \E pc \in Pcs \ {"opened"} : Goto(e, pc)
    BY DEF HandlerStep, Ignore, CheckLedger, GetFileContent, RequestFix, CreateBranch,
           CommitFile, Return, Throw, Pcs
  <2> QED  BY <1>1, <2>1, <2>2, <2>3, <2>4, <2>5, GotoMoves, SkipMoves, RateLimitedMoves
<1>4. \A i \in Installation : IsFiniteSet(PrsOf(i)')
  BY <1>2 DEF Counts, CountsOK, PrsOf
<1> QED  BY <1>2, <1>3, <1>4, NothingToCount

(* What is counted and what will be counted is on GitHub, in every state.   *)
THEOREM CountsInvariance == Spec => []Counts
<1>1. Init => Counts
  <2> SUFFICES ASSUME Init, NEW i \in Installation PROVE CountsOK(i)
    BY DEF Counts
  <2>1. PrsOf(i) = {} /\ ToCount(i) = {}  BY DEF Init, PrsOf, ToCount
  <2>2. ledger = [j \in Installation |-> [d \in Day |-> 0]]  BY DEF Init
  <2> QED  BY <2>1, <2>2, FS_EmptySet, EmptyLedgerCounts
<1>2. IInv /\ Counts /\ [Next]_vars => Counts'
  <2> SUFFICES ASSUME IInv, Counts, [Next]_vars PROVE Counts'  OBVIOUS
  <2>1. ASSUME NEW e \in Event, HandlerStep(e) PROVE Counts'
    BY <2>1, OpenKeepsCounts, IncrementKeepsCounts, OthersKeepCounts
  <2>2. CASE Restart  BY <2>2, RestartKeepsCounts
  <2>3. CASE Midnight \/ UNCHANGED vars
    <3>1. ledger' = ledger /\ prs' = prs /\ handler' = handler
      BY <2>3 DEF Midnight, github, vars
    <3>2. \A i \in Installation : IsFiniteSet(PrsOf(i)')
      BY <3>1 DEF Counts, CountsOK, PrsOf
    <3> QED  BY <3>1, <3>2, NothingToCount
  <2> QED  BY <2>1, <2>2, <2>3 DEF Next
<1> QED  BY <1>1, <1>2, Invariance, PTL DEF Spec

(* The ledger never holds more fix-PRs of an installation than GitHub does. *)
THEOREM LedgerIsBacked == Spec => []LedgerCountsRealPrs
<1>1. Counts => LedgerCountsRealPrs
  <2> SUFFICES ASSUME Counts, NEW i \in Installation
               PROVE  Cardinality(Counted(i)) <= Cardinality(PrsOf(i))
    BY DEF LedgerCountsRealPrs
  <2>1. CountsOK(i)  BY DEF Counts
  <2>2. Cardinality(Counted(i)) \in Nat /\ Cardinality(PrsOf(i)) \in Nat
    BY <2>1, FS_CardinalityType DEF CountsOK
  <2> QED  BY <2>1, <2>2, ToCountIsFinite DEF CountsOK
<1> QED  BY <1>1, CountsInvariance, PTL

-----------------------------------------------------------------------------
(* The branches, step by step: they only grow.                             *)

Grow ==
  \A b \in DOMAIN branches :
    /\ b \in DOMAIN branches'
    /\ \A k \in DOMAIN branches[b] : k \in DOMAIN branches'[b] /\ branches'[b][k] = branches[b][k]

(* A step of one handler: what is on the branches stays there. *)
LEMMA CommitsKept ==
  ASSUME Commits, Grow, NEW e \in Event,
         \A b \in DOMAIN branches' : IsSequence(branches'[b]),
         \A f \in Event \ {e} : handler'[f] = handler[f],
         OnItsBranch(e)',
         \A pr \in prs' : pr \in prs \/ Committed(pr.head, pr.cluster)'
  PROVE  Commits'
<1>1. \A b, c : Committed(b, c) => Committed(b, c)'  BY DEF Committed, Grow
<1>2. \A f \in Event \ {e} : OnItsBranch(f)'
  BY <1>1 DEF Commits, OnItsBranch, Grow, HeadOf, BranchName, Cluster
<1> QED  BY <1>1, <1>2 DEF Commits, IsSequence

(* A handler that is not between its branch and its pull request. *)
LEMMA ElsewhereKeepsCommits ==
  ASSUME Commits, NEW e \in Event, branches' = branches, prs' = prs,
         \A f \in Event \ {e} : handler'[f] = handler[f],
         handler'[e].pc \notin {"sha", "commit", "pr"}
  PROVE  Commits'
<1>1. Grow  BY DEF Grow
<1>2. OnItsBranch(e)'  BY DEF OnItsBranch
<1> QED  BY <1>1, <1>2, CommitsKept DEF Commits

(* The branch is there afterwards, new and empty or as it was. *)
LEMMA BranchKeepsCommits ==
  ASSUME IInv, Commits, NEW e \in Event, CreateBranch(e)
  PROVE  Commits'
<1>1. HandlersOK /\ prs' = prs  BY DEF IInv, CreateBranch
<1>2. CASE Skip(e) /\ branches' = branches
  BY <1>1, <1>2, SkipMoves, ElsewhereKeepsCommits DEF Moves
<1>3. CASE branches' = [b \in DOMAIN branches \cup {HeadOf(e)} |->
                          IF b \in DOMAIN branches THEN branches[b] ELSE << >>]
  <2>1. /\ DOMAIN branches' = DOMAIN branches \cup {HeadOf(e)}
        /\ \A b \in DOMAIN branches : branches'[b] = branches[b]
        /\ \A b \in DOMAIN branches' \ DOMAIN branches : branches'[b] = << >>
    BY <1>3
  <2>2. Grow /\ \A b \in DOMAIN branches' : IsSequence(branches'[b])
    <3>1. IsSequence(<< >>)  BY DEF IsSequence
    <3> QED  BY <2>1, <3>1 DEF Grow, Commits
  <2>3. ASSUME NEW pc, Moves(e, pc), OnItsBranch(e)' PROVE Commits'
    BY <1>1, <2>2, <2>3, CommitsKept DEF Moves
  <2>4. CASE Goto(e, "sha")
    <3>1. Moves(e, "sha") /\ handler'[e].todo = handler[e].todo
      BY <1>1, <2>4, GotoMoves DEF Goto, HandlersOK, Fields
    <3>2. HeadOf(e)' = HeadOf(e)  BY <3>1 DEF HeadOf, BranchName, Cluster
    <3>3. OnItsBranch(e)'  BY <2>1, <3>1, <3>2 DEF OnItsBranch, Moves
    <3> QED  BY <2>3, <3>1, <3>3
  <2>5. CASE Skip(e)
    <3>1. Moves(e, "check")  BY <1>1, <2>5, SkipMoves
    <3>2. OnItsBranch(e)'  BY <3>1 DEF OnItsBranch, Moves
    <3> QED  BY <2>3, <3>1, <3>2
  <2>6. Goto(e, "sha") \/ Skip(e)  BY DEF CreateBranch
  <2> QED  BY <2>4, <2>5, <2>6
<1> QED  BY <1>2, <1>3 DEF CreateBranch

(* Who goes on to the pull request has its commit on the branch. *)
LEMMA CommitKeepsCommits ==
  ASSUME IInv, Commits, NEW e \in Event, CommitFile(e)
  PROVE  Commits'
<1>1. HandlersOK /\ prs' = prs /\ handler[e].pc = "commit"  BY DEF IInv, CommitFile, At
<1>2. CASE Skip(e) /\ branches' = branches
  BY <1>1, <1>2, SkipMoves, ElsewhereKeepsCommits DEF Moves
<1>3. CASE /\ branches' = [branches EXCEPT ![HeadOf(e)] = Append(@, Cluster(e))]
           /\ Goto(e, "pr") \/ Skip(e)
  <2> DEFINE h == HeadOf(e)
             old == branches[h]
             new == Append(old, Cluster(e))
             S == Range(old) \cup {Cluster(e)}
  <2>1. h \in DOMAIN branches /\ old \in Seq(S)
    <3>1. h \in DOMAIN branches  BY <1>1 DEF Commits, OnItsBranch
    <3>2. old \in Seq(Range(old))  BY <3>1 DEF Commits, IsSequence
    <3> QED  BY <3>1, <3>2
  <2>2. Cluster(e) \in S  OBVIOUS
  <2> HIDE DEF S
  <2>3. /\ new \in Seq(S) /\ Len(new) = Len(old) + 1 /\ new[Len(old) + 1] = Cluster(e)
        /\ Len(old) \in Nat /\ DOMAIN old = 1 .. Len(old) /\ DOMAIN new = 1 .. Len(old) + 1
        /\ \A k \in 1 .. Len(old) : new[k] = old[k]
    BY <2>1, <2>2, AppendProperties
  <2>4. IsSequence(new)  BY <2>3, SequenceOfItsRange
  <2>5. /\ DOMAIN branches' = DOMAIN branches /\ branches'[h] = new
        /\ \A b \in DOMAIN branches \ {h} : branches'[b] = branches[b]
    BY <1>3, <2>1
  <2> HIDE DEF new, old, h
  <2>6. Grow /\ \A b \in DOMAIN branches' : IsSequence(branches'[b])
    <3>1. \A b \in DOMAIN branches' : IsSequence(branches'[b])
      BY <2>4, <2>5 DEF Commits
    <3>2. \A k \in DOMAIN old : k \in DOMAIN new /\ new[k] = old[k]  BY <2>3
    <3>3. branches[h] = old  BY DEF old
    <3> QED  BY <2>5, <3>1, <3>2, <3>3 DEF Grow
  <2>7. \E k \in DOMAIN branches'[h] : branches'[h][k] = Cluster(e)
    BY <2>3, <2>5
  <2>8. \/ Moves(e, "pr") /\ handler'[e].todo = handler[e].todo
        \/ Moves(e, "check")
    BY <1>1, <1>3, GotoMoves, SkipMoves DEF Goto, HandlersOK, Fields
  <2>9. OnItsBranch(e)'
    BY <2>1, <2>5, <2>7, <2>8 DEF OnItsBranch, Moves, HeadOf, BranchName, Cluster, Committed, h
  <2> QED  BY <1>1, <2>6, <2>8, <2>9, CommitsKept DEF Moves
<1> QED  BY <1>2, <1>3 DEF CommitFile

(* The other steps of a handler. *)
LEMMA OthersKeepCommits ==
  ASSUME IInv, Commits, NEW e \in Event, HandlerStep(e), ~CreateBranch(e), ~CommitFile(e)
  PROVE  Commits'
<1>1. HandlersOK  BY DEF IInv
<1>2. CASE ReadFileSha(e)
  <2>1. branches' = branches /\ prs' = prs  BY <1>2 DEF ReadFileSha, github
  <2>2. /\ handler[e].pc = "sha" /\ handler'[e].pc = "commit"
        /\ handler'[e].todo = handler[e].todo
        /\ \A f \in Event \ {e} : handler'[f] = handler[f]
    BY <1>1, <1>2 DEF ReadFileSha, At, HandlersOK, Fields
  <2>3. Grow  BY <2>1 DEF Grow
  <2>4. OnItsBranch(e)'
    BY <2>1, <2>2 DEF Commits, OnItsBranch, HeadOf, BranchName, Cluster
  <2> QED  BY <2>1, <2>2, <2>3, <2>4, CommitsKept DEF Commits
<1>3. CASE OpenDraftPr(e)
  <2>1. branches' = branches /\ handler[e].pc = "pr"  BY <1>3 DEF OpenDraftPr, At
  <2>2. Moves(e, "opened") \/ Moves(e, "check")
    BY <1>1, <1>3, GotoMoves, SkipMoves DEF OpenDraftPr
  <2>3. Grow /\ OnItsBranch(e)'  BY <2>1, <2>2 DEF Grow, OnItsBranch, Moves
  <2>4. Committed(HeadOf(e), Cluster(e))  BY <2>1 DEF Commits, OnItsBranch
  <2>5. \A pr \in prs' : pr \in prs \/ (pr.head = HeadOf(e) /\ pr.cluster = Cluster(e))
    BY <1>3 DEF OpenDraftPr
  <2>6. \A pr \in prs' : pr \in prs \/ Committed(pr.head, pr.cluster)'
    BY <2>1, <2>4, <2>5 DEF Committed
  <2> QED  BY <2>1, <2>2, <2>3, <2>6, CommitsKept DEF Commits, Moves
<1>4. CASE Receive(e)
  <2>1. branches' = branches /\ prs' = prs  BY <1>4 DEF Receive, github
  <2>2. handler'[e].pc = "check" /\ \A f \in Event \ {e} : handler'[f] = handler[f]
    BY <1>1, <1>4 DEF Receive, HandlersOK, Fields
  <2> QED  BY <2>1, <2>2, ElsewhereKeepsCommits
<1>5. CASE Increment(e)
  <2>1. branches' = branches /\ prs' = prs  BY <1>5 DEF Increment, github
  <2>2. handler'[e].pc = "check" /\ \A f \in Event \ {e} : handler'[f] = handler[f]
    BY <1>1, <1>5 DEF Increment, NextCluster, HandlersOK, Fields
  <2> QED  BY <2>1, <2>2, ElsewhereKeepsCommits
<1>6. CASE PostIssueComment(e)
  <2>1. branches' = branches /\ prs' = prs  BY <1>6 DEF PostIssueComment
  <2>2. handler'[e].pc \in {"check", "failed"} /\ \A f \in Event \ {e} : handler'[f] = handler[f]
    <3>1. CASE Throw(e)  BY <3>1, <1>1, GotoMoves DEF Throw, Moves
    <3>2. CASE handler' = [handler EXCEPT ![e] = [NextCluster(e, handler[e]) EXCEPT !.commented = TRUE]]
      BY <3>2, <1>1 DEF NextCluster, HandlersOK, Fields
    <3> QED  BY <3>1, <3>2, <1>6 DEF PostIssueComment
  <2> QED  BY <2>1, <2>2, ElsewhereKeepsCommits
<1>7. CASE Ignore(e) \/ CheckLedger(e) \/ GetFileContent(e) \/ RequestFix(e) \/ Return(e)
  <2>1. branches' = branches /\ prs' = prs
    BY <1>7 DEF Ignore, CheckLedger, GetFileContent, RequestFix, Return, github
  <2>2. \/ Skip(e) \/ RateLimited(e)
        \/ \E pc \in {"ignored", "fetch", "done", "fix", "failed", "branch"} : Goto(e, pc)
    BY <1>7 DEF Ignore, CheckLedger, GetFileContent, RequestFix, Return, Throw
  <2>3. \E pc \in Pcs \ {"sha", "commit", "pr"} : Moves(e, pc)
    BY <1>1, <2>2, GotoMoves, SkipMoves, RateLimitedMoves DEF Pcs
  <2> QED  BY <2>1, <2>3, ElsewhereKeepsCommits DEF Moves
<1> QED  BY <1>2, <1>3, <1>4, <1>5, <1>6, <1>7 DEF HandlerStep

(* Whoever is to open a pull request has its commit on a branch, always.    *)
THEOREM CommitsInvariance == Spec => []Commits
<1>1. Init => Commits
  BY DEF Init, Commits, OnItsBranch
<1>2. IInv /\ Commits /\ [Next]_vars => Commits'
  <2> SUFFICES ASSUME IInv, Commits, [Next]_vars PROVE Commits'  OBVIOUS
  <2>1. ASSUME NEW e \in Event, HandlerStep(e) PROVE Commits'
    BY <2>1, BranchKeepsCommits, CommitKeepsCommits, OthersKeepCommits
  <2>2. CASE Restart
    <3>1. branches' = branches /\ prs' = prs  BY <2>2 DEF Restart, github
    <3>2. \A e \in Event : handler'[e].pc \notin {"sha", "commit", "pr"}
      BY <2>2 DEF Restart, IInv, HandlersOK, Fields
    <3>3. \A e \in Event : OnItsBranch(e)'  BY <3>2 DEF OnItsBranch
    <3> QED  BY <3>1, <3>3 DEF Commits, Committed, IsSequence
  <2>3. CASE Midnight \/ UNCHANGED vars
    <3>1. branches' = branches /\ prs' = prs /\ handler' = handler
      BY <2>3 DEF Midnight, github, vars
    <3> QED  BY <3>1 DEF Commits, Committed, IsSequence, OnItsBranch, HeadOf, BranchName, Cluster
  <2> QED  BY <2>1, <2>2, <2>3 DEF Next
<1> QED  BY <1>1, <1>2, Invariance, PTL DEF Spec

(* No pull request is opened before the patch of its cluster is committed.  *)
THEOREM PrsAreCommitted == Spec => []PrHasItsCommit
<1>1. Commits => PrHasItsCommit  BY DEF Commits, Committed, PrHasItsCommit
<1> QED  BY <1>1, CommitsInvariance, PTL

-----------------------------------------------------------------------------
(* The books, step by step.                                                *)

(* One handler moves, and its books are in order afterwards. *)
LEMMA BooksKept ==
  ASSUME Books, NEW e \in Event, DOMAIN comments' = Event,
         \A f \in Event \ {e} : handler'[f] = handler[f] /\ comments'[f] = comments[f],
         e \in GitHubEvent => BooksOK(e)'
  PROVE  Books'
<1>1. ASSUME NEW f \in GitHubEvent, f # e PROVE BooksOK(f)'
  <2>1. BooksOK(f)  BY DEF Books
  <2>2. handler'[f] = handler[f] /\ comments'[f] = comments[f]  BY <1>1, ReverterAssumption
  <2>3. Balanced(f)' = Balanced(f) /\ CommentOK(f)' = CommentOK(f)
    BY <2>2, Zenon DEF Balanced, CommentOK
  <2>4. BooksOK(f)' = BooksOK(f)  BY <2>2, <2>3, Zenon DEF BooksOK
  <2> QED  BY <2>1, <2>4
<1>2. \A f \in GitHubEvent : BooksOK(f)'
  <2> TAKE f \in GitHubEvent
  <2> QED  BY <1>1, Zenon
<1> QED  BY <1>2, Zenon DEF Books

(* What is left to do after a turn of the loop. *)
LEMMA TailBooks ==
  ASSUME NEW s, IsSequence(s), s # << >>
  PROVE  IsSequence(Tail(s)) /\ Len(s) \in Nat /\ Len(Tail(s)) \in Nat /\ Len(Tail(s)) + 1 = Len(s)
<1>1. s \in Seq(Range(s)) /\ s # << >>  BY DEF IsSequence
<1>2. Tail(s) \in Seq(Range(s)) /\ Len(Tail(s)) = Len(s) - 1
  BY <1>1, HeadTailProperties
<1>3. Len(s) \in Nat /\ Len(Tail(s)) \in Nat  BY <1>1, <1>2, LenProperties
<1>4. IsSequence(Tail(s))  BY <1>2, SequenceOfItsRange, Zenon
<1>5. Len(Tail(s)) + 1 = Len(s)
  <2>1. \A m, n \in Nat : m = n - 1 => m + 1 = n  OBVIOUS
  <2> QED  BY <1>2, <1>3, <2>1, Zenon
<1> QED  BY <1>3, <1>4, <1>5, Zenon

(* The clusters of an event can be counted. *)
LEMMA ClustersAreCounted ==
  ASSUME NEW e \in Event PROVE Len(BuildFindingClusters(FindingsOf[e])) \in Nat
<1>1. IsSequence(FindingsOf[e])  BY ReverterAssumption DEF IsSequence
<1> QED  BY <1>1, ClustersAreASequence, LenProperties DEF IsSequence

(* A handler goes on with the cluster it has, or takes the next one. *)
LEMMA GotoBooks ==
  ASSUME HandlersOK, NEW e \in Event, BooksOK(e), comments' = comments,
         NEW pc \in (Busy \ {"comment"}) \cup {"failed"}, Goto(e, pc),
         handler[e].pc \in (Busy \ {"comment"}) \cup {"check"}, handler[e].todo # << >>
  PROVE  BooksOK(e)'
<1>1. handler'[e] = [handler[e] EXCEPT !.pc = pc]  BY DEF Goto, HandlersOK
<1>2. /\ handler'[e].pc = pc /\ handler'[e].opened = handler[e].opened
      /\ handler'[e].limited = handler[e].limited /\ handler'[e].skipped = handler[e].skipped
      /\ handler'[e].commented = handler[e].commented /\ handler'[e].todo = handler[e].todo
  BY <1>1 DEF HandlersOK, Fields
<1>3. pc \in Pcs /\ pc \notin {"idle", "done", "comment"} /\ (pc \in Working => pc # "failed")
  BY DEF Busy, Pcs, Working
<1>4. handler[e].pc \in Working /\ handler[e].pc # "comment" /\ handler[e].pc # "failed"
  BY DEF Busy, Working
<1> QED  BY <1>2, <1>3, <1>4 DEF BooksOK, Balanced, CommentOK

(* The end of a turn with one counter moved by one. *)
LEMMA TurnBooks ==
  ASSUME HandlersOK, NEW e \in Event, BooksOK(e), comments' = comments,
         handler[e].pc \in (Busy \ {"comment"}) \cup {"check"}, handler[e].todo # << >>,
         NEW a \in 0 .. 1, NEW b \in 0 .. 1, NEW c \in 0 .. 1, a + b + c = 1,
         handler'[e].pc = "check", handler'[e].todo = Tail(handler[e].todo),
         handler'[e].opened = handler[e].opened + a,
         handler'[e].limited = handler[e].limited + b,
         handler'[e].skipped = handler[e].skipped + c,
         handler'[e].commented = handler[e].commented
  PROVE  BooksOK(e)'
<1>1. handler[e].pc \in Working /\ handler[e].pc # "comment" /\ handler[e].pc # "failed"
  BY DEF Busy, Working
<1>2. Balanced(e) /\ CommentOK(e)  BY <1>1 DEF BooksOK
<1>3. /\ IsSequence(Tail(handler[e].todo)) /\ Len(handler[e].todo) \in Nat
      /\ Len(Tail(handler[e].todo)) \in Nat
      /\ Len(Tail(handler[e].todo)) + 1 = Len(handler[e].todo)
  BY TailBooks DEF BooksOK
<1> DEFINE n == Len(handler[e].todo)
           rest == Len(Tail(handler[e].todo))
           all == Len(BuildFindingClusters(FindingsOf[e]))
<1>4. Balanced(e)'
  <2>1. handler[e].opened + handler[e].limited + handler[e].skipped + n = all + 0
    BY <1>1, <1>2 DEF Balanced
  <2>2. n \in Nat /\ rest \in Nat /\ all \in Nat /\ rest + 1 = n
    BY <1>3, ClustersAreCounted
  <2>3. handler'[e].pc # "comment"  OBVIOUS
  <2>4. Len(handler'[e].todo) = rest  BY Zenon
  <2> HIDE DEF n, rest
  <2>5. handler'[e].opened + handler'[e].limited + handler'[e].skipped + rest = all + 0
    <3> HIDE DEF all
    <3>1. /\ handler[e].opened \in Nat /\ handler[e].limited \in Nat /\ handler[e].skipped \in Nat
          /\ a \in Nat /\ b \in Nat /\ c \in Nat /\ a + b + c = 1
      BY DEF BooksOK
    <3> DEFINE o == handler[e].opened
               l == handler[e].limited
               s == handler[e].skipped
    <3>2. o + l + s + n = all + 0 /\ o \in Nat /\ l \in Nat /\ s \in Nat  BY <2>1, <3>1
    <3>3. handler'[e].opened = o + a /\ handler'[e].limited = l + b /\ handler'[e].skipped = s + c
      BY Zenon
    <3>4. a \in Nat /\ b \in Nat /\ c \in Nat /\ a + b + c = 1  BY <3>1
    <3> HIDE DEF o, l, s
    <3>5. (o + a) + (l + b) + (s + c) + rest = all + 0  BY ONLY <2>2, <3>2, <3>4
    <3> QED  BY <3>3, <3>5, Zenon
  <2> QED  BY <2>3, <2>4, <2>5 DEF Balanced
<1>5. CommentOK(e)'  BY <1>1, <1>2 DEF CommentOK, BooksOK
<1>6. "check" \in Pcs /\ "check" \notin Busy  BY DEF Pcs, Busy
<1>7. handler'[e].opened \in Nat /\ handler'[e].limited \in Nat /\ handler'[e].skipped \in Nat
  <2> DEFINE o == handler[e].opened
             l == handler[e].limited
             s == handler[e].skipped
  <2>1. o \in Nat /\ l \in Nat /\ s \in Nat  BY DEF BooksOK
  <2>2. handler'[e].opened = o + a /\ handler'[e].limited = l + b /\ handler'[e].skipped = s + c
    BY Zenon
  <2>3. a \in Nat /\ b \in Nat /\ c \in Nat  OBVIOUS
  <2> HIDE DEF o, l, s
  <2>4. o + a \in Nat /\ l + b \in Nat /\ s + c \in Nat  BY ONLY <2>1, <2>3
  <2> QED  BY <2>2, <2>4, Zenon
<1>8. handler'[e].commented \in BOOLEAN /\ IsSequence(handler'[e].todo)
  BY <1>3, Zenon DEF BooksOK
<1> HIDE DEF n, rest, all
<1> QED  BY <1>4, <1>5, <1>6, <1>7, <1>8 DEF BooksOK

LEMMA SkipBooks ==
  ASSUME HandlersOK, NEW e \in Event, BooksOK(e), comments' = comments, Skip(e),
         handler[e].pc \in Busy \ {"comment"}
  PROVE  BooksOK(e)'
<1>1. /\ handler'[e].pc = "check" /\ handler'[e].todo = Tail(handler[e].todo)
      /\ handler'[e].opened = handler[e].opened /\ handler'[e].limited = handler[e].limited
      /\ handler'[e].skipped = handler[e].skipped + 1
      /\ handler'[e].commented = handler[e].commented
  BY DEF Skip, NextCluster, HandlersOK, Fields
<1>2. handler[e].todo # << >> /\ handler[e].opened \in Nat /\ handler[e].limited \in Nat
  BY DEF BooksOK
<1>3. handler[e].opened = handler[e].opened + 0 /\ handler[e].limited = handler[e].limited + 0
  BY <1>2
<1> QED  BY <1>1, <1>2, <1>3, TurnBooks

LEMMA RateLimitedBooks ==
  ASSUME HandlersOK, NEW e \in Event, BooksOK(e), comments' = comments, RateLimited(e),
         handler[e].pc \in (Busy \ {"comment"}) \cup {"check"}, handler[e].todo # << >>
  PROVE  BooksOK(e)'
<1>1. handler[e].opened \in Nat /\ handler[e].limited \in Nat /\ handler[e].skipped \in Nat
  BY DEF BooksOK
<1>2. CASE e \in Commentable /\ ~handler[e].commented
  <2>1. /\ handler'[e].pc = "comment" /\ handler'[e].todo = handler[e].todo
        /\ handler'[e].opened = handler[e].opened
        /\ handler'[e].limited = handler[e].limited + 1
        /\ handler'[e].skipped = handler[e].skipped
        /\ handler'[e].commented = handler[e].commented
    BY <1>2 DEF RateLimited, HandlersOK, Fields
  <2>2. handler[e].pc \in Working /\ handler[e].pc # "comment" /\ handler[e].pc # "failed"
    BY DEF Busy, Working
  <2>3. Balanced(e) /\ CommentOK(e)  BY <2>2 DEF BooksOK
  <2> DEFINE n == Len(handler[e].todo)
             all == Len(BuildFindingClusters(FindingsOf[e]))
  <2>4. n \in Nat /\ all \in Nat  BY TailBooks, ClustersAreCounted DEF BooksOK
  <2>5. Balanced(e)'
    <3>1. handler[e].opened + handler[e].limited + handler[e].skipped + n = all + 0
      BY <2>2, <2>3 DEF Balanced
    <3>2. Len(handler'[e].todo) = n  BY <2>1, Zenon
    <3> HIDE DEF n
    <3>3. handler'[e].opened + handler'[e].limited + handler'[e].skipped + n = all + 1
      <4> HIDE DEF all
      <4> DEFINE o == handler[e].opened
                 l == handler[e].limited
                 s == handler[e].skipped
      <4>1. o \in Nat /\ l \in Nat /\ s \in Nat /\ o + l + s + n = all + 0  BY <1>1, <3>1
      <4>2. handler'[e].opened = o /\ handler'[e].limited = l + 1 /\ handler'[e].skipped = s
        BY <2>1, Zenon
      <4> HIDE DEF o, l, s
      <4>3. o + (l + 1) + s + n = all + 1  BY ONLY <2>4, <4>1
      <4> QED  BY <4>2, <4>3, Zenon
    <3> QED  BY <2>1, <3>2, <3>3 DEF Balanced
  <2>6. CommentOK(e)'  BY <1>1, <1>2, <2>1, <2>3 DEF CommentOK
  <2>7. "comment" \in Pcs  BY DEF Pcs
  <2> QED  BY <1>1, <2>1, <2>5, <2>6, <2>7 DEF BooksOK
<1>3. CASE ~(e \in Commentable /\ ~handler[e].commented)
  <2>1. /\ handler'[e].pc = "check" /\ handler'[e].todo = Tail(handler[e].todo)
        /\ handler'[e].opened = handler[e].opened
        /\ handler'[e].limited = handler[e].limited + 1
        /\ handler'[e].skipped = handler[e].skipped
        /\ handler'[e].commented = handler[e].commented
    BY <1>3 DEF RateLimited, NextCluster, HandlersOK, Fields
  <2>2. handler[e].opened = handler[e].opened + 0 /\ handler[e].skipped = handler[e].skipped + 0
    BY <1>1
  <2> QED  BY <2>1, <2>2, TurnBooks
<1> QED  BY <1>2, <1>3

(* The clusters beyond the slice are counted as over the allowance at once. *)
LEMMA ReceiveBooks ==
  ASSUME HandlersOK, NEW e \in GitHubEvent, BooksOK(e), comments' = comments, Receive(e)
  PROVE  BooksOK(e)'
<1> DEFINE clusters == BuildFindingClusters(FindingsOf[e])
           n == Len(clusters)
           taken == IF n < MaxPrsPerEvent THEN n ELSE MaxPrsPerEvent
           todo == SubSeq(clusters, 1, taken)
<1>0. e \in Event  BY ReverterAssumption
<1>1. clusters \in Seq(Range(clusters)) /\ n \in Nat
  <2>1. IsSequence(FindingsOf[e])  BY <1>0, ReverterAssumption DEF IsSequence
  <2> QED  BY <2>1, ClustersAreASequence, LenProperties DEF IsSequence
<1>2. taken \in 0 .. n  BY <1>1, ReverterAssumption
<1>3. /\ handler'[e].pc = "check" /\ handler'[e].todo = todo
      /\ handler'[e].opened = handler[e].opened /\ handler'[e].limited = n - taken
      /\ handler'[e].skipped = handler[e].skipped
      /\ handler'[e].commented = handler[e].commented /\ handler[e].pc = "idle"
  BY <1>0 DEF Receive, HandlersOK, Fields, At
<1> HIDE DEF taken
<1>4. todo \in Seq(Range(clusters)) /\ Len(todo) = taken
  BY <1>1, <1>2, SubSeqProperties
<1> HIDE DEF todo
<1>5. IsSequence(todo)  BY <1>4, SequenceOfItsRange
<1>6. /\ handler[e].opened = 0 /\ handler[e].skipped = 0 /\ handler[e].commented \in BOOLEAN
      /\ ~handler[e].commented /\ comments[e] = 0
  BY <1>3 DEF BooksOK, CommentOK
<1>7. Balanced(e)'  BY <1>1, <1>2, <1>3, <1>4, <1>6 DEF Balanced
<1>8. CommentOK(e)'  BY <1>3, <1>6 DEF CommentOK
<1>9. "check" \in Pcs /\ "check" \notin Busy  BY DEF Pcs, Busy
<1> QED  BY <1>1, <1>2, <1>3, <1>5, <1>6, <1>7, <1>8, <1>9 DEF BooksOK

(* The first cluster over the allowance is commented on, once. *)
LEMMA CommentBooks ==
  ASSUME HandlersOK, NEW e \in Event, BooksOK(e), DOMAIN comments = Event, PostIssueComment(e)
  PROVE  BooksOK(e)'
<1>1. handler[e].pc = "comment" /\ "comment" \in Working /\ "comment" \in Busy
  BY DEF PostIssueComment, At, Working, Busy
<1>2. /\ handler[e].opened \in Nat /\ handler[e].limited \in Nat /\ handler[e].skipped \in Nat
      /\ handler[e].commented \in BOOLEAN /\ IsSequence(handler[e].todo)
      /\ handler[e].todo # << >> /\ Balanced(e) /\ CommentOK(e)
  BY <1>1 DEF BooksOK
<1>3. CASE Throw(e)
  <2>1. /\ handler'[e].pc = "failed" /\ handler'[e].opened = handler[e].opened
        /\ handler'[e].limited = handler[e].limited /\ handler'[e].skipped = handler[e].skipped
        /\ handler'[e].commented = handler[e].commented /\ handler'[e].todo = handler[e].todo
    BY <1>3 DEF Throw, Goto, HandlersOK, Fields
  <2>2. "failed" \in Pcs /\ "failed" \notin Busy /\ "failed" \notin Working
    BY DEF Pcs, Busy, Working
  <2> QED  BY <1>2, <2>1, <2>2 DEF BooksOK
<1>4. CASE /\ comments' = [comments EXCEPT ![e] = @ + 1]
           /\ handler' = [handler EXCEPT ![e] = [NextCluster(e, handler[e]) EXCEPT !.commented = TRUE]]
  <2>1. /\ handler'[e].pc = "check" /\ handler'[e].todo = Tail(handler[e].todo)
        /\ handler'[e].opened = handler[e].opened /\ handler'[e].limited = handler[e].limited
        /\ handler'[e].skipped = handler[e].skipped /\ handler'[e].commented = TRUE
    BY <1>4 DEF NextCluster, HandlersOK, Fields
  <2>2. /\ IsSequence(Tail(handler[e].todo)) /\ Len(handler[e].todo) \in Nat
        /\ Len(Tail(handler[e].todo)) \in Nat
        /\ Len(Tail(handler[e].todo)) + 1 = Len(handler[e].todo)
    BY <1>2, TailBooks
  <2> DEFINE n == Len(handler[e].todo)
             rest == Len(Tail(handler[e].todo))
             all == Len(BuildFindingClusters(FindingsOf[e]))
  <2>3. Balanced(e)'
    <3>1. handler[e].opened + handler[e].limited + handler[e].skipped + n = all + 1
      BY <1>1, <1>2 DEF Balanced
    <3>2. Len(handler'[e].todo) = rest  BY <2>1, Zenon
    <3>3. n \in Nat /\ rest \in Nat /\ all \in Nat /\ rest + 1 = n
      BY <2>2, ClustersAreCounted
    <3> HIDE DEF n, rest
    <3>4. handler'[e].opened + handler'[e].limited + handler'[e].skipped + rest = all + 0
      <4> HIDE DEF all
      <4>1. /\ handler[e].opened \in Nat /\ handler[e].limited \in Nat
            /\ handler[e].skipped \in Nat
        BY <1>2
      <4>2. handler[e].opened + handler[e].limited + handler[e].skipped + rest = all + 0
        BY ONLY <3>1, <3>3, <4>1
      <4> QED  BY <2>1, <4>2, Zenon
    <3> QED  BY <2>1, <3>2, <3>4 DEF Balanced
  <2>4. comments'[e] = 1 /\ handler[e].limited > 0
    BY <1>1, <1>2, <1>4 DEF CommentOK
  <2>5. CommentOK(e)'  BY <2>1, <2>4 DEF CommentOK
  <2>6. "check" \in Pcs /\ "check" \notin Busy  BY DEF Pcs, Busy
  <2> QED  BY <1>2, <2>1, <2>2, <2>3, <2>5, <2>6 DEF BooksOK
<1> QED  BY <1>3, <1>4 DEF PostIssueComment

(* Every step of a GitHub handler leaves its books in order. *)
LEMMA StepBooks ==
  ASSUME IInv, Books, NEW e \in GitHubEvent, HandlerStep(e)
  PROVE  BooksOK(e)'
<1>0. e \in Event /\ HandlersOK /\ BooksOK(e) /\ DOMAIN comments = Event
  BY ReverterAssumption DEF IInv, Books
<1>1. handler[e].pc \in Busy => handler[e].todo # << >>  BY <1>0 DEF BooksOK
<1>2. CASE Receive(e)
  BY <1>0, <1>2, ReceiveBooks DEF Receive, github
<1>3. CASE Ignore(e)
  <2>1. /\ handler[e].pc = "idle" /\ handler'[e].pc = "ignored" /\ comments' = comments
        /\ handler'[e].opened = handler[e].opened
        /\ handler'[e].limited = handler[e].limited /\ handler'[e].skipped = handler[e].skipped
        /\ handler'[e].commented = handler[e].commented /\ handler'[e].todo = handler[e].todo
    BY <1>0, <1>3 DEF Ignore, Goto, HandlersOK, Fields, At, github
  <2>2. "ignored" \in Pcs /\ "ignored" \notin Busy /\ "ignored" \notin Working
    BY DEF Pcs, Busy, Working
  <2> QED  BY <1>0, <2>1, <2>2 DEF BooksOK, CommentOK
<1>4. CASE CheckLedger(e)
  <2>1. handler[e].pc = "check" /\ handler[e].todo # << >> /\ comments' = comments
    BY <1>4 DEF CheckLedger, At, github
  <2>2. Goto(e, "fetch") \/ RateLimited(e)  BY <1>4 DEF CheckLedger
  <2> QED  BY <1>0, <2>1, <2>2, GotoBooks, RateLimitedBooks DEF Busy
<1>5. CASE GetFileContent(e)
  BY <1>0, <1>1, <1>5, GotoBooks, SkipBooks DEF GetFileContent, At, Throw, Busy, github
<1>6. CASE RequestFix(e)
  BY <1>0, <1>1, <1>6, GotoBooks, SkipBooks, RateLimitedBooks DEF RequestFix, At, Throw, Busy, github
<1>7. CASE CreateBranch(e)
  BY <1>0, <1>1, <1>7, GotoBooks, SkipBooks DEF CreateBranch, At, Busy
<1>8. CASE ReadFileSha(e)
  <2>1. /\ handler[e].pc = "sha" /\ handler'[e].pc = "commit" /\ comments' = comments
        /\ handler'[e].opened = handler[e].opened
        /\ handler'[e].limited = handler[e].limited /\ handler'[e].skipped = handler[e].skipped
        /\ handler'[e].commented = handler[e].commented /\ handler'[e].todo = handler[e].todo
    BY <1>0, <1>8 DEF ReadFileSha, HandlersOK, Fields, At, github
  <2>2. "commit" \in Pcs /\ {"sha", "commit"} \subseteq Busy \cap Working
    BY DEF Pcs, Busy, Working
  <2> QED  BY <1>0, <2>1, <2>2 DEF BooksOK, Balanced, CommentOK
<1>9. CASE CommitFile(e)
  BY <1>0, <1>1, <1>9, GotoBooks, SkipBooks DEF CommitFile, At, Busy
<1>10. CASE OpenDraftPr(e)
  BY <1>0, <1>1, <1>10, GotoBooks, SkipBooks DEF OpenDraftPr, At, Busy
<1>11. CASE Increment(e)
  <2>1. /\ handler[e].pc = "opened" /\ comments' = comments
        /\ handler'[e].pc = "check" /\ handler'[e].todo = Tail(handler[e].todo)
        /\ handler'[e].opened = handler[e].opened + 1
        /\ handler'[e].limited = handler[e].limited /\ handler'[e].skipped = handler[e].skipped
        /\ handler'[e].commented = handler[e].commented
    BY <1>0, <1>11 DEF Increment, NextCluster, HandlersOK, Fields, At, github
  <2>2. handler[e].limited \in Nat /\ handler[e].skipped \in Nat  BY <1>0 DEF BooksOK
  <2>3. handler[e].limited = handler[e].limited + 0 /\ handler[e].skipped = handler[e].skipped + 0
    BY <2>2
  <2>4. handler[e].pc \in Busy \ {"comment"} /\ handler[e].todo # << >>
    BY <1>1, <2>1 DEF Busy
  <2> QED  BY <1>0, <2>1, <2>3, <2>4, TurnBooks
<1>12. CASE PostIssueComment(e)
  BY <1>0, <1>12, CommentBooks
<1>13. CASE Return(e)
  <2>1. /\ handler[e].pc = "check" /\ handler'[e].pc = "done" /\ comments' = comments
        /\ handler[e].todo = << >> /\ handler'[e].opened = handler[e].opened
        /\ handler'[e].limited = handler[e].limited /\ handler'[e].skipped = handler[e].skipped
        /\ handler'[e].commented = handler[e].commented /\ handler'[e].todo = handler[e].todo
    BY <1>0, <1>13 DEF Return, Goto, HandlersOK, Fields, At, github
  <2>2. "done" \in Pcs /\ "done" \notin Busy /\ {"check", "done"} \subseteq Working
    BY DEF Pcs, Busy, Working
  <2> QED  BY <1>0, <2>1, <2>2 DEF BooksOK, Balanced, CommentOK
<1> QED  BY <1>2, <1>3, <1>4, <1>5, <1>6, <1>7, <1>8, <1>9, <1>10, <1>11, <1>12, <1>13 DEF HandlerStep

(* The books of every GitHub event are in order in every state.            *)
THEOREM BooksInvariance == Spec => []Books
<1>1. Init => Books
  <2> SUFFICES ASSUME Init, NEW e \in GitHubEvent PROVE BooksOK(e)
    BY DEF Init, Books
  <2>1. e \in Event  BY ReverterAssumption
  <2>2. /\ handler[e].pc \in {"idle", "ignored"} /\ handler[e].todo = << >>
        /\ handler[e].opened = 0 /\ handler[e].limited = 0 /\ handler[e].skipped = 0
        /\ ~handler[e].commented /\ handler[e].commented \in BOOLEAN /\ comments[e] = 0
    <3>1. PICK pc \in {"idle", "ignored"} :
            handler[e] = [pc |-> pc, todo |-> << >>, opened |-> 0, limited |-> 0, skipped |-> 0,
                          commented |-> FALSE, sha |-> UnreadSha]
      BY <2>1 DEF Init
    <3>2. handler[e].commented = FALSE
      <4> DEFINE fresh == [pc |-> pc, todo |-> << >>, opened |-> 0, limited |-> 0,
                           skipped |-> 0, commented |-> FALSE, sha |-> UnreadSha]
      <4>1. fresh.commented = FALSE  OBVIOUS
      <4>2. handler[e] = fresh  BY <3>1
      <4> HIDE DEF fresh
      <4> QED  BY <4>1, <4>2, Zenon
    <3>3. comments[e] = 0  BY <2>1 DEF Init
    <3>4. /\ handler[e].pc \in {"idle", "ignored"} /\ handler[e].todo = << >>
          /\ handler[e].opened = 0 /\ handler[e].limited = 0 /\ handler[e].skipped = 0
      BY <3>1
    <3> QED  BY <3>2, <3>3, <3>4, Zenon
  <2>3. IsSequence(<< >>)  BY DEF IsSequence
  <2>4. handler[e].pc \in Pcs /\ handler[e].pc \notin Busy /\ handler[e].pc \notin Working
    BY <2>2 DEF Pcs, Busy, Working
  <2>5. CommentOK(e)  BY <2>2 DEF CommentOK
  <2> QED  BY <2>2, <2>3, <2>4, <2>5 DEF BooksOK
<1>2. IInv /\ Books /\ [Next]_vars => Books'
  <2> SUFFICES ASSUME IInv, Books, [Next]_vars PROVE Books'  OBVIOUS
  <2>1. ASSUME NEW e \in Event, HandlerStep(e) PROVE Books'
    <3>1. /\ DOMAIN comments' = Event
          /\ \A f \in Event \ {e} : comments'[f] = comments[f]
      BY <2>1 DEF Books, HandlerStep, Receive, Ignore, CheckLedger, GetFileContent, RequestFix,
             CreateBranch, ReadFileSha, CommitFile, OpenDraftPr, Increment, PostIssueComment,
             Return, github
    <3>2. \A f \in Event \ {e} : handler'[f] = handler[f]
      BY <2>1 DEF IInv, HandlersOK, HandlerStep, Receive, Ignore, CheckLedger, GetFileContent,
             RequestFix, CreateBranch, ReadFileSha, CommitFile, OpenDraftPr, Increment,
             PostIssueComment, Return, Goto, Skip, Throw, RateLimited
    <3> QED  BY <2>1, <3>1, <3>2, StepBooks, BooksKept
  <2>2. CASE Restart
    <3> SUFFICES ASSUME NEW e \in GitHubEvent PROVE BooksOK(e)'
      BY <2>2 DEF Books, Restart, github
    <3>1. e \in Event /\ BooksOK(e)  BY ReverterAssumption DEF Books
    <3>2. /\ handler'[e].pc = handler[e].pc \/ handler'[e].pc = "failed"
          /\ handler'[e].opened = handler[e].opened
          /\ handler'[e].limited = handler[e].limited /\ handler'[e].skipped = handler[e].skipped
          /\ handler'[e].commented = handler[e].commented /\ handler'[e].todo = handler[e].todo
          /\ comments' = comments
      BY <2>2, <3>1 DEF Restart, IInv, HandlersOK, Fields, github
    <3>3. "failed" \in Pcs /\ "failed" \notin Busy /\ "failed" \notin Working
      BY DEF Pcs, Busy, Working
    <3> QED  BY <3>1, <3>2, <3>3 DEF BooksOK, Balanced, CommentOK
  <2>3. CASE Midnight \/ UNCHANGED vars
    <3>1. handler' = handler /\ comments' = comments
      BY <2>3 DEF Midnight, github, vars
    <3> QED  BY <3>1 DEF Books, BooksOK, Balanced, CommentOK
  <2> QED  BY <2>1, <2>2, <2>3 DEF Next
<1> QED  BY <1>1, <1>2, Invariance, PTL DEF Spec

(* An event that returns has accounted for every cluster, and commented at *)
(* most once and with reason.                                              *)
THEOREM ClustersAreAccounted == Spec => []EveryClusterAccounted
<1>1. Books => EveryClusterAccounted
  <2> SUFFICES ASSUME Books, NEW e \in GitHubEvent, handler[e].pc = "done"
               PROVE  /\ handler[e].opened + handler[e].limited + handler[e].skipped
                            = Len(BuildFindingClusters(FindingsOf[e]))
                      /\ comments[e] <= 1
                      /\ comments[e] = 1 => handler[e].limited > 0
    BY DEF EveryClusterAccounted, At
  <2>1. BooksOK(e) /\ "done" \in Working  BY DEF Books, Working
  <2>2. Len(handler[e].todo) = 0  BY <2>1 DEF BooksOK
  <2>3. Len(BuildFindingClusters(FindingsOf[e])) \in Nat
    BY ClustersAreCounted, ReverterAssumption
  <2> QED  BY <2>1, <2>2, <2>3 DEF BooksOK, Balanced, CommentOK
<1> QED  BY <1>1, BooksInvariance, PTL
=============================================================================

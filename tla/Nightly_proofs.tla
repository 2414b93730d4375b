--------------------------- MODULE Nightly_proofs ---------------------------
(***************************************************************************)
(* Proofs about what the nightly jobs read off closes, tape and charts:    *)
(* the labels (Flywheel), the shortlists (Tape), the trades (Charts), and  *)
(* what one more strong print does to every view of the tape (Tape).       *)
(***************************************************************************)
EXTENDS Charts, Tape, Flywheel, FiniteSetTheorems, SequenceTheorems, WellFoundedInduction, TLAPS

-----------------------------------------------------------------------------
(* Members of a finite set by their place: how many come before them.  All *)
(* of the listings are of this form.                                       *)

\* R, a set of pairs, is a strict total order of S.
Orders(R, S) ==
  /\ \A a \in S : <<a, a>> \notin R
  /\ \A a, b, c \in S : <<a, b>> \in R /\ <<b, c>> \in R => <<a, c>> \in R
  /\ \A a, b \in S : a # b => <<a, b>> \in R \/ <<b, a>> \in R

Below(R, S, a) == {b \in S : <<b, a>> \in R}
Place(R, S, a) == Cardinality(Below(R, S, a))
Nth(R, S, k) == CHOOSE a \in S : Place(R, S, a) = k - 1

\* A place is below the number of members.
LEMMA PlaceBound ==
  ASSUME NEW S, IsFiniteSet(S), NEW R, Orders(R, S), NEW a \in S
  PROVE  Place(R, S, a) \in 0..(Cardinality(S) - 1)
<1>1. Below(R, S, a) \subseteq S /\ a \notin Below(R, S, a)
  BY DEF Below, Orders
<1>2. IsFiniteSet(Below(R, S, a)) /\ Cardinality(Below(R, S, a)) <= Cardinality(S)
      /\ (Cardinality(S) = Cardinality(Below(R, S, a)) => S = Below(R, S, a))
  BY <1>1, FS_Subset
<1>3. Cardinality(S) \in Nat /\ Cardinality(Below(R, S, a)) \in Nat
  BY <1>2, FS_CardinalityType
<1>4. QED
  BY <1>1, <1>2, <1>3 DEF Place

\* What comes before has a lower place.
LEMMA PlaceGrows ==
  ASSUME NEW S, IsFiniteSet(S), NEW R, Orders(R, S),
         NEW a \in S, NEW b \in S, <<a, b>> \in R
  PROVE  Place(R, S, a) < Place(R, S, b)
<1>1. /\ Below(R, S, a) \subseteq Below(R, S, b)
      /\ a \in Below(R, S, b) /\ a \notin Below(R, S, a)
  BY DEF Below, Orders
<1>2. IsFiniteSet(Below(R, S, b))
  BY FS_Subset DEF Below
<1>3. /\ IsFiniteSet(Below(R, S, a))
      /\ Cardinality(Below(R, S, a)) <= Cardinality(Below(R, S, b))
      /\ Cardinality(Below(R, S, a)) # Cardinality(Below(R, S, b))
  BY <1>1, <1>2, FS_Subset
<1>4. Cardinality(Below(R, S, a)) \in Nat /\ Cardinality(Below(R, S, b)) \in Nat
  BY <1>2, <1>3, FS_CardinalityType
<1>5. QED
  BY <1>3, <1>4 DEF Place

\* And what has a lower place comes before: members have places of their own.
LEMMA PlaceDecides ==
  ASSUME NEW S, IsFiniteSet(S), NEW R, Orders(R, S), NEW a \in S, NEW b \in S
  PROVE  /\ Place(R, S, a) < Place(R, S, b) => <<a, b>> \in R
         /\ Place(R, S, a) = Place(R, S, b) => a = b
<1>1. Place(R, S, a) \in Int /\ Place(R, S, b) \in Int
  <2>1. Cardinality(S) \in Nat
    BY FS_CardinalityType
  <2>2. QED
    BY <2>1, PlaceBound
<1>2. CASE a = b
  BY <1>1, <1>2
<1>3. CASE <<a, b>> \in R
  BY <1>1, <1>3, PlaceGrows
<1>4. CASE <<b, a>> \in R
  BY <1>1, <1>4, PlaceGrows
<1>5. QED
  BY <1>2, <1>3, <1>4 DEF Orders

\* Every place is taken.
LEMMA PlaceTaken ==
  ASSUME NEW S, IsFiniteSet(S), NEW R, Orders(R, S), NEW k \in 1..Cardinality(S)
  PROVE  Nth(R, S, k) \in S /\ Place(R, S, Nth(R, S, k)) = k - 1
<1> DEFINE n == Cardinality(S)
           T == 0..(n - 1)
           f == [a \in S |-> Place(R, S, a)]
<1>1. n \in Nat
  BY FS_CardinalityType
<1>2. IsFiniteSet(T) /\ Cardinality(T) = n
  <2>1. PICK m \in Int : m = n - 1
    BY <1>1
  <2>2. IsFiniteSet(0..m) /\ Cardinality(0..m) = IF 0 > m THEN 0 ELSE m - 0 + 1
    BY FS_Interval
  <2>3. QED
    BY <1>1, <2>1, <2>2
<1>3. f \in Injection(S, T)
  <2>1. f \in [S -> T]
    BY PlaceBound
  <2>2. \A a, b \in S : f[a] = f[b] => a = b
    BY PlaceDecides
  <2>3. QED
    BY <2>1, <2>2 DEF Injection, IsInjective
<1>4. f \in Surjection(S, T)
  BY <1>2, <1>3, FS_Injection
<1>5. \E a \in S : Place(R, S, a) = k - 1
  <2>1. k - 1 \in T
    BY <1>1
  <2>2. \E a \in S : f[a] = k - 1
    BY <1>4, <2>1 DEF Surjection
  <2>3. QED
    BY <2>2
<1>6. QED
  BY <1>5 DEF Nth

\* By its place a member is found.
LEMMA NthOf ==
  ASSUME NEW S, IsFiniteSet(S), NEW R, Orders(R, S), NEW a \in S
  PROVE  /\ Place(R, S, a) + 1 \in 1..Cardinality(S)
         /\ Nth(R, S, Place(R, S, a) + 1) = a
<1>1. Cardinality(S) \in Nat /\ Place(R, S, a) \in 0..(Cardinality(S) - 1)
  BY PlaceBound, FS_CardinalityType
<1> DEFINE k == Place(R, S, a) + 1
<1>2. k \in 1..Cardinality(S) /\ k - 1 = Place(R, S, a)
  BY <1>1
<1>3. Nth(R, S, k) \in S /\ Place(R, S, Nth(R, S, k)) = k - 1
  BY <1>2, PlaceTaken
<1>4. Nth(R, S, k) = a
  BY <1>2, <1>3, PlaceDecides
<1>5. QED
  BY <1>2, <1>4

\* The listing is in order, and nobody is in it twice.
LEMMA NthAscends ==
  ASSUME NEW S, IsFiniteSet(S), NEW R, Orders(R, S),
         NEW k \in 1..Cardinality(S), NEW l \in 1..Cardinality(S)
  PROVE  k < l <=> <<Nth(R, S, k), Nth(R, S, l)>> \in R
<1>1. /\ Nth(R, S, k) \in S /\ Place(R, S, Nth(R, S, k)) = k - 1
      /\ Nth(R, S, l) \in S /\ Place(R, S, Nth(R, S, l)) = l - 1
  BY PlaceTaken
<1>2. Cardinality(S) \in Nat
  BY FS_CardinalityType
<1>3. ASSUME k < l PROVE <<Nth(R, S, k), Nth(R, S, l)>> \in R
  BY <1>1, <1>2, <1>3, PlaceDecides
<1>4. ASSUME <<Nth(R, S, k), Nth(R, S, l)>> \in R PROVE k < l
  <2>1. Place(R, S, Nth(R, S, k)) < Place(R, S, Nth(R, S, l))
    BY <1>1, <1>4, PlaceGrows
  <2>2. QED
    BY <1>1, <1>2, <2>1
<1>5. QED
  BY <1>3, <1>4

\* A set of natural numbers that is not empty has a least member.
LEMMA LeastExists ==
  ASSUME NEW S \in SUBSET Nat, S # {}
  PROVE  Min(S) \in S /\ \A y \in S : Min(S) <= y
<1> DEFINE R == {p \in Nat \X Nat : p[1] < p[2]}
<1>1. IsWellFoundedOn(R, Nat)
  BY NatLessThanWellFounded DEF OpToRel
<1> HIDE DEF R
<1>2. PICK x \in S : \A y \in S : ~ (<<y, x>> \in R)
  BY <1>1, WFMin
<1>3. ASSUME NEW y \in S
      PROVE  x <= y
  <2>1. <<y, x>> \notin R /\ x \in Nat /\ y \in Nat
    BY <1>2
  <2>2. QED
    BY <2>1 DEF R
<1>4. QED
  BY <1>3 DEF Min

-----------------------------------------------------------------------------
(* Flywheel: the labels. *)

Earlier == {p \in Nat \X Nat : p[1] < p[2]}

LEMMA DaysInOrder ==
  ASSUME NEW days \in SUBSET Nat
  PROVE  /\ Orders(Earlier, days)
         /\ \A d \in days : Below(Earlier, days, d) = {c \in days : c < d}
<1>1. \A a, b \in days : a \in Nat /\ b \in Nat /\ (<<a, b>> \in Earlier <=> a < b)
  BY DEF Earlier
<1>2. Orders(Earlier, days)
  BY <1>1 DEF Orders
<1>3. QED
  BY <1>1, <1>2 DEF Below

\* The k-th of a set of days.
DayOf(days, k) == Nth(Earlier, days, k)

LEMMA DayOfIs ==
  ASSUME NEW days \in SUBSET Nat, IsFiniteSet(days), NEW k \in 1..Cardinality(days)
  PROVE  /\ DayOf(days, k) \in days
         /\ Cardinality({c \in days : c < DayOf(days, k)}) = k - 1
         /\ \A d \in days : Cardinality({c \in days : c < d}) = k - 1 => d = DayOf(days, k)
<1>1. Orders(Earlier, days)
  BY DaysInOrder
<1>2. DayOf(days, k) \in days /\ Place(Earlier, days, DayOf(days, k)) = k - 1
  BY <1>1, PlaceTaken DEF DayOf
<1>3. \A d \in days : Place(Earlier, days, d) = Cardinality({c \in days : c < d})
  BY DaysInOrder DEF Place
<1>4. ASSUME NEW d \in days, Cardinality({c \in days : c < d}) = k - 1
      PROVE  d = DayOf(days, k)
  <2>1. Place(Earlier, days, d) = Place(Earlier, days, DayOf(days, k))
    BY <1>2, <1>3, <1>4
  <2>2. QED
    BY <1>1, <1>2, <2>1, PlaceDecides
<1>5. QED
  BY <1>2, <1>3, <1>4

LEMMA DaysAscend ==
  ASSUME NEW days \in SUBSET Nat, IsFiniteSet(days),
         NEW k \in 1..Cardinality(days), NEW l \in 1..Cardinality(days)
  PROVE  k < l <=> DayOf(days, k) < DayOf(days, l)
<1>1. DayOf(days, k) \in Nat /\ DayOf(days, l) \in Nat
  BY DayOfIs
<1>2. k < l <=> <<DayOf(days, k), DayOf(days, l)>> \in Earlier
  BY DaysInOrder, NthAscends DEF DayOf
<1>3. QED
  BY <1>1, <1>2 DEF Earlier

\* The sessions a label is about are the first of those that are there, when these are enough.
Until(all, today) == {d \in all : d <= today}
WithFewBefore(all, h) == {d \in all : Cardinality({c \in all : c < d}) <= h}
FirstOnes(days, n) == {DayOf(days, k) : k \in 1..n}

LEMMA FirstDays ==
  ASSUME NEW all \in SUBSET Nat, IsFiniteSet(all), NEW today \in Nat, NEW h \in Nat,
         NEW days, days = Until(all, today), h < Cardinality(days)
  PROVE  WithFewBefore(all, h) = FirstOnes(days, h + 1)
<1> USE DEF Until
<1>1. days \subseteq Nat /\ IsFiniteSet(days) /\ Cardinality(days) \in Nat
  BY FS_Subset, FS_CardinalityType
<1>a. \A c : c \in days <=> c \in all /\ c <= today
  OBVIOUS
<1>b. \A c \in all : c \in Nat
  OBVIOUS
<1>2. ASSUME NEW d \in days
      PROVE  {c \in all : c < d} = {c \in days : c < d}
  <2>1. d \in Nat /\ d <= today
    BY <1>a, <1>b
  <2>2. \A c \in all : c < d => c \in days
    BY <1>a, <1>b, <2>1
  <2>3. \A c \in days : c \in all
    BY <1>a
  <2>4. {c \in all : c < d} \subseteq {c \in days : c < d}
    BY <2>2
  <2>5. {c \in days : c < d} \subseteq {c \in all : c < d}
    BY <2>3
  <2>6. QED
    BY <2>4, <2>5
<1>3. ASSUME NEW d \in all, Cardinality({c \in all : c < d}) <= h
      PROVE  \E k \in 1..(h + 1) : d = DayOf(days, k)
  <2>1. d \in days
    <3>1. SUFFICES ASSUME d > today
                   PROVE  FALSE
      BY <1>1
    <3> DEFINE T == {c \in all : c < d}
    <3>2. T \subseteq all /\ days \subseteq T
      <4>1. \A c \in days : c \in all /\ c \in Nat /\ c <= today
        BY <1>a, <1>b
      <4>2. d \in Nat
        BY <1>b
      <4>3. \A c \in days : c \in all /\ c < d
        BY <4>1, <4>2, <3>1
      <4>4. QED
        BY <4>3
    <3>3. IsFiniteSet(T)
      BY <3>2, FS_Subset
    <3>4. Cardinality(days) <= Cardinality(T) /\ Cardinality(T) \in Nat
      BY <3>2, <3>3, FS_Subset, FS_CardinalityType
    <3>5. QED
      BY <1>1, <1>3, <3>4
  <2>2. PICK k \in 1..Cardinality(days) : k = Cardinality({c \in days : c < d}) + 1
    <3>1. Orders(Earlier, days) /\ Place(Earlier, days, d) = Cardinality({c \in days : c < d})
      BY <1>1, <2>1, DaysInOrder DEF Place
    <3>2. Place(Earlier, days, d) + 1 \in 1..Cardinality(days)
      BY <1>1, <2>1, <3>1, NthOf
    <3>3. QED
      BY <3>1, <3>2
  <2>3. Cardinality({c \in days : c < d}) = k - 1
    <3>1. Cardinality({c \in days : c < d}) \in Nat
      BY <1>1, FS_Subset, FS_CardinalityType
    <3>2. QED
      BY <2>2, <3>1
  <2>4. \A x \in days : Cardinality({c \in days : c < x}) = k - 1 => x = DayOf(days, k)
    BY <1>1, DayOfIs
  <2>5. d = DayOf(days, k)
    BY <2>1, <2>3, <2>4
  <2>6. k - 1 <= h
    BY <1>2, <1>3, <2>1, <2>3
  <2>7. QED
    BY <2>5, <2>6
<1>4. ASSUME NEW k \in 1..(h + 1)
      PROVE  DayOf(days, k) \in all /\ Cardinality({c \in all : c < DayOf(days, k)}) <= h
  <2>1. k \in 1..Cardinality(days)
    BY <1>1
  <2>2. DayOf(days, k) \in days /\ Cardinality({c \in days : c < DayOf(days, k)}) = k - 1
    BY <1>1, <2>1, DayOfIs
  <2>3. PICK d \in days : d = DayOf(days, k)
    BY <2>2
  <2>4. Cardinality({c \in all : c < d}) = k - 1 /\ d \in all
    BY <1>a, <1>2, <2>2, <2>3
  <2>5. QED
    BY <2>3, <2>4
<1>5. QED
  BY <1>3, <1>4 DEF WithFewBefore, FirstOnes

\* Whichever is touched first decides, whatever happens later: hit and stop are the days
\* that count, seenHit and seenStop what was seen of them, which may differ on the last.
LEMMA FirstTouch ==
  ASSUME NEW n \in Nat, NEW hit \in SUBSET (2..n), NEW stop \in SUBSET (2..n),
         NEW seenHit \in SUBSET (2..n), NEW seenStop \in SUBSET (2..n),
         \A i \in 2..n : i < n => (i \in hit <=> i \in seenHit) /\ (i \in stop <=> i \in seenStop),
         (hit = seenHit /\ stop = seenStop) \/ \E i \in hit \cup stop : i < n
  PROVE  (seenHit \cup seenStop # {} /\ Min(seenHit \cup seenStop) \in seenHit)
           <=> \E k \in hit : \A c \in 2..n : c < k => c \notin stop
<1> DEFINE seen == seenHit \cup seenStop
           first == Min(seen)
<1>1. CASE seen = {}
  BY <1>1
<1>2. CASE seen # {}
  <2>1. first \in seen /\ \A y \in seen : first <= y
    <3>1. seen \in SUBSET Nat
      OBVIOUS
    <3>2. QED
      BY <1>2, <3>1, LeastExists
  <2> HIDE DEF first
  <2>2. first \in 2..n
    BY <2>1
  <2>3. first < n \/ (hit = seenHit /\ stop = seenStop)
    BY <2>1, <2>2
  <2>4. (first \in hit <=> first \in seenHit) /\ (first \in stop <=> first \in seenStop)
    BY <2>2, <2>3
  <2>5. ASSUME NEW c \in 2..n, c < first
        PROVE  c \notin stop /\ c \notin hit
    BY <2>1, <2>2, <2>5
  <2>6. ASSUME first \in seenHit
        PROVE  \E k \in hit : \A c \in 2..n : c < k => c \notin stop
    BY <2>4, <2>5, <2>6
  <2>7. ASSUME NEW k \in hit, \A c \in 2..n : c < k => c \notin stop
        PROVE  first \in seenHit
    <3>1. CASE k <= first
      BY <2>1, <2>2, <2>4, <2>5, <3>1
    <3>2. CASE first < k
      BY <2>1, <2>2, <2>4, <2>7, <3>2
    <3>3. QED
      BY <2>2, <3>1, <3>2
  <2>8. QED
    BY <1>2, <2>6, <2>7 DEF first
<1>3. QED
  BY <1>1, <1>2

\* The first of a set of days, and the days after it.
LEMMA LaterDays ==
  ASSUME NEW days \in SUBSET Nat, IsFiniteSet(days), NEW h \in Nat \ {0},
         h < Cardinality(days),
         NEW window, window = {DayOf(days, k) : k \in 1..(h + 1)}
  PROVE  /\ Min(window) = DayOf(days, 1)
         /\ window \ {Min(window)} = {DayOf(days, k) : k \in 2..(h + 1)}
<1>1. Cardinality(days) \in Nat
  BY FS_CardinalityType
<1>2. \A k \in 1..(h + 1) : k \in 1..Cardinality(days)
  BY <1>1
<1>3. \A k, l \in 1..(h + 1) : k < l <=> DayOf(days, k) < DayOf(days, l)
  BY <1>2, DaysAscend
<1>4. \A k \in 1..(h + 1) : DayOf(days, k) \in Nat
  BY <1>2, DayOfIs
<1>5. \A k \in 2..(h + 1) : k \in 1..(h + 1) /\ 1 < k
  OBVIOUS
<1>6. 1 \in 1..(h + 1)
  OBVIOUS
<1>7. \A k \in 1..(h + 1) : k = 1 \/ k \in 2..(h + 1)
  OBVIOUS
<1>8. Min(window) = DayOf(days, 1)
  <2>1. window \in SUBSET Nat /\ window # {}
    BY <1>4, <1>6
  <2>2. Min(window) \in window /\ \A y \in window : Min(window) <= y
    BY <2>1, LeastExists
  <2>3. PICK k \in 1..(h + 1) : Min(window) = DayOf(days, k)
    BY <2>2
  <2>4. DayOf(days, k) <= DayOf(days, 1)
    BY <2>2, <2>3, <1>6
  <2>5. k = 1
    <3>1. ~ (1 < k)
      <4>1. SUFFICES ASSUME 1 < k
                     PROVE  FALSE
        OBVIOUS
      <4>2. DayOf(days, 1) < DayOf(days, k)
        BY <1>3, <1>6, <4>1
      <4>3. QED
        BY <1>4, <1>6, <2>4, <4>2
    <3>2. QED
      BY <3>1
  <2>6. QED
    BY <2>3, <2>5
<1>9. \A k \in 2..(h + 1) : DayOf(days, k) # DayOf(days, 1)
  <2>1. ASSUME NEW k \in 2..(h + 1)
        PROVE  DayOf(days, 1) < DayOf(days, k)
    BY <1>3, <1>5, <1>6
  <2>2. QED
    BY <2>1, <1>4, <1>5, <1>6
<1>10. QED
  BY <1>5, <1>7, <1>8, <1>9

\* How many they are, and which is the last.
LaterDaysAre(days, h, later) ==
  /\ Cardinality(later) = h
  /\ Max(later) = DayOf(days, h + 1)
  /\ later \ {Max(later)} = {DayOf(days, k) : k \in 2..h}

LEMMA LaterCount ==
  ASSUME NEW days \in SUBSET Nat, IsFiniteSet(days), NEW h \in Nat \ {0},
         h < Cardinality(days),
         NEW later, later = {DayOf(days, k) : k \in 2..(h + 1)}
  PROVE  LaterDaysAre(days, h, later)
<1>1. Cardinality(days) \in Nat
  BY FS_CardinalityType
<1>2. \A k \in 2..(h + 1) : k \in 1..Cardinality(days)
  BY <1>1
<1>3. \A k, l \in 2..(h + 1) : k < l <=> DayOf(days, k) < DayOf(days, l)
  BY <1>2, DaysAscend
<1>4. \A k \in 2..(h + 1) : DayOf(days, k) \in Nat
  BY <1>2, DayOfIs
<1>5. Cardinality(later) = h
  <2> DEFINE f == [k \in 1..h |-> DayOf(days, k + 1)]
  <2>1. \A k \in 1..h : k + 1 \in 2..(h + 1)
    OBVIOUS
  <2>2. \A k \in 2..(h + 1) : k - 1 \in 1..h /\ (k - 1) + 1 = k
    OBVIOUS
  <2>3. f \in Surjection(1..h, later)
    <3>1. f \in [1..h -> later]
      BY <2>1
    <3>2. ASSUME NEW d \in later
          PROVE  \E k \in 1..h : f[k] = d
      <4>1. PICK k \in 2..(h + 1) : d = DayOf(days, k)
        OBVIOUS
      <4>2. QED
        BY <2>2, <4>1
    <3>3. QED
      BY <3>1, <3>2 DEF Surjection
  <2>4. ASSUME NEW k \in 1..h, NEW l \in 1..h, f[k] = f[l]
        PROVE  k = l
    <3>1. DayOf(days, k + 1) = DayOf(days, l + 1)
      BY <2>4
    <3>2. ~(k + 1 < l + 1) /\ ~(l + 1 < k + 1)
      BY <1>3, <1>4, <2>1, <3>1
    <3>3. QED
      BY <3>2
  <2>5. f \in Bijection(1..h, later)
    BY <2>3, <2>4 DEF Surjection, Bijection, Injection, IsInjective
  <2>6. ExistsBijection(1..h, later)
    BY <2>5 DEF ExistsBijection
  <2>7. QED
    BY <2>6, FS_CountingElements
<1>6. h + 1 \in 2..(h + 1) /\ \A k \in 2..(h + 1) : k = h + 1 \/ (k \in 2..h /\ k < h + 1)
  OBVIOUS
<1>7. \A k \in 2..h : k \in 2..(h + 1) /\ k < h + 1
  OBVIOUS
<1>8. \A k \in 2..h : DayOf(days, k) < DayOf(days, h + 1)
  BY <1>3, <1>6, <1>7
<1>9. Max(later) = DayOf(days, h + 1)
  <2>1. \A d \in later : d \in Nat /\ d <= DayOf(days, h + 1)
    <3>1. ASSUME NEW k \in 2..(h + 1)
          PROVE  DayOf(days, k) <= DayOf(days, h + 1)
      BY <1>4, <1>6, <1>8
    <3>2. QED
      BY <1>4, <3>1
  <2>2. DayOf(days, h + 1) \in later
    BY <1>6
  <2>3. QED
    BY <2>1, <2>2 DEF Max
<1>10. \A k \in 2..h : DayOf(days, k) # DayOf(days, h + 1)
  BY <1>4, <1>6, <1>7, <1>8
<1>11. QED
  BY <1>5, <1>6, <1>7, <1>9, <1>10 DEF LaterDaysAre

\* The sessions a print is labelled from.
Sessions(f) == {d \in DOMAIN path[TickerOf[f]] : Day(ObservedAt[f]) <= d /\ d <= Today}

LEMMA SessionsType ==
  ASSUME ClosesType, NEW f \in Flows
  PROVE  /\ Sessions(f) \in SUBSET Nat /\ IsFiniteSet(Sessions(f))
         /\ Cardinality(Sessions(f)) \in Nat
         /\ DOMAIN path[TickerOf[f]] \in SUBSET Nat /\ IsFiniteSet(DOMAIN path[TickerOf[f]])
         /\ Today \in Nat /\ 2 * Today <= now
<1>1. TickerOf[f] \in Tickers /\ path[TickerOf[f]] \in Paths[TickerOf[f]]
  BY FlywheelAssumption DEF ClosesType
<1>2. /\ DOMAIN path[TickerOf[f]] \in SUBSET Nat
      /\ IsFiniteSet(DOMAIN path[TickerOf[f]])
  BY <1>1, FlywheelAssumption
<1>3. Sessions(f) \subseteq DOMAIN path[TickerOf[f]]
  BY DEF Sessions
<1>4. IsFiniteSet(Sessions(f)) /\ Cardinality(Sessions(f)) \in Nat
  BY <1>2, <1>3, FS_Subset, FS_CardinalityType
<1>5. Today \in Nat /\ 2 * Today <= now
  BY DEF ClosesType, Today, Day
<1>6. QED
  BY <1>2, <1>3, <1>4, <1>5

\* Its closes: those of the sessions, but the price so far for one that is open.
Seen(f, soFar, d) == IF d = Today /\ Open(now) THEN soFar ELSE path[TickerOf[f]][d]

LEMMA ForwardIs ==
  ASSUME ClosesType, NEW f \in Flows, NEW soFar
  PROVE  /\ Len(Forward(f, soFar)) = Cardinality(Sessions(f))
         /\ \A i \in 1..Cardinality(Sessions(f)) :
              Forward(f, soFar)[i] = Seen(f, soFar, DayOf(Sessions(f), i))
<1> DEFINE days == Sessions(f)
           n == Cardinality(days)
           Nth_(i) == CHOOSE d \in days : Cardinality({c \in days : c < d}) = i - 1
<1>1. days \in SUBSET Nat /\ IsFiniteSet(days) /\ n \in Nat
  BY SessionsType
<1>2. Forward(f, soFar) = [i \in 1..n |-> Seen(f, soFar, Nth_(i))]
  BY DEF Forward, Sessions, Seen
<1>3. ASSUME NEW i \in 1..n
      PROVE  Nth_(i) = DayOf(days, i)
  <2> HIDE DEF days
  <2>0. DayOf(days, i) \in days /\ Cardinality({c \in days : c < DayOf(days, i)}) = i - 1
    BY <1>1, DayOfIs
  <2>1. \E d \in days : Cardinality({c \in days : c < d}) = i - 1
    BY <2>0
  <2>2. Nth_(i) \in days /\ Cardinality({c \in days : c < Nth_(i)}) = i - 1
    BY <2>1
  <2>3. \A d \in days : Cardinality({c \in days : c < d}) = i - 1 => d = DayOf(days, i)
    BY <1>1, DayOfIs
  <2>4. QED
    BY <2>2, <2>3
<1> HIDE DEF days, Nth_
<1>4. Len(Forward(f, soFar)) = n
  BY <1>1, <1>2
<1>5. \A i \in 1..n : Forward(f, soFar)[i] = Seen(f, soFar, DayOf(days, i))
  BY <1>2, <1>3
<1>6. QED
  BY <1>4, <1>5 DEF days

\* The window of a label, when there are enough closes.
LEMMA WindowIs ==
  ASSUME ClosesType, NEW f \in Flows, Horizon < Cardinality(Sessions(f))
  PROVE  Window(f) = {DayOf(Sessions(f), k) : k \in 1..(Horizon + 1)}
<1> DEFINE all == {d \in DOMAIN path[TickerOf[f]] : d >= Day(ObservedAt[f])}
<1>0. Day(ObservedAt[f]) \in Nat
  BY FlywheelAssumption DEF Day
<1>1. all \in SUBSET Nat /\ IsFiniteSet(all) /\ Today \in Nat
  BY SessionsType, FS_Subset
<1>2. Sessions(f) = {d \in all : d <= Today}
  <2>1. \A d \in DOMAIN path[TickerOf[f]] : d \in Nat
    BY SessionsType
  <2>2. QED
    BY <1>0, <2>1 DEF Sessions
<1>3. Window(f) = {d \in all : Cardinality({c \in all : c < d}) <= Horizon}
  BY DEF Window
<1> HIDE DEF all
<1>4. PICK days : days = Sessions(f)
  OBVIOUS
<1>5. PICK h \in Nat : h = Horizon
  BY FlywheelAssumption
<1>6. PICK today \in Nat : today = Today
  BY <1>1
<1>7. days = Until(all, today) /\ h < Cardinality(days)
  BY <1>2, <1>4, <1>5, <1>6 DEF Until
<1>8. WithFewBefore(all, h) = FirstOnes(days, h + 1)
  BY <1>1, <1>7, FirstDays
<1>9. QED
  BY <1>3, <1>4, <1>5, <1>8 DEF WithFewBefore, FirstOnes

\* Of the sessions that a label is about, only the last can be open, and the row says so.
LEMMA SeenIsTrue ==
  ASSUME ClosesType, NEW f \in Flows, NEW soFar, Horizon < Cardinality(Sessions(f)),
         NEW k \in 1..(Horizon + 1),
         k <= Horizon \/ ~OutcomeOf(f, Forward(f, soFar)).open
  PROVE  Seen(f, soFar, DayOf(Sessions(f), k)) = path[TickerOf[f]][DayOf(Sessions(f), k)]
<1> DEFINE days == Sessions(f)
           n == Cardinality(days)
<1>1. days \in SUBSET Nat /\ IsFiniteSet(days) /\ n \in Nat /\ Horizon \in Nat
  BY SessionsType, FlywheelAssumption
<1>2. /\ OutcomeOf(f, Forward(f, soFar)).open
           <=> (Open(now) /\ Today \in DOMAIN path[TickerOf[f]] /\ n = Horizon + 1)
  <2>1. Len(Forward(f, soFar)) = n
    BY ForwardIs
  <2>2. ~(Len(Forward(f, soFar)) < Horizon + 1)
    BY <1>1, <2>1
  <2>3. QED
    BY <2>1, <2>2 DEF OutcomeOf
<1>3. \A d \in days : d \in DOMAIN path[TickerOf[f]] /\ d <= Today /\ d \in Nat
  BY <1>1 DEF Sessions
<1> HIDE DEF days
<1>4. k \in 1..n /\ k \in Nat
  BY <1>1 DEF days
<1>5. DayOf(days, k) \in days
  BY <1>1, <1>4, DayOfIs
<1>6. CASE k < n
  <2>1. n \in 1..n
    BY <1>4, <1>6, <1>1
  <2>2. DayOf(days, n) \in days /\ DayOf(days, k) < DayOf(days, n)
    BY <1>1, <1>4, <1>6, <2>1, DaysAscend, DayOfIs
  <2>3. DayOf(days, k) # Today
    <3>1. DayOf(days, n) <= Today /\ DayOf(days, n) \in Nat /\ DayOf(days, k) \in Nat
      BY <1>3, <1>5, <2>2
    <3>2. QED
      BY <2>2, <3>1
  <2>4. QED
    BY <2>3 DEF Seen, days
<1>7. CASE ~(k < n)
  <2>1. n = Horizon + 1 /\ k = Horizon + 1
    BY <1>1, <1>4, <1>7 DEF days
  <2>2. ~(Open(now) /\ Today \in DOMAIN path[TickerOf[f]])
    BY <1>1, <1>2, <2>1
  <2>3. QED
    BY <1>3, <1>5, <2>2 DEF Seen, days
<1>8. QED
  BY <1>6, <1>7

\* A row made of the closes of a print holds.
LEMMA RowIsTrue ==
  ASSUME ClosesType, NEW f \in Flows, NEW soFar, Horizon < Cardinality(Sessions(f))
  PROVE  Holds(f, OutcomeOf(f, Forward(f, soFar)))
<1>1. PICK h \in Nat \ {0} : h = Horizon
  BY FlywheelAssumption
<1>2. PICK days \in SUBSET Nat : days = Sessions(f)
  BY SessionsType
<1>3. IsFiniteSet(days) /\ Cardinality(days) \in Nat /\ h < Cardinality(days)
  BY <1>1, <1>2, SessionsType
<1> DEFINE closes == path[TickerOf[f]]
           fwd == Forward(f, soFar)
           row == OutcomeOf(f, fwd)
           day(k) == DayOf(days, k)
           w == SubSeq(fwd, 1, h + 1)
           entry == closes[day(1)]
           later == {day(k) : k \in 2..(h + 1)}
           hit == {k \in 2..(h + 1) : TargetHit(closes[day(k)], entry)}
           stop == {k \in 2..(h + 1) : StopHit(closes[day(k)], entry)}
           seenHit == {k \in 2..(h + 1) : TargetHit(w[k], entry)}
           seenStop == {k \in 2..(h + 1) : StopHit(w[k], entry)}
<1>4. /\ Min(Window(f)) = day(1) /\ Window(f) \ {Min(Window(f))} = later
      /\ Cardinality(later) = h /\ Max(later) = day(h + 1)
      /\ later \ {Max(later)} = {day(k) : k \in 2..h}
  <2>1. Window(f) = {DayOf(days, k) : k \in 1..(h + 1)}
    BY <1>1, <1>2, <1>3, WindowIs
  <2>2. Min(Window(f)) = day(1) /\ Window(f) \ {Min(Window(f))} = later
    BY <1>3, <2>1, LaterDays
  <2>3. LaterDaysAre(days, h, later)
    BY <1>3, LaterCount
  <2>4. QED
    BY <2>2, <2>3 DEF LaterDaysAre
<1>5. Len(w) = h + 1 /\ \A k \in 1..(h + 1) : w[k] = Seen(f, soFar, day(k))
  <2>1. Len(fwd) = Cardinality(days)
        /\ \A k \in 1..Cardinality(days) : fwd[k] = Seen(f, soFar, day(k))
    BY <1>2, ForwardIs
  <2>2. \A k \in 1..(h + 1) : k \in 1..Cardinality(days)
    BY <1>3
  <2> HIDE DEF fwd, day
  <2>3. Len(w) = h + 1 /\ \A k \in 1..(h + 1) : w[k] = fwd[k]
    OBVIOUS
  <2>4. QED
    BY <2>1, <2>2, <2>3
<1>6. \A k \in 1..(h + 1) : k <= h \/ ~row.open => w[k] = closes[day(k)]
  BY <1>1, <1>2, <1>3, <1>5, SeenIsTrue
<1>7. \A k, l \in 1..(h + 1) : k < l <=> day(k) < day(l)
  <2>1. \A k \in 1..(h + 1) : k \in 1..Cardinality(days)
    BY <1>3
  <2>2. QED
    BY <1>3, <2>1, DaysAscend
<1>8. w[1] = entry
  <2>1. 1 \in 1..(h + 1) /\ 1 <= h
    OBVIOUS
  <2>2. QED
    BY <1>6, <2>1
<1>9. row.label = 1 <=> seenHit \cup seenStop # {} /\ Min(seenHit \cup seenStop) \in seenHit
  <2>1. ~(Len(fwd) < h + 1)
    BY <1>2, <1>3, ForwardIs
  <2>2. row.label = TripleBarrierLabel(w)
    BY <1>1, <2>1 DEF OutcomeOf
  <2> HIDE DEF w, entry, row
  <2>3. {i \in 2..Len(w) : TargetHit(w[i], w[1]) \/ StopHit(w[i], w[1])} = seenHit \cup seenStop
    BY <1>5, <1>8
  <2>4. TripleBarrierLabel(w) = IF seenHit \cup seenStop # {}
                                   /\ TargetHit(w[Min(seenHit \cup seenStop)], entry) THEN 1 ELSE 0
    BY <1>8, <2>3 DEF TripleBarrierLabel
  <2>5. seenHit \cup seenStop # {} => Min(seenHit \cup seenStop) \in 2..(h + 1)
    <3>1. seenHit \cup seenStop \subseteq 2..(h + 1)
      OBVIOUS
    <3>2. seenHit \cup seenStop \in SUBSET Nat
      BY <3>1
    <3> HIDE DEF seenHit, seenStop
    <3>3. ASSUME seenHit \cup seenStop # {}
          PROVE  Min(seenHit \cup seenStop) \in seenHit \cup seenStop
      BY <3>2, <3>3, LeastExists
    <3>4. QED
      BY <3>1, <3>3
  <2>6. QED
    BY <2>2, <2>4, <2>5
<1>10. (\E d \in later : TargetHit(closes[d], entry)
                          /\ \A c \in later : c < d => ~StopHit(closes[c], entry))
         <=> \E k \in hit : \A c \in 2..(h + 1) : c < k => c \notin stop
  <2>1. \A k \in 2..(h + 1) : k \in 1..(h + 1)
    OBVIOUS
  <2>2. \A k, l \in 2..(h + 1) : k < l <=> day(k) < day(l)
    BY <1>7, <2>1
  <2> HIDE DEF day, entry, closes
  <2>3. QED
    BY <2>2
<1>11. \A d \in later : 2 * d <= now
  <2>1. ASSUME NEW k \in 2..(h + 1)
        PROVE  2 * day(k) <= now
    <3>1. k \in 1..Cardinality(days)
      BY <1>3
    <3>2. day(k) \in days
      BY <1>3, <3>1, DayOfIs
    <3>3. day(k) <= Today /\ day(k) \in Nat
      BY <1>2, <3>2 DEF Sessions
    <3> HIDE DEF day
    <3>4. QED
      BY <3>3, SessionsType DEF ClosesType
  <2>2. QED
    BY <2>1
<1>12. ASSUME (IF row.open THEN later \ {Max(later)} ELSE later) = later
              \/ \E d \in IF row.open THEN later \ {Max(later)} ELSE later :
                   TargetHit(closes[d], entry) \/ StopHit(closes[d], entry)
       PROVE  (hit = seenHit /\ stop = seenStop) \/ \E i \in hit \cup stop : i < h + 1
  <2>1. \A k \in 2..(h + 1) : k \in 1..(h + 1)
    OBVIOUS
  <2> HIDE DEF row, w, day, entry, closes
  <2>2. CASE ~row.open
    BY <1>6, <2>1, <2>2
  <2>3. CASE row.open
    <3>1. Max(later) \in later
      <4>1. h + 1 \in 2..(h + 1)
        OBVIOUS
      <4>2. QED
        BY <1>4, <4>1
    <3>2. PICK d \in later \ {Max(later)} : TargetHit(closes[d], entry) \/ StopHit(closes[d], entry)
      BY <1>12, <2>3, <3>1
    <3>3. PICK k \in 2..h : d = day(k)
      BY <1>4, <3>2
    <3>4. k \in hit \cup stop /\ k < h + 1
      BY <3>2, <3>3
    <3>5. QED
      BY <3>4
  <2>4. QED
    BY <2>2, <2>3
<1>13. \A i \in 2..(h + 1) : i < h + 1 => (i \in hit <=> i \in seenHit) /\ (i \in stop <=> i \in seenStop)
  <2>1. \A k \in 2..(h + 1) : k < h + 1 => k \in 1..(h + 1) /\ k <= h
    OBVIOUS
  <2> HIDE DEF row, w, day, entry, closes
  <2>2. QED
    BY <1>6, <2>1
<1>14. ASSUME (IF row.open THEN later \ {Max(later)} ELSE later) = later
              \/ \E d \in IF row.open THEN later \ {Max(later)} ELSE later :
                   TargetHit(closes[d], entry) \/ StopHit(closes[d], entry)
       PROVE  row.label = 1 <=> \E k \in hit : \A c \in 2..(h + 1) : c < k => c \notin stop
  <2>1. (hit = seenHit /\ stop = seenStop) \/ \E i \in hit \cup stop : i < h + 1
    BY <1>12, <1>14
  <2>2. /\ hit \in SUBSET (2..(h + 1)) /\ stop \in SUBSET (2..(h + 1))
        /\ seenHit \in SUBSET (2..(h + 1)) /\ seenStop \in SUBSET (2..(h + 1))
        /\ h + 1 \in Nat
    OBVIOUS
  <2> HIDE DEF hit, stop, seenHit, seenStop, row
  <2>3. (seenHit \cup seenStop # {} /\ Min(seenHit \cup seenStop) \in seenHit)
           <=> \E k \in hit : \A c \in 2..(h + 1) : c < k => c \notin stop
    BY <1>13, <2>1, <2>2, FirstTouch
  <2>4. QED
    BY <1>9, <2>3
<1> HIDE DEF hit, stop, seenHit, seenStop, row, later, day
<1>15. QED
  BY <1>1, <1>4, <1>10, <1>11, <1>14 DEF Holds, row

\* A row that holds still does at a later time.
LEMMA HoldsLater ==
  ASSUME ClosesType, path' = path, now' \in Nat, now <= now',
         NEW f \in Flows, NEW row, Holds(f, row)
  PROVE  Holds(f, row)'
<1>1. Window(f)' = Window(f) /\ path'[TickerOf[f]] = path[TickerOf[f]]
  BY DEF Window, Day
<1>2. \A d \in Window(f) : d \in Nat
  BY SessionsType DEF Window
<1>3. \A d \in Window(f) \ {Min(Window(f))} : 2 * d <= now'
  <2>1. \A d \in Window(f) \ {Min(Window(f))} : 2 * d <= now
    BY DEF Holds
  <2>2. QED
    BY <1>2, <2>1 DEF ClosesType
<1>4. QED
  BY <1>1, <1>3 DEF Holds

\* A step that writes no row: the clock may pass.
LEMMA QuietLabels ==
  ASSUME LabelsInv, path' = path, now' \in Nat, now <= now', outcomes' = outcomes,
         \A f \in Flows : added'[f] = NoOutcome \/ added'[f] = added[f]
  PROVE  LabelsInv'
<1>1. ClosesType'
  BY DEF LabelsInv, ClosesType
<1>2. ASSUME NEW f \in Flows, NEW row, Holds(f, row)
      PROVE  Holds(f, row)'
  BY <1>2, HoldsLater DEF LabelsInv
<1>3. RowsHold'
  <2>1. SUFFICES ASSUME NEW f \in Flows, added'[f] # NoOutcome
                 PROVE  Holds(f, added[f])' 
    BY DEF RowsHold
  <2>2. PICK row : row = added[f]
    OBVIOUS
  <2>3. added'[f] = row /\ Holds(f, row)
    BY <2>1, <2>2 DEF LabelsInv, RowsHold
  <2>4. Holds(f, row)'
    BY <1>2, <2>3
  <2>5. QED
    BY <2>3, <2>4
<1>4. OnlyOpenSessionsMislead'
  <2>1. SUFFICES ASSUME NEW f \in Labelled'
                 PROVE  Holds(f, outcomes[f])'
    BY DEF OnlyOpenSessionsMislead
  <2>2. f \in Labelled /\ f \in Flows
    BY <2>1 DEF Labelled
  <2>3. PICK row : row = outcomes[f]
    OBVIOUS
  <2>4. Holds(f, row)
    BY <2>2, <2>3 DEF LabelsInv, OnlyOpenSessionsMislead
  <2>5. Holds(f, row)'
    BY <1>2, <2>2, <2>4
  <2>6. QED
    BY <2>3, <2>5
<1>5. QED
  BY <1>1, <1>3, <1>4 DEF LabelsInv

\* In the beginning there is no row.
LEMMA InitLabels == Init => LabelsInv
BY FlywheelAssumption DEF Init, NoRows, LabelsInv, ClosesType, RowsHold, OnlyOpenSessionsMislead, Labelled

\* Fetch() adds rows that hold.
LEMMA FetchLabels == ASSUME LabelsInv, NEW t \in Tickers, Fetch(t) PROVE LabelsInv'
<1>1. path' = path /\ now' = now /\ outcomes' = outcomes /\ now \in Nat
  BY DEF Fetch, LabelsInv, ClosesType
<1>2. PICK soFar \in Prices :
        added' = [f \in Flows |-> IF f \in left /\ TickerOf[f] = t
                                  THEN OutcomeOf(f, Forward(f, soFar)) ELSE added[f]]
  BY DEF Fetch
<1>3. ASSUME NEW f \in Flows, NEW row, Holds(f, row)
      PROVE  Holds(f, row)'
  BY <1>1, <1>3, HoldsLater DEF LabelsInv
<1>4. RowsHold'
  <2>1. SUFFICES ASSUME NEW f \in Flows, added'[f] # NoOutcome
                 PROVE  Holds(f, added[f])'
    BY DEF RowsHold
  <2>2. PICK row : row = added'[f]
    OBVIOUS
  <2>3. CASE f \in left /\ TickerOf[f] = t
    <3>1. row = OutcomeOf(f, Forward(f, soFar)) /\ row # NoOutcome
      BY <1>2, <2>1, <2>2, <2>3
    <3>2. Horizon < Cardinality(Sessions(f))
      BY <3>1, ForwardIs, SessionsType, FlywheelAssumption DEF OutcomeOf, LabelsInv
    <3>3. Holds(f, row)
      BY <3>1, <3>2, RowIsTrue DEF LabelsInv
    <3>4. QED
      BY <1>3, <2>2, <3>3
  <2>4. CASE ~(f \in left /\ TickerOf[f] = t)
    <3>1. row = added[f] /\ row # NoOutcome
      BY <1>2, <2>1, <2>2, <2>4
    <3>2. Holds(f, row)
      BY <3>1 DEF LabelsInv, RowsHold
    <3>3. QED
      BY <1>3, <2>2, <3>2
  <2>5. QED
    BY <2>3, <2>4
<1>5. OnlyOpenSessionsMislead'
  <2>1. SUFFICES ASSUME NEW f \in Labelled'
                 PROVE  Holds(f, outcomes[f])'
    BY DEF OnlyOpenSessionsMislead
  <2>2. f \in Labelled /\ f \in Flows
    BY <1>1, <2>1 DEF Labelled
  <2>3. PICK row : row = outcomes[f]
    OBVIOUS
  <2>4. Holds(f, row)'
    BY <1>3, <2>2, <2>3 DEF LabelsInv, OnlyOpenSessionsMislead
  <2>5. QED
    BY <1>1, <2>3, <2>4
<1>6. QED
  BY <1>1, <1>4, <1>5 DEF LabelsInv, ClosesType

\* Commit() moves them to the table.
LEMMA CommitLabels == ASSUME LabelsInv, Commit PROVE LabelsInv'
<1>1. path' = path /\ now' = now /\ now \in Nat /\ added' = NoRows
      /\ outcomes' = [f \in Flows |-> IF added[f] # NoOutcome THEN added[f] ELSE outcomes[f]]
  BY DEF Commit, LabelsInv, ClosesType
<1>2. RowsHold'
  BY <1>1 DEF RowsHold, NoRows
<1>3. OnlyOpenSessionsMislead'
  <2>1. SUFFICES ASSUME NEW f \in Labelled'
                 PROVE  Holds(f, outcomes[f])'
    BY DEF OnlyOpenSessionsMislead
  <2>2. f \in Flows /\ outcomes'[f] # NoOutcome
    BY <2>1 DEF Labelled
  <2>3. PICK row : row = outcomes'[f]
    OBVIOUS
  <2>4. Holds(f, row)
    BY <1>1, <2>2, <2>3 DEF LabelsInv, RowsHold, OnlyOpenSessionsMislead, Labelled
  <2>5. Holds(f, row)'
    BY <1>1, <2>2, <2>4, HoldsLater DEF LabelsInv
  <2>6. QED
    BY <2>3, <2>5
<1>4. QED
  BY <1>1, <1>2, <1>3 DEF LabelsInv, ClosesType

\* Nothing else writes rows, and closes do not change.
LEMMA NextLabels == LabelsInv /\ [Next]_vars => LabelsInv'
<1> SUFFICES ASSUME LabelsInv, [Next]_vars
             PROVE  LabelsInv'
  OBVIOUS
<1>0. now \in Nat
  BY DEF LabelsInv, ClosesType
<1>1. CASE Tick
  BY <1>0, <1>1, QuietLabels DEF Tick, job
<1>2. CASE StartRun
  BY <1>0, <1>2, QuietLabels DEF StartRun
<1>3. ASSUME NEW t \in Tickers, Fetch(t)
      PROVE  LabelsInv'
  BY <1>3, FetchLabels
<1>4. CASE Commit
  BY <1>4, CommitLabels
<1>5. CASE LoadFrame
  BY <1>0, <1>5, QuietLabels DEF LoadFrame
<1>6. ASSUME NEW file \in Artifacts, BeginSave(file) \/ EndSave(file)
      PROVE  LabelsInv'
  BY <1>0, <1>6, QuietLabels DEF BeginSave, EndSave, job
<1>7. CASE Break
  <2>1. /\ path' = path /\ now' = now /\ outcomes' = outcomes
        /\ \A f \in Flows : added'[f] = NoOutcome
    BY <1>7 DEF Break, NoRows
  <2>2. QED
    BY <1>0, <2>1, QuietLabels
<1>8. ASSUME NEW file \in Artifacts, CheckFile(file)
      PROVE  LabelsInv'
  BY <1>0, <1>8, QuietLabels DEF CheckFile, job
<1>9. CASE Restart
  BY <1>0, <1>9, QuietLabels DEF Restart, job
<1>10. CASE UNCHANGED vars
  BY <1>0, <1>10, QuietLabels DEF vars, job
<1>11. QED
  BY <1>1, <1>2, <1>3, <1>4, <1>5, <1>6, <1>7, <1>8, <1>9, <1>10 DEF Next, Work

\* backfill(): a label is written once the last session of its horizon is there, and it says
\* whether the target was hit before the stop; only the session that is still open can be
\* misjudged.  For any closes, prints, prices and horizon, and however the job fails.
THEOREM LabelsAreTrue == Spec => []OnlyOpenSessionsMislead
<1>1. Init => LabelsInv
  BY InitLabels
<1>2. LabelsInv /\ [Next]_vars => LabelsInv'
  BY NextLabels
<1>3. LabelsInv => OnlyOpenSessionsMislead
  BY DEF LabelsInv
<1>4. QED
  BY <1>1, <1>2, <1>3, PTL DEF Spec

-----------------------------------------------------------------------------
(* Tape: the shortlists. *)

\* The positions of a list whose key is not that of one before.
Firsts(keys, m) == {k \in 1..m : \A j \in 1..(k - 1) : keys[j] # keys[k]}

LEMMA FirstsType ==
  ASSUME NEW m \in Nat, NEW keys
  PROVE  /\ Firsts(keys, m) \in SUBSET Nat
         /\ IsFiniteSet(Firsts(keys, m))
         /\ Cardinality(Firsts(keys, m)) \in Nat
<1>1. Firsts(keys, m) \in SUBSET (1..m) /\ IsFiniteSet(1..m)
  BY FS_Interval DEF Firsts
<1>2. QED
  BY <1>1, FS_Subset, FS_CardinalityType

\* Every key of the list is at one of them, no later than at any other position.
LEMMA FirstOccurrence ==
  ASSUME NEW m \in Nat, NEW keys, NEW k \in 1..m
  PROVE  \E q \in Firsts(keys, m) : q <= k /\ keys[q] = keys[k]
<1> DEFINE S == {q \in 1..m : keys[q] = keys[k]}
           first == Min(S)
<1>1. S \in SUBSET Nat /\ k \in S
  OBVIOUS
<1>2. first \in S /\ \A y \in S : first <= y
  BY <1>1, LeastExists
<1> HIDE DEF first
<1>3. first \in 1..m /\ keys[first] = keys[k] /\ first <= k
  BY <1>1, <1>2
<1>4. ASSUME NEW j \in 1..(first - 1)
      PROVE  keys[j] # keys[first]
  <2>1. j \in 1..m /\ ~(first <= j)
    BY <1>3
  <2>2. QED
    BY <1>2, <1>3, <2>1
<1>5. QED
  BY <1>3, <1>4 DEF Firsts

\* Keys of different positions differ.
LEMMA FirstsDiffer ==
  ASSUME NEW m \in Nat, NEW keys, NEW j \in Firsts(keys, m), NEW k \in Firsts(keys, m), j # k
  PROVE  keys[j] # keys[k]
<1>1. CASE j < k
  <2>1. j \in 1..(k - 1)
    BY <1>1 DEF Firsts
  <2>2. QED
    BY <2>1 DEF Firsts
<1>2. CASE k < j
  <2>1. k \in 1..(j - 1)
    BY <1>2 DEF Firsts
  <2>2. QED
    BY <2>1 DEF Firsts
<1>3. QED
  BY <1>1, <1>2 DEF Firsts

\* Each member of a set of days is the k-th for one k.
LEMMA DayOfFinds ==
  ASSUME NEW days \in SUBSET Nat, IsFiniteSet(days), NEW d \in days
  PROVE  \E k \in 1..Cardinality(days) : DayOf(days, k) = d
<1>1. Orders(Earlier, days)
  BY DaysInOrder
<1>2. /\ Place(Earlier, days, d) + 1 \in 1..Cardinality(days)
      /\ Nth(Earlier, days, Place(Earlier, days, d) + 1) = d
  BY <1>1, NthOf
<1>3. QED
  BY <1>2 DEF DayOf

\* The place of a day: with i - 1 before it, it is the i-th.
LEMMA DayOfPlace ==
  ASSUME NEW days \in SUBSET Nat, IsFiniteSet(days), NEW d \in days, NEW i \in Nat,
         Cardinality({c \in days : c < d}) = i - 1
  PROVE  i \in 1..Cardinality(days) /\ DayOf(days, i) = d
<1>1. Orders(Earlier, days) /\ Place(Earlier, days, d) = i - 1
  BY DaysInOrder DEF Place
<1>2. /\ Place(Earlier, days, d) + 1 \in 1..Cardinality(days)
      /\ Nth(Earlier, days, Place(Earlier, days, d) + 1) = d
  BY <1>1, NthOf
<1>3. QED
  BY <1>1, <1>2 DEF DayOf

IsAt(days, k, d) == d \in days /\ Cardinality({c \in days : c < d}) = k - 1

LEMMA DayOfIsAt ==
  ASSUME NEW days \in SUBSET Nat, IsFiniteSet(days), NEW k \in 1..Cardinality(days)
  PROVE  IsAt(days, k, DayOf(days, k))
BY DayOfIs DEF IsAt

\* An enumeration of positions, as the modules write it.
Enumerated(days, list) ==
  [i \in 1..Cardinality(days) |->
     list[CHOOSE k \in days : Cardinality({j \in days : j < k}) = i - 1]]

LEMMA EnumerationIs ==
  ASSUME NEW days \in SUBSET Nat, IsFiniteSet(days), NEW list
  PROVE  Enumerated(days, list) = [i \in 1..Cardinality(days) |-> list[DayOf(days, i)]]
<1> DEFINE x(i) == CHOOSE k \in days : Cardinality({j \in days : j < k}) = i - 1
<1>1. ASSUME NEW i \in 1..Cardinality(days)
      PROVE  x(i) = DayOf(days, i)
  <2>0. DayOf(days, i) \in days /\ Cardinality({c \in days : c < DayOf(days, i)}) = i - 1
    BY DayOfIs
  <2>1. \E d \in days : Cardinality({c \in days : c < d}) = i - 1
    BY <2>0
  <2>2. x(i) \in days /\ Cardinality({c \in days : c < x(i)}) = i - 1
    BY <2>1
  <2>3. \A d \in days : Cardinality({c \in days : c < d}) = i - 1 => d = DayOf(days, i)
    BY DayOfIs
  <2>4. QED
    BY <2>2, <2>3
<1>2. Enumerated(days, list) = [i \in 1..Cardinality(days) |-> list[x(i)]]
  BY DEF Enumerated
<1> HIDE DEF x
<1>3. QED
  BY <1>1, <1>2

\* First occurrences of first occurrences: with the first of every contract picked, and n
\* of these kept, the first of every ticker among them are those of the whole list.
Finer(keys, tickers, m) == \A j, k \in 1..m : keys[j] = keys[k] => tickers[j] = tickers[k]
AreKept(kept, tickers, days, n) == \A k \in 1..n : kept[k] = tickers[DayOf(days, k)]

LEMMA FirstsNested ==
  ASSUME NEW m \in Nat, NEW keys, NEW tickers, Finer(keys, tickers, m),
         NEW n \in Nat, n <= Cardinality(Firsts(keys, m)),
         NEW kept, AreKept(kept, tickers, Firsts(keys, m), n),
         NEW i, i \in 1..Cardinality(Firsts(kept, n))
  PROVE  DayOf(Firsts(keys, m), DayOf(Firsts(kept, n), i)) = DayOf(Firsts(tickers, m), i)
<1>0. /\ \A j, k \in 1..m : keys[j] = keys[k] => tickers[j] = tickers[k]
      /\ \A k \in 1..n : kept[k] = tickers[DayOf(Firsts(keys, m), k)]
  BY DEF Finer, AreKept
<1>1. PICK F, G, H : F = Firsts(keys, m) /\ G = Firsts(kept, n) /\ H = Firsts(tickers, m)
  OBVIOUS
<1>2. /\ F \in SUBSET Nat /\ IsFiniteSet(F) /\ Cardinality(F) \in Nat
      /\ G \in SUBSET Nat /\ IsFiniteSet(G) /\ Cardinality(G) \in Nat
      /\ H \in SUBSET Nat /\ IsFiniteSet(H) /\ Cardinality(H) \in Nat
  BY <1>1, FirstsType
<1>3. F \subseteq 1..m /\ G \subseteq 1..n /\ H \subseteq 1..m /\ 1..n \subseteq 1..Cardinality(F)
  <2>1. F \subseteq 1..m /\ G \subseteq 1..n /\ H \subseteq 1..m
    BY <1>1 DEF Firsts
  <2>2. n <= Cardinality(F)
    BY <1>1
  <2>3. QED
    BY <1>2, <2>1, <2>2
<1>4. \A k \in 1..n : DayOf(F, k) \in F /\ kept[k] = tickers[DayOf(F, k)]
  BY <1>0, <1>1, <1>2, <1>3, DayOfIs
<1>5. \A k, l \in 1..n : k < l <=> DayOf(F, k) < DayOf(F, l)
  BY <1>2, <1>3, DaysAscend
<1>6. ASSUME NEW c \in H
      PROVE  c \in F
  <2>1. c \in 1..m /\ \A j \in 1..(c - 1) : tickers[j] # tickers[c] /\ j \in 1..m
    BY <1>1 DEF Firsts
  <2>2. \A j \in 1..(c - 1) : keys[j] # keys[c]
    BY <1>0, <2>1
  <2>3. QED
    BY <1>1, <2>1, <2>2 DEF Firsts
<1>7. ASSUME NEW k \in G
      PROVE  DayOf(F, k) \in H
  <2>1. k \in 1..n /\ \A j \in 1..(k - 1) : kept[j] # kept[k]
    BY <1>1 DEF Firsts
  <2>2. PICK x \in F : x = DayOf(F, k)
    BY <1>4, <2>1
  <2>3. ASSUME NEW j \in 1..(x - 1), tickers[j] = tickers[x]
        PROVE  FALSE
    <3>1. j \in 1..m /\ j < x /\ x \in 1..m
      BY <1>3
    <3>2. PICK q \in F : q <= j /\ keys[q] = keys[j]
      BY <1>1, <3>1, FirstOccurrence
    <3>3. q \in 1..m /\ tickers[q] = tickers[x] /\ q < x
      BY <1>0, <1>3, <2>3, <3>1, <3>2
    <3>4. PICK l \in 1..Cardinality(F) : DayOf(F, l) = q
      BY <1>2, DayOfFinds
    <3>5. l < k
      <4>1. k \in 1..Cardinality(F)
        BY <1>3, <2>1
      <4>2. QED
        BY <1>2, <2>2, <3>3, <3>4, <4>1, DaysAscend
    <3>6. l \in 1..(k - 1) /\ l \in 1..n
      BY <2>1, <3>5
    <3>7. kept[l] = kept[k]
      BY <1>4, <2>1, <2>2, <3>3, <3>4, <3>6
    <3>8. QED
      BY <2>1, <3>6, <3>7
  <2>4. x \in 1..m
    BY <1>3
  <2>5. QED
    BY <1>1, <2>2, <2>3, <2>4 DEF Firsts
<1>8. ASSUME NEW k \in 1..n, DayOf(F, k) \in H
      PROVE  k \in G
  <2>1. PICK x \in H : x = DayOf(F, k)
    BY <1>8
  <2>2. \A j \in 1..(x - 1) : tickers[j] # tickers[x]
    BY <1>1 DEF Firsts
  <2>3. ASSUME NEW j \in 1..(k - 1)
        PROVE  kept[j] # kept[k]
    <3>1. j \in 1..n /\ j < k
      OBVIOUS
    <3>2. DayOf(F, j) \in F /\ DayOf(F, j) < x
      BY <1>4, <1>5, <2>1, <3>1
    <3>3. DayOf(F, j) \in 1..(x - 1)
      <4>1. x \in 1..m /\ DayOf(F, j) \in 1..m
        BY <1>3, <3>2
      <4>2. QED
        BY <3>2, <4>1
    <3>4. QED
      BY <1>4, <2>1, <2>2, <3>1, <3>3
  <2>4. QED
    BY <1>1, <2>3 DEF Firsts
<1>9. PICK g \in G : g = DayOf(G, i) /\ Cardinality({c \in G : c < g}) = i - 1
  <2>1. i \in 1..Cardinality(G)
    BY <1>1
  <2>2. IsAt(G, i, DayOf(G, i))
    BY <1>2, <2>1, DayOfIsAt
  <2>3. QED
    BY <2>2 DEF IsAt
<1>10. PICK x \in H : x = DayOf(F, g)
  BY <1>7
<1> DEFINE B == {c \in G : c < g}
           C == {c \in H : c < x}
           f == [h \in B |-> DayOf(F, h)]
<1>11. f \in Bijection(B, C)
  <2>1. ASSUME NEW h \in B
        PROVE  DayOf(F, h) \in C
    <3>1. h \in G /\ h < g /\ h \in 1..n /\ g \in 1..n
      BY <1>3
    <3>2. QED
      BY <1>5, <1>7, <1>10, <3>1
  <2>2. ASSUME NEW c \in C
        PROVE  \E h \in B : f[h] = c
    <3>1. c \in H /\ c < x /\ c \in F
      BY <1>6
    <3>2. PICK h \in 1..Cardinality(F) : DayOf(F, h) = c
      BY <1>2, <3>1, DayOfFinds
    <3>3. g \in 1..Cardinality(F) /\ g \in 1..n
      BY <1>3
    <3>4. h < g
      BY <1>2, <1>10, <3>1, <3>2, <3>3, DaysAscend
    <3>5. h \in 1..n
      BY <3>3, <3>4
    <3>6. h \in G
      BY <1>8, <3>1, <3>2, <3>5
    <3>7. QED
      BY <3>2, <3>4, <3>6
  <2>3. ASSUME NEW h \in B, NEW l \in B, f[h] = f[l]
        PROVE  h = l
    <3>1. h \in 1..n /\ l \in 1..n /\ DayOf(F, h) = DayOf(F, l)
      BY <1>3, <2>3
    <3>2. DayOf(F, h) \in Nat
      BY <1>2, <1>4, <3>1
    <3>3. ~(h < l) /\ ~(l < h)
      BY <1>5, <3>1, <3>2
    <3>4. QED
      BY <3>1, <3>3
  <2>4. f \in Surjection(B, C)
    BY <2>1, <2>2 DEF Surjection
  <2>5. QED
    BY <2>3, <2>4 DEF Surjection, Bijection, Injection, IsInjective
<1>12. Cardinality(C) = i - 1
  <2>1. IsFiniteSet(B)
    BY <1>2, FS_Subset
  <2>2. ExistsBijection(B, C)
    BY <1>11 DEF ExistsBijection
  <2>3. Cardinality(C) = Cardinality(B)
    BY <2>1, <2>2, FS_Bijection
  <2>4. QED
    BY <1>9, <2>3
<1>13. i \in 1..Cardinality(H) /\ DayOf(H, i) = x
  <2>1. i \in Nat
    BY <1>1, <1>2
  <2>2. QED
    BY <1>2, <1>12, <2>1, DayOfPlace
<1>14. QED
  BY <1>1, <1>9, <1>10, <1>13

\* What is stored are prints, and the window has a beginning.
TapeType == tape \in Seq(Prints) /\ old \in Nat

LEMMA MinOfTwo ==
  ASSUME NEW a \in Nat, NEW b \in Nat
  PROVE  Min({a, b}) = IF a <= b THEN a ELSE b
<1>1. {a, b} \in SUBSET Nat /\ {a, b} # {}
  OBVIOUS
<1>2. Min({a, b}) \in {a, b} /\ \A y \in {a, b} : Min({a, b}) <= y
  BY <1>1, LeastExists
<1>3. QED
  BY <1>2

\* The order of the listings: the largest premium first, then the first to arrive.
ByPremium ==
  {p \in Nat \X Nat : Premium(p[1]) > Premium(p[2])
                        \/ (Premium(p[1]) = Premium(p[2]) /\ p[1] < p[2])}

LEMMA PremiumOrder ==
  ASSUME TapeType, NEW S \in SUBSET DOMAIN tape
  PROVE  /\ Orders(ByPremium, S) /\ IsFiniteSet(S) /\ Cardinality(S) \in Nat
         /\ \A i \in S : i \in Nat /\ Premium(i) \in Nat
<1>1. DOMAIN tape = 1..Len(tape) /\ Len(tape) \in Nat /\ \A i \in DOMAIN tape : tape[i] \in Prints
  BY DEF TapeType
<1>2. \A i \in S : i \in Nat /\ Premium(i) \in Nat
  BY <1>1, TapeAssumption DEF Premium
<1>3. \A a, b \in S : <<a, b>> \in ByPremium
                        <=> Premium(a) > Premium(b) \/ (Premium(a) = Premium(b) /\ a < b)
  BY <1>2 DEF ByPremium
<1>4. Orders(ByPremium, S)
  BY <1>2, <1>3 DEF Orders
<1>5. IsFiniteSet(1..Len(tape))
  BY <1>1, FS_Interval
<1>6. IsFiniteSet(S) /\ Cardinality(S) \in Nat
  BY <1>1, <1>5, FS_Subset, FS_CardinalityType
<1>7. QED
  BY <1>2, <1>4, <1>6

\* ORDER BY premium DESC LIMIT n: what is larger than a row is a row before it.
Shortened(n, m) == IF n <= m THEN n ELSE m

IsTop(S, n, list) ==
  /\ Len(list) = Shortened(n, Cardinality(S)) /\ DOMAIN list = 1..Len(list)
  /\ \A k \in 1..Len(list) : list[k] \in S /\ list[k] = Nth(ByPremium, S, k)
  /\ \A i \in S, k \in 1..Len(list) :
       Premium(i) > Premium(list[k]) => \E j \in 1..(k - 1) : list[j] = i
  /\ Cardinality(S) <= n => \A i \in S : \E j \in 1..Len(list) : list[j] = i

LEMMA TopIs ==
  ASSUME TapeType, NEW S \in SUBSET DOMAIN tape, NEW n \in Nat
  PROVE  IsTop(S, n, Top(S, Premium, n))
<1> DEFINE m == Shortened(n, Cardinality(S))
           R == ByPremium
           x(k) == CHOOSE a \in S :
                     Cardinality({b \in S : Premium(b) > Premium(a)
                                             \/ (Premium(b) = Premium(a) /\ b < a)}) = k - 1
           list == Top(S, Premium, n)
<1>1. /\ Orders(R, S) /\ IsFiniteSet(S) /\ Cardinality(S) \in Nat
      /\ \A i \in S : i \in Nat /\ Premium(i) \in Nat
  BY PremiumOrder
<1>2. list = [k \in 1..m |-> x(k)]
  <2>1. Min({n, Cardinality(S)}) = m
    BY <1>1, MinOfTwo DEF Shortened
  <2>2. QED
    BY <2>1 DEF Top
<1>3. \A a \in S : Below(R, S, a) = {b \in S : Premium(b) > Premium(a)
                                                \/ (Premium(b) = Premium(a) /\ b < a)}
  BY <1>1 DEF Below, ByPremium
<1> HIDE DEF R
<1>4. m \in Nat /\ \A k \in 1..m : k \in 1..Cardinality(S)
  BY <1>1 DEF Shortened
<1>5. ASSUME NEW k \in 1..m
      PROVE  x(k) \in S /\ x(k) = Nth(R, S, k)
  <2>1. k \in 1..Cardinality(S)
    BY <1>4
  <2>2. Nth(R, S, k) \in S /\ Place(R, S, Nth(R, S, k)) = k - 1
    BY <1>1, <2>1, PlaceTaken
  <2>3. x(k) \in S /\ Place(R, S, x(k)) = k - 1
    <3>1. \E a \in S : Cardinality({b \in S : Premium(b) > Premium(a)
                                         \/ (Premium(b) = Premium(a) /\ b < a)}) = k - 1
      BY <1>3, <2>2 DEF Place
    <3>2. /\ x(k) \in S
          /\ Cardinality({b \in S : Premium(b) > Premium(x(k))
                                         \/ (Premium(b) = Premium(x(k)) /\ b < x(k))}) = k - 1
      BY <3>1
    <3> HIDE DEF x
    <3>3. QED
      BY <1>3, <3>2 DEF Place
  <2> HIDE DEF x
  <2>4. QED
    BY <1>1, <2>2, <2>3, PlaceDecides
<1> HIDE DEF x, m, list
<1>6. Len(list) = m /\ DOMAIN list = 1..Len(list)
  BY <1>2, <1>4
<1>7. \A k \in 1..m : list[k] \in S /\ list[k] = Nth(R, S, k)
  BY <1>2, <1>5
<1>8. ASSUME NEW i \in S, NEW k \in 1..m, Premium(i) > Premium(list[k])
      PROVE  \E j \in 1..(k - 1) : list[j] = i
  <2>1. <<i, list[k]>> \in R
    BY <1>1, <1>7, <1>8 DEF R, ByPremium
  <2>2. PICK j \in 1..Cardinality(S) : Nth(R, S, j) = i
    BY <1>1, NthOf
  <2>3. j < k
    <3>1. k \in 1..Cardinality(S)
      BY <1>4
    <3>2. <<Nth(R, S, j), Nth(R, S, k)>> \in R
      BY <1>7, <2>1, <2>2
    <3>3. QED
      BY <1>1, <3>1, <3>2, NthAscends
  <2>4. j \in 1..(k - 1) /\ j \in 1..m
    BY <1>4, <2>3
  <2>5. QED
    BY <1>7, <2>2, <2>4
<1>9. ASSUME Cardinality(S) <= n, NEW i \in S
      PROVE  \E j \in 1..m : list[j] = i
  <2>1. m = Cardinality(S)
    BY <1>1, <1>9 DEF m, Shortened
  <2>2. PICK j \in 1..Cardinality(S) : Nth(R, S, j) = i
    BY <1>1, NthOf
  <2>3. QED
    BY <1>7, <2>1, <2>2
<1>10. IsTop(S, n, list)
  BY <1>6, <1>7, <1>8, <1>9 DEF IsTop, m, R
<1>11. QED
  BY <1>10 DEF list

\* The first n of an enumeration.
IsPicked(result, days, list, n) ==
  /\ Len(result) = Shortened(n, Cardinality(days)) /\ DOMAIN result = 1..Len(result)
  /\ Len(result) \in Nat
  /\ \A k \in 1..Len(result) : k \in 1..Cardinality(days) /\ result[k] = list[DayOf(days, k)]

LEMMA PickedAll ==
  ASSUME NEW days \in SUBSET Nat, IsFiniteSet(days), NEW list
  PROVE  IsPicked(Enumerated(days, list), days, list, Cardinality(days))
<1>1. Cardinality(days) \in Nat
  BY FS_CardinalityType
<1>2. Enumerated(days, list) = [i \in 1..Cardinality(days) |-> list[DayOf(days, i)]]
  BY EnumerationIs
<1>3. Len(Enumerated(days, list)) = Cardinality(days)
  BY <1>1, <1>2
<1>4. QED
  BY <1>1, <1>2, <1>3 DEF IsPicked, Shortened

LEMMA PickedFirst ==
  ASSUME NEW days \in SUBSET Nat, IsFiniteSet(days), NEW list, NEW n \in Nat
  PROVE  IsPicked(FirstOf(Enumerated(days, list), n), days, list, n)
<1> DEFINE all == Enumerated(days, list)
           c == Cardinality(days)
           m == Shortened(n, c)
<1>1. c \in Nat
  BY FS_CardinalityType
<1>2. all = [i \in 1..c |-> list[DayOf(days, i)]]
  BY EnumerationIs
<1>3. Len(all) = c
  BY <1>1, <1>2
<1>4. Min({n, Len(all)}) = m /\ m \in Nat /\ m <= c
  BY <1>1, <1>3, MinOfTwo DEF Shortened
<1> HIDE DEF all, m, c
<1>5. FirstOf(all, n) = SubSeq(all, 1, m)
  BY <1>4 DEF FirstOf
<1>6. SubSeq(all, 1, m) = [k \in 1..m |-> all[k]]
  BY <1>4
<1>7. Len([k \in 1..m |-> all[k]]) = m
  BY <1>4
<1>8. \A k \in 1..m : k \in 1..c
  BY <1>1, <1>4
<1>9. \A k \in 1..m : all[k] = list[DayOf(days, k)]
  BY <1>2, <1>8
<1>10. QED
  BY <1>4, <1>5, <1>6, <1>7, <1>8, <1>9 DEF IsPicked, m, c, all

\* The keys of a listing, and the first of each.
ContractsAt(list) == [k \in 1..Len(list) |-> Contract(list[k])]
TickersAt(list) == [k \in 1..Len(list) |-> TickerAt(list[k])]

LEMMA DistinctIs ==
  ASSUME NEW list, Len(list) \in Nat, DOMAIN list = 1..Len(list)
  PROVE  /\ Distinct(list, Contract) = Enumerated(Firsts(ContractsAt(list), Len(list)), list)
         /\ Distinct(list, TickerAt) = Enumerated(Firsts(TickersAt(list), Len(list)), list)
<1>1. \A k \in 1..Len(list) : \A j \in 1..(k - 1) : j \in 1..Len(list)
  OBVIOUS
<1>2. {k \in DOMAIN list : \A j \in 1..(k - 1) : Contract(list[j]) # Contract(list[k])}
        = Firsts(ContractsAt(list), Len(list))
  BY <1>1 DEF Firsts, ContractsAt
<1>3. {k \in DOMAIN list : \A j \in 1..(k - 1) : TickerAt(list[j]) # TickerAt(list[k])}
        = Firsts(TickersAt(list), Len(list))
  BY <1>1 DEF Firsts, TickersAt
<1>4. Distinct(list, Contract) = Enumerated(Firsts(ContractsAt(list), Len(list)), list)
  <2>1. Distinct(list, Contract)
          = Enumerated({k \in DOMAIN list : \A j \in 1..(k - 1) : Contract(list[j]) # Contract(list[k])}, list)
    BY DEF Distinct, Enumerated
  <2>2. QED
    BY <1>2, <2>1
<1>5. Distinct(list, TickerAt) = Enumerated(Firsts(TickersAt(list), Len(list)), list)
  <2>1. Distinct(list, TickerAt)
          = Enumerated({k \in DOMAIN list : \A j \in 1..(k - 1) : TickerAt(list[j]) # TickerAt(list[k])}, list)
    BY DEF Distinct, Enumerated
  <2>2. QED
    BY <1>3, <2>1
<1>6. QED
  BY <1>4, <1>5

\* The rows a digest is made of, and what is made of them.
Rows == LargestRows
OfContracts == Firsts(ContractsAt(Rows), Len(Rows))
OfTickers == Firsts(TickersAt(Rows), Len(Rows))

LEMMA ListsAre ==
  ASSUME TapeType
  PROVE  /\ IsTop(Qualifying, RowLimit, Rows)
         /\ Qualifying \in SUBSET DOMAIN tape /\ IsFiniteSet(Qualifying)
         /\ Cardinality(Qualifying) \in Nat /\ Len(Rows) \in Nat
         /\ IsPicked(Digest, OfContracts, Rows, Picks)
         /\ IsPicked(FirstOf(Distinct(Rows, TickerAt), ScanTop), OfTickers, Rows, ScanTop)
         /\ IsPicked(Distinct(Digest, TickerAt), Firsts(TickersAt(Digest), Len(Digest)), Digest,
                     Cardinality(Firsts(TickersAt(Digest), Len(Digest))))
<1>0. RowLimit \in Nat /\ Picks \in Nat /\ ScanTop \in Nat
  BY TapeAssumption
<1>1. Qualifying \in SUBSET DOMAIN tape
  BY DEF Qualifying, InWindow, TapeType
<1>2. IsFiniteSet(Qualifying) /\ Cardinality(Qualifying) \in Nat
  BY <1>1, PremiumOrder
<1>3. IsTop(Qualifying, RowLimit, Rows)
  BY <1>0, <1>1, TopIs DEF Rows, LargestRows
<1>4. Len(Rows) \in Nat /\ DOMAIN Rows = 1..Len(Rows)
  BY <1>0, <1>2, <1>3 DEF IsTop, Shortened
<1>5. Distinct(Rows, Contract) = Enumerated(OfContracts, Rows)
      /\ Distinct(Rows, TickerAt) = Enumerated(OfTickers, Rows)
  BY <1>4, DistinctIs DEF OfContracts, OfTickers
<1>6. /\ OfContracts \in SUBSET Nat /\ IsFiniteSet(OfContracts)
      /\ OfTickers \in SUBSET Nat /\ IsFiniteSet(OfTickers)
  BY <1>4, FirstsType DEF OfContracts, OfTickers
<1>7. Digest = FirstOf(Enumerated(OfContracts, Rows), Picks)
  BY <1>5 DEF Digest, Rows
<1>8. IsPicked(Digest, OfContracts, Rows, Picks)
  BY <1>0, <1>6, <1>7, PickedFirst
<1>9. IsPicked(FirstOf(Distinct(Rows, TickerAt), ScanTop), OfTickers, Rows, ScanTop)
  BY <1>0, <1>5, <1>6, PickedFirst
<1>10. Len(Digest) \in Nat /\ DOMAIN Digest = 1..Len(Digest)
  BY <1>8 DEF IsPicked
<1>11. Distinct(Digest, TickerAt) = Enumerated(Firsts(TickersAt(Digest), Len(Digest)), Digest)
  BY <1>10, DistinctIs
<1>12. /\ Firsts(TickersAt(Digest), Len(Digest)) \in SUBSET Nat
       /\ IsFiniteSet(Firsts(TickersAt(Digest), Len(Digest)))
  BY <1>10, FirstsType
<1>13. IsPicked(Distinct(Digest, TickerAt), Firsts(TickersAt(Digest), Len(Digest)), Digest,
                Cardinality(Firsts(TickersAt(Digest), Len(Digest))))
  BY <1>11, <1>12, PickedAll
<1>14. QED
  BY <1>1, <1>2, <1>3, <1>4, <1>8, <1>9, <1>13

\* The positions of a digest's setups among the rows.
LEMMA DigestAt ==
  ASSUME TapeType, NEW k \in DOMAIN Digest
  PROVE  /\ k \in 1..Cardinality(OfContracts) /\ k \in 1..Len(Digest)
         /\ DayOf(OfContracts, k) \in OfContracts
         /\ DayOf(OfContracts, k) \in 1..Len(Rows)
         /\ Digest[k] = Rows[DayOf(OfContracts, k)]
<1>1. /\ k \in 1..Cardinality(OfContracts) /\ k \in 1..Len(Digest)
      /\ Digest[k] = Rows[DayOf(OfContracts, k)]
  BY ListsAre DEF IsPicked
<1>2. OfContracts \in SUBSET Nat /\ IsFiniteSet(OfContracts)
  BY ListsAre, FirstsType DEF OfContracts
<1>3. DayOf(OfContracts, k) \in OfContracts
  BY <1>1, <1>2, DayOfIs
<1>4. QED
  BY <1>1, <1>3 DEF OfContracts, Firsts

\* A contract that is among the rows at a position, is there first at one of the digest, or
\* after all of its setups.
LEMMA ContractFirst ==
  ASSUME TapeType, NEW q \in 1..Len(Rows)
  PROVE  \E l \in 1..Cardinality(OfContracts) :
           /\ DayOf(OfContracts, l) <= q
           /\ Contract(Rows[DayOf(OfContracts, l)]) = Contract(Rows[q])
<1>1. Len(Rows) \in Nat
  BY ListsAre
<1>2. OfContracts \in SUBSET Nat /\ IsFiniteSet(OfContracts)
  BY <1>1, FirstsType DEF OfContracts
<1>3. PICK p \in OfContracts : p <= q /\ ContractsAt(Rows)[p] = ContractsAt(Rows)[q]
  BY <1>1, FirstOccurrence DEF OfContracts
<1>4. Contract(Rows[p]) = Contract(Rows[q])
  BY <1>3 DEF ContractsAt, OfContracts, Firsts
<1>5. PICK l \in 1..Cardinality(OfContracts) : DayOf(OfContracts, l) = p
  BY <1>2, DayOfFinds
<1>6. QED
  BY <1>3, <1>4, <1>5

Listed == {Contract(Digest[k]) : k \in DOMAIN Digest}

\* No contract is listed twice.
LEMMA OncePerContract ==
  ASSUME TapeType
  PROVE  Cardinality(Listed) = Len(Digest)
<1> DEFINE n == Len(Digest)
           f == [k \in 1..n |-> Contract(Digest[k])]
<1>1. DOMAIN Digest = 1..n /\ n \in Nat
  BY ListsAre DEF IsPicked
<1>2. OfContracts \in SUBSET Nat /\ IsFiniteSet(OfContracts) /\ Len(Rows) \in Nat
  BY ListsAre, FirstsType DEF OfContracts
<1>3. ASSUME NEW k \in 1..n, NEW l \in 1..n, k < l
      PROVE  Contract(Digest[k]) # Contract(Digest[l])
  <2>1. PICK p \in OfContracts, q \in OfContracts :
          p = DayOf(OfContracts, k) /\ q = DayOf(OfContracts, l)
    BY <1>1, DigestAt
  <2>2. Digest[k] = Rows[p] /\ Digest[l] = Rows[q] /\ p \in 1..Len(Rows) /\ q \in 1..Len(Rows)
    BY <1>1, <2>1, DigestAt
  <2>3. p < q
    <3>1. k \in 1..Cardinality(OfContracts) /\ l \in 1..Cardinality(OfContracts)
      BY <1>1, DigestAt
    <3>2. DayOf(OfContracts, k) < DayOf(OfContracts, l)
      BY <1>2, <1>3, <3>1, DaysAscend
    <3>3. QED
      BY <2>1, <3>2
  <2>4. ContractsAt(Rows)[p] # ContractsAt(Rows)[q]
    <3>1. p # q
      BY <2>2, <2>3
    <3>2. QED
      BY <1>2, <3>1, FirstsDiffer DEF OfContracts
  <2>5. QED
    BY <2>2, <2>4 DEF ContractsAt
<1>4. f \in Bijection(1..n, Listed)
  <2>1. f \in Surjection(1..n, Listed)
    BY <1>1 DEF Surjection, Listed
  <2>2. ASSUME NEW k \in 1..n, NEW l \in 1..n, f[k] = f[l]
        PROVE  k = l
    <3>1. ~(k < l) /\ ~(l < k)
      BY <1>3, <2>2
    <3>2. QED
      BY <3>1
  <2>3. QED
    BY <2>1, <2>2 DEF Surjection, Bijection, Injection, IsInjective
<1>5. ExistsBijection(1..n, Listed)
  BY <1>4 DEF ExistsBijection
<1>6. QED
  BY <1>1, <1>5, FS_CountingElements

\* The largest print of each contract is listed, and none left out is larger.
LEMMA LargestListed ==
  ASSUME TapeType, NEW i \in Qualifying, NEW k \in DOMAIN Digest,
         Contract(i) = Contract(Digest[k]) \/ Contract(i) \notin Listed
  PROVE  Premium(i) <= Premium(Digest[k])
<1>1. SUFFICES ASSUME Premium(i) > Premium(Digest[k])
               PROVE  FALSE
  <2>1. Digest[k] \in Qualifying
    BY DigestAt, ListsAre DEF IsTop
  <2>2. Premium(i) \in Nat /\ Premium(Digest[k]) \in Nat
    BY <2>1, ListsAre, PremiumOrder
  <2>3. QED
    BY <2>2
<1>2. OfContracts \in SUBSET Nat /\ IsFiniteSet(OfContracts) /\ Len(Rows) \in Nat
  BY ListsAre, FirstsType DEF OfContracts
<1>3. PICK p \in OfContracts : p = DayOf(OfContracts, k)
  BY DigestAt
<1>4. Digest[k] = Rows[p] /\ p \in 1..Len(Rows) /\ k \in 1..Cardinality(OfContracts)
  BY <1>3, DigestAt
<1>5. PICK q \in 1..(p - 1) : Rows[q] = i
  BY <1>1, <1>4, ListsAre DEF IsTop
<1>6. q \in 1..Len(Rows) /\ q < p
  BY <1>4, <1>5
<1>7. PICK l \in 1..Cardinality(OfContracts) :
        DayOf(OfContracts, l) <= q /\ Contract(Rows[DayOf(OfContracts, l)]) = Contract(i)
  BY <1>5, <1>6, ContractFirst
<1>8. DayOf(OfContracts, l) \in OfContracts
  BY <1>2, DayOfIs
<1>9. DayOf(OfContracts, l) \in 1..Len(Rows) /\ DayOf(OfContracts, l) < p
  <2>1. DayOf(OfContracts, l) \in 1..Len(Rows)
    BY <1>8 DEF OfContracts, Firsts
  <2>2. DayOf(OfContracts, l) \in Nat /\ p \in Nat /\ q \in Nat
    BY <1>4, <1>6, <2>1
  <2>3. QED
    BY <1>6, <1>7, <2>1, <2>2
<1>10. l < k
  BY <1>2, <1>3, <1>4, <1>9, DaysAscend
<1>11. l \in DOMAIN Digest
  BY <1>10, ListsAre DEF IsPicked
<1>12. Contract(Digest[l]) = Contract(i)
  BY <1>7, <1>11, DigestAt
<1>13. Contract(Digest[k]) = Contract(i)
  BY <1>11, <1>12 DEF Listed
<1>14. ContractsAt(Rows)[DayOf(OfContracts, l)] = ContractsAt(Rows)[p]
  BY <1>4, <1>7, <1>9, <1>13 DEF ContractsAt
<1>15. ContractsAt(Rows)[DayOf(OfContracts, l)] # ContractsAt(Rows)[p]
  <2>1. DayOf(OfContracts, l) # p
    BY <1>4, <1>9
  <2>2. QED
    BY <1>2, <1>8, <2>1, FirstsDiffer DEF OfContracts
<1>16. QED
  BY <1>14, <1>15

\* A digest is short only when there is no more, or too much for the query.
LEMMA ShortOnlyWhenDone ==
  ASSUME TapeType, Len(Digest) < Picks, Cardinality(Qualifying) <= RowLimit, NEW i \in Qualifying
  PROVE  Contract(i) \in Listed
<1>1. PICK q \in 1..Len(Rows) : Rows[q] = i
  BY ListsAre DEF IsTop
<1>2. PICK l \in 1..Cardinality(OfContracts) :
        Contract(Rows[DayOf(OfContracts, l)]) = Contract(i)
  BY <1>1, ContractFirst
<1>3. Len(Digest) = Cardinality(OfContracts)
  <2>1. Picks \in Nat
    BY TapeAssumption
  <2>2. IsPicked(Digest, OfContracts, Rows, Picks)
    BY ListsAre
  <2>3. Len(Digest) = Picks \/ Len(Digest) = Cardinality(OfContracts)
    BY <2>2 DEF IsPicked, Shortened
  <2>4. QED
    BY <2>1, <2>3
<1>4. l \in DOMAIN Digest
  BY <1>2, <1>3, ListsAre DEF IsPicked
<1>5. Contract(Digest[l]) = Contract(i)
  BY <1>2, <1>4, DigestAt
<1>6. QED
  BY <1>4, <1>5 DEF Listed

\* Digest and AI scan list the same tickers.
LEMMA SameTickers ==
  ASSUME TapeType, NEW i \in Nat,
         i \in 1..Len(Distinct(Digest, TickerAt)),
         i \in 1..Len(FirstOf(Distinct(Rows, TickerAt), ScanTop))
  PROVE  TickerAt(Distinct(Digest, TickerAt)[i]) = TickerAt(FirstOf(Distinct(Rows, TickerAt), ScanTop)[i])
<1> DEFINE n == Len(Digest)
           kept == TickersAt(Digest)
           G == Firsts(kept, n)
<1>1. Len(Rows) \in Nat /\ n \in Nat /\ DOMAIN Digest = 1..n
  BY ListsAre DEF IsPicked
<1>2. /\ OfContracts \in SUBSET Nat /\ IsFiniteSet(OfContracts) /\ Cardinality(OfContracts) \in Nat
      /\ OfTickers \in SUBSET Nat /\ IsFiniteSet(OfTickers)
      /\ G \in SUBSET Nat /\ IsFiniteSet(G)
  BY <1>1, FirstsType DEF OfContracts, OfTickers
<1>3. /\ i \in 1..Cardinality(G)
      /\ Distinct(Digest, TickerAt)[i] = Digest[DayOf(G, i)]
  BY ListsAre DEF IsPicked
<1>4. /\ i \in 1..Cardinality(OfTickers)
      /\ FirstOf(Distinct(Rows, TickerAt), ScanTop)[i] = Rows[DayOf(OfTickers, i)]
  BY ListsAre DEF IsPicked
<1>5. \A k \in 1..n : kept[k] = TickersAt(Rows)[DayOf(OfContracts, k)]
  BY <1>1, DigestAt DEF TickersAt
<1>6. \A j, k \in 1..Len(Rows) :
        ContractsAt(Rows)[j] = ContractsAt(Rows)[k] => TickersAt(Rows)[j] = TickersAt(Rows)[k]
  BY DEF ContractsAt, TickersAt, Contract, TickerAt
<1>7. n <= Cardinality(OfContracts)
  <2>1. Picks \in Nat
    BY TapeAssumption
  <2>2. IsPicked(Digest, OfContracts, Rows, Picks)
    BY ListsAre
  <2>3. n = Shortened(Picks, Cardinality(OfContracts))
    BY <2>2 DEF IsPicked
  <2>4. \A a, b \in Nat : Shortened(a, b) <= b
    BY DEF Shortened
  <2>5. QED
    BY <1>2, <2>1, <2>3, <2>4
<1>8. DayOf(OfContracts, DayOf(G, i)) = DayOf(OfTickers, i)
  <2>1. PICK keys, tickers, some, m, c :
          /\ keys = ContractsAt(Rows) /\ tickers = TickersAt(Rows) /\ some = kept
          /\ m = Len(Rows) /\ c = n
    OBVIOUS
  <2>2. m \in Nat /\ c \in Nat /\ c <= Cardinality(Firsts(keys, m))
        /\ i \in 1..Cardinality(Firsts(some, c))
    BY <1>1, <1>3, <1>7, <2>1 DEF OfContracts
  <2>3. Finer(keys, tickers, m)
    BY <1>6, <2>1 DEF Finer
  <2>4. AreKept(some, tickers, Firsts(keys, m), c)
    BY <1>5, <2>1 DEF OfContracts, AreKept
  <2>5. DayOf(Firsts(keys, m), DayOf(Firsts(some, c), i)) = DayOf(Firsts(tickers, m), i)
    BY <2>2, <2>3, <2>4, FirstsNested
  <2>6. QED
    BY <2>1, <2>5 DEF OfContracts, OfTickers
<1> HIDE DEF kept, n
<1>9. DayOf(G, i) \in DOMAIN Digest
  <2>1. DayOf(G, i) \in G
    BY <1>2, <1>3, DayOfIs
  <2>2. QED
    BY <1>1, <2>1 DEF Firsts
<1>10. Digest[DayOf(G, i)] = Rows[DayOf(OfTickers, i)]
  BY <1>8, <1>9, DigestAt
<1>11. QED
  BY <1>3, <1>4, <1>10

\* The feed shows the largest.
LEMMA FeedShowsTheLargest ==
  ASSUME TapeType, NEW i \in DOMAIN tape, NEW k \in DOMAIN BigBuys,
         tape[i].side = "ask", i \notin Range(BigBuys)
  PROVE  Premium(i) <= Premium(BigBuys[k])
<1> DEFINE asks == {j \in DOMAIN tape : tape[j].side = "ask"}
<1>1. IsTop(asks, FeedLimit, BigBuys)
  BY TopIs, TapeAssumption DEF BigBuys
<1>2. \A j \in asks : Premium(j) \in Nat
  BY PremiumOrder
<1>3. k \in 1..Len(BigBuys) /\ BigBuys[k] \in asks /\ DOMAIN BigBuys = 1..Len(BigBuys)
  BY <1>1 DEF IsTop
<1>4. ASSUME Premium(i) > Premium(BigBuys[k])
      PROVE  FALSE
  <2>1. PICK j \in 1..(k - 1) : BigBuys[j] = i
    BY <1>1, <1>3, <1>4 DEF IsTop
  <2>2. j \in DOMAIN BigBuys
    <3>1. k \in Int
      BY <1>3
    <3>2. Len(BigBuys) \in Int
      BY <1>1, PremiumOrder, TapeAssumption DEF IsTop, Shortened
    <3>3. QED
      BY <1>3, <2>1, <3>1, <3>2
  <2>3. QED
    BY <2>1, <2>2 DEF Range
<1>5. QED
  BY <1>2, <1>3, <1>4

LEMMA ShortlistIs ==
  ASSUME TapeType
  PROVE  ShortlistIsTheTop
<1>1. Listed = {Contract(Digest[k]) : k \in DOMAIN Digest}
  BY DEF Listed
<1>2. Cardinality(Listed) = Len(Digest)
  BY OncePerContract
<1>3. \A i \in Qualifying, k \in DOMAIN Digest :
        Contract(i) = Contract(Digest[k]) \/ Contract(i) \notin Listed
          => Premium(i) <= Premium(Digest[k])
  BY LargestListed
<1>4. Len(Digest) < Picks =>
        \/ \A i \in Qualifying : Contract(i) \in Listed
        \/ Cardinality(Qualifying) > RowLimit
  <2>1. Cardinality(Qualifying) \in Nat /\ RowLimit \in Nat
    BY ListsAre, TapeAssumption
  <2>2. QED
    BY <2>1, ShortOnlyWhenDone
<1>5. \A i \in DOMAIN tape, k \in DOMAIN BigBuys :
        tape[i].side = "ask" /\ i \notin Range(BigBuys) => Premium(i) <= Premium(BigBuys[k])
  BY FeedShowsTheLargest
<1> DEFINE mine == Distinct(Digest, TickerAt)
           theirs == FirstOf(Distinct(Rows, TickerAt), ScanTop)
           tickers == TickersOf(mine)
           shorter == Min({Len(tickers), Len(ScanTickers)})
<1>6. SubSeq(tickers, 1, shorter) = SubSeq(ScanTickers, 1, shorter)
  <2>1. /\ Len(mine) \in Nat /\ DOMAIN mine = 1..Len(mine)
        /\ Len(theirs) \in Nat /\ DOMAIN theirs = 1..Len(theirs)
    BY ListsAre DEF IsPicked
  <2>2. ScanTickers = TickersOf(theirs)
    BY DEF ScanTickers, Rows
  <2>3. \A i \in Nat : i \in 1..Len(mine) /\ i \in 1..Len(theirs)
                       => TickerAt(mine[i]) = TickerAt(theirs[i])
    BY SameTickers
  <2> HIDE DEF mine, theirs
  <2>4. /\ tickers = [k \in 1..Len(mine) |-> TickerAt(mine[k])]
        /\ ScanTickers = [k \in 1..Len(theirs) |-> TickerAt(theirs[k])]
    BY <2>1, <2>2 DEF TickersOf
  <2>5. Len(tickers) = Len(mine) /\ Len(ScanTickers) = Len(theirs)
    BY <2>1, <2>4
  <2>6. PICK n \in Nat : n = shorter /\ n <= Len(mine) /\ n <= Len(theirs)
    BY <2>1, <2>5, MinOfTwo
  <2> HIDE DEF tickers
  <2>7. \A k \in 1..n : tickers[k] = ScanTickers[k]
    BY <2>1, <2>3, <2>4, <2>6
  <2>8. SubSeq(tickers, 1, n) = [k \in 1..n |-> tickers[k]]
        /\ SubSeq(ScanTickers, 1, n) = [k \in 1..n |-> ScanTickers[k]]
    BY <2>5, <2>6
  <2>9. QED
    BY <2>6, <2>7, <2>8 DEF tickers
<1> HIDE DEF shorter, tickers
<1>7. QED
  BY <1>1, <1>2, <1>3, <1>4, <1>5, <1>6 DEF ShortlistIsTheTop, shorter, tickers, Rows

\* Digest, AI scan and feed show the top of the tape: the largest print per contract, no
\* contract twice, none larger left out, the same tickers in the same order; for any prints,
\* thresholds and limits.
THEOREM ShortlistsAreTheTop == TapeSpec => []ShortlistIsTheTop
<1>1. TapeInit => TapeType
  BY DEF TapeInit, TapeType
<1>2. TapeType /\ [TapeNext]_tapeVars => TapeType'
  <2> SUFFICES ASSUME TapeType, [TapeNext]_tapeVars
               PROVE  TapeType'
    OBVIOUS
  <2>1. CASE Leave
    BY <2>1 DEF TapeType, Leave
  <2>2. ASSUME NEW p \in Prints, Store(p)
        PROVE  TapeType'
    BY <2>2 DEF TapeType, Store
  <2>3. CASE UNCHANGED tapeVars
    BY <2>3 DEF TapeType, tapeVars
  <2>4. QED
    BY <2>1, <2>2, <2>3 DEF TapeNext
<1>3. TapeType => ShortlistIsTheTop
  BY ShortlistIs
<1>4. QED
  BY <1>1, <1>2, <1>3, PTL DEF TapeSpec

-----------------------------------------------------------------------------
(* Sums over finite sets. *)

\* Of the subsets of a finite set that are bad, if there are any, one has no bad part.
HasLeast(Bad) == \E s \in Bad : \A t \in SUBSET s : t # s => t \notin Bad

LEMMA LeastSubset ==
  ASSUME NEW S, IsFiniteSet(S), NEW Bad, Bad \subseteq SUBSET S, Bad # {}
  PROVE  HasLeast(Bad)
<1> DEFINE sizes == {Cardinality(s) : s \in Bad}
<1>1. \A s \in SUBSET S : IsFiniteSet(s) /\ Cardinality(s) \in Nat
  BY FS_Subset, FS_CardinalityType
<1>2. sizes \in SUBSET Nat /\ sizes # {}
  BY <1>1
<1> HIDE DEF sizes
<1>3. Min(sizes) \in sizes /\ \A n \in sizes : Min(sizes) <= n
  BY <1>2, LeastExists
<1>4. PICK s \in Bad : \A t \in Bad : Cardinality(s) <= Cardinality(t)
  BY <1>3 DEF sizes
<1>5. ASSUME NEW t \in SUBSET s, t # s, t \in Bad
      PROVE  FALSE
  <2>1. IsFiniteSet(s)
    BY <1>1
  <2>2. Cardinality(t) <= Cardinality(s) /\ Cardinality(s) # Cardinality(t)
    BY <2>1, <1>5, FS_Subset
  <2>3. Cardinality(t) \in Nat /\ Cardinality(s) \in Nat
    BY <1>1
  <2>4. QED
    BY <1>4, <1>5, <2>2, <2>3
<1>6. QED
  BY <1>5 DEF HasLeast

\* The recursion of a sum over the parts of a set.
Pick(s) == CHOOSE x \in s : TRUE
SumBody(it, f, S) == [s \in SUBSET S |-> IF s = {} THEN 0 ELSE f[Pick(s)] + it[s \ {Pick(s)}]]
IsSum(it, f, S) == it = SumBody(it, f, S)

LEMMA SumStep ==
  ASSUME NEW f, NEW S, NEW it, IsSum(it, f, S)
  PROVE  /\ it[{}] = 0
         /\ \A s \in SUBSET S : s # {} => /\ Pick(s) \in s /\ s \ {Pick(s)} \in SUBSET s
                                          /\ s \ {Pick(s)} # s
                                          /\ it[s] = f[Pick(s)] + it[s \ {Pick(s)}]
<1>1. \A s \in SUBSET S : it[s] = IF s = {} THEN 0 ELSE f[Pick(s)] + it[s \ {Pick(s)}]
  <2>1. it = SumBody(it, f, S)
    BY DEF IsSum
  <2>2. \A s \in SUBSET S : SumBody(it, f, S)[s] = IF s = {} THEN 0 ELSE f[Pick(s)] + it[s \ {Pick(s)}]
    BY DEF SumBody
  <2>3. QED
    BY <2>1, <2>2
<1>2. \A s \in SUBSET S : s # {} => Pick(s) \in s
  BY DEF Pick
<1>3. QED
  BY <1>1, <1>2

\* Two such sums agree where both are defined.
LEMMA SumUnique ==
  ASSUME NEW f, NEW S, IsFiniteSet(S), NEW A \in SUBSET S, NEW B \in SUBSET S,
         NEW a, NEW b, IsSum(a, f, A), IsSum(b, f, B),
         NEW s, s \subseteq A, s \subseteq B
  PROVE  a[s] = b[s]
<1> DEFINE Bad == {t \in SUBSET S : t \subseteq A /\ t \subseteq B /\ a[t] # b[t]}
<1>1. SUFFICES ASSUME Bad # {}
               PROVE  FALSE
  BY DEF Bad
<1>2. PICK t \in Bad : \A u \in SUBSET t : u # t => u \notin Bad
  <2>1. Bad \subseteq SUBSET S
    OBVIOUS
  <2> HIDE DEF Bad
  <2>2. HasLeast(Bad)
    BY <1>1, <2>1, LeastSubset
  <2>3. QED
    BY <2>2 DEF HasLeast
<1>3. t # {}
  BY SumStep
<1>4. PICK u : u = t \ {Pick(t)}
  OBVIOUS
<1>5. u \in SUBSET t /\ u # t /\ a[t] = f[Pick(t)] + a[u] /\ b[t] = f[Pick(t)] + b[u]
  BY <1>3, <1>4, SumStep
<1>6. a[u] = b[u]
  BY <1>2, <1>5
<1>7. QED
  BY <1>5, <1>6

\* There is one.
LEMMA SumExists ==
  ASSUME NEW f, NEW S, IsFiniteSet(S)
  PROVE  \E it : IsSum(it, f, S)
<1> DEFINE Bad == {t \in SUBSET S : ~ \E it : IsSum(it, f, t)}
           Of(t) == CHOOSE it : IsSum(it, f, t)
<1>1. SUFFICES ASSUME Bad # {}
               PROVE  FALSE
  BY DEF Bad
<1>2. PICK T \in Bad : \A t \in SUBSET T : t # T => t \notin Bad
  <2>1. Bad \subseteq SUBSET S
    OBVIOUS
  <2> HIDE DEF Bad
  <2>2. HasLeast(Bad)
    BY <1>1, <2>1, LeastSubset
  <2>3. QED
    BY <2>2 DEF HasLeast
<1>3. ASSUME NEW t \in SUBSET T, t # T
      PROVE  IsSum(Of(t), f, t)
  BY <1>2, <1>3
<1> HIDE DEF Of
<1> DEFINE it == [s \in SUBSET T |-> IF s = {} THEN 0
                                     ELSE f[Pick(s)] + Of(s \ {Pick(s)})[s \ {Pick(s)}]]
<1>4. ASSUME NEW u \in SUBSET T, u # T
      PROVE  it[u] = Of(u)[u]
  <2>1. IsSum(Of(u), f, u)
    BY <1>3, <1>4
  <2>2. CASE u = {}
    BY <2>1, <2>2, SumStep
  <2>3. CASE u # {}
    <3>1. PICK w : w = u \ {Pick(u)}
      OBVIOUS
    <3>2. w \in SUBSET u /\ w # u /\ Of(u)[u] = f[Pick(u)] + Of(u)[w]
      BY <2>1, <2>3, <3>1, SumStep
    <3>3. IsSum(Of(w), f, w) /\ w \in SUBSET T /\ w # T
      BY <1>3, <1>4, <3>2
    <3>4. Of(u)[w] = Of(w)[w]
      BY <2>1, <3>2, <3>3, SumUnique
    <3>5. it[u] = f[Pick(u)] + Of(w)[w]
      BY <2>3, <3>1
    <3>6. QED
      BY <3>2, <3>4, <3>5
  <2>4. QED
    BY <2>2, <2>3
<1>5. ASSUME NEW s \in SUBSET T, s # {}
      PROVE  it[s \ {Pick(s)}] = Of(s \ {Pick(s)})[s \ {Pick(s)}]
  <2>1. Pick(s) \in s
    BY <1>5 DEF Pick
  <2>2. QED
    BY <1>4, <2>1
<1>6. it = SumBody(it, f, T)
  <2>1. SumBody(it, f, T) = [s \in SUBSET T |-> IF s = {} THEN 0 ELSE f[Pick(s)] + it[s \ {Pick(s)}]]
    BY DEF SumBody
  <2>2. \A s \in SUBSET T : it[s] = IF s = {} THEN 0 ELSE f[Pick(s)] + it[s \ {Pick(s)}]
    BY <1>5
  <2>3. QED
    BY <2>1, <2>2
<1>7. QED
  BY <1>6 DEF IsSum

\* A sum of natural numbers is one.
LEMMA SumNat ==
  ASSUME NEW f, NEW S, IsFiniteSet(S), \A x \in S : f[x] \in Nat, NEW it, IsSum(it, f, S)
  PROVE  it[S] \in Nat
<1> DEFINE Bad == {t \in SUBSET S : it[t] \notin Nat}
<1>1. SUFFICES ASSUME Bad # {}
               PROVE  FALSE
  BY DEF Bad
<1>2. PICK t \in Bad : \A u \in SUBSET t : u # t => u \notin Bad
  <2>1. Bad \subseteq SUBSET S
    OBVIOUS
  <2> HIDE DEF Bad
  <2>2. HasLeast(Bad)
    BY <1>1, <2>1, LeastSubset
  <2>3. QED
    BY <2>2 DEF HasLeast
<1>3. t # {}
  <2>1. it[{}] = 0
    BY SumStep
  <2>2. it[t] \notin Nat
    BY <1>2
  <2>3. QED
    BY <2>1, <2>2
<1>4. PICK u : u = t \ {Pick(t)}
  OBVIOUS
<1>5. u \in SUBSET t /\ u # t /\ it[t] = f[Pick(t)] + it[u] /\ Pick(t) \in S
  <2>1. t \in SUBSET S
    BY <1>2
  <2>2. Pick(t) \in t /\ it[t] = f[Pick(t)] + it[t \ {Pick(t)}] /\ t \ {Pick(t)} # t
    BY <1>3, <2>1, SumStep
  <2>3. QED
    BY <1>4, <2>1, <2>2
<1>6. it[u] \in Nat /\ f[Pick(t)] \in Nat
  BY <1>2, <1>5
<1>7. QED
  BY <1>5, <1>6

\* Of weights that are positive, so is the sum; and a weighted sum of what is between lo and
\* hi is between lo and hi times it.
LEMMA Distribute ==
  ASSUME NEW k \in Nat, NEW a \in Nat, NEW b \in Nat
  PROVE  k * (a + b) = k * a + k * b
OBVIOUS

Between(lo, hi, f, w, S) ==
  \A x \in S : w[x] \in Nat \ {0} /\ f[x] \in Nat /\ lo * w[x] <= f[x] /\ f[x] <= hi * w[x]

LEMMA WeightedSum ==
  ASSUME NEW f, NEW w, NEW S, IsFiniteSet(S), NEW lo \in Nat, NEW hi \in Nat,
         Between(lo, hi, f, w, S), NEW a, IsSum(a, f, S), NEW b, IsSum(b, w, S)
  PROVE  /\ a[S] \in Nat /\ b[S] \in Nat /\ lo * b[S] <= a[S] /\ a[S] <= hi * b[S]
         /\ S # {} => b[S] > 0
<1> DEFINE Good(t) == /\ a[t] \in Nat /\ b[t] \in Nat /\ lo * b[t] <= a[t] /\ a[t] <= hi * b[t]
                      /\ t # {} => b[t] > 0
           Bad == {t \in SUBSET S : ~Good(t)}
<1>1. SUFFICES ASSUME Bad # {}
               PROVE  FALSE
  BY DEF Bad
<1>2. PICK t \in Bad : \A u \in SUBSET t : u # t => u \notin Bad
  <2>1. Bad \subseteq SUBSET S
    OBVIOUS
  <2> HIDE DEF Bad
  <2>2. HasLeast(Bad)
    BY <1>1, <2>1, LeastSubset
  <2>3. QED
    BY <2>2 DEF HasLeast
<1>3. t # {}
  <2>1. Good({})
    <3>1. a[{}] = 0 /\ b[{}] = 0
      BY SumStep
    <3>2. QED
      BY <3>1
  <2>2. QED
    BY <2>1
<1>4. PICK u, x : u = t \ {Pick(t)} /\ x = Pick(t)
  OBVIOUS
<1>5. u \in SUBSET t /\ u # t /\ a[t] = f[x] + a[u] /\ b[t] = w[x] + b[u] /\ x \in S
  BY <1>3, <1>4, SumStep
<1>6. Good(u)
  BY <1>2, <1>5
<1>7. w[x] \in Nat \ {0} /\ f[x] \in Nat /\ lo * w[x] <= f[x] /\ f[x] <= hi * w[x]
  BY <1>5 DEF Between
<1>8. lo * b[t] = lo * w[x] + lo * b[u] /\ hi * b[t] = hi * w[x] + hi * b[u]
  <2>1. b[u] \in Nat /\ w[x] \in Nat
    BY <1>6, <1>7
  <2>2. lo * (w[x] + b[u]) = lo * w[x] + lo * b[u] /\ hi * (w[x] + b[u]) = hi * w[x] + hi * b[u]
    BY <2>1, Distribute
  <2>3. QED
    BY <1>5, <2>2
<1>9. Good(t)
  <2>1. PICK p, q, r, s \in Nat : p = lo * w[x] /\ q = lo * b[u] /\ r = hi * w[x] /\ s = hi * b[u]
    BY <1>6, <1>7
  <2>2. PICK fx, wx, au, bu \in Nat : fx = f[x] /\ wx = w[x] /\ au = a[u] /\ bu = b[u]
    BY <1>6, <1>7
  <2>3. p <= fx /\ fx <= r /\ q <= au /\ au <= s /\ wx > 0
    BY <1>6, <1>7, <2>1, <2>2
  <2>4. a[t] = fx + au /\ b[t] = wx + bu /\ lo * b[t] = p + q /\ hi * b[t] = r + s
    BY <1>5, <1>8, <2>1, <2>2
  <2>5. QED
    BY <2>3, <2>4
<1>10. QED
  BY <1>9

-----------------------------------------------------------------------------
(* Rounding. *)

LEMMA DivBounds ==
  ASSUME NEW a \in Int, NEW d \in Nat \ {0}
  PROVE  a \div d \in Int /\ d * (a \div d) <= a /\ a < d * (a \div d) + d
OBVIOUS

\* A rounded mean of what is between lo and hi is between lo and hi.
LEMMA RoundedMean ==
  ASSUME NEW lo \in Nat, NEW hi \in Nat, NEW sum \in Nat, NEW total \in Nat \ {0},
         lo * total <= sum, sum <= hi * total
  PROVE  (2 * sum + total) \div (2 * total) \in lo..hi
<1> DEFINE q == (2 * sum + total) \div (2 * total)
<1>1. q \in Int /\ (2 * total) * q <= 2 * sum + total /\ 2 * sum + total < (2 * total) * q + 2 * total
  <2>1. PICK a \in Int, d \in Nat \ {0} : a = 2 * sum + total /\ d = 2 * total
    OBVIOUS
  <2>2. a \div d \in Int /\ d * (a \div d) <= a /\ a < d * (a \div d) + d
    BY DivBounds
  <2>3. QED
    BY <2>1, <2>2
<1> HIDE DEF q
<1>2. PICK x, l, h \in Int : x = total * q /\ l = lo * total /\ h = hi * total
  BY <1>1
<1>3. 2 * x <= 2 * sum + total /\ 2 * sum + total < 2 * x + 2 * total
  BY <1>1, <1>2
<1>4. ~(q < lo)
  <2>1. SUFFICES ASSUME q < lo PROVE FALSE
    OBVIOUS
  <2>2. total * (lo - q) >= total
    BY <1>1, <2>1
  <2>3. l - x >= total
    BY <1>1, <1>2, <2>2
  <2>4. QED
    BY <1>2, <1>3, <2>3
<1>5. ~(q > hi)
  <2>1. SUFFICES ASSUME q > hi PROVE FALSE
    OBVIOUS
  <2>2. total * (q - hi) >= total
    BY <1>1, <2>1
  <2>3. x - h >= total
    BY <1>1, <1>2, <2>2
  <2>4. QED
    BY <1>2, <1>3, <2>3
<1>6. QED
  BY <1>1, <1>4, <1>5 DEF q

\* A clamped score that reaches 600 with a bonus of 100 was 500 without.
Pressed(spot, peak, bonus) ==
  Clamp(Clamp((2 * (3 * One * spot - 20000 * (peak - spot)) + 3 * spot) \div (6 * spot)) + bonus)

LEMMA ProximityReached ==
  ASSUME NEW spot \in Nat \ {0}, NEW peak \in Nat, peak > spot, NEW bonus \in {0, 100},
         Pressed(spot, peak, bonus) >= 600
  PROVE  (peak - spot) * 10000 <= 751 * spot
<1> DEFINE a == 2 * (3 * One * spot - 20000 * (peak - spot)) + 3 * spot
           d == 6 * spot
           q == a \div d
<1>1. a \in Int /\ d \in Nat \ {0} /\ a = 6003 * spot - 40000 * (peak - spot)
  BY DEF One
<1>2. q \in Int /\ d * q <= a
  <2>1. PICK x \in Int, y \in Nat \ {0} : x = a /\ y = d
    BY <1>1
  <2>2. x \div y \in Int /\ y * (x \div y) <= x
    BY DivBounds
  <2>3. QED
    BY <2>1, <2>2
<1>3. Clamp(Clamp(q) + bonus) >= 600
  BY DEF Pressed
<1> HIDE DEF q, a
<1>4. q >= 500
  BY <1>2, <1>3 DEF Clamp, One
<1>5. spot * (q - 500) >= 0
  BY <1>2, <1>4
<1>6. PICK m \in Int : m = spot * q
  BY <1>2
<1>7. m >= 500 * spot
  BY <1>2, <1>5, <1>6
<1>8. 6 * m <= a
  BY <1>2, <1>6
<1>9. QED
  BY <1>1, <1>7, <1>8

-----------------------------------------------------------------------------
(* Charts: the trades. *)

\* A chart is made of bars of the markets, and its highs have a bound.
Bounded(top) == \A i \in DOMAIN bars : bars[i].high <= top
ChartType == bars \in Seq(UNION Markets) /\ \E top \in Nat : Bounded(top)

Solid(bar) ==
  /\ bar.low \in Nat \ {0} /\ bar.close \in Nat \ {0} /\ bar.high \in Nat \ {0}
  /\ bar.low <= bar.close /\ bar.close <= bar.high

LEMMA BarsAre ==
  ASSUME ChartType
  PROVE  /\ Len(bars) \in Nat /\ DOMAIN bars = 1..Len(bars)
         /\ \A i \in DOMAIN bars : i \in Nat /\ Solid(bars[i])
<1>1. Len(bars) \in Nat /\ DOMAIN bars = 1..Len(bars)
  BY DEF ChartType
<1>2. ASSUME NEW i \in DOMAIN bars
      PROVE  i \in Nat /\ Solid(bars[i])
  <2>1. PICK market \in Markets : bars[i] \in market
    BY <1>1, <1>2 DEF ChartType
  <2>2. QED
    BY <1>1, <1>2, <2>1, ChartAssumption DEF Solid
<1>3. QED
  BY <1>1, <1>2

\* A bounded set of natural numbers that is not empty has a greatest member.
LEMMA GreatestExists ==
  ASSUME NEW S \in SUBSET Nat, S # {}, NEW top \in Nat, \A x \in S : x <= top
  PROVE  Max(S) \in S /\ \A y \in S : y <= Max(S)
<1> DEFINE T == {top - x : x \in S}
<1>0. \A x \in S : top - x \in Nat
  OBVIOUS
<1>1. T \in SUBSET Nat /\ T # {}
  BY <1>0
<1>2. T \subseteq Nat /\ T # {} /\ \A x \in S : top - x \in T
  BY <1>1
<1>3. \A t \in T : \E x \in S : t = top - x
  OBVIOUS
<1> HIDE DEF T
<1>4. Min(T) \in T /\ \A t \in T : Min(T) <= t
  BY <1>1, LeastExists
<1>5. PICK x \in S : Min(T) = top - x
  BY <1>3, <1>4
<1>6. \A y \in S : x >= y
  BY <1>2, <1>4, <1>5
<1>7. QED
  BY <1>6 DEF Max

\* The image of a finite set is finite.
LEMMA ImageFinite ==
  ASSUME NEW S, IsFiniteSet(S), NEW f
  PROVE  IsFiniteSet({f[x] : x \in S})
<1> DEFINE T == {f[x] : x \in S}
           g == [x \in S |-> f[x]]
<1>1. g \in Surjection(S, T)
  BY DEF Surjection
<1>2. QED
  BY <1>1, FS_Surjection

LEMMA TwoRanges ==
  ASSUME ChartType, NEW i \in DOMAIN bars
  PROVE  TrueRange(i) \in Nat
<1>1. Solid(bars[i]) /\ i \in Nat /\ i >= 1 /\ i <= Len(bars) /\ Len(bars) \in Nat
  BY BarsAre
<1>2. CASE i = 1
  BY <1>1, <1>2 DEF TrueRange, Larger, Solid
<1>3. CASE i # 1
  <2>1. i - 1 \in DOMAIN bars
    BY <1>1, <1>3, BarsAre
  <2>2. Solid(bars[i - 1])
    BY <2>1, BarsAre
  <2>3. PICK h, l, c \in Nat : h = bars[i].high /\ l = bars[i].low /\ c = bars[i - 1].close /\ l <= h
    BY <1>1, <2>2 DEF Solid
  <2>4. Apart(h, c) \in Nat /\ Apart(l, c) \in Nat /\ h - l \in Nat
    BY <2>3 DEF Apart
  <2>5. QED
    BY <1>3, <2>3, <2>4 DEF TrueRange, Larger
<1>4. QED
  BY <1>2, <1>3

LEMMA AtrType == ASSUME ChartType PROVE Atr \in Nat
<1>1. CASE Len(bars) <= AtrPeriod
  BY <1>1 DEF Atr
<1>2. CASE ~(Len(bars) <= AtrPeriod)
  <2> DEFINE S == (Len(bars) - AtrPeriod + 1)..Len(bars)
             f == [x \in S |-> TrueRange(x)]
             it == CHOOSE iter : iter = [s \in SUBSET S |-> IF s = {} THEN 0
                                                  ELSE TrueRange(Pick(s)) + iter[s \ {Pick(s)}]]
  <2>1. AtrPeriod \in Nat \ {0} /\ Len(bars) \in Nat
    BY BarsAre, ChartAssumption
  <2>2. IsFiniteSet(S) /\ S \subseteq DOMAIN bars
    <3> HIDE DEF it, f
    <3>0. Len(bars) - AtrPeriod + 1 \in Int /\ Len(bars) \in Int
      BY <2>1
    <3>1. PICK a \in Int, b \in Int : a = Len(bars) - AtrPeriod + 1 /\ b = Len(bars)
      BY <3>0, Zenon
    <3>2. IsFiniteSet(a..b)
      BY FS_Interval
    <3>3. QED
      BY <1>2, <2>1, <3>1, <3>2, BarsAre
  <2>3. MapThenSumSet(TrueRange, S) = it[S]
    BY DEF MapThenSumSet, MapThenFoldSet, Pick
  <2> HIDE DEF S
  <2>4. IsSum(it, f, S)
    <3>1. \A iter : SumBody(iter, f, S) = [s \in SUBSET S |-> IF s = {} THEN 0
                                             ELSE TrueRange(Pick(s)) + iter[s \ {Pick(s)}]]
      BY DEF SumBody, Pick
    <3>2. \E iter : iter = SumBody(iter, f, S)
      BY <2>2, SumExists DEF IsSum
    <3>3. it = [s \in SUBSET S |-> IF s = {} THEN 0 ELSE TrueRange(Pick(s)) + it[s \ {Pick(s)}]]
      BY <3>1, <3>2
    <3> HIDE DEF it, f
    <3>4. QED
      BY <3>1, <3>3 DEF IsSum
  <2> HIDE DEF it
  <2>5. \A x \in S : f[x] \in Nat
    BY <2>2, TwoRanges
  <2> HIDE DEF f
  <2>6. it[S] \in Nat
    BY <2>2, <2>4, <2>5, SumNat
  <2>7. QED
    <3>1. Atr = it[S] \div AtrPeriod
      BY <1>2, <2>3 DEF Atr, S
    <3>2. PICK m \in Nat, d \in Nat \ {0} : m = it[S] /\ d = AtrPeriod
      BY <2>1, <2>6
    <3>3. m \div d \in Int /\ d * (m \div d) <= m /\ m < d * (m \div d) + d
      BY DivBounds
    <3>4. PICK q \in Int : q = m \div d
      BY <3>3
    <3>5. d * q + d > 0
      BY <3>3, <3>4
    <3>6. q >= 0
      <4>1. SUFFICES ASSUME q <= -1 PROVE FALSE
        BY <3>4
      <4>2. d * (q + 1) <= 0
        BY <4>1, <3>4
      <4>3. d * (q + 1) = d * q + d
        BY <3>4
      <4>4. QED
        BY <3>5, <4>2, <4>3
    <3>7. QED
      BY <3>1, <3>2, <3>4, <3>6
<1>3. QED
  BY <1>1, <1>2

LEMMA SpotIs ==
  ASSUME ChartType, Len(bars) >= 1
  PROVE  /\ Len(bars) \in DOMAIN bars /\ Spot = bars[Len(bars)].close /\ Spot \in Nat \ {0}
<1>1. Len(bars) \in DOMAIN bars
  BY BarsAre
<1>2. Solid(bars[Len(bars)])
  BY <1>1, BarsAre
<1>3. QED
  BY <1>1, <1>2 DEF Spot, Last, Solid

LEMMA BuffersAre ==
  ASSUME ChartType, Len(bars) >= 1
  PROVE  /\ Buffer \in Nat /\ (Spot > 125 => Buffer >= 5040)
         /\ Tolerance \in Nat /\ Tolerance > 0
BY SpotIs, AtrType DEF Buffer, Tolerance, Larger

\* The pivots: highs and lows of bars.
LEMMA PivotsAre ==
  ASSUME ChartType
  PROVE  /\ IsFiniteSet(Pivots)
         /\ \A p \in Pivots : p.price \in Nat \ {0} /\ p.bar \in DOMAIN bars
<1> DEFINE f == [i \in SwingHighs |-> [price |-> bars[i].high, bar |-> i, of |-> "high"]]
           g == [i \in SwingLows |-> [price |-> bars[i].low, bar |-> i, of |-> "low"]]
<1>1. SwingHighs \subseteq DOMAIN bars /\ SwingLows \subseteq DOMAIN bars
  BY DEF SwingHighs, SwingLows
<1>2. IsFiniteSet(DOMAIN bars)
  <2>1. Len(bars) \in Nat /\ DOMAIN bars = 1..Len(bars)
    BY BarsAre
  <2>2. PICK n \in Nat : n = Len(bars)
    BY <2>1
  <2>3. IsFiniteSet(1..n)
    BY FS_Interval
  <2>4. QED
    BY <2>1, <2>2, <2>3
<1>3. IsFiniteSet(SwingHighs) /\ IsFiniteSet(SwingLows)
  BY <1>1, <1>2, FS_Subset
<1>4. Pivots = {f[i] : i \in SwingHighs} \cup {g[i] : i \in SwingLows}
  BY DEF Pivots
<1>5. IsFiniteSet({f[i] : i \in SwingHighs}) /\ IsFiniteSet({g[i] : i \in SwingLows})
  <2> HIDE DEF f, g
  <2>1. QED
    BY <1>3, ImageFinite
<1>6. IsFiniteSet(Pivots)
  BY <1>4, <1>5, FS_Union
<1>7. ASSUME NEW p \in Pivots
      PROVE  p.price \in Nat \ {0} /\ p.bar \in DOMAIN bars
  <2>1. CASE \E i \in SwingHighs : p = f[i]
    <3>1. PICK i \in SwingHighs : p = f[i]
      BY <2>1
    <3>2. i \in DOMAIN bars /\ Solid(bars[i])
      BY <1>1, BarsAre
    <3>3. QED
      BY <3>1, <3>2 DEF Solid
  <2>2. CASE \E i \in SwingLows : p = g[i]
    <3>1. PICK i \in SwingLows : p = g[i]
      BY <2>2
    <3>2. i \in DOMAIN bars /\ Solid(bars[i])
      BY <1>1, BarsAre
    <3>3. QED
      BY <3>1, <3>2 DEF Solid
  <2>3. QED
    BY <1>4, <2>1, <2>2
<1>8. QED
  BY <1>6, <1>7

LEMMA PivotsBounded ==
  ASSUME ChartType, NEW top \in Nat, Bounded(top)
  PROVE  \A p \in Pivots : p.price <= top
<1>1. \A i \in DOMAIN bars : /\ bars[i].high \in Nat /\ bars[i].low \in Nat
                             /\ bars[i].high <= top /\ bars[i].low <= top
  BY BarsAre DEF Solid, Bounded
<1>2. SwingHighs \subseteq DOMAIN bars /\ SwingLows \subseteq DOMAIN bars
  BY DEF SwingHighs, SwingLows
<1>3. QED
  BY <1>1, <1>2 DEF Pivots

\* The weighted sums of a zone.
Weighted(p) == p.price * Weight(p)

LEMMA WeightSum ==
  ASSUME NEW S, IsFiniteSet(S)
  PROVE  \E it : IsSum(it, [x \in S |-> Weight(x)], S) /\ MapThenSumSet(Weight, S) = it[S]
<1> DEFINE f == [x \in S |-> Weight(x)]
           Body(iter) == [s \in SUBSET S |-> IF s = {} THEN 0
                                            ELSE Weight(Pick(s)) + iter[s \ {Pick(s)}]]
           it == CHOOSE iter : iter = Body(iter)
<1>1. MapThenSumSet(Weight, S) = it[S]
  BY DEF MapThenSumSet, MapThenFoldSet, Pick
<1>2. \A iter : SumBody(iter, f, S) = Body(iter)
  BY DEF SumBody, Pick
<1>3. \E iter : iter = SumBody(iter, f, S)
  BY SumExists DEF IsSum
<1>4. it = Body(it)
  <2>1. \E iter : iter = Body(iter)
    BY <1>2, <1>3
  <2> HIDE DEF Body
  <2>2. QED
    BY <2>1
<1> HIDE DEF it
<1>5. IsSum(it, f, S)
  BY <1>2, <1>4 DEF IsSum
<1>6. QED
  BY <1>1, <1>5

LEMMA WeightedPriceSum ==
  ASSUME NEW S, IsFiniteSet(S)
  PROVE  \E it : IsSum(it, [x \in S |-> Weighted(x)], S) /\ MapThenSumSet(Weighted, S) = it[S]
<1> DEFINE f == [x \in S |-> Weighted(x)]
           Body(iter) == [s \in SUBSET S |-> IF s = {} THEN 0
                                            ELSE Weighted(Pick(s)) + iter[s \ {Pick(s)}]]
           it == CHOOSE iter : iter = Body(iter)
<1>1. MapThenSumSet(Weighted, S) = it[S]
  BY DEF MapThenSumSet, MapThenFoldSet, Pick
<1>2. \A iter : SumBody(iter, f, S) = Body(iter)
  BY DEF SumBody, Pick
<1>3. \E iter : iter = SumBody(iter, f, S)
  BY SumExists DEF IsSum
<1>4. it = Body(it)
  <2>1. \E iter : iter = Body(iter)
    BY <1>2, <1>3
  <2> HIDE DEF Body
  <2>2. QED
    BY <2>1
<1> HIDE DEF it
<1>5. IsSum(it, f, S)
  BY <1>2, <1>4 DEF IsSum
<1>6. QED
  BY <1>1, <1>5

LEMMA ProductsGrow ==
  ASSUME NEW a \in Nat, NEW b \in Nat, NEW w \in Nat, a <= b
  PROVE  a * w <= b * w
<1>1. (b - a) * w >= 0
  OBVIOUS
<1>2. (b - a) * w = b * w - a * w
  OBVIOUS
<1>3. PICK x, y \in Int : x = a * w /\ y = b * w
  OBVIOUS
<1>4. QED
  BY <1>1, <1>2, <1>3

\* The price of a zone lies in the zone.
PricesOf(zone) == {p.price : p \in zone}

LEMMA ZonePriceIs ==
  ASSUME ChartType, NEW zone \in SUBSET Pivots, zone # {}
  PROVE  /\ Min(PricesOf(zone)) \in PricesOf(zone) /\ Max(PricesOf(zone)) \in PricesOf(zone)
         /\ ZonePrice(zone) \in Min(PricesOf(zone))..Max(PricesOf(zone))
<1>1. IsFiniteSet(zone)
  BY PivotsAre, FS_Subset
<1>2. PricesOf(zone) \in SUBSET (Nat \ {0}) /\ PricesOf(zone) # {}
  BY PivotsAre DEF PricesOf
<1>3. PICK top \in Nat : Bounded(top)
  BY DEF ChartType
<1>4. \A x \in PricesOf(zone) : x <= top
  BY <1>3, PivotsBounded DEF PricesOf
<1>5. PricesOf(zone) \in SUBSET Nat
  BY <1>2
<1>6. Min(PricesOf(zone)) \in PricesOf(zone) /\ \A y \in PricesOf(zone) : Min(PricesOf(zone)) <= y
  BY <1>2, <1>5, LeastExists
<1>7. Max(PricesOf(zone)) \in PricesOf(zone) /\ \A y \in PricesOf(zone) : y <= Max(PricesOf(zone))
  BY <1>2, <1>4, <1>5, GreatestExists
<1>8. PICK lo \in Nat, hi \in Nat : lo = Min(PricesOf(zone)) /\ hi = Max(PricesOf(zone))
  BY <1>5, <1>6, <1>7
<1> DEFINE f == [p \in zone |-> Weighted(p)]
           w == [p \in zone |-> Weight(p)]
<1>9. Between(lo, hi, f, w, zone)
  <2>1. ASSUME NEW p \in zone
        PROVE  w[p] \in Nat \ {0} /\ f[p] \in Nat /\ lo * w[p] <= f[p] /\ f[p] <= hi * w[p]
    <3>1. p \in Pivots /\ p.price \in Nat /\ p.bar \in DOMAIN bars
      BY PivotsAre
    <3>2. Len(bars) \in Nat /\ DOMAIN bars = 1..Len(bars)
      BY BarsAre
    <3>3. w[p] = Weight(p) /\ Weight(p) \in Nat \ {0} /\ f[p] = p.price * Weight(p)
      BY <3>1, <3>2 DEF Weight, Weighted
    <3>4. lo <= p.price /\ p.price <= hi
      BY <1>6, <1>7, <1>8 DEF PricesOf
    <3> HIDE DEF f, w
    <3>5. PICK a \in Nat, b \in Nat : a = p.price /\ b = Weight(p)
      BY <3>1, <3>3
    <3>6. lo * b <= a * b /\ a * b <= hi * b /\ a * b \in Nat
      BY <3>4, <3>5, ProductsGrow
    <3>7. QED
      BY <3>3, <3>5, <3>6
  <2>2. QED
    BY <2>1 DEF Between
<1>10. PICK b : IsSum(b, w, zone) /\ MapThenSumSet(Weight, zone) = b[zone]
  BY <1>1, WeightSum
<1>11. PICK a : IsSum(a, f, zone) /\ MapThenSumSet(Weighted, zone) = a[zone]
  BY <1>1, WeightedPriceSum
<1> HIDE DEF f, w
<1>12. /\ a[zone] \in Nat /\ b[zone] \in Nat /\ lo * b[zone] <= a[zone] /\ a[zone] <= hi * b[zone]
       /\ b[zone] > 0
  BY <1>1, <1>9, <1>10, <1>11, WeightedSum
<1>13. PICK sum \in Nat, total \in Nat \ {0} : sum = a[zone] /\ total = b[zone]
  BY <1>12
<1>14. ZonePrice(zone) = (2 * sum + total) \div (2 * total)
  <2>1. ZonePrice(zone) = (2 * MapThenSumSet(Weighted, zone) + MapThenSumSet(Weight, zone))
                             \div (2 * MapThenSumSet(Weight, zone))
    BY DEF ZonePrice, Weighted, MapThenSumSet, MapThenFoldSet
  <2>2. QED
    BY <1>10, <1>11, <1>13, <2>1
<1>15. (2 * sum + total) \div (2 * total) \in lo..hi
  BY <1>12, <1>13, RoundedMean
<1>16. QED
  BY <1>6, <1>7, <1>8, <1>14, <1>15

\* The zones, by the pivot that opens them.
Floors == {p.price : p \in {q \in Pivots : Opens(q)}}
ZoneOf(floor) == {p \in Pivots : /\ p.price >= floor
                                 /\ \A other \in Floors : other > floor => p.price < other}

LEMMA ZonesAre == Zones = {ZoneOf(floor) : floor \in Floors}
BY DEF Zones, Floors, ZoneOf

LEMMA FloorsAre ==
  ASSUME ChartType
  PROVE  IsFiniteSet(Floors) /\ Floors \in SUBSET Nat
<1> DEFINE opening == {q \in Pivots : Opens(q)}
           f == [p \in opening |-> p.price]
<1>1. opening \subseteq Pivots
  OBVIOUS
<1>2. IsFiniteSet(opening)
  BY <1>1, PivotsAre, FS_Subset
<1>3. Floors = {f[p] : p \in opening}
  BY DEF Floors
<1>4. IsFiniteSet(Floors)
  <2> HIDE DEF opening, f
  <2>1. IsFiniteSet({f[p] : p \in opening})
    BY <1>2, ImageFinite
  <2>2. QED
    BY <1>3, <2>1
<1>5. Floors \in SUBSET Nat
  BY <1>1, PivotsAre DEF Floors
<1>6. QED
  BY <1>4, <1>5

LEMMA ZoneNotEmpty ==
  ASSUME ChartType, NEW floor \in Floors
  PROVE  ZoneOf(floor) # {} /\ ZoneOf(floor) \in SUBSET Pivots
<1>1. PICK p \in Pivots : p.price = floor
  BY DEF Floors
<1>2. p.price \in Nat
  BY PivotsAre
<1>3. p \in ZoneOf(floor)
  BY <1>1, <1>2 DEF ZoneOf
<1>4. QED
  BY <1>3 DEF ZoneOf

\* A level is on its side of the price, and its price in its range.
GoodLevel(level) ==
  /\ level.price \in Nat /\ level.low \in Nat /\ level.high \in Nat
  /\ level.low <= level.price /\ level.price <= level.high
  /\ level.kind \in {"resistance", "support"}
  /\ level.kind = "resistance" => level.price > Spot
  /\ level.kind = "support" => level.price < Spot

AlwaysGood(levels) == \A level \in levels : GoodLevel(level)
OwnPrices(levels) == \A a, b \in levels : a.price = b.price => a = b
LevelsAre(levels) == IsFiniteSet(levels) /\ AlwaysGood(levels) /\ OwnPrices(levels)

LEMMA NotStraddled ==
  ASSUME ChartType, Len(bars) >= 1, NEW price \in Nat, ~Straddled(price)
  PROVE  price # Spot
BY SpotIs DEF Straddled, Apart

LEMMA ZoneLevelIs ==
  ASSUME ChartType, Len(bars) >= 1, NEW floor \in Floors,
         ~Straddled(ZonePrice(ZoneOf(floor)))
  PROVE  GoodLevel(ZoneLevel(ZoneOf(floor)))
<1> DEFINE zone == ZoneOf(floor)
           price == ZonePrice(zone)
<1>1. /\ Min(PricesOf(zone)) \in PricesOf(zone) /\ Max(PricesOf(zone)) \in PricesOf(zone)
      /\ price \in Min(PricesOf(zone))..Max(PricesOf(zone))
  BY ZoneNotEmpty, ZonePriceIs
<1>2. PricesOf(zone) \subseteq Nat
  BY ZoneNotEmpty, PivotsAre DEF PricesOf
<1>3. price \in Nat /\ Min(PricesOf(zone)) \in Nat /\ Max(PricesOf(zone)) \in Nat
      /\ Min(PricesOf(zone)) <= price /\ price <= Max(PricesOf(zone))
  BY <1>1, <1>2
<1>4. price # Spot /\ Spot \in Nat
  BY <1>3, NotStraddled, SpotIs
<1>5. ZoneLevel(zone) = [price |-> price, kind |-> Kind(price),
                         low |-> Min(PricesOf(zone)), high |-> Max(PricesOf(zone))]
  BY DEF ZoneLevel, PricesOf
<1> HIDE DEF price
<1>6. QED
  BY <1>3, <1>4, <1>5 DEF GoodLevel, Kind

\* Zones do not overlap: no two have one price.
LEMMA ZonesApart ==
  ASSUME ChartType, NEW f \in Floors, NEW g \in Floors, f < g
  PROVE  ZonePrice(ZoneOf(f)) < ZonePrice(ZoneOf(g))
<1>1. /\ Min(PricesOf(ZoneOf(f))) \in PricesOf(ZoneOf(f)) /\ Max(PricesOf(ZoneOf(f))) \in PricesOf(ZoneOf(f))
      /\ ZonePrice(ZoneOf(f)) \in Min(PricesOf(ZoneOf(f)))..Max(PricesOf(ZoneOf(f)))
  BY ZoneNotEmpty, ZonePriceIs
<1>2. /\ Min(PricesOf(ZoneOf(g))) \in PricesOf(ZoneOf(g)) /\ Max(PricesOf(ZoneOf(g))) \in PricesOf(ZoneOf(g))
      /\ ZonePrice(ZoneOf(g)) \in Min(PricesOf(ZoneOf(g)))..Max(PricesOf(ZoneOf(g)))
  BY ZoneNotEmpty, ZonePriceIs
<1>3. \A x \in PricesOf(ZoneOf(f)) : x \in Nat /\ x < g
  BY PivotsAre DEF PricesOf, ZoneOf
<1>4. \A x \in PricesOf(ZoneOf(g)) : x \in Nat /\ g <= x
  BY PivotsAre, FloorsAre DEF PricesOf, ZoneOf
<1>5. g \in Nat
  BY FloorsAre
<1>6. QED
  BY <1>1, <1>2, <1>3, <1>4, <1>5

LEMMA ZoneLevelsAre ==
  ASSUME ChartType, Len(bars) >= 1
  PROVE  LevelsAre(ZoneLevels)
<1> DEFINE f == [floor \in Floors |-> ZoneLevel(ZoneOf(floor))]
           all == {f[floor] : floor \in Floors}
<1>1. ZoneLevels = {level \in all : ~Straddled(level.price)}
  BY ZonesAre DEF ZoneLevels
<1>2. \A floor \in Floors : f[floor] = ZoneLevel(ZoneOf(floor))
                              /\ f[floor].price = ZonePrice(ZoneOf(floor))
  BY DEF ZoneLevel
<1> HIDE DEF f
<1>3. IsFiniteSet(all)
  BY FloorsAre, ImageFinite
<1>4. ZoneLevels \subseteq all
  BY <1>1
<1>5. IsFiniteSet(ZoneLevels)
  BY <1>3, <1>4, FS_Subset
<1>6. ASSUME NEW level \in ZoneLevels
      PROVE  GoodLevel(level)
  <2>1. PICK floor \in Floors : level = f[floor]
    BY <1>4
  <2>2. ~Straddled(ZonePrice(ZoneOf(floor)))
    BY <1>1, <1>2, <2>1
  <2>3. QED
    BY <1>2, <2>1, <2>2, ZoneLevelIs
<1>7. ASSUME NEW a \in ZoneLevels, NEW b \in ZoneLevels, a.price = b.price
      PROVE  a = b
  <2>1. PICK g \in Floors, h \in Floors : a = f[g] /\ b = f[h]
    BY <1>4
  <2>2. ZonePrice(ZoneOf(g)) = ZonePrice(ZoneOf(h))
    BY <1>2, <1>7, <2>1
  <2>3. ZonePrice(ZoneOf(g)) \in Nat
    <3>1. GoodLevel(a)
      BY <1>6
    <3>2. QED
      BY <1>2, <2>1, <3>1 DEF GoodLevel
  <2>4. ~(g < h) /\ ~(h < g)
    BY <2>2, <2>3, ZonesApart
  <2>5. g \in Nat /\ h \in Nat
    BY FloorsAre
  <2>6. QED
    BY <2>1, <2>4, <2>5
<1>8. QED
  BY <1>5, <1>6, <1>7 DEF LevelsAre, AlwaysGood, OwnPrices

\* A 52-week extreme is added where no level has its price.
LEMMA ExtremeKeeps ==
  ASSUME ChartType, Len(bars) >= 1, NEW levels, LevelsAre(levels), NEW price \in Nat,
         NEW kind \in {"resistance", "support"}
  PROVE  LevelsAre(WithExtreme(levels, price, kind))
<1> DEFINE level == [price |-> price, kind |-> kind, low |-> price, high |-> price]
<1>1. CASE WithExtreme(levels, price, kind) = levels
  BY <1>1
<1>2. CASE /\ WithExtreme(levels, price, kind) = levels \cup {level}
           /\ IF kind = "resistance" THEN price > Spot ELSE price < Spot
           /\ Uncovered(price, levels)
  <2>1. IsFiniteSet(levels \cup {level})
    BY FS_AddElement DEF LevelsAre
  <2>2. GoodLevel(level)
    BY <1>2 DEF GoodLevel
  <2>3. ASSUME NEW a \in levels
        PROVE  a.price # price
    <3>1. a.price \in Nat
      BY DEF LevelsAre, AlwaysGood, GoodLevel
    <3>2. Apart(a.price, price) * Fine > Tolerance
      BY <1>2 DEF Uncovered
    <3>3. Tolerance \in Nat
      BY BuffersAre
    <3>4. QED
      BY <3>1, <3>2, <3>3 DEF Apart, Fine
  <2>4. AlwaysGood(levels \cup {level})
    BY <2>2 DEF LevelsAre, AlwaysGood
  <2>5. level.price = price
    OBVIOUS
  <2> HIDE DEF level
  <2>6. OwnPrices(levels \cup {level})
    BY <2>3, <2>5 DEF LevelsAre, OwnPrices
  <2>7. QED
    BY <1>2, <2>1, <2>4, <2>6 DEF LevelsAre
<1>3. QED
  BY <1>1, <1>2 DEF WithExtreme

LEMMA ExtremesAre ==
  ASSUME ChartType, Len(bars) >= 1
  PROVE  /\ High52 \in Nat /\ \E i \in DOMAIN bars : High52 = bars[i].high
         /\ Low52 \in Nat /\ Low52 <= Spot /\ Spot <= High52
<1> DEFINE highs == {bars[i].high : i \in Year}
           lows == {bars[i].low : i \in Year}
<1>1. Year \subseteq DOMAIN bars /\ Len(bars) \in Year
  BY BarsAre, ChartAssumption DEF Year
<1>2. \A i \in Year : bars[i].high \in Nat /\ bars[i].low \in Nat
  BY <1>1, BarsAre DEF Solid
<1>3. highs \in SUBSET Nat /\ highs # {} /\ lows \in SUBSET Nat /\ lows # {}
  BY <1>1, <1>2
<1>4. PICK top \in Nat : Bounded(top)
  BY DEF ChartType
<1>5. \A x \in highs : x <= top
  BY <1>1, <1>4 DEF Bounded
<1>6. bars[Len(bars)].high \in highs /\ bars[Len(bars)].low \in lows
  BY <1>1
<1>7. \A x \in highs : \E i \in DOMAIN bars : x = bars[i].high
  BY <1>1
<1> HIDE DEF highs, lows
<1>8. Max(highs) \in highs /\ \A y \in highs : y <= Max(highs)
  BY <1>3, <1>4, <1>5, GreatestExists
<1>9. Min(lows) \in lows /\ \A y \in lows : Min(lows) <= y
  BY <1>3, LeastExists
<1>10. Solid(bars[Len(bars)]) /\ Spot = bars[Len(bars)].close
  BY SpotIs, BarsAre
<1>11. High52 = Max(highs) /\ Low52 = Min(lows)
  BY DEF High52, Low52, highs, lows
<1>12. High52 \in Nat /\ Low52 \in Nat
  BY <1>3, <1>8, <1>9, <1>11
<1>13. Low52 <= bars[Len(bars)].low /\ bars[Len(bars)].high <= High52
  BY <1>6, <1>8, <1>9, <1>11
<1>14. QED
  BY <1>7, <1>8, <1>10, <1>11, <1>12, <1>13 DEF Solid

\* Every level is on its side of the price, and no two have one price.
LEMMA LevelsRight ==
  ASSUME ChartType, Len(bars) >= 1
  PROVE  LevelsAre(Levels)
<1>1. CASE Len(bars) < MinBars
  <2>1. Levels = {}
    BY <1>1 DEF Levels
  <2>2. QED
    BY <2>1, FS_EmptySet DEF LevelsAre, AlwaysGood, OwnPrices
<1>2. CASE ~(Len(bars) < MinBars)
  <2> DEFINE more == WithExtreme(ZoneLevels, High52, "resistance")
  <2>1. LevelsAre(more)
    BY ZoneLevelsAre, ExtremesAre, ExtremeKeeps
  <2>2. Levels = WithExtreme(more, Low52, "support")
    BY <1>2 DEF Levels
  <2> HIDE DEF more
  <2>3. LevelsAre(WithExtreme(more, Low52, "support"))
    BY <2>1, ExtremesAre, ExtremeKeeps
  <2>4. QED
    BY <2>2, <2>3
<1>3. QED
  BY <1>1, <1>2

\* The levels of a side, ranked: distances decide, since no two have one price.
Closer == {p \in Levels \X Levels : Nearer(p[1], p[2])}

IsRanked(side, list) ==
  /\ DOMAIN list = 1..Len(list) /\ Len(list) \in Nat
  /\ list # <<>> => Len(list) > 0
  /\ \A k \in 1..Len(list) : list[k] \in side
  /\ Len(list) > 1 => Nearer(list[1], list[2])

Side(kind) == {level \in Levels : level.kind = kind}

LEMMA SideOrder ==
  ASSUME ChartType, Len(bars) >= 1, NEW kind \in {"resistance", "support"}
  PROVE  Orders(Closer, Side(kind)) /\ IsFiniteSet(Side(kind))
<1>1. IsFiniteSet(Levels) /\ AlwaysGood(Levels) /\ OwnPrices(Levels)
  BY LevelsRight DEF LevelsAre
<1>2. Side(kind) \subseteq Levels
  BY DEF Side
<1>3. IsFiniteSet(Side(kind))
  BY <1>1, <1>2, FS_Subset
<1>4. \A a, b \in Levels : <<a, b>> \in Closer <=> Nearer(a, b)
  BY DEF Closer
<1>5. Spot \in Nat
  BY SpotIs
<1>6. \A a \in Side(kind) : /\ a \in Levels /\ a.price \in Nat
                            /\ IF kind = "resistance" THEN a.price > Spot ELSE a.price < Spot
  BY <1>1 DEF Side, AlwaysGood, GoodLevel
<1>7. \A a, b \in Side(kind) : <<a, b>> \in Closer
                                 <=> IF kind = "resistance" THEN a.price < b.price ELSE a.price > b.price
  <2>1. ASSUME NEW a \in Side(kind), NEW b \in Side(kind)
        PROVE  <<a, b>> \in Closer
                 <=> IF kind = "resistance" THEN a.price < b.price ELSE a.price > b.price
    <3>1. <<a, b>> \in Closer <=> Apart(a.price, Spot) < Apart(b.price, Spot)
      BY <1>4, <1>6 DEF Nearer
    <3>2. PICK p \in Nat, q \in Nat : p = a.price /\ q = b.price
      BY <1>6
    <3>3. IF kind = "resistance" THEN p > Spot /\ q > Spot ELSE p < Spot /\ q < Spot
      BY <1>6, <3>2
    <3>4. QED
      BY <1>5, <3>1, <3>2, <3>3 DEF Apart
  <2>2. QED
    BY <2>1
<1>8. \A a, b \in Side(kind) : a.price = b.price => a = b
  BY <1>1, <1>2 DEF OwnPrices
<1>9. Orders(Closer, Side(kind))
  <2>1. \A a \in Side(kind) : <<a, a>> \notin Closer
    BY <1>6, <1>7
  <2>2. \A a, b, c \in Side(kind) : <<a, b>> \in Closer /\ <<b, c>> \in Closer => <<a, c>> \in Closer
    BY <1>6, <1>7
  <2>3. \A a, b \in Side(kind) : a # b => <<a, b>> \in Closer \/ <<b, a>> \in Closer
    BY <1>6, <1>7, <1>8
  <2>4. QED
    BY <2>1, <2>2, <2>3 DEF Orders
<1>10. QED
  BY <1>3, <1>9

LEMMA RankedIs ==
  ASSUME ChartType, Len(bars) >= 1, NEW kind \in {"resistance", "support"}
  PROVE  IsRanked(Side(kind), Ranked(Side(kind)))
<1> DEFINE side == Side(kind)
           m == Shortened(MaxPerSide, Cardinality(side))
           x(k) == CHOOSE a \in side : Cardinality({b \in side : Nearer(b, a)}) = k - 1
           list == Ranked(side)
<1>1. Orders(Closer, side) /\ IsFiniteSet(side) /\ Cardinality(side) \in Nat /\ side \subseteq Levels
  BY SideOrder, FS_CardinalityType DEF Side
<1>2. list = [k \in 1..m |-> x(k)]
  <2>1. Min({MaxPerSide, Cardinality(side)}) = m
    <3>1. MaxPerSide \in Nat
      BY ChartAssumption
    <3>2. QED
      BY <1>1, <3>1, MinOfTwo DEF Shortened
  <2>2. QED
    BY <2>1 DEF Ranked, InOrder
<1>3. \A a \in side : Below(Closer, side, a) = {b \in side : Nearer(b, a)}
  BY <1>1 DEF Below, Closer
<1> HIDE DEF side
<1>4. m \in Nat /\ \A k \in 1..m : k \in 1..Cardinality(side)
  <2>1. MaxPerSide \in Nat
    BY ChartAssumption
  <2>2. QED
    BY <1>1, <2>1 DEF Shortened
<1>5. ASSUME NEW k \in 1..m
      PROVE  x(k) \in side /\ x(k) = Nth(Closer, side, k)
  <2>1. k \in 1..Cardinality(side)
    BY <1>4
  <2>2. Nth(Closer, side, k) \in side /\ Place(Closer, side, Nth(Closer, side, k)) = k - 1
    BY <1>1, <2>1, PlaceTaken
  <2>3. x(k) \in side /\ Place(Closer, side, x(k)) = k - 1
    <3>1. \E a \in side : Cardinality({b \in side : Nearer(b, a)}) = k - 1
      BY <1>3, <2>2 DEF Place
    <3>2. x(k) \in side /\ Cardinality({b \in side : Nearer(b, x(k))}) = k - 1
      BY <3>1
    <3> HIDE DEF x
    <3>3. QED
      BY <1>3, <3>2 DEF Place
  <2> HIDE DEF x
  <2>4. QED
    BY <1>1, <2>2, <2>3, PlaceDecides
<1> HIDE DEF x, m, list
<1>6. DOMAIN list = 1..m /\ Len(list) = m /\ (list # <<>> => m > 0)
      /\ \A k \in 1..m : list[k] = x(k)
  <2>1. DOMAIN list = 1..m /\ \A k \in 1..m : list[k] = x(k)
    BY <1>2
  <2>2. Len(list) = m
    BY <1>2, <1>4
  <2>3. m = 0 => list = <<>>
    BY <1>2, <1>4
  <2>4. QED
    BY <1>4, <2>1, <2>2, <2>3
<1>7. \A k \in 1..m : list[k] \in side
  BY <1>5, <1>6
<1>8. ASSUME m > 1
      PROVE  Nearer(list[1], list[2])
  <2>1. 1 \in 1..m /\ 2 \in 1..m /\ 1 \in 1..Cardinality(side) /\ 2 \in 1..Cardinality(side)
    BY <1>4, <1>8
  <2>2. <<Nth(Closer, side, 1), Nth(Closer, side, 2)>> \in Closer
    BY <1>1, <2>1, NthAscends
  <2>3. list[1] = Nth(Closer, side, 1) /\ list[2] = Nth(Closer, side, 2)
    BY <1>5, <1>6, <2>1
  <2>4. QED
    BY <2>2, <2>3 DEF Closer
<1>9. IsRanked(side, list)
  BY <1>4, <1>6, <1>7, <1>8 DEF IsRanked
<1>10. QED
  BY <1>9 DEF side, list

\* The nearest level of a side is on that side.
LEMMA NearestIs ==
  ASSUME ChartType, Len(bars) >= 1, NEW kind \in {"resistance", "support"},
         NEW list, IsRanked(Side(kind), list), list # <<>>
  PROVE  /\ list[1].price \in Nat /\ list[1].low \in Nat /\ list[1].high \in Nat
         /\ list[1].low <= list[1].price /\ list[1].price <= list[1].high
         /\ IF kind = "resistance" THEN list[1].price > Spot ELSE list[1].price < Spot
<1>1. Len(list) \in Nat /\ Len(list) > 0 /\ \A k \in 1..Len(list) : list[k] \in Side(kind)
  BY DEF IsRanked
<1>2. list[1] \in Levels /\ list[1].kind = kind
  BY <1>1 DEF Side
<1>3. GoodLevel(list[1])
  BY <1>2, LevelsRight DEF LevelsAre, AlwaysGood
<1>4. QED
  BY <1>2, <1>3 DEF GoodLevel

\* The second one is further from the price.
LEMMA SecondIs ==
  ASSUME ChartType, Len(bars) >= 1, NEW kind \in {"resistance", "support"},
         NEW list, IsRanked(Side(kind), list), Len(list) > 1
  PROVE  /\ list[2].price \in Nat
         /\ IF kind = "resistance" THEN list[2].price > list[1].price ELSE list[2].price < list[1].price
<1>1. Len(list) \in Nat /\ \A k \in 1..Len(list) : list[k] \in Side(kind)
  BY DEF IsRanked
<1>2. list[1] \in Levels /\ list[1].kind = kind /\ list[2] \in Levels /\ list[2].kind = kind
  BY <1>1 DEF Side
<1>3. GoodLevel(list[1]) /\ GoodLevel(list[2])
  BY <1>2, LevelsRight DEF LevelsAre, AlwaysGood
<1>4. PICK p \in Nat, q \in Nat : p = list[1].price /\ q = list[2].price
  BY <1>3 DEF GoodLevel
<1>5. IF kind = "resistance" THEN p > Spot /\ q > Spot ELSE p < Spot /\ q < Spot
  BY <1>2, <1>3, <1>4 DEF GoodLevel
<1>6. Apart(p, Spot) < Apart(q, Spot)
  BY <1>4 DEF IsRanked, Nearer
<1>7. Spot \in Nat
  BY SpotIs
<1>8. QED
  BY <1>4, <1>5, <1>6, <1>7 DEF Apart

\* Whatever the target of a break is made of, it lies beyond the level that breaks.
LEMMA BeyondCeiling ==
  ASSUME ChartType, Len(bars) >= 1, NEW res, NEW sup,
         IsRanked(Side("resistance"), res), IsRanked(Side("support"), sup), res # <<>>,
         Beyond(res, sup, 1) # None
  PROVE  Beyond(res, sup, 1) \in Int /\ Beyond(res, sup, 1) > res[1].price
<1>1. res[1].price \in Nat /\ res[1].price > Spot /\ Spot \in Nat
  BY NearestIs, SpotIs
<1>2. Len(res) > 1 => res[2].price \in Nat /\ res[2].price > res[1].price
  BY SecondIs
<1>3. sup # <<>> => sup[1].price \in Nat /\ sup[1].price < Spot
  BY NearestIs
<1>4. Atr \in Nat
  BY AtrType
<1>5. CASE Len(res) > 1
  BY <1>1, <1>2, <1>5 DEF Beyond
<1>6. CASE ~(Len(res) > 1) /\ sup # <<>>
  BY <1>1, <1>3, <1>6 DEF Beyond
<1>7. CASE ~(Len(res) > 1) /\ sup = <<>>
  BY <1>1, <1>4, <1>7 DEF Beyond
<1>8. QED
  BY <1>5, <1>6, <1>7

LEMMA BeyondFloor ==
  ASSUME ChartType, Len(bars) >= 1, NEW res, NEW sup,
         IsRanked(Side("resistance"), res), IsRanked(Side("support"), sup), sup # <<>>,
         Beyond(sup, res, -1) # None
  PROVE  Beyond(sup, res, -1) \in Int /\ Beyond(sup, res, -1) < sup[1].price
<1>1. sup[1].price \in Nat /\ sup[1].price < Spot /\ Spot \in Nat
  BY NearestIs, SpotIs
<1>2. Len(sup) > 1 => sup[2].price \in Nat /\ sup[2].price < sup[1].price
  BY SecondIs
<1>3. res # <<>> => res[1].price \in Nat /\ res[1].price > Spot
  BY NearestIs
<1>4. Atr \in Nat
  BY AtrType
<1>5. CASE Len(sup) > 1
  BY <1>1, <1>2, <1>5 DEF Beyond
<1>6. CASE ~(Len(sup) > 1) /\ res # <<>>
  BY <1>1, <1>3, <1>6 DEF Beyond
<1>7. CASE ~(Len(sup) > 1) /\ res = <<>>
  BY <1>1, <1>4, <1>7 DEF Beyond
<1>8. QED
  BY <1>5, <1>6, <1>7

PlayRight(play) ==
  LET dir == IF play.name \in Calls THEN 1 ELSE -1
  IN  /\ dir * (play.entry - play.stop) >= IF Spot > 125 THEN 1 ELSE 0
      /\ play.target # None => dir * (play.target - play.entry) > 0

\* The stops: below a level, or above it, by a cent at least where the buffer is half of one.
LEMMA JustBelowIs ==
  ASSUME ChartType, Len(bars) >= 1, NEW p \in Nat
  PROVE  /\ JustBelow(p) \in Int /\ JustBelow(p) <= p
         /\ Spot > 125 => JustBelow(p) <= p - 1
<1>1. PICK b \in Nat : b = Buffer /\ (Spot > 125 => b >= 5040)
  BY BuffersAre
<1>2. /\ Cents(p * Fine - b) <= p /\ Cents(p * Fine - b) \in Int
      /\ b >= 5040 => Cents(p * Fine - b) <= p - 1
  BY DEF Cents, Fine
<1>3. JustBelow(p) = Cents(p * Fine - b)
  BY <1>1 DEF JustBelow
<1>4. QED
  BY <1>1, <1>2, <1>3

LEMMA JustAboveIs ==
  ASSUME ChartType, Len(bars) >= 1, NEW p \in Nat
  PROVE  /\ JustAbove(p) \in Int /\ JustAbove(p) >= p
         /\ Spot > 125 => JustAbove(p) >= p + 1
<1>1. PICK b \in Nat : b = Buffer /\ (Spot > 125 => b >= 5040)
  BY BuffersAre
<1>2. /\ Cents(p * Fine + b) >= p /\ Cents(p * Fine + b) \in Int
      /\ b >= 5040 => Cents(p * Fine + b) >= p + 1
  BY DEF Cents, Fine
<1>3. JustAbove(p) = Cents(p * Fine + b)
  BY <1>1 DEF JustAbove
<1>4. QED
  BY <1>1, <1>2, <1>3

\* A call's stop is just below a level, a put's just above one.
LEMMA CallRight ==
  ASSUME ChartType, Len(bars) >= 1, NEW name \in Calls, NEW entry \in Nat, NEW low \in Nat,
         low <= entry, NEW target, target # None => target \in Int /\ target > entry
  PROVE  PlayRight(Play(name, entry, target, JustBelow(low)))
<1>1. PICK stop \in Int : stop = JustBelow(low) /\ stop <= low /\ (Spot > 125 => stop <= low - 1)
  BY JustBelowIs
<1>2. entry - stop >= (IF Spot > 125 THEN 1 ELSE 0)
  BY <1>1
<1>3. QED
  BY <1>1, <1>2 DEF PlayRight, Play

LEMMA PutRight ==
  ASSUME ChartType, Len(bars) >= 1, NEW name, name \notin Calls, NEW entry \in Nat, NEW high \in Nat,
         entry <= high, NEW target, target # None => target \in Int /\ target < entry
  PROVE  PlayRight(Play(name, entry, target, JustAbove(high)))
<1>1. PICK stop \in Int : stop = JustAbove(high) /\ stop >= high /\ (Spot > 125 => stop >= high + 1)
  BY JustAboveIs
<1>2. stop - entry >= (IF Spot > 125 THEN 1 ELSE 0)
  BY <1>1
<1>3. QED
  BY <1>1, <1>2 DEF PlayRight, Play

LEMMA PlaysRight ==
  ASSUME ChartType, Len(bars) >= 1
  PROVE  \A play \in Playbook : PlayRight(play)
<1> DEFINE res == Ranked(Side("resistance"))
           sup == Ranked(Side("support"))
           breakout == Play("breakout", res[1].price, Beyond(res, sup, 1), JustBelow(res[1].low))
           breakdown == Play("breakdown", sup[1].price, Beyond(sup, res, -1), JustAbove(sup[1].high))
           bounce == Play("bounce", sup[1].price, res[1].price, JustBelow(sup[1].low))
           rejection == Play("rejection", res[1].price, sup[1].price, JustAbove(res[1].high))
<1>1. IsRanked(Side("resistance"), res) /\ IsRanked(Side("support"), sup)
  BY RankedIs
<1>2. Playbook = (IF res = <<>> THEN {} ELSE {breakout})
                 \cup (IF sup = <<>> THEN {} ELSE {breakdown})
                 \cup (IF res = <<>> \/ sup = <<>> THEN {} ELSE {bounce, rejection})
  BY DEF Playbook, Side
<1> HIDE DEF res, sup
<1>3. Spot \in Nat
  BY SpotIs
<1>4. res # <<>> => /\ res[1].price \in Nat /\ res[1].low \in Nat /\ res[1].high \in Nat
                    /\ res[1].low <= res[1].price /\ res[1].price <= res[1].high
                    /\ res[1].price > Spot
  BY <1>1, NearestIs
<1>5. sup # <<>> => /\ sup[1].price \in Nat /\ sup[1].low \in Nat /\ sup[1].high \in Nat
                    /\ sup[1].low <= sup[1].price /\ sup[1].price <= sup[1].high
                    /\ sup[1].price < Spot
  BY <1>1, NearestIs
<1>6. res # <<>> => PlayRight(breakout)
  <2>1. SUFFICES ASSUME res # <<>> PROVE PlayRight(breakout)
    OBVIOUS
  <2>2. PICK target : target = Beyond(res, sup, 1)
    OBVIOUS
  <2>3. target # None => target \in Int /\ target > res[1].price
    BY <1>1, <2>1, <2>2, BeyondCeiling
  <2>4. "breakout" \in Calls
    BY DEF Calls
  <2>5. QED
    BY <1>4, <2>1, <2>2, <2>3, <2>4, CallRight
<1>7. sup # <<>> => PlayRight(breakdown)
  <2>1. SUFFICES ASSUME sup # <<>> PROVE PlayRight(breakdown)
    OBVIOUS
  <2>2. PICK target : target = Beyond(sup, res, -1)
    OBVIOUS
  <2>3. target # None => target \in Int /\ target < sup[1].price
    BY <1>1, <2>1, <2>2, BeyondFloor
  <2>4. "breakdown" \notin Calls
    BY DEF Calls
  <2>5. QED
    BY <1>5, <2>1, <2>2, <2>3, <2>4, PutRight
<1>8. res # <<>> /\ sup # <<>> => PlayRight(bounce) /\ PlayRight(rejection)
  <2>1. SUFFICES ASSUME res # <<>>, sup # <<>> PROVE PlayRight(bounce) /\ PlayRight(rejection)
    OBVIOUS
  <2>2. "bounce" \in Calls /\ "rejection" \notin Calls
    BY DEF Calls
  <2>3. PICK p \in Nat, q \in Nat : p = res[1].price /\ q = sup[1].price /\ q < p
    BY <1>3, <1>4, <1>5, <2>1
  <2>4. PlayRight(bounce)
    BY <1>5, <2>1, <2>2, <2>3, CallRight
  <2>5. PlayRight(rejection)
    BY <1>4, <2>1, <2>2, <2>3, PutRight
  <2>6. QED
    BY <2>4, <2>5
<1> HIDE DEF breakout, breakdown, bounce, rejection
<1>9. QED
  BY <1>2, <1>6, <1>7, <1>8

\* The trade of the screener.  The ceilings and floors it looks at are highs and lows of bars.
HighsOf == {bars[i].high : i \in SwingHighs}
LowsOf == {bars[i].low : i \in SwingLows}

LEMMA SwingPrices ==
  ASSUME ChartType
  PROVE  /\ HighsOf \in SUBSET Nat /\ LowsOf \in SUBSET Nat
         /\ \A top \in Nat : Bounded(top) => \A x \in LowsOf : x <= top
<1>1. \A i \in DOMAIN bars : bars[i].high \in Nat /\ bars[i].low \in Nat /\ bars[i].low <= bars[i].high
  BY BarsAre DEF Solid
<1>2. SwingHighs \subseteq DOMAIN bars /\ SwingLows \subseteq DOMAIN bars
  BY DEF SwingHighs, SwingLows
<1>3. QED
  BY <1>1, <1>2 DEF HighsOf, LowsOf, Bounded

LEMMA TriggerIs ==
  ASSUME ChartType, Len(bars) >= 1
  PROVE  /\ Trigger \in Nat /\ Spot <= Trigger
         /\ Peaks # {} => Trigger = Min(Peaks) /\ Spot < Trigger
<1>1. Spot \in Nat \ {0} /\ High52 \in Nat /\ Spot <= High52
  BY SpotIs, ExtremesAre
<1>2. CASE Peaks = {}
  BY <1>1, <1>2 DEF Trigger
<1>3. CASE Peaks # {}
  <2>1. Peaks \in SUBSET Nat
    BY SwingPrices DEF Peaks, HighsOf
  <2>2. Min(Peaks) \in Peaks
    BY <1>3, <2>1, LeastExists
  <2>3. Trigger = Min(Peaks)
    BY <1>3 DEF Trigger
  <2>4. Trigger \in Nat /\ Trigger * 1000 > Spot * 1001
    BY <2>1, <2>2, <2>3 DEF Peaks
  <2>5. QED
    BY <1>1, <2>3, <2>4
<1>4. QED
  BY <1>2, <1>3

LEMMA StopIs ==
  ASSUME ChartType, Len(bars) >= 1
  PROVE  /\ Stop \in Nat /\ Stop <= Spot
         /\ Troughs # {} => Stop < Spot
<1>1. Spot \in Nat \ {0} /\ Low52 \in Nat /\ Low52 <= Spot
  BY SpotIs, ExtremesAre
<1>2. CASE Troughs = {}
  BY <1>1, <1>2 DEF Stop
<1>3. CASE Troughs # {}
  <2>1. Troughs \in SUBSET Nat /\ Troughs \subseteq LowsOf
    BY SwingPrices DEF Troughs, LowsOf
  <2>2. PICK top \in Nat : Bounded(top)
    BY DEF ChartType
  <2>3. \A x \in Troughs : x <= top
    BY <2>1, <2>2, SwingPrices
  <2>4. Max(Troughs) \in Troughs
    BY <1>3, <2>1, <2>2, <2>3, GreatestExists
  <2>5. Stop = Max(Troughs)
    BY <1>3 DEF Stop
  <2>6. Stop \in Nat /\ Stop * 1000 < Spot * 999
    BY <2>1, <2>4, <2>5 DEF Troughs
  <2>7. QED
    BY <1>1, <2>5, <2>6
<1>4. QED
  BY <1>2, <1>3

LEMMA TargetIs ==
  ASSUME ChartType, Len(bars) >= 1, Target # None
  PROVE  Trigger < Target
<1>1. Trigger \in Nat /\ Stop \in Nat /\ Atr \in Nat /\ Spot \in Nat /\ Spot <= Trigger
  BY TriggerIs, StopIs, AtrType, SpotIs
<1>2. CASE Higher # {}
  <2>1. Higher \in SUBSET Nat
    BY SwingPrices DEF Higher, HighsOf
  <2>2. Min(Higher) \in Higher
    BY <1>2, <2>1, LeastExists
  <2>3. Target = Min(Higher)
    BY <1>2 DEF Target
  <2>4. Target \in Nat /\ Target * 1000 > Trigger * 1001
    BY <2>1, <2>2, <2>3 DEF Higher
  <2>5. QED
    BY <1>1, <2>4
<1>3. CASE Higher = {} /\ Troughs # {}
  BY <1>1, <1>3, StopIs DEF Target
<1>4. CASE Higher = {} /\ Troughs = {}
  BY <1>1, <1>4 DEF Target
<1>5. QED
  BY <1>2, <1>3, <1>4

\* In blue sky the price is at the top: the highest bar is a swing high.
LEMMA BlueSky ==
  ASSUME ChartType, Len(bars) >= 1, Peaks = {}
  PROVE  High52 * 1000 <= Spot * 1001
<1> DEFINE highs == {bars[i].high : i \in DOMAIN bars}
<1>1. \A i \in DOMAIN bars : bars[i].high \in Nat
  BY BarsAre DEF Solid
<1>2. highs \in SUBSET Nat /\ highs # {}
  BY <1>1, SpotIs
<1>3. PICK top \in Nat : Bounded(top)
  BY DEF ChartType
<1>4. \A x \in highs : x <= top
  BY <1>3 DEF Bounded
<1>5. /\ \A i \in DOMAIN bars : bars[i].high \in highs
      /\ \A x \in highs : \E i \in DOMAIN bars : x = bars[i].high
  OBVIOUS
<1> HIDE DEF highs
<1>6. Max(highs) \in highs /\ \A y \in highs : y <= Max(highs)
  BY <1>2, <1>3, <1>4, GreatestExists
<1>7. PICK k \in DOMAIN bars : bars[k].high = Max(highs)
  BY <1>5, <1>6
<1>8. \A i \in DOMAIN bars : bars[k].high >= bars[i].high
  BY <1>1, <1>5, <1>6, <1>7
<1>9. k \in SwingHighs
  BY <1>8 DEF SwingHighs, Near
<1>10. ~(bars[k].high * 1000 > Spot * 1001)
  BY <1>9 DEF Peaks
<1>11. PICK i \in DOMAIN bars : High52 = bars[i].high
  BY ExtremesAre
<1>12. PICK x \in Nat, y \in Nat, s \in Nat : x = bars[k].high /\ y = High52 /\ s = Spot
  BY <1>1, <1>11, SpotIs
<1>13. y <= x /\ ~(x * 1000 > s * 1001)
  BY <1>8, <1>10, <1>11, <1>12
<1>14. y * 1000 <= s * 1001
  BY <1>13
<1>15. QED
  BY <1>12, <1>14

LEMMA NotChased ==
  ASSUME ChartType, Len(bars) >= 1, NEW r \in Readings, Classification(r) = "imminent"
  PROVE  (Trigger - Spot) * 10000 <= 751 * Spot
<1>1. Proximity >= 600
  BY DEF Classification
<1>2. Spot \in Nat \ {0} /\ Trigger \in Nat
  BY SpotIs, TriggerIs
<1>3. CASE Peaks = {}
  <2>1. Trigger = High52 /\ High52 * 1000 <= Spot * 1001
    BY <1>3, BlueSky DEF Trigger
  <2>2. QED
    BY <1>2, <2>1
<1>4. CASE Peaks # {}
  <2>1. Min(Peaks) = Trigger /\ Spot < Trigger
    BY <1>4, TriggerIs
  <2>2. PICK bonus \in {0, 100} :
          bonus = IF (High52 - Spot) * 20000 <= 1001 * Spot THEN 100 ELSE 0
    OBVIOUS
  <2>3. Proximity = Pressed(Spot, Trigger, bonus)
    BY <1>4, <2>1, <2>2 DEF Proximity, Pressed
  <2>4. PICK s \in Nat \ {0}, t \in Nat : s = Spot /\ t = Trigger
    BY <1>2
  <2>5. Pressed(s, t, bonus) >= 600 /\ t > s
    BY <1>1, <2>1, <2>3, <2>4
  <2>6. (t - s) * 10000 <= 751 * s
    BY <2>5, ProximityReached
  <2>7. QED
    BY <2>4, <2>6
<1>5. QED
  BY <1>3, <1>4

\* Every trade read off a chart has its stop on the losing side and its target on the winning
\* side, and what is called imminent is not chased: for any bars, lengths, windows and readings.
THEOREM TradesAreRight == ChartSpec => []TradesPointTheRightWay
<1>1. ChartInit => ChartType
  BY DEF ChartInit, ChartType, Bounded
<1>2. ChartType /\ [NextBar]_bars => ChartType'
  <2> SUFFICES ASSUME ChartType, [NextBar]_bars
               PROVE  ChartType'
    OBVIOUS
  <2>1. CASE UNCHANGED bars
    BY <2>1 DEF ChartType, Bounded
  <2>2. CASE NextBar
    <3>0. PICK market \in Markets : \E bar \in market : bars' = Append(bars, bar)
      BY <2>2 DEF NextBar
    <3>1. PICK bar \in market : bars' = Append(bars, bar)
      BY <3>0
    <3>2. PICK top \in Nat : Bounded(top)
      BY DEF ChartType
    <3>3. bar.high \in Nat
      BY ChartAssumption
    <3>4. bars' \in Seq(UNION Markets) /\ DOMAIN bars' = 1..(Len(bars) + 1) /\ Len(bars) \in Nat
          /\ \A i \in DOMAIN bars' : bars'[i] = IF i = Len(bars) + 1 THEN bar ELSE bars[i]
      BY <3>1 DEF ChartType
    <3>5. PICK higher \in Nat : top <= higher /\ bar.high <= higher
      BY <3>3
    <3>6. \A i \in DOMAIN bars' : bars'[i].high <= higher
      <4>1. SUFFICES ASSUME NEW i \in DOMAIN bars' PROVE bars'[i].high <= higher
        OBVIOUS
      <4>2. CASE i = Len(bars) + 1
        BY <3>4, <3>5, <4>2
      <4>3. CASE i # Len(bars) + 1
        <5>1. i \in DOMAIN bars /\ bars'[i] = bars[i]
          BY <3>4, <4>3, BarsAre
        <5>2. bars[i].high \in Nat /\ bars[i].high <= top
          BY <3>2, <5>1, BarsAre DEF Bounded, Solid
        <5>3. QED
          BY <3>5, <5>1, <5>2
      <4>4. QED
        BY <4>2, <4>3
    <3>7. QED
      BY <3>4, <3>6 DEF ChartType, Bounded
  <2>3. QED
    BY <2>1, <2>2
<1>3. ChartType => TradesPointTheRightWay
  <2> SUFFICES ASSUME ChartType, Len(bars) >= MinBars
               PROVE  /\ \A play \in Playbook : PlayRight(play)
                      /\ Stop <= Spot /\ Spot <= Trigger
                      /\ Target # None => Trigger < Target
                      /\ (\E r \in Readings : Classification(r) = "imminent")
                            => (Trigger - Spot) * 10000 <= 751 * Spot
    BY DEF TradesPointTheRightWay, PlayRight
  <2>1. Len(bars) >= 1
    BY BarsAre, ChartAssumption
  <2>2. QED
    BY <2>1, PlaysRight, StopIs, TriggerIs, TargetIs, NotChased
<1>4. QED
  BY <1>1, <1>2, <1>3, PTL DEF ChartSpec

-----------------------------------------------------------------------------
(* Tape: one more print.  The sum of a function over a finite set, as a constant expression. *)

SumOf(f, S) == (CHOOSE it : IsSum(it, f, S))[S]

LEMMA SumOfIs ==
  ASSUME NEW S, IsFiniteSet(S), NEW f, NEW A, IsFiniteSet(A), S \subseteq A, NEW it, IsSum(it, f, A)
  PROVE  SumOf(f, S) = it[S]
<1> DEFINE own == CHOOSE a : IsSum(a, f, S)
<1>1. IsSum(own, f, S)
  BY SumExists
<1> HIDE DEF own
<1>2. A \in SUBSET A /\ S \in SUBSET A /\ S \subseteq S
  OBVIOUS
<1>3. own[S] = it[S]
  BY <1>1, <1>2, SumUnique
<1>4. QED
  BY <1>3 DEF SumOf, own

LEMMA SumStepAt ==
  ASSUME NEW f, NEW S, NEW it, IsSum(it, f, S), NEW s, s \in SUBSET S, s # {}
  PROVE  Pick(s) \in s /\ it[s] = f[Pick(s)] + it[s \ {Pick(s)}]
BY SumStep

\* Any member may be taken out first.
LEMMA SumTakeOut ==
  ASSUME NEW S, IsFiniteSet(S), NEW f, \A x \in S : f[x] \in Nat, NEW it, IsSum(it, f, S),
         NEW T \in SUBSET S, NEW x \in T
  PROVE  it[T] = f[x] + it[T \ {x}]
<1> DEFINE Bad == {t \in SUBSET S : \E y \in t : it[t] # f[y] + it[t \ {y}]}
<1>1. SUFFICES ASSUME Bad # {}
               PROVE  FALSE
  BY DEF Bad
<1>2. PICK t \in Bad : \A u \in SUBSET t : u # t => u \notin Bad
  <2>1. Bad \subseteq SUBSET S
    OBVIOUS
  <2> HIDE DEF Bad
  <2>2. HasLeast(Bad)
    BY <1>1, <2>1, LeastSubset
  <2>3. QED
    BY <2>2 DEF HasLeast
<1>3. PICK y \in t : it[t] # f[y] + it[t \ {y}]
  BY <1>2
<1>4. PICK c : c = Pick(t)
  OBVIOUS
<1>5. t \in SUBSET S
  BY <1>2
<1>6. c \in t /\ it[t] = f[c] + it[t \ {c}]
  <2> HIDE DEF Bad
  <2>1. t # {}
    BY <1>3
  <2>2. Pick(t) \in t /\ it[t] = f[Pick(t)] + it[t \ {Pick(t)}]
    BY <1>5, <2>1, SumStepAt
  <2>3. QED
    BY <1>4, <2>2
<1>7. c # y
  BY <1>3, <1>6
<1>8. PICK u, v, w : u = t \ {c} /\ v = t \ {y} /\ w = u \ {y}
  OBVIOUS
<1>9. /\ u \in SUBSET t /\ u # t /\ v \in SUBSET t /\ v # t
      /\ y \in u /\ c \in v /\ w = v \ {c} /\ u \in SUBSET S /\ v \in SUBSET S
  BY <1>3, <1>5, <1>6, <1>7, <1>8
<1>10. it[u] = f[y] + it[w]
  <2>1. u \notin Bad
    BY <1>2, <1>9
  <2>2. QED
    BY <2>1, <1>8, <1>9
<1>11. it[v] = f[c] + it[w]
  <2>1. v \notin Bad
    BY <1>2, <1>9
  <2>2. QED
    BY <2>1, <1>9
<1>12. it[w] \in Nat
  <2>1. w \in SUBSET S /\ IsFiniteSet(w)
    BY <1>8, <1>9, FS_Subset
  <2>2. \A z \in w : f[z] \in Nat
    BY <2>1
  <2>3. PICK own : IsSum(own, f, w)
    BY <2>1, SumExists
  <2>4. own[w] \in Nat
    BY <2>1, <2>2, <2>3, SumNat
  <2>5. SumOf(f, w) = it[w] /\ SumOf(f, w) = own[w]
    BY <2>1, <2>3, SumOfIs
  <2>6. QED
    BY <2>4, <2>5
<1>13. f[y] \in Nat /\ f[c] \in Nat
  BY <1>3, <1>5, <1>6
<1>14. QED
  BY <1>3, <1>6, <1>8, <1>10, <1>11, <1>12, <1>13

LEMMA SumOfNat ==
  ASSUME NEW S, IsFiniteSet(S), NEW f, \A x \in S : f[x] \in Nat
  PROVE  SumOf(f, S) \in Nat
<1>1. PICK it : IsSum(it, f, S)
  BY SumExists
<1>2. it[S] \in Nat
  BY <1>1, SumNat
<1>3. SumOf(f, S) = it[S]
  BY <1>1, SumOfIs
<1>4. QED
  BY <1>2, <1>3

LEMMA SumOfAdd ==
  ASSUME NEW S, IsFiniteSet(S), NEW x, x \notin S, NEW f,
         \A y \in S : f[y] \in Nat, f[x] \in Nat
  PROVE  SumOf(f, S \cup {x}) = SumOf(f, S) + f[x]
<1>1. PICK T : T = S \cup {x}
  OBVIOUS
<1>2. IsFiniteSet(T) /\ S \subseteq T /\ x \in T /\ T \ {x} = S /\ \A y \in T : f[y] \in Nat
  BY <1>1, FS_AddElement
<1>3. PICK it : IsSum(it, f, T)
  BY <1>2, SumExists
<1>4. it[T] = f[x] + it[T \ {x}]
  BY <1>2, <1>3, SumTakeOut
<1>5. SumOf(f, T) = it[T] /\ SumOf(f, S) = it[S]
  BY <1>2, <1>3, SumOfIs
<1>6. SumOf(f, S) \in Nat
  BY SumOfNat
<1>7. PICK a \in Nat, b \in Nat : a = SumOf(f, S) /\ b = f[x]
  BY <1>6
<1>8. SumOf(f, T) = b + a
  BY <1>2, <1>4, <1>5, <1>7
<1>9. QED
  BY <1>1, <1>7, <1>8

\* Only what it is on the set matters.
LEMMA SumOfSame ==
  ASSUME NEW S, IsFiniteSet(S), NEW f, NEW g, \A x \in S : f[x] = g[x]
  PROVE  SumOf(f, S) = SumOf(g, S)
<1>1. PICK it : IsSum(it, f, S)
  BY SumExists
<1>2. IsSum(it, g, S)
  <2>1. \A s \in SUBSET S : s # {} => f[Pick(s)] = g[Pick(s)]
    BY DEF Pick
  <2>2. SumBody(it, f, S) = SumBody(it, g, S)
    BY <2>1 DEF SumBody
  <2>3. QED
    BY <1>1, <2>2 DEF IsSum
<1>3. QED
  BY <1>1, <1>2, SumOfIs

LEMMA LastExists ==
  ASSUME NEW S \in SUBSET Nat, IsFiniteSet(S), S # {}
  PROVE  Max(S) \in S /\ \A y \in S : y <= Max(S)
<1>1. Cardinality(S) \in Nat /\ Cardinality(S) # 0
  BY FS_CardinalityType, FS_EmptySet
<1>2. PICK top \in Nat : top = DayOf(S, Cardinality(S))
  <2>1. Cardinality(S) \in 1..Cardinality(S)
    BY <1>1
  <2>2. DayOf(S, Cardinality(S)) \in S
    BY <2>1, DayOfIs
  <2>3. QED
    BY <2>2
<1>3. ASSUME NEW y \in S
      PROVE  y <= top
  <2>1. PICK k \in 1..Cardinality(S) : DayOf(S, k) = y
    BY DayOfFinds
  <2>2. CASE k = Cardinality(S)
    BY <1>2, <2>1, <2>2
  <2>3. CASE k # Cardinality(S)
    <3>1. k < Cardinality(S) /\ Cardinality(S) \in 1..Cardinality(S)
      BY <1>1, <2>3
    <3>2. DayOf(S, k) < DayOf(S, Cardinality(S))
      BY <3>1, DaysAscend
    <3>3. QED
      BY <1>2, <2>1, <3>2
  <2>4. QED
    BY <2>2, <2>3
<1>4. \A y \in S : y <= top
  BY <1>3
<1>5. QED
  BY <1>2, <1>4, GreatestExists

\* Quotients, rounded down.
LEMMA QuotientAtLeast ==
  ASSUME NEW a \in Int, NEW d \in Nat \ {0}, NEW q \in Int, d * q <= a
  PROVE  a \div d \in Int /\ a \div d >= q
<1>1. PICK r \in Int : r = a \div d /\ a < d * r + d
  BY DivBounds
<1>2. PICK x, y \in Int : x = d * q /\ y = d * r
  OBVIOUS
<1>3. d * (q - r) < d
  <2>1. d * (q - r) = x - y
    BY <1>2
  <2>2. QED
    BY <1>1, <1>2, <2>1
<1>4. ~(q - r >= 1)
  <2>1. q - r >= 1 => d * (q - r) >= d
    OBVIOUS
  <2>2. QED
    BY <1>3, <2>1
<1>5. QED
  BY <1>1, <1>4

LEMMA QuotientAtMost ==
  ASSUME NEW a \in Int, NEW d \in Nat \ {0}, NEW q \in Int, a < d * q + d
  PROVE  a \div d \in Int /\ a \div d <= q
<1>1. PICK r \in Int : r = a \div d /\ d * r <= a
  BY DivBounds
<1>2. PICK x, y \in Int : x = d * q /\ y = d * r
  OBVIOUS
<1>3. d * (r - q) < d
  <2>1. d * (r - q) = y - x
    BY <1>2
  <2>2. QED
    BY <1>1, <1>2, <2>1
<1>4. ~(r - q >= 1)
  <2>1. r - q >= 1 => d * (r - q) >= d
    OBVIOUS
  <2>2. QED
    BY <1>3, <2>1
<1>5. QED
  BY <1>1, <1>4

LEMMA QuotientGrows ==
  ASSUME NEW a \in Int, NEW b \in Int, a <= b, NEW d \in Nat \ {0}
  PROVE  a \div d \in Int /\ b \div d \in Int /\ a \div d <= b \div d
<1>1. PICK q \in Int : q = a \div d /\ d * q <= a
  BY DivBounds
<1>2. d * q <= b
  <2>1. PICK x \in Int : x = d * q
    OBVIOUS
  <2>2. QED
    BY <1>1, <2>1
<1>3. QED
  BY <1>1, <1>2, QuotientAtLeast

\* One more value that is not below a weighted mean does not lower it, one not above an
\* average does not raise it, and a share grows with both its part and its whole.
LEMMA MeanHolds ==
  ASSUME NEW s \in Nat, NEW t \in Nat \ {0}, NEW c \in Nat, NEW w \in Nat, c >= s \div t
  PROVE  (s + c * w) \div (t + w) >= s \div t
<1>1. PICK q \in Int : q = s \div t /\ t * q <= s
  BY DivBounds
<1>2. PICK x, y, z \in Int : x = t * q /\ y = w * q /\ z = c * w
  OBVIOUS
<1>3. y <= z
  <2>1. w * (c - q) >= 0
    BY <1>1
  <2>2. w * (c - q) = z - y
    BY <1>2
  <2>3. QED
    BY <1>2, <2>1, <2>2
<1>4. PICK a \in Int, d \in Nat \ {0} : a = s + z /\ d = t + w
  OBVIOUS
<1>5. d * q <= a
  <2>1. d * q = x + y
    BY <1>2, <1>4
  <2>2. QED
    BY <1>1, <1>2, <1>3, <1>4, <2>1
<1>6. a \div d >= q
  BY <1>5, QuotientAtLeast
<1>7. QED
  BY <1>1, <1>2, <1>4, <1>6

LEMMA AverageHolds ==
  ASSUME NEW s \in Nat, NEW n \in Nat \ {0}, NEW r \in Nat, r <= s \div n
  PROVE  (s + r) \div (n + 1) <= s \div n
<1>1. PICK q \in Int : q = s \div n /\ s < n * q + n
  BY DivBounds
<1>2. PICK x \in Int : x = n * q
  OBVIOUS
<1>3. PICK a \in Int, d \in Nat \ {0} : a = s + r /\ d = n + 1
  OBVIOUS
<1>4. d * q = x + q
  BY <1>2, <1>3
<1>5. a < d * q + d
  BY <1>1, <1>2, <1>3, <1>4
<1>6. a \div d <= q
  BY <1>5, QuotientAtMost
<1>7. QED
  BY <1>1, <1>3, <1>6

LEMMA ShareGrows ==
  ASSUME NEW k \in Nat, NEW n \in Nat \ {0}, k <= n, NEW z \in Nat
  PROVE  (1000 * k) \div n \in Nat /\ (1000 * (k + z)) \div (n + z) >= (1000 * k) \div n
<1>1. PICK q \in Int : q = (1000 * k) \div n /\ n * q <= 1000 * k
  BY DivBounds
<1>2. q <= 1000
  <2>1. 1000 * k < n * 1000 + n
    OBVIOUS
  <2>2. QED
    BY <1>1, <2>1, QuotientAtMost
<1>3. q >= 0
  <2>1. n * 0 <= 1000 * k
    OBVIOUS
  <2>2. QED
    BY <1>1, <2>1, QuotientAtLeast
<1>4. PICK x, y \in Int : x = n * q /\ y = z * q
  OBVIOUS
<1>5. y <= 1000 * z
  <2>1. z * (1000 - q) >= 0
    BY <1>2
  <2>2. z * (1000 - q) = 1000 * z - y
    BY <1>4
  <2>3. QED
    BY <1>4, <2>1, <2>2
<1>6. PICK a \in Int, d \in Nat \ {0} : a = 1000 * (k + z) /\ d = n + z
  OBVIOUS
<1>7. d * q = x + y
  BY <1>4, <1>6
<1>8. d * q <= a
  BY <1>1, <1>4, <1>5, <1>6, <1>7
<1>9. a \div d >= q
  BY <1>8, QuotientAtLeast
<1>10. QED
  BY <1>1, <1>3, <1>6, <1>9

LEMMA BoughtGrows ==
  ASSUME NEW a \in Nat, NEW b \in Nat, a <= b
  PROVE  BoughtScore(a) \in Nat /\ BoughtScore(b) \in Nat /\ BoughtScore(a) <= BoughtScore(b)
<1> DEFINE curve == <<339, 417, 500, 583, 661, 731, 791, 841, 881, 912, 935, 953, 966>>
<1>1. \A i \in 1..12 : curve[i] \in Nat /\ curve[i + 1] \in Nat /\ curve[i] <= curve[i + 1]
  OBVIOUS
<1>2. \A i, j \in 1..13 : i <= j => curve[i] \in Nat /\ curve[j] \in Nat /\ curve[i] <= curve[j]
  OBVIOUS
<1>3. PICK i, j \in 1..13 : /\ i = Min({a, 12}) + 1 /\ j = Min({b, 12}) + 1 /\ i <= j
  BY MinOfTwo
<1> HIDE DEF curve
<1>4. BoughtScore(a) = curve[i] /\ BoughtScore(b) = curve[j]
  BY <1>3 DEF BoughtScore, curve
<1>5. QED
  BY <1>2, <1>3, <1>4

LEMMA ClampGrows ==
  ASSUME NEW a \in Int, NEW b \in Int, a <= b
  PROVE  Clamp(a) \in 0..1000 /\ Clamp(b) \in 0..1000 /\ Clamp(a) <= Clamp(b)
BY DEF Clamp, One

\* One more value.
ValueMore(f, g, S, x, v) ==
  /\ \A i \in S : f[i] = g[i] /\ f[i] \in Nat
  /\ IsFiniteSet(S) /\ x \notin S /\ g[x] = v /\ v \in Nat

LEMMA SumOfMore ==
  ASSUME NEW S, NEW f, NEW g, NEW x, NEW v, ValueMore(f, g, S, x, v)
  PROVE  SumOf(f, S) \in Nat /\ SumOf(g, S \cup {x}) = SumOf(f, S) + v
<1> USE DEF ValueMore
<1>1. \A i \in S : f[i] \in Nat
  OBVIOUS
<1>2. \A i \in S : g[i] \in Nat
  OBVIOUS
<1>3. SumOf(f, S) \in Nat
  BY <1>1, SumOfNat
<1>4. SumOf(f, S) = SumOf(g, S)
  BY SumOfSame
<1>5. SumOf(g, S \cup {x}) = SumOf(g, S) + g[x]
  BY <1>2, SumOfAdd
<1>6. QED
  BY <1>3, <1>4, <1>5

-----------------------------------------------------------------------------
(* What the views compute, of a log of prints and places in it. *)

PremiumIn(log) == [i \in DOMAIN log |-> log[i].premium]
WeightedIn(log) == [i \in DOMAIN log |-> log[i].confidence * log[i].premium]
RankIn(log) == [i \in DOMAIN log |-> log[i].ivRank]
SizeIn(log) == [i \in DOMAIN log |-> log[i].size]
ContractIn(log, i) == [ticker |-> log[i].ticker, call |-> log[i].call, line |-> log[i].line]

HitAsk(log, S) == {i \in S : log[i].side = "ask"}
OpeningOnes(log, S) == {i \in S : log[i].opening}
VolOis(log, S) == {log[i].volOi : i \in S}
ContractsOf(log, S) == {ContractIn(log, i) : i \in S}

ConvictionIn(log, S) == SumOf(WeightedIn(log), S) \div SumOf(PremiumIn(log), S)
RankAvgIn(log, S) == SumOf(RankIn(log), S) \div Cardinality(S)
VolOiIn(log, S) == Clamp((2 * (Max(VolOis(log, S)) - 500)) \div 19)
BreadthIn(log, S) == Clamp((1000 * (Cardinality(ContractsOf(log, S)) - 1)) \div 9)
OpeningIn(log, S) ==
  IF Cardinality(S) < 3 THEN 0 ELSE (1000 * Cardinality(OpeningOnes(log, S))) \div Cardinality(S)
BoughtIn(log, S) == BoughtScore(SumOf(PremiumIn(log), HitAsk(log, S)))

ScoreIn(log, S) ==
  (30 * BoughtIn(log, S) + 20 * VolOiIn(log, S) + 15 * OpeningIn(log, S)
     + 10 * (One - RankAvgIn(log, S)) + 15 * ConvictionIn(log, S) + 10 * BreadthIn(log, S)) \div 100

\* A log, one more print, and places in the log.
OneMore(log, p, more, x, S) ==
  /\ log \in Seq(Prints) /\ p \in Prints /\ more = Append(log, p) /\ x = Len(log) + 1
  /\ S \in SUBSET DOMAIN log

SoundPrint(p) ==
  /\ p.premium \in Nat \ {0} /\ p.size \in Nat /\ p.volOi \in Nat
  /\ p.ivRank \in Nat /\ p.confidence \in Nat

LEMMA PrintIsSound == ASSUME NEW p \in Prints PROVE SoundPrint(p)
<1>1. /\ p.premium \in Nat \ {0} /\ p.size \in Nat /\ p.volOi \in Nat
      /\ p.ivRank \in 0..One /\ p.confidence \in 0..One
  BY TapeAssumption
<1>2. \A v \in 0..1000 : v \in Nat
  OBVIOUS
<1>3. One = 1000
  BY DEF One
<1>4. p.ivRank \in Nat /\ p.confidence \in Nat
  <2>1. p.ivRank \in 0..1000 /\ p.confidence \in 0..1000
    BY <1>1, <1>3
  <2>2. QED
    BY <1>2, <2>1
<1>5. QED
  BY <1>1, <1>4 DEF SoundPrint

LEMMA PrintsAreSound ==
  ASSUME NEW log, log \in Seq(Prints), NEW i \in DOMAIN log
  PROVE  SoundPrint(log[i]) /\ i \in Nat
<1>1. log[i] \in Prints /\ i \in Nat
  OBVIOUS
<1>2. QED
  BY <1>1, PrintIsSound

LEMMA OneMoreIs ==
  ASSUME NEW log, NEW p, NEW more, NEW x, NEW S, OneMore(log, p, more, x, S)
  PROVE  /\ IsFiniteSet(S) /\ Cardinality(S) \in Nat
         /\ x \notin S /\ x \in DOMAIN more /\ more[x] = p /\ SoundPrint(p)
         /\ \A i \in S : i \in DOMAIN more /\ i \in DOMAIN log /\ more[i] = log[i] /\ SoundPrint(log[i])
<1>1. Len(log) \in Nat /\ DOMAIN log = 1..Len(log)
  BY DEF OneMore
<1>2. PICK n \in Nat : n = Len(log)
  BY <1>1
<1>3. IsFiniteSet(1..n)
  BY FS_Interval
<1>4. IsFiniteSet(S) /\ Cardinality(S) \in Nat
  BY <1>1, <1>2, <1>3, FS_Subset, FS_CardinalityType DEF OneMore
<1>5. /\ x \notin S /\ x \in DOMAIN more /\ more[x] = p
      /\ \A i \in S : i \in DOMAIN more /\ i \in DOMAIN log /\ more[i] = log[i]
  BY <1>1 DEF OneMore
<1>6. \A i \in S : SoundPrint(log[i])
  BY <1>5, PrintsAreSound DEF OneMore
<1>7. SoundPrint(p)
  BY PrintIsSound DEF OneMore
<1>8. QED
  BY <1>4, <1>5, <1>6, <1>7

LEMMA PremiumMore ==
  ASSUME NEW log, NEW p, NEW more, NEW x, NEW S, OneMore(log, p, more, x, S)
  PROVE  /\ SumOf(PremiumIn(log), S) \in Nat
         /\ SumOf(PremiumIn(more), S \cup {x}) = SumOf(PremiumIn(log), S) + p.premium
<1>1. \A i \in S : PremiumIn(log)[i] = PremiumIn(more)[i] /\ PremiumIn(log)[i] \in Nat
  BY OneMoreIs DEF PremiumIn, SoundPrint
<1>2. PremiumIn(more)[x] = p.premium /\ p.premium \in Nat /\ IsFiniteSet(S) /\ x \notin S
  BY OneMoreIs DEF PremiumIn, SoundPrint
<1>3. PICK v \in Nat : v = p.premium
  BY <1>2
<1>4. ValueMore(PremiumIn(log), PremiumIn(more), S, x, v)
  BY <1>1, <1>2, <1>3 DEF ValueMore
<1>5. QED
  BY <1>3, <1>4, SumOfMore

LEMMA WeightedMore ==
  ASSUME NEW log, NEW p, NEW more, NEW x, NEW S, OneMore(log, p, more, x, S)
  PROVE  /\ SumOf(WeightedIn(log), S) \in Nat
         /\ SumOf(WeightedIn(more), S \cup {x}) = SumOf(WeightedIn(log), S) + p.confidence * p.premium
<1>1. \A i \in S : WeightedIn(log)[i] = WeightedIn(more)[i] /\ WeightedIn(log)[i] \in Nat
  BY OneMoreIs DEF WeightedIn, SoundPrint
<1>2. WeightedIn(more)[x] = p.confidence * p.premium /\ p.confidence * p.premium \in Nat
      /\ IsFiniteSet(S) /\ x \notin S
  BY OneMoreIs DEF WeightedIn, SoundPrint
<1>3. PICK v \in Nat : v = p.confidence * p.premium
  BY <1>2
<1>4. ValueMore(WeightedIn(log), WeightedIn(more), S, x, v)
  BY <1>1, <1>2, <1>3 DEF ValueMore
<1>5. QED
  BY <1>3, <1>4, SumOfMore

LEMMA RankMore ==
  ASSUME NEW log, NEW p, NEW more, NEW x, NEW S, OneMore(log, p, more, x, S)
  PROVE  /\ SumOf(RankIn(log), S) \in Nat
         /\ SumOf(RankIn(more), S \cup {x}) = SumOf(RankIn(log), S) + p.ivRank
<1>1. \A i \in S : RankIn(log)[i] = RankIn(more)[i] /\ RankIn(log)[i] \in Nat
  BY OneMoreIs DEF RankIn, SoundPrint
<1>2. RankIn(more)[x] = p.ivRank /\ p.ivRank \in Nat /\ IsFiniteSet(S) /\ x \notin S
  BY OneMoreIs DEF RankIn, SoundPrint
<1>3. PICK v \in Nat : v = p.ivRank
  BY <1>2
<1>4. ValueMore(RankIn(log), RankIn(more), S, x, v)
  BY <1>1, <1>2, <1>3 DEF ValueMore
<1>5. QED
  BY <1>3, <1>4, SumOfMore

LEMMA SizeMore ==
  ASSUME NEW log, NEW p, NEW more, NEW x, NEW S, OneMore(log, p, more, x, S)
  PROVE  /\ SumOf(SizeIn(log), S) \in Nat
         /\ SumOf(SizeIn(more), S \cup {x}) = SumOf(SizeIn(log), S) + p.size
<1>1. \A i \in S : SizeIn(log)[i] = SizeIn(more)[i] /\ SizeIn(log)[i] \in Nat
  BY OneMoreIs DEF SizeIn, SoundPrint
<1>2. SizeIn(more)[x] = p.size /\ p.size \in Nat /\ IsFiniteSet(S) /\ x \notin S
  BY OneMoreIs DEF SizeIn, SoundPrint
<1>3. PICK v \in Nat : v = p.size
  BY <1>2
<1>4. ValueMore(SizeIn(log), SizeIn(more), S, x, v)
  BY <1>1, <1>2, <1>3 DEF ValueMore
<1>5. QED
  BY <1>3, <1>4, SumOfMore

LEMMA SumPositive ==
  ASSUME NEW S, IsFiniteSet(S), S # {}, NEW f, \A y \in S : f[y] \in Nat \ {0}
  PROVE  SumOf(f, S) \in Nat \ {0}
<1>1. PICK x \in S : TRUE
  OBVIOUS
<1>2. PICK T : T = S \ {x}
  OBVIOUS
<1>3. /\ IsFiniteSet(T) /\ x \notin T /\ T \cup {x} = S
      /\ f[x] \in Nat /\ f[x] # 0 /\ \A y \in T : f[y] \in Nat
  BY <1>2, FS_Subset
<1>4. SumOf(f, T) \in Nat
  BY <1>3, SumOfNat
<1>5. SumOf(f, T \cup {x}) = SumOf(f, T) + f[x]
  BY <1>3, SumOfAdd
<1>6. PICK a \in Nat, b \in Nat \ {0} : a = SumOf(f, T) /\ b = f[x]
  BY <1>3, <1>4
<1>7. SumOf(f, S) = a + b
  BY <1>3, <1>5, <1>6
<1>8. QED
  BY <1>6, <1>7

LEMMA PremiumPositive ==
  ASSUME NEW log, NEW p, NEW more, NEW x, NEW S, OneMore(log, p, more, x, S), S # {}
  PROVE  SumOf(PremiumIn(log), S) \in Nat \ {0}
<1>1. \A i \in S : PremiumIn(log)[i] \in Nat \ {0}
  BY OneMoreIs DEF PremiumIn, SoundPrint
<1>2. IsFiniteSet(S)
  BY OneMoreIs
<1>3. QED
  BY <1>1, <1>2, SumPositive

-----------------------------------------------------------------------------
(* One more strong print lowers no part of the score. *)

LEMMA ConvictionHolds ==
  ASSUME NEW log, NEW p, NEW more, NEW x, NEW S, OneMore(log, p, more, x, S), S # {},
         p.confidence >= ConvictionIn(log, S)
  PROVE  /\ ConvictionIn(log, S) \in Int /\ ConvictionIn(more, S \cup {x}) \in Int
         /\ ConvictionIn(more, S \cup {x}) >= ConvictionIn(log, S)
<1>1. SoundPrint(p)
  BY OneMoreIs
<1>2. PICK c, w \in Nat : c = p.confidence /\ w = p.premium
  BY <1>1 DEF SoundPrint
<1>3. PICK s \in Nat : s = SumOf(WeightedIn(log), S)
  BY WeightedMore
<1>4. PICK t \in Nat \ {0} : t = SumOf(PremiumIn(log), S)
  BY PremiumPositive
<1>5. SumOf(WeightedIn(more), S \cup {x}) = s + c * w /\ SumOf(PremiumIn(more), S \cup {x}) = t + w
  BY <1>2, <1>3, <1>4, WeightedMore, PremiumMore
<1>6. ConvictionIn(log, S) = s \div t /\ ConvictionIn(more, S \cup {x}) = (s + c * w) \div (t + w)
  BY <1>3, <1>4, <1>5 DEF ConvictionIn
<1>7. (s + c * w) \div (t + w) >= s \div t
  BY <1>2, <1>6, MeanHolds
<1>8. s \div t \in Int
  BY DivBounds
<1>9. PICK a \in Nat, d \in Nat \ {0} : a = s + c * w /\ d = t + w
  <2>1. PICK y \in Nat : y = c * w
    OBVIOUS
  <2>2. s + y \in Nat /\ t + w \in Nat \ {0}
    OBVIOUS
  <2>3. QED
    BY <2>1, <2>2
<1>10. a \div d \in Int
  BY DivBounds
<1>11. QED
  BY <1>6, <1>7, <1>8, <1>9, <1>10

LEMMA RankHolds ==
  ASSUME NEW log, NEW p, NEW more, NEW x, NEW S, OneMore(log, p, more, x, S), S # {},
         p.ivRank <= RankAvgIn(log, S)
  PROVE  /\ RankAvgIn(log, S) \in Int /\ RankAvgIn(more, S \cup {x}) \in Int
         /\ RankAvgIn(more, S \cup {x}) <= RankAvgIn(log, S)
<1>1. SoundPrint(p) /\ IsFiniteSet(S) /\ x \notin S
  BY OneMoreIs
<1>2. PICK r \in Nat : r = p.ivRank
  BY <1>1 DEF SoundPrint
<1>3. PICK s \in Nat : s = SumOf(RankIn(log), S)
  BY RankMore
<1>4. PICK n \in Nat \ {0} : n = Cardinality(S)
  BY <1>1, FS_CardinalityType, FS_EmptySet
<1>5. SumOf(RankIn(more), S \cup {x}) = s + r
  BY <1>2, <1>3, RankMore
<1>6. Cardinality(S \cup {x}) = n + 1
  BY <1>1, <1>4, FS_AddElement
<1>7. RankAvgIn(log, S) = s \div n /\ RankAvgIn(more, S \cup {x}) = (s + r) \div (n + 1)
  BY <1>3, <1>4, <1>5, <1>6 DEF RankAvgIn
<1>8. (s + r) \div (n + 1) <= s \div n
  BY <1>2, <1>7, AverageHolds
<1>9. s \div n \in Int
  BY DivBounds
<1>10. (s + r) \div (n + 1) \in Int
  <2>1. PICK a \in Nat, d \in Nat \ {0} : a = s + r /\ d = n + 1
    OBVIOUS
  <2>2. a \div d \in Int
    BY DivBounds
  <2>3. QED
    BY <2>1, <2>2
<1>11. QED
  BY <1>7, <1>8, <1>9, <1>10

LEMMA BoughtHolds ==
  ASSUME NEW log, NEW p, NEW more, NEW x, NEW S, OneMore(log, p, more, x, S), p.side = "ask"
  PROVE  /\ BoughtIn(log, S) \in Nat /\ BoughtIn(more, S \cup {x}) \in Nat
         /\ BoughtIn(more, S \cup {x}) >= BoughtIn(log, S)
<1>1. PICK H : H = HitAsk(log, S)
  OBVIOUS
<1>2. HitAsk(more, S \cup {x}) = H \cup {x}
  BY <1>1, OneMoreIs DEF HitAsk
<1>3. OneMore(log, p, more, x, H)
  BY <1>1 DEF OneMore, HitAsk
<1>4. SoundPrint(p)
  BY OneMoreIs
<1>5. PICK a, w \in Nat : a = SumOf(PremiumIn(log), H) /\ w = p.premium
  BY <1>3, <1>4, PremiumMore DEF SoundPrint
<1>6. SumOf(PremiumIn(more), H \cup {x}) = a + w
  BY <1>3, <1>5, PremiumMore
<1>7. PICK b \in Nat : b = a + w /\ a <= b
  OBVIOUS
<1>8. BoughtIn(log, S) = BoughtScore(a) /\ BoughtIn(more, S \cup {x}) = BoughtScore(b)
  BY <1>1, <1>2, <1>5, <1>6, <1>7 DEF BoughtIn
<1>9. QED
  BY <1>7, <1>8, BoughtGrows

LEMMA VolOiHolds ==
  ASSUME NEW log, NEW p, NEW more, NEW x, NEW S, OneMore(log, p, more, x, S), S # {}
  PROVE  /\ VolOiIn(log, S) \in Nat /\ VolOiIn(more, S \cup {x}) \in Nat
         /\ VolOiIn(more, S \cup {x}) >= VolOiIn(log, S)
<1>1. PICK V, W : V = VolOis(log, S) /\ W = VolOis(more, S \cup {x})
  OBVIOUS
<1>2. V \in SUBSET Nat /\ V # {}
  BY <1>1, OneMoreIs DEF VolOis, SoundPrint
<1>3. W = V \cup {p.volOi} /\ p.volOi \in Nat
  BY <1>1, OneMoreIs DEF VolOis, SoundPrint
<1>4. IsFiniteSet(V)
  <2>1. IsFiniteSet(S)
    BY OneMoreIs
  <2>2. PICK f : f = [i \in S |-> log[i].volOi]
    OBVIOUS
  <2>3. IsFiniteSet({f[i] : i \in S})
    BY <2>1, ImageFinite
  <2>4. {f[i] : i \in S} = V
    BY <1>1, <2>2 DEF VolOis
  <2>5. QED
    BY <2>3, <2>4
<1>5. IsFiniteSet(W) /\ W \in SUBSET Nat /\ W # {}
  BY <1>2, <1>3, <1>4, FS_AddElement
<1>6. PICK v \in Nat : v = Max(V) /\ v \in V
  BY <1>2, <1>4, LastExists
<1>7. PICK w \in Nat : w = Max(W) /\ \A y \in W : y <= w
  BY <1>5, LastExists
<1>8. v <= w
  BY <1>3, <1>6, <1>7
<1>9. PICK a, b \in Int : a = 2 * (v - 500) /\ b = 2 * (w - 500) /\ a <= b
  BY <1>8
<1>10. PICK c, d \in Int : c = a \div 19 /\ d = b \div 19 /\ c <= d
  <2>1. a \div 19 \in Int /\ b \div 19 \in Int /\ a \div 19 <= b \div 19
    BY <1>9, QuotientGrows
  <2>2. QED
    BY <2>1
<1>11. VolOiIn(log, S) = Clamp(c) /\ VolOiIn(more, S \cup {x}) = Clamp(d)
  BY <1>1, <1>6, <1>7, <1>9, <1>10 DEF VolOiIn
<1>12. Clamp(c) \in 0..1000 /\ Clamp(d) \in 0..1000 /\ Clamp(c) <= Clamp(d)
  BY <1>10, ClampGrows
<1>13. \A y \in 0..1000 : y \in Nat
  OBVIOUS
<1>14. Clamp(c) \in Nat /\ Clamp(d) \in Nat
  BY <1>12, <1>13
<1>15. PICK e, f \in Nat : e = Clamp(c) /\ f = Clamp(d) /\ e <= f
  BY <1>12, <1>14
<1>16. QED
  BY <1>11, <1>15

LEMMA BreadthHolds ==
  ASSUME NEW log, NEW p, NEW more, NEW x, NEW S, OneMore(log, p, more, x, S)
  PROVE  /\ BreadthIn(log, S) \in Nat /\ BreadthIn(more, S \cup {x}) \in Nat
         /\ BreadthIn(more, S \cup {x}) >= BreadthIn(log, S)
<1>1. PICK V, W : V = ContractsOf(log, S) /\ W = ContractsOf(more, S \cup {x})
  OBVIOUS
<1>2. \A i \in S : ContractIn(more, i) = ContractIn(log, i)
  BY OneMoreIs DEF ContractIn
<1>3. W = V \cup {ContractIn(more, x)}
  BY <1>1, <1>2 DEF ContractsOf
<1>4. IsFiniteSet(V)
  <2>1. IsFiniteSet(S)
    BY OneMoreIs
  <2>2. PICK f : f = [i \in S |-> ContractIn(log, i)]
    OBVIOUS
  <2>3. IsFiniteSet({f[i] : i \in S})
    BY <2>1, ImageFinite
  <2>4. {f[i] : i \in S} = V
    BY <1>1, <2>2 DEF ContractsOf
  <2>5. QED
    BY <2>3, <2>4
<1>5. IsFiniteSet(W)
  BY <1>3, <1>4, FS_AddElement
<1>6. PICK v, w \in Nat : v = Cardinality(V) /\ w = Cardinality(W) /\ v <= w
  <2>1. V \subseteq W
    BY <1>3
  <2>2. Cardinality(V) \in Nat /\ Cardinality(W) \in Nat /\ Cardinality(V) <= Cardinality(W)
    BY <1>4, <1>5, <2>1, FS_Subset, FS_CardinalityType
  <2>3. QED
    BY <2>2
<1>7. PICK a, b \in Int : a = 1000 * (v - 1) /\ b = 1000 * (w - 1) /\ a <= b
  BY <1>6
<1>8. PICK c, d \in Int : c = a \div 9 /\ d = b \div 9 /\ c <= d
  <2>1. a \div 9 \in Int /\ b \div 9 \in Int /\ a \div 9 <= b \div 9
    BY <1>7, QuotientGrows
  <2>2. QED
    BY <2>1
<1>9. BreadthIn(log, S) = Clamp(c) /\ BreadthIn(more, S \cup {x}) = Clamp(d)
  BY <1>1, <1>6, <1>7, <1>8 DEF BreadthIn
<1>10. Clamp(c) \in 0..1000 /\ Clamp(d) \in 0..1000 /\ Clamp(c) <= Clamp(d)
  BY <1>8, ClampGrows
<1>11. \A y \in 0..1000 : y \in Nat
  OBVIOUS
<1>12. Clamp(c) \in Nat /\ Clamp(d) \in Nat
  BY <1>10, <1>11
<1>13. PICK e, f \in Nat : e = Clamp(c) /\ f = Clamp(d) /\ e <= f
  BY <1>10, <1>12
<1>14. QED
  BY <1>9, <1>13

LEMMA OpeningHolds ==
  ASSUME NEW log, NEW p, NEW more, NEW x, NEW S, OneMore(log, p, more, x, S), p.opening
  PROVE  /\ OpeningIn(log, S) \in Nat /\ OpeningIn(more, S \cup {x}) \in Nat
         /\ OpeningIn(more, S \cup {x}) >= OpeningIn(log, S)
<1>1. PICK O : O = OpeningOnes(log, S)
  OBVIOUS
<1>2. O \subseteq S /\ OpeningOnes(more, S \cup {x}) = O \cup {x}
  BY <1>1, OneMoreIs DEF OpeningOnes
<1>3. IsFiniteSet(S) /\ x \notin S
  BY OneMoreIs
<1>4. IsFiniteSet(O) /\ x \notin O
  BY <1>2, <1>3, FS_Subset
<1>5. PICK n, k \in Nat : n = Cardinality(S) /\ k = Cardinality(O) /\ k <= n
  <2>1. Cardinality(S) \in Nat /\ Cardinality(O) \in Nat /\ Cardinality(O) <= Cardinality(S)
    BY <1>2, <1>3, <1>4, FS_Subset, FS_CardinalityType
  <2>2. QED
    BY <2>1
<1>6. Cardinality(S \cup {x}) = n + 1 /\ Cardinality(O \cup {x}) = k + 1
  BY <1>3, <1>4, <1>5, FS_AddElement
<1>7. /\ OpeningIn(log, S) = IF n < 3 THEN 0 ELSE (1000 * k) \div n
      /\ OpeningIn(more, S \cup {x}) = IF n + 1 < 3 THEN 0 ELSE (1000 * (k + 1)) \div (n + 1)
  <2>1. Cardinality(OpeningOnes(log, S)) = k /\ Cardinality(OpeningOnes(more, S \cup {x})) = k + 1
    BY <1>1, <1>2, <1>5, <1>6
  <2>2. Cardinality(S) = n /\ Cardinality(S \cup {x}) = n + 1
    BY <1>5, <1>6
  <2>3. QED
    BY <2>1, <2>2 DEF OpeningIn
<1>8. (1000 * (k + 1)) \div (n + 1) \in Nat
  <2>1. PICK a \in Nat, d \in Nat \ {0} : a = k + 1 /\ d = n + 1 /\ a <= d
    BY <1>5
  <2>2. (1000 * a) \div d \in Nat
    BY <2>1, ShareGrows
  <2>3. QED
    BY <2>1, <2>2
<1>9. CASE n < 3
  BY <1>7, <1>8, <1>9
<1>10. CASE n >= 3
  <2>1. n \in Nat \ {0} /\ 1 \in Nat
    BY <1>10
  <2>2. (1000 * k) \div n \in Nat /\ (1000 * (k + 1)) \div (n + 1) >= (1000 * k) \div n
    BY <1>5, <2>1, ShareGrows
  <2>3. QED
    BY <1>7, <1>8, <1>10, <2>2
<1>11. QED
  BY <1>9, <1>10

LEMMA ScoreGrows ==
  ASSUME NEW log, NEW p, NEW more, NEW x, NEW S, OneMore(log, p, more, x, S), S # {},
         p.side = "ask", p.opening,
         p.confidence >= ConvictionIn(log, S), p.ivRank <= RankAvgIn(log, S)
  PROVE  /\ ScoreIn(log, S) \in Int /\ ScoreIn(more, S \cup {x}) \in Int
         /\ ScoreIn(more, S \cup {x}) >= ScoreIn(log, S)
<1>1. PICK b1, v1, o1, r1, c1, k1 \in Int :
        /\ b1 = BoughtIn(log, S) /\ v1 = VolOiIn(log, S) /\ o1 = OpeningIn(log, S)
        /\ r1 = RankAvgIn(log, S) /\ c1 = ConvictionIn(log, S) /\ k1 = BreadthIn(log, S)
  <2>1. BoughtIn(log, S) \in Nat /\ VolOiIn(log, S) \in Nat /\ OpeningIn(log, S) \in Nat
    BY BoughtHolds, VolOiHolds, OpeningHolds
  <2>2. RankAvgIn(log, S) \in Int /\ ConvictionIn(log, S) \in Int /\ BreadthIn(log, S) \in Nat
    BY RankHolds, ConvictionHolds, BreadthHolds
  <2>3. QED
    BY <2>1, <2>2
<1>2. PICK T : T = S \cup {x}
  OBVIOUS
<1>3. PICK b2, v2, o2, r2, c2, k2 \in Int :
        /\ b2 = BoughtIn(more, T) /\ v2 = VolOiIn(more, T) /\ o2 = OpeningIn(more, T)
        /\ r2 = RankAvgIn(more, T) /\ c2 = ConvictionIn(more, T) /\ k2 = BreadthIn(more, T)
  <2>1. BoughtIn(more, T) \in Nat /\ VolOiIn(more, T) \in Nat /\ OpeningIn(more, T) \in Nat
    BY <1>2, BoughtHolds, VolOiHolds, OpeningHolds
  <2>2. RankAvgIn(more, T) \in Int /\ ConvictionIn(more, T) \in Int /\ BreadthIn(more, T) \in Nat
    BY <1>2, RankHolds, ConvictionHolds, BreadthHolds
  <2>3. QED
    BY <2>1, <2>2
<1>4. b1 <= b2 /\ v1 <= v2 /\ o1 <= o2 /\ r2 <= r1 /\ c1 <= c2 /\ k1 <= k2
  BY <1>1, <1>2, <1>3, BoughtHolds, VolOiHolds, OpeningHolds, RankHolds, ConvictionHolds, BreadthHolds
<1>5. One = 1000
  BY DEF One
<1>6. PICK a, b \in Int :
        /\ a = 30 * b1 + 20 * v1 + 15 * o1 + 10 * (One - r1) + 15 * c1 + 10 * k1
        /\ b = 30 * b2 + 20 * v2 + 15 * o2 + 10 * (One - r2) + 15 * c2 + 10 * k2
        /\ a <= b
  BY <1>4, <1>5
<1>7. ScoreIn(log, S) = a \div 100 /\ ScoreIn(more, T) = b \div 100
  BY <1>1, <1>3, <1>6 DEF ScoreIn
<1>8. a \div 100 \in Int /\ b \div 100 \in Int /\ a \div 100 <= b \div 100
  BY <1>6, QuotientGrows
<1>9. QED
  BY <1>2, <1>7, <1>8

-----------------------------------------------------------------------------
(* The views of the state are those of its log. *)

LEMMA PremiumSum ==
  ASSUME NEW S, IsFiniteSet(S), S \subseteq DOMAIN tape
  PROVE  Premiums(S) = SumOf(PremiumIn(tape), S)
<1> DEFINE body(iter) == [u \in SUBSET S |->
                            IF u = {} THEN 0 ELSE Premium(Pick(u)) + iter[u \ {Pick(u)}]]
           it == CHOOSE iter : iter = body(iter)
<1>1. Premiums(S) = it[S]
  BY DEF Premiums, Sum, MapThenSumSet, MapThenFoldSet, Pick
<1>2. \A iter : SumBody(iter, PremiumIn(tape), S) = body(iter)
  BY DEF SumBody, Pick, PremiumIn, Premium
<1>3. \E iter : iter = body(iter)
  <2> HIDE DEF body
  <2>1. \E iter : iter = SumBody(iter, PremiumIn(tape), S)
    BY SumExists DEF IsSum
  <2>2. QED
    BY <1>2, <2>1
<1> HIDE DEF body
<1>4. it = body(it)
  BY <1>3
<1> HIDE DEF it
<1>5. IsSum(it, PremiumIn(tape), S)
  BY <1>2, <1>4 DEF IsSum
<1>6. QED
  BY <1>1, <1>5, SumOfIs

LEMMA WeightedPremiumSum ==
  ASSUME NEW S, IsFiniteSet(S), S \subseteq DOMAIN tape
  PROVE  MapThenSumSet(LAMBDA i : tape[i].confidence * tape[i].premium, S) = SumOf(WeightedIn(tape), S)
<1> DEFINE body(iter) == [u \in SUBSET S |->
                            IF u = {} THEN 0 ELSE tape[Pick(u)].confidence * tape[Pick(u)].premium + iter[u \ {Pick(u)}]]
           it == CHOOSE iter : iter = body(iter)
<1>1. MapThenSumSet(LAMBDA i : tape[i].confidence * tape[i].premium, S) = it[S]
  BY DEF MapThenSumSet, MapThenFoldSet, Pick
<1>2. \A iter : SumBody(iter, WeightedIn(tape), S) = body(iter)
  BY DEF SumBody, Pick, WeightedIn
<1>3. \E iter : iter = body(iter)
  <2> HIDE DEF body
  <2>1. \E iter : iter = SumBody(iter, WeightedIn(tape), S)
    BY SumExists DEF IsSum
  <2>2. QED
    BY <1>2, <2>1
<1> HIDE DEF body
<1>4. it = body(it)
  BY <1>3
<1> HIDE DEF it
<1>5. IsSum(it, WeightedIn(tape), S)
  BY <1>2, <1>4 DEF IsSum
<1>6. QED
  BY <1>1, <1>5, SumOfIs

LEMMA RankSum ==
  ASSUME NEW S, IsFiniteSet(S), S \subseteq DOMAIN tape
  PROVE  MapThenSumSet(LAMBDA i : tape[i].ivRank, S) = SumOf(RankIn(tape), S)
<1> DEFINE body(iter) == [u \in SUBSET S |->
                            IF u = {} THEN 0 ELSE tape[Pick(u)].ivRank + iter[u \ {Pick(u)}]]
           it == CHOOSE iter : iter = body(iter)
<1>1. MapThenSumSet(LAMBDA i : tape[i].ivRank, S) = it[S]
  BY DEF MapThenSumSet, MapThenFoldSet, Pick
<1>2. \A iter : SumBody(iter, RankIn(tape), S) = body(iter)
  BY DEF SumBody, Pick, RankIn
<1>3. \E iter : iter = body(iter)
  <2> HIDE DEF body
  <2>1. \E iter : iter = SumBody(iter, RankIn(tape), S)
    BY SumExists DEF IsSum
  <2>2. QED
    BY <1>2, <2>1
<1> HIDE DEF body
<1>4. it = body(it)
  BY <1>3
<1> HIDE DEF it
<1>5. IsSum(it, RankIn(tape), S)
  BY <1>2, <1>4 DEF IsSum
<1>6. QED
  BY <1>1, <1>5, SumOfIs

LEMMA ConvictionIs ==
  ASSUME NEW t, NEW S, S = OfTicker(t), IsFiniteSet(S), S \subseteq DOMAIN tape
  PROVE  Conviction(t) = ConvictionIn(tape, S)
<1>1. Conviction(t) = MapThenSumSet(LAMBDA i : tape[i].confidence * tape[i].premium, S) \div Premiums(S)
  BY DEF Conviction, Sum, Premium, MapThenSumSet, MapThenFoldSet
<1>2. QED
  BY <1>1, WeightedPremiumSum, PremiumSum DEF ConvictionIn

LEMMA RankIs ==
  ASSUME NEW t, NEW S, S = OfTicker(t), IsFiniteSet(S), S \subseteq DOMAIN tape
  PROVE  AvgIvRank(t) = RankAvgIn(tape, S)
<1>1. AvgIvRank(t) = MapThenSumSet(LAMBDA i : tape[i].ivRank, S) \div Cardinality(S)
  BY DEF AvgIvRank, Sum, MapThenSumSet, MapThenFoldSet
<1>2. QED
  BY <1>1, RankSum DEF RankAvgIn

SideOf(log, S, side) == {i \in S : log[i].side = side}
VolumeIn(log, S, side) == SumOf(SizeIn(log), SideOf(log, S, side))

LEMMA SizeSum ==
  ASSUME NEW S, IsFiniteSet(S), S \subseteq DOMAIN tape
  PROVE  MapThenSumSet(LAMBDA i : tape[i].size, S) = SumOf(SizeIn(tape), S)
<1> DEFINE body(iter) == [u \in SUBSET S |->
                            IF u = {} THEN 0 ELSE tape[Pick(u)].size + iter[u \ {Pick(u)}]]
           it == CHOOSE iter : iter = body(iter)
<1>1. MapThenSumSet(LAMBDA i : tape[i].size, S) = it[S]
  BY DEF MapThenSumSet, MapThenFoldSet, Pick
<1>2. \A iter : SumBody(iter, SizeIn(tape), S) = body(iter)
  BY DEF SumBody, Pick, SizeIn
<1>3. \E iter : iter = body(iter)
  <2> HIDE DEF body
  <2>1. \E iter : iter = SumBody(iter, SizeIn(tape), S)
    BY SumExists DEF IsSum
  <2>2. QED
    BY <1>2, <2>1
<1> HIDE DEF body
<1>4. it = body(it)
  BY <1>3
<1> HIDE DEF it
<1>5. IsSum(it, SizeIn(tape), S)
  BY <1>2, <1>4 DEF IsSum
<1>6. QED
  BY <1>1, <1>5, SumOfIs

\* What the read API computes of a ticker and of a contract.
ScoresAgree ==
  \A t : /\ Premiums(OfTicker(t)) = SumOf(PremiumIn(tape), OfTicker(t))
         /\ Conviction(t) = ConvictionIn(tape, OfTicker(t))
         /\ AvgIvRank(t) = RankAvgIn(tape, OfTicker(t))
         /\ SmartMoney(t) = ScoreIn(tape, OfTicker(t))

RowsAgree ==
  \A c : /\ RollupRow(c).premium = SumOf(PremiumIn(tape), PrintsOf(c))
         /\ RollupRow(c).bought = VolumeIn(tape, PrintsOf(c), "ask")
         /\ RollupRow(c).sold = VolumeIn(tape, PrintsOf(c), "bid")

LEMMA PartsOfTheTape ==
  ASSUME TapeType, NEW S, S \subseteq InWindow
  PROVE  IsFiniteSet(S) /\ S \subseteq DOMAIN tape
<1>1. DOMAIN tape = 1..Len(tape) /\ Len(tape) \in Nat /\ old \in Nat
  BY DEF TapeType
<1>2. S \subseteq DOMAIN tape
  BY <1>1 DEF InWindow
<1>3. IsFiniteSet(1..Len(tape))
  BY <1>1, FS_Interval
<1>4. QED
  BY <1>1, <1>2, <1>3, FS_Subset

LEMMA ScoresAre == TapeType => ScoresAgree
<1>1. SUFFICES ASSUME TapeType, NEW t
               PROVE  /\ Premiums(OfTicker(t)) = SumOf(PremiumIn(tape), OfTicker(t))
                      /\ Conviction(t) = ConvictionIn(tape, OfTicker(t))
                      /\ AvgIvRank(t) = RankAvgIn(tape, OfTicker(t))
                      /\ SmartMoney(t) = ScoreIn(tape, OfTicker(t))
  BY DEF ScoresAgree
<1>2. PICK S, H : S = OfTicker(t) /\ H = HitAsk(tape, S)
  OBVIOUS
<1>3. S \subseteq InWindow /\ H \subseteq InWindow
  BY <1>2 DEF OfTicker, HitAsk
<1>4. IsFiniteSet(S) /\ S \subseteq DOMAIN tape /\ IsFiniteSet(H) /\ H \subseteq DOMAIN tape
  BY <1>1, <1>3, PartsOfTheTape
<1>5. Premiums(S) = SumOf(PremiumIn(tape), S) /\ Premiums(H) = SumOf(PremiumIn(tape), H)
  BY <1>4, PremiumSum
<1>6. Conviction(t) = ConvictionIn(tape, S)
  BY <1>2, <1>4, ConvictionIs
<1>7. AvgIvRank(t) = RankAvgIn(tape, S)
  BY <1>2, <1>4, RankIs
<1>8. BoughtScore(Premiums({i \in OfTicker(t) : tape[i].side = "ask"})) = BoughtIn(tape, S)
  BY <1>2, <1>5 DEF HitAsk, BoughtIn
<1>9. VolOiScore(t) = VolOiIn(tape, S)
  BY <1>2 DEF VolOiScore, VolOiIn, VolOis
<1>10. OpeningShare(t) = OpeningIn(tape, S)
  BY <1>2 DEF OpeningShare, OpeningIn, OpeningOnes
<1>11. Breadth(t) = BreadthIn(tape, S)
  BY <1>2 DEF Breadth, BreadthIn, ContractsOf, ContractIn, Contract
<1>12. SmartMoney(t) = ScoreIn(tape, S)
  BY <1>6, <1>7, <1>8, <1>9, <1>10, <1>11 DEF SmartMoney, ScoreIn
<1>13. QED
  BY <1>2, <1>5, <1>6, <1>7, <1>12

LEMMA RowsAre == TapeType => RowsAgree
<1>1. SUFFICES ASSUME TapeType, NEW c
               PROVE  /\ RollupRow(c).premium = SumOf(PremiumIn(tape), PrintsOf(c))
                      /\ RollupRow(c).bought = VolumeIn(tape, PrintsOf(c), "ask")
                      /\ RollupRow(c).sold = VolumeIn(tape, PrintsOf(c), "bid")
  BY DEF RowsAgree
<1>2. PICK S, A, B : S = PrintsOf(c) /\ A = SideOf(tape, S, "ask") /\ B = SideOf(tape, S, "bid")
  OBVIOUS
<1>3. S \subseteq InWindow /\ A \subseteq InWindow /\ B \subseteq InWindow
  BY <1>2 DEF PrintsOf, SideOf
<1>4. /\ IsFiniteSet(S) /\ S \subseteq DOMAIN tape
      /\ IsFiniteSet(A) /\ A \subseteq DOMAIN tape
      /\ IsFiniteSet(B) /\ B \subseteq DOMAIN tape
  BY <1>1, <1>3, PartsOfTheTape
<1>5. RollupRow(c).premium = SumOf(PremiumIn(tape), S)
  BY <1>2, <1>4, PremiumSum DEF RollupRow
<1>6. RollupRow(c).bought = SumOf(SizeIn(tape), A)
  <2>1. RollupRow(c).bought = MapThenSumSet(LAMBDA i : tape[i].size, A)
    BY <1>2 DEF RollupRow, Sum, SideOf, MapThenSumSet, MapThenFoldSet
  <2>2. QED
    BY <1>4, <2>1, SizeSum
<1>7. RollupRow(c).sold = SumOf(SizeIn(tape), B)
  <2>1. RollupRow(c).sold = MapThenSumSet(LAMBDA i : tape[i].size, B)
    BY <1>2 DEF RollupRow, Sum, SideOf, MapThenSumSet, MapThenFoldSet
  <2>2. QED
    BY <1>4, <2>1, SizeSum
<1>8. QED
  BY <1>2, <1>5, <1>6, <1>7 DEF VolumeIn

-----------------------------------------------------------------------------
(* A step that stores a print. *)

Stored(p) ==
  /\ TapeType /\ TapeType' /\ old <= Len(tape)
  /\ p \in Prints /\ tape' = Append(tape, p) /\ old' = old

Newest == Len(tape) + 1
ContractOf(p) == [ticker |-> p.ticker, call |-> p.call, line |-> p.line]
Qualifies(p) == p.opening /\ p.volOi >= UnusualVolOi /\ p.premium >= UnusualPremium

LEMMA StoredIs ==
  ASSUME NEW p, Stored(p)
  PROVE  /\ InWindow' = InWindow \cup {Newest} /\ Newest \notin InWindow
         /\ InWindow \subseteq DOMAIN tape /\ tape'[Newest] = p
         /\ \A i \in InWindow : i \in DOMAIN tape /\ tape'[i] = tape[i]
<1>1. /\ DOMAIN tape = 1..Len(tape) /\ Len(tape) \in Nat /\ old \in Nat /\ old <= Len(tape)
      /\ tape \in Seq(Prints) /\ tape' = Append(tape, p) /\ old' = old /\ p \in Prints
  BY DEF Stored, TapeType
<1>2. Len(tape') = Len(tape) + 1
  BY <1>1
<1>3. InWindow' = InWindow \cup {Newest} /\ Newest \notin InWindow /\ InWindow \subseteq DOMAIN tape
  BY <1>1, <1>2 DEF InWindow, Newest
<1>4. tape'[Newest] = p
  BY <1>1 DEF Newest
<1>5. \A i \in InWindow : i \in DOMAIN tape /\ tape'[i] = tape[i]
  BY <1>1, <1>3
<1>6. QED
  BY <1>3, <1>4, <1>5

LEMMA StoredMore ==
  ASSUME NEW p, Stored(p), NEW S, S \subseteq InWindow
  PROVE  OneMore(tape, p, tape', Newest, S)
BY StoredIs DEF OneMore, Stored, TapeType, Newest

LEMMA StoredParts ==
  ASSUME NEW p, Stored(p)
  PROVE  /\ \A t : OfTicker(t)' = IF t = p.ticker THEN OfTicker(t) \cup {Newest} ELSE OfTicker(t)
         /\ \A c : PrintsOf(c)' = IF c = ContractOf(p) THEN PrintsOf(c) \cup {Newest} ELSE PrintsOf(c)
         /\ Traded' = Traded \cup {ContractOf(p)}
         /\ Qualifying' = IF Qualifies(p) THEN Qualifying \cup {Newest} ELSE Qualifying
<1>0. PICK x : x = Newest
  OBVIOUS
<1>1. /\ InWindow' = InWindow \cup {x} /\ tape'[x] = p
      /\ \A i \in InWindow : tape'[i] = tape[i]
  BY <1>0, StoredIs
<1>2. Contract(x)' = ContractOf(p) /\ \A i \in InWindow : Contract(i)' = Contract(i)
  BY <1>1 DEF Contract, ContractOf
<1>3. \A t : OfTicker(t)' = IF t = p.ticker THEN OfTicker(t) \cup {Newest} ELSE OfTicker(t)
  BY <1>0, <1>1 DEF OfTicker
<1>4. \A c : PrintsOf(c)' = IF c = ContractOf(p) THEN PrintsOf(c) \cup {Newest} ELSE PrintsOf(c)
  BY <1>0, <1>1, <1>2 DEF PrintsOf
<1>5. Traded' = Traded \cup {ContractOf(p)}
  BY <1>1, <1>2 DEF Traded
<1>6. Qualifying' = IF Qualifies(p) THEN Qualifying \cup {Newest} ELSE Qualifying
  BY <1>0, <1>1 DEF Qualifying, Qualifies
<1>7. QED
  BY <1>3, <1>4, <1>5, <1>6

LEMMA StoredScores ==
  ASSUME NEW p, Stored(p)
  PROVE  ScoresAgree /\ ScoresAgree' /\ RowsAgree /\ RowsAgree'
<1>1. TapeType /\ TapeType'
  BY DEF Stored
<1>2. TapeType' => ScoresAgree'
  BY ScoresAre, PTL
<1>3. TapeType' => RowsAgree'
  BY RowsAre, PTL
<1>4. QED
  BY <1>1, <1>2, <1>3, ScoresAre, RowsAre

\* Every score is an integer, and what no print was added to keeps its score.
LEMMA SumsAre ==
  ASSUME NEW log, log \in Seq(Prints), NEW S, S \subseteq DOMAIN log
  PROVE  /\ IsFiniteSet(S)
         /\ \A T \in SUBSET S : SumOf(PremiumIn(log), T) \in Nat
         /\ \A T \in SUBSET S : SumOf(SizeIn(log), T) \in Nat
         /\ SumOf(WeightedIn(log), S) \in Nat /\ SumOf(RankIn(log), S) \in Nat
         /\ S # {} => SumOf(PremiumIn(log), S) \in Nat \ {0}
<1>1. DOMAIN log = 1..Len(log) /\ Len(log) \in Nat
  OBVIOUS
<1>2. IsFiniteSet(1..Len(log))
  BY <1>1, FS_Interval
<1>3. IsFiniteSet(S)
  BY <1>1, <1>2, FS_Subset
<1>4. \A i \in S : SoundPrint(log[i])
  BY PrintsAreSound
<1>5. /\ \A i \in S : PremiumIn(log)[i] \in Nat \ {0} /\ PremiumIn(log)[i] \in Nat
      /\ \A i \in S : SizeIn(log)[i] \in Nat
      /\ \A i \in S : WeightedIn(log)[i] \in Nat
      /\ \A i \in S : RankIn(log)[i] \in Nat
  BY <1>4 DEF PremiumIn, SizeIn, WeightedIn, RankIn, SoundPrint
<1>6. ASSUME NEW T \in SUBSET S
      PROVE  SumOf(PremiumIn(log), T) \in Nat /\ SumOf(SizeIn(log), T) \in Nat
  <2>1. IsFiniteSet(T)
    BY <1>3, FS_Subset
  <2>2. \A i \in T : PremiumIn(log)[i] \in Nat
    BY <1>5
  <2>3. \A i \in T : SizeIn(log)[i] \in Nat
    BY <1>5
  <2>4. QED
    BY <2>1, <2>2, <2>3, SumOfNat
<1>7. SumOf(WeightedIn(log), S) \in Nat /\ SumOf(RankIn(log), S) \in Nat
  BY <1>3, <1>5, SumOfNat
<1>8. S # {} => SumOf(PremiumIn(log), S) \in Nat \ {0}
  BY <1>3, <1>5, SumPositive
<1>9. QED
  BY <1>3, <1>6, <1>7, <1>8

LEMMA QuotientIsInteger == ASSUME NEW a \in Int, NEW d \in Nat \ {0} PROVE a \div d \in Int
BY DivBounds

LEMMA ScoreType ==
  ASSUME NEW log, log \in Seq(Prints), NEW S, S \subseteq DOMAIN log, S # {}
  PROVE  ScoreIn(log, S) \in Int
<1>1. IsFiniteSet(S)
  BY SumsAre
<1>2. PICK n \in Nat \ {0} : n = Cardinality(S)
  BY <1>1, FS_CardinalityType, FS_EmptySet
<1>3. PICK w, r \in Nat : w = SumOf(WeightedIn(log), S) /\ r = SumOf(RankIn(log), S)
  BY SumsAre
<1>4. PICK m \in Nat \ {0} : m = SumOf(PremiumIn(log), S)
  BY SumsAre
<1>5. ConvictionIn(log, S) \in Int /\ RankAvgIn(log, S) \in Int
  BY <1>2, <1>3, <1>4, QuotientIsInteger DEF ConvictionIn, RankAvgIn
<1>6. BoughtIn(log, S) \in Nat
  <2>1. HitAsk(log, S) \in SUBSET S
    BY DEF HitAsk
  <2>2. PICK a \in Nat : a = SumOf(PremiumIn(log), HitAsk(log, S))
    BY <2>1, SumsAre
  <2>3. a <= a /\ BoughtIn(log, S) = BoughtScore(a)
    BY <2>2 DEF BoughtIn
  <2>4. QED
    BY <2>3, BoughtGrows
<1>7. VolOiIn(log, S) \in Int
  <2>1. \A i \in S : log[i].volOi \in Nat
    BY PrintsAreSound DEF SoundPrint
  <2>2. VolOis(log, S) \in SUBSET Nat /\ VolOis(log, S) # {}
    BY <2>1 DEF VolOis
  <2>3. IsFiniteSet(VolOis(log, S))
    <3>1. PICK f : f = [i \in S |-> log[i].volOi]
      OBVIOUS
    <3>2. IsFiniteSet({f[i] : i \in S})
      BY <1>1, ImageFinite
    <3>3. {f[i] : i \in S} = VolOis(log, S)
      BY <3>1 DEF VolOis
    <3>4. QED
      BY <3>2, <3>3
  <2>4. PICK v \in Nat : v = Max(VolOis(log, S))
    BY <2>2, <2>3, LastExists
  <2>5. PICK a \in Int : a = 2 * (v - 500)
    OBVIOUS
  <2>6. PICK c \in Int : c = a \div 19
    OBVIOUS
  <2>7. VolOiIn(log, S) = Clamp(c)
    BY <2>4, <2>5, <2>6 DEF VolOiIn
  <2>8. QED
    BY <2>7 DEF Clamp, One
<1>8. BreadthIn(log, S) \in Int
  <2>1. IsFiniteSet(ContractsOf(log, S))
    <3>1. PICK f : f = [i \in S |-> ContractIn(log, i)]
      OBVIOUS
    <3>2. IsFiniteSet({f[i] : i \in S})
      BY <1>1, ImageFinite
    <3>3. {f[i] : i \in S} = ContractsOf(log, S)
      BY <3>1 DEF ContractsOf
    <3>4. QED
      BY <3>2, <3>3
  <2>2. PICK v \in Nat : v = Cardinality(ContractsOf(log, S))
    BY <2>1, FS_CardinalityType
  <2>3. PICK a \in Int : a = 1000 * (v - 1)
    OBVIOUS
  <2>4. PICK c \in Int : c = a \div 9
    OBVIOUS
  <2>5. BreadthIn(log, S) = Clamp(c)
    BY <2>2, <2>3, <2>4 DEF BreadthIn
  <2>6. QED
    BY <2>5 DEF Clamp, One
<1>9. OpeningIn(log, S) \in Int
  <2>1. OpeningOnes(log, S) \subseteq S
    BY DEF OpeningOnes
  <2>2. PICK k \in Nat : k = Cardinality(OpeningOnes(log, S))
    BY <1>1, <2>1, FS_Subset, FS_CardinalityType
  <2>3. PICK a \in Int : a = 1000 * k
    OBVIOUS
  <2>4. a \div n \in Int
    BY QuotientIsInteger
  <2>5. OpeningIn(log, S) = IF n < 3 THEN 0 ELSE a \div n
    BY <1>2, <2>2, <2>3 DEF OpeningIn
  <2>6. QED
    BY <2>4, <2>5
<1>10. PICK b, v, o, k, c, q \in Int :
         /\ b = BoughtIn(log, S) /\ v = VolOiIn(log, S) /\ o = OpeningIn(log, S)
         /\ k = RankAvgIn(log, S) /\ c = ConvictionIn(log, S) /\ q = BreadthIn(log, S)
  BY <1>5, <1>6, <1>7, <1>8, <1>9
<1>11. One = 1000
  BY DEF One
<1>12. PICK a \in Int : a = 30 * b + 20 * v + 15 * o + 10 * (One - k) + 15 * c + 10 * q
  BY <1>11
<1>13. ScoreIn(log, S) = a \div 100
  BY <1>10, <1>12 DEF ScoreIn
<1>14. QED
  BY <1>13

LEMMA QuietViews ==
  ASSUME NEW log, NEW p, NEW more, NEW x, NEW S, OneMore(log, p, more, x, S)
  PROVE  /\ ScoreIn(more, S) = ScoreIn(log, S)
         /\ SumOf(PremiumIn(more), S) = SumOf(PremiumIn(log), S)
         /\ SumOf(SizeIn(more), S) = SumOf(SizeIn(log), S)
<1>1. IsFiniteSet(S) /\ \A i \in S : i \in DOMAIN more /\ i \in DOMAIN log /\ more[i] = log[i]
  BY OneMoreIs
<1>2. SumOf(PremiumIn(more), S) = SumOf(PremiumIn(log), S)
  <2>1. \A i \in S : PremiumIn(more)[i] = PremiumIn(log)[i]
    BY <1>1 DEF PremiumIn
  <2>2. QED
    BY <1>1, <2>1, SumOfSame
<1>3. SumOf(SizeIn(more), S) = SumOf(SizeIn(log), S)
  <2>1. \A i \in S : SizeIn(more)[i] = SizeIn(log)[i]
    BY <1>1 DEF SizeIn
  <2>2. QED
    BY <1>1, <2>1, SumOfSame
<1>4. SumOf(WeightedIn(more), S) = SumOf(WeightedIn(log), S)
  <2>1. \A i \in S : WeightedIn(more)[i] = WeightedIn(log)[i]
    BY <1>1 DEF WeightedIn
  <2>2. QED
    BY <1>1, <2>1, SumOfSame
<1>5. SumOf(RankIn(more), S) = SumOf(RankIn(log), S)
  <2>1. \A i \in S : RankIn(more)[i] = RankIn(log)[i]
    BY <1>1 DEF RankIn
  <2>2. QED
    BY <1>1, <2>1, SumOfSame
<1>6. BoughtIn(more, S) = BoughtIn(log, S)
  <2>1. PICK H : H = HitAsk(log, S)
    OBVIOUS
  <2>2. HitAsk(more, S) = H /\ H \subseteq S /\ IsFiniteSet(H)
    BY <1>1, <2>1, FS_Subset DEF HitAsk
  <2>3. \A i \in H : PremiumIn(more)[i] = PremiumIn(log)[i]
    BY <1>1, <2>2 DEF PremiumIn
  <2>4. SumOf(PremiumIn(more), H) = SumOf(PremiumIn(log), H)
    BY <2>2, <2>3, SumOfSame
  <2>5. QED
    BY <2>1, <2>2, <2>4 DEF BoughtIn
<1>7. VolOis(more, S) = VolOis(log, S) /\ OpeningOnes(more, S) = OpeningOnes(log, S)
  BY <1>1 DEF VolOis, OpeningOnes
<1>8. ContractsOf(more, S) = ContractsOf(log, S)
  BY <1>1 DEF ContractsOf, ContractIn
<1>9. /\ VolOiIn(more, S) = VolOiIn(log, S) /\ OpeningIn(more, S) = OpeningIn(log, S)
      /\ BreadthIn(more, S) = BreadthIn(log, S) /\ RankAvgIn(more, S) = RankAvgIn(log, S)
      /\ ConvictionIn(more, S) = ConvictionIn(log, S)
  BY <1>2, <1>4, <1>5, <1>7, <1>8 DEF VolOiIn, OpeningIn, BreadthIn, RankAvgIn, ConvictionIn
<1>10. ScoreIn(more, S) = ScoreIn(log, S)
  BY <1>6, <1>9 DEF ScoreIn
<1>11. QED
  BY <1>2, <1>3, <1>10

-----------------------------------------------------------------------------
(* The leaderboard. *)

LEMMA SmartMoneyGrows ==
  ASSUME NEW p, Stored(p), Strong(p), OfTicker(p.ticker) # {}
  PROVE  /\ SmartMoney(p.ticker) \in Int /\ SmartMoney(p.ticker)' \in Int
         /\ SmartMoney(p.ticker)' >= SmartMoney(p.ticker)
<1>1. PICK t, S, x : t = p.ticker /\ S = OfTicker(t) /\ x = Newest
  OBVIOUS
<1>2. S \subseteq InWindow
  BY <1>1 DEF OfTicker
<1>3. OneMore(tape, p, tape', x, S)
  BY <1>1, <1>2, StoredMore
<1>4. OfTicker(t)' = S \cup {x}
  BY <1>1, StoredParts
<1>5. SmartMoney(t) = ScoreIn(tape, S) /\ Conviction(t) = ConvictionIn(tape, S)
      /\ AvgIvRank(t) = RankAvgIn(tape, S)
  BY <1>1, StoredScores DEF ScoresAgree
<1>6. SmartMoney(t)' = ScoreIn(tape', S \cup {x})
  <2>1. SmartMoney(t)' = ScoreIn(tape', OfTicker(t)')
    BY StoredScores DEF ScoresAgree
  <2>2. QED
    BY <1>4, <2>1
<1>7. p.side = "ask" /\ p.opening /\ p.confidence >= ConvictionIn(tape, S)
      /\ p.ivRank <= RankAvgIn(tape, S) /\ S # {}
  BY <1>1, <1>5 DEF Strong
<1>8. PICK log, more : log = tape /\ more = tape'
  OBVIOUS
<1>9. /\ ScoreIn(log, S) \in Int /\ ScoreIn(more, S \cup {x}) \in Int
      /\ ScoreIn(more, S \cup {x}) >= ScoreIn(log, S)
  <2>1. /\ OneMore(log, p, more, x, S) /\ S # {} /\ p.side = "ask" /\ p.opening
        /\ p.confidence >= ConvictionIn(log, S) /\ p.ivRank <= RankAvgIn(log, S)
    BY <1>3, <1>7, <1>8
  <2>2. QED
    BY <2>1, ScoreGrows
<1>10. QED
  BY <1>1, <1>5, <1>6, <1>8, <1>9

LEMMA OthersKeepTheirScore ==
  ASSUME NEW p, Stored(p), NEW t, t # p.ticker
  PROVE  /\ OfTicker(t)' = OfTicker(t)
         /\ Premiums(OfTicker(t))' = Premiums(OfTicker(t))
         /\ SmartMoney(t)' = SmartMoney(t)
         /\ OfTicker(t) # {} => SmartMoney(t) \in Int
<1>1. PICK S : S = OfTicker(t)
  OBVIOUS
<1>2. S \subseteq InWindow
  BY <1>1 DEF OfTicker
<1>3. OneMore(tape, p, tape', Newest, S)
  BY <1>2, StoredMore
<1>4. OfTicker(t)' = S
  BY <1>1, StoredParts
<1>5. Premiums(OfTicker(t)) = SumOf(PremiumIn(tape), S) /\ SmartMoney(t) = ScoreIn(tape, S)
  BY <1>1, StoredScores DEF ScoresAgree
<1>6. Premiums(OfTicker(t))' = SumOf(PremiumIn(tape'), S) /\ SmartMoney(t)' = ScoreIn(tape', S)
  <2>1. /\ Premiums(OfTicker(t))' = SumOf(PremiumIn(tape'), OfTicker(t)')
        /\ SmartMoney(t)' = ScoreIn(tape', OfTicker(t)')
    BY StoredScores DEF ScoresAgree, PremiumIn
  <2>2. QED
    BY <1>4, <2>1
<1>7. /\ ScoreIn(tape', S) = ScoreIn(tape, S)
      /\ SumOf(PremiumIn(tape'), S) = SumOf(PremiumIn(tape), S)
  BY <1>3, QuietViews
<1>8. S # {} => ScoreIn(tape, S) \in Int
  BY <1>3, ScoreType DEF OneMore
<1>9. QED
  BY <1>1, <1>4, <1>5, <1>6, <1>7, <1>8

LEMMA LeaderboardHolds ==
  ASSUME NEW p, Stored(p), Strong(p), p.ticker \in Leaderboard
  PROVE  p.ticker \in Leaderboard'
<1>1. PICK t, S, x : t = p.ticker /\ S = OfTicker(t) /\ x = Newest
  OBVIOUS
<1>2. t \in OnTheTape /\ t \in Universe /\ S # {} /\ Premiums(S) >= MinBoard
  BY <1>1 DEF Leaderboard, OnTheTape
<1>3. SmartMoney(t) \in Int /\ SmartMoney(t)' \in Int /\ SmartMoney(t)' >= SmartMoney(t)
  BY <1>1, <1>2, SmartMoneyGrows
<1>4. Premiums(OfTicker(t))' >= MinBoard
  <2>1. S \subseteq InWindow
    BY <1>1 DEF OfTicker
  <2>2. OneMore(tape, p, tape', x, S)
    BY <1>1, <2>1, StoredMore
  <2>3. PICK a, w \in Nat : a = SumOf(PremiumIn(tape), S) /\ w = p.premium
    <3>1. SoundPrint(p)
      BY <2>2, OneMoreIs
    <3>2. QED
      BY <2>2, <3>1, PremiumMore DEF SoundPrint
  <2>4. SumOf(PremiumIn(tape'), S \cup {x}) = a + w
    BY <2>2, <2>3, PremiumMore
  <2>5. Premiums(OfTicker(t))' = SumOf(PremiumIn(tape'), OfTicker(t)')
    BY StoredScores DEF ScoresAgree
  <2>6. OfTicker(t)' = S \cup {x}
    BY <1>1, StoredParts
  <2>7. Premiums(S) = a
    BY <1>1, <2>3, StoredScores DEF ScoresAgree
  <2>8. MinBoard \in Nat
    BY TapeAssumption
  <2>9. Premiums(OfTicker(t))' = a + w
    BY <2>4, <2>5, <2>6
  <2>10. QED
    BY <1>2, <2>3, <2>7, <2>8, <2>9
<1>5. OfTicker(t)' # {}
  BY <1>1, StoredParts
<1>6. t \in OnTheTape'
  BY <1>2, <1>4, <1>5 DEF OnTheTape
<1>7. PICK above, above2 : /\ above = {other \in OnTheTape : SmartMoney(other) > SmartMoney(t)}
                           /\ above2 = {other \in OnTheTape : SmartMoney(other) > SmartMoney(t)}'
  OBVIOUS
<1>8. ASSUME NEW other \in above2
      PROVE  other \in above
  <2>1. other \in OnTheTape' /\ SmartMoney(other)' > SmartMoney(t)'
    BY <1>7
  <2>2. other # t
    BY <1>3, <2>1
  <2>3. /\ OfTicker(other)' = OfTicker(other)
        /\ Premiums(OfTicker(other))' = Premiums(OfTicker(other))
        /\ SmartMoney(other)' = SmartMoney(other)
        /\ OfTicker(other) # {} => SmartMoney(other) \in Int
    BY <1>1, <2>2, OthersKeepTheirScore
  <2>4. other \in OnTheTape /\ OfTicker(other) # {}
    BY <2>1, <2>3 DEF OnTheTape
  <2>5. SmartMoney(other) > SmartMoney(t)
    BY <1>3, <2>1, <2>3, <2>4
  <2>6. QED
    BY <1>7, <2>4, <2>5
<1>9. /\ Cardinality(above2) <= Cardinality(above)
      /\ Cardinality(above2) \in Nat /\ Cardinality(above) \in Nat
  <2>1. above \subseteq Universe
    BY <1>7 DEF OnTheTape
  <2>2. IsFiniteSet(above)
    BY <2>1, TapeAssumption, FS_Subset
  <2>3. above2 \subseteq above
    BY <1>8
  <2>4. QED
    BY <2>2, <2>3, FS_Subset, FS_CardinalityType
<1>10. Cardinality(above) < BoardLimit /\ BoardLimit \in Nat
  BY <1>1, <1>7, TapeAssumption DEF Leaderboard
<1>11. Cardinality(above2) < BoardLimit
  BY <1>9, <1>10
<1>12. QED
  BY <1>1, <1>6, <1>7, <1>11 DEF Leaderboard

-----------------------------------------------------------------------------
(* The roll-up. *)

LEMMA RowGrows ==
  ASSUME NEW p, Stored(p), p.side = "ask", NEW c, c = ContractOf(p)
  PROVE  /\ RollupRow(c).premium \in Nat /\ RollupRow(c)'.premium \in Nat
         /\ RollupRow(c)'.premium >= RollupRow(c).premium
         /\ RollupRow(c).bought \in Nat /\ RollupRow(c).sold \in Nat
         /\ p.size \in Nat
         /\ RollupRow(c)'.bought = RollupRow(c).bought + p.size
         /\ RollupRow(c)'.sold = RollupRow(c).sold
<1>1. PICK S, x, A, B : /\ S = PrintsOf(c) /\ x = Newest
                        /\ A = SideOf(tape, S, "ask") /\ B = SideOf(tape, S, "bid")
  OBVIOUS
<1>2. S \subseteq InWindow /\ A \subseteq InWindow /\ B \subseteq InWindow
  BY <1>1 DEF PrintsOf, SideOf
<1>3. OneMore(tape, p, tape', x, S) /\ OneMore(tape, p, tape', x, A) /\ OneMore(tape, p, tape', x, B)
  BY <1>1, <1>2, StoredMore
<1>4. PrintsOf(c)' = S \cup {x}
  BY <1>1, StoredParts
<1>5. SideOf(tape', S \cup {x}, "ask") = A \cup {x} /\ SideOf(tape', S \cup {x}, "bid") = B
  <2>1. tape'[x] = p /\ \A i \in S : tape'[i] = tape[i]
    BY <1>1, <1>2, StoredIs
  <2>2. p.side # "bid"
    OBVIOUS
  <2>3. QED
    BY <1>1, <2>1, <2>2 DEF SideOf
<1>6. /\ RollupRow(c).premium = SumOf(PremiumIn(tape), S)
      /\ RollupRow(c).bought = SumOf(SizeIn(tape), A)
      /\ RollupRow(c).sold = SumOf(SizeIn(tape), B)
  BY <1>1, StoredScores DEF RowsAgree, VolumeIn
<1>7. /\ RollupRow(c)'.premium = SumOf(PremiumIn(tape'), S \cup {x})
      /\ RollupRow(c)'.bought = SumOf(SizeIn(tape'), A \cup {x})
      /\ RollupRow(c)'.sold = SumOf(SizeIn(tape'), B)
  <2>1. /\ RollupRow(c)'.premium = SumOf(PremiumIn(tape'), PrintsOf(c)')
        /\ RollupRow(c)'.bought = VolumeIn(tape', PrintsOf(c)', "ask")
        /\ RollupRow(c)'.sold = VolumeIn(tape', PrintsOf(c)', "bid")
    BY StoredScores DEF RowsAgree
  <2>2. QED
    BY <1>4, <1>5, <2>1 DEF VolumeIn
<1>8. SoundPrint(p)
  BY <1>3, OneMoreIs
<1>9. PICK a, b, d, w, z \in Nat :
        /\ a = SumOf(PremiumIn(tape), S) /\ b = SumOf(SizeIn(tape), A) /\ d = SumOf(SizeIn(tape), B)
        /\ w = p.premium /\ z = p.size
  <2>1. SumOf(PremiumIn(tape), S) \in Nat
    BY <1>3, PremiumMore
  <2>2. SumOf(SizeIn(tape), A) \in Nat /\ SumOf(SizeIn(tape), B) \in Nat
    BY <1>3, SizeMore
  <2>3. QED
    BY <1>8, <2>1, <2>2 DEF SoundPrint
<1>10. SumOf(PremiumIn(tape'), S \cup {x}) = a + w
  BY <1>3, <1>9, PremiumMore
<1>11. SumOf(SizeIn(tape'), A \cup {x}) = b + z
  BY <1>3, <1>9, SizeMore
<1>12. SumOf(SizeIn(tape'), B) = d
  BY <1>3, <1>9, QuietViews
<1>13. QED
  BY <1>6, <1>7, <1>9, <1>10, <1>11, <1>12

LEMMA OthersKeepTheirRow ==
  ASSUME NEW p, Stored(p), NEW c, c # ContractOf(p)
  PROVE  /\ RollupRow(c).premium \in Nat
         /\ RollupRow(c)'.premium = RollupRow(c).premium
<1>1. PICK S : S = PrintsOf(c)
  OBVIOUS
<1>2. S \subseteq InWindow
  BY <1>1 DEF PrintsOf
<1>3. OneMore(tape, p, tape', Newest, S)
  BY <1>2, StoredMore
<1>4. PrintsOf(c)' = S
  BY <1>1, StoredParts
<1>5. RollupRow(c).premium = SumOf(PremiumIn(tape), S)
  BY <1>1, StoredScores DEF RowsAgree
<1>6. RollupRow(c)'.premium = SumOf(PremiumIn(tape'), S)
  <2>1. RollupRow(c)'.premium = SumOf(PremiumIn(tape'), PrintsOf(c)')
    BY StoredScores DEF RowsAgree
  <2>2. QED
    BY <1>4, <2>1
<1>7. SumOf(PremiumIn(tape'), S) = SumOf(PremiumIn(tape), S)
  BY <1>3, QuietViews
<1>8. SumOf(PremiumIn(tape), S) \in Nat
  BY <1>3, PremiumMore
<1>9. QED
  BY <1>5, <1>6, <1>7, <1>8

LEMMA RollupHolds ==
  ASSUME NEW p, Stored(p), p.side = "ask", NEW c, c = ContractOf(p), c \in Rollup
  PROVE  c \in Rollup'
<1>1. c \in Traded /\ Traded' = Traded
  BY StoredParts DEF Rollup
<1>2. PICK above, above2 :
        /\ above = {other \in Traded : RollupRow(other).premium > RollupRow(c).premium}
        /\ above2 = {other \in Traded : RollupRow(other).premium > RollupRow(c).premium}'
  OBVIOUS
<1>3. /\ RollupRow(c).premium \in Nat /\ RollupRow(c)'.premium \in Nat
      /\ RollupRow(c)'.premium >= RollupRow(c).premium
  BY RowGrows
<1>4. ASSUME NEW other \in above2
      PROVE  other \in above
  <2>1. other \in Traded /\ RollupRow(other)'.premium > RollupRow(c)'.premium
    BY <1>1, <1>2
  <2>2. other # c
    BY <1>3, <2>1
  <2>3. RollupRow(other).premium \in Nat /\ RollupRow(other)'.premium = RollupRow(other).premium
    BY <2>2, OthersKeepTheirRow
  <2>4. RollupRow(other).premium > RollupRow(c).premium
    BY <1>3, <2>1, <2>3
  <2>5. QED
    BY <1>2, <2>1, <2>4
<1>5. IsFiniteSet(above)
  <2>1. TapeType
    BY DEF Stored
  <2>2. IsFiniteSet(InWindow)
    BY <2>1, PartsOfTheTape
  <2>3. PICK f : f = [i \in InWindow |-> Contract(i)]
    OBVIOUS
  <2>4. IsFiniteSet({f[i] : i \in InWindow})
    BY <2>2, ImageFinite
  <2>5. {f[i] : i \in InWindow} = Traded
    BY <2>3 DEF Traded
  <2>6. above \subseteq Traded
    BY <1>2
  <2>7. QED
    BY <2>4, <2>5, <2>6, FS_Subset
<1>6. /\ Cardinality(above2) <= Cardinality(above)
      /\ Cardinality(above2) \in Nat /\ Cardinality(above) \in Nat
  <2>1. above2 \subseteq above
    BY <1>4
  <2>2. QED
    BY <1>5, <2>1, FS_Subset, FS_CardinalityType
<1>7. Cardinality(above) < RollupLimit /\ RollupLimit \in Nat
  BY <1>2, TapeAssumption DEF Rollup
<1>8. Cardinality(above2) < RollupLimit
  BY <1>6, <1>7
<1>9. QED
  BY <1>1, <1>2, <1>8 DEF Rollup

LEMMA BullShareGrows ==
  ASSUME NEW p, Stored(p), p.side = "ask", NEW c, c = ContractOf(p)
  PROVE  BullShare(RollupRow(c))' >= BullShare(RollupRow(c))
<1>1. PICK b, s, z \in Nat : b = RollupRow(c).bought /\ s = RollupRow(c).sold /\ z = p.size
  BY RowGrows
<1>2. RollupRow(c)'.bought = b + z /\ RollupRow(c)'.sold = s
  BY <1>1, RowGrows
<1>3. BullShare(RollupRow(c)) = IF b + s = 0 THEN 0 ELSE (1000 * b) \div (b + s)
  BY <1>1 DEF BullShare
<1>4. BullShare(RollupRow(c))' = IF b + z + s = 0 THEN 0 ELSE (1000 * (b + z)) \div (b + z + s)
  BY <1>2 DEF BullShare
<1>5. CASE b + s = 0 /\ z = 0
  BY <1>3, <1>4, <1>5
<1>6. CASE b + s = 0 /\ z # 0
  <2>1. z \in Nat \ {0} /\ b = 0 /\ s = 0 /\ z <= z
    BY <1>6
  <2>2. (1000 * z) \div z \in Nat
    BY <2>1, ShareGrows
  <2>3. b + z = z /\ b + z + s = z
    BY <2>1
  <2>4. BullShare(RollupRow(c))' = (1000 * z) \div z
    BY <1>4, <2>1, <2>3
  <2>5. QED
    BY <1>3, <1>6, <2>2, <2>4
<1>7. CASE b + s # 0
  <2>1. PICK n \in Nat \ {0} : n = b + s /\ b <= n /\ n + z = b + z + s
    BY <1>7
  <2>2. (1000 * b) \div n \in Nat /\ (1000 * (b + z)) \div (n + z) >= (1000 * b) \div n
    BY <2>1, ShareGrows
  <2>3. n + z # 0
    BY <2>1
  <2>4. QED
    BY <1>3, <1>4, <2>1, <2>2, <2>3
<1>8. QED
  BY <1>5, <1>6, <1>7

-----------------------------------------------------------------------------
(* The screener's candidates. *)

QualifyingCalls(t) == {i \in Qualifying : tape[i].call /\ tape[i].ticker = t}

FlowOnlyOfCalls == \A t : QualifyingCalls(t) # {} => CallFlow(t) # NoFlow

LEMMA CallFlowIs == TapeType => FlowOnlyOfCalls
<1>1. SUFFICES ASSUME TapeType, NEW t, QualifyingCalls(t) # {}
               PROVE  CallFlow(t) # NoFlow
  BY DEF FlowOnlyOfCalls
<1>2. PICK V : V = {Premium(i) : i \in QualifyingCalls(t)}
  OBVIOUS
<1>3. QualifyingCalls(t) \subseteq InWindow
  BY DEF QualifyingCalls, Qualifying
<1>4. IsFiniteSet(QualifyingCalls(t)) /\ QualifyingCalls(t) \subseteq DOMAIN tape
  BY <1>1, <1>3, PartsOfTheTape
<1>5. \A i \in QualifyingCalls(t) : Premium(i) \in Nat
  BY <1>1, <1>4, PremiumOrder
<1>6. V \in SUBSET Nat /\ V # {}
  BY <1>1, <1>2, <1>5
<1>7. IsFiniteSet(V)
  <2>1. PICK f : f = [i \in QualifyingCalls(t) |-> Premium(i)]
    OBVIOUS
  <2>2. IsFiniteSet({f[i] : i \in QualifyingCalls(t)})
    BY <1>4, ImageFinite
  <2>3. {f[i] : i \in QualifyingCalls(t)} = V
    BY <1>2, <2>1
  <2>4. QED
    BY <2>2, <2>3
<1>8. Max(V) \in Nat
  BY <1>6, <1>7, LastExists
<1>9. CallFlow(t) = Max(V)
  BY <1>1, <1>2 DEF CallFlow, QualifyingCalls
<1>10. QED
  BY <1>8, <1>9, TapeAssumption

LEMMA BoostedIs ==
  ASSUME NEW t \in Universe
  PROVE  /\ Setups[t] \in Nat
         /\ Boosted(t) = Setups[t] \/ (Boosted(t) \in Nat /\ Boosted(t) >= Setups[t])
         /\ Boosted(t) \in Nat
         /\ CallFlow(t) = NoFlow => Boosted(t) = Setups[t]
         /\ CallFlow(t) # NoFlow => Boosted(t) = Min({One, Setups[t] + 80}) /\ Boosted(t) >= Setups[t]
<1>1. Setups[t] \in 0..One
  BY TapeAssumption
<1>2. One = 1000
  BY DEF One
<1>3. PICK s \in Nat : s = Setups[t] /\ s <= 1000
  <2>1. PICK s : s = Setups[t]
    OBVIOUS
  <2>2. s \in 0..1000
    BY <1>1, <1>2, <2>1
  <2>3. s \in Nat /\ s <= 1000
    BY <2>2
  <2>4. QED
    BY <2>1, <2>3
<1>4. PICK u \in Nat : u = Setups[t] + 80 /\ u >= s
  BY <1>3
<1>5. Min({1000, u}) = IF 1000 <= u THEN 1000 ELSE u
  BY MinOfTwo
<1>6. Min({One, Setups[t] + 80}) \in Nat /\ Min({One, Setups[t] + 80}) >= s
  BY <1>2, <1>3, <1>4, <1>5
<1>7. QED
  BY <1>3, <1>6 DEF Boosted

LEMMA OthersKeepTheirFlow ==
  ASSUME NEW p, Stored(p), NEW u, u # p.ticker
  PROVE  CallFlow(u)' = CallFlow(u) /\ Boosted(u)' = Boosted(u)
<1>1. PICK x : x = Newest
  OBVIOUS
<1>2. tape'[x] = p /\ \A i \in Qualifying : tape'[i] = tape[i]
  BY <1>1, StoredIs DEF Qualifying
<1>3. Qualifying' = Qualifying \/ Qualifying' = Qualifying \cup {x}
  BY <1>1, StoredParts
<1>4. QualifyingCalls(u)' = QualifyingCalls(u)
  BY <1>2, <1>3 DEF QualifyingCalls
<1>5. \A i \in QualifyingCalls(u) : Premium(i)' = Premium(i)
  BY <1>2 DEF QualifyingCalls, Premium
<1>6. PICK C, V : C = QualifyingCalls(u) /\ V = {Premium(i) : i \in C}
  OBVIOUS
<1>7. CallFlow(u) = IF C = {} THEN NoFlow ELSE Max(V)
  BY <1>6 DEF CallFlow, QualifyingCalls
<1>8. QualifyingCalls(u)' = C /\ {Premium(i) : i \in QualifyingCalls(u)}' = V
  BY <1>4, <1>5, <1>6
<1>9. CallFlow(u)' = IF C = {} THEN NoFlow ELSE Max(V)
  <2>1. PICK C2, V2 : C2 = QualifyingCalls(u)' /\ V2 = {Premium(i) : i \in QualifyingCalls(u)}'
    OBVIOUS
  <2>2. CallFlow(u)' = IF C2 = {} THEN NoFlow ELSE Max(V2)
    BY <2>1 DEF CallFlow, QualifyingCalls, Max
  <2>3. C2 = C /\ V2 = V
    BY <1>8, <2>1
  <2>4. QED
    BY <2>2, <2>3
<1>10. CallFlow(u)' = CallFlow(u)
  BY <1>7, <1>9
<1>11. QED
  BY <1>10 DEF Boosted

LEMMA CandidatesHold ==
  ASSUME NEW p, Stored(p), Qualifies(p), p.call, p.ticker \in Candidates
  PROVE  p.ticker \in Candidates'
<1>1. PICK t, x : t = p.ticker /\ x = Newest
  OBVIOUS
<1>2. t \in Universe /\ Boosted(t) >= MinSetup
  BY <1>1 DEF Candidates
<1>3. CallFlow(t)' # NoFlow
  <2>1. tape'[x] = p /\ x \in Qualifying'
    BY <1>1, StoredIs, StoredParts
  <2>2. x \in QualifyingCalls(t)'
    BY <1>1, <2>1 DEF QualifyingCalls
  <2>3. TapeType' => FlowOnlyOfCalls'
    BY CallFlowIs, PTL
  <2>4. QED
    BY <2>2, <2>3 DEF Stored, FlowOnlyOfCalls
<1>4. PICK b, b2 \in Nat : b = Boosted(t) /\ b2 = Boosted(t)' /\ b <= b2
  <2>1. Boosted(t) \in Nat
    BY <1>2, BoostedIs
  <2>2. Boosted(t)' = Min({One, Setups[t] + 80})
    BY <1>3 DEF Boosted, Min, One
  <2>3. Setups[t] \in 0..1000
    BY <1>2, TapeAssumption DEF One
  <2>4. PICK s, m \in Nat : s = Setups[t] /\ s <= 1000 /\ m = s + 80
    BY <2>3
  <2>5. Min({1000, m}) = IF 1000 <= m THEN 1000 ELSE m
    BY MinOfTwo
  <2>6. Boosted(t)' = Min({1000, m})
    BY <2>2, <2>4 DEF One
  <2>7. Boosted(t)' \in Nat /\ Boosted(t)' >= s
    BY <2>4, <2>5, <2>6
  <2>8. CallFlow(t) # NoFlow => Boosted(t) = Boosted(t)'
    BY <1>2, <2>2, BoostedIs
  <2>9. CallFlow(t) = NoFlow => Boosted(t) = s
    BY <1>2, <2>4, BoostedIs
  <2>10. QED
    BY <2>1, <2>7, <2>8, <2>9
<1>5. PICK before, before2 :
        /\ before = {u \in Universe : Boosted(u) >= MinSetup /\ Precedes(u, t)}
        /\ before2 = {u \in Universe : Boosted(u) >= MinSetup /\ Precedes(u, t)}'
  OBVIOUS
<1>6. ASSUME NEW u \in before2
      PROVE  u \in before
  <2>1. u \in Universe /\ Boosted(u)' >= MinSetup /\ Precedes(u, t)'
    BY <1>5
  <2>2. CallFlow(u)' # NoFlow /\ Boosted(u)' > Boosted(t)'
    BY <1>3, <2>1 DEF Precedes
  <2>3. u # t
    BY <1>4, <2>2
  <2>4. CallFlow(u)' = CallFlow(u) /\ Boosted(u)' = Boosted(u)
    BY <1>1, <2>3, OthersKeepTheirFlow
  <2>5. Boosted(u) \in Nat
    BY <2>1, BoostedIs
  <2>6. CallFlow(u) # NoFlow /\ Boosted(u) > Boosted(t)
    BY <1>4, <2>2, <2>4, <2>5
  <2>7. Precedes(u, t)
    BY <2>6 DEF Precedes
  <2>8. QED
    BY <1>5, <2>1, <2>4, <2>7
<1>7. /\ Cardinality(before2) <= Cardinality(before)
      /\ Cardinality(before2) \in Nat /\ Cardinality(before) \in Nat
  <2>1. before \subseteq Universe /\ before2 \subseteq before
    BY <1>5, <1>6
  <2>2. IsFiniteSet(before)
    BY <2>1, TapeAssumption, FS_Subset
  <2>3. QED
    BY <2>1, <2>2, FS_Subset, FS_CardinalityType
<1>8. Cardinality(before) < ScreenTop /\ ScreenTop \in Nat /\ MinSetup \in Nat
  BY <1>1, <1>5, TapeAssumption DEF Candidates
<1>9. Cardinality(before2) < ScreenTop /\ Boosted(t)' >= MinSetup
  BY <1>2, <1>4, <1>7, <1>8
<1>10. QED
  BY <1>1, <1>2, <1>5, <1>9 DEF Candidates

-----------------------------------------------------------------------------
(* The tickers of the AI scan: a ticker is written up when one of its prints is among the rows *)
(* and behind prints of few other tickers.                                                      *)

EarlierKeys(keys, k) == {keys[c] : c \in 1..(k - 1)} \ {keys[k]}
EarlierFirsts(keys, m, q) == {c \in Firsts(keys, m) : c < q}

LEMMA FewerFirsts ==
  ASSUME NEW m \in Nat, NEW keys, NEW k \in 1..m, NEW q \in Firsts(keys, m), q <= k, keys[q] = keys[k]
  PROVE  /\ Cardinality(EarlierFirsts(keys, m, q)) \in Nat
         /\ Cardinality(EarlierKeys(keys, k)) \in Nat
         /\ Cardinality(EarlierFirsts(keys, m, q)) <= Cardinality(EarlierKeys(keys, k))
         /\ q = k => Cardinality(EarlierKeys(keys, k)) <= Cardinality(EarlierFirsts(keys, m, q))
<1>1. PICK E, K : E = EarlierFirsts(keys, m, q) /\ K = EarlierKeys(keys, k)
  OBVIOUS
<1>2. /\ Firsts(keys, m) \in SUBSET Nat /\ IsFiniteSet(Firsts(keys, m)) /\ q \in 1..m
      /\ \A c \in Firsts(keys, m) : c \in 1..m
  BY FirstsType DEF Firsts
<1>3. E \subseteq Firsts(keys, m) /\ IsFiniteSet(E) /\ \A c \in E : c \in 1..(k - 1) /\ c < q
  BY <1>1, <1>2, FS_Subset DEF EarlierFirsts
<1>4. \A c \in E : keys[c] \in K
  <2>1. ASSUME NEW c \in E
        PROVE  keys[c] \in K
    <3>1. c \in Firsts(keys, m) /\ c # q /\ c \in 1..(k - 1)
      BY <1>2, <1>3
    <3>2. keys[c] # keys[q]
      BY <3>1, FirstsDiffer
    <3>3. QED
      BY <1>1, <3>1, <3>2 DEF EarlierKeys
  <2>2. QED
    BY <2>1
<1>5. IsFiniteSet(K)
  <2>1. IsFiniteSet(1..(k - 1))
    BY FS_Interval
  <2>2. PICK f : f = [c \in 1..(k - 1) |-> keys[c]]
    OBVIOUS
  <2>3. IsFiniteSet({f[c] : c \in 1..(k - 1)})
    BY <2>1, ImageFinite
  <2>4. K \subseteq {f[c] : c \in 1..(k - 1)}
    BY <1>1, <2>2 DEF EarlierKeys
  <2>5. QED
    BY <2>3, <2>4, FS_Subset
<1>6. Cardinality(E) \in Nat /\ Cardinality(K) \in Nat
  BY <1>3, <1>5, FS_CardinalityType
<1>7. PICK g : g = [c \in E |-> keys[c]]
  OBVIOUS
<1>8. \A a, b \in E : keys[a] = keys[b] => a = b
  BY <1>3, FirstsDiffer
<1>9. g \in Injection(E, K)
  <2>1. g \in [E -> K]
    BY <1>4, <1>7
  <2>2. \A a, b \in E : g[a] = g[b] => a = b
    BY <1>7, <1>8
  <2>3. QED
    BY <2>1, <2>2 DEF Injection, IsInjective
<1>10. Cardinality(E) <= Cardinality(K)
  BY <1>5, <1>9, FS_Injection
<1>11. ASSUME q = k
       PROVE  Cardinality(K) <= Cardinality(E)
  <2>1. ASSUME NEW v \in K
        PROVE  \E c \in E : g[c] = v
    <3>1. PICK c \in 1..(k - 1) : keys[c] = v
      BY <1>1 DEF EarlierKeys
    <3>2. c \in 1..m
      OBVIOUS
    <3>3. PICK d \in Firsts(keys, m) : d <= c /\ keys[d] = keys[c]
      BY <3>2, FirstOccurrence
    <3>4. d \in E
      BY <1>1, <1>2, <1>11, <3>3 DEF EarlierFirsts
    <3>5. QED
      BY <1>7, <3>1, <3>3, <3>4
  <2>2. g \in Surjection(E, K)
    BY <1>4, <1>7, <2>1 DEF Surjection
  <2>3. QED
    BY <1>3, <2>2, FS_Surjection
<1>12. QED
  BY <1>1, <1>6, <1>10, <1>11

PlaceOf(i) == Place(ByPremium, Qualifying, i)
Ahead(i) == Below(ByPremium, Qualifying, i)
AheadOf(i) == {TickerAt(j) : j \in Ahead(i)} \ {TickerAt(i)}
Reaches(i) == i \in Qualifying /\ PlaceOf(i) < RowLimit /\ Cardinality(AheadOf(i)) < ScanTop

LEMMA RowsInOrder ==
  ASSUME TapeType
  PROVE  /\ Len(Rows) \in Nat /\ Len(Rows) <= RowLimit /\ RowLimit \in Nat
         /\ \A k \in 1..Len(Rows) : Rows[k] \in Qualifying /\ PlaceOf(Rows[k]) = k - 1
         /\ \A i \in Qualifying : PlaceOf(i) \in Nat
         /\ \A i \in Qualifying : PlaceOf(i) < RowLimit => PlaceOf(i) + 1 \in 1..Len(Rows)
                                                           /\ Rows[PlaceOf(i) + 1] = i
<1>1. /\ IsTop(Qualifying, RowLimit, Rows) /\ Qualifying \in SUBSET DOMAIN tape
      /\ IsFiniteSet(Qualifying) /\ Cardinality(Qualifying) \in Nat /\ Len(Rows) \in Nat
  BY ListsAre
<1>2. Orders(ByPremium, Qualifying)
  BY <1>1, PremiumOrder
<1>3. RowLimit \in Nat
  BY TapeAssumption
<1>4. Len(Rows) = Shortened(RowLimit, Cardinality(Qualifying))
  BY <1>1 DEF IsTop
<1>5. Len(Rows) <= RowLimit /\ Len(Rows) <= Cardinality(Qualifying)
  BY <1>1, <1>3, <1>4 DEF Shortened
<1>6. ASSUME NEW k \in 1..Len(Rows)
      PROVE  Rows[k] \in Qualifying /\ PlaceOf(Rows[k]) = k - 1
  <2>1. k \in 1..Cardinality(Qualifying)
    BY <1>1, <1>5
  <2>2. Rows[k] = Nth(ByPremium, Qualifying, k)
    BY <1>1 DEF IsTop
  <2>3. QED
    BY <1>1, <1>2, <2>1, <2>2, PlaceTaken DEF PlaceOf
<1>7. ASSUME NEW i \in Qualifying
      PROVE  /\ PlaceOf(i) \in Nat
             /\ PlaceOf(i) < RowLimit => PlaceOf(i) + 1 \in 1..Len(Rows) /\ Rows[PlaceOf(i) + 1] = i
  <2>1. /\ PlaceOf(i) + 1 \in 1..Cardinality(Qualifying)
        /\ Nth(ByPremium, Qualifying, PlaceOf(i) + 1) = i
    BY <1>1, <1>2, NthOf DEF PlaceOf
  <2>2. PlaceOf(i) \in 0..(Cardinality(Qualifying) - 1)
    BY <1>1, <1>2, PlaceBound DEF PlaceOf
  <2>3. PICK k \in 1..Cardinality(Qualifying) : k = PlaceOf(i) + 1 /\ PlaceOf(i) = k - 1
    BY <2>1, <2>2
  <2>4. k - 1 < RowLimit => k \in 1..Len(Rows)
    BY <1>1, <1>3, <1>4 DEF Shortened
  <2>5. k \in 1..Len(Rows) => Rows[k] = Nth(ByPremium, Qualifying, k)
    BY <1>1 DEF IsTop
  <2>6. QED
    BY <2>1, <2>3, <2>4, <2>5
<1>8. QED
  BY <1>1, <1>3, <1>5, <1>6, <1>7

LEMMA AheadIs ==
  ASSUME TapeType, NEW k \in 1..Len(Rows)
  PROVE  AheadOf(Rows[k]) = EarlierKeys(TickersAt(Rows), k)
<1>1. /\ Len(Rows) \in Nat /\ RowLimit \in Nat /\ Len(Rows) <= RowLimit
      /\ \A c \in 1..Len(Rows) : Rows[c] \in Qualifying /\ PlaceOf(Rows[c]) = c - 1
      /\ \A i \in Qualifying : PlaceOf(i) \in Nat
      /\ \A i \in Qualifying : PlaceOf(i) < RowLimit => PlaceOf(i) + 1 \in 1..Len(Rows)
                                                        /\ Rows[PlaceOf(i) + 1] = i
  BY RowsInOrder
<1>2. IsFiniteSet(Qualifying) /\ Orders(ByPremium, Qualifying)
  BY ListsAre, PremiumOrder
<1>3. ASSUME NEW j \in Ahead(Rows[k])
      PROVE  \E c \in 1..(k - 1) : Rows[c] = j
  <2>1. j \in Qualifying /\ <<j, Rows[k]>> \in ByPremium
    BY DEF Ahead, Below
  <2>2. PlaceOf(j) < PlaceOf(Rows[k])
    BY <1>1, <1>2, <2>1, PlaceGrows DEF PlaceOf
  <2>3. PICK n \in Nat : n = PlaceOf(j) /\ n < k - 1
    BY <1>1, <2>1, <2>2
  <2>4. n < RowLimit
    BY <1>1, <2>3
  <2>5. Rows[n + 1] = j /\ n + 1 \in 1..(k - 1)
    BY <1>1, <2>1, <2>3, <2>4
  <2>6. QED
    BY <2>5
<1>4. ASSUME NEW c \in 1..(k - 1)
      PROVE  Rows[c] \in Ahead(Rows[k]) /\ c \in 1..Len(Rows)
  <2>1. c \in 1..Len(Rows) /\ c - 1 < k - 1
    BY <1>1
  <2>2. PlaceOf(Rows[c]) < PlaceOf(Rows[k]) /\ Rows[c] \in Qualifying /\ Rows[k] \in Qualifying
    BY <1>1, <2>1
  <2>3. <<Rows[c], Rows[k]>> \in ByPremium
    BY <1>2, <2>2, PlaceDecides DEF PlaceOf
  <2>4. QED
    BY <2>1, <2>2, <2>3 DEF Ahead, Below
<1>5. {TickerAt(j) : j \in Ahead(Rows[k])} = {TickersAt(Rows)[c] : c \in 1..(k - 1)}
  BY <1>3, <1>4 DEF TickersAt
<1>6. TickersAt(Rows)[k] = TickerAt(Rows[k])
  BY DEF TickersAt
<1>7. QED
  BY <1>5, <1>6 DEF AheadOf, EarlierKeys

LEMMA ScanPicks ==
  ASSUME TapeType
  PROVE  /\ ScanTop \in Nat /\ OfTickers \in SUBSET Nat /\ IsFiniteSet(OfTickers)
         /\ Cardinality(OfTickers) \in Nat
         /\ \A d \in OfTickers : d \in 1..Len(Rows)
         /\ \A t : t \in Range(ScanTickers)
                     <=> \E k \in 1..Cardinality(OfTickers) :
                           k <= ScanTop /\ TickerAt(Rows[DayOf(OfTickers, k)]) = t
<1>1. ScanTop \in Nat
  BY TapeAssumption
<1>2. Len(Rows) \in Nat
  BY RowsInOrder
<1>3. /\ OfTickers \in SUBSET Nat /\ IsFiniteSet(OfTickers) /\ Cardinality(OfTickers) \in Nat
      /\ \A d \in OfTickers : d \in 1..Len(Rows)
  BY <1>2, FirstsType DEF OfTickers, Firsts
<1>4. PICK list : list = FirstOf(Distinct(Rows, TickerAt), ScanTop)
  OBVIOUS
<1>5. IsPicked(list, OfTickers, Rows, ScanTop)
  BY <1>4, ListsAre
<1>6. /\ Len(list) = Shortened(ScanTop, Cardinality(OfTickers)) /\ DOMAIN list = 1..Len(list)
      /\ \A k \in 1..Len(list) : k \in 1..Cardinality(OfTickers) /\ list[k] = Rows[DayOf(OfTickers, k)]
  BY <1>5 DEF IsPicked
<1>7. \A k : k \in 1..Len(list) <=> k \in 1..Cardinality(OfTickers) /\ k <= ScanTop
  BY <1>1, <1>3, <1>6 DEF Shortened
<1>8. ScanTickers = [k \in 1..Len(list) |-> TickerAt(list[k])]
  BY <1>4, <1>6 DEF ScanTickers, TickersOf, Rows
<1>9. Range(ScanTickers) = {TickerAt(list[k]) : k \in 1..Len(list)}
  BY <1>8 DEF Range
<1>10. QED
  BY <1>1, <1>3, <1>6, <1>7, <1>9

ScanReaches == \A t : t \in Range(ScanTickers) <=> \E i : Reaches(i) /\ TickerAt(i) = t

LEMMA ScanIs == TapeType => ScanReaches
<1>1. SUFFICES ASSUME TapeType, NEW t
               PROVE  t \in Range(ScanTickers) <=> \E i : Reaches(i) /\ TickerAt(i) = t
  BY DEF ScanReaches
<1>0. PICK keys : keys = TickersAt(Rows)
  OBVIOUS
<1>2. PICK m \in Nat : keys = TickersAt(Rows) /\ m = Len(Rows)
  BY <1>0, <1>1, RowsInOrder
<1>3. OfTickers = Firsts(keys, m) /\ \A k \in 1..m : keys[k] = TickerAt(Rows[k])
  BY <1>2 DEF OfTickers, TickersAt
<1>4. /\ ScanTop \in Nat /\ OfTickers \in SUBSET Nat /\ IsFiniteSet(OfTickers)
      /\ Cardinality(OfTickers) \in Nat /\ \A d \in OfTickers : d \in 1..m
  BY <1>1, <1>2, ScanPicks
<1>5. ASSUME t \in Range(ScanTickers)
      PROVE  \E i : Reaches(i) /\ TickerAt(i) = t
  <2>1. PICK k \in 1..Cardinality(OfTickers) : k <= ScanTop /\ TickerAt(Rows[DayOf(OfTickers, k)]) = t
    BY <1>1, <1>5, ScanPicks
  <2>2. PICK d : d = DayOf(OfTickers, k)
    OBVIOUS
  <2>3. d \in OfTickers /\ Cardinality({c \in OfTickers : c < d}) = k - 1
    <3>1. /\ DayOf(OfTickers, k) \in OfTickers
          /\ Cardinality({c \in OfTickers : c < DayOf(OfTickers, k)}) = k - 1
      BY <1>4, DayOfIs
    <3>2. QED
      BY <2>2, <3>1
  <2>4. d \in 1..m /\ d \in Firsts(keys, m) /\ d <= d
    BY <1>3, <1>4, <2>3
  <2>5. Cardinality(EarlierFirsts(keys, m, d)) = k - 1
    BY <1>3, <2>3 DEF EarlierFirsts
  <2>6. /\ Cardinality(EarlierKeys(keys, d)) \in Nat
        /\ Cardinality(EarlierKeys(keys, d)) <= Cardinality(EarlierFirsts(keys, m, d))
    BY <2>4, FewerFirsts
  <2>7. Cardinality(AheadOf(Rows[d])) < ScanTop
    <3>1. AheadOf(Rows[d]) = EarlierKeys(keys, d)
      BY <1>1, <1>2, <2>4, AheadIs
    <3>2. QED
      BY <1>4, <2>1, <2>5, <2>6, <3>1
  <2>8. Rows[d] \in Qualifying /\ PlaceOf(Rows[d]) < RowLimit
    <3>1. /\ m <= RowLimit /\ RowLimit \in Nat
          /\ Rows[d] \in Qualifying /\ PlaceOf(Rows[d]) = d - 1
      BY <1>1, <1>2, <2>4, RowsInOrder
    <3>2. QED
      BY <2>4, <3>1
  <2>9. Reaches(Rows[d]) /\ TickerAt(Rows[d]) = t
    BY <2>1, <2>2, <2>7, <2>8 DEF Reaches
  <2>10. QED
    BY <2>9
<1>6. ASSUME NEW i, Reaches(i), TickerAt(i) = t
      PROVE  t \in Range(ScanTickers)
  <2>1. i \in Qualifying /\ PlaceOf(i) < RowLimit /\ Cardinality(AheadOf(i)) < ScanTop
    BY <1>6 DEF Reaches
  <2>2. PICK k \in 1..m : Rows[k] = i
    BY <1>1, <1>2, <2>1, RowsInOrder
  <2>3. PICK q \in Firsts(keys, m) : q <= k /\ keys[q] = keys[k]
    BY FirstOccurrence
  <2>4. q \in OfTickers /\ q \in 1..m
    BY <1>3, <1>4
  <2>5. AheadOf(i) = EarlierKeys(keys, k)
    BY <1>1, <1>2, <2>2, AheadIs
  <2>6. /\ Cardinality(EarlierFirsts(keys, m, q)) \in Nat
        /\ Cardinality(EarlierKeys(keys, k)) \in Nat
        /\ Cardinality(EarlierFirsts(keys, m, q)) <= Cardinality(EarlierKeys(keys, k))
    BY <2>3, FewerFirsts
  <2>7. PICK l \in 1..Cardinality(OfTickers) : DayOf(OfTickers, l) = q
    BY <1>4, <2>4, DayOfFinds
  <2>8. Cardinality(EarlierFirsts(keys, m, q)) = l - 1
    <3>1. Cardinality({c \in OfTickers : c < DayOf(OfTickers, l)}) = l - 1
      BY <1>4, DayOfIs
    <3>2. QED
      BY <1>3, <2>7, <3>1 DEF EarlierFirsts
  <2>9. l <= ScanTop
    BY <1>4, <2>1, <2>5, <2>6, <2>8
  <2>10. TickerAt(Rows[q]) = t
    BY <1>3, <1>6, <2>2, <2>3, <2>4
  <2>11. QED
    BY <1>1, <2>7, <2>9, <2>10, ScanPicks
<1>7. QED
  BY <1>5, <1>6

QualifyingInOrder == Orders(ByPremium, Qualifying) /\ IsFiniteSet(Qualifying)

LEMMA QualifyingOrder == TapeType => QualifyingInOrder
BY ListsAre, PremiumOrder DEF QualifyingInOrder

\* The new row or the one that brought the ticker in: no more rows are ahead of it.
LEMMA ScanHolds ==
  ASSUME NEW p, Stored(p), Qualifies(p), p.ticker \in Range(ScanTickers)
  PROVE  p.ticker \in Range(ScanTickers)'
<1>1. ScanReaches /\ ScanReaches' /\ QualifyingInOrder /\ QualifyingInOrder'
  <2>1. TapeType /\ TapeType'
    BY DEF Stored
  <2>2. TapeType' => ScanReaches'
    BY ScanIs, PTL
  <2>3. TapeType' => QualifyingInOrder'
    BY QualifyingOrder, PTL
  <2>4. QED
    BY <2>1, <2>2, <2>3, ScanIs, QualifyingOrder
<1>2. PICK i, x, t : Reaches(i) /\ TickerAt(i) = t /\ t = p.ticker /\ x = Newest
  BY <1>1 DEF ScanReaches
<1>3. /\ Qualifying' = Qualifying \cup {x} /\ x \notin Qualifying /\ tape'[x] = p
      /\ \A a \in Qualifying : tape'[a] = tape[a]
  BY <1>2, StoredIs, StoredParts DEF Qualifying
<1>4. i \in Qualifying /\ PlaceOf(i) < RowLimit /\ Cardinality(AheadOf(i)) < ScanTop
  BY <1>2 DEF Reaches
<1>5. \A a, b \in Qualifying : <<a, b>> \in ByPremium' <=> <<a, b>> \in ByPremium
  BY <1>3 DEF ByPremium, Premium
<1>6. TickerAt(x)' = t /\ \A a \in Qualifying : TickerAt(a)' = TickerAt(a)
  BY <1>2, <1>3 DEF TickerAt
<1>7. Orders(ByPremium', Qualifying')
  BY <1>1 DEF QualifyingInOrder
<1>8. /\ \A a \in Ahead(i)' : a \in Qualifying' /\ <<a, i>> \in ByPremium'
      /\ \A a \in Ahead(x)' : a \in Qualifying' /\ <<a, x>> \in ByPremium'
      /\ \A a \in Qualifying : <<a, i>> \in ByPremium => a \in Ahead(i)
  BY DEF Ahead, Below
<1>9. PICK j : j \in Qualifying' /\ TickerAt(j)' = t /\ \A a \in Ahead(j)' : a \in Ahead(i)
  <2>1. CASE <<x, i>> \in ByPremium'
    <3>1. ASSUME NEW a \in Ahead(x)'
          PROVE  a \in Ahead(i)
      <4>1. a \in Qualifying' /\ <<a, x>> \in ByPremium' /\ i \in Qualifying' /\ x \in Qualifying'
        BY <1>3, <1>4, <1>8
      <4>2. a # x /\ <<a, i>> \in ByPremium'
        BY <1>7, <2>1, <4>1 DEF Orders
      <4>3. QED
        BY <1>3, <1>4, <1>5, <1>8, <4>1, <4>2
    <3>2. QED
      BY <1>3, <1>6, <3>1
  <2>2. CASE <<x, i>> \notin ByPremium'
    <3>1. ASSUME NEW a \in Ahead(i)'
          PROVE  a \in Ahead(i)
      <4>1. a \in Qualifying' /\ <<a, i>> \in ByPremium' /\ a # x
        BY <1>8, <2>2
      <4>2. QED
        BY <1>3, <1>4, <1>5, <1>8, <4>1
    <3>2. QED
      BY <1>2, <1>3, <1>4, <1>6, <3>1
  <2>3. QED
    BY <2>1, <2>2
<1>10. Ahead(j)' \subseteq Ahead(i) /\ IsFiniteSet(Ahead(i)) /\ Ahead(i) \subseteq Qualifying
  <2>1. Ahead(i) \subseteq Qualifying
    BY DEF Ahead, Below
  <2>2. QED
    BY <1>1, <1>9, <2>1, FS_Subset DEF QualifyingInOrder
<1>11. PlaceOf(j)' < RowLimit
  <2>1. /\ Cardinality(Ahead(j)') <= Cardinality(Ahead(i))
        /\ Cardinality(Ahead(j)') \in Nat /\ Cardinality(Ahead(i)) \in Nat
    BY <1>10, FS_Subset, FS_CardinalityType
  <2>2. PlaceOf(j)' = Cardinality(Ahead(j)') /\ PlaceOf(i) = Cardinality(Ahead(i))
    BY DEF PlaceOf, Place, Ahead
  <2>3. RowLimit \in Nat
    BY TapeAssumption
  <2>4. QED
    BY <1>4, <2>1, <2>2, <2>3
<1>12. Cardinality(AheadOf(j)') < ScanTop
  <2>1. AheadOf(j)' \subseteq AheadOf(i)
    <3>1. AheadOf(j)' = {TickerAt(a)' : a \in Ahead(j)'} \ {t}
      BY <1>9 DEF AheadOf
    <3>2. \A a \in Ahead(j)' : TickerAt(a)' = TickerAt(a)
      BY <1>6, <1>10
    <3>3. AheadOf(i) = {TickerAt(a) : a \in Ahead(i)} \ {t}
      BY <1>2 DEF AheadOf
    <3>4. QED
      BY <1>10, <3>1, <3>2, <3>3
  <2>2. IsFiniteSet(AheadOf(i))
    <3>1. PICK f : f = [a \in Ahead(i) |-> TickerAt(a)]
      OBVIOUS
    <3>2. IsFiniteSet({f[a] : a \in Ahead(i)})
      BY <1>10, ImageFinite
    <3>3. AheadOf(i) \subseteq {f[a] : a \in Ahead(i)}
      BY <3>1 DEF AheadOf
    <3>4. QED
      BY <3>2, <3>3, FS_Subset
  <2>3. /\ Cardinality(AheadOf(j)') <= Cardinality(AheadOf(i))
        /\ Cardinality(AheadOf(j)') \in Nat /\ Cardinality(AheadOf(i)) \in Nat
    BY <2>1, <2>2, FS_Subset, FS_CardinalityType
  <2>4. ScanTop \in Nat
    BY TapeAssumption
  <2>5. QED
    BY <1>4, <2>3, <2>4
<1>13. Reaches(j)'
  BY <1>9, <1>11, <1>12 DEF Reaches
<1>14. QED
  BY <1>1, <1>2, <1>9, <1>13 DEF ScanReaches

-----------------------------------------------------------------------------
(* A strong print demotes nothing. *)

TapeInv == TapeType /\ old <= Len(tape)

Keeps ==
  \A p \in Prints :
    tape' = Append(tape, p) /\ Strong(p) =>
      LET t == p.ticker
          contract == [ticker |-> t, call |-> p.call, line |-> p.line]
      IN  /\ OfTicker(t) # {} => SmartMoney(t)' >= SmartMoney(t)
          /\ t \in Leaderboard => t \in Leaderboard'
          /\ contract \in Rollup =>
               /\ contract \in Rollup'
               /\ BullShare(RollupRow(contract))' >= BullShare(RollupRow(contract))
          /\ t \in Range(ScanTickers) => t \in Range(ScanTickers)'
          /\ t \in Candidates => t \in Candidates'

LEMMA StrongKeeps ==
  ASSUME NEW p, Stored(p), Strong(p), NEW c, c = ContractOf(p), NEW t, t = p.ticker
  PROVE  /\ OfTicker(t) # {} => SmartMoney(t)' >= SmartMoney(t)
         /\ t \in Leaderboard => t \in Leaderboard'
         /\ c \in Rollup => c \in Rollup' /\ BullShare(RollupRow(c))' >= BullShare(RollupRow(c))
         /\ t \in Range(ScanTickers) => t \in Range(ScanTickers)'
         /\ t \in Candidates => t \in Candidates'
<1>1. Qualifies(p) /\ p.side = "ask" /\ p.call
  BY DEF Strong, Qualifies
<1>2. OfTicker(t) # {} => SmartMoney(t)' >= SmartMoney(t)
  BY SmartMoneyGrows
<1>3. t \in Leaderboard => t \in Leaderboard'
  BY LeaderboardHolds
<1>4. c \in Rollup => c \in Rollup' /\ BullShare(RollupRow(c))' >= BullShare(RollupRow(c))
  BY <1>1, RollupHolds, BullShareGrows
<1>5. t \in Range(ScanTickers) => t \in Range(ScanTickers)'
  BY <1>1, ScanHolds
<1>6. t \in Candidates => t \in Candidates'
  BY <1>1, CandidatesHold
<1>7. QED
  BY <1>2, <1>3, <1>4, <1>5, <1>6

LEMMA StepKeeps == TapeInv /\ TapeInv' /\ [TapeNext]_tapeVars => Keeps
<1>1. SUFFICES ASSUME TapeInv, TapeInv', [TapeNext]_tapeVars,
                      NEW p \in Prints, tape' = Append(tape, p), Strong(p),
                      NEW t, t = p.ticker, NEW c, c = ContractOf(p)
               PROVE  /\ OfTicker(t) # {} => SmartMoney(t)' >= SmartMoney(t)
                      /\ t \in Leaderboard => t \in Leaderboard'
                      /\ c \in Rollup =>
                           c \in Rollup' /\ BullShare(RollupRow(c))' >= BullShare(RollupRow(c))
                      /\ t \in Range(ScanTickers) => t \in Range(ScanTickers)'
                      /\ t \in Candidates => t \in Candidates'
  BY DEF Keeps, ContractOf
<1>2. Len(tape) \in Nat /\ Len(tape') = Len(tape) + 1
  BY <1>1 DEF TapeInv, TapeType
<1>3. tape' # tape
  BY <1>2
<1>4. old' = old
  BY <1>1, <1>3 DEF TapeNext, Leave, Store, tapeVars
<1>5. Stored(p)
  BY <1>1, <1>4 DEF Stored, TapeInv
<1>6. QED
  BY <1>1, <1>5, StrongKeeps

\* One more aggressive, unusual, opening buy of calls, made with at least the conviction of
\* what its ticker traded before and at no dearer volatility, lowers neither the smart money
\* score of its ticker nor the bull share of its contract, and costs neither its place on the
\* leaderboard, in the roll-up, among the tickers of the AI scan or among the screener's
\* candidates (StrongPrintNeverDemotes).
THEOREM StrongPrintsPromote == TapeSpec => StrongPrintNeverDemotes
<1>1. TapeInit => TapeInv
  BY DEF TapeInit, TapeInv, TapeType
<1>2. TapeInv /\ [TapeNext]_tapeVars => TapeInv'
  <2>1. SUFFICES ASSUME TapeInv, [TapeNext]_tapeVars
                 PROVE  TapeInv'
    OBVIOUS
  <2>2. tape \in Seq(Prints) /\ old \in Nat /\ old <= Len(tape) /\ Len(tape) \in Nat
    BY <2>1 DEF TapeInv, TapeType
  <2>3. CASE Leave
    BY <2>2, <2>3 DEF Leave, TapeInv, TapeType
  <2>4. ASSUME NEW p \in Prints, Store(p)
        PROVE  TapeInv'
    <3>1. tape' = Append(tape, p) /\ old' = old
      BY <2>4 DEF Store
    <3>2. tape' \in Seq(Prints) /\ Len(tape') = Len(tape) + 1
      BY <2>2, <3>1
    <3>3. QED
      BY <2>2, <3>1, <3>2 DEF TapeInv, TapeType
  <2>5. CASE UNCHANGED tapeVars
    BY <2>2, <2>5 DEF tapeVars, TapeInv, TapeType
  <2>6. QED
    BY <2>1, <2>3, <2>4, <2>5 DEF TapeNext
<1>3. TapeInv /\ TapeInv' /\ [TapeNext]_tapeVars => [Keeps]_tapeVars
  BY StepKeeps
<1>4. QED
  BY <1>1, <1>2, <1>3, PTL DEF TapeSpec, StrongPrintNeverDemotes, Keeps
=============================================================================

------------------------ MODULE ScoredAlerts_proofs ------------------------
(***************************************************************************)
(* Proofs about Scoring and ScoredAlerts: for every print, and not only    *)
(* those that the run puts together, an explosion setup has all three of   *)
(* its legs, and nothing unknown counts against a print.                   *)
(***************************************************************************)
EXTENDS ScoredAlerts, FiniteSetTheorems, SequenceTheorems, WellFoundedInduction, TLAPS

-----------------------------------------------------------------------------
(* Arithmetic. *)

\* Products are monotone.
LEMMA ProductsGrow ==
  ASSUME NEW a \in Nat, NEW b \in Nat, NEW c \in Nat, NEW d \in Nat, a <= b, c <= d
  PROVE  a * c \in Nat /\ b * d \in Nat /\ a * c <= b * d
<1>1. a * c \in Nat /\ b * d \in Nat /\ b * c \in Nat
  OBVIOUS
<1>2. a * c <= b * c
  <2>1. (b - a) * c >= 0
    OBVIOUS
  <2>2. (b - a) * c = b * c - a * c
    OBVIOUS
  <2>3. QED
    BY <1>1, <2>1, <2>2
<1>3. b * c <= b * d
  <2>1. b * (d - c) >= 0
    OBVIOUS
  <2>2. b * (d - c) = b * d - b * c
    OBVIOUS
  <2>3. QED
    BY <1>1, <2>1, <2>2
<1>4. QED
  BY <1>1, <1>2, <1>3

\* So are shares of shares.
LEMMA TimesGrows ==
  ASSUME NEW a \in Nat, NEW b \in Nat, NEW c \in Nat, NEW d \in Nat, a <= b, c <= d
  PROVE  Times(a, c) \in Nat /\ Times(b, d) \in Nat /\ Times(a, c) <= Times(b, d)
<1> DEFINE x == a * c
           y == b * d
<1>1. x \in Nat /\ y \in Nat /\ x <= y
  BY ProductsGrow
<1> HIDE DEF x, y
<1>2. x \div 1000 \in Nat /\ y \div 1000 \in Nat /\ x \div 1000 <= y \div 1000
  BY <1>1
<1>3. QED
  BY <1>2 DEF Times, One, x, y

\* A share of something is no more than it.
LEMMA TimesShrinks ==
  ASSUME NEW a \in Nat, NEW b \in Shares
  PROVE  Times(a, b) \in Nat /\ Times(b, a) \in Nat /\ Times(a, b) <= a /\ Times(b, a) <= a
<1> DEFINE x == a * b
<1>1. b \in Nat /\ b <= 1000
  BY DEF Shares, One
<1>2. x \in Nat /\ x <= a * 1000
  BY <1>1, ProductsGrow
<1>3. b * a = x
  BY <1>1
<1> HIDE DEF x
<1>4. x \div 1000 \in Nat /\ x \div 1000 <= a
  BY <1>2
<1>5. QED
  BY <1>3, <1>4 DEF Times, One, x

\* clamp() yields a share and is monotone.
LEMMA ClampGrows ==
  ASSUME NEW a \in Int, NEW b \in Int, a <= b
  PROVE  Clamp(a) \in Shares /\ Clamp(b) \in Shares /\ Clamp(a) <= Clamp(b)
BY DEF Clamp, Shares, One

\* ramp() yields a share.
LEMMA RampIsShare ==
  ASSUME NEW x \in Int, NEW lo \in Int, NEW hi \in Int
  PROVE  Ramp(x, lo, hi) \in Shares
<1>1. CASE hi <= lo \/ x <= lo \/ x >= hi
  BY <1>1 DEF Ramp, Shares, One
<1>2. CASE lo < x /\ x < hi
  <2> DEFINE a == x - lo
             d == hi - lo
             q == (a * 1000) \div d
  <2>1. a \in Int /\ d \in Int /\ 0 < a /\ a < d
    BY <1>2
  <2>2. Ramp(x, lo, hi) = q
    BY <1>2 DEF Ramp, One
  <2> HIDE DEF a, d
  <2>3. q \in Int /\ d * q <= a * 1000 /\ a * 1000 < d * q + d
    BY <2>1
  <2> HIDE DEF q
  <2>4. q >= 0
    <3>1. ASSUME q < 0
          PROVE  FALSE
      <4>1. d * (q + 1) <= 0
        BY <2>1, <2>3, <3>1
      <4>2. d * (q + 1) = d * q + d
        BY <2>1, <2>3
      <4>3. QED
        BY <2>1, <2>3, <4>1, <4>2
    <3>2. QED
      BY <2>3, <3>1
  <2>5. q <= 1000
    <3>1. ASSUME q > 1000
          PROVE  FALSE
      <4>1. d * q >= d * 1000
        BY <2>1, <2>3, <3>1, ProductsGrow
      <4>2. QED
        BY <2>1, <2>3, <4>1
    <3>2. QED
      BY <2>3, <3>1
  <2>6. QED
    BY <2>2, <2>3, <2>4, <2>5 DEF Shares, One
<1>3. QED
  BY <1>1, <1>2

\* A set of naturals that is not empty has a least member.
LEMMA LeastExists ==
  ASSUME NEW S \in SUBSET Nat, S # {}
  PROVE  \E x \in S : \A y \in S : x <= y
<1> DEFINE R == {p \in Nat \X Nat : p[1] < p[2]}
<1>1. IsWellFoundedOn(R, Nat)
  BY NatLessThanWellFounded DEF OpToRel
<1> HIDE DEF R
<1>2. PICK x \in S : \A y \in S : ~ (<<y, x>> \in R)
  BY <1>1, WFMin
<1>3. ASSUME NEW y \in S
      PROVE  x <= y
  <2>1. <<y, x>> \notin R
    BY <1>2
  <2>2. x \in Nat /\ y \in Nat
    OBVIOUS
  <2>3. ~ (y < x)
    BY <2>1, <2>2 DEF R
  <2>4. QED
    BY <2>2, <2>3
<1>4. QED
  BY <1>3

\* Cubes are monotone.
LEMMA CubesGrow ==
  ASSUME NEW a \in Nat, NEW b \in Nat, a <= b
  PROVE  a * a * a \in Nat /\ b * b * b \in Nat /\ a * a * a <= b * b * b
<1>1. a * a \in Nat /\ b * b \in Nat /\ a * a <= b * b
  BY ProductsGrow
<1>2. QED
  BY <1>1, ProductsGrow

\* And strictly so.
LEMMA NextCube ==
  ASSUME NEW a \in Nat
  PROVE  a * a * a < (a + 1) * (a + 1) * (a + 1)
<1> DEFINE y == (a + 1) * (a + 1)
<1>1. a * a \in Nat /\ y \in Nat /\ a * a <= y
  BY ProductsGrow
<1>2. y >= 1
  <2>1. 1 * 1 <= y
    BY ProductsGrow
  <2>2. QED
    BY <1>1, <2>1
<1> HIDE DEF y
<1>3. a * a * a \in Nat /\ y * a \in Nat /\ a * a * a <= y * a
  BY <1>1, ProductsGrow
<1>4. y * (a + 1) = y * a + y
  BY <1>1
<1>5. QED
  BY <1>1, <1>2, <1>3, <1>4 DEF y

\* A share is a natural number.
LEMMA SharesAreNumbers == /\ One \in Nat
                         /\ \A x \in Shares : x \in Nat /\ x <= One
                         /\ \A y \in Nat : y <= One => y \in Shares
<1>1. ASSUME NEW x \in Shares
      PROVE  x \in Nat /\ x <= One
  BY DEF Shares, One
<1>2. ASSUME NEW x \in Nat, x <= One
      PROVE  x \in Shares
  BY <1>2 DEF Shares, One
<1>3. One \in Nat
  BY DEF One
<1>4. QED
  BY <1>1, <1>2, <1>3

\* The greatest product of three shares.
Whole == One * One * One

\* The cube root of a number up to 1000^3, rounded down, exists.
LEMMA CubeRootIs ==
  ASSUME NEW n \in 0..Whole
  PROVE  LET r == CubeRoot(n) IN
         r \in Shares /\ r * r * r <= n /\ n < (r + 1) * (r + 1) * (r + 1)
<1> DEFINE S == {r \in Nat : n < (r + 1) * (r + 1) * (r + 1)}
<1>1. One \in S
  <2>1. One \in Nat /\ One * One * One \in Nat /\ n \in Nat /\ n <= One * One * One
    <3> HIDE DEF S
    <3>1. One \in Nat
      BY SharesAreNumbers
    <3>2. One * One * One \in Nat
      BY <3>1, CubesGrow
    <3>3. QED
      BY <3>1, <3>2 DEF Whole
  <2>2. (One + 1) * (One + 1) * (One + 1) \in Nat
    BY <2>1, CubesGrow
  <2>3. QED
    BY <2>1, <2>2, NextCube
<1>2. PICK r \in S : \A q \in S : r <= q
  <2>1. S \in SUBSET Nat /\ S # {}
    BY <1>1
  <2>2. QED
    BY <2>1, LeastExists
<1>3. r \in 0..One
  <2>1. r <= One /\ r \in Nat
    BY <1>1, <1>2
  <2> HIDE DEF S
  <2>2. r \in Shares
    BY <2>1 DEF Shares, One
  <2>3. QED
    BY <2>2 DEF Shares
<1>4. r * r * r <= n
  <2>1. CASE r = 0
    BY <2>1
  <2>2. CASE r # 0
    <3>1. r - 1 \in Nat /\ r - 1 \notin S /\ (r - 1) + 1 = r
      BY <1>2, <2>2
    <3>2. ~ (n < r * r * r)
      BY <3>1
    <3>3. r * r * r \in Nat
      OBVIOUS
    <3>4. QED
      BY <3>2, <3>3
  <2>3. QED
    BY <2>1, <2>2
<1>5. n < (r + 1) * (r + 1) * (r + 1)
  BY <1>2
<1>6. \E q \in 0..One : q * q * q <= n /\ n < (q + 1) * (q + 1) * (q + 1)
  BY <1>3, <1>4, <1>5
<1>7. QED
  BY <1>6 DEF CubeRoot, Shares

\* Cube roots are monotone.
LEMMA CubeRootsGrow ==
  ASSUME NEW m \in 0..Whole, NEW n \in 0..Whole, m <= n
  PROVE  CubeRoot(m) <= CubeRoot(n)
<1> DEFINE r == CubeRoot(m)
           q == CubeRoot(n)
<1>1. /\ r \in Nat /\ q \in Nat /\ r * r * r <= m
      /\ n < (q + 1) * (q + 1) * (q + 1)
  <2>1. /\ r \in Shares /\ q \in Shares /\ r * r * r <= m
        /\ n < (q + 1) * (q + 1) * (q + 1)
    BY CubeRootIs
  <2> HIDE DEF r, q
  <2>2. r \in Nat /\ q \in Nat
    BY <2>1, SharesAreNumbers
  <2>3. QED
    BY <2>1, <2>2
<1> HIDE DEF r, q
<1>2. ASSUME q < r
      PROVE  FALSE
  <2>1. q + 1 <= r /\ q + 1 \in Nat
    BY <1>1, <1>2
  <2>2. /\ (q + 1) * (q + 1) * (q + 1) <= r * r * r
        /\ (q + 1) * (q + 1) * (q + 1) \in Nat /\ r * r * r \in Nat
    BY <1>1, <2>1, CubesGrow
  <2>3. QED
    BY <1>1, <2>2
<1>3. QED
  BY <1>1, <1>2 DEF r, q

\* The product of three shares.
LEMMA ThreeShares ==
  ASSUME NEW a \in Shares, NEW b \in Shares, NEW c \in Shares
  PROVE  /\ a * b * c \in 0..Whole
         /\ a * b * c <= a * (One * One) /\ a * b * c <= b * (One * One) /\ a * b * c <= c * (One * One)
         /\ Clamp(a) = a
<1>1. /\ a \in Nat /\ b \in Nat /\ c \in Nat /\ One \in Nat
      /\ a <= One /\ b <= One /\ c <= One
  BY SharesAreNumbers
<1>2. /\ a * b \in Nat /\ One * One \in Nat /\ a * One \in Nat /\ One * b \in Nat
      /\ a * b <= a * One /\ a * b <= One * b /\ a * b <= One * One
  BY <1>1, ProductsGrow
<1>3. /\ (a * b) * c \in Nat
      /\ (a * b) * c <= (a * One) * One
      /\ (a * b) * c <= (One * b) * One
      /\ (a * b) * c <= (One * One) * c
      /\ (a * b) * c <= (One * One) * One
  BY <1>1, <1>2, ProductsGrow
<1>4. /\ (a * One) * One = a * (One * One) /\ (One * b) * One = b * (One * One)
      /\ (One * One) * c = c * (One * One)
  BY <1>1, <1>2
<1>5. Clamp(a) = a
  BY <1>1 DEF Clamp
<1>6. (One * One) * One \in Nat /\ Whole = (One * One) * One
  BY <1>1, <1>2 DEF Whole
<1>7. a * b * c \in 0..Whole
  BY <1>3, <1>6
<1>8. QED
  BY <1>3, <1>4, <1>5, <1>7

\* soft_and() of three shares is a share, monotone in the first of them.
LEMMA SoftAndGrows ==
  ASSUME NEW a \in Shares, NEW d \in Shares, NEW b \in Shares, NEW c \in Shares, a <= d
  PROVE  SoftAnd(a, b, c) \in Shares /\ SoftAnd(d, b, c) \in Shares
         /\ SoftAnd(a, b, c) <= SoftAnd(d, b, c)
<1>1. /\ a * b * c \in 0..Whole /\ d * b * c \in 0..Whole
      /\ Clamp(a) = a /\ Clamp(b) = b /\ Clamp(c) = c /\ Clamp(d) = d
  BY ThreeShares
<1>2. a * b * c <= d * b * c
  <2>1. a \in Nat /\ b \in Nat /\ c \in Nat /\ d \in Nat
    BY DEF Shares, One
  <2>2. a * b \in Nat /\ d * b \in Nat /\ a * b <= d * b
    BY <2>1, ProductsGrow
  <2>3. QED
    BY <2>1, <2>2, ProductsGrow
<1>3. QED
  BY <1>1, <1>2, CubeRootIs, CubeRootsGrow DEF SoftAnd

\* soft_and() is no higher than any of the three allows: a value of 625 needs a share
\* of 240 of each.
LEMMA SoftAndNeedsAll ==
  ASSUME NEW a \in Shares, NEW b \in Shares, NEW c \in Shares, SoftAnd(a, b, c) >= 625
  PROVE  a >= 240 /\ b >= 240 /\ c >= 240
<1> DEFINE n == a * b * c
           r == CubeRoot(n)
<1>1. /\ n \in 0..Whole
      /\ n <= a * (One * One) /\ n <= b * (One * One) /\ n <= c * (One * One)
      /\ Clamp(a) = a /\ Clamp(b) = b /\ Clamp(c) = c
  BY ThreeShares
<1>2. SoftAnd(a, b, c) = r
  BY <1>1 DEF SoftAnd
<1> HIDE DEF n
<1>3. r \in Nat /\ r * r * r <= n /\ r >= 625
  <2>1. r \in Shares /\ r * r * r <= n /\ r >= 625
    BY <1>1, <1>2, CubeRootIs
  <2> HIDE DEF r
  <2>2. r \in Nat
    BY <2>1, SharesAreNumbers
  <2>3. QED
    BY <2>1, <2>2
<1> HIDE DEF r
<1>4. r * r * r \in Nat /\ 625 * 625 * 625 <= r * r * r
  BY <1>3, CubesGrow
<1>5. 625 * 625 * 625 <= n
  BY <1>1, <1>3, <1>4
<1>6. ASSUME NEW x \in Shares, 625 * 625 * 625 <= x * (One * One)
      PROVE  x >= 240
  <2>1. x \in Nat /\ One = 1000
    BY SharesAreNumbers DEF One
  <2>2. ASSUME x <= 239
        PROVE  FALSE
    <3>1. x * (One * One) <= 239 * (One * One)
      BY <2>1, <2>2, ProductsGrow
    <3>2. 239 * (One * One) < 625 * 625 * 625
      BY <2>1, SMT
    <3>3. QED
      BY <1>6, <2>1, <3>1, <3>2, SMT
  <2>3. QED
    BY <2>1, <2>2
<1>7. 625 * 625 * 625 <= a * (One * One) /\ 625 * 625 * 625 <= b * (One * One)
      /\ 625 * 625 * 625 <= c * (One * One)
  <2>1. /\ a * (One * One) \in Nat /\ b * (One * One) \in Nat /\ c * (One * One) \in Nat
        /\ n \in Nat
    <3>1. a \in Nat /\ b \in Nat /\ c \in Nat /\ One \in Nat /\ One * One * One \in Nat
      BY SharesAreNumbers, CubesGrow
    <3>2. QED
      BY <1>1, <3>1, ProductsGrow
  <2>2. QED
    BY <1>1, <1>5, <2>1, SMT
<1>8. QED
  BY <1>6, <1>7

\* The greatest of a few shares is one of them, and no less than any.
LEMMA MaxOfShares ==
  ASSUME NEW S \in SUBSET Shares, S # {}
  PROVE  Max(S) \in S /\ \A x \in S : x <= Max(S)
<1> DEFINE bounds == {n \in Nat : \A y \in S : y <= n}
<1>1. S \in SUBSET Nat /\ 1000 \in bounds
  BY DEF Shares, One
<1>2. PICK n \in bounds : \A m \in bounds : n <= m
  <2>1. bounds \in SUBSET Nat /\ bounds # {}
    BY <1>1
  <2>2. QED
    BY <2>1, LeastExists
<1>3. ASSUME n \notin S
      PROVE  FALSE
  <2>1. \A y \in S : y \in Nat /\ y < n
    BY <1>1, <1>2, <1>3
  <2>2. n - 1 \in bounds
    BY <2>1
  <2>3. QED
    BY <1>2, <2>2
<1>4. \E x \in S : \A y \in S : x >= y
  BY <1>1, <1>2, <1>3
<1>5. Max(S) \in S /\ \A y \in S : Max(S) >= y
  BY <1>4 DEF Max
<1>6. QED
  BY <1>1, <1>5

-----------------------------------------------------------------------------
(* The parts of a score. *)

\* Weights: what a share of a weight can be.
LEMMA WeightedShare ==
  ASSUME NEW w \in Nat, NEW x \in Shares, NEW y \in Shares
  PROVE  /\ Share(w, x) \in Nat /\ Share(w, x) <= w /\ Share(w, y) \in Nat
         /\ x <= y => Share(w, x) <= Share(w, y)
<1>1. Share(w, x) \in Nat /\ Share(w, x) <= w /\ Share(w, y) \in Nat
  BY TimesShrinks DEF Share
<1>2. ASSUME x <= y
      PROVE  Share(w, x) <= Share(w, y)
  <2>1. x \in Nat /\ y \in Nat /\ w <= w
    BY SharesAreNumbers
  <2>2. QED
    BY <1>2, <2>1, TimesGrows DEF Share
<1>3. QED
  BY <1>1, <1>2

LEMMA ShareIs ==
  ASSUME NEW w \in Nat, NEW x \in Shares
  PROVE  Share(w, x) \in Nat /\ Share(w, x) <= w
BY WeightedShare

\* What is not there is a share, too.
LEMMA NotIsShare ==
  ASSUME NEW x \in Shares, NEW y \in Shares
  PROVE  /\ Not(x) \in Shares /\ Not(y) \in Shares
         /\ x <= y => Not(y) <= Not(x)
BY DEF Not, Shares, One

\* The greater of two shares is one of them.
LEMMA LargerIsShare ==
  ASSUME NEW x \in Shares, NEW y \in Shares
  PROVE  Larger(x, y) \in Shares
BY DEF Larger

\* The fields of a print.
LEMMA FieldsOfPrint ==
  ASSUME NEW p \in Prints
  PROVE  /\ p.side \in {"ask", "bid", "mid", "unknown"}
         /\ p.structure \in {"single", "bullish", "neutral"}
         /\ p.contract \in {"call", "put"}
         /\ p.macro \in Tapes
         /\ p.sweep \in BOOLEAN /\ p.volOi \in Nat /\ p.premium \in Nat
         /\ p.volume.options \in Nat /\ p.volume.stock \in Nat /\ p.volume.oiChange \in Int
         /\ p.attention.social \in Shares /\ p.attention.news \in Shares
         /\ p.attention.earnings \in Nat /\ p.attention.history \in Shares
         /\ p.attention.hitRate \in Shares
         /\ p.flow.repeated \in Nat /\ p.flow.cadence \in Shares
         /\ p.flow.ladder \in Shares /\ p.flow.follow \in Shares
         /\ p.terms.otm \in Int /\ p.terms.dte \in Nat
         /\ p.ivRank \in Shares
<1>1. /\ p.volume \in [options : Nat, stock : Nat, oiChange : Int]
      /\ p.attention \in [social : Shares, news : Shares, earnings : Nat, history : Shares,
                          hitRate : Shares]
      /\ p.flow \in [repeated : Nat, cadence : Shares, ladder : Shares, follow : Shares]
      /\ p.terms \in [otm : Int, dte : Nat]
      /\ p.ivRank \in Shares
      /\ p.sweep \in BOOLEAN /\ p.volOi \in Nat /\ p.premium \in Nat
  BY DEF Prints, EvidenceTypes
<1>2. /\ p.side \in {"ask", "bid", "mid", "unknown"}
      /\ p.structure \in {"single", "bullish", "neutral"}
      /\ p.contract \in {"call", "put"}
      /\ p.macro \in Tapes
  BY DEF Prints
<1>3. QED
  BY <1>1, <1>2

\* The company behind a print, if its float is known.
LEMMA CompanyOfPrint ==
  ASSUME NEW p \in Prints, p.company # NoFloat
  PROVE  /\ p.company.float \in Nat /\ p.company.shortInterest \in Nat
         /\ p.company.borrow \in Nat /\ p.company.gamma \in Int
<1>1. p.company \in [float : Nat, shortInterest : Nat, borrow : Nat, gamma : Int]
  BY DEF Prints, EvidenceTypes
<1>2. QED
  BY <1>1

\* The volume over the open interest is capped.
LEMMA VolOiIs ==
  ASSUME NEW p \in Prints
  PROVE  /\ VolOi(p) \in Nat /\ Opening(p) \in Shares
         /\ p.volOi >= 5000 => Opening(p) = One
<1>1. p.volOi \in Nat
  BY FieldsOfPrint
<1>2. VolOi(p) \in Nat /\ (p.volOi >= 5000 => VolOi(p) >= 5000)
  BY <1>1, SMT DEF VolOi
<1>3. Opening(p) \in Shares
  BY <1>2, RampIsShare, SMT DEF Opening
<1>4. VolOi(p) >= 5000 => Opening(p) = One
  BY <1>2, SMT DEF Opening, Ramp
<1>5. QED
  BY <1>2, <1>3, <1>4

\* The urgency of a sweep: known to be bought, it is greatest.
SideUrgency(p) ==
  CASE p.side = "ask" -> 300
    [] p.side = "unknown" -> Share(300, Ramp(p.volOi, 0, 5000))
    [] OTHER -> 0

LEMMA SweepUrgencyIs ==
  ASSUME NEW p \in Prints
  PROVE  /\ SideUrgency(p) \in 0..300
         /\ p.side = "ask" => SideUrgency(p) = 300
         /\ p.side = "bid" => SideUrgency(p) = 0
         /\ p.side = "unknown" /\ p.volOi >= 5000 => SideUrgency(p) = 300
         /\ (IF p.sweep THEN 500 ELSE 0) \in Nat
         /\ Share(200, Ramp(p.premium, 0, 1000)) \in Nat
         /\ SweepUrgency(p) = Clamp((IF p.sweep THEN 500 ELSE 0) + SideUrgency(p)
                                    + Share(200, Ramp(p.premium, 0, 1000)))
         /\ SweepUrgency(p) \in Shares
<1>1. p.volOi \in Nat /\ p.premium \in Nat
  BY FieldsOfPrint
<1>2. Ramp(p.volOi, 0, 5000) \in Shares /\ Ramp(p.premium, 0, 1000) \in Shares
  BY <1>1, RampIsShare, SMT
<1>3. /\ Share(300, Ramp(p.volOi, 0, 5000)) \in Nat /\ Share(300, Ramp(p.volOi, 0, 5000)) <= 300
      /\ Share(200, Ramp(p.premium, 0, 1000)) \in Nat
  BY <1>2, WeightedShare, SMT
<1>4. SideUrgency(p) \in 0..300
  BY <1>3, SMT DEF SideUrgency
<1>5. ASSUME p.side = "unknown", p.volOi >= 5000
      PROVE  SideUrgency(p) = 300
  <2>1. Ramp(p.volOi, 0, 5000) = 1000
    BY <1>1, <1>5, SMT DEF Ramp, One
  <2>2. SideUrgency(p) = Share(300, 1000)
    BY <1>5, <2>1, SMT DEF SideUrgency
  <2>3. QED
    BY <2>2, SMT DEF Share, Times, One
<1>6. /\ p.side = "ask" => SideUrgency(p) = 300
      /\ p.side = "bid" => SideUrgency(p) = 0
  BY SMT DEF SideUrgency
<1>7. SweepUrgency(p) = Clamp((IF p.sweep THEN 500 ELSE 0) + SideUrgency(p)
                              + Share(200, Ramp(p.premium, 0, 1000)))
  BY SMT DEF SweepUrgency, SideUrgency
<1>8. (IF p.sweep THEN 500 ELSE 0) \in Nat
  OBVIOUS
<1>9. SweepUrgency(p) \in Shares
  <2> DEFINE w == (IF p.sweep THEN 500 ELSE 0) + SideUrgency(p)
                  + Share(200, Ramp(p.premium, 0, 1000))
  <2>1. w \in Int
    BY <1>3, <1>4, <1>8, SMT
  <2>2. SweepUrgency(p) = Clamp(w)
    BY <1>7
  <2> HIDE DEF w
  <2>3. QED
    BY <2>1, <2>2, ClampGrows
<1>10. QED
  BY <1>3, <1>4, <1>5, <1>6, <1>7, <1>8, <1>9

\* What conviction is made of: the side, the sweep, and what does not depend on the side.
Aggression(p) == IF AggressorKnown(p) THEN AskSideRatio(p) ELSE Opening(p)

OtherConviction(p) ==
  Share(200, Ramp(p.flow.repeated, 1, 5)) + Share(120, p.flow.cadence)
    + Share(80, p.flow.ladder) + Share(150, p.flow.follow)
    + (IF p.structure = "bullish" THEN 100 ELSE 0)

SumOfConviction(p) ==
  Share(450, Aggression(p)) + Share(350, SweepUrgency(p)) + OtherConviction(p)

LEMMA ConvictionIs ==
  ASSUME NEW p \in Prints
  PROVE  /\ Aggression(p) \in Shares /\ OtherConviction(p) \in Nat
         /\ Share(450, Aggression(p)) \in Nat /\ Share(350, SweepUrgency(p)) \in Nat
         /\ SumOfConviction(p) \in Nat
         /\ p.side # "mid" => Conviction(p) = Clamp(SumOfConviction(p))
         /\ Conviction(p) \in Shares
<1>1. Aggression(p) \in Shares
  BY VolOiIs, SMT DEF Aggression, AskSideRatio, Shares, One
<1>2. /\ p.flow.cadence \in Shares /\ p.flow.ladder \in Shares /\ p.flow.follow \in Shares
      /\ Ramp(p.flow.repeated, 1, 5) \in Shares /\ SweepUrgency(p) \in Shares
  BY FieldsOfPrint, RampIsShare, SweepUrgencyIs
<1>3. /\ Share(450, Aggression(p)) \in Nat /\ Share(350, SweepUrgency(p)) \in Nat
      /\ Share(200, Ramp(p.flow.repeated, 1, 5)) \in Nat /\ Share(120, p.flow.cadence) \in Nat
      /\ Share(80, p.flow.ladder) \in Nat /\ Share(150, p.flow.follow) \in Nat
  BY <1>1, <1>2, ShareIs
<1>4. (IF p.structure = "bullish" THEN 100 ELSE 0) \in Nat
  OBVIOUS
<1>5. OtherConviction(p) \in Nat
  BY <1>3, <1>4, SMT DEF OtherConviction
<1>6. SumOfConviction(p) \in Nat
  BY <1>3, <1>5, SMT DEF SumOfConviction
<1>7. Conviction(p) = Clamp(IF p.side = "mid" THEN SumOfConviction(p) \div 2
                            ELSE SumOfConviction(p))
  <2> DEFINE s == Share(450, Aggression(p)) + Share(350, SweepUrgency(p))
                  + Share(200, Ramp(p.flow.repeated, 1, 5)) + Share(120, p.flow.cadence)
                  + Share(80, p.flow.ladder) + Share(150, p.flow.follow)
                  + (IF p.structure = "bullish" THEN 100 ELSE 0)
  <2>1. s = SumOfConviction(p)
    BY <1>3, <1>4, SMT DEF SumOfConviction, OtherConviction
  <2>2. Conviction(p) = Clamp(IF p.side = "mid" THEN s \div 2 ELSE s)
    BY DEF Conviction, Aggression
  <2>3. QED
    BY <2>1, <2>2
<1>8. Conviction(p) \in Shares
  <2>1. (IF p.side = "mid" THEN SumOfConviction(p) \div 2 ELSE SumOfConviction(p)) \in Int
    BY <1>6, SMT
  <2>2. QED
    BY <1>7, <2>1, ClampGrows
<1>9. QED
  BY <1>1, <1>3, <1>5, <1>6, <1>7, <1>8

\* Volume and fuel are shares.
LEMMA VolumeIsShare ==
  ASSUME NEW p \in Prints
  PROVE  VolumeConfirmation(p) \in Shares
<1>1. /\ Ramp(p.volume.options, 2000, 10000) \in Shares /\ Ramp(p.volume.stock, 1500, 5000) \in Shares
      /\ Ramp(p.volume.oiChange, 200, 1500) \in Shares /\ Opening(p) \in Shares
  BY FieldsOfPrint, RampIsShare, VolOiIs, SMT
<1>2. /\ Share(380, Ramp(p.volume.options, 2000, 10000)) \in Nat
      /\ Share(250, Ramp(p.volume.stock, 1500, 5000)) \in Nat
      /\ Share(200, Ramp(p.volume.oiChange, 200, 1500)) \in Nat
      /\ Share(170, Opening(p)) \in Nat /\ Share(850, Opening(p)) \in Nat
  BY <1>1, WeightedShare, SMT
<1> DEFINE x == Larger(Share(380, Ramp(p.volume.options, 2000, 10000))
                         + Share(250, Ramp(p.volume.stock, 1500, 5000))
                         + Share(200, Ramp(p.volume.oiChange, 200, 1500))
                         + Share(170, Opening(p)),
                       Share(850, Opening(p)))
<1>3. x \in Int
  BY <1>2, SMT DEF Larger
<1>4. VolumeConfirmation(p) = Clamp(x)
  BY DEF VolumeConfirmation
<1> HIDE DEF x
<1>5. QED
  BY <1>3, <1>4, ClampGrows

LEMMA FuelIsShare ==
  ASSUME NEW p \in Prints
  PROVE  SqueezeFuel(p) \in Shares
<1>1. CASE p.company = NoFloat
  BY <1>1 DEF SqueezeFuel, Shares, One
<1>2. CASE p.company # NoFloat
  <2>1. /\ p.company.float \in Nat /\ p.company.shortInterest \in Nat
        /\ p.company.borrow \in Nat /\ p.company.gamma \in Int
        /\ p.terms.otm \in Int /\ p.terms.dte \in Nat
    BY <1>2, CompanyOfPrint, FieldsOfPrint
  <2>2. /\ Ramp(p.terms.dte, 0, 30) \in Shares /\ Ramp(p.terms.otm, 0, 200) \in Shares
        /\ Ramp(-p.company.gamma, 0, One) \in Shares
        /\ Ramp(p.company.shortInterest, 10, 30) \in Shares
        /\ Ramp(p.company.borrow, 20, 100) \in Shares
        /\ 200 \in Shares
    <3>1. 200 \in Shares
      BY DEF Shares, One
    <3>2. -p.company.gamma \in Int /\ One \in Int
      BY <2>1 DEF One
    <3>3. QED
      BY <2>1, <3>1, <3>2, RampIsShare
  <2>3. Larger(Not(Ramp(p.terms.dte, 0, 30)), 200) \in Shares
        /\ Larger(Ramp(p.terms.otm, 0, 200), 200) \in Shares
    BY <2>2, NotIsShare, LargerIsShare
  <2>4. 0 \in Shares
    BY DEF Shares, One
  <2>5. SoftAnd(Ramp(-p.company.gamma, 0, One), Larger(Not(Ramp(p.terms.dte, 0, 30)), 200),
                Larger(Ramp(p.terms.otm, 0, 200), 200)) \in Shares
    <3>1. Ramp(-p.company.gamma, 0, One) <= Ramp(-p.company.gamma, 0, One)
      BY <2>2, SharesAreNumbers
    <3>2. QED
      BY <2>2, <2>3, <3>1, SoftAndGrows
  <2>6. GammaSqueeze(p) \in Shares
    BY <2>4, <2>5, Zenon DEF GammaSqueeze
  <2>7. Clamp(((100 - p.company.float) * One) \div 95) \in Shares
    <3> DEFINE x == ((100 - p.company.float) * One) \div 95
    <3>1. x \in Int
      BY <2>1, SMT DEF One
    <3> HIDE DEF x
    <3>2. Clamp(x) \in Shares
      BY <3>1, ClampGrows
    <3>3. QED
      BY <3>2 DEF x
  <2> DEFINE y == Share(300, Clamp(((100 - p.company.float) * One) \div 95))
                  + Share(280, Ramp(p.company.shortInterest, 10, 30))
                  + Share(140, Ramp(p.company.borrow, 20, 100))
                  + Share(280, GammaSqueeze(p))
  <2>8. y \in Int
    <3>1. /\ Share(300, Clamp(((100 - p.company.float) * One) \div 95)) \in Nat
          /\ Share(280, Ramp(p.company.shortInterest, 10, 30)) \in Nat
          /\ Share(140, Ramp(p.company.borrow, 20, 100)) \in Nat
          /\ Share(280, GammaSqueeze(p)) \in Nat
      BY <2>2, <2>6, <2>7, WeightedShare, SMT
    <3>2. QED
      BY <3>1, SMT
  <2>9. SqueezeFuel(p) = Clamp(y)
    BY <1>2 DEF SqueezeFuel
  <2> HIDE DEF y
  <2>10. QED
    BY <2>8, <2>9, ClampGrows
<1>3. QED
  BY <1>1, <1>2

\* Catalyst and geometry are shares: their weights add up to one.
LEMMA CatalystIsShare ==
  ASSUME NEW p \in Prints
  PROVE  Catalyst(p) \in Shares
<1>1. /\ p.attention.social \in Shares /\ p.attention.news \in Shares
      /\ Not(Ramp(p.attention.earnings, 0, 14)) \in Shares
  BY FieldsOfPrint, RampIsShare, NotIsShare
<1> DEFINE a == Share(450, p.attention.social)
           b == Share(300, p.attention.news)
           c == Share(250, Not(Ramp(p.attention.earnings, 0, 14)))
<1>2. a \in Nat /\ a <= 450 /\ b \in Nat /\ b <= 300 /\ c \in Nat /\ c <= 250
  BY <1>1, ShareIs
<1>3. Catalyst(p) = a + b + c
  BY DEF Catalyst
<1> HIDE DEF a, b, c
<1>4. QED
  BY <1>2, <1>3 DEF Shares, One

LEMMA GeometryIsShare ==
  ASSUME NEW p \in Prints
  PROVE  Geometry(p) \in Shares
<1> DEFINE off == IF p.terms.otm >= 70 THEN p.terms.otm - 70 ELSE 70 - p.terms.otm
<1>1. off \in Int /\ p.terms.dte \in Int
  BY FieldsOfPrint, SMT
<1> HIDE DEF off
<1>2. Not(Ramp(off, 0, 150)) \in Shares /\ Not(Ramp(p.terms.dte, 0, 45)) \in Shares
  BY <1>1, RampIsShare, NotIsShare
<1> DEFINE a == Share(600, Not(Ramp(off, 0, 150)))
           b == Share(400, Not(Ramp(p.terms.dte, 0, 45)))
<1>3. a \in Nat /\ a <= 600 /\ b \in Nat /\ b <= 400
  BY <1>2, ShareIs
<1>4. Geometry(p) = a + b
  BY DEF Geometry, off
<1> HIDE DEF a, b
<1>5. QED
  BY <1>3, <1>4 DEF Shares, One

LEMMA FakeIsShare ==
  ASSUME NEW p \in Prints
  PROVE  FakeFlow(p) \in Shares
<1>1. /\ Not(Ramp(p.volume.options, 1000, 5000)) \in Shares /\ Not(SweepUrgency(p)) \in Shares
      /\ Ramp(p.ivRank, 850, 1000) \in Shares
  <2>1. p.ivRank \in Int /\ p.volume.options \in Int
    BY FieldsOfPrint, SharesAreNumbers
  <2>2. Ramp(p.volume.options, 1000, 5000) \in Shares
    BY <2>1, RampIsShare, SMT
  <2>3. Ramp(p.ivRank, 850, 1000) \in Shares
    BY <2>1, RampIsShare
  <2>4. QED
    BY <2>2, <2>3, SweepUrgencyIs, NotIsShare
<1> DEFINE k == IF p.side = "mid" THEN 350 ELSE 0
           l == IF AggressorKnown(p) /\ AskSideRatio(p) = 0 THEN 250 ELSE 0
           m == Share(250, Not(Ramp(p.volume.options, 1000, 5000)))
           n == Share(150, Not(SweepUrgency(p)))
           o == Share(150, Ramp(p.ivRank, 850, 1000))
<1>2. m \in Nat /\ n \in Nat /\ o \in Nat
  BY <1>1, ShareIs
<1>3. k \in Nat /\ l \in Nat
  OBVIOUS
<1>4. FakeFlow(p) = Clamp(k + l + m + n + o)
  BY DEF FakeFlow
<1> HIDE DEF k, l, m, n, o
<1>5. k + l + m + n + o \in Int
  BY <1>2, <1>3
<1>6. QED
  BY <1>4, <1>5, ClampGrows

LEMMA HedgingIs ==
  ASSUME NEW p \in Prints
  PROVE  Hedging(p) \in Nat /\ Clamp(Hedging(p)) \in Shares
<1>1. Hedging(p) \in Nat
  BY DEF Hedging
<1>2. QED
  BY <1>1, ClampGrows

\* The components of a print are shares.
SomeComponents ==
  [conviction : Shares, volume : Shares, fuel : Shares, catalyst : Shares,
   geometry : Shares, fake : Shares, hedge : Shares]

LEMMA ComponentsAreShares ==
  ASSUME NEW p \in Prints
  PROVE  Components(p) \in SomeComponents
BY ConvictionIs, VolumeIsShare, FuelIsShare, CatalystIsShare, GeometryIsShare, FakeIsShare,
   HedgingIs DEF Components, SomeComponents

-----------------------------------------------------------------------------
(* The probabilities. *)

\* What lifts a setup is between 0.7 and 1.
LEMMA BoostIs ==
  ASSUME NEW p \in Prints, NEW c \in SomeComponents
  PROVE  Boost(c, p) \in Shares
<1> DEFINE S == {c.catalyst, p.attention.history, c.geometry, IvLift(p), p.attention.hitRate}
<1>1. IvLift(p) \in Shares
  <2>1. 2 * (500 - p.ivRank) \in Int
    BY FieldsOfPrint, SharesAreNumbers
  <2>2. QED
    BY <2>1, ClampGrows DEF IvLift
<1>2. c.catalyst \in Shares /\ c.geometry \in Shares
      /\ p.attention.history \in Shares /\ p.attention.hitRate \in Shares
  BY FieldsOfPrint DEF SomeComponents
<1>3. Max(S) \in Shares
  <2>1. S \in SUBSET Shares /\ S # {}
    BY <1>1, <1>2
  <2> HIDE DEF S
  <2>2. QED
    BY <2>1, MaxOfShares
<1>4. Share(300, Max(S)) \in Nat /\ Share(300, Max(S)) <= 300
  BY <1>3, ShareIs
<1>5. Boost(c, p) = 700 + Share(300, Max(S))
  BY DEF Boost
<1> HIDE DEF S
<1>6. QED
  BY <1>4, <1>5 DEF Shares, One

\* The components of one print are no stronger than those of another: no more of what
\* the side can change for the better, no less of what it can change for the worse, and
\* as much of the rest.
NoStronger(c, d) ==
  /\ c \in SomeComponents /\ d \in SomeComponents
  /\ c.conviction <= d.conviction
  /\ c.volume = d.volume /\ c.fuel = d.fuel
  /\ c.catalyst = d.catalyst /\ c.geometry = d.geometry
  /\ d.fake <= c.fake /\ d.hedge <= c.hedge

LEMMA DampGrows ==
  ASSUME NEW c \in SomeComponents, NEW d \in SomeComponents,
         d.fake <= c.fake, d.hedge <= c.hedge
  PROVE  Damp(c) \in Shares /\ Damp(d) \in Shares /\ Damp(c) <= Damp(d)
<1>1. c.fake \in Shares /\ c.hedge \in Shares /\ d.fake \in Shares /\ d.hedge \in Shares
  BY DEF SomeComponents
<1> DEFINE cf == Not(Share(850, c.fake))
           ch == Not(Share(700, c.hedge))
           df == Not(Share(850, d.fake))
           dh == Not(Share(700, d.hedge))
<1>2. /\ cf \in Shares /\ df \in Shares /\ cf <= df
      /\ ch \in Shares /\ dh \in Shares /\ ch <= dh
  <2>1. ASSUME NEW w \in Nat, w <= One, NEW x \in Shares, NEW y \in Shares, y <= x
        PROVE  Not(Share(w, x)) \in Shares /\ Not(Share(w, y)) \in Shares
               /\ Not(Share(w, x)) <= Not(Share(w, y))
    <3>1. /\ Share(w, x) \in Nat /\ Share(w, x) <= w /\ Share(w, y) \in Nat
          /\ Share(w, y) <= w /\ Share(w, y) <= Share(w, x)
      BY <2>1, WeightedShare
    <3>2. Share(w, x) \in Shares /\ Share(w, y) \in Shares
      BY <2>1, <3>1, SharesAreNumbers
    <3>3. QED
      BY <3>1, <3>2, NotIsShare
  <2>2. 850 \in Nat /\ 850 <= One /\ 700 \in Nat /\ 700 <= One
    BY DEF One
  <2>3. QED
    BY <1>1, <2>1, <2>2
<1>3. Damp(c) = Times(cf, ch) /\ Damp(d) = Times(df, dh)
  BY DEF Damp
<1> HIDE DEF cf, ch, df, dh
<1>4. /\ cf \in Nat /\ ch \in Nat /\ df \in Nat /\ dh \in Nat /\ cf <= One /\ df <= One
  BY <1>2, SharesAreNumbers
<1>5. Times(cf, ch) \in Nat /\ Times(df, dh) \in Nat /\ Times(cf, ch) <= Times(df, dh)
  BY <1>2, <1>4, TimesGrows
<1>6. Times(cf, ch) <= cf /\ Times(df, dh) <= df
  BY <1>2, <1>4, TimesShrinks
<1>7. Times(cf, ch) <= One /\ Times(df, dh) <= One
  BY <1>4, <1>5, <1>6, SharesAreNumbers, SMT
<1>8. Times(cf, ch) \in Shares /\ Times(df, dh) \in Shares
  BY <1>5, <1>7, SharesAreNumbers DEF Shares
<1>9. QED
  BY <1>3, <1>5, <1>8

\* What a probability is before it is capped: damped, and scaled by the regime.
ScaledBy(x, damp, bullish) == Clamp(Times(Clamp(Times(x, damp)), bullish))

LEMMA ScaledGrows ==
  ASSUME NEW x \in Nat, NEW y \in Nat, NEW d \in Shares, NEW e \in Shares, NEW bullish \in Nat,
         x <= y, d <= e
  PROVE  /\ ScaledBy(x, d, bullish) \in Shares /\ ScaledBy(y, e, bullish) \in Shares
         /\ ScaledBy(x, d, bullish) <= ScaledBy(y, e, bullish)
<1> DEFINE a == Clamp(Times(x, d))
           b == Clamp(Times(y, e))
<1>1. a \in Nat /\ b \in Nat /\ a <= b
  <2>1. d \in Nat /\ e \in Nat
    BY SharesAreNumbers
  <2>2. Times(x, d) \in Nat /\ Times(y, e) \in Nat /\ Times(x, d) <= Times(y, e)
    BY <2>1, TimesGrows
  <2>3. a \in Shares /\ b \in Shares /\ a <= b
    BY <2>2, ClampGrows
  <2>4. QED
    BY <2>3, SharesAreNumbers
<1> HIDE DEF a, b
<1>2. bullish <= bullish
  OBVIOUS
<1>3. Times(a, bullish) \in Nat /\ Times(b, bullish) \in Nat
      /\ Times(a, bullish) <= Times(b, bullish)
  BY <1>1, <1>2, TimesGrows
<1>4. QED
  BY <1>3, ClampGrows DEF ScaledBy, a, b

\* No market lifts a bullish probability by more than 1.12, or a confidence by more
\* than 1.04.
LEMMA RegimeIs ==
  ASSUME NEW m
  PROVE  /\ RegimeOf(m).bullish \in Nat /\ RegimeOf(m).bullish <= 1120
         /\ RegimeOf(m).confidence \in Nat
BY DEF RegimeOf, Neutral

\* So 0.7 after the regime was 0.625 before it, and no less before it was damped.
LEMMA ScaledNeeds ==
  ASSUME NEW x \in Nat, NEW d \in Shares, NEW bullish \in Nat, bullish <= 1120,
         ScaledBy(x, d, bullish) >= 700
  PROVE  x >= 625
<1> DEFINE a == Clamp(Times(x, d))
<1>1. Times(x, d) \in Nat /\ Times(x, d) <= x
  BY TimesShrinks
<1>2. a \in Nat /\ a <= x
  <2>1. a \in Shares /\ a <= Times(x, d)
    BY <1>1 DEF Clamp, Shares, One
  <2> HIDE DEF a
  <2>2. a \in Nat
    BY <2>1, SharesAreNumbers
  <2>3. QED
    BY <1>1, <2>1, <2>2
<1>3. Clamp(Times(a, bullish)) >= 700
  BY DEF ScaledBy
<1> HIDE DEF a
<1> DEFINE n == a * bullish
<1>4. n \in Nat /\ n <= a * 1120
  <2>1. a <= a
    BY <1>2
  <2>2. QED
    BY <1>2, <2>1, ProductsGrow
<1>5. Clamp(n \div 1000) >= 700
  BY <1>3 DEF Times, One
<1> HIDE DEF n
<1>6. n \div 1000 >= 700
  BY <1>4, <1>5, SMT DEF Clamp, One
<1>7. n >= 700 * 1000
  BY <1>4, <1>6, SMT
<1>8. QED
  BY <1>2, <1>4, <1>7, SMT

\* The probabilities of a print.
BoostedCore(c, p) == Times(Core(c), Boost(c, p))

LEMMA ProbsAre ==
  ASSUME NEW p, NEW c
  PROVE  LET damp    == Damp(c)
             bullish == RegimeOf(p.macro).bullish
         IN  /\ Probs(c, p).explosion = ScaledBy(BoostedCore(c, p), damp, bullish)
             /\ Probs(c, p).squeeze = ScaledBy(Squeeze(c), damp, bullish)
             /\ Probs(c, p).momentum = ScaledBy(Momentum(c), damp, bullish)
             /\ Probs(c, p).fake = c.fake /\ Probs(c, p).hedge = c.hedge
BY DEF Probs, ScaledBy, BoostedCore

\* An explosion of 0.7 has all three of its legs.
LEMMA ExplosionNeedsAll ==
  ASSUME NEW p \in Prints, NEW c \in SomeComponents, Probs(c, p).explosion >= 700
  PROVE  c.conviction >= 240 /\ c.volume >= 240 /\ c.fuel >= 240
<1> DEFINE bullish == RegimeOf(p.macro).bullish
<1>1. c.conviction \in Shares /\ c.volume \in Shares /\ c.fuel \in Shares
  BY DEF SomeComponents
<1>2. Damp(c) \in Shares
  <2>1. c.fake \in Nat /\ c.hedge \in Nat
    BY SharesAreNumbers DEF SomeComponents
  <2>2. QED
    BY <2>1, DampGrows
<1>3. Core(c) \in Shares
  <2>1. c.conviction <= c.conviction
    BY <1>1, SharesAreNumbers
  <2>2. QED
    BY <1>1, <2>1, SoftAndGrows DEF Core
<1>4. Core(c) \in Nat /\ Boost(c, p) \in Shares
  BY <1>3, BoostIs, SharesAreNumbers
<1>5. BoostedCore(c, p) \in Nat /\ BoostedCore(c, p) <= Core(c)
  BY <1>4, TimesShrinks DEF BoostedCore
<1>6. bullish \in Nat /\ bullish <= 1120
  BY RegimeIs
<1>7. ScaledBy(BoostedCore(c, p), Damp(c), bullish) >= 700
  BY ProbsAre
<1> HIDE DEF bullish
<1>8. BoostedCore(c, p) >= 625
  BY <1>2, <1>5, <1>6, <1>7, ScaledNeeds
<1>9. Core(c) >= 625
  BY <1>4, <1>5, <1>8
<1>10. QED
  BY <1>1, <1>9, SoftAndNeedsAll DEF Core

\* The least of three numbers.
LEMMA MinOfThree ==
  ASSUME NEW x \in Nat, NEW y \in Nat, NEW z \in Nat, NEW n \in Nat, x >= n, y >= n, z >= n
  PROVE  Min({x, y, z}) >= n
<1>1. \E a \in {x, y, z} : \A b \in {x, y, z} : a <= b
  OBVIOUS
<1>2. Min({x, y, z}) \in {x, y, z}
  BY <1>1 DEF Min
<1>3. QED
  BY <1>2

\* OneLegIsNotEnough, for every print.
LEMMA EveryPrintNeedsAllLegs ==
  ASSUME NEW p \in Prints, Score(p).label = "EXPLOSION"
  PROVE  Min({Score(p).components.conviction, Score(p).components.volume,
              Score(p).components.fuel}) >= 240
<1> DEFINE c == Components(p)
           probs == Probs(c, p)
           confidence == ConfidenceOf(probs, c, p)
<1>1. c \in SomeComponents
  BY ComponentsAreShares
<1>2. Score(p).components = c /\ LabelOf(probs, confidence) = "EXPLOSION"
  BY DEF Score
<1> HIDE DEF c, confidence
<1>3. probs.explosion >= 700
  BY <1>2 DEF LabelOf
<1>4. c.conviction >= 240 /\ c.volume >= 240 /\ c.fuel >= 240
  BY <1>1, <1>3, ExplosionNeedsAll
<1>5. c.conviction \in Nat /\ c.volume \in Nat /\ c.fuel \in Nat
  BY <1>1, SharesAreNumbers DEF SomeComponents
<1>6. QED
  BY <1>2, <1>4, <1>5, MinOfThree

-----------------------------------------------------------------------------
(* Only prints are scored. *)

PrintInv == print # NoPrint => print \in Prints

LEMMA WeakPrintsArePrints == WeakPrints \subseteq Prints
<1>1. \A kind \in DOMAIN EvidenceTypes : Evidence[kind][1] \in EvidenceTypes[kind]
                                         /\ ToSet(Evidence[kind]) \subseteq EvidenceTypes[kind]
  <2>1. TAKE kind \in DOMAIN EvidenceTypes
  <2>2. Evidence[kind] \in Seq(EvidenceTypes[kind]) /\ Evidence[kind] # <<>>
    BY <2>1, ScoredAssumption
  <2>3. 1 \in 1..Len(Evidence[kind])
    BY <2>2
  <2>4. ASSUME NEW x \in ToSet(Evidence[kind])
        PROVE  x \in EvidenceTypes[kind]
    BY <2>2 DEF ToSet
  <2>5. QED
    BY <2>2, <2>3, <2>4
<1>2. DOMAIN EvidenceTypes = {"sweep", "volOi", "premium", "volume", "company", "attention",
                              "flow", "terms", "ivRank"}
  BY DEF EvidenceTypes
<1>3. SUFFICES ASSUME NEW side \in Sides, NEW structure \in Structures,
                      NEW contract \in ContractTypes, NEW macro \in Macros,
                      NEW premium \in ToSet(Evidence.premium),
                      NEW attention \in ToSet(Evidence.attention)
               PROVE  [side |-> side, structure |-> structure, contract |-> contract,
                       macro |-> macro, premium |-> premium, attention |-> attention,
                       sweep |-> Evidence.sweep[1], volOi |-> Evidence.volOi[1],
                       volume |-> Evidence.volume[1], company |-> Evidence.company[1],
                       flow |-> Evidence.flow[1], terms |-> Evidence.terms[1],
                       ivRank |-> Evidence.ivRank[1]] \in Prints
  BY DEF WeakPrints
<1>4. /\ side \in {"ask", "bid", "mid", "unknown"} /\ structure \in {"single", "bullish", "neutral"}
      /\ contract \in {"call", "put"} /\ macro \in Tapes
  BY ScoredAssumption
<1>5. /\ premium \in EvidenceTypes["premium"] /\ attention \in EvidenceTypes["attention"]
      /\ Evidence.sweep[1] \in EvidenceTypes["sweep"]
      /\ Evidence.volOi[1] \in EvidenceTypes["volOi"]
      /\ Evidence.volume[1] \in EvidenceTypes["volume"]
      /\ Evidence.company[1] \in EvidenceTypes["company"]
      /\ Evidence.flow[1] \in EvidenceTypes["flow"]
      /\ Evidence.terms[1] \in EvidenceTypes["terms"]
      /\ Evidence.ivRank[1] \in EvidenceTypes["ivRank"]
  BY <1>1, <1>2
<1>6. QED
  BY <1>4, <1>5 DEF Prints

\* More evidence of a kind makes it another print.
LEMMA MoreEvidenceIsPrint ==
  ASSUME NEW p \in Prints, NEW kind \in DOMAIN EvidenceTypes, NEW x \in EvidenceTypes[kind]
  PROVE  [p EXCEPT ![kind] = x] \in Prints
<1>1. kind \in {"sweep", "volOi", "premium", "volume", "company", "attention", "flow", "terms",
                "ivRank"}
  BY DEF EvidenceTypes
<1>2. CASE kind = "sweep"
  BY <1>2 DEF Prints
<1>3. CASE kind = "volOi"
  BY <1>3 DEF Prints
<1>4. CASE kind = "premium"
  BY <1>4 DEF Prints
<1>5. CASE kind = "volume"
  BY <1>5 DEF Prints
<1>6. CASE kind = "company"
  BY <1>6 DEF Prints
<1>7. CASE kind = "attention"
  BY <1>7 DEF Prints
<1>8. CASE kind = "flow"
  BY <1>8 DEF Prints
<1>9. CASE kind = "terms"
  BY <1>9 DEF Prints
<1>10. CASE kind = "ivRank"
  BY <1>10 DEF Prints
<1>11. QED
  BY <1>1, <1>2, <1>3, <1>4, <1>5, <1>6, <1>7, <1>8, <1>9, <1>10

LEMMA PrintsStayPrints ==
  ASSUME print \in Prints, MoreEvidence
  PROVE  print' \in Prints
<1>1. PICK kind \in DOMAIN Evidence :
        \E i \in 1..(Len(Evidence[kind]) - 1) :
          print' = [print EXCEPT ![kind] = Evidence[kind][i + 1]]
  BY DEF MoreEvidence
<1>2. PICK i \in 1..(Len(Evidence[kind]) - 1) :
        print' = [print EXCEPT ![kind] = Evidence[kind][i + 1]]
  BY <1>1
<1>3. kind \in DOMAIN EvidenceTypes /\ Evidence[kind] \in Seq(EvidenceTypes[kind])
  BY ScoredAssumption
<1>4. i + 1 \in 1..Len(Evidence[kind])
  BY <1>3
<1>5. Evidence[kind][i + 1] \in EvidenceTypes[kind]
  BY <1>3, <1>4
<1>6. QED
  BY <1>2, <1>3, <1>5, MoreEvidenceIsPrint

LEMMA PrintInvHolds == ScoredSpec => []PrintInv
<1>1. ScoredInit => PrintInv
  BY WeakPrintsArePrints DEF ScoredInit, PrintInv
<1>2. PrintInv /\ [ScoredNext]_scoredVars => PrintInv'
  <2> SUFFICES ASSUME PrintInv, [ScoredNext]_scoredVars
               PROVE  PrintInv'
    OBVIOUS
  <2>1. CASE print = NoPrint /\ RulesNext /\ UNCHANGED print
    BY <2>1 DEF PrintInv
  <2>2. CASE print # NoPrint /\ MoreEvidence
    BY <2>2, PrintsStayPrints DEF PrintInv
  <2>3. CASE UNCHANGED scoredVars
    BY <2>3 DEF PrintInv, scoredVars
  <2>4. QED
    BY <2>1, <2>2, <2>3 DEF ScoredNext
<1>3. QED
  BY <1>1, <1>2, PTL DEF ScoredSpec

\* "One strong leg cannot trigger" (engine.py), for whatever a print may be and however
\* its evidence came together.
THEOREM OneLegNeverTriggers == ScoredSpec => []OneLegIsNotEnough
<1>1. PrintInv => OneLegIsNotEnough
  BY EveryPrintNeedsAllLegs DEF PrintInv, OneLegIsNotEnough
<1>2. QED
  BY <1>1, PrintInvHolds, PTL

-----------------------------------------------------------------------------
(* What the side changes. *)

\* Two prints that differ in nothing but the side.
ButForSide(p, q) ==
  /\ p \in Prints /\ q \in Prints
  /\ p.structure = q.structure /\ p.contract = q.contract /\ p.macro = q.macro
  /\ p.sweep = q.sweep /\ p.volOi = q.volOi /\ p.premium = q.premium /\ p.volume = q.volume
  /\ p.company = q.company /\ p.attention = q.attention /\ p.flow = q.flow
  /\ p.terms = q.terms /\ p.ivRank = q.ivRank

\* Of which the first is sold and the other unknown, or the other bought.
LessBought(p, q) ==
  /\ ButForSide(p, q)
  /\ \/ p.side = "bid" /\ q.side = "unknown"
     \/ p.side = "unknown" /\ q.side = "ask"

\* What does not look at the side.
LEMMA SideIsNotUsed ==
  ASSUME NEW p, NEW q, ButForSide(p, q)
  PROVE  /\ Opening(p) = Opening(q) /\ VolOi(p) = VolOi(q)
         /\ OtherConviction(p) = OtherConviction(q)
         /\ VolumeConfirmation(p) = VolumeConfirmation(q)
         /\ SqueezeFuel(p) = SqueezeFuel(q)
         /\ Catalyst(p) = Catalyst(q) /\ Geometry(p) = Geometry(q)
         /\ IvLift(p) = IvLift(q) /\ BigCap(p) = BigCap(q)
<1>1. Opening(p) = Opening(q) /\ VolOi(p) = VolOi(q)
  BY SMT DEF ButForSide, Opening, VolOi
<1>2. OtherConviction(p) = OtherConviction(q)
  BY SMT DEF ButForSide, OtherConviction
<1>3. VolumeConfirmation(p) = VolumeConfirmation(q)
  BY <1>1, SMT DEF ButForSide, VolumeConfirmation
<1>4. GammaSqueeze(p) = GammaSqueeze(q)
  BY SMT DEF ButForSide, GammaSqueeze
<1>5. SqueezeFuel(p) = SqueezeFuel(q)
  BY <1>4, SMT DEF ButForSide, SqueezeFuel
<1>6. Catalyst(p) = Catalyst(q) /\ Geometry(p) = Geometry(q) /\ IvLift(p) = IvLift(q)
  BY SMT DEF ButForSide, Catalyst, Geometry, IvLift
<1>7. BigCap(p) = BigCap(q)
  BY SMT DEF ButForSide, BigCap
<1>8. QED
  BY <1>1, <1>2, <1>3, <1>5, <1>6, <1>7

\* A sweep is no less urgent, and as urgent over fresh volume.
LEMMA UrgencyGrows ==
  ASSUME NEW p, NEW q, LessBought(p, q)
  PROVE  /\ SweepUrgency(p) <= SweepUrgency(q)
         /\ p.side = "unknown" /\ p.volOi >= 5000 => SweepUrgency(p) = SweepUrgency(q)
<1>1. p \in Prints /\ q \in Prints
  BY DEF LessBought, ButForSide
<1> DEFINE s == IF p.sweep THEN 500 ELSE 0
           r == Share(200, Ramp(p.premium, 0, 1000))
<1>2. /\ s \in Nat /\ r \in Nat /\ SideUrgency(p) \in 0..300 /\ SideUrgency(q) \in 0..300
      /\ SweepUrgency(p) = Clamp(s + SideUrgency(p) + r)
  BY <1>1, SweepUrgencyIs
<1>3. SweepUrgency(q) = Clamp(s + SideUrgency(q) + r)
  <2>1. q.sweep = p.sweep /\ q.premium = p.premium
    BY DEF LessBought, ButForSide
  <2>2. QED
    BY <1>1, <2>1, SweepUrgencyIs
<1>4. SideUrgency(p) <= SideUrgency(q)
  <2>1. (p.side = "bid" /\ SideUrgency(p) = 0) \/ (q.side = "ask" /\ SideUrgency(q) = 300)
    BY <1>1, SweepUrgencyIs DEF LessBought
  <2>2. QED
    BY <1>2, <2>1
<1>5. ASSUME p.side = "unknown", p.volOi >= 5000
      PROVE  SideUrgency(p) = SideUrgency(q)
  <2>1. q.side = "ask"
    BY <1>5 DEF LessBought
  <2>2. QED
    BY <1>1, <1>5, <2>1, SweepUrgencyIs
<1> HIDE DEF s, r
<1>6. SweepUrgency(p) <= SweepUrgency(q)
  <2> DEFINE a == s + SideUrgency(p) + r
             b == s + SideUrgency(q) + r
  <2>1. SideUrgency(p) \in Int /\ SideUrgency(q) \in Int
    <3>1. \A i \in 0..300 : i \in Int
      OBVIOUS
    <3>2. QED
      BY <1>2, <3>1
  <2>2. a \in Int /\ b \in Int /\ a <= b
    BY <1>2, <1>4, <2>1
  <2>3. SweepUrgency(p) = Clamp(a) /\ SweepUrgency(q) = Clamp(b)
    BY <1>2, <1>3
  <2> HIDE DEF a, b
  <2>4. QED
    BY <2>2, <2>3, ClampGrows
<1>7. QED
  BY <1>2, <1>3, <1>5, <1>6

\* The side, known or guessed, speaks no less for the print.
LEMMA ConvictionGrows ==
  ASSUME NEW p, NEW q, LessBought(p, q)
  PROVE  /\ Conviction(p) <= Conviction(q)
         /\ p.side = "unknown" /\ p.volOi >= 5000 => Conviction(p) = Conviction(q)
<1>1. /\ p \in Prints /\ q \in Prints /\ ButForSide(p, q)
      /\ (p.side = "bid" /\ q.side = "unknown") \/ (p.side = "unknown" /\ q.side = "ask")
  BY DEF LessBought, ButForSide
<1>2. OtherConviction(p) = OtherConviction(q) /\ Opening(p) = Opening(q)
  BY <1>1, SideIsNotUsed
<1>3. /\ Aggression(p) \in Shares /\ Aggression(q) \in Shares
      /\ SweepUrgency(p) \in Shares /\ SweepUrgency(q) \in Shares
      /\ OtherConviction(q) \in Nat
      /\ Conviction(p) = Clamp(SumOfConviction(p)) /\ Conviction(q) = Clamp(SumOfConviction(q))
      /\ SumOfConviction(p) \in Nat /\ SumOfConviction(q) \in Nat
  BY <1>1, ConvictionIs, SweepUrgencyIs
<1>4. Aggression(p) <= Aggression(q)
  <2>1. CASE p.side = "bid" /\ q.side = "unknown"
    <3>1. Aggression(p) = 0
      BY <2>1 DEF Aggression, AggressorKnown, AskSideRatio
    <3>2. QED
      BY <1>3, <3>1, SharesAreNumbers
  <2>2. CASE p.side = "unknown" /\ q.side = "ask"
    <3>1. Aggression(q) = One
      BY <2>2 DEF Aggression, AggressorKnown, AskSideRatio
    <3>2. QED
      BY <1>3, <3>1, SharesAreNumbers
  <2>3. QED
    BY <1>1, <2>1, <2>2
<1>5. ASSUME p.side = "unknown", p.volOi >= 5000
      PROVE  Aggression(p) = Aggression(q)
  <2>1. q.side = "ask"
    BY <1>1, <1>5
  <2>2. Aggression(p) = Opening(p) /\ Aggression(q) = One
    BY <1>5, <2>1 DEF Aggression, AggressorKnown, AskSideRatio
  <2>3. QED
    BY <1>1, <1>5, <2>2, VolOiIs
<1> DEFINE a == Share(450, Aggression(p))
           b == Share(450, Aggression(q))
           u == Share(350, SweepUrgency(p))
           v == Share(350, SweepUrgency(q))
<1>6. a \in Nat /\ b \in Nat /\ a <= b
  BY <1>3, <1>4, WeightedShare
<1>7. u \in Nat /\ v \in Nat /\ u <= v
  BY <1>3, UrgencyGrows, WeightedShare
<1>8. /\ SumOfConviction(p) = a + u + OtherConviction(q)
      /\ SumOfConviction(q) = b + v + OtherConviction(q)
  BY <1>2 DEF SumOfConviction
<1>9. p.side = "unknown" /\ p.volOi >= 5000 => a = b /\ u = v
  BY <1>5, UrgencyGrows
<1> HIDE DEF a, b, u, v
<1>10. SumOfConviction(p) <= SumOfConviction(q)
  BY <1>3, <1>6, <1>7, <1>8
<1>11. QED
  BY <1>3, <1>8, <1>9, <1>10, ClampGrows

\* It looks no more like noise, and no more like a hedge.
LEMMA FakeShrinks ==
  ASSUME NEW p, NEW q, LessBought(p, q)
  PROVE  /\ FakeFlow(q) <= FakeFlow(p)
         /\ p.side = "unknown" /\ p.volOi >= 5000 => FakeFlow(p) = FakeFlow(q)
<1>1. /\ p \in Prints /\ q \in Prints /\ ButForSide(p, q)
      /\ (p.side = "bid" /\ q.side = "unknown") \/ (p.side = "unknown" /\ q.side = "ask")
  BY DEF LessBought, ButForSide
<1> DEFINE k(r) == IF r.side = "mid" THEN 350 ELSE 0
           l(r) == IF AggressorKnown(r) /\ AskSideRatio(r) = 0 THEN 250 ELSE 0
           m(r) == Share(250, Not(Ramp(r.volume.options, 1000, 5000)))
           n(r) == Share(150, Not(SweepUrgency(r)))
           o(r) == Share(150, Ramp(r.ivRank, 850, 1000))
<1>2. /\ Not(Ramp(p.volume.options, 1000, 5000)) \in Shares
      /\ Ramp(p.ivRank, 850, 1000) \in Shares
  <2>1. p.ivRank \in Int /\ p.volume.options \in Int
    BY <1>1, FieldsOfPrint, SharesAreNumbers
  <2>2. Ramp(p.volume.options, 1000, 5000) \in Shares
    BY <2>1, RampIsShare, SMT
  <2>3. Ramp(p.ivRank, 850, 1000) \in Shares
    BY <2>1, RampIsShare
  <2>4. QED
    BY <2>2, <2>3, NotIsShare
<1>3. m(p) \in Nat /\ o(p) \in Nat
  BY <1>2, ShareIs
<1>4. m(q) = m(p) /\ o(q) = o(p)
  <2>1. q.volume = p.volume /\ q.ivRank = p.ivRank
    BY <1>1 DEF ButForSide
  <2>2. QED
    BY <2>1
<1>5. k(p) = 0 /\ k(q) = 0 /\ l(p) \in Nat /\ l(q) = 0
      /\ (p.side = "unknown" => l(p) = 0)
  BY <1>1 DEF AggressorKnown, AskSideRatio, One
<1>6. n(p) \in Nat /\ n(q) \in Nat /\ n(q) <= n(p)
  <2>1. SweepUrgency(p) \in Shares /\ SweepUrgency(q) \in Shares
    BY <1>1, SweepUrgencyIs
  <2>2. Not(SweepUrgency(p)) \in Shares /\ Not(SweepUrgency(q)) \in Shares
        /\ Not(SweepUrgency(q)) <= Not(SweepUrgency(p))
    BY <2>1, UrgencyGrows, NotIsShare
  <2>3. QED
    BY <2>2, WeightedShare
<1>7. p.side = "unknown" /\ p.volOi >= 5000 => n(p) = n(q)
  BY UrgencyGrows
<1>8. /\ FakeFlow(p) = Clamp(k(p) + l(p) + m(p) + n(p) + o(p))
      /\ FakeFlow(q) = Clamp(k(q) + l(q) + m(q) + n(q) + o(q))
  BY DEF FakeFlow
<1> HIDE DEF k, l, m, n, o
<1> DEFINE x == k(p) + l(p) + m(p) + n(p) + o(p)
           y == k(q) + l(q) + m(q) + n(q) + o(q)
<1>9. /\ x \in Int /\ y \in Int /\ y <= x
      /\ p.side = "unknown" /\ p.volOi >= 5000 => x = y
  BY <1>3, <1>4, <1>5, <1>6, <1>7
<1>10. FakeFlow(p) = Clamp(x) /\ FakeFlow(q) = Clamp(y)
  BY <1>8
<1> HIDE DEF x, y
<1>11. QED
  BY <1>9, <1>10, ClampGrows

LEMMA HedgingShrinks ==
  ASSUME NEW p, NEW q, LessBought(p, q)
  PROVE  /\ Hedging(q) <= Hedging(p)
         /\ p.side = "unknown" => Hedging(p) = Hedging(q)
<1>1. /\ p \in Prints /\ q \in Prints /\ ButForSide(p, q)
      /\ (p.side = "bid" /\ q.side = "unknown") \/ (p.side = "unknown" /\ q.side = "ask")
  BY DEF LessBought, ButForSide
<1>2. ~ Passive(q) /\ (p.side = "unknown" => ~ Passive(p))
  BY <1>1 DEF Passive, AggressorKnown, AskSideRatio, One
<1> DEFINE h(r) == CASE r.structure = "bullish" -> 50 [] r.structure = "neutral" -> 400 [] OTHER -> 0
           i(r) == IF r.contract = "put" /\ BigCap(r) /\ r.terms.otm \in -49..49 THEN 300 ELSE 0
           j(r) == IF Passive(r) /\ r.premium > 500 /\ r.terms.dte > 30 THEN 200 ELSE 0
           k(r) == IF Passive(r) /\ r.attention.earnings <= 7 /\ r.premium > 250 THEN 150 ELSE 0
           l(r) == IF r.attention.social + r.attention.news < 400 THEN 100 ELSE 0
<1>3. h(p) = h(q) /\ l(p) = l(q)
  <2>1. p.structure = q.structure /\ p.attention = q.attention
    BY <1>1 DEF ButForSide
  <2>2. QED
    BY <2>1
<1>4. i(p) = i(q)
  <2>1. p.contract = q.contract /\ p.terms = q.terms /\ BigCap(p) = BigCap(q)
    BY <1>1, SideIsNotUsed DEF ButForSide
  <2>2. QED
    BY <2>1
<1>5. /\ j(q) = 0 /\ j(p) \in Nat /\ (p.side = "unknown" => j(p) = 0)
      /\ k(q) = 0 /\ k(p) \in Nat /\ (p.side = "unknown" => k(p) = 0)
  BY <1>2
<1>6. h(p) \in Nat /\ i(p) \in Nat /\ l(p) \in Nat
  OBVIOUS
<1>7. Hedging(p) = h(p) + i(p) + j(p) + k(p) + l(p) /\ Hedging(q) = h(q) + i(q) + j(q) + k(q) + l(q)
  BY DEF Hedging
<1> HIDE DEF h, i, j, k, l
<1>8. QED
  BY <1>3, <1>4, <1>5, <1>6, <1>7

\* So the components of the less bought print are no stronger, and over fresh volume
\* those of an unknown print are those of a bought one.
LEMMA ComponentsGrow ==
  ASSUME NEW p, NEW q, LessBought(p, q)
  PROVE  /\ NoStronger(Components(p), Components(q))
         /\ p.side = "unknown" /\ p.volOi >= 5000 => Components(p) = Components(q)
<1>1. p \in Prints /\ q \in Prints /\ ButForSide(p, q)
  BY DEF LessBought, ButForSide
<1>2. Components(p) \in SomeComponents /\ Components(q) \in SomeComponents
  BY <1>1, ComponentsAreShares
<1>3. /\ VolumeConfirmation(p) = VolumeConfirmation(q) /\ SqueezeFuel(p) = SqueezeFuel(q)
      /\ Catalyst(p) = Catalyst(q) /\ Geometry(p) = Geometry(q)
  BY <1>1, SideIsNotUsed
<1>4. /\ Conviction(p) <= Conviction(q) /\ FakeFlow(q) <= FakeFlow(p)
      /\ Clamp(Hedging(q)) <= Clamp(Hedging(p))
  <2>1. Hedging(p) \in Int /\ Hedging(q) \in Int /\ Hedging(q) <= Hedging(p)
    BY <1>1, HedgingIs, HedgingShrinks
  <2>2. QED
    BY <2>1, ConvictionGrows, FakeShrinks, ClampGrows
<1>5. NoStronger(Components(p), Components(q))
  BY <1>2, <1>3, <1>4 DEF NoStronger, Components
<1>6. ASSUME p.side = "unknown", p.volOi >= 5000
      PROVE  Components(p) = Components(q)
  BY <1>3, <1>6, ConvictionGrows, FakeShrinks, HedgingShrinks DEF Components
<1>7. QED
  BY <1>5, <1>6

\* Nor are its probabilities.
LEMMA ProbsGrow ==
  ASSUME NEW p, NEW q, ButForSide(p, q), NEW c, NEW d, NoStronger(c, d)
  PROVE  /\ Probs(c, p).explosion \in Shares /\ Probs(d, q).explosion \in Shares
         /\ Probs(c, p).squeeze \in Shares /\ Probs(d, q).squeeze \in Shares
         /\ Probs(c, p).momentum \in Shares /\ Probs(d, q).momentum \in Shares
         /\ Probs(c, p).explosion <= Probs(d, q).explosion
         /\ Probs(c, p).squeeze <= Probs(d, q).squeeze
         /\ Probs(c, p).momentum <= Probs(d, q).momentum
<1>1. p \in Prints /\ q \in Prints /\ c \in SomeComponents /\ d \in SomeComponents
  BY DEF ButForSide, NoStronger
<1>2. /\ c.conviction \in Shares /\ c.volume \in Shares /\ c.fuel \in Shares
      /\ c.geometry \in Shares
      /\ d.conviction \in Shares /\ d.volume \in Shares /\ d.fuel \in Shares
      /\ d.geometry \in Shares
  BY <1>1 DEF SomeComponents
<1>3. Damp(c) \in Shares /\ Damp(d) \in Shares /\ Damp(c) <= Damp(d)
  BY <1>1, DampGrows DEF NoStronger
<1>4. /\ c.conviction <= d.conviction /\ c.volume = d.volume /\ c.fuel = d.fuel
      /\ c.geometry = d.geometry
      /\ c.volume <= d.volume /\ c.fuel <= d.fuel /\ c.geometry <= d.geometry
  <2>1. \A x \in Shares : x <= x
    BY SharesAreNumbers
  <2>2. QED
    BY <1>2, <2>1 DEF NoStronger
<1>5. Squeeze(c) \in Nat /\ Squeeze(d) \in Nat /\ Squeeze(c) <= Squeeze(d)
  <2>1. /\ Share(550, c.fuel) \in Nat /\ Share(550, d.fuel) \in Nat
        /\ Share(550, c.fuel) <= Share(550, d.fuel)
    BY <1>2, <1>4, WeightedShare
  <2>2. /\ Share(250, c.conviction) \in Nat /\ Share(250, d.conviction) \in Nat
        /\ Share(250, c.conviction) <= Share(250, d.conviction)
    BY <1>2, <1>4, WeightedShare
  <2>3. /\ Share(200, c.volume) \in Nat /\ Share(200, d.volume) \in Nat
        /\ Share(200, c.volume) <= Share(200, d.volume)
    BY <1>2, <1>4, WeightedShare
  <2>4. QED
    BY <2>1, <2>2, <2>3 DEF Squeeze
<1>6. Momentum(c) \in Nat /\ Momentum(d) \in Nat /\ Momentum(c) <= Momentum(d)
  <2>1. /\ Share(500, c.conviction) \in Nat /\ Share(500, d.conviction) \in Nat
        /\ Share(500, c.conviction) <= Share(500, d.conviction)
    BY <1>2, <1>4, WeightedShare
  <2>2. /\ Share(350, c.volume) \in Nat /\ Share(350, d.volume) \in Nat
        /\ Share(350, c.volume) <= Share(350, d.volume)
    BY <1>2, <1>4, WeightedShare
  <2>3. /\ Share(150, c.geometry) \in Nat /\ Share(150, d.geometry) \in Nat
        /\ Share(150, c.geometry) <= Share(150, d.geometry)
    BY <1>2, <1>4, WeightedShare
  <2>4. QED
    BY <2>1, <2>2, <2>3 DEF Momentum
<1>7. BoostedCore(c, p) \in Nat /\ BoostedCore(d, q) \in Nat
      /\ BoostedCore(c, p) <= BoostedCore(d, q)
  <2>1. Core(c) \in Shares /\ Core(d) \in Shares /\ Core(c) <= Core(d)
    BY <1>2, <1>4, SoftAndGrows DEF Core
  <2>2. Boost(c, p) = Boost(d, q)
    <3>1. c.catalyst = d.catalyst /\ c.geometry = d.geometry /\ p.attention = q.attention
          /\ IvLift(p) = IvLift(q)
      BY SideIsNotUsed DEF NoStronger, ButForSide
    <3>2. QED
      BY <3>1 DEF Boost
  <2>3. Boost(c, p) \in Shares
    BY <1>1, BoostIs
  <2>4. Core(c) \in Nat /\ Core(d) \in Nat /\ Boost(c, p) \in Nat /\ Boost(c, p) <= Boost(c, p)
    BY <2>1, <2>3, SharesAreNumbers
  <2>5. QED
    BY <2>1, <2>2, <2>4, TimesGrows DEF BoostedCore
<1> DEFINE bullish == RegimeOf(p.macro).bullish
<1>8. bullish \in Nat /\ RegimeOf(q.macro).bullish = bullish
  BY RegimeIs DEF ButForSide
<1> HIDE DEF bullish
<1>9. /\ Probs(c, p).explosion = ScaledBy(BoostedCore(c, p), Damp(c), bullish)
      /\ Probs(c, p).squeeze = ScaledBy(Squeeze(c), Damp(c), bullish)
      /\ Probs(c, p).momentum = ScaledBy(Momentum(c), Damp(c), bullish)
  BY ProbsAre DEF bullish
<1>10. /\ Probs(d, q).explosion = ScaledBy(BoostedCore(d, q), Damp(d), bullish)
       /\ Probs(d, q).squeeze = ScaledBy(Squeeze(d), Damp(d), bullish)
       /\ Probs(d, q).momentum = ScaledBy(Momentum(d), Damp(d), bullish)
  BY <1>8, ProbsAre
<1>11. /\ Probs(c, p).explosion \in Shares /\ Probs(d, q).explosion \in Shares
       /\ Probs(c, p).explosion <= Probs(d, q).explosion
  <2>1. /\ ScaledBy(BoostedCore(c, p), Damp(c), bullish) \in Shares
        /\ ScaledBy(BoostedCore(d, q), Damp(d), bullish) \in Shares
        /\ ScaledBy(BoostedCore(c, p), Damp(c), bullish) <= ScaledBy(BoostedCore(d, q), Damp(d), bullish)
    BY <1>3, <1>7, <1>8, ScaledGrows
  <2>2. QED
    BY <1>9, <1>10, <2>1
<1>12. /\ Probs(c, p).squeeze \in Shares /\ Probs(d, q).squeeze \in Shares
       /\ Probs(c, p).squeeze <= Probs(d, q).squeeze
  <2>1. /\ ScaledBy(Squeeze(c), Damp(c), bullish) \in Shares
        /\ ScaledBy(Squeeze(d), Damp(d), bullish) \in Shares
        /\ ScaledBy(Squeeze(c), Damp(c), bullish) <= ScaledBy(Squeeze(d), Damp(d), bullish)
    BY <1>3, <1>5, <1>8, ScaledGrows
  <2>2. QED
    BY <1>9, <1>10, <2>1
<1>13. /\ Probs(c, p).momentum \in Shares /\ Probs(d, q).momentum \in Shares
       /\ Probs(c, p).momentum <= Probs(d, q).momentum
  <2>1. /\ ScaledBy(Momentum(c), Damp(c), bullish) \in Shares
        /\ ScaledBy(Momentum(d), Damp(d), bullish) \in Shares
        /\ ScaledBy(Momentum(c), Damp(c), bullish) <= ScaledBy(Momentum(d), Damp(d), bullish)
    BY <1>3, <1>6, <1>8, ScaledGrows
  <2>2. QED
    BY <1>9, <1>10, <2>1
<1>14. QED
  BY <1>11, <1>12, <1>13

\* Nor is the confidence in it.
LEMMA ConfidenceGrows ==
  ASSUME NEW p, NEW q, ButForSide(p, q), NEW c, NEW d, NoStronger(c, d)
  PROVE  /\ ConfidenceOf(Probs(c, p), c, p) \in Shares
         /\ ConfidenceOf(Probs(d, q), d, q) \in Shares
         /\ ConfidenceOf(Probs(c, p), c, p) <= ConfidenceOf(Probs(d, q), d, q)
<1>1. p \in Prints /\ q \in Prints /\ c \in SomeComponents /\ d \in SomeComponents
  BY DEF ButForSide, NoStronger
<1> DEFINE S(x) == {x.explosion, x.squeeze, x.momentum}
           legs == {"conviction", "volume", "fuel", "catalyst"}
           broad(x) == {leg \in legs : x[leg] > 500}
           m == Max(S(Probs(c, p)))
           n == Max(S(Probs(d, q)))
<1>2. m \in Shares /\ n \in Shares /\ m <= n
  <2>1. /\ S(Probs(c, p)) \in SUBSET Shares /\ S(Probs(c, p)) # {}
        /\ S(Probs(d, q)) \in SUBSET Shares /\ S(Probs(d, q)) # {}
        /\ \A x \in S(Probs(c, p)) : \E y \in S(Probs(d, q)) : x <= y
    BY ProbsGrow
  <2> HIDE DEF S
  <2>2. /\ m \in S(Probs(c, p)) /\ n \in S(Probs(d, q)) /\ \A y \in S(Probs(d, q)) : y <= n
    BY <2>1, MaxOfShares
  <2>3. m \in Shares /\ n \in Shares
    BY <2>1, <2>2
  <2>4. PICK y \in S(Probs(d, q)) : m <= y
    BY <2>1, <2>2
  <2>5. y <= n /\ y \in Shares
    BY <2>1, <2>2
  <2> HIDE DEF m, n
  <2>6. m \in Nat /\ n \in Nat /\ y \in Nat
    BY <2>3, <2>5, SharesAreNumbers
  <2>7. QED
    BY <2>3, <2>4, <2>5, <2>6
<1>3. Cardinality(broad(c)) \in Nat /\ Cardinality(broad(d)) \in Nat
      /\ Cardinality(broad(c)) <= Cardinality(broad(d))
  <2>1. IsFiniteSet(legs)
    <3>1. IsFiniteSet({"conviction"}) /\ IsFiniteSet({"volume"}) /\ IsFiniteSet({"fuel"})
          /\ IsFiniteSet({"catalyst"})
      BY FS_Singleton
    <3>2. IsFiniteSet({"conviction"} \cup {"volume"}) /\ IsFiniteSet({"fuel"} \cup {"catalyst"})
      BY <3>1, FS_Union
    <3>3. IsFiniteSet(({"conviction"} \cup {"volume"}) \cup ({"fuel"} \cup {"catalyst"}))
      BY <3>2, FS_Union
    <3>4. legs = ({"conviction"} \cup {"volume"}) \cup ({"fuel"} \cup {"catalyst"})
      OBVIOUS
    <3>5. QED
      BY <3>3, <3>4
  <2>2. broad(d) \subseteq legs
    OBVIOUS
  <2>3. broad(c) \subseteq broad(d)
    <3>1. /\ c.conviction \in Nat /\ d.conviction \in Nat /\ c.conviction <= d.conviction
          /\ c.volume = d.volume /\ c.fuel = d.fuel /\ c.catalyst = d.catalyst
      BY <1>1, SharesAreNumbers DEF NoStronger, SomeComponents
    <3>2. QED
      BY <3>1
  <2> HIDE DEF broad, legs
  <2>4. IsFiniteSet(broad(d))
    BY <2>1, <2>2, FS_Subset
  <2>5. QED
    BY <2>3, <2>4, FS_Subset, FS_CardinalityType
<1> DEFINE k == Cardinality(broad(c))
           l == Cardinality(broad(d))
           f == Not(c.fake \div 2)
           g == Not(d.fake \div 2)
           sumC == Share(700, m) + Share(300, 250 * k)
           sumD == Share(700, n) + Share(300, 250 * l)
           u == RegimeOf(p.macro).confidence
<1>4. f \in Nat /\ g \in Nat /\ f <= g
  <2> DEFINE x == c.fake
             y == d.fake
  <2>1. x \in Shares /\ y \in Shares /\ y <= x
    BY <1>1 DEF NoStronger, SomeComponents
  <2> HIDE DEF x, y
  <2>2. x \in Nat /\ y \in Nat /\ x <= 1000 /\ y <= 1000
    BY <2>1, SharesAreNumbers DEF One
  <2>3. x \div 2 \in Nat /\ y \div 2 \in Nat /\ x \div 2 <= 1000 /\ y \div 2 <= x \div 2
    BY <2>1, <2>2, SMT
  <2>4. QED
    BY <2>3, SMT DEF Not, One, x, y
<1>5. u \in Nat /\ RegimeOf(q.macro).confidence = u
  BY RegimeIs DEF ButForSide
<1>6. /\ ConfidenceOf(Probs(c, p), c, p) = Clamp(Times(Clamp(Times(sumC, f)), u))
      /\ ConfidenceOf(Probs(d, q), d, q) = Clamp(Times(Clamp(Times(sumD, g)), u))
  BY <1>5, ProbsAre DEF ConfidenceOf
<1>7. sumC \in Nat /\ sumD \in Nat /\ sumC <= sumD
  <2> HIDE DEF m, n, k, l
  <2>1. Share(700, m) \in Nat /\ Share(700, n) \in Nat /\ Share(700, m) <= Share(700, n)
    BY <1>2, WeightedShare
  <2>2. 250 * k \in Nat /\ 250 * l \in Nat /\ 250 * k <= 250 * l
    BY <1>3 DEF k, l
  <2>3. /\ Share(300, 250 * k) \in Nat /\ Share(300, 250 * l) \in Nat
        /\ Share(300, 250 * k) <= Share(300, 250 * l)
    <3> DEFINE x == 250 * k
               y == 250 * l
    <3>1. x \in Nat /\ y \in Nat /\ x <= y
      BY <2>2
    <3> HIDE DEF x, y
    <3>2. 300 \in Nat /\ 300 <= 300
      OBVIOUS
    <3>3. Times(300, x) \in Nat /\ Times(300, y) \in Nat /\ Times(300, x) <= Times(300, y)
      BY <3>1, <3>2, TimesGrows
    <3>4. QED
      BY <3>3 DEF Share, x, y
  <2>4. QED
    BY <2>1, <2>3
<1> HIDE DEF f, g, sumC, sumD, u
<1> DEFINE a == Clamp(Times(sumC, f))
           b == Clamp(Times(sumD, g))
<1>8. a \in Nat /\ b \in Nat /\ a <= b
  <2>1. Times(sumC, f) \in Nat /\ Times(sumD, g) \in Nat /\ Times(sumC, f) <= Times(sumD, g)
    BY <1>4, <1>7, TimesGrows
  <2>2. a \in Shares /\ b \in Shares /\ a <= b
    BY <2>1, ClampGrows
  <2> HIDE DEF a, b
  <2>3. QED
    BY <2>2, SharesAreNumbers
<1>9. /\ ConfidenceOf(Probs(c, p), c, p) = Clamp(Times(a, u))
      /\ ConfidenceOf(Probs(d, q), d, q) = Clamp(Times(b, u))
  BY <1>6
<1> HIDE DEF a, b
<1>10. Times(a, u) \in Nat /\ Times(b, u) \in Nat /\ Times(a, u) <= Times(b, u)
  <2>1. u <= u
    BY <1>5
  <2>2. QED
    BY <1>5, <1>8, <2>1, TimesGrows
<1>11. QED
  BY <1>9, <1>10, ClampGrows

\* An unknown print is labelled and judged no worse than a sold one.
LEMMA ScoreGrows ==
  ASSUME NEW p, NEW q, LessBought(p, q)
  PROVE  /\ Score(q).components.fake <= Score(p).components.fake
         /\ Score(p).confidence \in Shares /\ Score(q).confidence \in Shares
         /\ Score(p).confidence <= Score(q).confidence
         /\ Score(p).label \in {"EXPLOSION", "MOMENTUM"}
              => Score(q).label \in {"EXPLOSION", "MOMENTUM"}
         /\ p.side = "unknown" /\ p.volOi >= 5000 => Score(p) = Score(q)
<1> DEFINE c == Components(p)
           d == Components(q)
           P == Probs(c, p)
           Q == Probs(d, q)
           x == ConfidenceOf(P, c, p)
           y == ConfidenceOf(Q, d, q)
<1>1. /\ Score(p) = [label |-> LabelOf(P, x), confidence |-> x, components |-> c]
      /\ Score(q) = [label |-> LabelOf(Q, y), confidence |-> y, components |-> d]
  BY DEF Score
<1>2. ButForSide(p, q) /\ NoStronger(c, d)
  BY ComponentsGrow DEF LessBought
<1>3. ASSUME p.side = "unknown", p.volOi >= 5000
      PROVE  Score(p) = Score(q)
  <2>1. c = d
    BY <1>3, ComponentsGrow
  <2>2. p.macro = q.macro /\ p.attention = q.attention /\ IvLift(p) = IvLift(q)
    BY <1>2, SideIsNotUsed DEF ButForSide
  <2> HIDE DEF c, d
  <2>3. Boost(c, p) = Boost(d, q)
    BY <2>1, <2>2 DEF Boost
  <2>4. P = Q
    BY <2>1, <2>2, <2>3 DEF Probs
  <2> HIDE DEF P, Q
  <2>5. x = y
    BY <2>1, <2>2, <2>4 DEF ConfidenceOf
  <2> HIDE DEF x, y
  <2>6. QED
    BY <1>1, <2>1, <2>4, <2>5
<1> HIDE DEF c, d
<1>4. /\ x \in Shares /\ y \in Shares /\ x <= y
  BY <1>2, ConfidenceGrows
<1>5. /\ P.explosion \in Shares /\ Q.explosion \in Shares /\ P.explosion <= Q.explosion
      /\ P.squeeze \in Shares /\ Q.squeeze \in Shares /\ P.squeeze <= Q.squeeze
      /\ P.momentum \in Shares /\ Q.momentum \in Shares /\ P.momentum <= Q.momentum
  BY <1>2, ProbsGrow
<1>6. /\ P.fake \in Shares /\ Q.fake \in Shares /\ Q.fake <= P.fake
      /\ P.hedge \in Shares /\ Q.hedge \in Shares /\ Q.hedge <= P.hedge
  BY <1>2, ProbsAre DEF NoStronger, SomeComponents
<1> HIDE DEF P, Q, x, y
<1>7. /\ x \in Nat /\ y \in Nat
      /\ P.explosion \in Nat /\ Q.explosion \in Nat /\ P.squeeze \in Nat /\ Q.squeeze \in Nat
      /\ P.momentum \in Nat /\ Q.momentum \in Nat
      /\ P.fake \in Nat /\ Q.fake \in Nat /\ P.hedge \in Nat /\ Q.hedge \in Nat
  BY <1>4, <1>5, <1>6, SharesAreNumbers
<1>8. ASSUME LabelOf(P, x) \in {"EXPLOSION", "MOMENTUM"}
      PROVE  LabelOf(Q, y) \in {"EXPLOSION", "MOMENTUM"}
  <2>1. /\ ~ (P.hedge >= 600 /\ ~ x >= 500) /\ ~ (P.fake >= 600 /\ ~ x >= 500)
        /\ (P.explosion >= 700 /\ P.squeeze >= 500) \/ P.momentum >= 650
    BY <1>8 DEF LabelOf
  <2>2. /\ ~ (Q.hedge >= 600 /\ ~ y >= 500) /\ ~ (Q.fake >= 600 /\ ~ y >= 500)
        /\ (Q.explosion >= 700 /\ Q.squeeze >= 500) \/ Q.momentum >= 650
    BY <1>4, <1>5, <1>6, <1>7, <2>1
  <2>3. QED
    BY <2>2 DEF LabelOf
<1>9. c.fake = P.fake /\ d.fake = Q.fake
  BY ProbsAre DEF P, Q
<1>10. QED
  BY <1>1, <1>3, <1>4, <1>6, <1>8, <1>9

LEMMA AlertsGrow ==
  ASSUME NEW p, NEW q, LessBought(p, q), Alerted(p, Score(p))
  PROVE  Alerted(q, Score(q))
<1> DEFINE e == EventOf(p, Score(p))
           f == EventOf(q, Score(q))
<1>1. p \in Prints /\ ButForSide(p, q)
  BY DEF LessBought, ButForSide
<1>2. e.features = f.features
  <2>1. VolOi(p) = VolOi(q) /\ p.premium = q.premium /\ p.terms = q.terms /\ p.ivRank = q.ivRank
    BY <1>1, SideIsNotUsed DEF ButForSide
  <2>2. QED
    BY <2>1 DEF EventOf, IsOpening
<1>3. e.contract = f.contract /\ e.moneyness = f.moneyness /\ e.structure = f.structure
  BY <1>1 DEF EventOf, ButForSide
<1>4. e.allowedClass => f.allowedClass
  <2>1. /\ e.allowedClass <=> Score(p).label \in {"EXPLOSION", "MOMENTUM"}
        /\ f.allowedClass <=> Score(q).label \in {"EXPLOSION", "MOMENTUM"}
    BY DEF EventOf
  <2>2. QED
    BY <2>1, ScoreGrows
<1>5. e.confidence >= 1 => f.confidence >= 1
  <2> DEFINE x == Score(p).confidence
             y == Score(q).confidence
  <2>1. x \in Shares /\ y \in Shares /\ x <= y
    BY ScoreGrows
  <2>2. e.confidence = Level(x, 700) /\ f.confidence = Level(y, 700)
    BY DEF EventOf
  <2> HIDE DEF x, y, e, f
  <2>3. x \in Nat /\ y \in Nat
    BY <2>1, SharesAreNumbers
  <2>4. Level(x, 700) >= 1 => Level(y, 700) >= 1
    BY <2>1, <2>3 DEF Level
  <2>5. QED
    BY <2>2, <2>4
<1> HIDE DEF e, f
<1>6. ShouldAlert(Defaults, e)
  BY DEF Alerted, e
<1>7. ShouldAlert(Defaults, f)
  <2>1. CASE ConfidenceGate(Defaults, e)
    BY <1>2, <1>3, <1>4, <1>5, <2>1 DEF ShouldAlert, ConfidenceGate, IsOtmCall, At
  <2>2. CASE e.features # NoFeatures /\ UnusualActivityGate(Defaults, e.features)
    BY <1>2, <2>2 DEF ShouldAlert
  <2>3. QED
    BY <1>6, <2>1, <2>2 DEF ShouldAlert
<1>8. QED
  BY <1>7 DEF Alerted, f

\* UnknownSideIsNotSold, for every print.
LEMMA NoPrintIsTakenForSold ==
  ASSUME print \in Prints
  PROVE  UnknownSideIsNotSold
<1> SUFFICES ASSUME print.side = "unknown"
             PROVE  UnknownSideIsNotSold
  BY DEF UnknownSideIsNotSold
<1> DEFINE As(side) == [print EXCEPT !.side = side]
<1>1. LessBought(As("bid"), print) /\ LessBought(print, As("ask"))
  BY DEF LessBought, ButForSide, Prints
<1>2. /\ Score(print).components.fake <= Score(As("bid")).components.fake
      /\ Score(As("bid")).confidence \in Shares /\ Score(print).confidence \in Shares
      /\ Score(As("ask")).confidence \in Shares
      /\ Score(As("bid")).confidence <= Score(print).confidence
      /\ Score(print).confidence <= Score(As("ask")).confidence
      /\ print.volOi >= 5000 => Score(print) = Score(As("ask"))
  BY <1>1, ScoreGrows
<1>3. Alerted(As("bid"), Score(As("bid"))) => Alerted(print, Score(print))
  BY <1>1, AlertsGrow
<1>4. Score(print).confidence \in Score(As("bid")).confidence..Score(As("ask")).confidence
  BY <1>2, SharesAreNumbers
<1>5. QED
  BY <1>2, <1>3, <1>4 DEF UnknownSideIsNotSold

-----------------------------------------------------------------------------
(* The rules. *)

EventInv == event \in Events

\* A stronger event is an event, and no measure of it is weaker.
NoWeaker(e, f) ==
  /\ f.allowedClass = e.allowedClass /\ f.contract = e.contract
  /\ f.moneyness = e.moneyness /\ f.structure = e.structure
  /\ e.confidence >= At => f.confidence >= At
  /\ e.features = NoFeatures => f.features = NoFeatures
  /\ e.features # NoFeatures =>
       /\ f.features # NoFeatures
       /\ e.features.opening => f.features.opening
       /\ e.features.ivRank # "high" => f.features.ivRank # "high"
       /\ e.features.volOi >= At => f.features.volOi >= At
       /\ e.features.premium >= At => f.features.premium >= At
       /\ e.features.dte <= At => f.features.dte <= At

LEMMA StrongerIsNoWeaker ==
  ASSUME event \in Events, Strengthen
  PROVE  event' \in Events /\ NoWeaker(event, event')
<1> DEFINE f == event.features
<1> USE DEF NoWeaker, Events, Levels, At
<1>1. CASE event.confidence < 2 /\ event' = [event EXCEPT !.confidence = @ + 1]
  BY <1>1
<1>2. ASSUME f # NoFeatures, NEW g \in Measures, event' = [event EXCEPT !.features = g],
             f.opening => g.opening, f.ivRank # "high" => g.ivRank # "high",
             f.volOi >= At => g.volOi >= At, f.premium >= At => g.premium >= At,
             f.dte <= At => g.dte <= At
      PROVE  event' \in Events /\ NoWeaker(event, event')
  <2>1. g # NoFeatures
    BY <1>2, RulesAssumption
  <2>2. event'.features = g
    BY <1>2
  <2>3. QED
    BY <1>2, <2>1, <2>2
<1>3. ASSUME f # NoFeatures
      PROVE  f \in Measures
  BY <1>3
<1>4. CASE f # NoFeatures /\ event' = [event EXCEPT !.features.opening = TRUE]
  <2> DEFINE g == [f EXCEPT !.opening = TRUE]
  <2>1. /\ g \in Measures /\ g.opening /\ g.ivRank = f.ivRank /\ g.volOi = f.volOi
        /\ g.premium = f.premium /\ g.dte = f.dte
    BY <1>3, <1>4 DEF Measures
  <2>2. event' = [event EXCEPT !.features = g]
    BY <1>4
  <2> HIDE DEF g, f
  <2>3. QED
    BY <1>2, <1>4, <2>1, <2>2
<1>5. CASE f # NoFeatures /\ event' = [event EXCEPT !.features.ivRank = "low"]
  <2> DEFINE g == [f EXCEPT !.ivRank = "low"]
  <2>1. /\ g \in Measures /\ g.opening = f.opening /\ g.ivRank = "low" /\ g.volOi = f.volOi
        /\ g.premium = f.premium /\ g.dte = f.dte
    BY <1>3, <1>5 DEF Measures
  <2>2. event' = [event EXCEPT !.features = g]
    BY <1>5
  <2> HIDE DEF g, f
  <2>3. QED
    BY <1>2, <1>5, <2>1, <2>2
<1>6. CASE /\ f # NoFeatures /\ f.opening /\ f.volOi < 2
           /\ event' = [event EXCEPT !.features.volOi = @ + 1]
  <2> DEFINE g == [f EXCEPT !.volOi = @ + 1]
  <2>1. f.volOi \in 0..2 /\ f.volOi + 1 \in 0..2
    BY <1>3, <1>6 DEF Measures
  <2>2. /\ g.opening = f.opening /\ g.ivRank = f.ivRank /\ g.volOi = f.volOi + 1
        /\ g.premium = f.premium /\ g.dte = f.dte
    BY <1>3, <1>6 DEF Measures
  <2>3. g \in Measures
    BY <1>3, <1>6, <2>1, <2>2 DEF Measures
  <2>4. f.volOi >= At => g.volOi >= At
    BY <2>1, <2>2
  <2>5. event' = [event EXCEPT !.features = g]
    BY <1>6
  <2> HIDE DEF g, f
  <2>6. QED
    BY <1>2, <1>6, <2>2, <2>3, <2>4, <2>5
<1>7. CASE /\ f # NoFeatures /\ f.premium < 2
           /\ event' = [event EXCEPT !.features.premium = @ + 1]
  <2> DEFINE g == [f EXCEPT !.premium = @ + 1]
  <2>1. /\ g \in Measures /\ g.opening = f.opening /\ g.ivRank = f.ivRank
        /\ f.premium >= At => g.premium >= At
        /\ g.volOi = f.volOi /\ g.dte = f.dte
    BY <1>3, <1>7 DEF Measures
  <2>2. event' = [event EXCEPT !.features = g]
    BY <1>7
  <2> HIDE DEF g, f
  <2>3. QED
    BY <1>2, <1>7, <2>1, <2>2
<1>8. CASE /\ f # NoFeatures /\ f.dte > 0
           /\ event' = [event EXCEPT !.features.dte = @ - 1]
  <2> DEFINE g == [f EXCEPT !.dte = @ - 1]
  <2>1. /\ g \in Measures /\ g.opening = f.opening /\ g.ivRank = f.ivRank
        /\ f.dte <= At => g.dte <= At
        /\ g.volOi = f.volOi /\ g.premium = f.premium
    BY <1>3, <1>8 DEF Measures
  <2>2. event' = [event EXCEPT !.features = g]
    BY <1>8
  <2> HIDE DEF g, f
  <2>3. QED
    BY <1>2, <1>8, <2>1, <2>2
<1>9. QED
  BY <1>1, <1>4, <1>5, <1>6, <1>7, <1>8 DEF Strengthen

LEMMA EventOfIsEvent ==
  ASSUME NEW p \in Prints, NEW s
  PROVE  EventOf(p, s) \in Events
<1> DEFINE f == EventOf(p, s).features
<1>1. VolOi(p) \in Nat /\ p.contract \in {"call", "put"}
      /\ p.structure \in {"single", "bullish", "neutral"}
  BY VolOiIs, FieldsOfPrint
<1>2. f \in Measures
  <2>1. /\ IsOpening(p) \in BOOLEAN /\ Level(VolOi(p), 5000) \in Levels
        /\ Level(p.premium, 500) \in Levels /\ Level(p.terms.dte, 60) \in Levels
    BY SMT DEF IsOpening, Level, Levels
  <2>2. Level(VolOi(p), 5000) >= At => IsOpening(p)
    BY <1>1, SMT DEF IsOpening, Level, At, One
  <2>3. QED
    BY <2>1, <2>2 DEF EventOf, Measures
<1>3. Level(s.confidence, 700) \in Levels
  BY DEF Level, Levels
<1>4. QED
  BY <1>1, <1>2, <1>3 DEF EventOf, Events

LEMMA EventInvHolds == ScoredSpec => []EventInv
<1>1. ScoredInit => EventInv
  BY EventOfIsEvent, WeakPrintsArePrints DEF ScoredInit, RulesInit, EventInv
<1>2. PrintInv /\ PrintInv' /\ EventInv /\ [ScoredNext]_scoredVars => EventInv'
  <2> SUFFICES ASSUME PrintInv, PrintInv', EventInv, [ScoredNext]_scoredVars
               PROVE  EventInv'
    OBVIOUS
  <2>1. CASE Strengthen
    BY <2>1, StrongerIsNoWeaker DEF EventInv
  <2>2. CASE print # NoPrint /\ MoreEvidence
    <3>1. print' \in Prints
      BY <2>2, PrintsStayPrints DEF PrintInv
    <3>2. event' = EventOf(print', Score(print'))
      BY <2>2 DEF MoreEvidence
    <3>3. QED
      BY <3>1, <3>2, EventOfIsEvent DEF EventInv
  <2>3. CASE UNCHANGED scoredVars
    BY <2>3 DEF EventInv, scoredVars, rulesVars
  <2>4. QED
    BY <2>1, <2>2, <2>3 DEF ScoredNext, RulesNext
<1>3. QED
  BY <1>1, <1>2, PrintInvHolds, PTL DEF ScoredSpec

\* The gates hold no unknown measure against an event.
LEMMA GatesLetUnknownPass == EventInv => UnknownNeverSuppresses
<1> SUFFICES ASSUME event \in Events, event.features # NoFeatures
             PROVE  UnknownNeverSuppresses
  BY DEF EventInv, UnknownNeverSuppresses
<1> DEFINE f == event.features
           With(g) == [event EXCEPT !.features = g]
           low == [f EXCEPT !.ivRank = "low"]
           unknown == [f EXCEPT !.ivRank = "unknown"]
<1>1. f \in Measures
  BY DEF Events
<1>2. ASSUME NEW g
      PROVE  /\ With(g).features = g
             /\ With(g).confidence = event.confidence
             /\ With(g).allowedClass = event.allowedClass
             /\ With(g).contract = event.contract /\ With(g).moneyness = event.moneyness
             /\ With(g).structure = event.structure
  BY DEF Events
<1>3. ConfidenceGate(settings, event) => ConfidenceGate(settings, With(NoFeatures))
  BY <1>2 DEF ConfidenceGate, IsOtmCall
<1>4. /\ low # NoFeatures /\ unknown # NoFeatures
      /\ low.ivRank = "low" /\ unknown.ivRank = "unknown"
      /\ low.opening = unknown.opening /\ low.volOi = unknown.volOi
      /\ low.premium = unknown.premium /\ low.dte = unknown.dte
  BY <1>1, RulesAssumption DEF Measures
<1> HIDE DEF low, unknown, f, With
<1>5. /\ UnusualActivityGate(settings, low) <=> UnusualActivityGate(settings, unknown)
      /\ FeatureGates(settings, low) <=> FeatureGates(settings, unknown)
  BY <1>4 DEF UnusualActivityGate, FeatureGates
<1>6. ConfidenceGate(settings, With(low)) <=> ConfidenceGate(settings, With(unknown))
  BY <1>2, <1>4, <1>5 DEF ConfidenceGate, IsOtmCall
<1>7. ShouldAlert(settings, With(low)) <=> ShouldAlert(settings, With(unknown))
  BY <1>2, <1>4, <1>5, <1>6 DEF ShouldAlert
<1>8. QED
  BY <1>3, <1>7 DEF UnknownNeverSuppresses, f, With, low, unknown

\* What is not known about a print, its side or its rank or the whole vector, is never
\* held against it: neither by the score nor by the gates.
THEOREM UnknownIsNotHeldAgainst == ScoredSpec => []UnknownIsNoEvidence
<1>1. PrintInv /\ EventInv => UnknownIsNoEvidence
  BY GatesLetUnknownPass, NoPrintIsTakenForSold DEF PrintInv, UnknownIsNoEvidence
<1>2. QED
  BY <1>1, PrintInvHolds, EventInvHolds, PTL

\* The rules are monotone in every measure: an event that qualifies still does when it
\* turns out bigger, nearer, surer or cheaper in volatility.
THEOREM RulesAreMonotone == RulesSpec => StrongerStillAlerts
<1>1. RulesInit => EventInv
  BY DEF RulesInit, EventInv
<1>2. EventInv /\ [RulesNext]_rulesVars => EventInv'
  BY StrongerIsNoWeaker DEF RulesNext, rulesVars, EventInv
<1>3. EventInv /\ RulesNext => (ShouldAlert(settings, event) => ShouldAlert(settings', event'))
  <2> SUFFICES ASSUME event \in Events, RulesNext, ShouldAlert(settings, event)
               PROVE  ShouldAlert(settings', event')
    BY DEF EventInv
  <2>1. settings' = settings
    BY DEF RulesNext
  <2>2. NoWeaker(event, event')
    BY StrongerIsNoWeaker DEF RulesNext
  <2>3. CASE ConfidenceGate(settings, event)
    BY <2>1, <2>2, <2>3 DEF NoWeaker, ShouldAlert, ConfidenceGate, FeatureGates, IsOtmCall
  <2>4. CASE event.features # NoFeatures /\ UnusualActivityGate(settings, event.features)
    BY <2>1, <2>2, <2>4 DEF NoWeaker, ShouldAlert, UnusualActivityGate
  <2>5. QED
    BY <2>3, <2>4 DEF ShouldAlert
<1>4. QED
  BY <1>1, <1>2, <1>3, PTL DEF RulesSpec, StrongerStillAlerts
=============================================================================

------------------------ MODULE JournalFill_proofs ------------------------
(***************************************************************************)
(* Proofs about JournalFill: a follow-up price that is in the journal came *)
(* from a session it may come from, the same for every idea of a day, and  *)
(* stays.                                                                  *)
(***************************************************************************)
EXTENDS JournalFill, FiniteSetTheorems, WellFoundedInduction, TLAPS

-----------------------------------------------------------------------------
(* Time, days and sessions. *)

LEMMA ProductPositive == \A a, b \in Nat \ {0} : a * b \in Nat \ {0}
OBVIOUS

\* There is a first moment, and every moment is a number.
LEMMA TimesNat == 0 \in Times /\ Times \subseteq Nat /\ Days \subseteq Nat
<1>1. MaxDay + 1 \in Nat \ {0} /\ PartsOfDay \in Nat \ {0}
  BY JournalAssumption
<1>2. PartsOfDay * (MaxDay + 1) \in Nat \ {0}
  BY <1>1, ProductPositive
<1>3. QED
  BY <1>1, <1>2, JournalAssumption DEF Times, Days

\* The day of a moment is a number, and the days pass as the time does.
LEMMA DaysPass ==
  \A s, t \in Nat : Day(s) \in Nat /\ (s <= t => Day(s) <= Day(t))
<1> SUFFICES ASSUME NEW s \in Nat, NEW t \in Nat
             PROVE  Day(s) \in Nat /\ (s <= t => Day(s) <= Day(t))
  OBVIOUS
<1>1. PartsOfDay \in Nat /\ PartsOfDay > 0
  BY JournalAssumption
<1>2. QED
  BY <1>1 DEF Day

\* A set of naturals that is not empty has a least member.
LEMMA LeastExists ==
  ASSUME NEW S \in SUBSET Nat, S # {}
  PROVE  \E x \in S : \A y \in S : x <= y
<1> DEFINE R == {p \in Nat \X Nat : p[1] < p[2]}
<1>1. IsWellFoundedOn(R, Nat)
  BY NatLessThanWellFounded DEF OpToRel
<1> HIDE DEF R
<1>2. PICK x \in S : \A y \in S : ~ (<<y, x>> \in R)
  BY <1>1, WFMin
<1>3. ASSUME NEW y \in S
      PROVE  x <= y
  <2>1. <<y, x>> \notin R /\ x \in Nat /\ y \in Nat
    BY <1>2
  <2>2. ~ (y < x)
    BY <2>1 DEF R
  <2>3. QED
    BY <2>1, <2>2
<1>4. QED
  BY <1>3

\* Min() is that member, and the only one.
LEMMA MinIsLeast ==
  ASSUME NEW S \in SUBSET Nat, S # {}
  PROVE  /\ Min(S) \in S
         /\ \A y \in S : Min(S) <= y
         /\ \A x \in S : (\A y \in S : x <= y) => x = Min(S)
<1>1. /\ Min(S) \in S
      /\ \A y \in S : Min(S) <= y
  BY LeastExists DEF Min
<1>2. ASSUME NEW x \in S, \A y \in S : x <= y
      PROVE  x = Min(S)
  <2>1. x <= Min(S) /\ Min(S) <= x /\ x \in Nat /\ Min(S) \in Nat
    BY <1>1, <1>2
  <2>2. QED
    BY <2>1
<1>3. QED
  BY <1>1, <1>2

\* The completed sessions are the first ones: no session before one of them is missing.
\* So the earliest completed session from some day on is the first of all from then
\* on, and it is over.
LEMMA EarliestCompleted ==
  ASSUME TypeOK, NEW day \in Nat,
         NEW S, S = {s \in Completed : s >= day}
  PROVE  /\ Earliest(S) # None => /\ Earliest(S) \in Days
                                  /\ IsFirstFrom(Earliest(S), day)
                                  /\ Earliest(S) < Day(now)
         /\ Earliest(S) = None <=> S = {}
<1> DEFINE m == Earliest(S)
<1>1. /\ Sessions \subseteq Nat /\ Sessions \subseteq Days
      /\ latest # None => latest \in Nat
      /\ started \in Nat /\ now \in Nat /\ started <= now
  BY JournalAssumption, TimesNat DEF TypeOK
<1>2. S \in SUBSET Nat /\ S \subseteq Days
  BY <1>1 DEF Completed
<1>3. CASE S = {}
  BY <1>3 DEF Earliest
<1>4. CASE S # {}
  <2>1. m \in S /\ \A y \in S : m <= y
    BY <1>2, <1>4, MinIsLeast DEF Earliest
  <2>2. m # None
    BY <1>2, <2>1, JournalAssumption
  <2>3. /\ Day(started) \in Nat /\ Day(now) \in Nat /\ Day(started) <= Day(now)
    BY <1>1, DaysPass
  <2>4. /\ m \in Sessions /\ latest # None /\ m <= latest
        /\ m < Day(started) /\ m >= day /\ m \in Nat
    BY <1>1, <2>1 DEF Completed
  <2>5. ASSUME NEW y \in Sessions, y >= day
        PROVE  m <= y
    <3>1. y \in Nat
      BY <1>1
    <3>2. CASE y < m
      <4>1. y <= latest /\ y < Day(started)
        BY <3>1, <3>2, <1>1, <2>3, <2>4
      <4>2. y \in S
        BY <2>4, <2>5, <4>1 DEF Completed
      <4>3. QED
        BY <4>2, <2>1
    <3>3. QED
      BY <2>4, <3>1, <3>2
  <2>6. m \in Days /\ m < Day(now)
    BY <1>1, <2>3, <2>4
  <2>7. QED
    BY <1>4, <2>2, <2>4, <2>5, <2>6 DEF IsFirstFrom
<1>5. QED
  BY <1>3, <1>4

\* So what _fill_one() writes comes from the sessions of the row.
LEMMA FilledIsRight ==
  ASSUME TypeOK, NEW r \in Rows, OfItsSessions(r)
  PROVE  Filled(r) \in Rows /\ OfItsSessions(Filled(r)) /\ Extends(r, Filled(r))
<1> DEFINE d == Day(r.created)
           f == Filled(r)
<1>1. d \in Nat /\ Sessions \subseteq Nat
  BY TimesNat, DaysPass, JournalAssumption DEF Rows
<1>2. /\ NextSession(r) # None =>
           /\ NextSession(r) \in Days
           /\ IsFirstFrom(NextSession(r), d + 1)
           /\ NextSession(r) < Day(now)
      /\ NextSession(r) = None <=> {s \in Completed : s >= d + 1} = {}
  <2>1. {s \in Completed : s >= d + 1} = {s \in Completed : s > d}
    <3>1. \A s \in Nat : s >= d + 1 <=> s > d
      BY <1>1
    <3>2. QED
      BY <1>1, <3>1 DEF Completed
  <2>2. d + 1 \in Nat
    BY <1>1
  <2>3. NextSession(r) = Earliest({s \in Completed : s >= d + 1})
    BY <2>1 DEF NextSession
  <2>4. QED
    BY <2>2, <2>3, EarliestCompleted
<1>3. /\ Day3Session(r) # None =>
           /\ Day3Session(r) \in Days
           /\ IsFirstFrom(Day3Session(r), d + 3)
           /\ Day3Session(r) < Day(now)
      /\ Day3Session(r) = None <=> {s \in Completed : s >= d + 3} = {}
  <2>1. d + 3 \in Nat
    BY <1>1
  <2>2. Day3Session(r) = Earliest({s \in Completed : s >= d + 3})
    BY DEF Day3Session
  <2>3. QED
    BY <2>1, <2>2, EarliestCompleted
<1>4. Day3Session(r) # None => NextSession(r) # None
  <2>1. \A s \in Completed : s \in Nat /\ (s >= d + 3 => s >= d + 1)
    BY <1>1 DEF Completed
  <2>2. QED
    BY <1>2, <1>3, <2>1
<1>5. /\ f.created = r.created /\ f.intraday = r.intraday
      /\ f.next = IF r.next = None THEN NextSession(r) ELSE r.next
      /\ f.day3 = IF r.day3 = None THEN Day3Session(r) ELSE r.day3
      /\ f = [created |-> f.created, intraday |-> f.intraday,
              next |-> f.next, day3 |-> f.day3]
  <2> DEFINE next == IF r.next = None THEN NextSession(r) ELSE r.next
             day3 == IF r.day3 = None THEN Day3Session(r) ELSE r.day3
  <2>1. r = [created |-> r.created, intraday |-> r.intraday,
             next |-> r.next, day3 |-> r.day3]
    BY DEF Rows
  <2>2. ASSUME NEW x, NEW y
        PROVE  [[r EXCEPT !.next = x] EXCEPT !.day3 = y]
               = [created |-> r.created, intraday |-> r.intraday, next |-> x, day3 |-> y]
    <3> DEFINE g == [r EXCEPT !.next = x]
    <3>1. g = [created |-> r.created, intraday |-> r.intraday, next |-> x, day3 |-> r.day3]
      BY <2>1
    <3> HIDE DEF g
    <3>2. [g EXCEPT !.day3 = y]
          = [created |-> r.created, intraday |-> r.intraday, next |-> x, day3 |-> y]
      BY <3>1
    <3>3. QED
      BY <3>2 DEF g
  <2>3. f = [[r EXCEPT !.next = next] EXCEPT !.day3 = day3]
    BY Zenon DEF Filled
  <2>4. QED
    BY <2>2, <2>3
<1>6. f \in Rows
  BY <1>2, <1>3, <1>5 DEF Rows
<1>7. OfItsSessions(f)
  BY <1>2, <1>3, <1>4, <1>5 DEF OfItsSessions
<1>8. Extends(r, f)
  BY <1>5 DEF Extends
<1>9. QED
  BY <1>6, <1>7, <1>8

-----------------------------------------------------------------------------
(* The invariant. *)

LEMMA NothingInEmpty == DOMAIN <<>> = {}
OBVIOUS

\* No row is there at first.
LEMMA JournalInit == Init => IInv
<1> SUFFICES ASSUME Init
             PROVE  IInv
  OBVIOUS
<1>1. TypeOK
  BY TimesNat, JournalAssumption DEF Init, TypeOK, Idle
<1>2. SessionInv /\ RowsOfTheirSessions
  BY NothingInEmpty DEF Init, SessionInv, RowsOfTheirSessions, Idle, IsRow
<1>3. QED
  BY <1>1, <1>2 DEF IInv

\* What was over stays over.
LEMMA StaysRight ==
  ASSUME now \in Times, now' \in Times, now <= now',
         NEW r \in Rows, OfItsSessions(r)
  PROVE  OfItsSessions(r)'
<1>1. /\ now \in Nat /\ now' \in Nat
      /\ r.next # None => r.next \in Nat
      /\ r.day3 # None => r.day3 \in Nat
  BY TimesNat DEF Rows
<1>2. /\ Day(now) \in Nat /\ Day(now') \in Nat /\ Day(now) <= Day(now')
  BY <1>1, DaysPass
<1>3. /\ r.next # None => r.next < Day(now')
      /\ r.day3 # None => r.day3 < Day(now')
  BY <1>1, <1>2 DEF OfItsSessions
<1>4. QED
  BY <1>3 DEF OfItsSessions

\* Time and the provider's sessions move on, the journal does not.
LEMMA WorldKeeps == IInv /\ (Tick \/ Publish \/ UNCHANGED vars) => IInv'
<1> SUFFICES ASSUME IInv, Tick \/ Publish \/ UNCHANGED vars
             PROVE  IInv'
  OBVIOUS
<1>1. /\ now \in Times /\ now' \in Times /\ now <= now'
      /\ UNCHANGED <<rows, jobVars, outages>>
  <2>1. now \in Times /\ now \in Nat
    BY TimesNat DEF IInv, TypeOK
  <2>2. QED
    BY <2>1 DEF Tick, Publish, vars
<1>2. latest' \in Sessions \cup {None}
  <2>1. CASE Publish
    <3> DEFINE coming == {s \in Sessions : s <= Day(now) /\ (latest # None => s > latest)}
    <3>1. coming # {} /\ latest' = Min(coming)
      BY <2>1 DEF Publish
    <3>2. coming \in SUBSET Nat
      BY TimesNat, JournalAssumption
    <3>3. Min(coming) \in coming
      BY <3>1, <3>2, MinIsLeast
    <3>4. QED
      BY <3>1, <3>3
  <2>2. CASE Tick \/ UNCHANGED vars
    BY <2>2 DEF Tick, vars, IInv, TypeOK
  <2>3. QED
    BY <2>1, <2>2
<1>3. started' \in Times /\ started' <= now'
  <2>1. started \in Nat /\ now \in Nat /\ now' \in Nat
    BY <1>1, TimesNat DEF IInv, TypeOK
  <2>2. QED
    BY <1>1, <2>1 DEF IInv, TypeOK, jobVars
<1>4. TypeOK'
  BY <1>1, <1>2, <1>3 DEF IInv, TypeOK, jobVars, Idle
<1>5. \A i \in Ids : IsRow(rows[i]) => rows[i] \in Rows
  BY DEF IInv, TypeOK, IsRow
<1>6. \A i \in DOMAIN batch : batch[i] \in Rows
  BY NothingInEmpty DEF IInv, TypeOK, Idle
<1>7. SessionInv'
  <2>1. \A i \in DOMAIN batch : OfItsSessions(batch[i])'
    BY <1>1, <1>6, StaysRight DEF IInv, SessionInv, jobVars
  <2>2. QED
    BY <1>1, <2>1 DEF IInv, SessionInv, jobVars, Idle, IsRow, Extends
<1>8. RowsOfTheirSessions'
  <2>1. \A i \in Ids : IsRow(rows[i]) => OfItsSessions(rows[i])'
    BY <1>1, <1>5, StaysRight DEF IInv, RowsOfTheirSessions
  <2>2. QED
    BY <1>1, <2>1 DEF RowsOfTheirSessions, IsRow
<1>9. QED
  BY <1>4, <1>7, <1>8 DEF IInv

\* The API adds a row without prices under an id the job does not have, or takes one
\* away for good.
LEMMA ApiKeeps ==
  ASSUME IInv, NEW i \in Ids, Create(i) \/ Delete(i)
  PROVE  IInv'
<1>1. /\ UNCHANGED <<now, latest, jobVars, outages>>
      /\ \A k \in Ids : k # i => rows'[k] = rows[k]
      /\ rows' \in [Ids -> Rows \cup {Absent, Gone}]
      /\ \/ /\ rows[i] = Absent
            /\ rows'[i] = [created |-> now, intraday |-> None, next |-> None, day3 |-> None]
            /\ rows'[i] \in Rows
         \/ /\ IsRow(rows[i]) /\ rows'[i] = Gone
  BY DEF Create, Delete, IInv, TypeOK, Rows
<1>2. TypeOK'
  BY <1>1, JournalAssumption DEF IInv, TypeOK, jobVars, Idle, IsRow
<1>3. SessionInv'
  <2>1. ASSUME NEW k \in DOMAIN batch
        PROVE  /\ rows'[k] # Absent
               /\ IsRow(rows'[k]) => Extends(rows'[k], batch[k])
               /\ OfItsSessions(batch[k])'
    <3>1. k \in Ids /\ rows[k] # Absent
      BY NothingInEmpty DEF IInv, SessionInv, TypeOK, Idle
    <3>2. CASE k = i
      BY <1>1, <3>1, <3>2, JournalAssumption
         DEF IInv, SessionInv, IsRow, OfItsSessions, jobVars
    <3>3. CASE k # i
      BY <1>1, <3>1, <3>3 DEF IInv, SessionInv, OfItsSessions, jobVars
    <3>4. QED
      BY <3>2, <3>3
  <2>2. QED
    BY <1>1, <2>1 DEF IInv, SessionInv, jobVars, Idle, IsRow, Extends
<1>4. RowsOfTheirSessions'
  <2>1. ASSUME NEW k \in Ids, IsRow(rows[k])'
        PROVE  OfItsSessions(rows[k])'
    <3>1. CASE k = i
      <4>1. rows'[k].next = None /\ rows'[k].day3 = None
        BY <1>1, <2>1, <3>1 DEF IsRow
      <4>2. QED
        BY <4>1 DEF OfItsSessions
    <3>2. CASE k # i
      <4>1. rows'[k] = rows[k] /\ now' = now
        BY <1>1, <3>2
      <4>2. QED
        BY <4>1, <2>1 DEF IInv, RowsOfTheirSessions, OfItsSessions
    <3>3. QED
      BY <3>1, <3>2
  <2>2. QED
    BY <2>1 DEF RowsOfTheirSessions
<1>5. QED
  BY <1>2, <1>3, <1>4 DEF IInv

\* What a session holds are rows under their ids.
LEMMA SessionRows ==
  ASSUME IInv, NEW i \in DOMAIN batch
  PROVE  i \in Ids /\ batch[i] \in Rows /\ i # None /\ ~Idle
BY NothingInEmpty, JournalAssumption DEF IInv, TypeOK, Idle

\* run_once() begins with the rows as they are.
LEMMA SelectKeeps == IInv /\ Select => IInv'
<1> SUFFICES ASSUME IInv, Select
             PROVE  IInv'
  OBVIOUS
<1>1. /\ UNCHANGED <<now, latest, rows, outages>>
      /\ started' = now /\ left' = Unfilled /\ current' = None /\ dirty' = {}
      /\ batch' = [i \in Unfilled |-> rows[i]]
      /\ DOMAIN batch' = Unfilled /\ Unfilled # {}
  BY DEF Select
<1>2. \A i \in Unfilled :
        /\ i \in Ids /\ IsRow(rows[i]) /\ rows[i] \in Rows /\ batch'[i] = rows[i]
        /\ OfItsSessions(rows[i])
  BY <1>1 DEF Unfilled, IInv, TypeOK, RowsOfTheirSessions, IsRow
<1>3. batch' # <<>>
  BY <1>1, NothingInEmpty
<1>4. now \in Nat
  BY TimesNat DEF IInv, TypeOK
<1>5. TypeOK'
  BY <1>1, <1>2, <1>4 DEF IInv, TypeOK, Idle, IsRow
<1>6. SessionInv'
  <2>1. \A i \in DOMAIN batch' : OfItsSessions(batch[i])'
    BY <1>1, <1>2 DEF OfItsSessions
  <2>2. \A i \in DOMAIN batch' : Extends(rows[i], batch[i])'
    BY <1>1, <1>2 DEF Extends
  <2>3. QED
    BY <1>1, <1>2, <1>3, <2>1, <2>2 DEF SessionInv, Idle, IsRow
<1>7. RowsOfTheirSessions'
  BY <1>1 DEF IInv, RowsOfTheirSessions, OfItsSessions, IsRow
<1>8. QED
  BY <1>5, <1>6, <1>7 DEF IInv

\* A step of the job that at most adds prices, of its sessions, to one row of
\* its session.
LEMMA StepKeeps ==
  ASSUME IInv, UNCHANGED <<now, latest, rows, started>>,
         outages' \in 0..MaxOutages,
         NEW i \in DOMAIN batch, NEW row \in Rows,
         OfItsSessions(row), Extends(batch[i], row),
         batch' = [batch EXCEPT ![i] = row],
         left' \subseteq left, current' \in {i, None},
         dirty' \subseteq dirty \cup {i}
  PROVE  IInv'
<1>1. /\ DOMAIN batch' = DOMAIN batch /\ batch'[i] = row
      /\ \A k \in DOMAIN batch : k # i => batch'[k] = batch[k]
  OBVIOUS
<1>2. ~Idle /\ ~Idle' /\ i \in Ids /\ rows[i] # Absent
  BY <1>1, SessionRows, NothingInEmpty DEF Idle, IInv, SessionInv
<1>3. batch \in [DOMAIN batch -> Rows] /\ DOMAIN batch \subseteq Ids
  BY <1>2 DEF IInv, TypeOK
<1>4. TypeOK'
  BY <1>1, <1>2, <1>3 DEF IInv, TypeOK
<1>5. SessionInv'
  <2>1. ASSUME NEW k \in DOMAIN batch
        PROVE  /\ rows[k] # Absent
               /\ IsRow(rows[k]) => Extends(rows[k], batch[k])'
               /\ OfItsSessions(batch[k])'
    <3>1. CASE k = i
      <4>1. /\ IsRow(rows[i]) => Extends(rows[i], batch[i])
            /\ rows'[i] = rows[i]
        BY <1>2 DEF IInv, SessionInv
      <4>2. IsRow(rows[i]) => Extends(rows[i], row)
        BY <4>1 DEF Extends
      <4>3. OfItsSessions(batch[i])'
        BY <1>1 DEF OfItsSessions
      <4>4. QED
        BY <1>1, <1>2, <3>1, <4>1, <4>2, <4>3 DEF Extends
    <3>2. CASE k # i
      <4>1. batch'[k] = batch[k]
        BY <1>1, <3>2
      <4>2. QED
        BY <4>1 DEF IInv, SessionInv, OfItsSessions, Extends
    <3>3. QED
      BY <3>1, <3>2
  <2>2. (left \cup dirty \cup ({current} \ {None}))' \subseteq DOMAIN batch
    BY DEF IInv, SessionInv
  <2>3. QED
    BY <1>1, <1>2, <2>1, <2>2 DEF SessionInv, IsRow
<1>6. RowsOfTheirSessions'
  BY DEF IInv, RowsOfTheirSessions, OfItsSessions, IsRow
<1>7. QED
  BY <1>4, <1>5, <1>6 DEF IInv

\* A step that leaves the rows of the session as they are.
LEMMA SkipKeeps ==
  ASSUME IInv, UNCHANGED <<now, latest, rows, started, batch>>,
         outages' \in 0..MaxOutages,
         NEW i \in DOMAIN batch,
         left' \subseteq left, current' \in {i, None},
         dirty' \subseteq dirty \cup {i}
  PROVE  IInv'
<1>1. batch[i] \in Rows /\ OfItsSessions(batch[i]) /\ Extends(batch[i], batch[i])
  BY SessionRows DEF IInv, SessionInv, Extends
<1>2. batch' = [batch EXCEPT ![i] = batch[i]]
  BY SessionRows DEF IInv, TypeOK
<1>3. QED
  BY <1>1, <1>2, StepKeeps

\* The budget of failing requests is kept.
LEMMA OutagesCount ==
  IInv /\ (Outage \/ UNCHANGED outages) => outages' \in 0..MaxOutages
BY JournalAssumption DEF Outage, IInv, TypeOK

\* The quote is a price at last, where there was none.
LEMMA QuoteKeeps == ASSUME IInv, NEW i \in Ids, Quote(i) PROVE IInv'
<1>1. /\ UNCHANGED <<now, latest, rows, started>> /\ i \in DOMAIN batch
      /\ left' \subseteq left /\ current' = i
      /\ outages' \in 0..MaxOutages
  BY OutagesCount DEF Quote, IInv, SessionInv
<1>2. batch[i] \in Rows /\ OfItsSessions(batch[i]) /\ now \in Times
  BY <1>1, SessionRows DEF IInv, SessionInv, TypeOK
<1>3. CASE IntradayDue(batch[i]) /\ dirty' = dirty \cup {i}
           /\ batch' = [batch EXCEPT ![i].intraday = now]
  <2> DEFINE row == [batch[i] EXCEPT !.intraday = now]
  <2>1. /\ row \in Rows /\ row.created = batch[i].created
        /\ row.next = batch[i].next /\ row.day3 = batch[i].day3
        /\ batch[i].intraday = None
    BY <1>2, <1>3 DEF Rows, IntradayDue
  <2>2. OfItsSessions(row) /\ Extends(batch[i], row)
    BY <1>2, <2>1 DEF OfItsSessions, Extends
  <2>3. batch' = [batch EXCEPT ![i] = row]
    BY <1>3
  <2> HIDE DEF row
  <2>4. QED
    BY <1>1, <1>3, <2>1, <2>2, <2>3, StepKeeps
<1>4. CASE UNCHANGED <<batch, dirty>>
  BY <1>1, <1>4, SkipKeeps
<1>5. QED
  BY <1>3, <1>4 DEF Quote

\* The daily bars add what FilledIsRight says, or the row is given up.
LEMMA BarsKeep == IInv /\ (Bars \/ BarsFail) => IInv'
<1> SUFFICES ASSUME IInv, Bars \/ BarsFail
             PROVE  IInv'
  OBVIOUS
<1>1. current \in DOMAIN batch /\ UNCHANGED <<now, latest, rows, started>>
      /\ left' \subseteq left /\ current' = None
      /\ outages' \in 0..MaxOutages
  BY OutagesCount DEF Bars, BarsFail, LeftAfterFailure, IInv, SessionInv
<1>2. CASE Bars
  <2> DEFINE row == Filled(batch[current])
  <2>1. /\ batch' = [batch EXCEPT ![current] = row]
        /\ dirty' \subseteq dirty \cup {current}
    BY <1>2 DEF Bars
  <2>2. row \in Rows /\ OfItsSessions(row) /\ Extends(batch[current], row)
    BY <1>1, SessionRows, FilledIsRight DEF IInv, SessionInv
  <2> HIDE DEF row
  <2>3. QED
    BY <1>1, <2>1, <2>2, StepKeeps
<1>3. CASE BarsFail
  BY <1>1, <1>3, SkipKeeps DEF BarsFail
<1>4. QED
  BY <1>2, <1>3

\* What a commit leaves of a row: the row as it was, or the session's copy of a row
\* that still exists, which has its prices and more.
LEMMA CommittedRows ==
  ASSUME IInv
  PROVE  /\ Committed \in [Ids -> Rows \cup {Absent, Gone}]
         /\ \A i \in Ids :
              \/ Committed[i] = rows[i]
              \/ /\ IsRow(rows[i]) /\ Committed[i] \in Rows
                 /\ Extends(rows[i], Committed[i]) /\ OfItsSessions(Committed[i])
<1>1. \A k \in dirty : /\ k \in DOMAIN batch /\ batch[k] \in Rows
                       /\ OfItsSessions(batch[k])
                       /\ IsRow(rows[k]) => Extends(rows[k], batch[k])
  BY SessionRows DEF IInv, SessionInv
<1>2. rows \in [Ids -> Rows \cup {Absent, Gone}]
  BY DEF IInv, TypeOK
<1>3. QED
  BY <1>1, <1>2 DEF Committed

\* The end of a pass: nothing is left in its session.
LEMMA CloseKeeps == IInv /\ (Commit \/ Crash) => IInv'
<1> SUFFICES ASSUME IInv, Commit \/ Crash
             PROVE  IInv'
  OBVIOUS
<1>1. /\ UNCHANGED <<now, latest>> /\ outages' \in 0..MaxOutages
      /\ batch' = <<>> /\ started' = 0 /\ left' = {} /\ current' = None /\ dirty' = {}
      /\ rows' \in {rows, Committed}
  BY OutagesCount DEF Commit, Crash, Close
<1>2. \A i \in Ids : \/ rows'[i] = rows[i]
                     \/ IsRow(rows[i]) /\ rows'[i] \in Rows /\ OfItsSessions(rows'[i])
  BY <1>1, CommittedRows
<1>3. rows' \in [Ids -> Rows \cup {Absent, Gone}]
  BY <1>1, CommittedRows DEF IInv, TypeOK
<1>4. 0 \in Times /\ now \in Nat
  BY TimesNat DEF IInv, TypeOK
<1>5. TypeOK'
  BY <1>1, <1>3, <1>4 DEF IInv, TypeOK, Idle
<1>6. SessionInv'
  BY <1>1, NothingInEmpty DEF SessionInv, Idle
<1>7. RowsOfTheirSessions'
  BY <1>1, <1>2 DEF IInv, RowsOfTheirSessions, OfItsSessions, IsRow
<1>8. QED
  BY <1>5, <1>6, <1>7 DEF IInv

\* Every step keeps the invariant.
LEMMA JournalNext == IInv /\ [Next]_vars => IInv'
BY WorldKeeps, ApiKeeps, SelectKeeps, QuoteKeeps, BarsKeep, CloseKeeps DEF Next, Job

LEMMA JournalInvariant == Spec => []IInv
BY JournalInit, JournalNext, PTL DEF Spec

\* The journal and the job's session are well-typed, and the job only holds rows
\* that were created.
THEOREM JournalTypes == Spec => []TypeOK
<1>1. IInv => TypeOK
  BY DEF IInv
<1>2. QED
  BY <1>1, JournalInvariant, PTL

\* From three calendar days after a day to the first session from then on there are at
\* most three sessions, however the holidays fall.
LEMMA AtMostThree ==
  ASSUME NEW d \in Nat, NEW last, IsFirstFrom(last, d + 3)
  PROVE  Cardinality({s \in Sessions : d < s /\ s <= last}) <= 3
<1> DEFINE used == {s \in Sessions : d < s /\ s <= last}
           three == {d + 1, d + 2, last}
<1>1. Sessions \subseteq Nat /\ last \in Nat
  BY TimesNat, JournalAssumption DEF IsFirstFrom
<1>2. ASSUME NEW s \in used
      PROVE  s \in three
  <2>1. s \in Nat /\ s \in Sessions /\ d < s /\ s <= last
    BY <1>1
  <2>2. CASE s >= d + 3
    <3>1. last <= s
      BY <2>1, <2>2 DEF IsFirstFrom
    <3>2. QED
      BY <1>1, <2>1, <3>1
  <2>3. CASE ~(s >= d + 3)
    BY <2>1, <2>3
  <2>4. QED
    BY <2>2, <2>3
<1>3. IsFiniteSet(three) /\ Cardinality(three) \in Nat /\ Cardinality(three) <= 3
  <2>1. IsFiniteSet({d + 1}) /\ Cardinality({d + 1}) = 1
    BY FS_Singleton
  <2>2. /\ IsFiniteSet({d + 1} \cup {d + 2})
        /\ Cardinality({d + 1} \cup {d + 2}) \in {1, 2}
    BY <2>1, FS_AddElement
  <2>3. /\ IsFiniteSet(({d + 1} \cup {d + 2}) \cup {last})
        /\ Cardinality(({d + 1} \cup {d + 2}) \cup {last}) \in {1, 2, 3}
    BY <2>2, FS_AddElement
  <2>4. ({d + 1} \cup {d + 2}) \cup {last} = three
    OBVIOUS
  <2>5. QED
    BY <2>3, <2>4
<1> HIDE DEF used, three
<1>4. used \subseteq three
  BY <1>2
<1>5. Cardinality(used) \in Nat /\ Cardinality(used) <= Cardinality(three)
  BY <1>3, <1>4, FS_Subset, FS_CardinalityType
<1>6. Cardinality(used) <= 3
  BY <1>3, <1>5
<1>7. QED
  BY <1>6 DEF used

\* For every calendar, and whenever the job and the provider get round to it: the
\* next session's price is of the first session after the entry, the last one not
\* of a session before that nor of one after the third, and both were over when
\* they were written.
THEOREM PricesAreOfTheRightSessions == Spec => []RightSessions
<1>1. ASSUME IInv, NEW i \in Ids, IsRow(rows[i]), NEW r, r = rows[i]
      PROVE  /\ r.next # None => IsFirstFrom(r.next, Day(r.created) + 1) /\ r.next < Day(now)
             /\ r.day3 # None => /\ r.next # None /\ r.next <= r.day3
                                 /\ r.day3 \in Sessions /\ r.day3 < Day(now)
                                 /\ Cardinality(SessionsUsed(r)) <= 3
  <2>1. r \in Rows /\ OfItsSessions(r)
    BY <1>1 DEF IInv, TypeOK, RowsOfTheirSessions, IsRow
  <2>2. Day(r.created) \in Nat /\ Sessions \subseteq Nat
    BY <2>1, TimesNat, DaysPass, JournalAssumption DEF Rows
  <2>3. ASSUME r.day3 # None
        PROVE  r.next <= r.day3 /\ Cardinality(SessionsUsed(r)) <= 3
    <3>1. /\ IsFirstFrom(r.day3, Day(r.created) + 3)
          /\ IsFirstFrom(r.next, Day(r.created) + 1)
      BY <2>1, <2>3 DEF OfItsSessions
    <3>2. r.next <= r.day3
      <4>1. r.day3 \in Sessions /\ r.day3 >= Day(r.created) + 3
        BY <3>1 DEF IsFirstFrom
      <4>2. r.day3 >= Day(r.created) + 1
        <5>1. \A d, s \in Nat : s >= d + 3 => s >= d + 1
          OBVIOUS
        <5>2. r.day3 \in Nat
          BY <2>2, <4>1
        <5>3. QED
          BY <2>2, <4>1, <5>1, <5>2
      <4>3. QED
        BY <3>1, <4>1, <4>2 DEF IsFirstFrom
    <3>3. Cardinality(SessionsUsed(r)) <= 3
      BY <2>2, <3>1, AtMostThree DEF SessionsUsed
    <3>4. QED
      BY <3>2, <3>3
  <2>4. QED
    BY <2>1, <2>3 DEF OfItsSessions, IsFirstFrom
<1>2. IInv => RightSessions
  BY <1>1 DEF RightSessions
<1>3. QED
  BY <1>2, JournalInvariant, PTL

\* For any number of ideas: a later one is measured in no earlier session than one
\* before it, and those of a day in the same.
THEOREM IdeasAreMeasuredAlike == Spec => []MeasuredAlike
<1>1. ASSUME IInv, NEW i \in Ids, NEW j \in Ids, IsRow(rows[i]), IsRow(rows[j]),
             Day(rows[i].created) <= Day(rows[j].created)
      PROVE  /\ rows[i].next # None /\ rows[j].next # None => rows[i].next <= rows[j].next
             /\ rows[i].day3 # None /\ rows[j].day3 # None => rows[i].day3 <= rows[j].day3
  <2>1. /\ rows[i] \in Rows /\ rows[j] \in Rows
        /\ OfItsSessions(rows[i]) /\ OfItsSessions(rows[j])
    BY <1>1 DEF IInv, TypeOK, RowsOfTheirSessions, IsRow
  <2>2. /\ Day(rows[i].created) \in Nat /\ Day(rows[j].created) \in Nat
        /\ Sessions \subseteq Nat
    BY <2>1, TimesNat, DaysPass, JournalAssumption DEF Rows
  <2>3. ASSUME NEW a \in Nat, NEW b \in Nat, a <= b, NEW n \in Nat, NEW x, NEW y,
               IsFirstFrom(x, a + n), IsFirstFrom(y, b + n)
        PROVE  x <= y
    <3>1. y \in Sessions /\ y >= a + n
      BY <2>2, <2>3 DEF IsFirstFrom
    <3>2. QED
      BY <2>3, <3>1 DEF IsFirstFrom
  <2>4. QED
    BY <1>1, <2>1, <2>2, <2>3 DEF OfItsSessions
<1>2. IInv => MeasuredAlike
  BY <1>1 DEF MeasuredAlike
<1>3. QED
  BY <1>2, JournalInvariant, PTL

-----------------------------------------------------------------------------
(* What is written stays written. *)

\* No step replaces a price or brings a deleted row back: the job because its copy
\* extends the row, and because a commit that meets a deleted row writes nothing.
LEMMA StepWritesOnce ==
  ASSUME IInv, [Next]_vars, NEW i \in Ids
  PROVE  /\ rows[i] = Gone => rows'[i] = Gone
         /\ IsRow(rows[i]) /\ IsRow(rows'[i]) =>
              \A f \in {"intraday", "next", "day3"} :
                rows[i][f] # None => rows'[i][f] = rows[i][f]
<1>1. CASE UNCHANGED rows
  BY <1>1
<1>2. CASE Commit
  <2>1. rows' = Committed
    BY <1>2 DEF Commit
  <2>2. rows'[i] = rows[i] \/ (IsRow(rows[i]) /\ Extends(rows[i], rows'[i]))
    BY <2>1, CommittedRows
  <2>3. QED
    BY <2>2 DEF IsRow, Extends
<1>3. ASSUME NEW k \in Ids, Create(k)
      PROVE  rows'[i] = rows[i] \/ rows[i] = Absent
  BY <1>3 DEF Create, IInv, TypeOK
<1>4. ASSUME NEW k \in Ids, Delete(k)
      PROVE  rows'[i] = rows[i] \/ (IsRow(rows[i]) /\ rows'[i] = Gone)
  BY <1>4 DEF Delete, IInv, TypeOK
<1>5. CASE Tick \/ Publish \/ Select \/ Bars \/ BarsFail \/ Crash \/ UNCHANGED vars
           \/ \E k \in Ids : Quote(k)
  <2>1. UNCHANGED rows
    BY <1>5 DEF Tick, Publish, Select, Bars, BarsFail, Crash, Quote, vars
  <2>2. QED
    BY <1>1, <2>1
<1>6. CASE rows[i] = Absent \/ rows'[i] = rows[i] \/ (IsRow(rows[i]) /\ rows'[i] = Gone)
  BY <1>6, JournalAssumption DEF IsRow
<1>7. QED
  BY <1>2, <1>3, <1>4, <1>5, <1>6 DEF Next, Job

\* A price that was written is final, and so is a deletion.
THEOREM PricesAreFinal == Spec => WrittenOnce
<1>1. IInv /\ [Next]_vars =>
        [\A i \in Ids :
           /\ rows[i] = Gone => rows'[i] = Gone
           /\ IsRow(rows[i]) /\ IsRow(rows'[i]) =>
                \A f \in {"intraday", "next", "day3"} :
                  rows[i][f] # None => rows'[i][f] = rows[i][f]]_vars
  BY StepWritesOnce
<1>2. QED
  BY <1>1, JournalInvariant, PTL DEF Spec, WrittenOnce

=============================================================================

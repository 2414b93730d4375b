------------------------------ MODULE Trackers ------------------------------
(***************************************************************************)
(* The rolling windows the pipeline keeps in memory (pipeline/realtime.py, *)
(* scoring/sequence.py).  A window is a sequence of what was recorded and  *)
(* when, oldest first; what a tracker answers goes into the features of    *)
(* the print being scored.  Time is in ticks, answers in per mille.        *)
(***************************************************************************)
EXTENDS Normalize

CONSTANTS
  Contracts, Tickers,
  SweepWindow, SequenceWindow, IvWindow, FollowWindow,   \* ages kept
  MaxEvents,       \* maxlen of the deques
  MinHistory,      \* IVRankTracker.min_history
  PremiumFloor, PremiumTarget,   \* what a premium that follows through ranges over
  Unknown          \* no IV on the print, or too little history

ASSUME TrackersAssumption ==
  /\ {SweepWindow, SequenceWindow, IvWindow, FollowWindow} \subseteq Nat
  /\ MaxEvents \in Nat \ {0}

\* Old entries leave at the front, up to the first that is still in the window.
Mutant_EvictAtTheEdge(dq, now, window) ==
  LET kept == {i \in DOMAIN dq : now - dq[i].at < window}
  IN  IF kept = {} THEN <<>> ELSE SubSeq(dq, Min(kept), Len(dq))
Evict(dq, now, window) ==
  LET kept == {i \in DOMAIN dq : now - dq[i].at <= window}
  IN  IF kept = {} THEN <<>> ELSE SubSeq(dq, Min(kept), Len(dq))

\* append() on a deque with a maxlen.
Push(dq, x) == IF Len(dq) < MaxEvents THEN Append(dq, x) ELSE Append(Tail(dq), x)

Premiums(dq) == FoldLeft(LAMBDA sum, x : sum + x.premium, 0, dq)

NoTrackers ==
  [sweeps |-> [k \in Contracts |-> <<>>], prints |-> [s \in Tickers |-> <<>>],
   ivs |-> [s \in Tickers |-> <<>>], follows |-> [k \in Contracts |-> <<>>]]

-----------------------------------------------------------------------------
(* The windows after print p. *)

SweepsAfter(t, p, now) ==
  IF p.sweep THEN Evict(Append(t.sweeps[p.contract], [at |-> now]), now, SweepWindow)
  ELSE t.sweeps[p.contract]

PrintsAfter(t, p, now) ==
  Evict(Push(t.prints[p.ticker],
             [at |-> now, strike |-> p.strike, premium |-> p.premium, call |-> p.call]),
        now, SequenceWindow)

IvsBefore(t, p, now) == Evict(t.ivs[p.ticker], now, IvWindow)

IvsAfter(t, p, now) ==
  IF p.iv = Unknown THEN t.ivs[p.ticker]
  ELSE Push(IvsBefore(t, p, now), [at |-> now, iv |-> p.iv])

FollowsBefore(t, p, now) == Evict(t.follows[p.contract], now, FollowWindow)

\* The four record() calls of process() and handle().
Recorded(t, p, now) ==
  [sweeps  |-> [t.sweeps EXCEPT ![p.contract] = SweepsAfter(t, p, now)],
   prints  |-> [t.prints EXCEPT ![p.ticker] = PrintsAfter(t, p, now)],
   ivs     |-> [t.ivs EXCEPT ![p.ticker] = IvsAfter(t, p, now)],
   follows |-> [t.follows EXCEPT ![p.contract] =
                  Push(FollowsBefore(t, p, now), [at |-> now, premium |-> p.premium])]]

-----------------------------------------------------------------------------
(* What they answer. *)

\* The later gaps against the earlier ones, each on average.
CadenceAccel(dq) ==
  LET n       == Len(dq)
      half    == (n - 1) \div 2
      earlier == dq[half + 1].at - dq[1].at
      later   == dq[n].at - dq[half + 1].at
  IN  IF n < 4 \/ earlier <= 0 THEN 0
      ELSE Clamp(One - (One * later * half) \div ((n - 1 - half) * earlier))

\* The share of steps between consecutive calls that go up.
StrikeLadder(dq) ==
  LET calls == SelectSeq(dq, LAMBDA x : x.call)
      ups   == {i \in 2..Len(calls) : calls[i].strike > calls[i - 1].strike}
  IN  IF Len(calls) < 3 THEN 0 ELSE (One * Cardinality(ups)) \div (Len(calls) - 1)

\* Where an IV lies in the range of those before it.
Mutant_RankAmongItself(before, iv) ==
  LET ivs == {before[i].iv : i \in DOMAIN before} \cup {iv}
  IN  IF iv = Unknown \/ Len(before) + 1 < MinHistory THEN Unknown
      ELSE IF Min(ivs) = Max(ivs) THEN 500 ELSE Ramp(iv, Min(ivs), Max(ivs))
IvRank(before, iv) ==
  LET ivs == {before[i].iv : i \in DOMAIN before}
  IN  IF iv = Unknown \/ Len(before) < MinHistory THEN Unknown
      ELSE IF Min(ivs) = Max(ivs) THEN 500 ELSE Ramp(iv, Min(ivs), Max(ivs))

FollowThrough(before) ==
  IF before = <<>> THEN 0
  ELSE (Ramp(Len(before), 1, 5) + Ramp(Premiums(before), PremiumFloor, PremiumTarget)) \div 2

Signals(t, p, now) ==
  [repeated |-> IF p.sweep THEN Len(SweepsAfter(t, p, now)) ELSE 0,
   count    |-> Len(PrintsAfter(t, p, now)),
   cadence  |-> CadenceAccel(PrintsAfter(t, p, now)),
   ladder   |-> StrikeLadder(PrintsAfter(t, p, now)),
   velocity |-> Premiums(PrintsAfter(t, p, now)) \div SequenceWindow,
   ivRank   |-> IvRank(IvsBefore(t, p, now), p.iv),
   follow   |-> FollowThrough(FollowsBefore(t, p, now))]
=============================================================================

----------------------------- MODULE TokenBucket -----------------------------
(***************************************************************************)
(* The rate limiter of the outbound calls (app/core/ratelimit.py) and the  *)
(* coroutines that share it.  Nothing is awaited between taking the lock   *)
(* and releasing it, so one round of acquire()'s loop is one step; between *)
(* two rounds the caller sleeps, and may be resumed late.                  *)
(*                                                                         *)
(* Time is in ticks and a token is divided into grains, so that rate,      *)
(* capacity and the cost of a call are naturals; the arithmetic is exact   *)
(* where the code's is floating-point.  The budget is watched through one  *)
(* window of time, which starts anywhere.                                  *)
(***************************************************************************)
EXTENDS Naturals

CONSTANTS
  Callers,
  Costs,      \* what a call may ask for, in grains
  Rate,       \* grains a tick
  Capacity,   \* grains the bucket holds
  MaxTime     \* bound: the clock

ASSUME BucketAssumption ==
  /\ Costs \subseteq Nat \ {0}
  /\ Rate \in Nat \ {0}
  /\ Capacity \in Nat
  /\ MaxTime \in Nat

VARIABLES
  now,
  tokens,    \* TokenBucket._tokens
  updated,   \* TokenBucket._updated
  pc,        \* "idle", "ready" to try, or "asleep"
  need,      \* n of the call
  wake,      \* when asyncio.sleep(wait) is over
  window,    \* where the watched window starts
  spent      \* grains granted in the window

bucketVars == <<now, tokens, updated, pc, need, wake, window, spent>>

Least(a, b) == IF a <= b THEN a ELSE b

\* The ticks until d grains have dripped in, rounded up to the next tick.
TicksFor(d) == (d + Rate - 1) \div Rate

Tick ==
  /\ now < MaxTime
  /\ now' = now + 1
  /\ UNCHANGED <<tokens, updated, pc, need, wake, window, spent>>

\* A coroutine calls acquire(n).
Call(c) ==
  /\ pc[c] = "idle"
  /\ \E n \in Costs : need' = [need EXCEPT ![c] = n]
  /\ pc' = [pc EXCEPT ![c] = "ready"]
  /\ UNCHANGED <<now, tokens, updated, wake, window, spent>>

\* _refill(): what dripped in since the last round, up to the capacity.
Mutant_Overflow == tokens + (now - updated) * Rate
Refilled == Least(Capacity, tokens + (now - updated) * Rate)

Mutant_AnyTokens(c) == Refilled > 0
Enough(c) == Refilled >= need[c]

\* The token is taken.
Take(c) ==
  /\ pc[c] = "ready"
  /\ Enough(c)
  /\ tokens' = Refilled - need[c]
  /\ updated' = now
  /\ pc' = [pc EXCEPT ![c] = "idle"]
  /\ spent' = IF now >= window THEN spent + need[c] ELSE spent
  /\ UNCHANGED <<now, need, wake, window>>

\* The time to sleep for a deficit.
Mutant_SleepForAll(deficit) == TicksFor(Capacity + deficit)
Wait(deficit) == TicksFor(deficit)

\* Not enough tokens: sleep until the missing ones have dripped in.
Sleep(c) ==
  /\ pc[c] = "ready"
  /\ ~Enough(c)
  /\ tokens' = Refilled
  /\ updated' = now
  /\ wake' = [wake EXCEPT ![c] = now + Wait(need[c] - Refilled)]
  /\ pc' = [pc EXCEPT ![c] = "asleep"]
  /\ UNCHANGED <<now, need, window, spent>>

Wake(c) ==
  /\ pc[c] = "asleep"
  /\ now >= wake[c]
  /\ pc' = [pc EXCEPT ![c] = "ready"]
  /\ UNCHANGED <<now, tokens, updated, need, wake, window, spent>>

BucketInit ==
  /\ now = 0
  /\ tokens = Capacity
  /\ updated = 0
  /\ pc = [c \in Callers |-> "idle"]
  /\ need \in [Callers -> Costs]
  /\ wake = [c \in Callers |-> 0]
  /\ window \in 0..MaxTime
  /\ spent = 0

BucketNext ==
  \/ Tick
  \/ \E c \in Callers : Call(c) \/ Take(c) \/ Sleep(c) \/ Wake(c)

BucketSpec == BucketInit /\ [][BucketNext]_bucketVars

-----------------------------------------------------------------------------
(* Properties. *)

\* Every variable has its type; the bucket is never overdrawn.
BucketTypeOK ==
  /\ now \in 0..MaxTime
  /\ tokens \in 0..Capacity
  /\ updated \in 0..now
  /\ pc \in [Callers -> {"idle", "ready", "asleep"}]
  /\ need \in [Callers -> Costs]
  /\ wake \in [Callers -> Nat]
  /\ window \in 0..MaxTime
  /\ spent \in Nat

\* In a window of any length, wherever it starts, the callers together get at
\* most a full bucket and what drips in meanwhile ("up to capacity calls can
\* fire immediately, then calls are paced at rate").
WindowBudget == spent <= Capacity + Rate * (IF now >= window THEN now - window ELSE 0)

\* Nobody sleeps while the bucket holds enough for it, whatever the others took
\* or left since.
NoNeedlessSleep ==
  \A c \in Callers :
    (pc[c] = "asleep" /\ now < wake[c]) => Refilled < need[c]

-----------------------------------------------------------------------------
(* The inductive invariants behind WindowBudget and NoNeedlessSleep (the     *)
(* proofs are in Providers_proofs).                                        *)

\* What the bucket holds counts against the window too, once it was refilled in
\* the window.
WindowInv ==
  /\ updated < window => spent = 0
  /\ updated >= window => spent + tokens <= Capacity + Rate * (updated - window)

\* The bucket as it would be at time t if nobody took anything.
LevelAt(t) == Least(Capacity, tokens + (t - updated) * Rate)

\* At no time before it wakes will there be enough for a sleeping caller.
SleepInv ==
  \A c \in Callers :
    pc[c] = "asleep" => \A t \in updated..(wake[c] - 1) : LevelAt(t) < need[c]
=============================================================================

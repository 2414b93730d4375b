---------------------------- MODULE AtLeastOnce ----------------------------
(***************************************************************************)
(* What the queue and its consumers promise together ("at-least-once       *)
(* delivery", app/core/queue.py): an event may be stored and broadcast     *)
(* again and again, in any order, but it is settled only once both were    *)
(* done for it, or when it is given up; none of this is ever undone.       *)
(***************************************************************************)
EXTENDS Naturals

CONSTANT MaxEvents

VARIABLES
  sent,       \* events 1..sent were handed to the queue
  stored,     \* events with a committed row
  shown,      \* events that were broadcast
  givenUp,    \* events the consumer could not handle
  settled     \* events the queue will not deliver again

vars == <<sent, stored, shown, givenUp, settled>>

Sent == 1..sent

Init ==
  /\ sent = 0
  /\ stored = {}
  /\ shown = {}
  /\ givenUp = {}
  /\ settled = {}

Send ==
  /\ sent < MaxEvents
  /\ sent' = sent + 1
  /\ UNCHANGED <<stored, shown, givenUp, settled>>

Store(S) ==
  /\ stored' = stored \cup S
  /\ UNCHANGED <<sent, shown, givenUp, settled>>

Show(i) ==
  /\ i \in stored
  /\ shown' = shown \cup {i}
  /\ UNCHANGED <<sent, stored, givenUp, settled>>

GiveUp(i) ==
  /\ givenUp' = givenUp \cup {i}
  /\ settled' = settled \cup {i}
  /\ UNCHANGED <<sent, stored, shown>>

Settle(S) ==
  /\ S \subseteq stored \cap shown
  /\ settled' = settled \cup S
  /\ UNCHANGED <<sent, stored, shown, givenUp>>

Next ==
  \/ Send
  \/ \E S \in SUBSET Sent : Store(S) \/ Settle(S)
  \/ \E i \in Sent : Show(i) \/ GiveUp(i)

Spec == Init /\ [][Next]_vars
=============================================================================

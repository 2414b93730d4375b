------------------------------ MODULE LiveFeed ------------------------------
(***************************************************************************)
(* What the live channel promises (core/redis_client.py, api/routes/ws.py):*)
(* whoever joins hears everything published from then on, in order,        *)
(* nothing twice and nothing skipped, until the connection ends.           *)
(***************************************************************************)
EXTENDS Naturals, Sequences

CONSTANTS Clients, MaxFlows

VARIABLES
  published,   \* the payloads, oldest first
  joined,      \* how many there were when a client joined; it hears the rest
  got,         \* what it received
  over         \* the clients whose connection ended

vars == <<published, joined, got, over>>

NotJoined == MaxFlows + 1

Publish ==
  /\ \E n \in 1..MaxFlows : published' = Append(published, n)
  /\ UNCHANGED <<joined, got, over>>

Join(c) ==
  /\ joined[c] = NotJoined
  /\ joined' = [joined EXCEPT ![c] = Len(published)]
  /\ UNCHANGED <<published, got, over>>

Hear(c) ==
  LET next == joined[c] + Len(got[c]) + 1
  IN  /\ c \notin over
      /\ next <= Len(published)
      /\ got' = [got EXCEPT ![c] = Append(@, published[next])]
      /\ UNCHANGED <<published, joined, over>>

End ==
  /\ over' \in SUBSET Clients
  /\ over \subseteq over'
  /\ UNCHANGED <<published, joined, got>>

Init ==
  /\ published = <<>>
  /\ joined = [c \in Clients |-> NotJoined]
  /\ got = [c \in Clients |-> <<>>]
  /\ over = {}

Next == Publish \/ End \/ \E c \in Clients : Join(c) \/ Hear(c)

Spec == Init /\ [][Next]_vars
=============================================================================

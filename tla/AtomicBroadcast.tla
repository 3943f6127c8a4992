--------------------------- MODULE AtomicBroadcast ---------------------------
(***************************************************************************)
(* What one epoch of the Proposals package promises the rest of the        *)
(* server: write requests are put into ONE order, and what arrives on the  *)
(* `committed` channel of any server is that order, without gaps, repeats  *)
(* or inventions, the coordinator first.                                   *)
(*                                                                         *)
(* No messages, counters or acknowledgements appear here; ZabBroadcast is  *)
(* shown to implement this module.                                         *)
(***************************************************************************)
EXTENDS Naturals, Sequences

CONSTANTS Server,   \* the configured servers
          Leader,   \* the coordinator of the epoch
          Request   \* the write requests that may be sent

VARIABLES submitted,  \* requests handed to SendWriteRequest
          order,      \* requests the coordinator accepted, in proposal order
          delivered   \* delivered[s]: requests sent on s's committed channel

vars == <<submitted, order, delivered>>

Init ==
  /\ submitted = {}
  /\ order = << >>
  /\ delivered = [s \in Server |-> << >>]

Submit(r) ==
  /\ r \notin submitted
  /\ submitted' = submitted \cup {r}
  /\ UNCHANGED <<order, delivered>>

\* A submitted request gets its place in the order, at most one place.
Order(r) ==
  /\ r \in submitted
  /\ \A i \in 1..Len(order) : order[i] # r
  /\ order' = Append(order, r)
  /\ UNCHANGED <<submitted, delivered>>

\* A server delivers the next request of the order; the others only what the
\* coordinator has delivered.
Deliver(s) ==
  LET next == Len(delivered[s]) + 1 IN
  /\ next <= Len(order)
  /\ s # Leader => next <= Len(delivered[Leader])
  /\ delivered' = [delivered EXCEPT ![s] = Append(@, order[next])]
  /\ UNCHANGED <<submitted, order>>

Next ==
  \/ \E r \in Request : Submit(r) \/ Order(r)
  \/ \E s \in Server : Deliver(s)

Spec == Init /\ [][Next]_vars
=============================================================================

------------------------------ MODULE Election ------------------------------
(***************************************************************************)
(* The ring election of internal/election with the two drivers that run    *)
(* it.  A Discovery message goes round the ring and collects zxids; the    *)
(* first server that sees it a second time picks the coordinator and sends *)
(* an Announcement round, and the end of that sends the NewRing round.  A  *)
(* server that starts sends RingDiscover round first, to be put in the     *)
(* ring of the others.                                                     *)
(*                                                                         *)
(* net[s][t] is the TCP connection from s to t.  ZXID is fixed: ZabSync    *)
(* has an election during which it changes.                                *)
(***************************************************************************)
EXTENDS Naturals, Sequences, FiniteSets, SequencesExt

CONSTANTS Servers,      \* configReader.GetConfig().Servers, in order
          ZXID,         \* ZXID[s] = zxidCounter.GetLatestZXID() at s
          Scenarios     \* the drivers and faults considered

Server == Range(Servers)
NoServer == 0

ASSUME ServersAssumption ==
  /\ Servers \in Seq(Nat \ {0}) /\ IsInjective(Servers)
  /\ ZXID \in [Server -> Nat]

\* What does not change during an execution:
\*   Main         TRUE: the driver main; FALSE: zabFailureTest
\*   OneAtATime   TRUE: a server starts or crashes once the elections are over
\*   InitiallyUp  the servers that run with an agreed coordinator
\*   MaxBoots     bound: starts, after the servers of InitiallyUp
\*   MaxCrashes   bound: crashes
\*   MaxLost      bound: messages written to a broken connection
ASSUME ScenariosAssumption ==
  \A sc \in Scenarios :
    /\ {sc.Main, sc.OneAtATime} \subseteq BOOLEAN
    /\ {sc.MaxBoots, sc.MaxCrashes, sc.MaxLost} \subseteq Nat
    /\ sc.InitiallyUp \subseteq Server

VARIABLES scenario,     \* the driver and the faults of this execution
          up,           \* servers that run
          Addresses,    \* Addresses[s]: the ring as s knows it
          Coordinator,  \* Coordinator[s]
          ringDiscoverInitiator,
          dispatching,  \* dispatching[s]: goroutines of StartRingMessage still to send
          net,          \* net[s][t]: messages from s to t
          failedSends,  \* failedSends[s]: broken connections not yet handled
          boots, crashes, lost

vars == <<scenario, up, Addresses, Coordinator, ringDiscoverInitiator, dispatching,
          net, failedSends, boots, crashes, lost>>

Message(type, visited, zxids, payload) ==
  [Message_Type |-> type, Visited_Nodes |-> visited, ZxId_List |-> zxids, Payload |-> payload]

\* The winner of an election among the servers of S.
best(S) == CHOOSE s \in S : \A t \in S \ {s} :
             ZXID[s] > ZXID[t] \/ (ZXID[s] = ZXID[t] /\ s > t)

\* Lists that name no server twice.
Rings == {r \in UNION {[1..n -> Server] : n \in 0..Cardinality(Server)} : IsInjective(r)}

\* The servers of S in the order of the configuration.
inConfigOrder(ring, S) ==
  /\ Range(ring) = S
  /\ \A i, j \in 1..Len(ring) : i < j =>
       \E a, b \in 1..Len(Servers) : a < b /\ ring[i] = Servers[a] /\ ring[j] = Servers[b]

Init ==
  /\ scenario \in Scenarios
  /\ up = scenario.InitiallyUp
  /\ \E ring \in Rings : inConfigOrder(ring, up) /\ Addresses = [s \in Server |-> ring]
  /\ Coordinator = [s \in Server |-> IF s \in up THEN best(up) ELSE NoServer]
  /\ ringDiscoverInitiator = [s \in Server |-> FALSE]
  /\ dispatching = [s \in Server |-> << >>]
  /\ net = [s \in Server |-> [t \in Server |-> << >>]]
  /\ failedSends = [s \in Server |-> {}]
  /\ boots = 0 /\ crashes = 0 /\ lost = 0

idle == \A s \in Server : dispatching[s] = << >> /\ \A t \in Server : net[s][t] = << >>

\* No election message and no broken connection is left to handle.
Quiet == idle /\ \A s \in up : failedSends[s] = {}

-----------------------------------------------------------------------------
(* Helpers *)

\* The servers after id, then those before it; the ring as it is when id is
\* not in it.
ReorderRing(ring, id) ==
  IF \A i \in 1..Len(ring) : ring[i] # id THEN ring
  ELSE LET i == CHOOSE j \in 1..Len(ring) : ring[j] = id
       IN SubSeq(ring, i + 1, Len(ring)) \o SubSeq(ring, 1, i - 1)

\* Mutation: among equal zxids the first visited wins.
getCorrespondingValue_bug(zxids, nodes) ==
  nodes[CHOOSE i \in 1..Len(zxids) : \A j \in 1..Len(zxids) :
          zxids[i] > zxids[j] \/ (zxids[i] = zxids[j] /\ i <= j)]

\* The highest zxid, the highest name among equals.
getCorrespondingValue(zxids, nodes) ==
  nodes[CHOOSE i \in 1..Len(zxids) : \A j \in 1..Len(zxids) :
          zxids[i] > zxids[j] \/ (zxids[i] = zxids[j] /\ nodes[i] >= nodes[j])]

\* Mutation: only the next server of the ring is tried.
DispatchMessage_bug(s, ring, message, n) ==
  IF ring # << >> /\ ring[1] \in up
  THEN /\ net' = [n EXCEPT ![s][ring[1]] = Append(@, message)]
       /\ UNCHANGED lost
  ELSE net' = n /\ UNCHANGED lost

\* The first server of the ring that takes the message gets it.  The first
\* write to a connection that has just broken may still succeed: the message
\* is then lost.  n is net after the current message was taken.
DispatchMessage(s, ring, message, n) ==
  LET alive == {i \in 1..Len(ring) : ring[i] \in up}
      i     == CHOOSE j \in alive : \A k \in alive : j <= k
  IN \/ /\ net' = IF alive = {} THEN n ELSE [n EXCEPT ![s][ring[i]] = Append(@, message)]
        /\ UNCHANGED lost
     \/ /\ lost < scenario.MaxLost
        /\ ring # << >> /\ ring[1] \in failedSends[s]
        /\ lost' = lost + 1
        /\ net' = n

\* The message is built now and sent by a goroutine of its own.
StartRingMessage(s, ring, content, type) ==
  dispatching' = [dispatching EXCEPT ![s] =
    Append(@, [ring |-> ring, message |-> Message(type, <<s>>, <<ZXID[s]>>, content)])]

complete(s, message) == s \in Range(message.Visited_Nodes)

\* Mutation: the zxid of s is not added.
Pass_message_down_ring_bug(s, ring, message, n) ==
  IF complete(s, message)
  THEN net' = n /\ UNCHANGED lost
  ELSE DispatchMessage(s, ring, [message EXCEPT !.Visited_Nodes = Append(@, s)], n)

\* Sends when the round is not complete at s.
Pass_message_down_ring(s, ring, message, n) ==
  IF complete(s, message)
  THEN net' = n /\ UNCHANGED lost
  ELSE DispatchMessage(s, ring,
         [message EXCEPT !.Visited_Nodes = Append(@, s), !.ZxId_List = Append(@, ZXID[s])], n)

InitiateElectionDiscovery(s, ring) == StartRingMessage(s, ReorderRing(ring, s), << >>, "Discovery")

\* The goroutine of StartRingMessage.
Dispatch(s) ==
  /\ s \in up
  /\ \E i \in 1..Len(dispatching[s]) :
       /\ dispatching' = [dispatching EXCEPT ![s] = RemoveAt(@, i)]
       /\ DispatchMessage(s, dispatching[s][i].ring, dispatching[s][i].message, net)
  /\ UNCHANGED <<scenario, up, Addresses, Coordinator, ringDiscoverInitiator, failedSends,
                 boots, crashes>>

-----------------------------------------------------------------------------
(* Handlers: s has taken message, which leaves the network n *)

\* Mutation: the comparison is strict.
majority_bug(s, message) == Len(message.Visited_Nodes) > Len(Addresses[s]) \div 2 + 1

majority(s, message) == Len(message.Visited_Nodes) >= Len(Addresses[s]) \div 2 + 1

HandleDiscoveryMessage(s, message, n) ==
  /\ Pass_message_down_ring(s, ReorderRing(Addresses[s], s), message, n)
  /\ IF complete(s, message) /\ majority(s, message)
     THEN StartRingMessage(s, ReorderRing(message.Visited_Nodes, s),
            <<getCorrespondingValue(message.ZxId_List, message.Visited_Nodes)>>, "Announcement")
     ELSE UNCHANGED dispatching
  /\ UNCHANGED <<Addresses, Coordinator, ringDiscoverInitiator>>

\* Mutation: the new ring is sent reordered, without the server that sends it.
HandleAnnouncementMessage_bug(s, message, n) ==
  /\ Pass_message_down_ring(s, ReorderRing(Addresses[s], s), message, n)
  /\ IF complete(s, message)
     THEN StartRingMessage(s, ReorderRing(Addresses[s], s),
                           ReorderRing(message.Visited_Nodes, s), "NewRing")
     ELSE UNCHANGED dispatching
  /\ Coordinator' = [Coordinator EXCEPT ![s] = message.Payload[1]]
  /\ UNCHANGED <<Addresses, ringDiscoverInitiator>>

HandleAnnouncementMessage(s, message, n) ==
  /\ Pass_message_down_ring(s, ReorderRing(Addresses[s], s), message, n)
  /\ IF complete(s, message)
     THEN StartRingMessage(s, ReorderRing(Addresses[s], s), message.Visited_Nodes, "NewRing")
     ELSE UNCHANGED dispatching
  /\ Coordinator' = [Coordinator EXCEPT ![s] = message.Payload[1]]
  /\ UNCHANGED <<Addresses, ringDiscoverInitiator>>

\* The server that entered the ring starts an election once it has the ring.
HandleNewRingMessage(s, message, n) ==
  /\ Addresses' = [Addresses EXCEPT ![s] = message.Payload]
  /\ Pass_message_down_ring(s, ReorderRing(message.Payload, s), message, n)
  /\ IF ringDiscoverInitiator[s] THEN InitiateElectionDiscovery(s, message.Payload)
                                 ELSE UNCHANGED dispatching
  /\ ringDiscoverInitiator' = [ringDiscoverInitiator EXCEPT ![s] = FALSE]
  /\ UNCHANGED Coordinator

HandleRingDiscover(s, message, n) ==
  /\ Pass_message_down_ring(s, ReorderRing(Addresses[s], s), message, n)
  /\ IF complete(s, message)
     THEN StartRingMessage(s, ReorderRing(message.Visited_Nodes, s),
                           message.Visited_Nodes, "NewRing")
     ELSE UNCHANGED dispatching
  /\ UNCHANGED <<Addresses, Coordinator, ringDiscoverInitiator>>

HandleMessage(s) ==
  /\ s \in up
  /\ \E t \in Server :
       /\ net[t][s] # << >>
       /\ LET message == Head(net[t][s])
              n       == [net EXCEPT ![t][s] = Tail(@)]
          IN CASE message.Message_Type = "Discovery"    -> HandleDiscoveryMessage(s, message, n)
               [] message.Message_Type = "Announcement" -> HandleAnnouncementMessage(s, message, n)
               [] message.Message_Type = "NewRing"      -> HandleNewRingMessage(s, message, n)
               [] message.Message_Type = "RingDiscover" -> HandleRingDiscover(s, message, n)
  /\ UNCHANGED <<scenario, up, failedSends, boots, crashes>>

-----------------------------------------------------------------------------
(* The drivers *)

\* ServerMain: ElectionInit and InitiateRingEntry.
InitiateRingEntry(s) ==
  /\ s \notin up
  /\ boots < scenario.MaxBoots
  /\ scenario.OneAtATime => Quiet
  /\ boots' = boots + 1
  /\ up' = up \cup {s}
  /\ Addresses' = [Addresses EXCEPT ![s] = Servers]
  /\ Coordinator' = [Coordinator EXCEPT ![s] = NoServer]
  /\ ringDiscoverInitiator' = [ringDiscoverInitiator EXCEPT ![s] = TRUE]
  /\ failedSends' = [failedSends EXCEPT ![s] = {}]
  /\ StartRingMessage(s, ReorderRing(Servers, s), << >>, "RingDiscover")
  /\ UNCHANGED <<scenario, net, crashes, lost>>

\* What was on its way to s is lost, and its peers see the connection close.
Crash(s) ==
  /\ s \in up
  /\ crashes < scenario.MaxCrashes
  /\ scenario.OneAtATime => Quiet
  /\ crashes' = crashes + 1
  /\ up' = up \ {s}
  /\ net' = [t \in Server |-> [net[t] EXCEPT ![s] = << >>]]
  /\ dispatching' = [dispatching EXCEPT ![s] = << >>]
  /\ failedSends' = [t \in Server |-> IF t \in up \ {s} THEN failedSends[t] \cup {s}
                                      ELSE failedSends[t]]
  /\ UNCHANGED <<scenario, Addresses, Coordinator, ringDiscoverInitiator, boots, lost>>

\* A broken connection to the coordinator starts an election.  For another
\* server main passes on a NewRing message without a payload, and takes that
\* payload for its own ring.
monitorConnectionToServer(s, c) ==
  /\ s \in up
  /\ c \in failedSends[s]
  /\ failedSends' = [failedSends EXCEPT ![s] = @ \ {c}]
  /\ \/ /\ Coordinator[s] = c
        /\ InitiateElectionDiscovery(s, Addresses[s])
        /\ UNCHANGED <<net, lost, Addresses>>
     \/ /\ Coordinator[s] # c
        /\ scenario.Main
        /\ Pass_message_down_ring(s, ReorderRing(Servers, s),
                                  Message("NewRing", << >>, << >>, << >>), net)
        /\ Addresses' = [Addresses EXCEPT ![s] = << >>]
        /\ UNCHANGED dispatching
     \/ /\ Coordinator[s] # c
        /\ ~scenario.Main
        /\ UNCHANGED <<net, lost, Addresses, dispatching>>
  /\ UNCHANGED <<scenario, up, Coordinator, ringDiscoverInitiator, boots, crashes>>

\* main has a second reader on failedSends, which ignores servers.
monitorConnectionToClient(s, c) ==
  /\ scenario.Main
  /\ s \in up
  /\ c \in failedSends[s]
  /\ failedSends' = [failedSends EXCEPT ![s] = @ \ {c}]
  /\ UNCHANGED <<scenario, up, Addresses, Coordinator, ringDiscoverInitiator, dispatching,
                 net, boots, crashes, lost>>

\* A heartbeat that cannot be sent starts an election.  Heartbeats are 5
\* seconds apart: the messages of earlier elections have arrived.
sendSessionInfo(s) ==
  /\ scenario.Main
  /\ s \in up
  /\ Coordinator[s] \notin up
  /\ idle
  /\ InitiateElectionDiscovery(s, Addresses[s])
  /\ UNCHANGED <<scenario, up, Addresses, Coordinator, ringDiscoverInitiator, net,
                 failedSends, boots, crashes, lost>>

Next ==
  \E s \in Server :
    \/ HandleMessage(s)
    \/ Dispatch(s)
    \/ InitiateRingEntry(s)
    \/ Crash(s)
    \/ \E c \in Server : monitorConnectionToServer(s, c) \/ monitorConnectionToClient(s, c)
    \/ sendSessionInfo(s)

Spec == Init /\ [][Next]_vars

\* Goroutines that can run do run; nothing makes a server start or crash.  Of
\* the two readers of failedSends in main, no particular one gets an entry.
Fairness ==
  \A s \in Server :
    /\ WF_vars(HandleMessage(s))
    /\ WF_vars(Dispatch(s))
    /\ WF_vars(sendSessionInfo(s))
    /\ \A c \in Server : WF_vars(monitorConnectionToServer(s, c) \/ monitorConnectionToClient(s, c))

FairSpec == Spec /\ Fairness

-----------------------------------------------------------------------------
(* Properties *)

MessageOK(m) ==
  /\ m.Message_Type \in {"Discovery", "Announcement", "NewRing", "RingDiscover"}
  /\ IsInjective(m.Visited_Nodes) /\ Range(m.Visited_Nodes) \subseteq Server
  /\ m.ZxId_List = [i \in 1..Len(m.Visited_Nodes) |-> ZXID[m.Visited_Nodes[i]]]
  /\ m.Message_Type = "Announcement" => Len(m.Payload) = 1 /\ m.Payload[1] \in Server
  /\ m.Message_Type = "NewRing" => m.Payload \in Rings

\* The values of the election state: rings and the lists of a message name no
\* server twice, and a message has one zxid per visited server, in the order
\* getCorrespondingValue relies on (it panics on lists of different lengths).
TypeOK ==
  /\ up \subseteq Server
  /\ Addresses \in [Server -> Rings]
  /\ Coordinator \in [Server -> Server \cup {NoServer}]
  /\ ringDiscoverInitiator \in [Server -> BOOLEAN]
  /\ \A s, t \in Server : \A i \in 1..Len(net[s][t]) : MessageOK(net[s][t][i])
  /\ \A s \in Server : \A i \in 1..Len(dispatching[s]) : MessageOK(dispatching[s][i].message)
  /\ failedSends \in [Server -> SUBSET Server]

\* A coordinator that runs once the elections are over is the running server
\* with the highest zxid, the highest name among equals (getCorrespondingValue):
\* no server with a shorter log wins, even when the servers have different
\* rings or a server crashed while its vote was on its way.
CoordinatorIsBest ==
  Quiet => \A s \in up : Coordinator[s] \in up => Coordinator[s] = best(up)

\* Once the elections are over every running server is in the ring of every
\* other, so that the next election reaches all of them (NewRing is meant to
\* take out the failed servers and no others).
RingIsWhole ==
  Quiet => \A s \in up : up \subseteq Range(Addresses[s])

\* The rings are whole after an election of zabFailureTest; main breaks them
\* (see Election_ring.cfg).
RingComplete == ~scenario.Main => RingIsWhole

\* When servers start and crash one at a time, the elections end with one
\* coordinator, and that one runs, however many servers have started one and
\* however their rounds overlap (HandleAnnouncementMessage overwrites
\* Coordinator with the latest arrival).
Converges ==
  scenario.OneAtATime =>
    <>[](\A s, t \in up : Coordinator[s] = Coordinator[t] /\ Coordinator[s] \in up)
=============================================================================

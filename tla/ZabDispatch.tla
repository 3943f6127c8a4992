----------------------------- MODULE ZabDispatch -----------------------------
(***************************************************************************)
(* Who runs the handlers of the Proposals package at the coordinator.  The *)
(* package has one goroutine, messageProcessor, that takes its messages    *)
(* one by one.  main gives it only the messages a server sends to itself   *)
(* (queueSend); for all others mainListener calls ProcessZabMessage        *)
(* directly.  So two goroutines run handlers side by side, and this module *)
(* splits a handler where another goroutine can step in: at every          *)
(* SafeQueue, counter or channel operation.                                *)
(*                                                                         *)
(* The coordinator is in its epoch and loses no message, its requestChecker*)
(* accepts; a follower runs all handlers in mainListener, one action each. *)
(* storeNew is part of the incCount step: the entry is read only when an   *)
(* ACK comes back.                                                         *)
(***************************************************************************)
EXTENDS Naturals, Sequences, FiniteSets, SequencesExt

CONSTANTS Follower,   \* the other servers
          Request,    \* write requests
          OwnRequest, \* those of the coordinator's own clients
          Direct      \* TRUE: main; FALSE: every message goes to messageQueue

ASSUME DispatchAssumption ==
  /\ IsFiniteSet(Follower) /\ Follower # {}
  /\ OwnRequest \subseteq Request
  /\ Direct \in BOOLEAN

VARIABLES sent,            \* requests handed to SendWriteRequest
          waiting,         \* requests that no goroutine has taken yet
          goroutine,       \* goroutine[g]: where g is, and its locals
          countNum,        \* zxidCounter of the coordinator
          ackTracker,      \* by count
          proposalsQueue,  \* of the coordinator
          log,             \* newProposalChan and the disk behind it
          committed,       \* toCommitChan of the coordinator
          sendingQueue,    \* everything broadcast so far
          follower,        \* follower[f]: its cursor, queue, commits and ACKs
          fatal            \* logger.Fatal was called somewhere

vars == <<sent, waiting, goroutine, countNum, ackTracker, proposalsQueue, log,
          committed, sendingQueue, follower, fatal>>

Goroutine == {"mainListener", "messageProcessor"}
n_systems == Cardinality(Follower) + 1

StateChange(k, r) == [PropType |-> "StateChange", CountNum |-> k, Content |-> r]
CommitMsg == [PropType |-> "Commit"]
Proposal  == [PropType : {"StateChange"}, CountNum : Nat, Content : Request]

Idle == [pc |-> "idle"]
\* Where a goroutine is, with the proposal it holds.
Place == {Idle} \cup [pc : {"enqueue", "write", "broadcast", "commit"}, prop : Proposal]
                \cup [pc : {"dequeue", "broadcastCommit"}]

Init ==
  /\ sent = {} /\ waiting = {}
  /\ goroutine = [g \in Goroutine |-> Idle]
  /\ countNum = 0
  /\ ackTracker = << >>
  /\ proposalsQueue = << >> /\ log = << >> /\ committed = << >> /\ sendingQueue = << >>
  /\ follower = [f \in Follower |-> [rcvd |-> 0, acks |-> << >>, proposalsQueue |-> << >>,
                                     committed |-> << >>]]
  /\ fatal = FALSE

\* The goroutine that runs the handler of a message.
runner(own) == IF Direct /\ ~own THEN "mainListener" ELSE "messageProcessor"

-----------------------------------------------------------------------------
(* processRequest, step by step *)

SendWriteRequest(r) ==
  /\ r \notin sent
  /\ sent' = sent \cup {r}
  /\ waiting' = waiting \cup {r}
  /\ UNCHANGED <<goroutine, countNum, ackTracker, proposalsQueue, log,
                 committed, sendingQueue, follower, fatal>>

incCount(g) ==
  /\ goroutine[g].pc = "idle"
  /\ \E r \in waiting :
       /\ runner(r \in OwnRequest) = g
       /\ waiting' = waiting \ {r}
       /\ countNum' = countNum + 1
       /\ ackTracker' = Append(ackTracker, 1)
       /\ goroutine' = [goroutine EXCEPT ![g] =
                          [pc |-> "enqueue", prop |-> StateChange(countNum + 1, r)]]
  /\ UNCHANGED <<sent, proposalsQueue, log, committed, sendingQueue, follower, fatal>>

enqueue(q, prop) == Append(q, prop)

enqueueProposal(g) ==
  /\ goroutine[g].pc = "enqueue"
  /\ proposalsQueue' = enqueue(proposalsQueue, goroutine[g].prop)
  /\ goroutine' = [goroutine EXCEPT ![g].pc = "write"]
  /\ UNCHANGED <<sent, waiting, countNum, ackTracker, log, committed, sendingQueue, follower, fatal>>

queueWriteProposal(g) ==
  /\ goroutine[g].pc = "write"
  /\ log' = Append(log, goroutine[g].prop)
  /\ goroutine' = [goroutine EXCEPT ![g].pc = "broadcast"]
  /\ UNCHANGED <<sent, waiting, countNum, ackTracker, proposalsQueue, committed, sendingQueue,
                 follower, fatal>>

broadcastProposal(g) ==
  /\ goroutine[g].pc = "broadcast"
  /\ sendingQueue' = Append(sendingQueue, goroutine[g].prop)
  /\ goroutine' = [goroutine EXCEPT ![g] = Idle]
  /\ UNCHANGED <<sent, waiting, countNum, ackTracker, proposalsQueue, log, committed,
                 follower, fatal>>

-----------------------------------------------------------------------------
(* processACK, step by step *)

\* Mutations: the ACKs of all servers are waited for; an ACK that follows the
\* commit commits again.
incrementOrRemove_bug1(k) == ackTracker[k] + 1 > n_systems
incrementOrRemove_bug2(k) == ackTracker[k] + 1 >= n_systems \div 2

incrementOrRemove(k) == ackTracker[k] + 1 > n_systems \div 2

processACK(g) ==
  /\ goroutine[g].pc = "idle"
  /\ runner(FALSE) = g
  /\ \E f \in Follower :
       /\ follower[f].acks # << >>
       /\ LET k == Head(follower[f].acks) IN
          IF incrementOrRemove(k)
          THEN /\ ackTracker' = [ackTracker EXCEPT ![k] = 0]
               /\ goroutine' = [goroutine EXCEPT ![g] = [pc |-> "dequeue"]]
          ELSE /\ ackTracker' = [ackTracker EXCEPT ![k] = @ + 1]
               /\ UNCHANGED goroutine
       /\ follower' = [follower EXCEPT ![f].acks = Tail(@)]
  /\ UNCHANGED <<sent, waiting, countNum, proposalsQueue, log, committed, sendingQueue, fatal>>

processCommitProposal(g) ==
  /\ goroutine[g].pc = "dequeue"
  /\ IF proposalsQueue = << >>
     THEN fatal' = TRUE /\ UNCHANGED <<goroutine, proposalsQueue>>
     ELSE /\ goroutine' = [goroutine EXCEPT ![g] = [pc |-> "commit", prop |-> Head(proposalsQueue)]]
          /\ proposalsQueue' = Tail(proposalsQueue)
          /\ UNCHANGED fatal
  /\ UNCHANGED <<sent, waiting, countNum, ackTracker, log, committed, sendingQueue, follower>>

queueCommitProposal(g) ==
  /\ goroutine[g].pc = "commit"
  /\ committed' = Append(committed, goroutine[g].prop.Content)
  /\ goroutine' = [goroutine EXCEPT ![g] = [pc |-> "broadcastCommit"]]
  /\ UNCHANGED <<sent, waiting, countNum, ackTracker, proposalsQueue, log, sendingQueue,
                 follower, fatal>>

broadcastCommit(g) ==
  /\ goroutine[g].pc = "broadcastCommit"
  /\ sendingQueue' = Append(sendingQueue, CommitMsg)
  /\ goroutine' = [goroutine EXCEPT ![g] = Idle]
  /\ UNCHANGED <<sent, waiting, countNum, ackTracker, proposalsQueue, log, committed,
                 follower, fatal>>

-----------------------------------------------------------------------------
(* A follower *)

followerProposal(f) ==
  LET m == follower[f] IN
  /\ m.rcvd < Len(sendingQueue)
  /\ LET prop == sendingQueue[m.rcvd + 1] IN
     IF prop.PropType = "StateChange"
     THEN /\ follower' = [follower EXCEPT ![f] =
               [m EXCEPT !.rcvd = @ + 1,
                         !.acks = Append(@, prop.CountNum),
                         !.proposalsQueue = Append(@, prop)]]
          /\ UNCHANGED fatal
     ELSE IF m.proposalsQueue = << >>
     THEN fatal' = TRUE /\ UNCHANGED follower
     ELSE /\ follower' = [follower EXCEPT ![f] =
               [m EXCEPT !.rcvd = @ + 1,
                         !.committed = Append(@, Head(m.proposalsQueue).Content),
                         !.proposalsQueue = Tail(@)]]
          /\ UNCHANGED fatal
  /\ UNCHANGED <<sent, waiting, goroutine, countNum, ackTracker, proposalsQueue, log,
                 committed, sendingQueue>>

-----------------------------------------------------------------------------
handler(g) ==
  \/ incCount(g)
  \/ enqueueProposal(g)
  \/ queueWriteProposal(g)
  \/ broadcastProposal(g)
  \/ processACK(g)
  \/ processCommitProposal(g)
  \/ queueCommitProposal(g)
  \/ broadcastCommit(g)

Next ==
  /\ ~fatal
  /\ \/ \E r \in Request : SendWriteRequest(r)
     \/ \E g \in Goroutine : handler(g)
     \/ \E f \in Follower : followerProposal(f)

Spec == Init /\ [][Next]_vars

\* The Go scheduler runs both goroutines, TCP delivers.  A goroutine takes its
\* messages in arrival order, so neither requests nor ACKs starve the others.
Fairness ==
  /\ \A g \in Goroutine :
       /\ WF_vars(~fatal /\ handler(g))
       /\ SF_vars(~fatal /\ processACK(g))
       /\ SF_vars(~fatal /\ incCount(g))
  /\ \A f \in Follower : WF_vars(~fatal /\ followerProposal(f))

FairSpec == Spec /\ Fairness

-----------------------------------------------------------------------------
(* Properties *)

\* The type invariant: what the queues, the counters and the goroutines hold.
TypeOK ==
  /\ sent \subseteq Request /\ waiting \subseteq sent
  /\ goroutine \in [Goroutine -> Place]
  /\ countNum \in Nat
  /\ ackTracker \in Seq(Nat) /\ Len(ackTracker) = countNum
  /\ proposalsQueue \in Seq(Proposal) /\ log \in Seq(Proposal) /\ committed \in Seq(Request)
  /\ sendingQueue \in Seq(Proposal \cup {CommitMsg})
  /\ follower \in [Follower -> [rcvd : Nat, acks : Seq(Nat), proposalsQueue : Seq(Proposal),
                               committed : Seq(Request)]]
  /\ fatal \in BOOLEAN

\* A Commit names no proposal, so coordinator and followers agree only if the
\* coordinator's proposalsQueue has the order of its broadcasts: what a
\* follower commits is a prefix of what the coordinator commits
\* (processRequest, broadcastCommit).
CommitAgreement ==
  \A f \in Follower : IsPrefix(follower[f].committed, committed)

\* The log holds the proposals in zxid order without gaps; ReadProposals and
\* getEpochHighestCount take its end for the latest ones.
LogInZxidOrder ==
  \A i \in 1..Len(log) : log[i].CountNum = i

\* However the two goroutines interleave, no Commit meets an empty
\* proposalsQueue: processRequest enqueues before it broadcasts.
NoFatal == ~fatal

\* Every write that is sent is committed by the coordinator and by every
\* follower, in whichever order.
EveryWriteCommitted ==
  \A r \in Request :
    (r \in sent) ~> /\ r \in Range(committed)
                    /\ \A f \in Follower : r \in Range(follower[f].committed)
=============================================================================

---------------------------- MODULE ZabBroadcast ----------------------------
(***************************************************************************)
(* The steady state of the Proposals package (internal/Proposals): one     *)
(* coordinator, one epoch, every server past its election and sync.        *)
(* Requests travel to the coordinator, come back as StateChange proposals, *)
(* are acknowledged, and are committed when a majority has acknowledged.   *)
(*                                                                         *)
(* Correspondence of the state:                                            *)
(*  - a server's messageProcessor goroutine takes one message at a time    *)
(*    (subroutines.go), so one handler is one action;                      *)
(*  - the sendingQueue of the coordinator, the TCP connections and the     *)
(*    messageQueue of a follower together are a FIFO: bcast is everything  *)
(*    broadcast in this epoch and rcvd[f] how much of it f has taken;      *)
(*  - the way back is a FIFO per sender; the coordinator's messageQueue    *)
(*    merges them in any order.  Requests and ACKs of one sender are kept  *)
(*    in two queues, and Err replies apart from the broadcasts: the model  *)
(*    allows more interleavings than the code, never fewer;                *)
(*  - newProposalChan is left unbounded: its capacity of 10 only delays a  *)
(*    handler between two steps the model makes at once.                   *)
(*                                                                         *)
(* A lost connection drops messages in flight and is then re-established   *)
(* by the next SendMessage (ConnectionManager); Drop and DropReply model   *)
(* the loss, bounded by MaxDrops.                                          *)
(***************************************************************************)
EXTENDS Naturals, Sequences, FiniteSets

CONSTANTS Server,      \* the servers of the configuration
          Leader,      \* election.Coordinator, fixed during the epoch
          Request,     \* write requests
          Origin,      \* Origin[r]: the server r is sent from
          MaxCount,    \* bound: writes per epoch (CountNum is a uint16)
          MaxCrashes,  \* bound: followers that crash
          MaxDrops     \* bound: messages lost with a connection

ASSUME ServerAssumption ==
  /\ IsFiniteSet(Server)
  /\ Leader \in Server
  /\ Cardinality(Server) >= 2
ASSUME OriginAssumption == Origin \in [Request -> Server]
ASSUME BoundAssumption ==
  /\ MaxCount \in Nat /\ MaxCount <= 65535
  /\ MaxCrashes \in Nat
  /\ MaxDrops \in Nat

VARIABLES
  zxidCounter,      \* zxidCounter[s].countNum; the epoch does not change here
  ackTracker,       \* ackCounter.ackTracker of the coordinator, by count
  proposalsQueue,   \* proposals accepted and not yet committed
  newProposalChan,  \* proposals on their way to the disk
  log,              \* proposals saved by proposalWriter
  committed,        \* proposals sent on toCommitChan, in order
  reqs,             \* Req messages under way from s to the coordinator
  acks,             \* ACK messages under way from f to the coordinator
  errs,             \* Err messages under way to s
  denied,           \* requests reported on s's failedRequestChan
  bcast,            \* proposals broadcast by the coordinator
  rcvd,             \* rcvd[f]: how many of bcast reached f or were lost
  crashed,          \* servers that stopped
  exited,           \* servers stopped by logger.Fatal
  drops             \* messages lost so far

\* Auxiliary: no action's guard or effect on the other variables reads them.
VARIABLES
  submitted,  \* requests handed to SendWriteRequest
  issued,     \* issued[k]: the request proposed with count k
  about,      \* about[i]: the count of the proposal that bcast[i] is about
  acked       \* acked[f]: how many of f's ACKs the coordinator has handled

queues   == <<proposalsQueue, newProposalChan, log, committed>>
channels == <<reqs, acks, errs, bcast, rcvd>>
faults   == <<crashed, exited, drops>>
aux      == <<submitted, issued, about, acked>>
vars == <<zxidCounter, ackTracker, queues, denied, channels, faults, aux>>

Follower  == Server \ {Leader}
n_systems == Cardinality(Server)
Up(s)     == s \notin crashed \cup exited

StateChange(k, r) == [PropType |-> "StateChange", CountNum |-> k, Content |-> r]
\* A Commit names no proposal: its zxid is (0, 0) and it has no content.
CommitMsg == [PropType |-> "Commit", CountNum |-> 0]

Proposal == [PropType : {"StateChange"}, CountNum : Nat, Content : Request]

TypeOK ==
  /\ zxidCounter \in [Server -> Nat]
  /\ ackTracker \in Seq(Nat)
  /\ proposalsQueue \in [Server -> Seq(Proposal)]
  /\ newProposalChan \in [Server -> Seq(Proposal)]
  /\ log \in [Server -> Seq(Proposal)]
  /\ committed \in [Server -> Seq(Proposal)]
  /\ reqs \in [Server -> Seq(Request)]
  /\ acks \in [Follower -> Seq(Nat)]
  /\ errs \in [Server -> Seq(Request)]
  /\ denied \in [Server -> SUBSET Request]
  /\ bcast \in Seq(Proposal \cup {CommitMsg})
  /\ rcvd \in [Follower -> Nat]
  /\ crashed \subseteq Follower
  /\ exited \subseteq Server
  /\ drops \in 0..MaxDrops
  /\ submitted \subseteq Request
  /\ issued \in Seq(Request)
  /\ about \in Seq(Nat)
  /\ acked \in [Follower -> Nat]

Init ==
  /\ zxidCounter = [s \in Server |-> 0]
  /\ ackTracker = << >>
  /\ proposalsQueue = [s \in Server |-> << >>]
  /\ newProposalChan = [s \in Server |-> << >>]
  /\ log = [s \in Server |-> << >>]
  /\ committed = [s \in Server |-> << >>]
  /\ reqs = [s \in Server |-> << >>]
  /\ acks = [f \in Follower |-> << >>]
  /\ errs = [s \in Server |-> << >>]
  /\ denied = [s \in Server |-> {}]
  /\ bcast = << >>
  /\ rcvd = [f \in Follower |-> 0]
  /\ crashed = {}
  /\ exited = {}
  /\ drops = 0
  /\ submitted = {}
  /\ issued = << >>
  /\ about = << >>
  /\ acked = [f \in Follower |-> 0]

-----------------------------------------------------------------------------
(* Helpers.  A definition whose name ends in _bug is a mutation of the one    *)
(* that follows it: a slip this code could have made, which TLC must detect.  *)

\* Mutation: the newest item is taken, as from a stack.
dequeue_bug(q) == q[Len(q)]

\* The item SafeQueue.dequeue returns; the caller keeps Tail(q).
dequeue(q) == Head(q)

\* Mutation: a non-blocking send that drops the proposal when the channel,
\* here of capacity 1, is full.
queueWriteProposal_bug(s, prop) ==
  newProposalChan' = IF newProposalChan[s] # << >> THEN newProposalChan
                     ELSE [newProposalChan EXCEPT ![s] = Append(@, prop)]

queueWriteProposal(s, prop) ==
  newProposalChan' = [newProposalChan EXCEPT ![s] = Append(@, prop)]

\* Mutation: a denied request is not reported to anybody.
replyErr_bug(s, r) == errs' = errs

\* A denied request is reported to its sender, unless that is the coordinator.
replyErr(s, r) ==
  errs' = IF s = Leader THEN errs ELSE [errs EXCEPT ![s] = Append(@, r)]

-----------------------------------------------------------------------------
(* Requests *)

\* sendRequest enqueues on the coordinator's own queue when the sender is the
\* coordinator, on the network otherwise; both are reqs[Origin[r]].
SendWriteRequest(r) ==
  LET s == Origin[r] IN
  /\ Up(s)
  /\ r \notin submitted
  /\ submitted' = submitted \cup {r}
  /\ reqs' = [reqs EXCEPT ![s] = Append(@, r)]
  /\ UNCHANGED <<zxidCounter, ackTracker, queues, denied,
                 acks, errs, bcast, rcvd, faults, issued, about, acked>>

\* processRequest when requestChecker accepts the write.
processWrite(s) ==
  /\ Up(Leader)
  /\ reqs[s] # << >>
  /\ zxidCounter[Leader] < MaxCount
  /\ LET r    == dequeue(reqs[s])
         k    == zxidCounter[Leader] + 1
         prop == StateChange(k, r)
     IN /\ zxidCounter' = [zxidCounter EXCEPT ![Leader] = k]
        /\ ackTracker' = Append(ackTracker, 1)
        /\ proposalsQueue' = [proposalsQueue EXCEPT ![Leader] = Append(@, prop)]
        /\ queueWriteProposal(Leader, prop)
        /\ bcast' = Append(bcast, prop)
        /\ about' = Append(about, k)
        /\ issued' = Append(issued, r)
  /\ reqs' = [reqs EXCEPT ![s] = Tail(@)]
  /\ UNCHANGED <<log, committed, denied, acks, errs, rcvd, faults,
                 submitted, acked>>

\* processRequest when requestChecker returns an error.
denyWrite(s) ==
  /\ Up(Leader)
  /\ reqs[s] # << >>
  /\ reqs' = [reqs EXCEPT ![s] = Tail(@)]
  /\ replyErr(s, dequeue(reqs[s]))
  /\ UNCHANGED <<zxidCounter, ackTracker, queues, denied,
                 acks, bcast, rcvd, faults, aux>>

\* The Err case of ProcessZabMessage.
processErr(s) ==
  /\ Up(s)
  /\ errs[s] # << >>
  /\ denied' = [denied EXCEPT ![s] = @ \cup {dequeue(errs[s])}]
  /\ errs' = [errs EXCEPT ![s] = Tail(@)]
  /\ UNCHANGED <<zxidCounter, ackTracker, queues,
                 reqs, acks, bcast, rcvd, faults, aux>>

-----------------------------------------------------------------------------
(* Proposals and commits at a follower *)

processStateChangeProposal(f) ==
  /\ Up(f)
  /\ rcvd[f] < Len(bcast)
  /\ LET prop == bcast[rcvd[f] + 1] IN
     /\ prop.PropType = "StateChange"
     /\ zxidCounter' = [zxidCounter EXCEPT ![f] = prop.CountNum]
     /\ acks' = [acks EXCEPT ![f] = Append(@, prop.CountNum)]
     /\ queueWriteProposal(f, prop)
     /\ proposalsQueue' = [proposalsQueue EXCEPT ![f] = Append(@, prop)]
  /\ rcvd' = [rcvd EXCEPT ![f] = @ + 1]
  /\ UNCHANGED <<ackTracker, log, committed, denied,
                 reqs, errs, bcast, faults, aux>>

\* Mutation: the missing Fatal; the zero Proposal of an empty queue goes out.
processCommitProposal_bug(s) ==
  /\ committed' = [committed EXCEPT ![s] = Append(@,
                    IF proposalsQueue[s] = << >> THEN CommitMsg
                    ELSE dequeue(proposalsQueue[s]))]
  /\ proposalsQueue' = IF proposalsQueue[s] = << >> THEN proposalsQueue
                       ELSE [proposalsQueue EXCEPT ![s] = Tail(@)]
  /\ UNCHANGED exited

\* dequeue the oldest accepted proposal and hand it to the application;
\* logger.Fatal ends the process when there is none.
processCommitProposal(s) ==
  IF proposalsQueue[s] = << >>
  THEN /\ exited' = exited \cup {s}
       /\ UNCHANGED <<proposalsQueue, committed>>
  ELSE /\ committed' = [committed EXCEPT ![s] = Append(@, dequeue(proposalsQueue[s]))]
       /\ proposalsQueue' = [proposalsQueue EXCEPT ![s] = Tail(@)]
       /\ UNCHANGED exited

\* Mutation: all that is queued is committed, as processNewLeaderProposal does.
processCommit_bug(f) ==
  /\ Up(f)
  /\ rcvd[f] < Len(bcast)
  /\ bcast[rcvd[f] + 1].PropType = "Commit"
  /\ committed' = [committed EXCEPT ![f] = @ \o proposalsQueue[f]]
  /\ proposalsQueue' = [proposalsQueue EXCEPT ![f] = << >>]
  /\ rcvd' = [rcvd EXCEPT ![f] = @ + 1]
  /\ UNCHANGED <<zxidCounter, ackTracker, newProposalChan, log, denied,
                 reqs, acks, errs, bcast, faults, aux>>

processCommit(f) ==
  /\ Up(f)
  /\ rcvd[f] < Len(bcast)
  /\ bcast[rcvd[f] + 1].PropType = "Commit"
  /\ processCommitProposal(f)
  /\ rcvd' = [rcvd EXCEPT ![f] = @ + 1]
  /\ UNCHANGED <<zxidCounter, ackTracker, newProposalChan, log, denied,
                 reqs, acks, errs, bcast, crashed, drops, aux>>

-----------------------------------------------------------------------------
(* Acknowledgements at the coordinator *)

\* Mutations: the counter commits one ACK early, and one ACK late.
incrementOrRemove_bug1(k, maxCount) ==
  k \in DOMAIN ackTracker /\ ackTracker[k] + 1 >= maxCount
incrementOrRemove_bug2(k, maxCount) ==
  k \in DOMAIN ackTracker /\ ackTracker[k] > maxCount

\* TRUE when this ACK of count k carries the counter past maxCount; the entry
\* is then set to 0, not removed.
incrementOrRemove(k, maxCount) ==
  k \in DOMAIN ackTracker /\ ackTracker[k] + 1 > maxCount

processACK(f) ==
  /\ Up(Leader)
  /\ acks[f] # << >>
  /\ LET k == dequeue(acks[f])
         exceeded == incrementOrRemove(k, n_systems \div 2)
     IN /\ ackTracker' = IF k \notin DOMAIN ackTracker THEN ackTracker
                         ELSE [ackTracker EXCEPT ![k] = IF exceeded THEN 0 ELSE @ + 1]
        /\ IF exceeded
           THEN /\ processCommitProposal(Leader)
                \* broadcastCommit, unless Fatal has ended the process
                /\ IF proposalsQueue[Leader] = << >>
                   THEN UNCHANGED <<bcast, about>>
                   ELSE /\ bcast' = Append(bcast, CommitMsg)
                        /\ about' = Append(about, dequeue(proposalsQueue[Leader]).CountNum)
           ELSE UNCHANGED <<proposalsQueue, committed, exited, bcast, about>>
  /\ acks' = [acks EXCEPT ![f] = Tail(@)]
  /\ acked' = [acked EXCEPT ![f] = @ + 1]
  /\ UNCHANGED <<zxidCounter, newProposalChan, log, denied,
                 reqs, errs, rcvd, crashed, drops, submitted, issued>>

-----------------------------------------------------------------------------
(* The disk, crashes and lost messages *)

\* Mutation: a goroutine for every write, the last of which runs first.
proposalWriter_bug(s) ==
  /\ Up(s)
  /\ newProposalChan[s] # << >>
  /\ log' = [log EXCEPT ![s] = Append(@, newProposalChan[s][Len(newProposalChan[s])])]
  /\ newProposalChan' = [newProposalChan EXCEPT ![s] = SubSeq(@, 1, Len(@) - 1)]
  /\ UNCHANGED <<zxidCounter, ackTracker, proposalsQueue, committed, denied,
                 channels, faults, aux>>

proposalWriter(s) ==
  /\ Up(s)
  /\ newProposalChan[s] # << >>
  /\ log' = [log EXCEPT ![s] = Append(@, Head(newProposalChan[s]))]
  /\ newProposalChan' = [newProposalChan EXCEPT ![s] = Tail(@)]
  /\ UNCHANGED <<zxidCounter, ackTracker, proposalsQueue, committed, denied,
                 channels, faults, aux>>

\* A follower stops.  What its sendingQueue still held is lost: only a prefix
\* of its messages reaches the coordinator.
Crash(f) ==
  /\ Up(f)
  /\ Cardinality(crashed) < MaxCrashes
  /\ crashed' = crashed \cup {f}
  /\ \E n \in 0..Len(acks[f]) : acks' = [acks EXCEPT ![f] = SubSeq(@, 1, n)]
  /\ \E n \in 0..Len(reqs[f]) : reqs' = [reqs EXCEPT ![f] = SubSeq(@, 1, n)]
  /\ UNCHANGED <<zxidCounter, ackTracker, queues, denied,
                 errs, bcast, rcvd, exited, drops, aux>>

\* SendMessage fails for one broadcast: the error is only logged, and the next
\* send opens a new connection.
Drop(f) ==
  /\ drops < MaxDrops
  /\ rcvd[f] < Len(bcast)
  /\ drops' = drops + 1
  /\ rcvd' = [rcvd EXCEPT ![f] = @ + 1]
  /\ UNCHANGED <<zxidCounter, ackTracker, queues, denied,
                 reqs, acks, errs, bcast, crashed, exited, aux>>

\* The same on the way from a follower to the coordinator.
DropReply(f) ==
  /\ drops < MaxDrops
  /\ acks[f] # << >>
  /\ drops' = drops + 1
  /\ acks' = [acks EXCEPT ![f] = Tail(@)]
  /\ UNCHANGED <<zxidCounter, ackTracker, queues, denied,
                 reqs, errs, bcast, rcvd, crashed, exited, aux>>

-----------------------------------------------------------------------------
Next ==
  \/ \E r \in Request : SendWriteRequest(r)
  \/ \E s \in Server :
       \/ processWrite(s)
       \/ denyWrite(s)
       \/ processErr(s)
       \/ proposalWriter(s)
  \/ \E f \in Follower :
       \/ processStateChangeProposal(f)
       \/ processCommit(f)
       \/ processACK(f)
       \/ Crash(f)
       \/ Drop(f)
       \/ DropReply(f)

Spec == Init /\ [][Next]_vars

\* Every goroutine keeps running and TCP delivers what it is given: a handler
\* whose message is at the head of its queue eventually runs.  The coordinator
\* serves its messageQueue in arrival order, so no sender is starved.  Nothing
\* forces a client to send, a server to crash or a message to be lost.
Fairness ==
  /\ \A s \in Server :
       /\ WF_vars(processWrite(s) \/ denyWrite(s))
       /\ WF_vars(processErr(s))
       /\ WF_vars(proposalWriter(s))
  /\ \A f \in Follower :
       /\ WF_vars(processStateChangeProposal(f) \/ processCommit(f))
       /\ WF_vars(processACK(f))

FairSpec == Spec /\ Fairness

-----------------------------------------------------------------------------
(* Safety of an epoch whose messages all arrive (MaxDrops = 0) *)

\* What a follower commits is a prefix of what the coordinator has committed,
\* although a Commit message names no proposal and both sides just dequeue the
\* oldest one (processCommitProposal, broadcastCommit).
CommitAgreement ==
  \A f \in Follower : \A i \in 1..Len(committed[f]) :
    /\ i <= Len(committed[Leader])
    /\ committed[f][i] = committed[Leader][i]

\* The proposals a server has passed to proposalWriter.
Holds(s, prop) ==
  \/ \E i \in 1..Len(log[s]) : log[s][i] = prop
  \/ \E i \in 1..Len(newProposalChan[s]) : newProposalChan[s][i] = prop

\* Whatever the coordinator commits, a majority of the configured servers has
\* accepted: counting to n_systems/2 with the coordinator's own vote stored
\* first (storeNew) and commits taken from the head of a queue pick no
\* proposal before its own quorum.
CommitHasQuorum ==
  \A i \in 1..Len(committed[Leader]) :
    2 * Cardinality({s \in Server : Holds(s, committed[Leader][i])}) > n_systems

\* No server meets "Received COMMIT with no proposals in queue": a Commit never
\* overtakes its proposal, and the late ACKs that restart a counter set to 0 by
\* incrementOrRemove never commit a second time.
NoFatal == exited = {}

\* The log of a server and what is still on its way there are the first
\* proposals of the epoch in order and without gaps: the sync code reads
\* "the latest readCount proposals" of the file and relies on it.
LogHasNoGaps ==
  \A s \in Server :
    /\ \A i \in 1..Len(log[s]) :
         i <= Len(issued) /\ log[s][i] = StateChange(i, issued[i])
    /\ \A i \in 1..Len(newProposalChan[s]) :
         LET k == Len(log[s]) + i IN
         k <= Len(issued) /\ newProposalChan[s][i] = StateChange(k, issued[k])

-----------------------------------------------------------------------------
(* What survives lost messages (MaxDrops > 0) *)

\* The coordinator commits its proposals one by one in the order it issued
\* them, whatever ACKs are lost.
CoordinatorInOrder ==
  \A i \in 1..Len(committed[Leader]) :
    i <= Len(issued) /\ committed[Leader][i] = StateChange(i, issued[i])

\* The coordinator commits at most once per proposal, so its own queue is never
\* empty when incrementOrRemove returns true.
CoordinatorNeverFatal == Leader \notin exited

\* A follower may skip a lost proposal but commits in increasing zxid order.
FollowerInOrder ==
  \A f \in Follower : \A i, j \in 1..Len(committed[f]) :
    i < j => committed[f][i].CountNum < committed[f][j].CountNum

-----------------------------------------------------------------------------
(* Liveness and refinement *)

Committed(s, r) == \E i \in 1..Len(committed[s]) : committed[s][i].Content = r

\* As long as a majority stays up, a request that was proposed is committed by
\* every server that does not crash.
ProposedIsCommitted ==
  \A r \in Request, s \in Server :
    (\E i \in 1..Len(issued) : issued[i] = r) ~> (Committed(s, r) \/ ~Up(s))

\* The sender of a write request hears of it: it comes back on the committed or
\* on the denied channel, unless the sender crashes.
Answered(r) ==
  r \in submitted ~>
    \/ Committed(Origin[r], r)
    \/ r \in denied[Origin[r]]
    \/ ~Up(Origin[r])

\* Requests sent by a server other than the coordinator are answered.
FollowerRequestsAnswered ==
  \A r \in Request : Origin[r] # Leader => Answered(r)

\* Every request is answered.  The coordinator's own denied requests are not:
\* processRequest returns before it reports them.
EveryRequestAnswered == \A r \in Request : Answered(r)

\* An epoch implements atomic broadcast.
AB == INSTANCE AtomicBroadcast WITH
        order <- issued,
        delivered <- [s \in Server |->
                       [i \in 1..Len(committed[s]) |-> committed[s][i].Content]]
ImplementsAtomicBroadcast == AB!Spec

-----------------------------------------------------------------------------
(* The inductive invariant behind CommitAgreement, CommitHasQuorum, NoFatal  *)
(* and LogHasNoGaps, for MaxDrops = 0.  ZabBroadcastProofs proves it.        *)

maxCount    == n_systems \div 2

nIssued       == Len(issued)
nBcast        == Len(bcast)
nAbout        == Len(about)
nTracked      == Len(ackTracker)
nCommitted(s) == Len(committed[s])
nQueued(s)    == Len(proposalsQueue[s])
nLogged(s)    == Len(log[s])
nToLog(s)     == Len(newProposalChan[s])
nReqs(s)      == Len(reqs[s])
nAcks(f)      == Len(acks[f])

Received(s) == nCommitted(s) + nQueued(s)
Ackers(k)   == {f \in Follower : acked[f] >= k}
IsSC(i)     == bcast[i].PropType = "StateChange"

\* q holds the proposals made from iss[off + 1], iss[off + 2], ...
Slice(q, off, iss) ==
  \A i \in 1..Len(q) : q[i] = StateChange(off + i, iss[off + i])

\* A server has committed the first proposals of the epoch, queues the next
\* ones, and has passed all of these to its log.
QueueInv ==
  \A s \in Server :
    /\ Received(s) <= nIssued
    /\ nLogged(s) + nToLog(s) = Received(s)
    /\ Slice(committed[s], 0, issued)
    /\ Slice(proposalsQueue[s], nCommitted(s), issued)
    /\ Slice(log[s], 0, issued)
    /\ Slice(newProposalChan[s], nLogged(s), issued)

\* No follower has committed more than the coordinator.
FollowInv == \A f \in Follower : nCommitted(f) <= nCommitted(Leader)

\* The coordinator counts, tracks and queues or has committed every proposal it
\* issued.
CoordinatorInv ==
  /\ zxidCounter[Leader] = nIssued
  /\ nTracked = nIssued
  /\ Received(Leader) = nIssued

\* The broadcast holds every issued proposal and one Commit for every commit
\* of the coordinator, each kind in increasing order, a Commit after the
\* proposal it is about.
BroadcastInv ==
  /\ nAbout = nBcast
  /\ \A i \in 1..nBcast :
       \/ about[i] \in 1..nIssued /\ bcast[i] = StateChange(about[i], issued[about[i]])
       \/ about[i] \in 1..nCommitted(Leader) /\ bcast[i] = CommitMsg
  /\ \A i, j \in 1..nBcast :
       i < j /\ (IsSC(i) <=> IsSC(j)) => about[i] < about[j]
  /\ \A k \in 1..nIssued : \E i \in 1..nBcast : IsSC(i) /\ about[i] = k
  /\ \A k \in 1..nCommitted(Leader) :
       \E j \in 1..nBcast : ~IsSC(j) /\ about[j] = k
  /\ \A j \in 1..nBcast :
       ~IsSC(j) => \E i \in 1..(j - 1) : IsSC(i) /\ about[i] = about[j]

\* What lies before a follower's cursor is exactly what it has received and
\* committed.
CursorInv ==
  \A f \in Follower :
    /\ rcvd[f] <= nBcast
    /\ \A i \in 1..nBcast :
         /\ IsSC(i) => (i <= rcvd[f] <=> about[i] <= Received(f))
         /\ ~IsSC(i) => (i <= rcvd[f] <=> about[i] <= nCommitted(f))

\* A follower acknowledges in order; acked[f] of its ACKs have been handled.
AckInv ==
  \A f \in Follower :
    /\ acked[f] + nAcks(f) <= Received(f)
    /\ Up(f) => acked[f] + nAcks(f) = Received(f)
    /\ \A i \in 1..nAcks(f) : acks[f][i] = acked[f] + i

\* ackTracker[k] counts the coordinator and the followers whose ACK of k was
\* handled until k commits, and the followers beyond the quorum afterwards.
TrackerInv ==
  \A k \in 1..nIssued :
    IF k <= nCommitted(Leader)
    THEN ackTracker[k] + maxCount = Cardinality(Ackers(k))
    ELSE /\ ackTracker[k] = Cardinality(Ackers(k)) + 1
         /\ Cardinality(Ackers(k)) < maxCount

\* A request is under way, ordered or gone: never ordered twice.
RequestInv ==
  /\ \A s \in Server : \A i \in 1..nReqs(s) :
       /\ reqs[s][i] \in submitted
       /\ Origin[reqs[s][i]] = s
       /\ \A j \in 1..nReqs(s) : reqs[s][i] = reqs[s][j] => i = j
       /\ \A k \in 1..nIssued : issued[k] # reqs[s][i]
  /\ \A k \in 1..nIssued : issued[k] \in submitted

\* The inductive invariant: while no message is lost, every handler of the
\* Proposals package keeps the queues, the broadcast, the ACKs and the tracker in
\* step, so that a Commit, which names no proposal, always meets the right one.
IInv ==
  /\ TypeOK
  /\ NoFatal
  /\ QueueInv
  /\ FollowInv
  /\ CoordinatorInv
  /\ BroadcastInv
  /\ CursorInv
  /\ AckInv
  /\ TrackerInv
  /\ RequestInv
=============================================================================

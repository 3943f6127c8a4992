------------------------------- MODULE ZabSync -------------------------------
(***************************************************************************)
(* Change of coordinator in the Proposals package: crashes and restarts,   *)
(* Pause and Continue around an election, the NewLeader proposal, the sync *)
(* of servers that lag behind from the proposal log on disk, and the       *)
(* writes that wait for all of this.                                       *)
(*                                                                         *)
(* srv[s] holds the package variables of server s; a handler is an         *)
(* operator from the record before it runs to the record after it.         *)
(*                                                                         *)
(* The election itself is module Election; here it is its outcome: the     *)
(* servers that are up report their zxid one after the other, then all     *)
(* learn the winner, the initiator last, then all learn the ring.  The     *)
(* driver zabFailureTest pauses the package around it, main does not.      *)
(* A message that has left messageSender is in the messageQueue of its     *)
(* target: the time it spends in between is time it spends in one of the   *)
(* two queues.  requestChecker accepts every write here; ZabBroadcast has  *)
(* the denials.                                                            *)
(***************************************************************************)
EXTENDS Integers, FiniteSets, Sequences, SequencesExt, FiniteSetsExt

CONSTANTS Server,           \* names of the configured servers, as numbers
          Request,          \* write requests
          Origin,           \* Origin[r]: the server r is sent from
          PauseOnElection,  \* TRUE: the driver zabFailureTest; FALSE: main
          LateMessages,     \* may messages reach a server after it has voted?
          SlowDisk,         \* servers where proposalWriter may lag behind
          MaxCrashes,       \* bound: crashes
          MaxRestarts,      \* bound: restarts
          MaxElections      \* bound: elections after the first one

ASSUME ServerAssumption ==
  IsFiniteSet(Server) /\ Server # {} /\ Server \subseteq Nat \ {0}
ASSUME OriginAssumption == Origin \in [Request -> Server]
ASSUME BoundAssumption ==
  /\ PauseOnElection \in BOOLEAN /\ LateMessages \in BOOLEAN
  /\ SlowDisk \subseteq Server
  /\ MaxCrashes \in Nat /\ MaxRestarts \in Nat /\ MaxElections \in Nat

VARIABLES srv,       \* srv[s]: the state of server s
          up,        \* servers that run
          election,  \* the election under way
          sent,      \* requests handed to SendWriteRequest
          crashes, restarts, elections,  \* how often so far
          opened,    \* auxiliary: <<epoch, server>> of every NewLeader
          outdated   \* auxiliary, for zabFailureTest: servers whose zxid changed
                     \* after their vote

vars == <<srv, up, election, sent, crashes, restarts, elections, opened, outdated>>

NoServer  == 0  \* GetCoordinator() = ""
n_systems == Cardinality(Server)

-----------------------------------------------------------------------------
(* Zxids, proposals and messages *)

getZXIDAsInt(epoch, count) == epoch * 65536 + count
epochOf(zxid) == zxid \div 65536
countOf(zxid) == zxid % 65536

\* A StateChange carries a request, a NewLeader the zxid to sync up to.
Proposal(type, zxid, content) ==
  [PropType |-> type, zxid |-> zxid, Content |-> content]
CommitProp == Proposal("Commit", 0, 0)

Prop(p)    == [ZabType |-> "Prop", prop |-> p]
ACK(p)     == [ZabType |-> "ACK", prop |-> p]
WriteReq(r) == [ZabType |-> "Write", req |-> r]
SyncReq(z)  == [ZabType |-> "Sync", zxid |-> z]
SyncErr    == [ZabType |-> "SyncErr"]

-----------------------------------------------------------------------------
(* The proposal log *)

\* The file of an epoch: the proposals saved with its number, in write order.
file(m, epoch) == SelectSeq(m.disk, LAMBDA p : epochOf(p.zxid) = epoch)

\* The latest readCount proposals of an epoch, oldest first; reading back
\* stops at the start of the file.
ReadProposals(m, epoch, readCount) ==
  LET f == file(m, epoch)
      n == IF readCount > Len(f) THEN Len(f) ELSE readCount
  IN IF readCount <= 0 THEN << >> ELSE SubSeq(f, Len(f) - n + 1, Len(f))

getEpochHighestCount(m, epoch) ==
  IF file(m, epoch) = << >> THEN 0 ELSE countOf(Last(file(m, epoch)).zxid)

\* The highest epoch above 0 that has a file, and the count of its last
\* proposal; 0 when there is none.
RestoreZXIDFromDisk(disk) ==
  LET epochs == {epochOf(disk[i].zxid) : i \in 1..Len(disk)} \ {0} IN
  IF epochs = {} THEN 0
  ELSE LET e == CHOOSE x \in epochs : \A y \in epochs : y <= x
       IN getZXIDAsInt(e, getEpochHighestCount([disk |-> disk], e))

-----------------------------------------------------------------------------
(* State of a server *)

\* A process that has just called proposals.Init, with what it finds on disk.
Booted(s, disk, committed) ==
  [name            |-> s,
   zxidCounter     |-> RestoreZXIDFromDisk(disk),
   ackTracker      |-> << >>,        \* a function from zxids to counts
   proposalsQueue  |-> << >>,
   syncTrack       |-> [active |-> FALSE, zxidCap |-> 0, prop |-> CommitProp],
   syncResponseTracker |-> 0,
   messageQueue    |-> << >>,
   holdingRequestsQueue |-> << >>,
   sendingQueue    |-> << >>,
   currentSync     |-> CommitProp,
   newProposalChan |-> << >>,
   syncReplies     |-> << >>,        \* goroutines answering Sync requests
   requestsEnabled |-> FALSE,
   requestsProcessingEnabled |-> FALSE,
   syncing         |-> FALSE,
   coordinator     |-> NoServer,     \* election.Coordinator
   Addresses       |-> Server,       \* election.Addresses
   fatal           |-> FALSE,        \* logger.Fatal has ended the process
   disk            |-> disk,         \* survives a crash
   committed       |-> committed]    \* what the application has been given

First == CHOOSE s \in Server : \A t \in Server : t <= s

\* After the first election.  No proposal exists, so Continue has enabled
\* processing without a sync; main calls it on the coordinator only.
Init ==
  /\ srv = [s \in Server |->
              [Booted(s, << >>, << >>) EXCEPT
                 !.coordinator = First,
                 !.requestsEnabled = PauseOnElection \/ s = First,
                 !.requestsProcessingEnabled = PauseOnElection \/ s = First]]
  /\ up = Server
  /\ election = [phase |-> "idle", initiator |-> NoServer, votes |-> << >>,
                 coordinator |-> NoServer, announced |-> {}, ringed |-> {}]
  /\ sent = {}
  /\ crashes = 0 /\ restarts = 0 /\ elections = 0
  /\ opened = {}
  /\ outdated = {}

-----------------------------------------------------------------------------
(* Sending *)

\* A message to oneself goes straight into the own messageQueue.
queueSend(m, msg, remote) ==
  IF remote = m.name
  THEN [m EXCEPT !.messageQueue = Append(@, [Remote |-> m.name, msg |-> msg])]
  ELSE [m EXCEPT !.sendingQueue = Append(@, [msg |-> msg, broadcast |-> FALSE,
                                             target |-> remote])]
queueBroadcast(m, msg) ==
  [m EXCEPT !.sendingQueue = Append(@, [msg |-> msg, broadcast |-> TRUE,
                                        target |-> NoServer])]
queueAll(m, msgs, remote) ==
  IF remote = m.name
  THEN [m EXCEPT !.messageQueue = @ \o [i \in DOMAIN msgs |->
                                          [Remote |-> m.name, msg |-> msgs[i]]]]
  ELSE [m EXCEPT !.sendingQueue = @ \o [i \in DOMAIN msgs |->
                                          [msg |-> msgs[i], broadcast |-> FALSE,
                                           target |-> remote]]]

queueWriteProposal(m, prop) ==
  IF m.name \in SlowDisk THEN [m EXCEPT !.newProposalChan = Append(@, prop)]
  ELSE [m EXCEPT !.disk = Append(@, prop)]
queueCommitProposal(m, prop) == [m EXCEPT !.committed = Append(@, prop.Content)]
sendRequest(m, req) == queueSend(m, req, m.coordinator)

-----------------------------------------------------------------------------
(* Pause, Continue and SendNewLeader *)

\* The positions of messageQueue that Pause may miss, because the message is
\* still on its way: of each other server the last few.
missed(m) ==
  LET q == m.messageQueue IN
  IF ~LateMessages THEN {{}}
  ELSE {I \in SUBSET DOMAIN q : \A i \in I :
          /\ q[i].Remote # m.name
          /\ \A j \in DOMAIN q : j > i /\ q[j].Remote = q[i].Remote => j \in I}

\* The messages at the positions I arrive after the queues are cleared.
Pause(m, I) ==
  IF ~m.requestsEnabled THEN m
  ELSE [m EXCEPT !.requestsEnabled = FALSE, !.requestsProcessingEnabled = FALSE,
                 !.messageQueue = [k \in 1..Cardinality(I) |->
                                     @[SetToSortSeq(I, <)[k]]],
                 !.sendingQueue = << >>]

\* Mutation: the counter of sync responses is not set.
SendNewLeader_bug(m) ==
  LET z    == m.zxidCounter
      e    == getZXIDAsInt(epochOf(z) + 1, 0)
      prop == Proposal("NewLeader", e, z)
  IN IF z = 0 THEN [m EXCEPT !.requestsProcessingEnabled = TRUE]
     ELSE queueBroadcast([m EXCEPT !.zxidCounter = e, !.currentSync = prop,
                                   !.syncing = TRUE], Prop(prop))

\* The epoch only grows when no sync is active; a sync that is still active
\* is broadcast again with its old proposal.
SendNewLeader(m) ==
  LET z    == m.zxidCounter
      e    == getZXIDAsInt(epochOf(z) + 1, 0)
      prop == IF m.syncing THEN m.currentSync ELSE Proposal("NewLeader", e, z)
  IN IF z = 0
     THEN [m EXCEPT !.syncing = FALSE, !.requestsProcessingEnabled = TRUE]
     ELSE LET n == [m EXCEPT !.zxidCounter = IF m.syncing THEN z ELSE e,
                             !.currentSync = prop,
                             !.syncing = TRUE,
                             !.syncResponseTracker = Cardinality(m.Addresses) - 1]
          IN queueBroadcast(queueWriteProposal(n, prop), Prop(prop))

Continue(m) ==
  IF m.requestsEnabled THEN m
  ELSE LET n == [m EXCEPT !.requestsEnabled = TRUE] IN
       IF m.coordinator # m.name
       THEN [n EXCEPT !.requestsProcessingEnabled = TRUE, !.syncing = FALSE]
       ELSE SendNewLeader(n)

-----------------------------------------------------------------------------
(* Handlers of messages *)

processWrite(m, r) ==
  LET z    == m.zxidCounter + 1
      prop == Proposal("StateChange", z, r)
      n    == [m EXCEPT !.zxidCounter = z,
                        !.ackTracker = (z :> 1) @@ @,
                        !.proposalsQueue = Append(@, prop)]
  IN queueBroadcast(queueWriteProposal(n, prop), Prop(prop))

\* Mutation: the count of the sender's zxid is ignored.
processSync_bug(m, zxid, remote) ==
  [m EXCEPT !.syncReplies = Append(@,
     [from |-> getZXIDAsInt(epochOf(zxid), 0), upTo |-> m.zxidCounter, remote |-> remote])]

\* The reply is read from disk later, by a goroutine of its own.
processSync(m, zxid, remote) ==
  IF epochOf(zxid) > epochOf(m.zxidCounter)
  THEN queueSend(m, SyncErr, remote)
  ELSE [m EXCEPT !.syncReplies =
          Append(@, [from |-> zxid, upTo |-> m.zxidCounter, remote |-> remote])]

processRequest(m, msg, remote) ==
  IF msg.ZabType = "Sync" THEN processSync(m, msg.zxid, remote)
  ELSE IF m.requestsProcessingEnabled THEN processWrite(m, msg.req)
  ELSE [m EXCEPT !.holdingRequestsQueue = Append(@, [Remote |-> remote, msg |-> msg])]

\* Mutation: the sync ends only after a proposal beyond its zxid.
processStateChangeProposal_bug(m, prop, src) ==
  LET n == queueWriteProposal([m EXCEPT !.zxidCounter = prop.zxid], prop) IN
  IF ~m.syncTrack.active
  THEN queueSend([n EXCEPT !.proposalsQueue = Append(@, prop)], ACK(prop), src)
  ELSE LET c == queueCommitProposal(n, prop) IN
       IF m.syncTrack.zxidCap < prop.zxid
       THEN queueSend([c EXCEPT !.syncTrack.active = FALSE], ACK(m.syncTrack.prop), src)
       ELSE c

\* While a sync is active a proposal is committed at once and not ACKed; the
\* one that reaches the sync's zxid ends it.
processStateChangeProposal(m, prop, src) ==
  LET n == queueWriteProposal([m EXCEPT !.zxidCounter = prop.zxid], prop) IN
  IF m.syncTrack.active
  THEN LET c == queueCommitProposal(n, prop) IN
       IF m.syncTrack.zxidCap <= prop.zxid
       THEN queueSend([c EXCEPT !.syncTrack.active = FALSE], ACK(m.syncTrack.prop), src)
       ELSE c
  ELSE queueSend([n EXCEPT !.proposalsQueue = Append(@, prop)], ACK(prop), src)

processCommitProposal(m) ==
  IF m.proposalsQueue = << >> THEN [m EXCEPT !.fatal = TRUE]
  ELSE queueCommitProposal([m EXCEPT !.proposalsQueue = Tail(@)], Head(m.proposalsQueue))

\* Mutation: NewLeader is acknowledged before the sync.
processNewLeaderProposal_bug(m, prop, src) ==
  LET n == [queueWriteProposal(m, prop) EXCEPT
              !.committed = @ \o [i \in DOMAIN m.proposalsQueue |-> m.proposalsQueue[i].Content],
              !.proposalsQueue = << >>]
  IN sendRequest(queueSend([n EXCEPT !.syncTrack.active = m.zxidCounter # prop.Content,
                                     !.syncTrack.zxidCap = prop.Content],
                           ACK(prop), src), SyncReq(m.zxidCounter))

\* All held proposals are committed, then the server asks for what it lacks.
processNewLeaderProposal(m, prop, src) ==
  LET n == [queueWriteProposal(m, prop) EXCEPT
              !.committed = @ \o [i \in DOMAIN m.proposalsQueue |-> m.proposalsQueue[i].Content],
              !.proposalsQueue = << >>]
  IN IF m.zxidCounter = prop.Content THEN queueSend(n, ACK(prop), src)
     ELSE sendRequest([n EXCEPT !.syncTrack = [active |-> TRUE, zxidCap |-> prop.Content,
                                               prop |-> prop]],
                      SyncReq(m.zxidCounter))

processProposal(m, prop, src) ==
  CASE src # m.coordinator             -> m
    [] prop.PropType = "StateChange"   -> processStateChangeProposal(m, prop, src)
    [] prop.PropType = "Commit"        -> processCommitProposal(m)
    [] prop.PropType = "NewLeader"     -> processNewLeaderProposal(m, prop, src)
    [] OTHER                           -> [m EXCEPT !.fatal = TRUE]

\* Mutation: one ACK early.
incrementOrRemove_bug(m, zxid) ==
  zxid \in DOMAIN m.ackTracker /\ m.ackTracker[zxid] + 1 >= n_systems \div 2

\* Does this ACK carry the counter past the majority?  It is then set to 0.
incrementOrRemove(m, zxid) ==
  zxid \in DOMAIN m.ackTracker /\ m.ackTracker[zxid] + 1 > n_systems \div 2

countACK(m, zxid) ==
  IF zxid \notin DOMAIN m.ackTracker THEN m
  ELSE IF ~incrementOrRemove(m, zxid) THEN [m EXCEPT !.ackTracker[zxid] = @ + 1]
  ELSE LET n == processCommitProposal([m EXCEPT !.ackTracker[zxid] = 0])
       IN IF n.fatal THEN n ELSE queueBroadcast(n, Prop(CommitProp))

\* Mutation: syncing stays on.
syncACK_bug(m) ==
  IF m.syncResponseTracker # 1 THEN [m EXCEPT !.syncResponseTracker = @ - 1]
  ELSE [m EXCEPT !.syncResponseTracker = 0,
                 !.requestsProcessingEnabled = TRUE,
                 !.messageQueue = @ \o m.holdingRequestsQueue,
                 !.holdingRequestsQueue = << >>]

\* The ACK of a NewLeader counts towards the end of the sync; the last one
\* lets the held requests in.
syncACK(m) ==
  IF m.syncResponseTracker # 1 THEN [m EXCEPT !.syncResponseTracker = @ - 1]
  ELSE [m EXCEPT !.syncResponseTracker = 0,
                 !.requestsProcessingEnabled = TRUE,
                 !.syncing = FALSE,
                 !.messageQueue = @ \o m.holdingRequestsQueue,
                 !.holdingRequestsQueue = << >>]

processACK(m, prop) ==
  IF prop.PropType # "NewLeader" THEN countACK(m, prop.zxid)
  ELSE IF ~m.requestsProcessingEnabled /\ prop.zxid = m.currentSync.zxid
  THEN countACK(syncACK(m), prop.zxid)
  ELSE m

ProcessZabMessage(m, netMsg) ==
  LET msg == netMsg.msg IN
  CASE msg.ZabType \in {"Write", "Sync"} -> processRequest(m, msg, netMsg.Remote)
    [] msg.ZabType = "Prop"              -> processProposal(m, msg.prop, netMsg.Remote)
    [] msg.ZabType = "ACK"               -> processACK(m, msg.prop)
    [] OTHER                             -> m  \* a SyncErr is logged

\* What a Sync goroutine sends, epoch by epoch: the lacking proposals, or an
\* error when the file of an epoch cannot be opened.
syncReply(m, job) ==
  LET lo == epochOf(job.from)
      hi == epochOf(job.upTo)
      count(e)   == IF e = lo THEN countOf(job.from) ELSE 0
      highest(e) == IF e = hi THEN countOf(job.upTo) ELSE getEpochHighestCount(m, e)
      props(e)   == ReadProposals(m, e, highest(e) - count(e))
      failed(e)  == file(m, e) = << >> /\ (e < hi \/ highest(e) > count(e))
  IN FlattenSeq([i \in 1..(hi - lo + 1) |->
       LET e == lo + i - 1 IN
       IF failed(e) THEN <<SyncErr>> ELSE [j \in 1..Len(props(e)) |-> Prop(props(e)[j])]])

-----------------------------------------------------------------------------
(* Actions of a server *)

\* Servers that have reported their zxid in the election.
voters == DOMAIN election.votes

SendWriteRequest(r) ==
  LET s == Origin[r] IN
  /\ s \in up
  /\ r \notin sent
  /\ sent' = sent \cup {r}
  /\ srv' = [srv EXCEPT ![s] = sendRequest(@, WriteReq(r))]
  /\ UNCHANGED <<up, election, crashes, restarts, elections, opened, outdated>>

messageProcessor(s) ==
  /\ s \in up
  /\ srv[s].messageQueue # << >>
  /\ LET m == srv[s]
         n == ProcessZabMessage([m EXCEPT !.messageQueue = Tail(@)], Head(m.messageQueue))
     IN /\ srv' = [srv EXCEPT ![s] = n]
        /\ up' = IF n.fatal THEN up \ {s} ELSE up
        /\ outdated' = IF PauseOnElection /\ s \in voters \ election.announced
                            /\ n.zxidCounter # m.zxidCounter
                       THEN outdated \cup {s} ELSE outdated
  /\ UNCHANGED <<election, sent, crashes, restarts, elections, opened>>

targets(m, toSend) == IF toSend.broadcast THEN m.Addresses \ {m.name} ELSE {toSend.target}

\* The servers of D that run have received toSend from s.
deliver(s, toSend, D) ==
  [d \in Server |->
     IF d \in D \cap up
     THEN [srv[d] EXCEPT !.messageQueue = Append(@, [Remote |-> s, msg |-> toSend.msg])]
     ELSE srv[d]]

messageSender(s) ==
  /\ s \in up
  /\ srv[s].sendingQueue # << >>
  /\ srv[s].coordinator # NoServer
  /\ LET toSend == Head(srv[s].sendingQueue) IN
     srv' = [deliver(s, toSend, targets(srv[s], toSend)) EXCEPT
               ![s].sendingQueue = Tail(@)]
  /\ UNCHANGED <<up, election, sent, crashes, restarts, elections, opened, outdated>>

proposalWriter(s) ==
  /\ s \in up
  /\ srv[s].newProposalChan # << >>
  /\ srv' = [srv EXCEPT ![s].disk = Append(@, Head(srv[s].newProposalChan)),
                        ![s].newProposalChan = Tail(@)]
  /\ UNCHANGED <<up, election, sent, crashes, restarts, elections, opened, outdated>>

replySync(s) ==
  /\ s \in up
  /\ \E i \in 1..Len(srv[s].syncReplies) :
       LET job == srv[s].syncReplies[i]
           n   == [srv[s] EXCEPT !.syncReplies = RemoveAt(@, i)]
       IN srv' = [srv EXCEPT ![s] = queueAll(n, syncReply(n, job), job.remote)]
  /\ UNCHANGED <<up, election, sent, crashes, restarts, elections, opened, outdated>>

-----------------------------------------------------------------------------
(* Crashes, restarts and elections *)

\* A broadcast sends to its targets in parallel: a crash may leave it with
\* some of them.  What waits in newProposalChan is lost.
Crash(s) ==
  /\ s \in up
  /\ crashes < MaxCrashes
  /\ crashes' = crashes + 1
  /\ up' = up \ {s}
  /\ LET m    == srv[s]
         down == Booted(s, m.disk, m.committed)
     IN \/ srv' = [srv EXCEPT ![s] = down]
        \/ /\ m.sendingQueue # << >>
           /\ Head(m.sendingQueue).broadcast
           /\ \E D \in SUBSET targets(m, Head(m.sendingQueue)) :
                srv' = [deliver(s, Head(m.sendingQueue), D) EXCEPT ![s] = down]
  /\ UNCHANGED <<election, sent, restarts, elections, opened, outdated>>

Restart(s) ==
  /\ s \notin up
  /\ ~srv[s].fatal
  /\ restarts < MaxRestarts
  /\ restarts' = restarts + 1
  /\ up' = up \cup {s}
  /\ UNCHANGED <<srv, election, sent, crashes, elections, opened, outdated>>

\* s misses its coordinator, or has just started and enters the ring: it sends
\* Discovery with its own zxid.  The loop of zabFailureTest that reads failed
\* sends has paused by then.
StartElection(s) ==
  /\ election.phase = "announce" => up \cap voters \subseteq election.ringed
  /\ election.phase # "discovery"
  /\ elections < MaxElections
  /\ elections' = elections + 1
  /\ s \in up
  /\ srv[s].coordinator \notin up
  /\ PauseOnElection => ~srv[s].requestsEnabled
  /\ election' = [phase |-> "discovery", initiator |-> s,
                  votes |-> (s :> srv[s].zxidCounter), coordinator |-> NoServer,
                  announced |-> {}, ringed |-> {}]
  /\ UNCHANGED <<srv, up, sent, crashes, restarts, opened, outdated>>

\* Discovery reaches s, which adds its zxid and sends the message on.
Discover(s) ==
  /\ election.phase = "discovery"
  /\ s \in up \ voters
  /\ election' = [election EXCEPT !.votes = (s :> srv[s].zxidCounter) @@ @]
  /\ UNCHANGED <<srv, up, sent, crashes, restarts, elections, opened, outdated>>

\* zabFailureTest pauses before it starts an election for a coordinator it
\* cannot reach, but only after it has handled a message of an election:
\* messageProcessor may run between the vote and the pause.
PauseProcessing(s) ==
  /\ PauseOnElection
  /\ s \in up
  /\ srv[s].requestsEnabled
  /\ \/ srv[s].coordinator \notin up
     \/ s \in voters \ election.announced
  /\ \E I \in missed(srv[s]) : srv' = [srv EXCEPT ![s] = Pause(@, I)]
  /\ UNCHANGED <<up, election, sent, crashes, restarts, elections, opened, outdated>>

\* Mutation: the name alone decides.
getCorrespondingValue_bug(votes) ==
  CHOOSE s \in DOMAIN votes : \A t \in DOMAIN votes : s >= t

\* The highest zxid wins, the higher name between equals.
getCorrespondingValue(votes) ==
  CHOOSE s \in DOMAIN votes : \A t \in DOMAIN votes \ {s} :
    \/ votes[s] > votes[t]
    \/ votes[s] = votes[t] /\ s > t

\* Discovery is back at a server that counts enough votes.
Elect ==
  /\ election.phase = "discovery"
  /\ up \subseteq voters
  /\ \E s \in up : Cardinality(voters) >= Cardinality(srv[s].Addresses) \div 2 + 1
  /\ election' =
       [election EXCEPT !.phase = "announce",
          !.coordinator = getCorrespondingValue(election.votes)]
  /\ UNCHANGED <<srv, up, sent, crashes, restarts, elections, opened, outdated>>

\* The name of the winner reaches s, the initiator last; the driver of s has
\* paused after its vote.
Announce(s) ==
  /\ election.phase = "announce"
  /\ s \in (up \cap voters) \ election.announced
  /\ s = election.initiator => up \cap voters \subseteq election.announced \cup {s}
  /\ PauseOnElection => ~srv[s].requestsEnabled
  /\ election' = [election EXCEPT !.announced = @ \cup {s},
                                  !.initiator = IF s = @ THEN NoServer ELSE @]
  /\ srv' = [srv EXCEPT ![s].coordinator = election.coordinator]
  /\ UNCHANGED <<up, sent, crashes, restarts, elections, opened, outdated>>

\* The new ring reaches s; main resumes the coordinator only.
NewRing(s) ==
  /\ election.phase = "announce"
  /\ up \cap voters \subseteq election.announced
  /\ s \in (up \cap voters) \ election.ringed
  /\ election' = [election EXCEPT !.ringed = @ \cup {s}]
  /\ LET m == [srv[s] EXCEPT !.Addresses = election.announced]
         n == IF PauseOnElection \/ m.coordinator = s THEN Continue(m) ELSE m
     IN /\ srv' = [srv EXCEPT ![s] = n]
        /\ opened' = IF ~n.syncing THEN opened
                     ELSE opened \cup {<<epochOf(n.currentSync.zxid), s>>}
  /\ UNCHANGED <<up, sent, crashes, restarts, elections, outdated>>

Next ==
  \/ \E r \in Request : SendWriteRequest(r)
  \/ \E s \in Server :
       \/ messageProcessor(s)
       \/ messageSender(s)
       \/ proposalWriter(s)
       \/ replySync(s)
       \/ Crash(s)
       \/ Restart(s)
       \/ StartElection(s)
       \/ Discover(s)
       \/ PauseProcessing(s)
       \/ Announce(s)
       \/ NewRing(s)
  \/ Elect

Spec == Init /\ [][Next]_vars

\* Goroutines keep running, messages of an election keep going round.
Fairness ==
  /\ \A s \in Server :
       /\ WF_vars(messageProcessor(s))
       /\ WF_vars(messageSender(s))
       /\ WF_vars(proposalWriter(s))
       /\ WF_vars(replySync(s))
       /\ WF_vars(StartElection(s))
       /\ WF_vars(Discover(s))
       /\ WF_vars(PauseProcessing(s))
       /\ WF_vars(Announce(s))
       /\ WF_vars(NewRing(s))
  /\ WF_vars(Elect)

FairSpec == Spec /\ Fairness

-----------------------------------------------------------------------------
(* Properties *)

\* Types: the sync counter never passes below 0, proposalsQueue and the
\* application only ever see writes, the disk only StateChange and NewLeader
\* proposals (proposals.go).
TypeOK ==
  /\ up \subseteq Server
  /\ sent \subseteq Request
  /\ \A s \in Server : LET m == srv[s] IN
       /\ m.zxidCounter \in Nat
       /\ m.coordinator \in Server \cup {NoServer}
       /\ m.Addresses \subseteq Server
       /\ m.syncResponseTracker \in Nat
       /\ \A zxid \in DOMAIN m.ackTracker : m.ackTracker[zxid] \in 0..n_systems
       /\ \A i \in DOMAIN m.proposalsQueue : m.proposalsQueue[i].PropType = "StateChange"
       /\ \A i \in DOMAIN m.committed : m.committed[i] \in Request
       /\ \A i \in DOMAIN m.disk : m.disk[i].PropType \in {"StateChange", "NewLeader"}
       /\ m.requestsEnabled \in BOOLEAN /\ m.requestsProcessingEnabled \in BOOLEAN
       /\ m.syncing \in BOOLEAN /\ m.fatal \in BOOLEAN

\* What two servers have handed to the application never differs, only in how
\* far each has come: a new coordinator, its sync and the commit of all held
\* proposals on NewLeader keep one order (processNewLeaderProposal).
PrefixConsistent ==
  \A s, t \in Server :
    \/ IsPrefix(srv[s].committed, srv[t].committed)
    \/ IsPrefix(srv[t].committed, srv[s].committed)

\* As long as no server accepts a proposal between its vote and the pause that
\* follows it, the driver that pauses (zabFailureTest.go:50) keeps one order
\* across a crash and a change of coordinator.
PrefixConsistentIfVotesHold == outdated = {} => PrefixConsistent

\* No server applies a write twice: what a sync sends begins after what the
\* server has already been given (processRequest, the Sync case).  A restarted
\* server may be given writes again that it has on disk but not in its counter.
NoDuplicates ==
  restarts = 0 => \A s \in Server : IsInjective(srv[s].committed)

\* The Fatal of processCommitProposal, a Commit with nothing to commit, is
\* never reached, in a group of three even when a server accepts a proposal
\* between its vote and its pause.
NoFatal == \A s \in Server : ~srv[s].fatal

\* A coordinator that takes writes in an epoch it opened with NewLeader has
\* brought every server of its ring up to the zxid of the sync (processACK),
\* as long as no server was restarted: one that enters is not synced.
OpenImpliesSynced ==
  restarts = 0 => \A s \in up : LET m == srv[s] IN
    m.currentSync.PropType = "NewLeader" /\ m.requestsProcessingEnabled /\ m.coordinator = s
      => \A f \in (m.Addresses \cap up) \ {s} :
           srv[f].coordinator = s =>
             srv[f].zxidCounter >= m.currentSync.Content /\ ~srv[f].syncTrack.active

\* No write is taken while a sync runs: writes wait in holdingRequestsQueue
\* (ProcessZabMessage, the Req case).
SyncExcludesWrites ==
  \A s \in Server : srv[s].syncing => ~srv[s].requestsProcessingEnabled

\* An epoch is opened by one coordinator only: SendNewLeader starts a new one.
EpochHasOneCoordinator ==
  \A a, b \in opened : a[1] = b[1] => a[2] = b[2]

onDisk(s, r) ==
  \E i \in DOMAIN srv[s].disk : srv[s].disk[i].PropType = "StateChange" /\ srv[s].disk[i].Content = r

\* A write that any server has committed is in the log of a majority, across
\* crashes and the change of coordinator (processACK counts the ACKs), in a group
\* of three.  With four or five it also needs votes that hold (outdated); with six
\* a sync commits at once what the old and the new coordinator and one follower
\* hold (processStateChangeProposal).
CommittedIsDurable ==
  \A r \in UNION {Range(srv[s].committed) : s \in Server} :
    2 * Cardinality({s \in Server : onDisk(s, r)}) > n_systems

\* A sync ends: the new coordinator takes writes again, or stops, as long as no
\* server is ahead of its own vote: a sync sends it nothing, and it never ACKs
\* (processACK and unloadHoldingQueue).
SyncCompletes ==
  \A s \in Server :
    (s \in up /\ srv[s].syncing) ~> (s \notin up \/ srv[s].requestsProcessingEnabled \/ outdated # {})
=============================================================================

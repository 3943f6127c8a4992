----------------------------- MODULE ZabSyncProofs -----------------------------
(***************************************************************************)
(* Machine-checked proofs about ZabSync under the driver main, for every   *)
(* set of servers and requests, any number of crashes, restarts and        *)
(* elections, late messages and slow disks.                                *)
(***************************************************************************)
EXTENDS ZabSync, TLAPS

\* The package variables.
Fields == {"name", "zxidCounter", "ackTracker", "proposalsQueue", "syncTrack",
           "syncResponseTracker", "messageQueue", "holdingRequestsQueue", "sendingQueue",
           "currentSync", "newProposalChan", "syncReplies", "requestsEnabled",
           "requestsProcessingEnabled", "syncing", "coordinator", "Addresses", "fatal",
           "disk", "committed"}

\* A server takes no writes while it syncs.  Before Continue it does neither,
\* and then no ACK of a NewLeader, however late, is the last one of a sync:
\* the counter of sync responses is not set.
GateInv(m) ==
  /\ DOMAIN m = Fields
  /\ m.syncing => ~m.requestsProcessingEnabled
  /\ ~m.requestsEnabled => /\ ~m.requestsProcessingEnabled /\ ~m.syncing
                           /\ m.syncResponseTracker \in Int /\ m.syncResponseTracker <= 0

SyncInv == DOMAIN srv = Server /\ \A s \in Server : GateInv(srv[s])

\* n is m, but for variables that have nothing to do with taking writes.
keeps(m, n) ==
  /\ DOMAIN n = Fields
  /\ n.syncing = m.syncing
  /\ n.requestsEnabled = m.requestsEnabled
  /\ n.requestsProcessingEnabled = m.requestsProcessingEnabled
  /\ n.syncResponseTracker = m.syncResponseTracker

\* keeps preserves GateInv.
LEMMA KeepsGate ==
  ASSUME NEW m, NEW n, GateInv(m), keeps(m, n)
  PROVE  GateInv(n)
BY DEF GateInv, keeps

-----------------------------------------------------------------------------
(* Queues and handlers *)

\* What is put into a queue, handed to the disk writer or given to the
\* application changes nothing else.
LEMMA QueueKeeps ==
  ASSUME NEW m, DOMAIN m = Fields, NEW msg, NEW remote
  PROVE  /\ keeps(m, queueSend(m, msg, remote)) /\ keeps(m, queueBroadcast(m, msg))
         /\ keeps(m, sendRequest(m, msg)) /\ keeps(m, queueAll(m, msg, remote))
         /\ keeps(m, queueWriteProposal(m, msg)) /\ keeps(m, queueCommitProposal(m, msg))
<1>1. keeps(m, queueSend(m, msg, remote))
  BY DEF keeps, queueSend, Fields
<1>2. keeps(m, queueBroadcast(m, msg))
  BY DEF keeps, queueBroadcast, Fields
<1>3. keeps(m, sendRequest(m, msg))
  BY DEF keeps, queueSend, sendRequest, Fields
<1>4. keeps(m, queueAll(m, msg, remote))
  BY DEF keeps, queueAll, Fields
<1>5. keeps(m, queueWriteProposal(m, msg)) /\ keeps(m, queueCommitProposal(m, msg))
  BY DEF keeps, queueWriteProposal, queueCommitProposal, Fields
<1> QED
  BY <1>1, <1>2, <1>3, <1>4, <1>5

\* Several such changes in a row.
LEMMA KeepsTransitive ==
  ASSUME NEW m, NEW n, NEW o, keeps(m, n), keeps(n, o)
  PROVE  keeps(m, o)
BY DEF keeps

\* A request is held, proposed or answered from the log.
LEMMA RequestKeeps ==
  ASSUME NEW m, DOMAIN m = Fields, NEW msg, NEW remote
  PROVE  keeps(m, processRequest(m, msg, remote))
<1>1. keeps(m, processSync(m, msg.zxid, remote))
  <2>1. keeps(m, queueSend(m, SyncErr, remote))
    BY QueueKeeps
  <2>2. \A job : keeps(m, [m EXCEPT !.syncReplies = Append(@, job)])
    BY DEF keeps, Fields
  <2> QED
    BY <2>1, <2>2 DEF processSync
<1>2. keeps(m, processWrite(m, msg.req))
  <2> DEFINE z    == m.zxidCounter + 1
             prop == Proposal("StateChange", z, msg.req)
             n    == [m EXCEPT !.zxidCounter = z, !.ackTracker = (z :> 1) @@ @,
                               !.proposalsQueue = Append(@, prop)]
  <2>1. keeps(m, n)
    BY DEF keeps, Fields
  <2>2. processWrite(m, msg.req) = queueBroadcast(queueWriteProposal(n, prop), Prop(prop))
    BY DEF processWrite
  <2> HIDE DEF n, prop
  <2>3. keeps(n, queueWriteProposal(n, prop))
    BY <2>1, QueueKeeps DEF keeps
  <2>4. keeps(queueWriteProposal(n, prop), queueBroadcast(queueWriteProposal(n, prop), Prop(prop)))
    BY <2>3, QueueKeeps DEF keeps
  <2> QED
    BY <2>1, <2>2, <2>3, <2>4, KeepsTransitive
<1>3. keeps(m, [m EXCEPT !.holdingRequestsQueue = Append(@, [Remote |-> remote, msg |-> msg])])
  BY DEF keeps, Fields
<1> QED
  BY <1>1, <1>2, <1>3 DEF processRequest

\* A commit moves a proposal from the queue to the application.
LEMMA CommitKeeps ==
  ASSUME NEW m, DOMAIN m = Fields
  PROVE  keeps(m, processCommitProposal(m))
<1>1. keeps(m, [m EXCEPT !.fatal = TRUE]) /\ keeps(m, [m EXCEPT !.proposalsQueue = Tail(@)])
  BY DEF keeps, Fields
<1> DEFINE n == [m EXCEPT !.proposalsQueue = Tail(@)]
<1>2. processCommitProposal(m) \in
        {[m EXCEPT !.fatal = TRUE], queueCommitProposal(n, Head(m.proposalsQueue))}
  BY DEF processCommitProposal
<1>3. keeps(m, n)
  BY <1>1
<1> HIDE DEF n
<1>4. keeps(n, queueCommitProposal(n, Head(m.proposalsQueue)))
  BY <1>3, QueueKeeps DEF keeps
<1> QED
  BY <1>1, <1>2, <1>3, <1>4, KeepsTransitive

\* A StateChange is saved, and committed or queued.
LEMMA StateChangeKeeps ==
  ASSUME NEW m, DOMAIN m = Fields, NEW prop, NEW src
  PROVE  keeps(m, processStateChangeProposal(m, prop, src))
<1> DEFINE z == [m EXCEPT !.zxidCounter = prop.zxid]
           n == queueWriteProposal(z, prop)
           c == queueCommitProposal(n, prop)
           e == [c EXCEPT !.syncTrack.active = FALSE]
           q == [n EXCEPT !.proposalsQueue = Append(@, prop)]
<1>1. processStateChangeProposal(m, prop, src) \in
        {queueSend(e, ACK(m.syncTrack.prop), src), c, queueSend(q, ACK(prop), src)}
  BY DEF processStateChangeProposal
<1>2. keeps(m, z)
  BY DEF keeps, Fields
<1> HIDE DEF z
<1>3. keeps(m, n)
  BY <1>2, QueueKeeps, KeepsTransitive DEF keeps
<1> HIDE DEF n
<1>4. keeps(m, c)
  BY <1>3, QueueKeeps, KeepsTransitive DEF keeps
<1>5. keeps(m, q)
  BY <1>3 DEF keeps, Fields
<1> HIDE DEF c, q
<1>6. keeps(m, e)
  BY <1>4 DEF keeps, Fields
<1> HIDE DEF e
<1>7. keeps(m, queueSend(e, ACK(m.syncTrack.prop), src))
  BY <1>6, QueueKeeps, KeepsTransitive DEF keeps
<1>8. keeps(m, queueSend(q, ACK(prop), src))
  BY <1>5, QueueKeeps, KeepsTransitive DEF keeps
<1> QED
  BY <1>1, <1>4, <1>7, <1>8

\* A NewLeader is saved, what is held committed, a sync of this server begun: that
\* is syncTrack, which is not the coordinator's syncing.
LEMMA NewLeaderKeeps ==
  ASSUME NEW m, DOMAIN m = Fields, NEW prop, NEW src
  PROVE  keeps(m, processNewLeaderProposal(m, prop, src))
<1> DEFINE w == queueWriteProposal(m, prop)
           n == [w EXCEPT
                   !.committed = @ \o [i \in DOMAIN m.proposalsQueue |-> m.proposalsQueue[i].Content],
                   !.proposalsQueue = << >>]
           t == [n EXCEPT !.syncTrack = [active |-> TRUE, zxidCap |-> prop.Content, prop |-> prop]]
<1>1. processNewLeaderProposal(m, prop, src) \in
        {queueSend(n, ACK(prop), src), sendRequest(t, SyncReq(m.zxidCounter))}
  BY DEF processNewLeaderProposal
<1>2. keeps(m, w)
  BY QueueKeeps
<1> HIDE DEF w
<1>3. keeps(m, n)
  BY <1>2 DEF keeps, Fields
<1> HIDE DEF n
<1>4. keeps(m, t)
  BY <1>3 DEF keeps, Fields
<1> HIDE DEF t
<1>5. keeps(m, queueSend(n, ACK(prop), src))
  BY <1>3, QueueKeeps, KeepsTransitive DEF keeps
<1>6. keeps(m, sendRequest(t, SyncReq(m.zxidCounter)))
  BY <1>4, QueueKeeps, KeepsTransitive DEF keeps
<1> QED
  BY <1>1, <1>5, <1>6

\* An ACK is counted, which may be a commit.
LEMMA CountKeeps ==
  ASSUME NEW m, DOMAIN m = Fields, NEW zxid
  PROVE  keeps(m, countACK(m, zxid))
<1> DEFINE t == [m EXCEPT !.ackTracker[zxid] = 0]
           n == processCommitProposal(t)
<1>1. countACK(m, zxid) \in
        {m, [m EXCEPT !.ackTracker[zxid] = @ + 1], n, queueBroadcast(n, Prop(CommitProp))}
  BY DEF countACK
<1>2. keeps(m, m) /\ keeps(m, [m EXCEPT !.ackTracker[zxid] = @ + 1]) /\ keeps(m, t)
  BY DEF keeps, Fields
<1> HIDE DEF t
<1>3. keeps(m, n)
  BY <1>2, CommitKeeps, KeepsTransitive DEF keeps
<1> HIDE DEF n
<1>4. keeps(m, queueBroadcast(n, Prop(CommitProp)))
  BY <1>3, QueueKeeps, KeepsTransitive DEF keeps
<1> QED
  BY <1>1, <1>2, <1>3, <1>4

\* An ACK.  The last one of a sync takes syncing back with the same step that
\* lets writes in; it is the last one only after Continue has set the counter.
LEMMA AckGate ==
  ASSUME NEW m, GateInv(m), NEW prop
  PROVE  GateInv(processACK(m, prop))
<1>1. ASSUME NEW n, GateInv(n) PROVE GateInv(countACK(n, prop.zxid))
  BY <1>1, CountKeeps, KeepsGate DEF GateInv
<1>2. CASE processACK(m, prop) = countACK(m, prop.zxid)
  BY <1>1, <1>2
<1>3. CASE processACK(m, prop) = m
  BY <1>3
<1>4. ASSUME processACK(m, prop) = countACK(syncACK(m), prop.zxid), ~m.requestsProcessingEnabled
      PROVE  GateInv(processACK(m, prop))
  <2>1. CASE m.syncResponseTracker # 1
    <3>1. syncACK(m) = [m EXCEPT !.syncResponseTracker = @ - 1]
      BY <2>1 DEF syncACK
    <3>2. GateInv(syncACK(m))
      BY <3>1 DEF GateInv, Fields
    <3> QED
      BY <1>1, <1>4, <3>2
  <2>2. CASE m.syncResponseTracker = 1
    <3>1. syncACK(m) = [m EXCEPT !.syncResponseTracker = 0,
                                 !.requestsProcessingEnabled = TRUE,
                                 !.syncing = FALSE,
                                 !.messageQueue = @ \o m.holdingRequestsQueue,
                                 !.holdingRequestsQueue = << >>]
      BY <2>2 DEF syncACK
    <3>2. m.requestsEnabled
      BY <2>2 DEF GateInv
    <3>3. GateInv(syncACK(m))
      BY <3>1, <3>2 DEF GateInv, Fields
    <3> QED
      BY <1>1, <1>4, <3>3
  <2> QED
    BY <2>1, <2>2
<1> QED
  BY <1>2, <1>3, <1>4 DEF processACK

\* Any message.
LEMMA MessageGate ==
  ASSUME NEW m, GateInv(m), NEW netMsg
  PROVE  GateInv(ProcessZabMessage(m, netMsg))
<1>1. DOMAIN m = Fields
  BY DEF GateInv
<1>2. GateInv(processRequest(m, netMsg.msg, netMsg.Remote))
  BY <1>1, RequestKeeps, KeepsGate
<1>3. ASSUME NEW prop PROVE GateInv(processProposal(m, prop, netMsg.Remote))
  <2>1. /\ GateInv(processStateChangeProposal(m, prop, netMsg.Remote))
        /\ GateInv(processCommitProposal(m))
        /\ GateInv(processNewLeaderProposal(m, prop, netMsg.Remote))
    BY <1>1, StateChangeKeeps, CommitKeeps, NewLeaderKeeps, KeepsGate
  <2>2. GateInv([m EXCEPT !.fatal = TRUE])
    BY DEF GateInv, Fields
  <2> QED
    BY <2>1, <2>2 DEF processProposal
<1>4. GateInv(processACK(m, netMsg.msg.prop))
  BY AckGate
<1> QED
  BY <1>2, <1>3, <1>4 DEF ProcessZabMessage

-----------------------------------------------------------------------------
(* Continue *)

\* A server that resumes neither takes writes nor syncs; the coordinator may
\* start to sync, or has nothing to sync and takes writes.
LEMMA ContinueGate ==
  ASSUME NEW m, GateInv(m)
  PROVE  GateInv(Continue(m))
<1>1. CASE m.requestsEnabled
  BY <1>1 DEF Continue
<1>2. ASSUME ~m.requestsEnabled PROVE GateInv(Continue(m))
  <2> DEFINE n == [m EXCEPT !.requestsEnabled = TRUE]
  <2>1. /\ DOMAIN n = Fields /\ n.requestsEnabled
        /\ ~n.requestsProcessingEnabled /\ ~n.syncing
    BY <1>2 DEF GateInv, Fields
  <2>2. Continue(m) = IF m.coordinator # m.name
                      THEN [n EXCEPT !.requestsProcessingEnabled = TRUE, !.syncing = FALSE]
                      ELSE SendNewLeader(n)
    BY <1>2 DEF Continue
  <2> HIDE DEF n
  <2>3. GateInv([n EXCEPT !.requestsProcessingEnabled = TRUE, !.syncing = FALSE])
    BY <2>1 DEF GateInv, Fields
  <2>4. GateInv(SendNewLeader(n))
    <3> DEFINE z == n.zxidCounter
               e == getZXIDAsInt(epochOf(z) + 1, 0)
               prop == IF n.syncing THEN n.currentSync ELSE Proposal("NewLeader", e, z)
               o == [n EXCEPT !.zxidCounter = IF n.syncing THEN z ELSE e,
                              !.currentSync = prop,
                              !.syncing = TRUE,
                              !.syncResponseTracker = Cardinality(n.Addresses) - 1]
               w == queueWriteProposal(o, prop)
    <3>1. SendNewLeader(n) = IF z = 0
            THEN [n EXCEPT !.syncing = FALSE, !.requestsProcessingEnabled = TRUE]
            ELSE queueBroadcast(w, Prop(prop))
      BY DEF SendNewLeader
    <3>2. GateInv([n EXCEPT !.syncing = FALSE, !.requestsProcessingEnabled = TRUE])
      BY <2>1 DEF GateInv, Fields
    <3> HIDE DEF prop, e
    <3>3. GateInv(o)
      BY <2>1 DEF GateInv, Fields
    <3> HIDE DEF o
    <3>4. GateInv(w)
      BY <3>3, QueueKeeps, KeepsGate DEF GateInv
    <3> HIDE DEF w
    <3>5. GateInv(queueBroadcast(w, Prop(prop)))
      BY <3>4, QueueKeeps, KeepsGate DEF GateInv
    <3> QED
      BY <3>1, <3>2, <3>5
  <2> QED
    BY <2>2, <2>3, <2>4
<1> QED
  BY <1>1, <1>2

-----------------------------------------------------------------------------
(* The steps *)

\* A process that starts takes no requests.
LEMMA BootedGate ==
  ASSUME NEW s, NEW disk, NEW committed
  PROVE  GateInv(Booted(s, disk, committed))
BY DEF GateInv, Booted, Fields

\* What arrives goes into a queue.
LEMMA DeliverGate ==
  ASSUME SyncInv, NEW s, NEW toSend, NEW D
  PROVE  /\ DOMAIN deliver(s, toSend, D) = Server
         /\ \A d \in Server : GateInv(deliver(s, toSend, D)[d])
<1>1. ASSUME NEW d \in Server
      PROVE  GateInv([srv[d] EXCEPT !.messageQueue =
                        Append(@, [Remote |-> s, msg |-> toSend.msg])])
  BY DEF SyncInv, GateInv, Fields
<1> QED
  BY <1>1 DEF deliver, SyncInv

\* It is enough to look at the server a step is taken by.
LEMMA OneServer ==
  ASSUME SyncInv, NEW s \in Server, NEW n, GateInv(n), srv' = [srv EXCEPT ![s] = n]
  PROVE  SyncInv'
BY DEF SyncInv

\* It holds after the first election.
LEMMA InitSync == Init => SyncInv
<1> SUFFICES ASSUME Init PROVE SyncInv
  OBVIOUS
<1>1. ASSUME NEW s \in Server PROVE GateInv(srv[s])
  <2> DEFINE b == Booted(s, << >>, << >>)
  <2>1. srv[s] = [b EXCEPT !.coordinator = First,
                           !.requestsEnabled = PauseOnElection \/ s = First,
                           !.requestsProcessingEnabled = PauseOnElection \/ s = First]
    BY DEF Init
  <2>2. DOMAIN b = Fields /\ ~b.syncing /\ b.syncResponseTracker = 0
    BY DEF Booted, Fields
  <2> HIDE DEF b
  <2>3. /\ DOMAIN srv[s] = Fields /\ ~srv[s].syncing /\ srv[s].syncResponseTracker = 0
        /\ srv[s].requestsEnabled = (PauseOnElection \/ s = First)
        /\ srv[s].requestsProcessingEnabled = (PauseOnElection \/ s = First)
    BY <2>1, <2>2 DEF Fields
  <2> QED
    BY <2>3 DEF GateInv
<1>2. DOMAIN srv = Server
  BY DEF Init
<1> QED
  BY <1>1, <1>2 DEF SyncInv

\* Every step preserves it, under main.
LEMMA NextSync ==
  ASSUME PauseOnElection = FALSE, SyncInv, [Next]_vars
  PROVE  SyncInv'
<1>0. \A s \in Server : GateInv(srv[s]) /\ DOMAIN srv[s] = Fields
  BY DEF SyncInv, GateInv
<1>1. ASSUME NEW r \in Request, SendWriteRequest(r) PROVE SyncInv'
  <2> DEFINE s == Origin[r]
             n == sendRequest(srv[s], WriteReq(r))
  <2>1. s \in Server
    BY OriginAssumption
  <2>2. srv' = [srv EXCEPT ![s] = n]
    BY <1>1 DEF SendWriteRequest
  <2> HIDE DEF s
  <2>3. GateInv(n)
    BY <1>0, <2>1, QueueKeeps, KeepsGate
  <2> QED
    BY <2>1, <2>2, <2>3, OneServer
<1>2. ASSUME NEW s \in Server, messageProcessor(s) PROVE SyncInv'
  <2> DEFINE h == [srv[s] EXCEPT !.messageQueue = Tail(@)]
             n == ProcessZabMessage(h, Head(srv[s].messageQueue))
  <2>1. srv' = [srv EXCEPT ![s] = n]
    BY <1>2 DEF messageProcessor
  <2>2. GateInv(h)
    BY <1>0 DEF GateInv, Fields
  <2>3. GateInv(n)
    BY <2>2, MessageGate
  <2> QED
    BY <2>1, <2>3, OneServer
<1>3. ASSUME NEW s \in Server, messageSender(s) PROVE SyncInv'
  <2> DEFINE toSend == Head(srv[s].sendingQueue)
             f == deliver(s, toSend, targets(srv[s], toSend))
  <2>1. srv' = [f EXCEPT ![s].sendingQueue = Tail(@)]
    BY <1>3 DEF messageSender
  <2>2. DOMAIN f = Server /\ \A d \in Server : GateInv(f[d])
    BY DeliverGate
  <2> HIDE DEF f
  <2>3. GateInv([f[s] EXCEPT !.sendingQueue = Tail(@)])
    BY <2>2 DEF GateInv, Fields
  <2> QED
    BY SMTT(60), <2>1, <2>2, <2>3 DEF SyncInv
<1>4. ASSUME NEW s \in Server, proposalWriter(s) PROVE SyncInv'
  <2> DEFINE d == Append(srv[s].disk, Head(srv[s].newProposalChan))
             c == Tail(srv[s].newProposalChan)
  <2>1. srv' = [srv EXCEPT ![s] = [srv[s] EXCEPT !.disk = d, !.newProposalChan = c]]
    BY <1>0, <1>4 DEF proposalWriter, SyncInv, Fields
  <2> HIDE DEF d, c
  <2>2. GateInv([srv[s] EXCEPT !.disk = d, !.newProposalChan = c])
    BY <1>0 DEF GateInv, Fields
  <2> QED
    BY <2>1, <2>2, OneServer
<1>5. ASSUME NEW s \in Server, replySync(s) PROVE SyncInv'
  <2>1. PICK i \in 1..Len(srv[s].syncReplies) :
          LET job == srv[s].syncReplies[i]
              n   == [srv[s] EXCEPT !.syncReplies = RemoveAt(@, i)]
          IN srv' = [srv EXCEPT ![s] = queueAll(n, syncReply(n, job), job.remote)]
    BY <1>5 DEF replySync
  <2> DEFINE job == srv[s].syncReplies[i]
             n   == [srv[s] EXCEPT !.syncReplies = RemoveAt(@, i)]
             q   == queueAll(n, syncReply(n, job), job.remote)
  <2>2. srv' = [srv EXCEPT ![s] = q]
    BY <2>1
  <2>3. GateInv(n) /\ DOMAIN n = Fields
    BY <1>0 DEF GateInv, Fields
  <2> HIDE DEF n, job
  <2>4. GateInv(q)
    BY <2>3, QueueKeeps, KeepsGate
  <2> QED
    BY <2>2, <2>4, OneServer
<1>6. ASSUME NEW s \in Server, Crash(s) PROVE SyncInv'
  <2> DEFINE down == Booted(s, srv[s].disk, srv[s].committed)
             toSend == Head(srv[s].sendingQueue)
  <2>1. GateInv(down)
    BY BootedGate
  <2>2. CASE srv' = [srv EXCEPT ![s] = down]
    BY <2>1, <2>2, OneServer
  <2>3. ASSUME NEW D, srv' = [deliver(s, toSend, D) EXCEPT ![s] = down] PROVE SyncInv'
    <3> HIDE DEF down, toSend
    <3>1. /\ DOMAIN deliver(s, toSend, D) = Server
          /\ \A d \in Server : GateInv(deliver(s, toSend, D)[d])
      BY DeliverGate
    <3> QED
      BY <2>1, <2>3, <3>1 DEF SyncInv
  <2> QED
    BY <1>6, <2>2, <2>3 DEF Crash
<1>7. ASSUME NEW s \in Server, Announce(s) PROVE SyncInv'
  <2> DEFINE m == [srv[s] EXCEPT !.coordinator = election.coordinator]
  <2>1. srv' = [srv EXCEPT ![s] = m]
    BY <1>7 DEF Announce
  <2>2. GateInv(m)
    BY <1>0 DEF GateInv, Fields
  <2> QED
    BY <2>1, <2>2, OneServer
<1>8. ASSUME NEW s \in Server, NewRing(s) PROVE SyncInv'
  <2> DEFINE m == [srv[s] EXCEPT !.Addresses = election.announced]
  <2>1. srv' = [srv EXCEPT ![s] = m] \/ srv' = [srv EXCEPT ![s] = Continue(m)]
    BY <1>8 DEF NewRing
  <2>2. GateInv(m)
    BY <1>0 DEF GateInv, Fields
  <2>3. GateInv(Continue(m))
    BY <2>2, ContinueGate
  <2> QED
    BY <2>1, <2>2, <2>3, OneServer
<1>9. ASSUME srv' = srv PROVE SyncInv'
  BY <1>9 DEF SyncInv
<1>10. ASSUME NEW s \in Server, Restart(s) \/ StartElection(s) \/ Discover(s)
       PROVE  srv' = srv
  BY <1>10 DEF Restart, StartElection, Discover
<1>11. Elect \/ UNCHANGED vars => srv' = srv
  BY DEF Elect, vars
<1>12. \A s \in Server : ~PauseProcessing(s)
  BY PauseOnElection = FALSE DEF PauseProcessing
<1> QED
  BY <1>1, <1>2, <1>3, <1>4, <1>5, <1>6, <1>7, <1>8, <1>9, <1>10, <1>11, <1>12 DEF Next

\* Under main no server ever takes a write while it syncs
\* (ProcessZabMessage, SendNewLeader and processACK).
THEOREM WritesWaitForSync ==
  ASSUME ~PauseOnElection
  PROVE  Spec => []SyncExcludesWrites
<1>1. PauseOnElection = FALSE
  BY BoundAssumption
<1>2. Init => SyncInv
  BY InitSync
<1>3. SyncInv /\ [Next]_vars => SyncInv'
  BY <1>1, NextSync
<1>4. SyncInv => SyncExcludesWrites
  BY DEF SyncInv, GateInv, SyncExcludesWrites
<1> QED
  BY <1>2, <1>3, <1>4, PTL DEF Spec
=============================================================================

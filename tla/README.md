# DSC-Zookeeper in TLA+

DSC-Zookeeper is a small ZooKeeper in Go: a group of servers that keep a tree
of znodes, order the writes to it with a Zab-like broadcast, elect the
coordinator of that broadcast on a ring, and let clients publish and subscribe
through it. This directory holds TLA+ modules of its core, TLC
configurations for small instances, and TLAPS proofs
about eight of them.

## 1. The system

| Part | Code | State | Operations |
|---|---|---|---|
| Broadcast | `internal/Proposals` | `proposalsQueue`, `ackCounter`, `zxidCounter`, `messageQueue`, `sendingQueue`, `newProposalChan`, `toCommitChan`, `failedProposals` | `SendWriteRequest`, `processRequest`, `processStateChangeProposal`, `processACK`, `processCommitProposal`, `proposalWriter` |
| Change of coordinator | `internal/Proposals` | `requestsProcessingEnabled`, `holdingRequestsQueue`, `currentSync`, epoch | `Pause`, `Continue`, `SendNewLeader`, `processNewLeaderProposal`, the Sync request and its reply |
| Dispatch | `Proposals/subroutines.go`, `main/server.go` | the two goroutines that run handlers | `messageProcessor`, `mainListener` |
| Proposal log | `Proposals/proposalSaving.go` | a file per epoch | `SaveProposal`, `ReadProposals`, `RestoreZXIDFromDisk` |
| Election | `internal/election`, monitors in `main/server.go` and `zabFailureTest` | `Addresses`, `Coordinator`, `ringDiscoverInitiator` | `HandleMessage` and its five kinds of message, `InitiateElectionDiscovery`, `InitiateRingDiscovery`, `monitorConnectionToServer` |
| Znode store | `internal/znode` | the cache of the coordinator, the files | `Check`, `Write`, `Init_znode_cache` |
| Watches | `internal/znode/watch.go` | `watchcache`, the watchlists in session znodes | `Encode_watch`, `Check_watch`, `Update_watch_cache` |
| Sessions and requests | `main/server.go` | `request_id_to_pending_request`, `local_sessions`, `session_id_to_timestamp` | `mainListener`, `committedListener`, `deniedListener`, `syncListener`, `monitorConnectionToClient`, `sendSessionInfo`, `removeExpiredSessions` |
| Publish/subscribe | `main/server.go`, `main/client.go` | the client's `topicMsgMap`, watches | `SUBSCRIBE`, `GET_SUBSCRIPTION`, `EXISTS`, the client's `listener` |
| Connection manager | `internal/ConnectionManager` | connection maps | `SendMessage`, `CustomBroadcast`, receivers, `failedSends` |
| Client | `main/client.go` | `connectedServer`, `sessionID`, `topicMsgMap` | `findLiveServer`, `listener`, `monitorClientConnectionToServer` |
| Configuration, logging | `internal/ConfigReader`, `internal/logger` | files | - |

How they interact. A client's write reaches some server, which hands it to
`SendWriteRequest`. The coordinator runs `Check` (znode cache) on it, gives it
a zxid, queues it, hands it to the disk writer and broadcasts a StateChange. A
follower queues, logs and ACKs. At a majority of ACKs the coordinator takes
the head of its queue, puts it on the committed channel and broadcasts a Commit
**that names no proposal**: a follower commits the head of its own queue.
`committedListener` gives what is committed to `Write`, lets `Check_watch` look for watches
it triggers, and answers the client whose request is in the map of pending requests. Watches are kept in a
cache of the server the client is connected to and in its session znode, from which
another server takes them over. A session ends by request, by the failure of a
client's connection, or when the coordinator gets no heartbeat for it. The connection manager
reports a broken connection on `failedSends`; the monitors then start an
election, whose end calls `Continue`, which at the new coordinator opens a new epoch with
a NewLeader proposal. A server whose log is behind asks for the missing proposals,
which are read from the files of the coordinator.

What is hard. Handlers, disk writer, sender and sync reply are goroutines with
channels between them; `main` runs two handlers side by side. Commit and ACK
handling rest on matching queue positions at different servers. An election,
a crash, a lost connection or a restart can fall between any two of these
steps. The coordinator checks a write against a cache that runs ahead of the
storage. What makes the parts correct:

- broadcast: every server commits the same writes in the same order, each of
  them held by a majority; a Commit always finds its proposal; a request is answered;
- change of coordinator: what was delivered stays a common prefix across epochs and on the
  disks of a majority; no writes run during a sync; a sync ends; an epoch has one
  coordinator;
- election: it ends, with one coordinator, which runs and has the longest log
  of those that run; rings keep every running server;
- log: what was saved is read back; the restored zxid is not behind the log; within a file zxids grow;
- znodes: the cache predicts the storage; no accepted write overwrites or loses another;
  ephemeral znodes end with their session;
- sessions and requests: a request is answered, and told OK once; a session
  with a live client is kept, one without a client ends;
- publish/subscribe: a subscriber is shown every message of its topic, in order, whatever watches race.

The hazards behind these properties, each with its line, are listed in `PROJECT.json`.

## 2. Modules

**AtomicBroadcast** is the promise of an epoch: requests are submitted, get a
place in one order, and every server delivers a prefix of that order.

**ZabBroadcast** is one epoch under one coordinator. Variables carry the names
of the package (`proposalsQueue`, `ackTracker`, `zxidCounter`,
`newProposalChan`, `log`). The connections from the coordinator to the
followers are one sequence `bcast` with a cursor `rcvd[f]` each (every
broadcast goes to all in the same order); `acks[f]` and `reqs[s]` are the
connections back. Actions are the handlers: `SendWriteRequest`,
`processWrite`/`denyWrite` (the two results of `processRequest`),
`processErr`, `processStateChangeProposal`, `processCommit`, `processACK` with
`incrementOrRemove`, `proposalWriter`; and the environment: `Crash` of a follower, `Drop`
and `DropReply` for messages lost with a broken connection. `issued`, `about` and `acked` are
auxiliary: they record and guard nothing.

**ZabSync** has several epochs. `srv[s]` is the record of the package variables
of a server, and a handler is an operator from record to record;
`messageProcessor`, `messageSender`, `proposalWriter` and `replySync` are the
goroutines. The election is represented by its outcome: a server starts it (`StartElection`), the other running ones report
their zxid one by one (`Discover`), all learn the winner, the initiator last (`Announce`), and then
the ring (`NewRing`, which calls `Continue`). `PauseProcessing` is the `Pause` of the driver `zabFailureTest`: before a server
starts an election, but after it has voted in that of another. `messageProcessor` may run in between; `outdated` (auxiliary) records the
servers whose zxid then changed. What was in memory is lost in a
`Crash`; `Restart` restores the zxid from disk. Three switches choose what
surrounds the package: `PauseOnElection` (the driver `zabFailureTest` calls `Pause`
and `Continue`, `main` never pauses), `LateMessages` (may a message sent before
an election arrive after the receiver has voted), `SlowDisk` (the servers whose disk
writer may lag behind; elsewhere a proposal is saved at once).

**ZabDispatch** splits the handlers of the coordinator at each queue, counter
and channel operation and runs them in two goroutines, as `main` does
(`Direct = TRUE`), or all of them behind `messageQueue`, as the package documents
(`Direct = FALSE`).

**Election** has the handlers of `internal/election`, with the goroutine
`StartRingMessage` starts as an action of its own (`Dispatch`: it tries the next servers of
the ring until one can be reached), one FIFO `net[s][t]` per connection, and the monitors of both
drivers (`Main`). With `Main`, two readers compete for `failedSends`, and a
heartbeat (`sendSessionInfo`) can start an election.

**Znode** has `Check` against the cache, `Write` to the storage, the
requests accepted but not yet written (`pending`), and `Init_znode_cache`, which `main` calls
at ring messages (`ReinitIdle = FALSE` in a workload lets it happen while requests are under way). The end of a session is, in the check and in
the write, a loop over its ephemeral znodes (`eachNode`) that stops at the first error; a check that follows a pointer to a znode that is
not there panics. Paths are
sequences of names with a number, so that sequence numbers are compared as the
code compares them.

**ProposalLog** is one server's log, byte by byte: a byte is known by the record it
was written for and its place in it, four bytes that are no length spell one of the numbers `Garbage`.
`OpenFile`, `WriteByte` and `WriteFails` are `proposalWriter` with `SaveProposal`, `ReadProposals` and `ReadOne` the
backward reading next to it, `Restart` is a crash and `RestoreZXIDFromDisk`; the counters wrap at `EpochLimit` and `CountLimit`.
`Pause`, `Continue` with `SendNewLeader`, and `processACK` set the flags of an election and its sync: an election during a sync
saves the same NewLeader (`currentSync`) once more, and a last ACK after `Pause` opens the server for requests before `Continue`.

**Sessions** has the clients and servers around the map of pending requests. `generate` and
`register` are the two halves of `generateAndSendRequest`, which sends before it enters the request in
the map; `committed` and `committedReply` those of `committedListener`, which `Write` can end. Elections
are one step, as seen from `main` (new coordinator, `Init_znode_cache`, the map of
session times set to nil); `awaiting` are the followers that the NewLeader has not reached. Time is
counted in ticks of the 5 s tickers; every server ticks once per period.

**PubSub** is one topic: `mainListener`, `Encode_watch` and `addWatch` split SUBSCRIBE and EXISTS
where a commit can fall in between, `Write` and `Check_watch` are the two parts of `committedListener`.
The coordinator's cache of sessions decides which watch requests are denied. `received` is what the user has been shown.

Election, Znode, Sessions and PubSub have a constant set of scenarios (or workloads), one of
which is chosen at the start and never changes, so that one run covers several environments.

How the modules fit together: ZabBroadcast guarantees the one sequence of commits that
Znode, Sessions and PubSub start from (`pending`, `log`); ZabSync guarantees the prefixes across
elections that Sessions' `Elect` assumes; Election guarantees the single winner that ZabSync's `Elect` takes;
ProposalLog justifies ZabSync's `ReadProposals` and `RestoreZXIDFromDisk` as operators on
sequences of proposals, as long as no record is torn.

`MC*` modules give the constants their values. The proofs are in **ZabBroadcastProofs** (types, an epoch that loses nothing,
and one that loses messages), **ZabSyncProofs**, **ZabDispatchProofs**, **ProposalLogProofs**,
**ElectionProofs**, **ZnodeProofs**, **SessionsProofs** and **PubSubProofs**. Those about queues start with the same few lemmas on
sequences and sets of numbers.

## 3. Runs

| Run | Checks | Shows |
|---|---|---|
| `broadcast_reliable` | `CommitAgreement`, `CommitHasQuorum`, `NoFatal`, `LogHasNoGaps`, `IInv`, `ImplementsAtomicBroadcast`, `ProposedIsCommitted`, `FollowerRequestsAnswered` | an epoch in which no message is lost and a follower may crash is correct, makes progress and implements AtomicBroadcast |
| `broadcast_lossy` | `CoordinatorInOrder`, `FollowerInOrder`, types | what is left when two messages are lost |
| `sync_pause` | `PrefixConsistentIfVotesHold`, `NoFatal`, `CommittedIsDurable`, `SyncCompletes` | the pausing driver, messages that do not outlive the election, a disk in step with memory. Order and the end of a sync are lost when a server accepts a proposal between its vote and its pause (with `PrefixConsistent` the run finds it), and are promised otherwise |
| `sync_restart` | `NoDuplicates`, `OpenImpliesSynced`, `SyncExcludesWrites` | `main`, crash and restart, late messages, a disk of server 2, the usual successor, that lags behind memory |
| `sync_stale_vote` ✗ | `PrefixConsistent` | without `Pause` a server accepts a proposal after its vote. The winner, with zxid 0, starts no sync; the Commit of its first write makes that server commit the old proposal. The README of the package asks for `Pause`, `main` never calls it during an election |
| `dispatch_main` | `NoFatal`, `EveryWriteCommitted` | two goroutines: no Fatal, nothing is lost |
| `election_main` | `CoordinatorIsBest`, `RingComplete`, `Converges`, types | `main` with two readers of `failedSends`, a heartbeat, a crash at any moment and a lost message; `zabFailureTest` with a start and a crash, one after the other |
| `znode_store` | `CacheIsAhead`, `EphemeralsEndWithSession`, `NoOverwrite`, `NoLostUpdate` | numbered messages, creates, versioned updates and deletes of leaves, four requests under way; a session that ends more than once, with an ephemeral znode that others delete, three requests under way, so that `Write` has errors and `delete_session` stops halfway; sessions with several ephemeral znodes, one request at a time |
| `proposal_log` | `ReadsWhatWasSaved`, `NeverBehindLog`, `LogInZxidOrder` | one write cut short, one restart, elections during a sync, a reader at any moment, counters at their limit. With `CountsGrow` the run finds a NewLeader saved twice (proposals.go:141) |
| `sessions_main` | `OneOK`, `HeartbeatKeepsSession`, `PendingIsAnswered` | a server crash with resent requests on three servers; two elections and a client's death on two, after which a coordinator expires sessions, with users who start sessions while they have one and end none |
| `sessions_expiry` ✗ | `OrphansExpire` | a client with a session and the server it is connected to die: the session stays for ever. "Remove expired sessions when they timeout" (server.go:759), but the map of session times is only made at the signal `SyncFinish`, which a coordinator never gets |
| `pubsub_main` | `NoGap`, `WatchDelivers`, `Delivered`, `WatchIsPersisted` | three messages to a subscriber; two that race with its subscription and its watches; its server crashes |

✗: the run finds a counterexample; `findings` in `PROJECT.json` quotes the sentence it contradicts.

The other configurations mark where the properties above stop holding, or vary their bounds.
They are run the same way (`tlc -config X.cfg MCModule`).

| Configuration | Property | Result |
|---|---|---|
| `ZabBroadcast_reconnect` | `CommitAgreement` | fails: one lost StateChange on a connection that is opened again, and the Commit behind it commits another proposal. `broadcastCommit` (proposals.go:351) assumes "TCP helps us with ordering" |
| `ZabBroadcast_denied` | `EveryRequestAnswered` | fails: a denied write of the coordinator's own client is reported on no channel (proposals.go:380) |
| `ZabSync_pause_fatal` | `NoFatal` | fails with late messages: `Pause` drops a StateChange and its Commit arrives later (proposals.go:71, 271) |
| `ZabSync_disk_race` | `SyncCompletes` | fails: the log is read before it is written, the SyncErr is only logged and `syncTimeout` never started (proposals.go:444) |
| `ZabSync_paused_ack` | `SyncExcludesWrites` | fails: a late ACK of NewLeader reopens a paused coordinator (proposals.go:318) |
| `ZabSync_epoch_reuse` | `EpochHasOneCoordinator` | fails: an epoch is the local one plus one, nobody promises it (proposals.go:131) |
| `ZabSync_rejoin` | `CommittedIsDurable` | fails: a server that rejoins a running coordinator is not synced, its ACK commits an older proposal (proposals.go:83) |
| `ZabDispatch_race` | `CommitAgreement` | fails: a proposal is queued first and broadcast second; the README of the package asks for `EnqueueZabMessage` (README.md:63), `main` calls the handler itself (server.go:384) |
| `ZabDispatch_queue` | `CommitAgreement`, `LogInZxidOrder` | hold when every message goes through `messageQueue` |
| `Election_ring` | `RingIsWhole` | fails under `main`, which passes on a NewRing without payload when a follower fails (server.go:683) |
| `Znode_reinit` | `NoOverwrite` | fails: the cache is reloaded under accepted creates (server.go:129) |
| `Znode_nested` | `NoPanic` | fails: a sequential create under a parent that does not exist, one request of one client, panics the coordinator (check_utils.go:108); so does the deletion of a parent, then of its child, which is still in the cache (check_utils.go:235) |
| `Znode_owned` | `CommitsGoOn` | fails: an accepted request that `Write` refuses, which ends `committedListener`: a session whose znode was deleted (write_utils.go:104), a session deleted twice (check_utils.go:252), a client's SYNC (write_utils.go:130) |
| `ProposalLog_torn` | `OnlySavedIsRead` | fails: a read across a torn record takes its bytes for a proposal (proposalSaving.go:26) |
| `ProposalLog_reuse` | `ZxidsAreUnique` | fails: a coordinator that crashes before its NewLeader is on disk opens the same epoch again (proposals.go:131) |
| `ProposalLog_first` | `NeverBehindFirstEpoch` | fails: epoch 0 is not restored, a server with proposals reports zxid 0 (proposalSaving.go:116) |
| `Sessions_resend` | `RejectedHasNoEffect` | fails: a request resent after a sync is denied because it was committed before, and its client is told REJECT (server.go:621) |
| `PubSub_wakeup` | `SubscriberGetsAll` | fails: a commit between EXISTS's look and its watch triggers nothing (server.go:332). With `Scenarios <- MCEarly` the run shows another way: WATCH_TRIGGER overtakes SUBSCRIBE_OK, and the client ignores it (client.go:332) |
| `PubSub_reconnect` | `MissedIsTold` | fails: `Update_watch_cache` tells of triggered watches only if another one is left (watch.go:80), against its comment (watch.go:29) |
| `PubSub_partial` | `CacheIsSent` | fails with two subscribers: a `watch_trigger` denied for one has already changed the cache for the other (check_utils.go:84) |
| `Znode_setdata` | `PredictsChildren` | fails: `setdata` erases the list of children in storage (write_utils.go:80) |

**Deadlock.** All configurations allow it: servers have nothing left to do once
the bounded requests, crashes and elections are used up.

**Bounds.** Three servers are the smallest group with a majority that excludes
one; a write of the coordinator and one of a follower make
queues of length two, so that a Commit can meet a wrong head, and let both goroutines
of `main` hold a proposal. For the safety of an epoch the proofs remove this bound. What three servers do not show of a change of
coordinator was looked for in random behaviours of four and five (`tlc -simulate`, 50 to 220 million states each): the safety properties
of `sync_restart` held, those of `sync_pause` as long as `outdated` was empty. Otherwise `NoFatal` and `CommittedIsDurable` fail with four too: the winner
may take a write between its vote and its pause, from a server that has learnt its name already. With six `CommittedIsDurable` fails: the coordinator crashes when its StateChange has
reached one server, this one wins the election, and the sync commits the proposal on the next (proposals.go:243)
when only three logs hold it. One crash keeps a majority; a restart and
two elections let a server come back with an old log, and let a coordinator
lose and regain its role. Two lost messages cover a lost proposal with a lost ACK or Commit.
The ring has four servers, so that a message can pass a gap with
others on both sides, with a crash, a start, or both. `MaxPending = 4`
lets a sequence number be predicted several writes ahead of the storage;
`MaxChecks` allows every request of the set at least once. Records of four
and five bytes (a header of one, a content of one or two, a length of two) have the parts of the real ones;
four of them fill an epoch of three numbers. Three requests start a session, end it, and
expire or restart it; three messages let a watch be set, triggered and set again. One client shows the races between its
own connection and the commits; where a second one matters (`watch_trigger` for several sessions) `PubSub_partial` has it.

**Symmetry** is not used: the coordinator, the origins of the requests and the
order of server names (which breaks ties) tell the servers apart.

**Fairness.** Each goroutine is an endless loop that polls or blocks on its own
input, so it is weakly fair. In ZabDispatch, `processACK` and `incCount` are strongly
fair: a goroutine that waits at a channel shared with another gets
its turn, and messages are taken in the order of arrival, so that no ACK or request is passed over for ever.
Failure monitors react to every broken connection. In Sessions tickers keep
ticking and a dead coordinator is replaced, while users need not do anything: `startsession`, `endsession`,
`subscribe` and `publish` are not fair. Crashes,
restarts, losses and new requests have no fairness.

## 4. Proofs

Eight modules of the model have theorems, each for every value of the constants: any finite set of servers (followers, clients), any
requests and any bounds. What is assumed is in the `ASSUME`s of the modules: sets are finite, the coordinator and the
origins of requests are servers, a group has a follower, sizes and limits of numbers are positive, bounds are naturals.
TLC evaluates them in every run. The theorems about Znode are, besides, about a class of workloads, two of those about Election about executions
in which no server is started.

### Broadcast

- `TypeCorrect`: `Spec => []TypeOK` (ZabBroadcastProofs), with losses too;
- `Invariance`: with no lost message (`MaxDrops = 0`), `Spec => []IInv`;
- `Agreement`, `Quorum`, `NeverFatal`, `NoGaps`: `[]CommitAgreement`, `[]CommitHasQuorum`,
  `[]NoFatal`, `[]LogHasNoGaps`, under the same assumption. The configuration
  `ZabBroadcast_reconnect` shows that agreement fails without it;
- `Refinement`: `Spec => ImplementsAtomicBroadcast`, under the same assumption;
- `LeaderOrder`, `FollowerOrder`, `LeaderNeverFatal`, with any losses: `[]CoordinatorInOrder`,
  `[]FollowerInOrder`, `[]CoordinatorNeverFatal`. No run checks the last one: `ZabBroadcast_lossy` has room
  for two losses, the theorem for any number.

*The argument.* `CommitAgreement` is not inductive: a Commit carries no zxid, so
nothing in it says that the head of a follower's queue is the proposal that got
the quorum. `IInv` supplies this:

- `QueueInv`: what a server has committed, then queued, is an initial part of the issued
  proposals, and all of it has been passed to its log;
- `BroadcastInv`: the broadcast holds every proposal once, and one Commit per commit of the
  coordinator, both in order, each Commit after its proposal;
- `CursorInv`: the part of the broadcast before a follower's cursor is exactly
  what the follower has queued and committed. With the two above,
  the next Commit is about the head of its queue;
- `AckInv`, `TrackerInv`: ACKs are handled in order, and the tracker counts the followers
  that acknowledged; after the commit it counts those beyond
  the quorum. So the coordinator commits exactly once, at the quorum, and its commits, too, are in order;
- `CoordinatorInv`, `FollowInv`, `RequestInv`: counters match the issued proposals, no follower is
  ahead of the coordinator, no request is ordered twice.

*Refinement.* `order` is `issued` and `delivered[s]` the contents of `committed[s]`. `SendWriteRequest` is `Submit`; `processWrite` is `Order`:
by `RequestInv` the request is new. `processCommit`, and `processACK` when it commits, are `Deliver`: by
`QueueInv` the head of the queue is the next request of the order, and by `NoFatal` there is one. Any
other step stutters.

*With losses.* `IInv` fails, but parts of it that no loss disturbs are inductive:

- `LeaderInv`: the coordinator's own commits and queue together are what it issued;
- `OrderInv`: the broadcast carries increasing counts, and what a follower has committed and queued is
  increasing and below all it may still receive;
- `OnceInv`: a follower acknowledges a proposal at most once. Hence the tracker's count of a proposal and the
  followers that may still acknowledge it never exceed `n_systems`, and a commit uses up `maxCount`
  and one of them: what is left is too little for a second one. With `LeaderInv`, a proposal without its commit is a proposal in
  the coordinator's queue. The invariant says only that there is a set `E` of proposals that had their commit, one for each commit: after a loss
  the commit that a proposal's ACKs trigger may be that of another proposal.

`IInv` is an invariant of the run `broadcast_reliable`. There is one lemma per action, and the
`Frame...` lemmas say which variables each conjunct depends on.

### Change of coordinator

- `WritesWaitForSync`: `[]SyncExcludesWrites` (ZabSyncProofs) for the driver `main`, with any crashes, restarts, elections, late
  messages and slow disks. With `Pause` it is false: `ZabSync_paused_ack`.

Two variables that different goroutines set must agree: `syncing`, set by the election's `Continue`, and `requestsProcessingEnabled`, set by the last ACK
of a sync. `GateInv` says why a late ACK does not open a server that has yet to resume: until its first `Continue` it neither
syncs nor takes writes, and its counter of responses is not positive, so that no ACK brings it from one to zero. From then on
`Continue` does nothing under `main`, and only the step that ends the sync lets writes in.

### Dispatch

- `DispatchNeverFatal`: `[]NoFatal`, `DispatchTypeOK`: `[]TypeOK` (ZabDispatchProofs), for one goroutine and for two.

The difficulty is that with two goroutines a proposal is counted, queued, written and broadcast in four steps, that
another proposal can pass in between; the order of the queue is then not that of the counts
(`ZabDispatch_race`), and no argument about which proposal a Commit is for holds. What holds is a balance:

- `CarryInv`, `RunnerInv`: a proposal is with one goroutine until it is broadcast, once; only one goroutine commits;
- `AckInv`, `Tally`: a follower acknowledges a proposal once, after it got it; the ACKs counted and those that
  may come are at most one per server, so that they suffice for one commit only;
- `CommitInv`: the proposals whose ACKs have made a commit due, entries gone from the queue, and Commits broadcast
  are equally many, but for the one that is under way. As a proposal can be acknowledged only after its broadcast, and is queued before that, the queue
  is not empty when a commit is due;
- `PrefixInv`, `FollowInv`: in every initial part of the broadcast there are at least as many proposals as Commits, so a follower's
  queue has an entry at each Commit.

### Election

- `TypeCorrect`: `[]TypeOK` (ElectionProofs), with starts, crashes and lost messages;
- `BestServerWins`, `RingsStayComplete`: `Spec /\ NoEntry => []CoordinatorIsBest` and `Spec /\ NoEntry => []RingComplete`.

`NoEntry` says that no server is started (`MaxBoots = 0`), as in the scenario `LossyMain` of the run. Otherwise the theorems
are for any ring of servers and any zxids, any crashes at any moment, any messages lost, elections that overlap, and both drivers. A server that enters is in
no other's ring until its round is over, so that the invariant fails meanwhile; starts stay with the run (`Rejoin`).

`CoordinatorIsBest` is about the end of an election; what makes it true is how its rounds go. Places in the
ring of the configuration are measured by `dist(a, b)`, the way from `a` forward to `b`. `RoundsInv` says:

- `RingOK`: every ring a server has, or is sent, goes round in the order of the configuration (`InOrder`) and has every server that runs; under
  `main` it may also be empty, which is what `RingComplete` excludes for the other driver. `ReorderRing` makes of it the way from
  a server onward (`Onward`, `RingOnward`);
- `Visits`, `Hop`: the servers on a message are visited in this order, with no running one left out between the first and the last, and the
  message is on a connection from the last to the first running server behind it. So forwarding leaves no gap (`VisitsMore`), and a
  message that is back at a server on its list has come past every server that runs (`CompleteFacts`). A crash only makes the
  set of servers that run smaller, which all of this survives (`FewerServers`);
- `ContentOK`: hence an Announcement names the best of a set with all running servers in it, and if that one still runs it is
  the best of those left (`BestRemains`); a NewRing has all of them in order. A lost message ends a round and changes nothing else.

`getCorrespondingValue` is shown to find the winner of the visited servers (`WinnerFacts`), and that
there always is one, for any set of servers (`BestExists`), by the least place at which there would be none.

### Proposal log

- `LogInvariant`: `[]LogInv` (ProposalLogProofs);
- `LogOrder`, `NeverBehind`, `ReadBack`: `[]LogInZxidOrder`, `[]NeverBehindLog`, `[]ReadsWhatWasSaved`, with any number of
  torn writes and restarts, and whatever numbers the bytes of a torn record spell (`Garbage`).

`LogInv` has these parts:

- `FileInv`, `WritingInv`, `ChanInv`: a file is made of initial parts of records, in the order the proposals were made; the record under
  way belongs to its end; what waits was made later;
- `EpochInv`: no file and no proposal is beyond the epoch of the counter, which survives a torn record because the epoch is the file's name.
  So the NewLeader after a restart opens a file of its own;
- `SyncInv`: a sync is that of the epoch of the counter, so that its NewLeader, when it is saved again, goes to the file of this epoch;
- `CardInv`, `OrderInv`: an epoch that is served has at least as many proposals as its counter says, so that the counter
  cannot have wrapped before the epoch is `exhausted`; hence later proposals of an epoch have higher counts, or are its NewLeader again;
- `LastInv`: after a restart the counter is that of the last whole record (`RestoreZXIDFromDisk` reads it back by the facts used for `ReaderInv`);
- `ReaderInv` with `Reading`: the cursor of a read stands where a record begins, what it has read are the records
  between the cursor and the end at the call, and as many as it still needs lie before it. Appending does not disturb this: the
  end of the read is fixed at the call.

The conditions in these properties (`epochsLeft`, `exhausted`, the first epoch) are where the code really fails:
`ProposalLog_reuse` and `ProposalLog_first` show two of them.

### Znodes

- `CachePredicts`: `[]CacheIsAhead`; `ListenerReadsOn`: `[]CommitsGoOn`; `CreatesAreNew`: `NoOverwrite`; `UpdatesAreInOrder`:
  `NoLostUpdate` (ZnodeProofs), under `LeavesOnly(workload)`;
- `EphemeralsHaveSessions`: `[]EphemeralsEndWithSession`, under `SessionsApart(workload)`.

Both are for any topics, requests and number of requests under way. `LeavesOnly`
lets a workload have creates of every kind (ephemeral ones, and sequential ones in directories that are there from the start), and
updates and deletes of znodes that no create needs as a parent or a session; an update names the version it was made from,
a reload of the cache finds nothing under way, and sessions do not end. In the run `znode_store` the workload `Store` is of this class; the others, in
which sessions end, are not. The conditions keep away from what makes the code fail: a parent deleted before its child, or not there (`Znode_nested`, so that
no theorem is about `NoPanic`), a session that ends after its znodes were deleted (`Znode_owned`), an update of a znode with children (`Znode_setdata`), a reload
under way (`Znode_reinit`). An update without a version would leave the storage with the version -1.

`SessionsApart` lets sessions start and end in any order and any number of times, with any number of their requests under way, and lets the other requests be
of any kind: deletes of ephemeral znodes and of parents, updates, sequential creates, syncs. Such a request may not be about a path
above that of a session, so that nobody but `delete_session` takes a session away. All workloads of `znode_store` are of this class, and the
code may panic or stop at an error of `Write` in it: the theorem is about what it has written by then.

*What was accepted fits.* Between the check of a request and its write there are the writes of all requests accepted before it. `Inv` says that the
storage after each of these (`Stages`) is a `Tree`, that the next request is `Sound` for it, and that the cache is exactly the last of them:

- `Tree`: the start, and what creates need, is there; the lists of children lead to every znode, so that `populate` leaves none out and the
  parent of each znode exists; the session of an ephemeral znode exists; a znode that no create needs has no children;
- `Sound`: the znode of a create is new and its parent and session exist; an update carries the version after the stored one; the znode of a
  delete is there and is a leaf;
- `CreateChecked`, `CheckSound`: `Check` accepts only what is sound for the cache, and turns the cache into what `Write` will make of it. The two
  change records in different orders (`CheckGrows`, `WriteGrows`), and the storage replaces the record that the cache updates (`CheckChanges`);
- `WriteSound`: `Write` then has no error, and leaves a tree. So each step moves the stages along: `processRequest` adds one, `committedListener`
  takes the first away.

`Predicted` is defined by recursion over the requests under way; `AheadIsStages` shows that it is the last stage, by
the least place where the two would differ.

*Sessions that end.* None of this holds when a `delete_session` is among the requests, for the cache is then no stage of the storage. What holds is weaker (`SInv`):

- `Kept`: in the storage the session of an ephemeral znode exists and has it in its list (`Owned`), the lists of children lead to every session
  (`Listed`), so that `populate` finds it, and no list of ephemeral znodes leads to a session (`NoneOver`);
- `EachFacts`: `eachNode` takes away ephemeral znodes and entries of lists of children, and no session, wherever it stops (`Less`). So a `delete_session` that
  fails halfway has left its session, and one that does not fail has taken every ephemeral znode of the session, as each was in the list. The
  loop is a recursive function; that what it yields after each round is `Less` is shown by the least round at which it would not be;
- `Line`, `Foreseen`, `NotThere`: a create of a session writes a record without a list, which would break `Owned` if the session were there. The cache
  forgets a session when its end is accepted, not when it is written. So a session that is not in the cache is either not in the storage or
  will be taken away by a request under way, with no start of it behind this one; only then `Check` accepts its start (`LineLonger`, `LineShorter`). An error of `Write` would break
  this order, but nothing is written after it.

### Sessions

- `AnsweredOnce`: `[]OneOK` (SessionsProofs). A request is entered in the map of pending requests once, and taken out by
  whoever answers it with OK (`AnswerInv`); a resent request goes round again under its own number.
- `HeartbeatSuffices`: `Spec => HeartbeatKeepsSession`, an action property. A session expires when its count of ticks reaches the limit,
  and every server that runs sets the counts of its clients' sessions to zero once per period. `HeartbeatInv` bounds what a count can be
  in between (`missed`): one tick of the coordinator in the period before, if the heartbeat came first in it, and one in this period. A crash can
  end a period early, for it may take away the only server that had not ticked. The property is about expiry: an election rebuilds the
  map from the sessions of the storage, which takes no session away from anybody.

### Publish/subscribe

- `NoGapHolds`: `Spec => NoGap` (PubSubProofs), an action property;
- `SubscribedOnce`: `[](\A c \in Client : OnceInv(c))`, `PubSubTypeOK`: `[]TypeOK`.

A client takes the number of the next message from SUBSCRIBE_OK and GET_SUBSCRIPTION_OK without comparing it with the
one it has. That it never jumps rests on where its subscription is and on the order of what it is told:

- `TypeOK` includes that a session has no fewer versions than watches. `Update_watch_cache` drops a path from one list and
  leaves the other (watch.go:70), so that there may be more versions, and a watch the version of another path;
- `HandlerInv`: a server handles messages of clients that are connected to it, so that a crash ends the handler of every client that
  reconnects;
- `OnceInv`: a SUBSCRIBE is in one place at a time: on its way to the server, in its handler, on its way to the coordinator, accepted, or on its way back. A
  second SUBSCRIBE_OK would set the number back. It is confirmed only after the server has written it, which is why a
  confirmed subscription is not confirmed again;
- `GapInv`: what a client asks for is at most the message after the one it was shown (`questionsOK`), and so is what it is told,
  unless the message before it is just ahead of it on the same connection (`follows`, `answersOK`): that is the
  pair SUBSCRIBED_MESSAGE, GET_SUBSCRIPTION_OK that `get_subscription` sends.

### Only model-checked

Liveness and fairness, which are out of the prover's reach, the other properties of ZabSync, those of Election when
servers are started, and `CacheIsAhead`, `NoOverwrite` and `NoLostUpdate` in workloads in which sessions end. Those of ZabSync's that join several epochs (`PrefixConsistentIfVotesHold`, `CommittedIsDurable`, `NoFatal`)
hold only for drivers and bounds that keep away from the counterexamples listed above,
so a theorem would have to exclude these first; `CommittedIsDurable` does not hold for every number of servers (Bounds).

## 5. Abstractions and what is not modelled

- Payloads, encodings and logging are left out; a request is a value, a zxid its
  epoch and count. Counts are far below 2^16, where `uint16` would wrap.
- ZabSync: an election is one round, whose initiator votes first and learns the winner last; a server that restarts is not continued before its election. The time a message spends on a connection is spent in the queue of
  the receiver; the check accepts every write. The timeout of a sync (`syncTimeout`) and `requestQueuer`
  are never started by the code and have no action.
- Election: `ZXID` does not change during a run (ZabSync covers that), and a heartbeat election
  starts only when no other is under way.
- Znode: all servers write the same committed sequence, so one storage stands for all;
  a `panic` of `Check` and an error of `Write` end the run, as they end the coordinator and the listener.
- ProposalLog: the server is coordinator whenever it runs, since only a coordinator counts zxids;
  the log of a follower is in ZabSync. The comments at proposalSaving.go:24 (a delimiter) and :69 (a length at each end)
  describe an older layout: the code writes the length behind the record only.
- Sessions: request and session numbers are unique (`generateUniqueRequestID` and the session id draw
  at random and ask only the local map and storage); the committed writes are one sequence; the loss of a
  message between servers other than by a crash is left to ZabBroadcast. The maps that goroutines share without a lock
  behave as if they had one; a concurrent map write would stop the process, which is `Crash`. A user waits until what
  it sent is taken; only in scenarios with `FreeUsers` does it start a session while it is connected, or end one without having one.
- PubSub: one topic that exists; the coordinator has no clients of its own; watches set by GETCHILDREN and
  GETDATA take the path of EXISTS. A client handles what has arrived before it reconnects, and its user subscribes once.
- Not modelled: the creation of a topic by a first PUBLISH or SUBSCRIBE, which sends a second request
  from `committedListener`; the maps of the connection manager (simultaneous dials replace
  connections); terminal input and `spam` of the client; `ConfigReader`, `logger` and `LocalConnectionManager` (no protocol
  state). Of the test drivers only `zabFailureTest` matters: it is the second driver of ZabSync and Election.

## 6. Plan

Done: ZabBroadcast with AtomicBroadcast and proofs, the refinement included; ZabSync; ZabDispatch, ProposalLog, Znode, Sessions, PubSub and Election with proofs.
In this order:

1. **Proofs**: order of the log and agreement in
   ZabDispatch with `Direct = FALSE`; Election when servers are started one at a time; the cache of Znode when sessions end one at a time.
2. **Topics**: their creation, and several topics with one session.
3. **Connections**: the connection maps with racing dials and failures.

-------------------------- MODULE ZabBroadcastProofs --------------------------
(***************************************************************************)
(* Machine-checked proofs about ZabBroadcast, for every set of servers and *)
(* requests: its types, with any losses; agreement, quorums, the absence   *)
(* of Fatal and the refinement of AtomicBroadcast in an epoch whose        *)
(* messages all arrive; and what an epoch keeps when messages are lost.    *)
(* For the second IInv of ZabBroadcast is shown to be inductive, with one  *)
(* lemma per action.                                                       *)
(***************************************************************************)
EXTENDS ZabBroadcast, TLAPS, FiniteSetTheorems, SequenceTheorems

-----------------------------------------------------------------------------
(* Lemmas about queues *)

\* What Append does to a queue, element by element.
LEMMA AppendFacts ==
  ASSUME NEW S, NEW q \in Seq(S), NEW e \in S
  PROVE  /\ Append(q, e) \in Seq(S)
         /\ Len(Append(q, e)) = Len(q) + 1
         /\ \A i \in 1..Len(q) : Append(q, e)[i] = q[i]
         /\ Append(q, e)[Len(q) + 1] = e
BY AppendProperties

\* What taking the head of a queue leaves, element by element.
LEMMA DequeueFacts ==
  ASSUME NEW S, NEW q \in Seq(S), q # << >>
  PROVE  /\ Len(q) \in Nat /\ Len(q) >= 1
         /\ dequeue(q) = q[1]
         /\ dequeue(q) \in S
         /\ Tail(q) \in Seq(S)
         /\ Len(Tail(q)) = Len(q) - 1
         /\ \A i \in 1..(Len(q) - 1) : Tail(q)[i] = q[i + 1]
<1>1. Len(q) \in Nat /\ Len(q) >= 1 /\ 1 \in 1..Len(q)
  BY EmptySeq, LenProperties
<1>2. q[1] \in S
  BY <1>1, ElementOfSeq
<1> QED
  BY <1>1, <1>2, HeadTailProperties DEF dequeue

\* What keeping the first n items of a queue leaves.
LEMMA PrefixFacts ==
  ASSUME NEW S, NEW q \in Seq(S), NEW n \in 0..Len(q)
  PROVE  /\ SubSeq(q, 1, n) \in Seq(S)
         /\ Len(SubSeq(q, 1, n)) = n
         /\ \A i \in 1..n : SubSeq(q, 1, n)[i] = q[i]
<1>1. Len(q) \in Nat
  BY LenProperties
<1>2. \A i \in 1..n : q[i] \in S
  BY <1>1, ElementOfSeq
<1> QED
  BY <1>1, <1>2, SubSeqProperties

-----------------------------------------------------------------------------
(* Type correctness, with or without lost messages *)

\* Every handler of ZabBroadcast keeps the types of the queues, the counters
\* and the messages, lost messages and crashes included.
LEMMA TypeStep == TypeOK /\ [Next]_vars => TypeOK'
<1> SUFFICES ASSUME TypeOK, [Next]_vars PROVE TypeOK'
  OBVIOUS
<1>0. Leader \in Server
  BY ServerAssumption
<1>a. drops < MaxDrops => drops + 1 \in 0..MaxDrops
  <2>1. MaxDrops \in Nat /\ drops \in 0..MaxDrops
    BY SMTT(60), BoundAssumption DEF TypeOK
  <2> QED
    BY ONLY SMTT(60), <2>1
<1> USE DEF TypeOK
<1>1. ASSUME NEW r \in Request, SendWriteRequest(r) PROVE TypeOK'
  <2>1. Origin[r] \in Server
    BY OriginAssumption
  <2>2. Append(reqs[Origin[r]], r) \in Seq(Request)
    BY <2>1, AppendFacts
  <2>3. reqs' \in [Server -> Seq(Request)] /\ submitted' \subseteq Request
    BY <1>1, <2>1, <2>2 DEF SendWriteRequest
  <2>4. UNCHANGED <<zxidCounter, ackTracker, queues, denied, acks, errs, bcast, rcvd,
                    crashed, exited, drops, issued, about, acked>>
    BY <1>1 DEF SendWriteRequest, faults
  <2> QED
    BY <2>3, <2>4 DEF queues
<1>2. ASSUME NEW s \in Server, processWrite(s) PROVE TypeOK'
  <2> DEFINE r == dequeue(reqs[s])
             k == zxidCounter[Leader] + 1
             prop == StateChange(k, r)
  <2>1. r \in Request /\ Tail(reqs[s]) \in Seq(Request)
    BY <1>2, DequeueFacts DEF processWrite
  <2>2. prop \in Proposal /\ k \in Nat
    <3>1. zxidCounter[Leader] \in Nat
      BY <1>0
    <3> HIDE DEF TypeOK
    <3>2. k \in Nat
      BY <3>1
    <3> QED
      BY <2>1, <3>2 DEF StateChange, Proposal
  <2> HIDE DEF r, k, prop
  <2>3. Append(ackTracker, 1) \in Seq(Nat) /\ Append(about, k) \in Seq(Nat)
    BY <2>2, AppendFacts
  <2>4. Append(issued, r) \in Seq(Request)
    BY <2>1, AppendFacts
  <2>5. Append(proposalsQueue[Leader], prop) \in Seq(Proposal)
        /\ Append(newProposalChan[Leader], prop) \in Seq(Proposal)
    BY <1>0, <2>2, AppendFacts
  <2>6. Append(bcast, prop) \in Seq(Proposal \cup {CommitMsg})
    BY <2>2, AppendFacts
  <2> QED
    BY <1>0, <1>2, <2>1, <2>2, <2>3, <2>4, <2>5, <2>6
       DEF processWrite, queueWriteProposal, faults, r, k, prop
<1>3. ASSUME NEW s \in Server, denyWrite(s) PROVE TypeOK'
  <2>1. dequeue(reqs[s]) \in Request /\ Tail(reqs[s]) \in Seq(Request)
    BY <1>3, DequeueFacts DEF denyWrite
  <2>2. errs' \in [Server -> Seq(Request)]
    BY SMTT(60), <1>3, <2>1, AppendFacts DEF denyWrite, replyErr
  <2> QED
    BY <1>3, <2>1, <2>2 DEF denyWrite, queues, faults, aux
<1>4. ASSUME NEW s \in Server, processErr(s) PROVE TypeOK'
  <2>1. dequeue(errs[s]) \in Request /\ Tail(errs[s]) \in Seq(Request)
    BY <1>4, DequeueFacts DEF processErr
  <2> QED
    BY <1>4, <2>1 DEF processErr, queues, faults, aux
<1>5. ASSUME NEW s \in Server, proposalWriter(s) PROVE TypeOK'
  <2>1. Head(newProposalChan[s]) \in Proposal /\ Tail(newProposalChan[s]) \in Seq(Proposal)
    BY <1>5, DequeueFacts DEF proposalWriter, dequeue
  <2>2. Append(log[s], Head(newProposalChan[s])) \in Seq(Proposal)
    BY <2>1, AppendFacts
  <2> QED
    BY <1>5, <2>1, <2>2 DEF proposalWriter, channels, faults, aux
<1>6. ASSUME NEW f \in Follower, processStateChangeProposal(f) PROVE TypeOK'
  <2> DEFINE prop == bcast[rcvd[f] + 1]
  <2>1. f \in Server /\ prop.PropType = "StateChange" /\ rcvd[f] + 1 \in 1..Len(bcast)
    <3>1. rcvd[f] < Len(bcast) /\ prop.PropType = "StateChange" /\ f \in Server
      BY <1>6 DEF processStateChangeProposal, Follower
    <3>2. rcvd[f] \in Nat /\ Len(bcast) \in Nat
      BY LenProperties
    <3> HIDE DEF TypeOK
    <3> QED
      BY <3>1, <3>2
  <2>2. prop \in Proposal \cup {CommitMsg}
    BY <2>1, ElementOfSeq
  <2>3. prop \in Proposal /\ prop.CountNum \in Nat
    <3> HIDE DEF TypeOK
    <3> QED
      BY <2>1, <2>2 DEF Proposal, CommitMsg
  <2> HIDE DEF prop
  <2>4. Append(proposalsQueue[f], prop) \in Seq(Proposal)
        /\ Append(newProposalChan[f], prop) \in Seq(Proposal)
    BY <2>1, <2>3, AppendFacts
  <2>5. Append(acks[f], prop.CountNum) \in Seq(Nat)
    BY <2>3, AppendFacts
  <2>6. /\ zxidCounter' = [zxidCounter EXCEPT ![f] = prop.CountNum]
        /\ acks' = [acks EXCEPT ![f] = Append(@, prop.CountNum)]
        /\ newProposalChan' = [newProposalChan EXCEPT ![f] = Append(@, prop)]
        /\ proposalsQueue' = [proposalsQueue EXCEPT ![f] = Append(@, prop)]
        /\ rcvd' = [rcvd EXCEPT ![f] = @ + 1]
        /\ UNCHANGED <<ackTracker, log, committed, denied, reqs, errs, bcast, faults, aux>>
    BY <1>6 DEF processStateChangeProposal, queueWriteProposal, prop
  <2>7. zxidCounter' \in [Server -> Nat] /\ rcvd' \in [Follower -> Nat]
    <3>1. zxidCounter \in [Server -> Nat] /\ rcvd \in [Follower -> Nat]
      OBVIOUS
    <3> HIDE DEF TypeOK
    <3> QED
      BY <2>1, <2>3, <2>6, <3>1
  <2>8. acks' \in [Follower -> Seq(Nat)]
    BY <2>5, <2>6
  <2>9. newProposalChan' \in [Server -> Seq(Proposal)]
        /\ proposalsQueue' \in [Server -> Seq(Proposal)]
    BY <2>1, <2>4, <2>6
  <2> QED
    BY <2>6, <2>7, <2>8, <2>9 DEF faults, aux
<1>7. ASSUME NEW s \in Server, processCommitProposal(s)
      PROVE  /\ proposalsQueue' \in [Server -> Seq(Proposal)]
             /\ committed' \in [Server -> Seq(Proposal)]
             /\ exited' \subseteq Server
  <2>1. CASE proposalsQueue[s] = << >>
    BY <1>7, <2>1 DEF processCommitProposal
  <2>2. CASE proposalsQueue[s] # << >>
    <3>1. dequeue(proposalsQueue[s]) \in Proposal /\ Tail(proposalsQueue[s]) \in Seq(Proposal)
      BY <2>2, DequeueFacts
    <3>2. Append(committed[s], dequeue(proposalsQueue[s])) \in Seq(Proposal)
      BY <3>1, AppendFacts
    <3> QED
      BY ZenonT(60), <1>7, <2>2, <3>1, <3>2, ZenonT(40) DEF processCommitProposal
  <2> QED
    BY <2>1, <2>2
<1>8. ASSUME NEW f \in Follower, processCommit(f) PROVE TypeOK'
  <2>1. f \in Server /\ processCommitProposal(f)
    BY <1>8 DEF processCommit, Follower
  <2>2. /\ proposalsQueue' \in [Server -> Seq(Proposal)]
        /\ committed' \in [Server -> Seq(Proposal)]
        /\ exited' \subseteq Server
    BY <1>7, <2>1
  <2> QED
    BY SMTT(60), <1>8, <2>2, SMTT(30) DEF processCommit, aux
<1>9. ASSUME NEW f \in Follower, processACK(f) PROVE TypeOK'
  <2> DEFINE k == dequeue(acks[f])
  <2>1. k \in Nat /\ Tail(acks[f]) \in Seq(Nat)
    BY <1>9, DequeueFacts DEF processACK
  <2>2. ackTracker' \in Seq(Nat)
    <3>1. CASE k \notin DOMAIN ackTracker
      BY <1>9, <3>1 DEF processACK
    <3>2. CASE k \in DOMAIN ackTracker
      <4>1. PICK v \in {0, ackTracker[k] + 1} : ackTracker' = [ackTracker EXCEPT ![k] = v]
        BY <1>9, <3>2 DEF processACK
      <4>2. k \in 1..Len(ackTracker) /\ ackTracker[k] \in Nat
        BY <3>2, LenProperties, ElementOfSeq
      <4> QED
        BY SMTT(60), <4>1, <4>2, ExceptSeq, SMTT(40)
    <3> QED
      BY <3>1, <3>2
  <2>3. /\ bcast' \in Seq(Proposal \cup {CommitMsg})
        /\ about' \in Seq(Nat)
        /\ proposalsQueue' \in [Server -> Seq(Proposal)]
        /\ committed' \in [Server -> Seq(Proposal)]
        /\ exited' \subseteq Server
    <3>1. CASE ~incrementOrRemove(k, n_systems \div 2)
      BY <1>9, <3>1 DEF processACK
    <3>2. CASE incrementOrRemove(k, n_systems \div 2)
      <4>1. processCommitProposal(Leader)
        BY <1>9, <3>2 DEF processACK
      <4>2. CASE proposalsQueue[Leader] = << >>
        BY <1>0, <1>9, <3>2, <4>1, <4>2, <1>7 DEF processACK
      <4>3. CASE proposalsQueue[Leader] # << >>
        <5>1. dequeue(proposalsQueue[Leader]).CountNum \in Nat
          <6>1. dequeue(proposalsQueue[Leader]) \in Proposal
            BY <1>0, <4>3, DequeueFacts
          <6> HIDE DEF TypeOK
          <6> QED
            BY <6>1 DEF Proposal
        <5>2. Append(bcast, CommitMsg) \in Seq(Proposal \cup {CommitMsg})
              /\ Append(about, dequeue(proposalsQueue[Leader]).CountNum) \in Seq(Nat)
          BY <5>1, AppendFacts
        <5>3. /\ bcast' = Append(bcast, CommitMsg)
              /\ about' = Append(about, dequeue(proposalsQueue[Leader]).CountNum)
          BY <1>9, <3>2, <4>3 DEF processACK
        <5>4. /\ proposalsQueue' \in [Server -> Seq(Proposal)]
              /\ committed' \in [Server -> Seq(Proposal)]
              /\ exited' \subseteq Server
          BY <1>0, <1>7, <4>1
        <5> HIDE DEF TypeOK
        <5> QED
          BY <5>2, <5>3, <5>4
      <4> QED
        BY <4>2, <4>3
    <3> QED
      BY <3>1, <3>2
  <2>4. /\ acks' = [acks EXCEPT ![f] = Tail(@)]
        /\ acked' = [acked EXCEPT ![f] = @ + 1]
        /\ UNCHANGED <<zxidCounter, newProposalChan, log, denied,
                       reqs, errs, rcvd, crashed, drops, submitted, issued>>
    BY <1>9 DEF processACK
  <2> HIDE DEF k
  <2>5. acks' \in [Follower -> Seq(Nat)] /\ acked' \in [Follower -> Nat]
    <3>1. acks \in [Follower -> Seq(Nat)] /\ acked \in [Follower -> Nat]
      OBVIOUS
    <3> HIDE DEF TypeOK
    <3> QED
      BY <2>1, <2>4, <3>1
  <2>6. UNCHANGED <<zxidCounter, newProposalChan, log, denied,
                    reqs, errs, rcvd, crashed, drops, submitted, issued>>
    BY <2>4
  <2> QED
    BY <2>2, <2>3, <2>5, <2>6
<1>10. ASSUME NEW f \in Follower, Crash(f) PROVE TypeOK'
  <2>1. PICK n \in 0..Len(acks[f]) : acks' = [acks EXCEPT ![f] = SubSeq(@, 1, n)]
    BY <1>10 DEF Crash
  <2>2. PICK m \in 0..Len(reqs[f]) : reqs' = [reqs EXCEPT ![f] = SubSeq(@, 1, m)]
    BY <1>10 DEF Crash
  <2>3. SubSeq(acks[f], 1, n) \in Seq(Nat) /\ SubSeq(reqs[f], 1, m) \in Seq(Request)
    BY PrefixFacts DEF Follower
  <2> QED
    BY <1>10, <2>1, <2>2, <2>3 DEF Crash, queues, aux, Follower
<1>11. ASSUME NEW f \in Follower, Drop(f) PROVE TypeOK'
  BY SMTT(60), <1>11, <1>a, SMTT(30) DEF Drop, queues, aux
<1>12. ASSUME NEW f \in Follower, DropReply(f) PROVE TypeOK'
  <2>1. Tail(acks[f]) \in Seq(Nat)
    BY <1>12, DequeueFacts DEF DropReply
  <2> QED
    BY <1>12, <2>1, <1>a DEF DropReply, queues, aux
<1>13. CASE UNCHANGED vars
  <2>1. UNCHANGED <<zxidCounter, ackTracker, proposalsQueue, newProposalChan, log, committed,
                    denied, reqs, acks, errs, bcast, rcvd, crashed, exited, drops,
                    submitted, issued, about, acked>>
    <3> HIDE DEF TypeOK
    <3> QED
      BY <1>13 DEF vars, queues, channels, faults, aux
  <2> QED
    BY <2>1, SMTT(40)
<1> QED
  BY ZenonT(60), <1>1, <1>2, <1>3, <1>4, <1>5, <1>6, <1>8, <1>9, <1>10, <1>11, <1>12, <1>13
     DEF Next

\* The state after Init of the package has these types.
LEMMA TypeInit == Init => TypeOK
<1> SUFFICES ASSUME Init PROVE TypeOK
  OBVIOUS
<1>1. zxidCounter \in [Server -> Nat] /\ rcvd \in [Follower -> Nat] /\ acked \in [Follower -> Nat]
  BY DEF Init
<1>2. /\ proposalsQueue \in [Server -> Seq(Proposal)]
      /\ newProposalChan \in [Server -> Seq(Proposal)]
      /\ log \in [Server -> Seq(Proposal)]
      /\ committed \in [Server -> Seq(Proposal)]
  <2>1. << >> \in Seq(Proposal)
    BY EmptySeq
  <2> QED
    BY <2>1 DEF Init
<1>3. reqs \in [Server -> Seq(Request)] /\ errs \in [Server -> Seq(Request)]
  <2>1. << >> \in Seq(Request)
    BY EmptySeq
  <2> QED
    BY <2>1 DEF Init
<1>4. acks \in [Follower -> Seq(Nat)]
  <2>1. << >> \in Seq(Nat)
    BY EmptySeq
  <2> QED
    BY <2>1 DEF Init
<1>5. ackTracker \in Seq(Nat) /\ about \in Seq(Nat)
  BY EmptySeq DEF Init
<1>6. bcast \in Seq(Proposal \cup {CommitMsg}) /\ issued \in Seq(Request)
  BY EmptySeq DEF Init
<1>7. denied \in [Server -> SUBSET Request]
  BY DEF Init
<1>8. crashed \subseteq Follower /\ exited \subseteq Server /\ submitted \subseteq Request
  BY ZenonT(60) DEF Init
<1>9. drops \in 0..MaxDrops
  <2>1. drops = 0
    BY DEF Init
  <2> QED
    BY BoundAssumption, <2>1
<1> QED
  BY <1>1, <1>2, <1>3, <1>4, <1>5, <1>6, <1>7, <1>8, <1>9, Zenon DEF TypeOK

\* The types hold in every reachable state of an epoch.
THEOREM TypeCorrect == Spec => []TypeOK
BY TypeInit, TypeStep, PTL DEF Spec

-----------------------------------------------------------------------------
(* What the types say about lengths, counts and the coordinator *)

\* The coordinator is a server and not one of the followers.
LEMMA LeaderFacts == Leader \in Server /\ Leader \notin Follower /\ Follower \subseteq Server
BY ServerAssumption DEF Follower

\* The lengths of the queues and channels, which the invariant counts with, are
\* natural numbers.
LEMMA LenFacts ==
  ASSUME TypeOK
  PROVE  /\ nIssued \in Nat /\ nBcast \in Nat /\ nAbout \in Nat
         /\ nTracked \in Nat
         /\ \A s \in Server :
              /\ nCommitted(s) \in Nat /\ nQueued(s) \in Nat
              /\ nLogged(s) \in Nat /\ nToLog(s) \in Nat
              /\ nReqs(s) \in Nat
         /\ \A f \in Follower :
              nAcks(f) \in Nat /\ acked[f] \in Nat /\ rcvd[f] \in Nat
BY LenProperties DEF TypeOK, nIssued, nBcast, nAbout, nTracked, nCommitted, nQueued,
                        nLogged, nToLog, nReqs, nAcks

\* What the elements of the queues and channels are.
LEMMA ElementFacts ==
  ASSUME TypeOK
  PROVE  /\ \A i \in 1..nAbout : about[i] \in Nat
         /\ \A i \in 1..nTracked : ackTracker[i] \in Nat
         /\ \A i \in 1..nIssued : issued[i] \in Request
<1> USE DEF TypeOK, nAbout, nTracked, nIssued
<1>1. \A i \in 1..nAbout : about[i] \in Nat
  BY ElementOfSeq
<1>2. \A i \in 1..nTracked : ackTracker[i] \in Nat
  BY ElementOfSeq
<1>3. \A i \in 1..nIssued : issued[i] \in Request
  BY ElementOfSeq
<1> QED
  BY <1>1, <1>2, <1>3

\* A StateChange proposal is not a Commit, and carries what it was made from.
LEMMA MessageFacts ==
  /\ \A k, r : /\ StateChange(k, r).PropType = "StateChange"
               /\ StateChange(k, r).CountNum = k
               /\ StateChange(k, r).Content = r
  /\ CommitMsg.PropType = "Commit"
  /\ "Commit" # "StateChange"
BY DEF StateChange, CommitMsg

\* The sets of followers that have acknowledged are finite and never cover
\* the coordinator.
LEMMA AckersFacts ==
  ASSUME TypeOK, NEW k
  PROVE  /\ IsFiniteSet(Ackers(k))
         /\ Cardinality(Ackers(k)) \in Nat
         /\ Cardinality(Ackers(k)) + 1 <= n_systems
<1>1. IsFiniteSet(Follower) /\ Cardinality(Follower) = n_systems - 1
  BY ServerAssumption, FS_RemoveElement DEF Follower, n_systems
<1>2. Ackers(k) \subseteq Follower
  BY DEF Ackers
<1>3. IsFiniteSet(Ackers(k)) /\ Cardinality(Ackers(k)) <= Cardinality(Follower)
  BY <1>1, <1>2, FS_Subset
<1>4. Cardinality(Ackers(k)) \in Nat /\ n_systems \in Nat
  BY <1>3, ServerAssumption, FS_CardinalityType DEF n_systems
<1> QED
  BY <1>1, <1>3, <1>4

\* Arithmetic of the majority: maxCount further votes besides the coordinator's
\* make a majority, and twice as many cover all followers.
LEMMA MajorityFacts ==
  /\ maxCount \in Nat /\ maxCount >= 1
  /\ n_systems \in Nat
  /\ n_systems <= 2 * maxCount + 1
  /\ 2 * maxCount + 2 > n_systems
<1>1. n_systems \in Nat /\ n_systems >= 2
  BY ServerAssumption, FS_CardinalityType DEF n_systems
<1> HIDE DEF n_systems
<1> QED
  BY <1>1 DEF maxCount

-----------------------------------------------------------------------------
(* Queues that hold a slice of the issued proposals *)

\* Appending the next issued proposal (queueWriteProposal, queueCommitProposal)
\* keeps a queue a slice of the issued proposals.
LEMMA SliceAppend ==
  ASSUME NEW iss, NEW S, NEW q \in Seq(S), NEW e \in S, NEW off \in Nat,
         Slice(q, off, iss),
         e = StateChange(off + Len(q) + 1, iss[off + Len(q) + 1])
  PROVE  Slice(Append(q, e), off, iss)
<1> DEFINE n == Len(q)
           p == Append(q, e)
<1>1. /\ n \in Nat /\ Len(p) = n + 1 /\ p[n + 1] = e
      /\ \A i \in 1..n : p[i] = q[i]
  BY AppendFacts, LenProperties
<1>2. \A i \in 1..n : q[i] = StateChange(off + i, iss[off + i])
  BY DEF Slice
<1>3. e = StateChange(off + (n + 1), iss[off + (n + 1)])
  <2>1. off + n + 1 = off + (n + 1)
    BY <1>1
  <2> QED
    BY <2>1
<1> HIDE DEF n, p
<1>4. ASSUME NEW i \in 1..(n + 1)
      PROVE  p[i] = StateChange(off + i, iss[off + i])
  <2>1. CASE i = n + 1
    BY <1>1, <1>3, <2>1
  <2>2. CASE i \in 1..n
    BY <1>1, <1>2, <2>2
  <2> QED
    BY <1>1, <2>1, <2>2
<1> QED
  BY <1>1, <1>4 DEF Slice, p

\* Taking the head of a queue (dequeue) leaves the slice that starts one later.
LEMMA SliceTail ==
  ASSUME NEW iss, NEW S, NEW q \in Seq(S), q # << >>, NEW off \in Nat,
         Slice(q, off, iss)
  PROVE  /\ Slice(Tail(q), off + 1, iss)
         /\ dequeue(q) = StateChange(off + 1, iss[off + 1])
<1> DEFINE n == Len(q)
           p == Tail(q)
<1>1. /\ n \in Nat /\ n >= 1 /\ Len(p) = n - 1 /\ dequeue(q) = q[1]
      /\ \A i \in 1..(n - 1) : p[i] = q[i + 1]
  BY DequeueFacts
<1>2. \A i \in 1..n : q[i] = StateChange(off + i, iss[off + i])
  BY DEF Slice
<1> HIDE DEF n, p
<1>3. ASSUME NEW i \in 1..(n - 1)
      PROVE  p[i] = StateChange(off + 1 + i, iss[off + 1 + i])
  <2>1. i + 1 \in 1..n /\ off + (i + 1) = off + 1 + i
    BY <1>1
  <2> QED
    BY <1>1, <1>2, <2>1
<1>4. dequeue(q) = StateChange(off + 1, iss[off + 1])
  BY <1>1, <1>2
<1> QED
  BY <1>1, <1>3, <1>4 DEF Slice, p

\* A slice stays one when another request is issued.
LEMMA SliceGrow ==
  ASSUME NEW iss \in Seq(Request), NEW r \in Request, NEW S, NEW q \in Seq(S),
         NEW off \in Nat, off + Len(q) <= Len(iss), Slice(q, off, iss)
  PROVE  Slice(q, off, Append(iss, r))
<1> DEFINE n == Len(q)
           m == Len(iss)
           new == Append(iss, r)
<1>1. n \in Nat /\ m \in Nat /\ off + n <= m /\ \A i \in 1..m : new[i] = iss[i]
  BY AppendFacts, LenProperties
<1>2. \A i \in 1..n : q[i] = StateChange(off + i, iss[off + i])
  BY DEF Slice
<1> HIDE DEF n, m, new
<1>3. \A i \in 1..n : new[off + i] = iss[off + i]
  BY <1>1
<1>4. \A i \in 1..n : q[i] = StateChange(off + i, new[off + i])
  BY <1>2, <1>3
<1> QED
  BY <1>4 DEF Slice, n, new

-----------------------------------------------------------------------------
(* What leaves each part of the invariant alone *)

\* QueueInv depends on the queues, the logs and the issued proposals only.
LEMMA FrameQueue ==
  ASSUME QueueInv, UNCHANGED <<committed, proposalsQueue, log, newProposalChan, issued>>
  PROVE  QueueInv'
BY ZenonT(60) DEF QueueInv, Received, Slice, nCommitted, nQueued, nLogged, nToLog, nIssued

\* FollowInv depends on what is committed only.
LEMMA FrameFollow ==
  ASSUME FollowInv, UNCHANGED committed
  PROVE  FollowInv'
BY DEF FollowInv, nCommitted

\* CoordinatorInv depends on the coordinator's counter, queue and tracker only.
LEMMA FrameCoordinator ==
  ASSUME CoordinatorInv, zxidCounter'[Leader] = zxidCounter[Leader],
         UNCHANGED <<issued, ackTracker>>, Received(Leader)' = Received(Leader)
  PROVE  CoordinatorInv'
BY DEF CoordinatorInv, nIssued, nTracked, Received

\* BroadcastInv depends on the broadcast, the issued proposals and what is
\* committed only.
LEMMA FrameBroadcast ==
  ASSUME BroadcastInv, UNCHANGED <<bcast, about, issued>>,
         nCommitted(Leader)' = nCommitted(Leader)
  PROVE  BroadcastInv'
BY ZenonT(60) DEF BroadcastInv, nIssued, nBcast, nAbout, IsSC

\* CursorInv depends on the broadcast, the cursors and the queues only.
LEMMA FrameCursor ==
  ASSUME CursorInv, UNCHANGED <<bcast, about, rcvd, committed, proposalsQueue>>
  PROVE  CursorInv'
BY DEF CursorInv, nBcast, nCommitted, nQueued, Received, IsSC

\* AckInv depends on the ACKs, the queues and who has exited or crashed only.
LEMMA FrameAck ==
  ASSUME AckInv, UNCHANGED <<acks, acked, crashed, exited>>,
         \A f \in Follower : Received(f)' = Received(f)
  PROVE  AckInv'
BY DEF AckInv, nAcks, Up

\* TrackerInv depends on the tracker, the handled ACKs and the coordinator's
\* commits only.
LEMMA FrameTracker ==
  ASSUME TrackerInv, UNCHANGED <<ackTracker, acked, issued>>,
         nCommitted(Leader)' = nCommitted(Leader)
  PROVE  TrackerInv'
BY DEF TrackerInv, nIssued, Ackers

\* RequestInv depends on the requests and the issued proposals only.
LEMMA FrameRequest ==
  ASSUME RequestInv, UNCHANGED <<reqs, submitted, issued>>
  PROVE  RequestInv'
BY DEF RequestInv, nReqs, nIssued

-----------------------------------------------------------------------------
(* Init *)

\* The state after Init of the package satisfies the invariant.
LEMMA InitIInv == Init => IInv
<1> SUFFICES ASSUME Init PROVE IInv
  OBVIOUS
<1>1. TypeOK
  BY TypeInit
<1>2. Len(<< >>) = 0
  BY EmptySeq
<1>3. /\ nIssued = 0 /\ nBcast = 0 /\ nAbout = 0 /\ nTracked = 0
      /\ zxidCounter[Leader] = 0
      /\ \A s \in Server :
           /\ nCommitted(s) = 0 /\ nQueued(s) = 0
           /\ nLogged(s) = 0 /\ nToLog(s) = 0 /\ nReqs(s) = 0
      /\ \A f \in Follower : nAcks(f) = 0 /\ acked[f] = 0 /\ rcvd[f] = 0
  BY <1>2, LeaderFacts DEF Init, nIssued, nBcast, nAbout, nTracked, nCommitted, nQueued,
                           nLogged, nToLog, nReqs, nAcks
<1>4. NoFatal /\ CoordinatorInv /\ nCommitted(Leader) = 0
  BY <1>3, LeaderFacts DEF Init, NoFatal, CoordinatorInv, Received
<1>5. QueueInv
  <2>1. \A off : Slice(<< >>, off, issued)
    BY <1>2 DEF Slice
  <2> QED
    BY <1>3, <2>1 DEF Init, QueueInv, Received
<1>6. BroadcastInv
  BY <1>3, <1>4 DEF BroadcastInv
<1>7. CursorInv
  BY <1>3 DEF CursorInv
<1>8. AckInv
  BY <1>3, LeaderFacts DEF AckInv, Received
<1>9. TrackerInv /\ RequestInv
  BY <1>3 DEF TrackerInv, RequestInv
<1>10. FollowInv
  BY <1>3, LeaderFacts DEF FollowInv
<1> QED
  BY <1>10, <1>1, <1>4, <1>5, <1>6, <1>7, <1>8, <1>9 DEF IInv

-----------------------------------------------------------------------------
(* Requests *)

\* SendWriteRequest preserves the invariant.
LEMMA SendStep ==
  ASSUME IInv, TypeOK', NEW r \in Request, SendWriteRequest(r)
  PROVE  IInv'
<1> DEFINE t == Origin[r]
<1>0. TypeOK /\ RequestInv
  BY DEF IInv
<1>1. /\ UNCHANGED <<zxidCounter, ackTracker, proposalsQueue, newProposalChan, log,
                    committed, acks, bcast, rcvd, crashed, exited,
                    issued, about, acked>>
      /\ r \notin submitted
      /\ submitted' = submitted \cup {r}
      /\ reqs' = [reqs EXCEPT ![t] = Append(@, r)]
  BY DEF SendWriteRequest, queues, faults
<1>2. /\ \A u : nCommitted(u)' = nCommitted(u)
      /\ \A u : Received(u)' = Received(u)
      /\ nIssued' = nIssued
  BY <1>1 DEF Received, nCommitted, nQueued, nIssued
<1>3. NoFatal' /\ QueueInv' /\ CoordinatorInv' /\ BroadcastInv' /\ CursorInv'
  BY <1>1, <1>2, FrameQueue, FrameCoordinator, FrameBroadcast, FrameCursor DEF IInv, NoFatal
<1>4. AckInv' /\ TrackerInv'
  BY <1>1, <1>2, FrameAck, FrameTracker DEF IInv
<1>5. RequestInv'
  <2>1. t \in Server /\ reqs[t] \in Seq(Request) /\ reqs \in [Server -> Seq(Request)]
    BY <1>0, OriginAssumption DEF TypeOK
  <2>2. /\ nReqs(t) \in Nat
        /\ nReqs(t)' = nReqs(t) + 1
        /\ \A i \in 1..nReqs(t) : reqs'[t][i] = reqs[t][i]
        /\ reqs'[t][nReqs(t) + 1] = r
    BY <1>1, <2>1, AppendFacts, LenProperties DEF nReqs
  <2>3. \A s \in Server : s # t => reqs'[s] = reqs[s] /\ nReqs(s)' = nReqs(s)
    BY <1>1, <2>1 DEF nReqs
  <2> HIDE DEF t
  <2>4. \A k \in 1..nIssued : issued[k] # r
    BY <1>0, <1>1 DEF RequestInv
  <2>5. \A i \in 1..nReqs(t) : reqs[t][i] # r
    BY <1>0, <1>1, <2>1 DEF RequestInv
  <2>6. ASSUME NEW s \in Server, NEW i \in 1..nReqs(s)'
        PROVE  /\ reqs'[s][i] \in submitted'
               /\ Origin[reqs'[s][i]] = s
               /\ \A j \in 1..nReqs(s)' : reqs'[s][i] = reqs'[s][j] => i = j
               /\ \A k \in 1..nIssued : issued[k] # reqs'[s][i]
    <3>1. CASE s # t
      BY <1>0, <1>1, <2>3, <3>1, <2>6 DEF RequestInv
    <3>2. CASE s = t
      BY SMTT(60), <1>0, <1>1, <2>1, <2>2, <2>4, <2>5, <3>2, <2>6, SMTT(30) DEF RequestInv, t
    <3> QED
      BY <3>1, <3>2
  <2>7. \A k \in 1..nIssued' : issued'[k] \in submitted'
    BY <1>0, <1>1, <1>2 DEF RequestInv
  <2>8. \A k \in 1..nIssued' : issued'[k] = issued[k] /\ k \in 1..nIssued
    BY <1>1, <1>2
  <2> QED
    BY <2>6, <2>7, <2>8, <1>2 DEF RequestInv
<1>f. FollowInv'
  BY <1>1, FrameFollow DEF IInv
<1> QED
  BY <1>f, <1>3, <1>4, <1>5 DEF IInv

\* A request that processRequest denies preserves the invariant.
LEMMA DenyStep ==
  ASSUME IInv, TypeOK', NEW s \in Server, denyWrite(s)
  PROVE  IInv'
<1>0. TypeOK /\ RequestInv
  BY DEF IInv
<1>1. /\ UNCHANGED <<zxidCounter, ackTracker, proposalsQueue, newProposalChan, log,
                    committed, acks, bcast, rcvd, crashed, exited,
                    issued, about, acked, submitted>>
      /\ reqs[s] # << >>
      /\ reqs' = [reqs EXCEPT ![s] = Tail(@)]
  BY DEF denyWrite, queues, faults, aux
<1>2. /\ \A u : nCommitted(u)' = nCommitted(u)
      /\ \A u : Received(u)' = Received(u)
      /\ nIssued' = nIssued
  BY <1>1 DEF Received, nCommitted, nQueued, nIssued
<1>3. NoFatal' /\ QueueInv' /\ CoordinatorInv' /\ BroadcastInv' /\ CursorInv'
  BY <1>1, <1>2, FrameQueue, FrameCoordinator, FrameBroadcast, FrameCursor DEF IInv, NoFatal
<1>4. AckInv' /\ TrackerInv'
  BY <1>1, <1>2, FrameAck, FrameTracker DEF IInv
<1>5. RequestInv'
  <2>0. submitted' = submitted
    BY <1>1
  <2>1. /\ nReqs(s) \in Nat /\ nReqs(s) >= 1
        /\ nReqs(s)' = nReqs(s) - 1
        /\ \A i \in 1..(nReqs(s) - 1) : reqs'[s][i] = reqs[s][i + 1]
        /\ \A u \in Server : u # s => reqs'[u] = reqs[u] /\ nReqs(u)' = nReqs(u)
    BY <1>0, <1>1, DequeueFacts DEF TypeOK, nReqs
  <2>2. ASSUME NEW u \in Server, NEW i \in 1..nReqs(u)'
        PROVE  /\ reqs'[u][i] \in submitted'
               /\ Origin[reqs'[u][i]] = u
               /\ \A j \in 1..nReqs(u)' : reqs'[u][i] = reqs'[u][j] => i = j
               /\ \A k \in 1..nIssued : issued[k] # reqs'[u][i]
    <3>1. CASE u # s
      BY <1>0, <1>1, <2>1, <2>2, <3>1 DEF RequestInv
    <3>2. CASE u = s
      <4>1. \A j \in 1..nReqs(s)' : j + 1 \in 1..nReqs(s) /\ reqs'[s][j] = reqs[s][j + 1]
        BY <2>1
      <4>2. i \in 1..nReqs(s)'
        BY <2>2, <3>2
      <4>3. \A j \in 1..nReqs(s) : reqs[s][i + 1] = reqs[s][j] => i + 1 = j
        BY <1>0, <4>1, <4>2 DEF RequestInv
      <4>4. ASSUME NEW j \in 1..nReqs(s)', reqs'[s][i] = reqs'[s][j]
            PROVE  i = j
        <5>1. reqs[s][i + 1] = reqs[s][j + 1] /\ j + 1 \in 1..nReqs(s)
          BY <4>1, <4>2, <4>4
        <5>2. i + 1 = j + 1 /\ i \in Int /\ j \in Int
          BY <4>2, <4>3, <5>1
        <5> QED
          BY <5>2
      <4>5. /\ reqs[s][i + 1] \in submitted /\ Origin[reqs[s][i + 1]] = s
            /\ \A k \in 1..nIssued : issued[k] # reqs[s][i + 1]
        BY <1>0, <4>1, <4>2 DEF RequestInv
      <4> QED
        BY <2>0, <3>2, <4>1, <4>2, <4>4, <4>5
    <3> QED
      BY <3>1, <3>2
  <2>3. \A k \in 1..nIssued' : issued'[k] \in submitted'
    BY <1>0, <1>1, <1>2 DEF RequestInv
  <2>4. \A k \in 1..nIssued' : issued'[k] = issued[k] /\ k \in 1..nIssued
    BY <1>1, <1>2
  <2> QED
    BY <2>2, <2>3, <2>4, <1>2 DEF RequestInv
<1>f. FollowInv'
  BY <1>1, FrameFollow DEF IInv
<1> QED
  BY <1>f, <1>3, <1>4, <1>5 DEF IInv

\* The Err answer that reaches the sender of a denied request preserves the
\* invariant.
LEMMA ErrStep ==
  ASSUME IInv, TypeOK', NEW s \in Server, processErr(s)
  PROVE  IInv'
<1>1. UNCHANGED <<zxidCounter, ackTracker, proposalsQueue, newProposalChan, log,
                  committed, acks, bcast, rcvd, crashed, exited,
                  issued, about, acked, submitted, reqs>>
  BY DEF processErr, queues, faults, aux
<1>2. /\ \A u : nCommitted(u)' = nCommitted(u)
      /\ \A u : Received(u)' = Received(u)
  BY <1>1 DEF Received, nCommitted, nQueued
<1>3. NoFatal' /\ QueueInv' /\ CoordinatorInv' /\ BroadcastInv' /\ CursorInv'
  BY <1>1, <1>2, FrameQueue, FrameCoordinator, FrameBroadcast, FrameCursor DEF IInv, NoFatal
<1>4. AckInv' /\ TrackerInv' /\ RequestInv'
  BY <1>1, <1>2, FrameAck, FrameTracker, FrameRequest DEF IInv
<1>f. FollowInv'
  BY <1>1, FrameFollow DEF IInv
<1> QED
  BY <1>f, <1>3, <1>4 DEF IInv

\* A request that processRequest accepts and proposes preserves the invariant.
LEMMA WriteStep ==
  ASSUME IInv, TypeOK', NEW s \in Server, processWrite(s)
  PROVE  IInv'
<1>0. /\ TypeOK /\ NoFatal /\ QueueInv /\ CoordinatorInv
      /\ BroadcastInv /\ CursorInv /\ AckInv /\ TrackerInv /\ RequestInv
  BY DEF IInv
<1>d. PICK P \in Nat, C \in Nat, B \in Nat :
        P = nIssued /\ C = nCommitted(Leader) /\ B = nBcast
  BY <1>0, LenFacts, LeaderFacts
<1> DEFINE r == dequeue(reqs[s])
           prop == StateChange(P + 1, r)
<1>1. /\ UNCHANGED <<log, committed, acks, rcvd, crashed, exited, submitted, acked>>
      /\ reqs[s] # << >>
      /\ reqs' = [reqs EXCEPT ![s] = Tail(@)]
      /\ zxidCounter' = [zxidCounter EXCEPT ![Leader] = P + 1]
      /\ ackTracker' = Append(ackTracker, 1)
      /\ proposalsQueue' = [proposalsQueue EXCEPT ![Leader] = Append(@, prop)]
      /\ newProposalChan' = [newProposalChan EXCEPT ![Leader] = Append(@, prop)]
      /\ bcast' = Append(bcast, prop)
      /\ about' = Append(about, P + 1)
      /\ issued' = Append(issued, r)
  BY <1>0, <1>d DEF processWrite, queueWriteProposal, faults, CoordinatorInv
<1>2. r \in Request /\ P \in Nat /\ prop \in Proposal /\ r = reqs[s][1]
  <2>1. r \in Request /\ r = reqs[s][1]
    BY <1>0, <1>1, DequeueFacts DEF TypeOK
  <2> HIDE DEF r
  <2> QED
    BY <2>1 DEF StateChange, Proposal
<1> HIDE DEF r, prop
<1>3. /\ nIssued = P
      /\ nIssued' = P + 1
      /\ \A i \in 1..P : issued'[i] = issued[i]
      /\ issued'[P + 1] = r
  BY SMTT(60), <1>0, <1>1, <1>2, AppendFacts, <1>d DEF TypeOK, nIssued
<1>4. /\ nTracked = P
      /\ nTracked' = P + 1
      /\ \A i \in 1..P : ackTracker'[i] = ackTracker[i]
      /\ ackTracker'[P + 1] = 1
  <2>1. Len(ackTracker) = P
    BY <1>0, <1>d DEF CoordinatorInv, nTracked
  <2>2. ackTracker \in Seq(Nat) /\ 1 \in Nat
    BY <1>0 DEF TypeOK
  <2> QED
    BY <1>1, <2>1, <2>2, AppendFacts DEF nTracked
<1>5. /\ nAbout = B /\ B \in Nat
      /\ nAbout' = B + 1
      /\ \A i \in 1..B : about'[i] = about[i]
      /\ about'[B + 1] = P + 1
  <2>1. Len(about) = B /\ B \in Nat
    BY <1>0, <1>d DEF BroadcastInv, nAbout
  <2>2. about \in Seq(Nat) /\ P + 1 \in Nat
    BY <1>0 DEF TypeOK
  <2> QED
    BY SMTT(60), <1>1, <2>1, <2>2, AppendFacts DEF nAbout
<1>6. /\ nBcast' = B + 1
      /\ \A i \in 1..B : bcast'[i] = bcast[i]
      /\ bcast'[B + 1] = prop
  <2>1. bcast \in Seq(Proposal \cup {CommitMsg}) /\ prop \in Proposal \cup {CommitMsg}
    BY <1>0, <1>2 DEF TypeOK
  <2>2. Len(bcast) = B
    BY <1>d DEF nBcast
  <2> QED
    BY <1>1, <2>1, <2>2, AppendFacts DEF nBcast
<1>7. /\ \A u \in Server : u # Leader => proposalsQueue'[u] = proposalsQueue[u]
      /\ \A u \in Server : u # Leader => newProposalChan'[u] = newProposalChan[u]
      /\ proposalsQueue'[Leader] = Append(proposalsQueue[Leader], prop)
      /\ newProposalChan'[Leader] = Append(newProposalChan[Leader], prop)
  BY ZenonT(60), <1>0, <1>1, LeaderFacts DEF TypeOK
<1>a. nQueued(Leader)' = nQueued(Leader) + 1 /\ nToLog(Leader)' = nToLog(Leader) + 1
  <2>1. proposalsQueue[Leader] \in Seq(Proposal) /\ newProposalChan[Leader] \in Seq(Proposal)
    BY <1>0, LeaderFacts DEF TypeOK
  <2> QED
    BY <1>2, <1>7, <2>1, AppendFacts DEF nQueued, nToLog
<1>8. /\ \A u : nCommitted(u)' = nCommitted(u) /\ nLogged(u)' = nLogged(u)
      /\ \A u \in Server : u # Leader => /\ Received(u)' = Received(u)
                                         /\ nToLog(u)' = nToLog(u)
  BY <1>1, <1>7 DEF nCommitted, nLogged, nQueued, nToLog, Received
<1>9. /\ C \in Nat /\ nQueued(Leader) \in Nat /\ nLogged(Leader) \in Nat
      /\ nToLog(Leader) \in Nat
      /\ C + nQueued(Leader) = P
      /\ nLogged(Leader) + nToLog(Leader) = P
  <2>1. Received(Leader) = P
    BY <1>0, <1>d DEF CoordinatorInv
  <2>2. C + nQueued(Leader) = P
    BY <1>d, <2>1 DEF Received
  <2>3. nLogged(Leader) + nToLog(Leader) = P
    BY <1>0, <2>1, LeaderFacts DEF QueueInv
  <2> QED
    BY <1>0, <2>2, <2>3, LenFacts, LeaderFacts
<1>10. NoFatal'
  BY <1>0, <1>1 DEF NoFatal
<1>11. CoordinatorInv'
  <2>1. zxidCounter'[Leader] = P + 1
    BY <1>0, <1>1, LeaderFacts DEF TypeOK
  <2>2. Received(Leader)' = P + 1
    <3>1. Received(Leader)' = nCommitted(Leader)' + nQueued(Leader)'
      BY DEF Received
    <3> QED
      BY <1>a, <1>8, <1>9, <1>d, <3>1
  <2> QED
    BY <1>3, <1>4, <2>1, <2>2 DEF CoordinatorInv
<1>12. QueueInv'
  <2>1. ASSUME NEW u \in Server
        PROVE  /\ Received(u)' <= nIssued'
               /\ nLogged(u)' + nToLog(u)' = Received(u)'
    <3>1. CASE u = Leader
      <4>1. Received(Leader)' = P + 1
        BY <1>3, <1>11 DEF CoordinatorInv
      <4> QED
        BY <1>2, <1>3, <1>a, <1>8, <1>9, <3>1, <4>1
    <3>2. CASE u # Leader
      <4>1. Received(u) <= P /\ nLogged(u) + nToLog(u) = Received(u) /\ Received(u) \in Nat
        BY <1>0, LenFacts, <1>d DEF QueueInv, Received
      <4> QED
        BY <1>2, <1>3, <1>8, <3>2, <4>1
    <3> QED
      BY <3>1, <3>2
  <2>2. ASSUME NEW u \in Server
        PROVE  /\ Slice(committed[u], 0, issued')
               /\ Slice(proposalsQueue[u], nCommitted(u), issued')
               /\ Slice(log[u], 0, issued')
               /\ Slice(newProposalChan[u], nLogged(u), issued')
    <3>1. /\ nCommitted(u) + nQueued(u) <= P /\ nLogged(u) + nToLog(u) <= P
          /\ nCommitted(u) \in Nat /\ nQueued(u) \in Nat
          /\ nLogged(u) \in Nat /\ nToLog(u) \in Nat
      BY <1>0, LenFacts, <1>d DEF QueueInv, Received
    <3>2. 0 + nCommitted(u) <= P /\ 0 + nLogged(u) <= P
      BY <1>2, <3>1
    <3>3. /\ committed[u] \in Seq(Proposal) /\ proposalsQueue[u] \in Seq(Proposal)
          /\ log[u] \in Seq(Proposal) /\ newProposalChan[u] \in Seq(Proposal)
          /\ issued \in Seq(Request)
      BY <1>0 DEF TypeOK
    <3>4. /\ Slice(committed[u], 0, issued)
          /\ Slice(proposalsQueue[u], nCommitted(u), issued)
          /\ Slice(log[u], 0, issued)
          /\ Slice(newProposalChan[u], nLogged(u), issued)
      BY <1>0 DEF QueueInv
    <3>5. /\ 0 + Len(committed[u]) <= Len(issued)
          /\ nCommitted(u) + Len(proposalsQueue[u]) <= Len(issued)
          /\ 0 + Len(log[u]) <= Len(issued)
          /\ nLogged(u) + Len(newProposalChan[u]) <= Len(issued)
      BY <3>1, <3>2, <1>d DEF nCommitted, nQueued, nLogged, nToLog, nIssued
    <3>6. Slice(committed[u], 0, issued')
      BY <1>1, <1>2, <3>3, <3>4, <3>5, SliceGrow
    <3>7. Slice(proposalsQueue[u], nCommitted(u), issued')
      BY <1>1, <1>2, <3>1, <3>3, <3>4, <3>5, SliceGrow
    <3>8. Slice(log[u], 0, issued')
      BY <1>1, <1>2, <3>3, <3>4, <3>5, SliceGrow
    <3>9. Slice(newProposalChan[u], nLogged(u), issued')
      BY <1>1, <1>2, <3>1, <3>3, <3>4, <3>5, SliceGrow
    <3> QED
      BY <3>6, <3>7, <3>8, <3>9
  <2>3. Slice(proposalsQueue'[Leader], C, issued')
    <3>1. prop = StateChange(C + Len(proposalsQueue[Leader]) + 1,
                             issued'[C + Len(proposalsQueue[Leader]) + 1])
      BY <1>3, <1>9 DEF prop, nQueued
    <3>2. Slice(proposalsQueue[Leader], C, issued') /\ proposalsQueue[Leader] \in Seq(Proposal)
      BY <1>0, <2>2, LeaderFacts, <1>d DEF TypeOK
    <3> QED
      BY <1>2, <1>7, <1>9, <3>1, <3>2, SliceAppend
  <2>4. Slice(newProposalChan'[Leader], nLogged(Leader), issued')
    <3>1. prop = StateChange(nLogged(Leader) + Len(newProposalChan[Leader]) + 1,
                             issued'[nLogged(Leader) + Len(newProposalChan[Leader]) + 1])
      BY <1>3, <1>9 DEF prop, nToLog
    <3>2. Slice(newProposalChan[Leader], nLogged(Leader), issued')
          /\ newProposalChan[Leader] \in Seq(Proposal)
      BY <1>0, <2>2, LeaderFacts DEF TypeOK
    <3> QED
      BY <1>2, <1>7, <1>9, <3>1, <3>2, SliceAppend
  <2>5. ASSUME NEW u \in Server
        PROVE  /\ Slice(committed'[u], 0, issued')
               /\ Slice(proposalsQueue'[u], nCommitted(u)', issued')
               /\ Slice(log'[u], 0, issued')
               /\ Slice(newProposalChan'[u], nLogged(u)', issued')
    <3>1. CASE u = Leader
      BY <1>1, <1>8, <2>2, <2>3, <2>4, <3>1, <1>d
    <3>2. CASE u # Leader
      BY <1>1, <1>7, <1>8, <2>2, <3>2
    <3> QED
      BY <3>1, <3>2
  <2>6. QueueInv' <=> \A u \in Server :
           /\ Received(u)' <= nIssued'
           /\ nLogged(u)' + nToLog(u)' = Received(u)'
           /\ Slice(committed'[u], 0, issued')
           /\ Slice(proposalsQueue'[u], nCommitted(u)', issued')
           /\ Slice(log'[u], 0, issued')
           /\ Slice(newProposalChan'[u], nLogged(u)', issued')
    BY DEF QueueInv, Slice
  <2> QED
    BY <2>1, <2>5, <2>6
<1>17. \A i \in 1..B :
         /\ about[i] \in Nat /\ about[i] >= 1
         /\ IsSC(i) <=> IsSC(i)'
         /\ IsSC(i) => about[i] <= P /\ bcast[i] = StateChange(about[i], issued[about[i]])
         /\ ~IsSC(i) => about[i] <= C /\ bcast[i] = CommitMsg
  <2>2. ASSUME NEW i \in 1..B
        PROVE  /\ about[i] \in Nat /\ about[i] >= 1
               /\ IsSC(i) <=> IsSC(i)'
               /\ IsSC(i) => about[i] <= P /\ bcast[i] = StateChange(about[i], issued[about[i]])
               /\ ~IsSC(i) => about[i] <= C /\ bcast[i] = CommitMsg
    <3>1. \/ about[i] \in 1..P /\ bcast[i] = StateChange(about[i], issued[about[i]])
          \/ about[i] \in 1..C /\ bcast[i] = CommitMsg
      BY <1>0, <1>d DEF BroadcastInv
    <3>2. IsSC(i) <=> IsSC(i)'
      BY <1>6 DEF IsSC
    <3>3. CASE about[i] \in 1..P /\ bcast[i] = StateChange(about[i], issued[about[i]])
      BY <1>2, <3>2, <3>3, MessageFacts DEF IsSC
    <3>4. CASE about[i] \in 1..C /\ bcast[i] = CommitMsg
      BY <1>9, <3>2, <3>4, MessageFacts DEF IsSC
    <3> QED
      BY <3>1, <3>3, <3>4
  <2> QED
    BY <2>2
<1>18. (\A i : i = B + 1 => IsSC(i)') /\ C <= P /\ nCommitted(Leader)' = C
  <2>1. \A i : i = B + 1 => IsSC(i)'
    BY <1>6, MessageFacts DEF IsSC, prop
  <2> QED
    BY <1>2, <1>8, <1>9, <2>1, <1>d
<1>19. BroadcastInv'
  <2>1. nAbout' = nBcast'
    BY <1>5, <1>6
  <2>2. ASSUME NEW i \in 1..nBcast'
        PROVE  \/ /\ about'[i] \in 1..nIssued'
                  /\ bcast'[i] = StateChange(about'[i], issued'[about'[i]])
               \/ about'[i] \in 1..nCommitted(Leader)' /\ bcast'[i] = CommitMsg
    <3>1. CASE i = B + 1
      BY <1>2, <1>3, <1>5, <1>6, <3>1 DEF prop
    <3>2. CASE i \in 1..B /\ IsSC(i)
      <4>1. about[i] \in 1..P
        BY <1>2, <1>17, <3>2
      <4> QED
        BY <1>2, <1>3, <1>5, <1>6, <1>17, <3>2, <4>1
    <3>3. CASE i \in 1..B /\ ~IsSC(i)
      BY <1>5, <1>6, <1>9, <1>17, <1>18, <3>3
    <3> QED
      BY <1>5, <1>6, <3>1, <3>2, <3>3
  <2>3. ASSUME NEW i \in 1..nBcast', NEW j \in 1..nBcast',
               i < j, IsSC(i)' <=> IsSC(j)'
        PROVE  about'[i] < about'[j]
    <3>1. CASE j = B + 1
      <4>1. i \in 1..B
        BY <1>5, <1>6, <2>3, <3>1
      <4>2. about[i] <= P /\ about[i] \in Nat
        BY <1>17, <1>18, <2>3, <3>1, <4>1
      <4> QED
        BY <1>2, <1>5, <3>1, <4>1, <4>2
    <3>2. CASE j # B + 1
      <4>1. i \in 1..B /\ j \in 1..B
        BY <1>5, <1>6, <2>3, <3>2
      <4>2. about[i] < about[j]
        BY <1>0, <1>17, <2>3, <4>1, <1>d DEF BroadcastInv
      <4> QED
        BY <1>5, <4>1, <4>2
    <3> QED
      BY <3>1, <3>2
  <2>4. ASSUME NEW k \in 1..nIssued'
        PROVE  \E i \in 1..nBcast' : IsSC(i)' /\ about'[i] = k
    <3>1. CASE k \in 1..P
      <4>1. PICK i \in 1..B : IsSC(i) /\ about[i] = k
        BY <1>0, <3>1, <1>d DEF BroadcastInv
      <4>2. i \in 1..nBcast' /\ IsSC(i)' /\ about'[i] = k
        BY <1>5, <1>6, <1>17, <4>1
      <4> QED
        BY <4>2
    <3>2. CASE k = P + 1
      <4>1. PICK i \in 1..nBcast' : i = B + 1
        BY <1>6
      <4>2. IsSC(i)' /\ about'[i] = k
        BY <1>5, <1>18, <3>2, <4>1
      <4> QED
        BY <4>2
    <3> QED
      BY <1>2, <1>3, <3>1, <3>2
  <2>5. ASSUME NEW k \in 1..nCommitted(Leader)'
        PROVE  \E j \in 1..nBcast' : ~IsSC(j)' /\ about'[j] = k
    <3>1. PICK j \in 1..B : ~IsSC(j) /\ about[j] = k
      BY <1>0, <1>18, <2>5, <1>d DEF BroadcastInv
    <3>2. j \in 1..nBcast' /\ ~IsSC(j)' /\ about'[j] = k
      BY <1>5, <1>6, <1>17, <3>1
    <3> QED
      BY <3>2
  <2>6. ASSUME NEW j \in 1..nBcast', ~IsSC(j)'
        PROVE  \E i \in 1..(j - 1) : IsSC(i)' /\ about'[i] = about'[j]
    <3>1. j \in 1..B /\ ~IsSC(j)
      <4>1. j # B + 1
        BY <1>18, <2>6
      <4> QED
        BY <1>5, <1>6, <1>17, <2>6, <4>1
    <3>2. PICK i \in 1..(j - 1) : IsSC(i) /\ about[i] = about[j]
      BY <1>0, <3>1, <1>d DEF BroadcastInv
    <3>3. i \in 1..B
      BY <1>5, <3>1, <3>2
    <3> QED
      BY <1>5, <1>17, <3>1, <3>2, <3>3
  <2> QED
    BY <2>1, <2>2, <2>3, <2>4, <2>5, <2>6 DEF BroadcastInv
<1>20. \A f \in Follower : Received(f)' = Received(f)
  BY <1>8, LeaderFacts
<1>21. CursorInv'
  <2>0. ASSUME NEW f \in Follower
        PROVE  /\ rcvd[f] <= B /\ rcvd[f] \in Nat /\ Received(f) <= P /\ Received(f) \in Nat
    BY <1>0, LeaderFacts, LenFacts, <1>d DEF CursorInv, QueueInv, Received
  <2>1. ASSUME NEW f \in Follower, NEW i \in 1..nBcast'
        PROVE  /\ IsSC(i)' => (i <= rcvd'[f] <=> about'[i] <= Received(f)')
               /\ ~IsSC(i)' => (i <= rcvd'[f] <=> about'[i] <= nCommitted(f)')
    <3>1. CASE i = B + 1
      <4>1. ~(i <= rcvd[f]) /\ ~(P + 1 <= Received(f))
        BY <1>2, <1>5, <2>0, <3>1
      <4> QED
        BY <1>1, <1>5, <1>18, <1>20, <3>1, <4>1
    <3>2. CASE i # B + 1
      <4>1. i \in 1..B
        BY <1>5, <1>6, <3>2
      <4>2. /\ IsSC(i) => (i <= rcvd[f] <=> about[i] <= Received(f))
            /\ ~IsSC(i) => (i <= rcvd[f] <=> about[i] <= nCommitted(f))
        BY <1>0, <4>1, <1>d DEF CursorInv
      <4> QED
        BY <1>1, <1>5, <1>8, <1>17, <1>20, <4>1, <4>2, ZenonT(40)
    <3> QED
      BY <3>1, <3>2
  <2>2. \A f \in Follower : rcvd'[f] <= nBcast'
    BY SMTT(60), <1>1, <1>5, <1>6, <2>0
  <2> QED
    BY <2>1, <2>2 DEF CursorInv
<1>22. AckInv'
  BY <1>0, <1>1, <1>20, FrameAck
<1>23. TrackerInv'
  <2>1. \A k : Ackers(k)' = Ackers(k)
    BY <1>1 DEF Ackers
  <2>2. Cardinality(Ackers(P + 1)) = 0
    <3>1. ASSUME NEW f \in Follower PROVE ~(acked[f] >= P + 1)
      <4>1. /\ acked[f] \in Nat /\ nAcks(f) \in Nat /\ Received(f) \in Nat
            /\ acked[f] + nAcks(f) <= Received(f) /\ Received(f) <= P
        BY <1>0, LenFacts, LeaderFacts, <1>d DEF AckInv, QueueInv, Received
      <4> QED
        BY <1>2, <4>1
    <3>2. Ackers(P + 1) = {}
      BY <3>1 DEF Ackers
    <3> QED
      BY <3>2, FS_EmptySet
  <2>4. ASSUME NEW k \in 1..nIssued'
        PROVE  IF k <= nCommitted(Leader)'
               THEN ackTracker'[k] + maxCount = Cardinality(Ackers(k)')
               ELSE /\ ackTracker'[k] = Cardinality(Ackers(k)') + 1
                    /\ Cardinality(Ackers(k)') < maxCount
    <3>1. CASE k = P + 1
      BY <1>2, <1>4, <1>9, <1>18, <2>1, <2>2, <3>1, MajorityFacts
    <3>2. CASE k # P + 1
      <4>1. k \in 1..P
        BY <1>2, <1>3, <3>2
      <4>2. IF k <= C
            THEN ackTracker[k] + maxCount = Cardinality(Ackers(k))
            ELSE /\ ackTracker[k] = Cardinality(Ackers(k)) + 1
                 /\ Cardinality(Ackers(k)) < maxCount
        BY <1>0, <4>1, <1>d DEF TrackerInv
      <4> QED
        BY <1>4, <1>18, <2>1, <4>1, <4>2
    <3> QED
      BY <3>1, <3>2
  <2> QED
    BY <2>4 DEF TrackerInv
<1>24. RequestInv'
  <2>0. submitted' = submitted
    BY <1>1
  <2>1. /\ nReqs(s) \in Nat /\ nReqs(s) >= 1
        /\ nReqs(s)' = nReqs(s) - 1
        /\ \A i \in 1..(nReqs(s) - 1) : reqs'[s][i] = reqs[s][i + 1]
        /\ \A u \in Server : u # s => reqs'[u] = reqs[u] /\ nReqs(u)' = nReqs(u)
    BY <1>0, <1>1, DequeueFacts DEF TypeOK, nReqs
  <2>2. r \in submitted /\ Origin[r] = s
    BY <1>0, <1>2, <2>1 DEF RequestInv
  <2>3. ASSUME NEW u \in Server, NEW i \in 1..nReqs(u)'
        PROVE  /\ reqs'[u][i] \in submitted'
               /\ Origin[reqs'[u][i]] = u
               /\ \A j \in 1..nReqs(u)' : reqs'[u][i] = reqs'[u][j] => i = j
               /\ \A k \in 1..nIssued : issued[k] # reqs'[u][i]
               /\ r # reqs'[u][i]
    <3>1. CASE u # s
      BY <1>0, <1>1, <2>1, <2>2, <2>3, <3>1 DEF RequestInv
    <3>2. CASE u = s
      <4>1. \A j \in 1..nReqs(s)' : j + 1 \in 1..nReqs(s) /\ reqs'[s][j] = reqs[s][j + 1]
        BY <2>1
      <4>2. i \in 1..nReqs(s)'
        BY <2>3, <3>2
      <4>3. \A j \in 1..nReqs(s) : reqs[s][i + 1] = reqs[s][j] => i + 1 = j
        BY <1>0, <4>1, <4>2 DEF RequestInv
      <4>4. ASSUME NEW j \in 1..nReqs(s)', reqs'[s][i] = reqs'[s][j]
            PROVE  i = j
        <5>1. reqs[s][i + 1] = reqs[s][j + 1] /\ j + 1 \in 1..nReqs(s)
          BY <4>1, <4>2, <4>4
        <5>2. i + 1 = j + 1 /\ i \in Int /\ j \in Int
          BY <4>2, <4>3, <5>1
        <5> QED
          BY <5>2
      <4>5. r # reqs[s][i + 1]
        <5>1. 1 \in 1..nReqs(s) /\ i + 1 # 1
          BY <2>1, <4>2
        <5> QED
          BY <1>2, <4>3, <5>1
      <4>6. /\ reqs[s][i + 1] \in submitted /\ Origin[reqs[s][i + 1]] = s
            /\ \A k \in 1..nIssued : issued[k] # reqs[s][i + 1]
        BY <1>0, <4>1, <4>2 DEF RequestInv
      <4> QED
        BY <2>0, <3>2, <4>1, <4>2, <4>4, <4>5, <4>6
    <3> QED
      BY <3>1, <3>2
  <2>4. ASSUME NEW k \in 1..nIssued'
        PROVE  /\ issued'[k] \in submitted'
               /\ \A u \in Server : \A i \in 1..nReqs(u)' : issued'[k] # reqs'[u][i]
    <3>1. CASE k = P + 1
      BY <2>0, <1>3, <2>2, <2>3, <3>1
    <3>2. CASE k # P + 1
      <4>1. k \in 1..P
        BY <1>2, <1>3, <3>2
      <4>2. issued[k] \in submitted
        BY <1>0, <4>1, <1>d DEF RequestInv
      <4> QED
        BY <2>0, <1>3, <2>3, <4>1, <4>2, <1>d
    <3> QED
      BY <3>1, <3>2
  <2> QED
    BY <2>3, <2>4 DEF RequestInv
<1>f. FollowInv'
  BY <1>1, FrameFollow DEF IInv
<1> QED
  BY <1>f, <1>10, <1>11, <1>12, <1>19, <1>21, <1>22, <1>23, <1>24 DEF IInv

-----------------------------------------------------------------------------
(* The disk *)

\* proposalWriter moving a proposal to the log preserves the invariant.
LEMMA WriterStep ==
  ASSUME IInv, TypeOK', NEW s \in Server, proposalWriter(s)
  PROVE  IInv'
<1>0. TypeOK /\ QueueInv
  BY DEF IInv
<1>1. /\ UNCHANGED <<zxidCounter, ackTracker, proposalsQueue, committed, acks, bcast, rcvd,
                    crashed, exited, issued, about, acked, submitted, reqs>>
      /\ newProposalChan[s] # << >>
      /\ log' = [log EXCEPT ![s] = Append(@, dequeue(newProposalChan[s]))]
      /\ newProposalChan' = [newProposalChan EXCEPT ![s] = Tail(@)]
  BY DEF proposalWriter, channels, faults, aux, dequeue
<1>2. /\ \A u : nCommitted(u)' = nCommitted(u)
      /\ \A u : Received(u)' = Received(u)
      /\ nIssued' = nIssued
  BY <1>1 DEF Received, nCommitted, nQueued, nIssued
<1>3. NoFatal' /\ CoordinatorInv' /\ BroadcastInv' /\ CursorInv'
  BY <1>1, <1>2, FrameCoordinator, FrameBroadcast, FrameCursor DEF IInv, NoFatal
<1>4. AckInv' /\ TrackerInv' /\ RequestInv'
  BY <1>1, <1>2, FrameAck, FrameTracker, FrameRequest DEF IInv
<1>5. QueueInv'
  <2>1. /\ log[s] \in Seq(Proposal) /\ newProposalChan[s] \in Seq(Proposal)
        /\ log'[s] = Append(log[s], dequeue(newProposalChan[s]))
        /\ newProposalChan'[s] = Tail(newProposalChan[s])
        /\ \A u \in Server : u # s => log'[u] = log[u]
                                      /\ newProposalChan'[u] = newProposalChan[u]
    BY <1>0, <1>1 DEF TypeOK
  <2>2. PICK l \in Nat : l = nLogged(s)
    BY <1>0, LenFacts
  <2>3. dequeue(newProposalChan[s]) \in Proposal
    BY <1>1, <2>1, DequeueFacts
  <2>4. /\ Slice(newProposalChan'[s], l + 1, issued)
        /\ dequeue(newProposalChan[s]) = StateChange(l + 1, issued[l + 1])
    <3>1. Slice(newProposalChan[s], l, issued)
      BY <1>0, <2>2 DEF QueueInv
    <3> QED
      <4>1. newProposalChan[s] \in Seq(Proposal) /\ newProposalChan[s] # << >>
        BY <1>1, <2>1
      <4>2. newProposalChan'[s] = Tail(newProposalChan[s])
        BY <2>1
      <4> QED
        BY <2>2, <3>1, <4>1, <4>2, SliceTail
  <2>5. Slice(log'[s], 0, issued)
    <3>1. Slice(log[s], 0, issued)
      BY <1>0 DEF QueueInv
    <3>2. Len(log[s]) = l /\ 0 + l + 1 = l + 1
      BY <2>2 DEF nLogged
    <3> QED
      BY <2>1, <2>3, <2>4, <3>1, <3>2, SliceAppend
  <2>6. nLogged(s)' = l + 1
    BY <2>1, <2>2, <2>3, AppendFacts DEF nLogged
  <2>7. nToLog(s)' = nToLog(s) - 1 /\ nToLog(s) \in Nat
    BY ZenonT(60), <1>1, <2>1, DequeueFacts DEF nToLog
  <2>8. \A u \in Server : u # s => nLogged(u)' = nLogged(u) /\ nToLog(u)' = nToLog(u)
    BY <2>1 DEF nLogged, nToLog
  <2>9. ASSUME NEW u \in Server
        PROVE  /\ Received(u)' <= nIssued'
               /\ nLogged(u)' + nToLog(u)' = Received(u)'
               /\ Slice(committed[u], 0, issued)
               /\ Slice(proposalsQueue[u], nCommitted(u)', issued)
               /\ Slice(log'[u], 0, issued)
               /\ Slice(newProposalChan'[u], nLogged(u)', issued)
    <3>1. /\ Received(u) <= nIssued
          /\ nLogged(u) + nToLog(u) = Received(u)
          /\ Slice(committed[u], 0, issued)
          /\ Slice(proposalsQueue[u], nCommitted(u), issued)
          /\ Slice(log[u], 0, issued)
          /\ Slice(newProposalChan[u], nLogged(u), issued)
      BY <1>0 DEF QueueInv
    <3>2. CASE u # s
      BY <1>2, <2>1, <2>8, <3>1, <3>2
    <3>3. CASE u = s
      <4>1. nLogged(s)' + nToLog(s)' = Received(s)
        BY <2>2, <2>6, <2>7, <3>1, <3>3
      <4> QED
        BY <1>2, <2>4, <2>5, <2>6, <3>1, <3>3, <4>1
    <3> QED
      BY <3>2, <3>3
  <2>10. issued' = issued /\ committed' = committed /\ proposalsQueue' = proposalsQueue
    BY <1>1
  <2> QED
    BY ZenonT(60), <2>9, <2>10 DEF QueueInv, Slice
<1>f. FollowInv'
  BY <1>1, FrameFollow DEF IInv
<1> QED
  BY <1>f, <1>3, <1>4, <1>5 DEF IInv

-----------------------------------------------------------------------------
(* Proposals and commits at a follower *)

\* The next StateChange a follower takes is the one it lacks.
LEMMA NextStateChange ==
  ASSUME IInv, NEW f \in Follower, NEW n, n = rcvd[f] + 1, n <= nBcast, IsSC(n)
  PROVE  /\ n \in 1..nBcast
         /\ about[n] = Received(f) + 1
         /\ Received(f) + 1 <= nIssued
         /\ bcast[n] = StateChange(Received(f) + 1, issued[Received(f) + 1])
<1>0. TypeOK /\ BroadcastInv /\ CursorInv
  BY DEF IInv
<1>1. PICK R \in Nat, P \in Nat, B \in Nat : R = Received(f) /\ P = nIssued /\ B = nBcast
  BY <1>0, LenFacts, LeaderFacts DEF Received
<1>2. rcvd[f] \in Nat /\ n \in 1..B
  BY <1>0, <1>1, LenFacts
<1>3. about[n] \in 1..P /\ bcast[n] = StateChange(about[n], issued[about[n]])
  BY <1>0, <1>1, <1>2, MessageFacts DEF BroadcastInv, IsSC
<1>4. about[n] > R
  <2>1. n <= rcvd[f] <=> about[n] <= R
    BY <1>0, <1>1, <1>2 DEF CursorInv
  <2> QED
    BY <1>2, <1>3, <2>1
<1>5. about[n] = R + 1
  <2>1. PICK m \in 1..B : IsSC(m) /\ about[m] = R + 1
    <3>1. R + 1 \in 1..P
      BY <1>3, <1>4
    <3> QED
      BY <1>0, <1>1, <3>1 DEF BroadcastInv
  <2>2. m <= rcvd[f] <=> about[m] <= R
    BY <1>0, <1>1, <2>1 DEF CursorInv
  <2>3. ~(n < m)
    <3>1. n < m => about[n] < about[m]
      BY <1>0, <1>1, <1>2, <2>1 DEF BroadcastInv
    <3> QED
      BY <1>3, <1>4, <2>1, <3>1
  <2>4. m = n
    BY <1>2, <2>1, <2>2, <2>3
  <2> QED
    BY <2>1, <2>4
<1> QED
  BY <1>1, <1>2, <1>3, <1>5

\* The next Commit a follower takes is for a proposal it has queued, and that
\* the coordinator has committed.
LEMMA NextCommit ==
  ASSUME IInv, NEW f \in Follower, NEW n, n = rcvd[f] + 1, n <= nBcast, ~IsSC(n)
  PROVE  /\ n \in 1..nBcast
         /\ about[n] = nCommitted(f) + 1
         /\ nCommitted(f) + 1 <= Received(f)
         /\ nCommitted(f) + 1 <= nCommitted(Leader)
<1>0. TypeOK /\ BroadcastInv /\ CursorInv
  BY DEF IInv
<1>1. PICK R \in Nat, C \in Nat, c \in Nat, B \in Nat :
        R = Received(f) /\ C = nCommitted(Leader) /\ c = nCommitted(f) /\ B = nBcast
  BY <1>0, LenFacts, LeaderFacts DEF Received
<1>2. rcvd[f] \in Nat /\ n \in 1..B
  BY <1>0, <1>1, LenFacts
<1>3. about[n] \in 1..C
  BY <1>0, <1>1, <1>2, MessageFacts DEF BroadcastInv, IsSC
<1>4. about[n] > c
  <2>1. n <= rcvd[f] <=> about[n] <= c
    BY <1>0, <1>1, <1>2 DEF CursorInv
  <2> QED
    BY <1>2, <1>3, <2>1
<1>5. about[n] = c + 1
  <2>1. PICK m \in 1..B : ~IsSC(m) /\ about[m] = c + 1
    <3>1. c + 1 \in 1..C
      BY <1>3, <1>4
    <3> QED
      BY <1>0, <1>1, <3>1 DEF BroadcastInv
  <2>2. m <= rcvd[f] <=> about[m] <= c
    BY <1>0, <1>1, <2>1 DEF CursorInv
  <2>3. ~(n < m)
    <3>1. n < m => about[n] < about[m]
      BY <1>0, <1>1, <1>2, <2>1 DEF BroadcastInv
    <3> QED
      BY <1>3, <1>4, <2>1, <3>1
  <2>4. m = n
    BY <1>2, <2>1, <2>2, <2>3
  <2> QED
    BY <2>1, <2>4
<1>6. c + 1 <= R
  <2>1. PICK m \in 1..(n - 1) : IsSC(m) /\ about[m] = about[n]
    BY <1>0, <1>1, <1>2 DEF BroadcastInv
  <2>2. m \in 1..B /\ m <= rcvd[f]
    BY <1>2, <2>1
  <2>3. m <= rcvd[f] <=> about[m] <= R
    BY <1>0, <1>1, <2>1, <2>2 DEF CursorInv
  <2> QED
    BY <1>5, <2>1, <2>2, <2>3
<1> QED
  BY <1>1, <1>2, <1>3, <1>5, <1>6

\* processStateChangeProposal preserves the invariant.
LEMMA StateChangeStep ==
  ASSUME IInv, TypeOK', NEW f \in Follower, processStateChangeProposal(f)
  PROVE  IInv'
<1>0. /\ TypeOK /\ QueueInv /\ CoordinatorInv /\ BroadcastInv /\ CursorInv /\ AckInv
      /\ f \in Server /\ f # Leader
  BY LeaderFacts DEF IInv
<1>d. PICK R \in Nat, P \in Nat, B \in Nat, n \in Nat :
        R = Received(f) /\ P = nIssued /\ B = nBcast /\ n = rcvd[f] + 1
  BY <1>0, LenFacts DEF Received
<1>1. /\ UNCHANGED <<ackTracker, log, committed, bcast, crashed, exited, submitted, issued,
                    about, acked, reqs>>
      /\ n <= B /\ IsSC(n)
      /\ Up(f)
      /\ zxidCounter' = [zxidCounter EXCEPT ![f] = bcast[n].CountNum]
      /\ acks' = [acks EXCEPT ![f] = Append(@, bcast[n].CountNum)]
      /\ newProposalChan' = [newProposalChan EXCEPT ![f] = Append(@, bcast[n])]
      /\ proposalsQueue' = [proposalsQueue EXCEPT ![f] = Append(@, bcast[n])]
      /\ rcvd' = [rcvd EXCEPT ![f] = n]
  <2>1. rcvd[f] < nBcast => n <= B
    BY <1>0, <1>d, LenFacts
  <2> QED
    BY <1>d, <2>1 DEF processStateChangeProposal, queueWriteProposal, faults, aux, IsSC, nBcast
<1>2. /\ n \in 1..B /\ about[n] = R + 1 /\ R + 1 <= P
      /\ bcast[n] = StateChange(R + 1, issued[R + 1])
      /\ bcast[n].CountNum = R + 1
  BY <1>d, <1>1, NextStateChange, MessageFacts
<1>3. bcast[n] \in Proposal
  <2>1. issued[R + 1] \in Request
    BY <1>0, <1>d, <1>2, ElementFacts
  <2> QED
    BY <1>2, <2>1 DEF StateChange, Proposal
<1>4. /\ zxidCounter'[Leader] = zxidCounter[Leader]
      /\ acks'[f] = Append(acks[f], R + 1)
      /\ newProposalChan'[f] = Append(newProposalChan[f], bcast[n])
      /\ proposalsQueue'[f] = Append(proposalsQueue[f], bcast[n])
      /\ rcvd'[f] = n
      /\ \A u \in Server : u # f => /\ newProposalChan'[u] = newProposalChan[u]
                                    /\ proposalsQueue'[u] = proposalsQueue[u]
      /\ \A g \in Follower : g # f => acks'[g] = acks[g] /\ rcvd'[g] = rcvd[g]
  <2>1. /\ DOMAIN zxidCounter = Server /\ DOMAIN newProposalChan = Server
        /\ DOMAIN proposalsQueue = Server
        /\ DOMAIN acks = Follower /\ DOMAIN rcvd = Follower
    BY <1>0 DEF TypeOK
  <2>2. zxidCounter'[Leader] = zxidCounter[Leader]
    BY <1>0, <1>1, <2>1, LeaderFacts
  <2>3. /\ acks'[f] = Append(acks[f], R + 1) /\ rcvd'[f] = n
        /\ \A g \in Follower : g # f => acks'[g] = acks[g] /\ rcvd'[g] = rcvd[g]
    BY <1>1, <1>2, <2>1
  <2>4. /\ newProposalChan'[f] = Append(newProposalChan[f], bcast[n])
        /\ proposalsQueue'[f] = Append(proposalsQueue[f], bcast[n])
        /\ \A u \in Server : u # f => /\ newProposalChan'[u] = newProposalChan[u]
                                      /\ proposalsQueue'[u] = proposalsQueue[u]
    BY <1>0, <1>1, <2>1
  <2> QED
    BY <2>2, <2>3, <2>4
<1>5. /\ newProposalChan[f] \in Seq(Proposal) /\ proposalsQueue[f] \in Seq(Proposal)
      /\ acks[f] \in Seq(Nat) /\ R + 1 \in Nat
  BY <1>0 DEF TypeOK
<1>6. /\ nQueued(f)' = nQueued(f) + 1 /\ nToLog(f)' = nToLog(f) + 1
      /\ nAcks(f)' = nAcks(f) + 1
      /\ nQueued(f) \in Nat /\ nToLog(f) \in Nat /\ nAcks(f) \in Nat
  BY <1>3, <1>4, <1>5, AppendFacts, LenProperties DEF nQueued, nToLog, nAcks
<1>7. /\ \A u : nCommitted(u)' = nCommitted(u) /\ nLogged(u)' = nLogged(u)
      /\ nIssued' = nIssued /\ nBcast' = nBcast /\ \A i : IsSC(i)' = IsSC(i)
      /\ committed' = committed /\ log' = log /\ issued' = issued /\ bcast' = bcast
      /\ about' = about /\ acked' = acked
  BY <1>1 DEF nCommitted, nLogged, nIssued, nBcast, IsSC
<1>8. /\ \A u \in Server : u # f => nQueued(u)' = nQueued(u) /\ nToLog(u)' = nToLog(u)
                                    /\ Received(u)' = Received(u)
      /\ \A g \in Follower : g # f => nAcks(g)' = nAcks(g)
  BY <1>4, <1>7 DEF nQueued, nToLog, nAcks, Received
<1>9. Received(f)' = R + 1 /\ nCommitted(f) + nQueued(f) = R /\ nCommitted(f) \in Nat
  <2>1. Received(f)' = nCommitted(f)' + nQueued(f)'
    BY DEF Received
  <2>2. nCommitted(f) + nQueued(f) = R /\ nCommitted(f) \in Nat
    BY <1>0, <1>d, LenFacts DEF Received
  <2> QED
    BY <1>6, <1>7, <2>1, <2>2
<1>10. NoFatal' /\ CoordinatorInv' /\ BroadcastInv' /\ TrackerInv' /\ RequestInv'
  BY <1>0, <1>1, <1>4, <1>7, <1>8, LeaderFacts,
     FrameCoordinator, FrameBroadcast, FrameTracker, FrameRequest DEF IInv, NoFatal
<1>11. QueueInv'
  <2>1. ASSUME NEW u \in Server
        PROVE  /\ Received(u) <= P
               /\ nLogged(u) + nToLog(u) = Received(u)
               /\ Slice(committed[u], 0, issued)
               /\ Slice(proposalsQueue[u], nCommitted(u), issued)
               /\ Slice(log[u], 0, issued)
               /\ Slice(newProposalChan[u], nLogged(u), issued)
    BY <1>0, <1>d DEF QueueInv
  <2>2. Slice(proposalsQueue'[f], nCommitted(f), issued)
    <3>1. Len(proposalsQueue[f]) = nQueued(f)
      BY DEF nQueued
    <3>2. nCommitted(f) + Len(proposalsQueue[f]) + 1 = R + 1
      BY <1>9, <3>1
    <3> QED
      BY SMTT(60), <1>0, <1>2, <1>3, <1>4, <1>5, <1>9, <2>1, <3>2, SliceAppend, SMTT(30)
  <2>3. Slice(newProposalChan'[f], nLogged(f), issued)
    <3>1. Len(newProposalChan[f]) = nToLog(f) /\ nLogged(f) \in Nat
      BY <1>0, LenFacts DEF nToLog
    <3>2. nLogged(f) + Len(newProposalChan[f]) + 1 = R + 1
      BY <1>0, <1>d, <1>6, <2>1, <3>1
    <3> QED
      BY SMTT(60), <1>0, <1>2, <1>3, <1>4, <1>5, <2>1, <3>1, <3>2, SliceAppend, SMTT(30)
  <2>4. ASSUME NEW u \in Server
        PROVE  /\ Received(u)' <= nIssued'
               /\ nLogged(u)' + nToLog(u)' = Received(u)'
               /\ Slice(committed'[u], 0, issued)
               /\ Slice(proposalsQueue'[u], nCommitted(u)', issued)
               /\ Slice(log'[u], 0, issued)
               /\ Slice(newProposalChan'[u], nLogged(u)', issued)
    <3>1. CASE u # f
      BY <1>d, <1>4, <1>7, <1>8, <2>1, <3>1
    <3>2. CASE u = f
      <4>1. nLogged(f)' + nToLog(f)' = R + 1
        <5>1. nLogged(f) + nToLog(f) = R /\ nLogged(f) \in Nat
          BY <1>0, <1>d, <2>1, LenFacts
        <5> QED
          BY <1>6, <1>7, <5>1
      <4> QED
        BY <1>d, <1>2, <1>7, <1>9, <2>1, <2>2, <2>3, <3>2, <4>1
    <3> QED
      BY <3>1, <3>2
  <2> QED
    BY <1>7, <2>4 DEF QueueInv, Slice
<1>12. CursorInv'
  <2>1. ASSUME NEW g \in Follower
        PROVE  /\ rcvd[g] <= B
               /\ \A i \in 1..B : /\ IsSC(i) => (i <= rcvd[g] <=> about[i] <= Received(g))
                                  /\ ~IsSC(i) => (i <= rcvd[g] <=> about[i] <= nCommitted(g))
    BY <1>0, <1>d DEF CursorInv
  <2>2. ASSUME NEW i \in 1..B
        PROVE  /\ IsSC(i) => (i <= n <=> about[i] <= R + 1)
               /\ ~IsSC(i) => (i <= n <=> about[i] <= nCommitted(f))
    <3>1. about[i] \in Nat /\ rcvd[f] \in Nat /\ n = rcvd[f] + 1
      BY <1>0, <1>d, ElementFacts, LenFacts DEF BroadcastInv
    <3>2. /\ IsSC(i) => (i <= rcvd[f] <=> about[i] <= R)
          /\ ~IsSC(i) => (i <= rcvd[f] <=> about[i] <= nCommitted(f))
      BY <1>d, <2>1
    <3>3. CASE i = n
      BY <1>1, <1>2, <3>3
    <3>4. CASE i < n
      BY <3>1, <3>2, <3>4
    <3>5. CASE i > n /\ ~IsSC(i)
      BY <3>1, <3>2, <3>5
    <3>6. CASE i > n /\ IsSC(i)
      <4>1. about[n] < about[i]
        BY <1>0, <1>d, <1>1, <1>2, <3>6 DEF BroadcastInv
      <4> QED
        BY <1>2, <3>1, <3>6, <4>1
    <3> QED
      BY <3>3, <3>4, <3>5, <3>6
  <2>3. ASSUME NEW g \in Follower
        PROVE  /\ rcvd'[g] <= B
               /\ \A i \in 1..B : /\ IsSC(i) => (i <= rcvd'[g] <=> about[i] <= Received(g)')
                                  /\ ~IsSC(i) => (i <= rcvd'[g] <=> about[i] <= nCommitted(g)')
    <3>1. CASE g = f
      BY SMTT(60), <1>1, <1>4, <1>7, <1>9, <2>2, <3>1
    <3>2. CASE g # f
      BY <1>4, <1>7, <1>8, <2>1, <3>2, LeaderFacts
    <3> QED
      BY <3>1, <3>2
  <2> QED
    BY <1>d, <1>7, <2>3 DEF CursorInv
<1>13. AckInv'
  <2>1. ASSUME NEW g \in Follower
        PROVE  /\ acked[g] + nAcks(g) <= Received(g)
               /\ Up(g) => acked[g] + nAcks(g) = Received(g)
               /\ \A i \in 1..nAcks(g) : acks[g][i] = acked[g] + i
    BY <1>0 DEF AckInv
  <2>2. acked[f] + nAcks(f) = R /\ acked[f] \in Nat
    BY <1>0, <1>d, <1>1, <2>1, LenFacts
  <2>3. \A i \in 1..(nAcks(f) + 1) : acks'[f][i] = acked[f] + i
    <3>1. /\ \A i \in 1..nAcks(f) : acks'[f][i] = acks[f][i]
          /\ acks'[f][nAcks(f) + 1] = R + 1
      BY SMTT(60), <1>4, <1>5, AppendFacts DEF nAcks
    <3> QED
      BY <1>6, <2>1, <2>2, <3>1
  <2>4. \A g : Up(g)' = Up(g)
    BY <1>1 DEF Up
  <2>5. ASSUME NEW g \in Follower
        PROVE  /\ acked[g] + nAcks(g)' <= Received(g)'
               /\ Up(g) => acked[g] + nAcks(g)' = Received(g)'
               /\ \A i \in 1..nAcks(g)' : acks'[g][i] = acked[g] + i
    <3>1. CASE g = f
      BY <1>6, <1>9, <2>2, <2>3, <3>1
    <3>2. CASE g # f
      BY <1>4, <1>8, <2>1, <3>2, LeaderFacts
    <3> QED
      BY <3>1, <3>2
  <2> QED
    BY <1>7, <2>4, <2>5 DEF AckInv
<1>f. FollowInv'
  BY <1>1, FrameFollow DEF IInv
<1> QED
  BY <1>f, <1>10, <1>11, <1>12, <1>13 DEF IInv

\* A server that dequeues its oldest proposal has committed one more.
LEMMA CommitOne ==
  ASSUME TypeOK, QueueInv, NEW s \in Server, proposalsQueue[s] # << >>,
         processCommitProposal(s),
         UNCHANGED <<log, newProposalChan, issued>>
  PROVE  /\ QueueInv'
         /\ exited' = exited
         /\ nCommitted(s)' = nCommitted(s) + 1
         /\ Received(s)' = Received(s)
         /\ \A u \in Server : u # s => /\ nCommitted(u)' = nCommitted(u)
                                       /\ Received(u)' = Received(u)
         /\ dequeue(proposalsQueue[s]).CountNum = nCommitted(s) + 1
<1>1. /\ committed' = [committed EXCEPT ![s] = Append(@, dequeue(proposalsQueue[s]))]
      /\ proposalsQueue' = [proposalsQueue EXCEPT ![s] = Tail(@)]
      /\ exited' = exited
  BY DEF processCommitProposal
<1>2. /\ committed[s] \in Seq(Proposal) /\ proposalsQueue[s] \in Seq(Proposal)
      /\ committed'[s] = Append(committed[s], dequeue(proposalsQueue[s]))
      /\ proposalsQueue'[s] = Tail(proposalsQueue[s])
      /\ \A u \in Server : u # s => committed'[u] = committed[u]
                                    /\ proposalsQueue'[u] = proposalsQueue[u]
  BY <1>1 DEF TypeOK
<1>3. PICK c \in Nat : c = nCommitted(s)
  BY LenFacts
<1>4. /\ dequeue(proposalsQueue[s]) \in Proposal
      /\ nQueued(s)' = nQueued(s) - 1 /\ nQueued(s) \in Nat
  BY <1>2, DequeueFacts DEF nQueued
<1>5. nCommitted(s)' = c + 1
  BY <1>2, <1>3, <1>4, AppendFacts DEF nCommitted
<1>6. Received(s)' = Received(s)
  BY <1>3, <1>4, <1>5 DEF Received
<1>7. \A u \in Server : u # s => nCommitted(u)' = nCommitted(u) /\ Received(u)' = Received(u)
  BY <1>2 DEF nCommitted, nQueued, Received
<1>8. /\ Slice(proposalsQueue'[s], c + 1, issued)
      /\ dequeue(proposalsQueue[s]) = StateChange(c + 1, issued[c + 1])
  <2>1. Slice(proposalsQueue[s], c, issued)
    BY <1>3 DEF QueueInv
  <2> QED
    BY <1>2, <2>1, SliceTail
<1>9. Slice(committed'[s], 0, issued)
  <2>1. Slice(committed[s], 0, issued)
    BY DEF QueueInv
  <2>2. Len(committed[s]) = c /\ 0 + c + 1 = c + 1
    BY <1>3 DEF nCommitted
  <2> QED
    BY <1>2, <1>4, <1>8, <2>1, <2>2, SliceAppend
<1>10. \A u : nLogged(u)' = nLogged(u) /\ nToLog(u)' = nToLog(u)
  BY DEF nLogged, nToLog
<1>11. nIssued' = nIssued
  BY DEF nIssued
<1>12. ASSUME NEW u \in Server
       PROVE  /\ Received(u)' <= nIssued'
              /\ nLogged(u)' + nToLog(u)' = Received(u)'
              /\ Slice(committed'[u], 0, issued)
              /\ Slice(proposalsQueue'[u], nCommitted(u)', issued)
              /\ Slice(log[u], 0, issued)
              /\ Slice(newProposalChan[u], nLogged(u)', issued)
  <2>1. /\ Received(u) <= nIssued
        /\ nLogged(u) + nToLog(u) = Received(u)
        /\ Slice(committed[u], 0, issued)
        /\ Slice(proposalsQueue[u], nCommitted(u), issued)
        /\ Slice(log[u], 0, issued)
        /\ Slice(newProposalChan[u], nLogged(u), issued)
    BY DEF QueueInv
  <2>2. CASE u = s
    BY <1>5, <1>6, <1>8, <1>9, <1>10, <1>11, <2>1, <2>2
  <2>3. CASE u # s
    BY <1>2, <1>7, <1>10, <1>11, <2>1, <2>3
  <2> QED
    BY <2>2, <2>3
<1>13. QueueInv'
  BY ZenonT(60), <1>12, ZenonT(40) DEF QueueInv, Slice
<1> QED
  BY <1>1, <1>3, <1>5, <1>6, <1>7, <1>8, <1>13, MessageFacts

\* processCommitProposal preserves the invariant, and finds a proposal to commit.
LEMMA CommitStep ==
  ASSUME IInv, TypeOK', NEW f \in Follower, processCommit(f)
  PROVE  IInv'
<1>0. /\ TypeOK /\ QueueInv /\ CoordinatorInv /\ BroadcastInv /\ CursorInv /\ AckInv
      /\ f \in Server /\ f # Leader
  BY LeaderFacts DEF IInv
<1>d. PICK R \in Nat, c \in Nat, B \in Nat, n \in Nat :
        R = Received(f) /\ c = nCommitted(f) /\ B = nBcast /\ n = rcvd[f] + 1
  BY <1>0, LenFacts DEF Received
<1>1. /\ UNCHANGED <<zxidCounter, ackTracker, newProposalChan, log, reqs, acks, bcast, crashed,
                    submitted, issued, about, acked>>
      /\ n <= B /\ ~IsSC(n)
      /\ processCommitProposal(f)
      /\ rcvd' = [rcvd EXCEPT ![f] = n]
  <2>1. rcvd[f] < nBcast => n <= B
    BY <1>0, <1>d, LenFacts
  <2> QED
    BY <1>d, <2>1, MessageFacts DEF processCommit, aux, IsSC, nBcast
<1>2. n \in 1..B /\ about[n] = c + 1 /\ c + 1 <= R /\ c + 1 <= nCommitted(Leader)
  BY <1>d, <1>1, NextCommit
<1>3. proposalsQueue[f] # << >>
  <2>1. nQueued(f) \in Nat /\ c + nQueued(f) = R
    BY <1>0, <1>d, LenFacts DEF Received
  <2>2. nQueued(f) # 0
    BY <1>2, <2>1
  <2> QED
    BY <2>2, EmptySeq DEF nQueued
<1>4. /\ QueueInv'
      /\ exited' = exited
      /\ nCommitted(f)' = c + 1
      /\ Received(f)' = R
      /\ \A u \in Server : u # f => /\ nCommitted(u)' = nCommitted(u)
                                    /\ Received(u)' = Received(u)
  BY <1>0, <1>d, <1>1, <1>3, CommitOne
<1>5. /\ nIssued' = nIssued /\ nBcast' = nBcast /\ \A i : IsSC(i)' = IsSC(i)
      /\ about' = about
  BY <1>1 DEF nIssued, nBcast, IsSC
<1>6. /\ nCommitted(Leader)' = nCommitted(Leader)
      /\ Received(Leader)' = Received(Leader)
      /\ \A g \in Follower : Received(g)' = Received(g)
  BY <1>0, <1>d, <1>4, LeaderFacts
<1>7. NoFatal' /\ CoordinatorInv' /\ BroadcastInv' /\ TrackerInv' /\ RequestInv' /\ AckInv'
  BY <1>0, <1>1, <1>4, <1>6, FrameCoordinator, FrameBroadcast, FrameTracker, FrameRequest,
     FrameAck DEF IInv, NoFatal
<1>8. rcvd'[f] = n /\ \A g \in Follower : g # f => rcvd'[g] = rcvd[g]
  BY <1>0, <1>1 DEF TypeOK
<1>9. CursorInv'
  <2>1. ASSUME NEW g \in Follower
        PROVE  /\ rcvd[g] <= B
               /\ \A i \in 1..B : /\ IsSC(i) => (i <= rcvd[g] <=> about[i] <= Received(g))
                                  /\ ~IsSC(i) => (i <= rcvd[g] <=> about[i] <= nCommitted(g))
    BY <1>0, <1>d DEF CursorInv
  <2>2. ASSUME NEW i \in 1..B
        PROVE  /\ IsSC(i) => (i <= n <=> about[i] <= R)
               /\ ~IsSC(i) => (i <= n <=> about[i] <= c + 1)
    <3>1. about[i] \in Nat /\ rcvd[f] \in Nat /\ n = rcvd[f] + 1
      BY <1>0, <1>d, ElementFacts, LenFacts DEF BroadcastInv
    <3>2. /\ IsSC(i) => (i <= rcvd[f] <=> about[i] <= R)
          /\ ~IsSC(i) => (i <= rcvd[f] <=> about[i] <= c)
      BY <1>d, <2>1
    <3>3. CASE i = n
      BY <1>1, <1>2, <3>3
    <3>4. CASE i < n
      BY <3>1, <3>2, <3>4
    <3>5. CASE i > n /\ IsSC(i)
      BY <3>1, <3>2, <3>5
    <3>6. CASE i > n /\ ~IsSC(i)
      <4>1. about[n] < about[i]
        BY <1>0, <1>d, <1>1, <1>2, <3>6 DEF BroadcastInv
      <4> QED
        BY <1>2, <3>1, <3>6, <4>1
    <3> QED
      BY <3>3, <3>4, <3>5, <3>6
  <2>3. ASSUME NEW g \in Follower
        PROVE  /\ rcvd'[g] <= B
               /\ \A i \in 1..B : /\ IsSC(i) => (i <= rcvd'[g] <=> about[i] <= Received(g)')
                                  /\ ~IsSC(i) => (i <= rcvd'[g] <=> about[i] <= nCommitted(g)')
    <3>1. CASE g = f
      BY <1>1, <1>4, <1>8, <2>2, <3>1
    <3>2. CASE g # f
      BY <1>4, <1>8, <2>1, <3>2, LeaderFacts
    <3> QED
      BY <3>1, <3>2
  <2> QED
    BY <1>d, <1>5, <2>3 DEF CursorInv
<1>10. FollowInv'
  <2>1. \A g \in Follower : nCommitted(g) <= nCommitted(Leader)
    BY DEF IInv, FollowInv
  <2>2. ASSUME NEW g \in Follower PROVE nCommitted(g)' <= nCommitted(Leader)
    <3>1. CASE g = f
      BY <1>2, <1>4, <3>1
    <3>2. CASE g # f
      BY <1>4, <2>1, <3>2, LeaderFacts
    <3> QED
      BY <3>1, <3>2
  <2> QED
    BY <1>6, <2>2 DEF FollowInv
<1> QED
  BY <1>10, <1>4, <1>7, <1>9 DEF IInv

\* The crash of a follower preserves the invariant.
LEMMA CrashStep ==
  ASSUME IInv, TypeOK', NEW f \in Follower, Crash(f)
  PROVE  IInv'
<1>0. TypeOK /\ RequestInv /\ AckInv /\ f \in Server
  BY LeaderFacts DEF IInv
<1>1. UNCHANGED <<zxidCounter, ackTracker, proposalsQueue, newProposalChan, log, committed,
                  bcast, rcvd, exited, submitted, issued, about, acked>>
  BY DEF Crash, queues, aux
<1>2. /\ \A u : nCommitted(u)' = nCommitted(u)
      /\ \A u : Received(u)' = Received(u)
      /\ nIssued' = nIssued
  BY <1>1 DEF Received, nCommitted, nQueued, nIssued
<1>3. NoFatal' /\ QueueInv' /\ CoordinatorInv' /\ BroadcastInv' /\ CursorInv' /\ TrackerInv'
  BY <1>1, <1>2, FrameQueue, FrameCoordinator, FrameBroadcast, FrameCursor, FrameTracker
     DEF IInv, NoFatal
<1>4. AckInv'
  <2>1. PICK n \in 0..Len(acks[f]) : acks' = [acks EXCEPT ![f] = SubSeq(@, 1, n)]
    BY DEF Crash
  <2>2. acks[f] \in Seq(Nat) /\ acks'[f] = SubSeq(acks[f], 1, n)
        /\ \A g \in Follower : g # f => acks'[g] = acks[g]
    BY <1>0, <2>1 DEF TypeOK
  <2>3. /\ nAcks(f)' = n /\ n <= nAcks(f) /\ nAcks(f) \in Nat /\ n \in Nat
        /\ \A i \in 1..n : acks'[f][i] = acks[f][i]
    BY <2>2, PrefixFacts, LenProperties DEF nAcks
  <2>4. \A g \in Follower : g # f => nAcks(g)' = nAcks(g)
    BY <2>2 DEF nAcks
  <2>5. ~Up(f)' /\ \A g \in Follower : Up(g)' => Up(g)
    BY <1>1 DEF Crash, Up
  <2>6. ASSUME NEW g \in Follower
        PROVE  /\ acked[g] + nAcks(g)' <= Received(g)
               /\ Up(g)' => acked[g] + nAcks(g)' = Received(g)
               /\ \A i \in 1..nAcks(g)' : acks'[g][i] = acked[g] + i
    <3>1. /\ acked[g] + nAcks(g) <= Received(g)
          /\ Up(g) => acked[g] + nAcks(g) = Received(g)
          /\ \A i \in 1..nAcks(g) : acks[g][i] = acked[g] + i
          /\ acked[g] \in Nat /\ Received(g) \in Nat
      <4>1. acked[g] \in Nat /\ Received(g) \in Nat
        <5>1. g \in Server
          BY LeaderFacts
        <5>2. acked[g] \in Nat /\ nCommitted(g) \in Nat /\ nQueued(g) \in Nat
          BY <1>0, <5>1, LenFacts
        <5> QED
          BY <5>2 DEF Received
      <4> QED
        BY <1>0, <4>1 DEF AckInv
    <3>2. CASE g = f
      BY <2>3, <2>5, <3>1, <3>2
    <3>3. CASE g # f
      BY <2>2, <2>4, <2>5, <3>1, <3>3
    <3> QED
      BY <3>2, <3>3
  <2>7. acked' = acked
    BY <1>1
  <2> QED
    BY <1>2, <2>6, <2>7 DEF AckInv
<1>5. RequestInv'
  <2>1. PICK n \in 0..Len(reqs[f]) : reqs' = [reqs EXCEPT ![f] = SubSeq(@, 1, n)]
    BY DEF Crash
  <2>2. reqs[f] \in Seq(Request) /\ reqs'[f] = SubSeq(reqs[f], 1, n)
        /\ \A u \in Server : u # f => reqs'[u] = reqs[u]
    BY <1>0, <2>1 DEF TypeOK
  <2>3. /\ nReqs(f)' = n /\ n <= nReqs(f) /\ nReqs(f) \in Nat /\ n \in Nat
        /\ \A i \in 1..n : reqs'[f][i] = reqs[f][i]
    BY <2>2, PrefixFacts, LenProperties DEF nReqs
  <2>4. \A u \in Server : u # f => nReqs(u)' = nReqs(u)
    BY <2>2 DEF nReqs
  <2>5. ASSUME NEW u \in Server
        PROVE  \A i \in 1..nReqs(u)' : i \in 1..nReqs(u) /\ reqs'[u][i] = reqs[u][i]
    <3>1. CASE u = f
      BY <2>3, <3>1
    <3>2. CASE u # f
      BY <2>2, <2>4, <3>2
    <3> QED
      BY <3>1, <3>2
  <2>6. submitted' = submitted /\ issued' = issued
    BY <1>1
  <2>7. ASSUME NEW u \in Server, NEW i \in 1..nReqs(u)'
        PROVE  /\ reqs'[u][i] \in submitted
               /\ Origin[reqs'[u][i]] = u
               /\ \A j \in 1..nReqs(u)' : reqs'[u][i] = reqs'[u][j] => i = j
               /\ \A k \in 1..nIssued : issued[k] # reqs'[u][i]
    BY <1>0, <2>5, <2>7 DEF RequestInv
  <2>8. \A k \in 1..nIssued : issued[k] \in submitted
    BY <1>0 DEF RequestInv
  <2> QED
    BY <1>2, <2>6, <2>7, <2>8 DEF RequestInv
<1>f. FollowInv'
  BY <1>1, FrameFollow DEF IInv
<1> QED
  BY <1>f, <1>3, <1>4, <1>5 DEF IInv

-----------------------------------------------------------------------------
(* Acknowledgements at the coordinator *)

\* Handling an ACK of k adds its sender to Ackers(k) and to no other set.
LEMMA AckersGrow ==
  ASSUME TypeOK, NEW f \in Follower, NEW k, k = acked[f] + 1,
         acked' = [acked EXCEPT ![f] = @ + 1]
  PROVE  /\ \A j \in Nat : j # k => Ackers(j)' = Ackers(j)
         /\ Cardinality(Ackers(k)') = Cardinality(Ackers(k)) + 1
         /\ f \notin Ackers(k)
<1>1. /\ acked[f] \in Nat /\ k \in Nat
      /\ acked'[f] = k
      /\ \A g \in Follower : g # f => acked'[g] = acked[g]
      /\ \A g \in Follower : acked[g] \in Nat
  BY DEF TypeOK
<1>2. ASSUME NEW j \in Nat, j # k PROVE Ackers(j)' = Ackers(j)
  <2>1. \A g \in Follower : acked'[g] >= j <=> acked[g] >= j
    BY <1>1, <1>2
  <2> QED
    BY <2>1 DEF Ackers
<1>3. f \notin Ackers(k)
  BY <1>1 DEF Ackers
<1>4. Ackers(k)' = Ackers(k) \cup {f}
  <2>1. \A g \in Follower : acked'[g] >= k <=> (acked[g] >= k \/ g = f)
    BY <1>1
  <2> QED
    BY <2>1 DEF Ackers
<1>5. Cardinality(Ackers(k) \cup {f}) = Cardinality(Ackers(k)) + 1
  BY <1>3, AckersFacts, FS_AddElement
<1> QED
  BY <1>2, <1>3, <1>4, <1>5

\* Whoever has acknowledged k has acknowledged what came before.
LEMMA AckersShrink ==
  ASSUME TypeOK, NEW f \in Follower, NEW k \in Nat, k > 1, f \notin Ackers(k),
         acked[f] + 1 = k
  PROVE  Cardinality(Ackers(k)) + 1 <= Cardinality(Ackers(k - 1))
<1>1. \A g \in Follower : acked[g] \in Nat
  BY DEF TypeOK
<1>2. Ackers(k) \cup {f} \subseteq Ackers(k - 1)
  BY <1>1 DEF Ackers
<1>3. /\ IsFiniteSet(Ackers(k) \cup {f})
      /\ Cardinality(Ackers(k) \cup {f}) = Cardinality(Ackers(k)) + 1
  BY AckersFacts, FS_AddElement
<1>4. IsFiniteSet(Ackers(k - 1))
  BY AckersFacts
<1>5. Cardinality(Ackers(k) \cup {f}) <= Cardinality(Ackers(k - 1))
  BY <1>2, <1>4, FS_Subset
<1> QED
  BY <1>3, <1>5

\* processACK preserves the invariant, whether or not it completes a quorum.
LEMMA AckStep ==
  ASSUME IInv, TypeOK', NEW f \in Follower, processACK(f)
  PROVE  IInv'
<1>0. /\ TypeOK /\ NoFatal /\ QueueInv /\ CoordinatorInv /\ BroadcastInv /\ CursorInv
      /\ AckInv /\ TrackerInv /\ RequestInv
      /\ f \in Server /\ f # Leader /\ Leader \in Server
  BY LeaderFacts DEF IInv
<1>d. PICK P \in Nat, C \in Nat, B \in Nat, k \in Nat :
        P = nIssued /\ C = nCommitted(Leader) /\ B = nBcast /\ k = acked[f] + 1
  BY SMTT(60), <1>0, LenFacts
<1>1. /\ UNCHANGED <<zxidCounter, newProposalChan, log, reqs, rcvd, crashed, submitted, issued>>
      /\ acks[f] # << >>
      /\ acks' = [acks EXCEPT ![f] = Tail(@)]
      /\ acked' = [acked EXCEPT ![f] = @ + 1]
  BY DEF processACK
<1>2. /\ nAcks(f) \in Nat /\ nAcks(f) >= 1 /\ nAcks(f)' = nAcks(f) - 1
      /\ dequeue(acks[f]) = acks[f][1]
      /\ \A i \in 1..(nAcks(f) - 1) : acks'[f][i] = acks[f][i + 1]
      /\ \A g \in Follower : g # f => acks'[g] = acks[g] /\ nAcks(g)' = nAcks(g)
  <2>1. acks[f] \in Seq(Nat) /\ acks'[f] = Tail(acks[f])
        /\ \A g \in Follower : g # f => acks'[g] = acks[g]
    BY <1>0, <1>1 DEF TypeOK
  <2>2. /\ Len(acks[f]) \in Nat /\ Len(acks[f]) >= 1
        /\ dequeue(acks[f]) = acks[f][1]
        /\ Len(Tail(acks[f])) = Len(acks[f]) - 1
        /\ \A i \in 1..(Len(acks[f]) - 1) : Tail(acks[f])[i] = acks[f][i + 1]
    <3>1. acks[f] \in Seq(Nat) /\ acks[f] # << >>
      BY <1>1, <2>1
    <3> QED
      BY <3>1, DequeueFacts
  <2> QED
    BY <2>1, <2>2 DEF nAcks
<1>3. dequeue(acks[f]) = k /\ k \in 1..P
  <2>1. acks[f][1] = acked[f] + 1 /\ acked[f] + nAcks(f) <= Received(f)
    BY <1>0, <1>2 DEF AckInv
  <2>2. Received(f) <= P /\ acked[f] \in Nat
    BY <1>0, <1>d, LenFacts DEF QueueInv
  <2>3. Received(f) \in Nat
    BY <1>0, LenFacts DEF Received
  <2> QED
    BY <1>d, <1>2, <2>1, <2>2, <2>3
<1>4. /\ acked'[f] = k
      /\ \A g \in Follower : g # f => acked'[g] = acked[g]
      /\ \A g \in Follower : acked[g] \in Nat
  BY <1>0, <1>1, <1>d DEF TypeOK
<1>5. /\ \A j \in Nat : j # k => Ackers(j)' = Ackers(j)
      /\ Cardinality(Ackers(k)') = Cardinality(Ackers(k)) + 1
      /\ f \notin Ackers(k)
  BY <1>0, <1>1, <1>d, AckersGrow
<1>6. \A j : Cardinality(Ackers(j)) \in Nat /\ Cardinality(Ackers(j)) + 1 <= n_systems
  BY <1>0, AckersFacts
<1>7. /\ Len(ackTracker) = P /\ ackTracker \in Seq(Nat) /\ DOMAIN ackTracker = 1..P
      /\ \A j \in 1..P : ackTracker[j] \in Nat
  <2>1. Len(ackTracker) = P /\ ackTracker \in Seq(Nat)
    BY <1>0, <1>d DEF CoordinatorInv, nTracked, TypeOK
  <2> QED
    BY <2>1, LenProperties, ElementOfSeq
<1>8. incrementOrRemove(k, n_systems \div 2) <=> ackTracker[k] + 1 > maxCount
  BY <1>3, <1>7 DEF incrementOrRemove, maxCount
<1>9. \A j \in 1..P :
        IF j <= C THEN ackTracker[j] + maxCount = Cardinality(Ackers(j))
        ELSE /\ ackTracker[j] = Cardinality(Ackers(j)) + 1
             /\ Cardinality(Ackers(j)) < maxCount
  BY <1>0, <1>d DEF TrackerInv
<1>10. \* the counter of k passes maxCount exactly when k is the next to commit
       ackTracker[k] + 1 > maxCount => k = C + 1 /\ Cardinality(Ackers(k)) + 1 = maxCount
  <2> SUFFICES ASSUME ackTracker[k] + 1 > maxCount
               PROVE  k = C + 1 /\ Cardinality(Ackers(k)) + 1 = maxCount
    OBVIOUS
  <2>1. ~(k <= C)
    <3> SUFFICES ASSUME k <= C PROVE FALSE
      OBVIOUS
    <3>1. ackTracker[k] + maxCount = Cardinality(Ackers(k))
      BY <1>3, <1>9
    <3>2. Cardinality(Ackers(k)) + 2 <= n_systems
      <4>1. Cardinality(Ackers(k)') + 1 <= n_systems
        <5>1. IsFiniteSet(Follower) /\ Cardinality(Follower) = n_systems - 1
          BY ServerAssumption, FS_RemoveElement DEF Follower, n_systems
        <5>2. Ackers(k)' \subseteq Follower
          BY DEF Ackers
        <5>3. Cardinality(Ackers(k)') <= Cardinality(Follower)
          BY <5>1, <5>2, FS_Subset
        <5> QED
          BY <1>5, <1>6, <5>1, <5>3, MajorityFacts
      <4> QED
        BY <1>5, <1>6, <4>1, MajorityFacts
    <3> QED
      BY SMTT(60), <1>3, <1>6, <1>7, <3>1, <3>2, MajorityFacts
  <2>2. Cardinality(Ackers(k)) + 1 = maxCount
    BY <1>3, <1>6, <1>7, <1>9, <2>1, MajorityFacts
  <2>3. CASE k = 1
    BY <2>1, <2>2, <2>3
  <2>4. CASE k > 1
    <3>1. Cardinality(Ackers(k)) + 1 <= Cardinality(Ackers(k - 1))
      BY <1>0, <1>5, <1>d, <2>4, AckersShrink
    <3>2. k - 1 \in 1..P /\ ~(Cardinality(Ackers(k - 1)) < maxCount)
      BY <1>3, <1>6, <2>2, <2>4, <3>1, MajorityFacts
    <3>3. k - 1 <= C
      BY <1>9, <3>2
    <3> QED
      BY <2>1, <2>2, <3>3
  <2> QED
    BY <1>3, <2>3, <2>4
<1>11. \* the counters after the step
       \A j \in 1..P : ackTracker'[j] =
         IF j # k THEN ackTracker[j]
         ELSE IF ackTracker[k] + 1 > maxCount THEN 0 ELSE ackTracker[k] + 1
  BY <1>3, <1>7, <1>8 DEF processACK
<1>12. nTracked' = P
  <2>1. CASE ackTracker[k] + 1 > maxCount
    <3>1. ackTracker' = [ackTracker EXCEPT ![k] = 0]
      BY <1>3, <1>7, <1>8, <2>1 DEF processACK
    <3> QED
      BY <1>3, <1>7, <3>1, ExceptSeq DEF nTracked
  <2>2. CASE ~(ackTracker[k] + 1 > maxCount)
    <3>1. ackTracker' = [ackTracker EXCEPT ![k] = ackTracker[k] + 1]
      BY <1>3, <1>7, <1>8, <2>2 DEF processACK
    <3>2. ackTracker[k] + 1 \in Nat
      BY <1>3, <1>7
    <3> QED
      BY <1>3, <1>7, <3>1, <3>2, ExceptSeq DEF nTracked
  <2> QED
    BY <2>1, <2>2
<1>13. \* the ACK queues
       ASSUME \A g \in Follower : Received(g)' = Received(g), exited' = exited
       PROVE  AckInv'
  <2>1. \A g : Up(g)' = Up(g)
    BY <1>1, <1>13 DEF Up
  <2>2. ASSUME NEW g \in Follower
        PROVE  /\ acked'[g] + nAcks(g)' <= Received(g)
               /\ Up(g) => acked'[g] + nAcks(g)' = Received(g)
               /\ \A i \in 1..nAcks(g)' : acks'[g][i] = acked'[g] + i
    <3>1. /\ acked[g] + nAcks(g) <= Received(g)
          /\ Up(g) => acked[g] + nAcks(g) = Received(g)
          /\ \A i \in 1..nAcks(g) : acks[g][i] = acked[g] + i
      BY <1>0 DEF AckInv
    <3>2. CASE g # f
      BY <1>2, <1>4, <3>1, <3>2
    <3>3. CASE g = f
      <4>1. acked'[f] + nAcks(f)' = acked[f] + nAcks(f)
        BY <1>d, <1>2, <1>4
      <4>2. \A i \in 1..nAcks(f)' : acks'[f][i] = acked'[f] + i
        <5>1. ASSUME NEW i \in 1..nAcks(f)' PROVE acks'[f][i] = acked'[f] + i
          <6>1. i + 1 \in 1..nAcks(f) /\ i \in 1..(nAcks(f) - 1)
            BY <1>2
          <6>2. acks'[f][i] = acked[f] + (i + 1)
            BY <1>2, <3>1, <3>3, <6>1
          <6> QED
            BY <1>d, <1>4, <6>2
        <5> QED
          BY <5>1
      <4> QED
        BY <3>1, <3>3, <4>1, <4>2
    <3> QED
      BY <3>2, <3>3
  <2> QED
    BY <1>13, <2>1, <2>2 DEF AckInv
<1>14. CASE ~(ackTracker[k] + 1 > maxCount)
  <2>1. UNCHANGED <<proposalsQueue, committed, exited, bcast, about>>
    BY <1>3, <1>8, <1>14 DEF processACK
  <2>2. /\ \A u : nCommitted(u)' = nCommitted(u) /\ Received(u)' = Received(u)
        /\ nIssued' = P
    BY <1>1, <1>d, <2>1 DEF Received, nCommitted, nQueued, nIssued
  <2>3. NoFatal' /\ QueueInv' /\ FollowInv' /\ BroadcastInv' /\ CursorInv' /\ RequestInv'
    BY <1>0, <1>1, <2>1, <2>2, FrameQueue, FrameFollow, FrameBroadcast, FrameCursor,
       FrameRequest DEF IInv, NoFatal
  <2>4. AckInv'
    BY <1>13, <2>1, <2>2
  <2>5. CoordinatorInv'
    BY <1>0, <1>1, <1>d, <1>12, <2>2 DEF CoordinatorInv
  <2>6. ASSUME NEW j \in 1..P
        PROVE  IF j <= C THEN ackTracker'[j] + maxCount = Cardinality(Ackers(j)')
               ELSE /\ ackTracker'[j] = Cardinality(Ackers(j)') + 1
                    /\ Cardinality(Ackers(j)') < maxCount
    <3>1. CASE j # k
      BY <1>5, <1>9, <1>11, <3>1
    <3>2. CASE j = k
      <4>1. ackTracker'[k] = ackTracker[k] + 1 /\ ackTracker[k] \in Nat
        BY <1>3, <1>7, <1>11, <1>14
      <4>2. CASE k <= C
        <5>1. ackTracker[k] + maxCount = Cardinality(Ackers(k))
          BY <1>3, <1>9, <4>2
        <5>2. ackTracker'[k] + maxCount = Cardinality(Ackers(k)')
          BY <1>5, <4>1, <5>1, MajorityFacts
        <5> QED
          BY <3>2, <4>2, <5>2
      <4>3. CASE ~(k <= C)
        <5>1. ackTracker[k] = Cardinality(Ackers(k)) + 1
          BY <1>3, <1>9, <4>3
        <5>2. /\ ackTracker'[k] = Cardinality(Ackers(k)') + 1
              /\ Cardinality(Ackers(k)') < maxCount
          BY <1>5, <1>6, <1>14, <4>1, <5>1, MajorityFacts
        <5> QED
          BY <3>2, <4>3, <5>2
      <4> QED
        BY <4>2, <4>3
    <3> QED
      BY <3>1, <3>2
  <2>7. TrackerInv'
    BY <1>d, <2>2, <2>6 DEF TrackerInv, maxCount
  <2> QED
    BY <2>3, <2>4, <2>5, <2>7 DEF IInv
<1>15. CASE ackTracker[k] + 1 > maxCount
  <2>1. k = C + 1 /\ Cardinality(Ackers(k)) + 1 = maxCount
    BY <1>10, <1>15
  <2>2. proposalsQueue[Leader] # << >>
    <3>1. C + nQueued(Leader) = P /\ nQueued(Leader) \in Nat
      BY <1>0, <1>d, LenFacts DEF CoordinatorInv, Received
    <3>2. nQueued(Leader) # 0
      BY <1>3, <2>1, <3>1
    <3> QED
      BY <3>2, EmptySeq DEF nQueued
  <2>3. /\ processCommitProposal(Leader)
        /\ bcast' = Append(bcast, CommitMsg)
        /\ about' = Append(about, dequeue(proposalsQueue[Leader]).CountNum)
    BY <1>3, <1>8, <1>15, <2>2 DEF processACK
  <2>4. /\ QueueInv'
        /\ exited' = exited
        /\ nCommitted(Leader)' = C + 1
        /\ Received(Leader)' = Received(Leader)
        /\ \A u \in Server : u # Leader => /\ nCommitted(u)' = nCommitted(u)
                                           /\ Received(u)' = Received(u)
        /\ dequeue(proposalsQueue[Leader]).CountNum = C + 1
    BY <1>0, <1>1, <1>d, <2>2, <2>3, CommitOne
  <2>5. /\ \A g \in Follower : g \in Server /\ g # Leader
        /\ \A g \in Follower : nCommitted(g)' = nCommitted(g) /\ Received(g)' = Received(g)
    BY <2>4, LeaderFacts
  <2>6. nIssued' = P /\ issued' = issued /\ rcvd' = rcvd
    BY <1>1, <1>d DEF nIssued
  <2>7. NoFatal' /\ RequestInv' /\ AckInv'
    BY <1>0, <1>1, <1>13, <2>4, <2>5, FrameRequest DEF NoFatal
  <2>8. CoordinatorInv'
    BY <1>0, <1>1, <1>d, <1>12, <2>4, <2>6 DEF CoordinatorInv
  <2>9. FollowInv'
    <3>1. \A g \in Follower : nCommitted(g) <= C /\ nCommitted(g) \in Nat
      BY <1>0, <1>d, <2>5, LenFacts DEF IInv, FollowInv
    <3>2. \A g \in Follower : nCommitted(g)' <= C + 1
      BY <2>5, <3>1
    <3> QED
      BY <2>4, <3>2 DEF FollowInv
  <2>10. \* the broadcast grows by the Commit for C + 1
         /\ nBcast' = B + 1 /\ nAbout' = B + 1
         /\ \A i \in 1..B : bcast'[i] = bcast[i] /\ about'[i] = about[i] /\ IsSC(i)' = IsSC(i)
         /\ bcast'[B + 1] = CommitMsg /\ about'[B + 1] = C + 1 /\ ~IsSC(B + 1)'
    <3>1. /\ bcast \in Seq(Proposal \cup {CommitMsg}) /\ about \in Seq(Nat)
          /\ Len(bcast) = B /\ Len(about) = B /\ CommitMsg \in Proposal \cup {CommitMsg} /\ C + 1 \in Nat
      <4>1. bcast \in Seq(Proposal \cup {CommitMsg}) /\ about \in Seq(Nat)
        BY <1>0 DEF TypeOK
      <4>2. Len(bcast) = B /\ Len(about) = B
        BY <1>0, <1>d DEF BroadcastInv, nBcast, nAbout
      <4> QED
        BY <1>d, <4>1, <4>2
    <3>2. /\ nBcast' = B + 1 /\ bcast'[B + 1] = CommitMsg
          /\ \A i \in 1..B : bcast'[i] = bcast[i]
      BY <2>3, <3>1, AppendFacts DEF nBcast
    <3>3. /\ nAbout' = B + 1 /\ about'[B + 1] = C + 1
          /\ \A i \in 1..B : about'[i] = about[i]
      BY <2>3, <2>4, <3>1, AppendFacts DEF nAbout
    <3> QED
      BY <3>2, <3>3, MessageFacts DEF IsSC
  <2>11. \A i \in 1..B : about[i] \in Nat
    BY <1>0, <1>d, ElementFacts DEF BroadcastInv
  <2>12. BroadcastInv'
    <3>1. \A i \in 1..B :
            \/ about[i] \in 1..P /\ bcast[i] = StateChange(about[i], issued[about[i]])
            \/ about[i] \in 1..C /\ bcast[i] = CommitMsg
      BY <1>0, <1>d DEF BroadcastInv
    <3>2. ASSUME NEW i \in 1..(B + 1)
          PROVE  \/ about'[i] \in 1..P /\ bcast'[i] = StateChange(about'[i], issued[about'[i]])
                 \/ about'[i] \in 1..(C + 1) /\ bcast'[i] = CommitMsg
      <4>1. CASE i = B + 1
        BY <1>d, <2>10, <4>1
      <4>2. CASE i \in 1..B
        <5>1. CASE about[i] \in 1..P /\ bcast[i] = StateChange(about[i], issued[about[i]])
          BY <2>10, <4>2, <5>1
        <5>2. CASE about[i] \in 1..C /\ bcast[i] = CommitMsg
          BY <1>d, <2>10, <4>2, <5>2
        <5> QED
          BY <3>1, <4>2, <5>1, <5>2
      <4> QED
        BY <1>d, <4>1, <4>2
    <3>3. ASSUME NEW i \in 1..(B + 1), NEW j \in 1..(B + 1),
                 i < j, IsSC(i)' <=> IsSC(j)'
          PROVE  about'[i] < about'[j]
      <4>1. i \in 1..B
        BY <1>d, <3>3
      <4>2. CASE j = B + 1
        <5>1. ~IsSC(i)
          BY <2>10, <3>3, <4>1, <4>2
        <5>2. about[i] \in 1..C
          BY <3>1, <4>1, <5>1, MessageFacts DEF IsSC
        <5> QED
          BY <1>d, <2>10, <4>1, <4>2, <5>2
      <4>3. CASE j \in 1..B
        <5>1. IsSC(i) <=> IsSC(j)
          BY <2>10, <3>3, <4>1, <4>3
        <5>2. about[i] < about[j]
          BY <1>0, <1>d, <3>3, <4>1, <4>3, <5>1 DEF BroadcastInv
        <5> QED
          BY <2>10, <4>1, <4>3, <5>2
      <4> QED
        BY <1>d, <4>2, <4>3
    <3>4. \A j \in 1..P : \E i \in 1..(B + 1) : IsSC(i)' /\ about'[i] = j
      <4>1. \A j \in 1..P : \E i \in 1..B : IsSC(i) /\ about[i] = j
        BY <1>0, <1>d DEF BroadcastInv
      <4>2. \A i \in 1..B : i \in 1..(B + 1)
        BY <1>d
      <4> QED
        BY <2>10, <4>1, <4>2
    <3>5. \A c \in 1..(C + 1) : \E j \in 1..(B + 1) : ~IsSC(j)' /\ about'[j] = c
      <4>1. \A c \in 1..C : \E j \in 1..B : ~IsSC(j) /\ about[j] = c
        BY <1>0, <1>d DEF BroadcastInv
      <4>2. /\ \A i \in 1..B : i \in 1..(B + 1)
            /\ B + 1 \in 1..(B + 1)
            /\ \A c \in 1..(C + 1) : c \in 1..C \/ c = C + 1
        BY <1>d
      <4> QED
        BY <2>10, <4>1, <4>2
    <3>6. ASSUME NEW j \in 1..(B + 1), ~IsSC(j)'
          PROVE  \E i \in 1..(j - 1) : IsSC(i)' /\ about'[i] = about'[j]
      <4>1. CASE j = B + 1
        <5>1. PICK i \in 1..B : IsSC(i) /\ about[i] = C + 1
          BY <1>0, <1>d, <1>3, <2>1 DEF BroadcastInv
        <5>2. i \in 1..(j - 1)
          BY <1>d, <4>1, <5>1
        <5> QED
          BY <2>10, <4>1, <5>1, <5>2
      <4>2. CASE j \in 1..B
        <5>1. PICK i \in 1..(j - 1) : IsSC(i) /\ about[i] = about[j]
          BY <1>0, <1>d, <2>10, <3>6, <4>2 DEF BroadcastInv
        <5>2. i \in 1..B
          BY <1>d, <4>2, <5>1
        <5> QED
          BY <2>10, <4>2, <5>1, <5>2
      <4> QED
        BY <1>d, <4>1, <4>2
    <3> QED
      BY <2>4, <2>6, <2>10, <3>2, <3>3, <3>4, <3>5, <3>6 DEF BroadcastInv
  <2>13. CursorInv'
    <3>1. ASSUME NEW g \in Follower
          PROVE  /\ rcvd[g] <= B /\ rcvd[g] \in Nat
                 /\ nCommitted(g) <= C /\ nCommitted(g) \in Nat
                 /\ \A i \in 1..B : /\ IsSC(i) => (i <= rcvd[g] <=> about[i] <= Received(g))
                                    /\ ~IsSC(i) => (i <= rcvd[g] <=> about[i] <= nCommitted(g))
      BY <1>0, <1>d, <2>5, LenFacts DEF CursorInv, IInv, FollowInv
    <3>2. ASSUME NEW g \in Follower, NEW i \in 1..(B + 1)
          PROVE  /\ IsSC(i)' => (i <= rcvd[g] <=> about'[i] <= Received(g))
                 /\ ~IsSC(i)' => (i <= rcvd[g] <=> about'[i] <= nCommitted(g))
      <4>1. CASE i = B + 1
        <5>1. ~(i <= rcvd[g]) /\ ~(C + 1 <= nCommitted(g))
          BY <1>d, <3>1, <4>1
        <5> QED
          BY <2>10, <4>1, <5>1
      <4>2. CASE i \in 1..B
        BY <2>10, <3>1, <4>2
      <4> QED
        BY <1>d, <4>1, <4>2
    <3>3. \A g \in Follower : rcvd[g] <= B + 1
      BY <1>d, <3>1
    <3> QED
      BY <2>5, <2>6, <2>10, <3>2, <3>3 DEF CursorInv
  <2>14. TrackerInv'
    <3>1. ASSUME NEW j \in 1..P
          PROVE  IF j <= C + 1 THEN ackTracker'[j] + maxCount = Cardinality(Ackers(j)')
                 ELSE /\ ackTracker'[j] = Cardinality(Ackers(j)') + 1
                      /\ Cardinality(Ackers(j)') < maxCount
      <4>1. CASE j # k
        <5>1. j <= C + 1 <=> j <= C
          BY <1>d, <2>1, <4>1
        <5> QED
          BY <1>5, <1>9, <1>11, <4>1, <5>1
      <4>2. CASE j = k
        <5>1. ackTracker'[k] = 0
          BY <1>3, <1>11, <1>15
        <5>2. 0 + maxCount = Cardinality(Ackers(k)')
          BY <1>5, <2>1, MajorityFacts
        <5>3. k <= C + 1
          BY <1>d, <2>1
        <5> QED
          BY <4>2, <5>1, <5>2, <5>3
      <4> QED
        BY <4>1, <4>2
    <3> QED
      BY <1>d, <2>4, <2>6, <3>1 DEF TrackerInv, maxCount
  <2> QED
    BY <2>4, <2>7, <2>8, <2>9, <2>12, <2>13, <2>14 DEF IInv
<1> QED
  BY <1>14, <1>15

-----------------------------------------------------------------------------
(* The invariant and what it gives *)

\* Nothing is lost when MaxDrops = 0, so no Drop step exists.
LEMMA InvStep ==
  ASSUME MaxDrops = 0, IInv, [Next]_vars
  PROVE  IInv'
<1>0. TypeOK /\ TypeOK'
  BY TypeStep DEF IInv
<1>1. ~(drops < MaxDrops)
  BY <1>0 DEF TypeOK
<1>2. CASE UNCHANGED vars
  <2>1. UNCHANGED <<zxidCounter, ackTracker, proposalsQueue, newProposalChan, log, committed,
                    acks, bcast, rcvd, crashed, exited, issued, about, acked, submitted, reqs>>
    BY <1>2 DEF vars, queues, channels, faults, aux
  <2>2. \A u : nCommitted(u)' = nCommitted(u) /\ Received(u)' = Received(u)
    BY <2>1 DEF Received, nCommitted, nQueued
  <2>3. NoFatal' /\ QueueInv' /\ FollowInv' /\ CoordinatorInv' /\ BroadcastInv' /\ CursorInv'
    BY <2>1, <2>2, FrameQueue, FrameFollow, FrameCoordinator, FrameBroadcast, FrameCursor
       DEF IInv, NoFatal
  <2>4. AckInv' /\ TrackerInv' /\ RequestInv'
    BY <2>1, <2>2, FrameAck, FrameTracker, FrameRequest DEF IInv
  <2> QED
    BY <1>0, <2>3, <2>4 DEF IInv
<1>3. CASE \E r \in Request : SendWriteRequest(r)
  BY <1>0, <1>3, SendStep
<1>4. ASSUME NEW s \in Server,
             processWrite(s) \/ denyWrite(s) \/ processErr(s) \/ proposalWriter(s)
      PROVE  IInv'
  BY <1>0, <1>4, WriteStep, DenyStep, ErrStep, WriterStep
<1>5. ASSUME NEW f \in Follower,
             \/ processStateChangeProposal(f) \/ processCommit(f)
             \/ processACK(f) \/ Crash(f)
      PROVE  IInv'
  BY <1>0, <1>5, StateChangeStep, CommitStep, AckStep, CrashStep
<1>6. ASSUME NEW f \in Follower PROVE ~Drop(f) /\ ~DropReply(f)
  BY <1>1 DEF Drop, DropReply
<1> QED
  BY <1>2, <1>3, <1>4, <1>5, <1>6 DEF Next

\* IInv is an invariant of an epoch whose messages all arrive.
THEOREM Invariance == ASSUME MaxDrops = 0 PROVE Spec => []IInv
<1>1. Init => IInv
  BY InitIInv
<1>2. IInv /\ [Next]_vars => IInv'
  BY InvStep
<1> QED
  BY <1>1, <1>2, PTL DEF Spec

\* Whatever a follower commits, the coordinator committed at the same place:
\* Commit messages that name no proposal never make two servers disagree.
THEOREM Agreement == ASSUME MaxDrops = 0 PROVE Spec => []CommitAgreement
<1>1. IInv => CommitAgreement
  <2> SUFFICES ASSUME IInv, NEW f \in Follower, NEW i \in 1..Len(committed[f])
               PROVE  i <= Len(committed[Leader]) /\ committed[f][i] = committed[Leader][i]
    BY DEF CommitAgreement
  <2>0. TypeOK /\ QueueInv /\ FollowInv /\ f \in Server /\ Leader \in Server
    BY LeaderFacts DEF IInv
  <2>1. PICK c \in Nat, C \in Nat : /\ c = nCommitted(f) /\ c = Len(committed[f])
                                  /\ C = nCommitted(Leader) /\ C = Len(committed[Leader])
    BY <2>0, LenFacts DEF nCommitted
  <2>2. c <= C
    BY <2>0, <2>1 DEF FollowInv
  <2>3. i \in 1..C /\ i \in 1..c
    BY <2>1, <2>2
  <2>4. committed[f][i] = StateChange(0 + i, issued[0 + i])
    BY <2>0, <2>1, <2>3 DEF QueueInv, Slice
  <2>5. committed[Leader][i] = StateChange(0 + i, issued[0 + i])
    BY <2>0, <2>1, <2>3 DEF QueueInv, Slice
  <2> QED
    BY <2>1, <2>3, <2>4, <2>5
<1> QED
  BY <1>1, Invariance, PTL

\* The coordinator commits nothing before a majority has passed it to disk.
THEOREM Quorum == ASSUME MaxDrops = 0 PROVE Spec => []CommitHasQuorum
<1>1. IInv => CommitHasQuorum
  <2> SUFFICES ASSUME IInv, NEW i \in 1..Len(committed[Leader])
               PROVE  2 * Cardinality({s \in Server : Holds(s, committed[Leader][i])})
                        > n_systems
    BY DEF CommitHasQuorum
  <2> DEFINE H == {s \in Server : Holds(s, committed[Leader][i])}
  <2>0. /\ TypeOK /\ QueueInv /\ CoordinatorInv /\ AckInv /\ TrackerInv
        /\ Leader \in Server /\ Leader \notin Follower
    BY LeaderFacts DEF IInv
  <2>1. PICK C \in Nat, P \in Nat : /\ C = nCommitted(Leader) /\ C = Len(committed[Leader])
                                  /\ P = nIssued
    BY <2>0, LenFacts DEF nCommitted
  <2>2. i \in 1..C /\ i \in 1..P /\ i \in Nat
    <3>1. C + nQueued(Leader) = P /\ nQueued(Leader) \in Nat
      BY <2>0, <2>1, LenFacts DEF CoordinatorInv, Received
    <3> QED
      BY <2>1, <3>1
  <2>3. committed[Leader][i] = StateChange(i, issued[i])
    <3>1. committed[Leader][i] = StateChange(0 + i, issued[0 + i])
      BY <2>0, <2>1, <2>2 DEF QueueInv, Slice
    <3>2. 0 + i = i
      BY <2>2
    <3> QED
      BY <3>1, <3>2
  <2>4. ASSUME NEW s \in Server, i <= Received(s) PROVE s \in H
    <3>1. PICK L \in Nat, w \in Nat : /\ L = Len(log[s]) /\ w = Len(newProposalChan[s])
                                    /\ L = nLogged(s) /\ w = nToLog(s)
      BY <2>0, LenFacts DEF nLogged, nToLog
    <3>2. /\ L + w = Received(s)
          /\ Slice(log[s], 0, issued) /\ Slice(newProposalChan[s], L, issued)
      BY <2>0, <3>1 DEF QueueInv
    <3>3. CASE i <= L
      <4>1. i \in 1..L /\ 0 + i = i
        BY <2>2, <3>3
      <4>2. log[s][i] = StateChange(0 + i, issued[0 + i])
        BY <3>1, <3>2, <4>1 DEF Slice
      <4> QED
        BY <2>3, <3>1, <4>1, <4>2 DEF Holds
    <3>4. CASE ~(i <= L)
      <4>1. i - L \in 1..w /\ L + (i - L) = i
        BY <2>2, <2>4, <3>1, <3>2, <3>4
      <4>2. newProposalChan[s][i - L] = StateChange(L + (i - L), issued[L + (i - L)])
        BY <3>1, <3>2, <4>1 DEF Slice
      <4> QED
        BY <2>3, <3>1, <4>1, <4>2 DEF Holds
    <3> QED
      BY <3>3, <3>4
  <2>5. Ackers(i) \cup {Leader} \subseteq H
    <3>1. Leader \in H
      BY <2>0, <2>1, <2>2, <2>4 DEF CoordinatorInv
    <3>2. ASSUME NEW g \in Ackers(i) PROVE g \in H
      <4>1. g \in Follower /\ acked[g] >= i
        BY DEF Ackers
      <4>2. g \in Server /\ acked[g] \in Nat /\ nAcks(g) \in Nat
        BY <2>0, <4>1, LenFacts, LeaderFacts
      <4>3. nCommitted(g) \in Nat /\ nQueued(g) \in Nat
        BY <2>0, <4>2, LenFacts
      <4>4. Received(g) \in Nat
        BY <4>3 DEF Received
      <4>5. acked[g] + nAcks(g) <= Received(g)
        BY <2>0, <4>1 DEF AckInv
      <4>6. i <= Received(g)
        BY <2>2, <4>1, <4>2, <4>4, <4>5
      <4> QED
        BY <2>4, <4>2, <4>6
    <3> HIDE DEF H
    <3> QED
      BY <3>1, <3>2
  <2>6. Cardinality(Ackers(i)) >= maxCount
    <3>1. ackTracker[i] + maxCount = Cardinality(Ackers(i))
      BY <2>0, <2>1, <2>2 DEF TrackerInv
    <3>2. ackTracker[i] \in Nat
      BY <2>0, <2>1, <2>2, ElementFacts DEF CoordinatorInv
    <3> QED
      BY <3>1, <3>2, MajorityFacts
  <2>7. /\ IsFiniteSet(Ackers(i))
        /\ Cardinality(Ackers(i) \cup {Leader}) = Cardinality(Ackers(i)) + 1
    <3>1. Leader \notin Ackers(i)
      BY <2>0 DEF Ackers
    <3> QED
      BY <2>0, <3>1, AckersFacts, FS_AddElement
  <2>8. IsFiniteSet(H)
    BY ServerAssumption, FS_Subset
  <2>9. Cardinality(Ackers(i) \cup {Leader}) <= Cardinality(H) /\ Cardinality(H) \in Nat
    BY <2>5, <2>8, FS_Subset, FS_CardinalityType
  <2>10. Cardinality(Ackers(i)) \in Nat
    BY <2>7, FS_CardinalityType
  <2> HIDE DEF H
  <2>11. 2 * Cardinality(H) > n_systems
    BY <2>6, <2>7, <2>9, <2>10, MajorityFacts
  <2> QED
    BY <2>11 DEF H
<1> QED
  BY <1>1, Invariance, PTL

\* No server ends with "Received COMMIT with no proposals in queue".
THEOREM NeverFatal == ASSUME MaxDrops = 0 PROVE Spec => []NoFatal
<1>1. IInv => NoFatal
  BY DEF IInv
<1> QED
  BY <1>1, Invariance, PTL

\* What a server has on disk and what proposalWriter still has to write are
\* the first proposals of the epoch, in order and without gaps.
THEOREM NoGaps == ASSUME MaxDrops = 0 PROVE Spec => []LogHasNoGaps
<1>1. IInv => LogHasNoGaps
  <2> SUFFICES ASSUME IInv, NEW s \in Server
               PROVE  /\ \A i \in 1..Len(log[s]) :
                           i <= Len(issued) /\ log[s][i] = StateChange(i, issued[i])
                      /\ \A i \in 1..Len(newProposalChan[s]) :
                           /\ Len(log[s]) + i <= Len(issued)
                           /\ newProposalChan[s][i]
                                = StateChange(Len(log[s]) + i, issued[Len(log[s]) + i])
    BY DEF LogHasNoGaps
  <2>0. TypeOK /\ QueueInv
    BY DEF IInv
  <2>1. PICK L \in Nat, w \in Nat, P \in Nat :
          /\ L = Len(log[s]) /\ w = Len(newProposalChan[s]) /\ P = Len(issued)
          /\ L = nLogged(s) /\ w = nToLog(s) /\ P = nIssued
    BY <2>0, LenFacts DEF nLogged, nToLog, nIssued
  <2>2. /\ L + w <= P
        /\ Slice(log[s], 0, issued) /\ Slice(newProposalChan[s], L, issued)
    BY <2>0, <2>1 DEF QueueInv
  <2>3. \A i \in 1..L : i <= P /\ 0 + i = i
    BY <2>1, <2>2
  <2>4. \A i \in 1..L : log[s][i] = StateChange(i, issued[i])
    BY <2>1, <2>2, <2>3 DEF Slice
  <2>5. \A i \in 1..w : L + i <= P
    BY <2>1, <2>2
  <2>6. \A i \in 1..w : newProposalChan[s][i] = StateChange(L + i, issued[L + i])
    BY <2>1, <2>2 DEF Slice
  <2> QED
    BY <2>1, <2>3, <2>4, <2>5, <2>6
<1> QED
  BY <1>1, Invariance, PTL

-----------------------------------------------------------------------------
(* An epoch implements AtomicBroadcast *)

\* What one server has delivered in the refinement mapping: the contents of what
\* it sent on toCommitChan.
contents(q) == [i \in 1..Len(q) |-> q[i].Content]

\* Committing the next issued proposal delivers its request.
LEMMA ContentsAppend ==
  ASSUME NEW q \in Seq(Proposal), NEW e \in Proposal
  PROVE  /\ contents(q) \in Seq(Request)
         /\ Len(contents(q)) = Len(q)
         /\ contents(Append(q, e)) = Append(contents(q), e.Content)
<1>1. ASSUME NEW p \in Seq(Proposal)
      PROVE  /\ contents(p) \in Seq(Request)
             /\ Len(contents(p)) = Len(p)
             /\ \A i \in 1..Len(p) : contents(p)[i] = p[i].Content
  <2> DEFINE n == Len(p)
  <2>1. n \in Nat
    BY LenProperties
  <2>2. \A x \in Proposal : x.Content \in Request
    BY DEF Proposal
  <2>3. \A i \in 1..n : p[i] \in Proposal
    BY ElementOfSeq
  <2> QED
    BY <2>1, <2>2, <2>3 DEF contents
<1> DEFINE n == Len(q)
           p == Append(q, e)
           c == Append(contents(q), e.Content)
<1>2. /\ p \in Seq(Proposal) /\ Len(p) = n + 1 /\ p[n + 1] = e
      /\ n \in Nat /\ \A i \in 1..n : p[i] = q[i]
  BY AppendFacts, LenProperties
<1>3. e.Content \in Request
  BY DEF Proposal
<1>4. /\ c \in Seq(Request) /\ Len(c) = n + 1 /\ c[n + 1] = e.Content
      /\ \A i \in 1..n : c[i] = q[i].Content
  BY <1>1, <1>3, AppendFacts
<1>5. /\ contents(p) \in Seq(Request) /\ Len(contents(p)) = n + 1
      /\ \A i \in 1..(n + 1) : contents(p)[i] = p[i].Content
  BY <1>1, <1>2
<1> HIDE DEF n, p, c
<1>6. ASSUME NEW i \in 1..Len(c) PROVE contents(p)[i] = c[i]
  <2>1. CASE i = n + 1
    BY <1>2, <1>4, <1>5, <2>1
  <2>2. CASE i \in 1..n
    BY <1>2, <1>4, <1>5, <2>2
  <2> QED
    BY <1>2, <1>4, <2>1, <2>2
<1>7. contents(p) = c
  BY <1>4, <1>5, <1>6, SeqEqual
<1> QED
  BY <1>1, <1>7 DEF p, c

\* A server that commits the head of its queue delivers the next request of the
\* order (processCommitProposal).
LEMMA CommitDelivers ==
  ASSUME TypeOK, QueueInv, NEW s \in Server, proposalsQueue[s] # << >>,
         processCommitProposal(s), UNCHANGED <<submitted, issued>>,
         s # Leader => nCommitted(s) + 1 <= nCommitted(Leader)
  PROVE  AB!Deliver(s)
<1> DEFINE e == dequeue(proposalsQueue[s])
           next == nCommitted(s) + 1
           del == [t \in Server |-> contents(committed[t])]
<1>1. /\ proposalsQueue[s] \in Seq(Proposal) /\ committed[s] \in Seq(Proposal)
      /\ committed \in [Server -> Seq(Proposal)] /\ committed[Leader] \in Seq(Proposal)
  BY LeaderFacts DEF TypeOK
<1>2. PICK c \in Nat : c = nCommitted(s) /\ c = Len(committed[s])
  BY LenFacts DEF nCommitted
<1>3. e \in Proposal /\ e.Content = issued[next]
  <2>1. Slice(proposalsQueue[s], c, issued)
    BY <1>2 DEF QueueInv
  <2>2. e = StateChange(c + 1, issued[c + 1])
    BY <1>1, <2>1, SliceTail
  <2> QED
    BY <1>1, <1>2, <2>2, DequeueFacts, MessageFacts
<1>4. next <= Len(issued)
  <2>1. nQueued(s) \in Nat /\ nQueued(s) >= 1
    BY <1>1, DequeueFacts DEF nQueued
  <2>2. c + nQueued(s) <= nIssued /\ nIssued \in Nat
    BY <1>2, LenFacts DEF QueueInv, Received
  <2> QED
    BY <1>2, <2>1, <2>2 DEF nIssued
<1>5. committed' = [committed EXCEPT ![s] = Append(@, e)]
  BY DEF processCommitProposal
<1>6. del' = [del EXCEPT ![s] = Append(@, issued[next])]
  <2>1. contents(Append(committed[s], e)) = Append(contents(committed[s]), issued[next])
    BY <1>1, <1>3, ContentsAppend
  <2>2. \A t \in Server : committed'[t] = IF t = s THEN Append(committed[s], e) ELSE committed[t]
    BY <1>1, <1>5
  <2> HIDE DEF e, next
  <2>3. del' = [t \in Server |-> contents(committed'[t])]
    BY DEF contents
  <2> QED
    BY <2>1, <2>2, <2>3
<1>7. Len(del[s]) = nCommitted(s) /\ Len(del[Leader]) = nCommitted(Leader)
  BY <1>1, <1>3, ContentsAppend, LeaderFacts DEF nCommitted
<1> HIDE DEF e
<1> QED
  BY <1>4, <1>6, <1>7 DEF AB!Deliver, del, contents

\* Steps that neither submit, order nor commit leave the abstract state alone.
LEMMA Unseen ==
  ASSUME UNCHANGED <<submitted, issued, committed>>
  PROVE  UNCHANGED AB!vars
BY DEF AB!vars

\* Every step of an epoch without lost messages is one of AtomicBroadcast.
LEMMA RefinementStep ==
  ASSUME MaxDrops = 0, IInv, IInv', [Next]_vars
  PROVE  [AB!Next]_(AB!vars)
<1>0. /\ TypeOK /\ QueueInv /\ FollowInv /\ RequestInv
      /\ NoFatal' /\ FollowInv'
      /\ Leader \in Server /\ Follower \subseteq Server
  BY LeaderFacts DEF IInv
<1>1. ASSUME NEW r \in Request, SendWriteRequest(r) PROVE AB!Next
  <2>1. AB!Submit(r)
    BY <1>1 DEF SendWriteRequest, AB!Submit, queues
  <2> QED
    BY <2>1 DEF AB!Next
<1>2. ASSUME NEW s \in Server, processWrite(s) PROVE AB!Next
  <2> DEFINE r == dequeue(reqs[s])
  <2>1. reqs[s] \in Seq(Request) /\ reqs[s] # << >>
    BY <1>0, <1>2 DEF processWrite, TypeOK
  <2>2. r = reqs[s][1] /\ r \in Request /\ 1 \in 1..nReqs(s)
    BY <2>1, DequeueFacts DEF nReqs
  <2>3. r \in submitted /\ \A i \in 1..Len(issued) : issued[i] # r
    BY <1>0, <2>2 DEF RequestInv, nIssued
  <2>4. issued' = Append(issued, r) /\ UNCHANGED <<submitted, committed>>
    BY <1>2 DEF processWrite
  <2> HIDE DEF r
  <2>5. AB!Order(r)
    BY <2>3, <2>4 DEF AB!Order
  <2> QED
    BY <2>2, <2>5 DEF AB!Next
<1>3. ASSUME NEW f \in Follower, processCommit(f) PROVE AB!Next
  <2>1. /\ processCommitProposal(f) /\ UNCHANGED <<submitted, issued>>
        /\ f \in Server /\ f # Leader
    BY <1>0, <1>3, LeaderFacts DEF processCommit, aux
  <2>2. proposalsQueue[f] # << >>
    BY <1>0, <2>1 DEF processCommitProposal, NoFatal
  <2>3. nCommitted(f) + 1 <= nCommitted(Leader)
    <3>1. /\ nCommitted(f)' = nCommitted(f) + 1
          /\ nCommitted(Leader)' = nCommitted(Leader)
      BY <1>0, <1>3, <2>1, <2>2, CommitOne DEF processCommit
    <3> QED
      BY <1>0, <3>1 DEF FollowInv
  <2>4. AB!Deliver(f)
    BY <1>0, <2>1, <2>2, <2>3, CommitDelivers
  <2> QED
    BY <2>1, <2>4 DEF AB!Next
<1>4. ASSUME NEW f \in Follower, processACK(f) PROVE AB!Next \/ UNCHANGED AB!vars
  <2>1. UNCHANGED <<submitted, issued>>
    BY <1>4 DEF processACK
  <2>2. CASE ~processCommitProposal(Leader)
    <3>1. UNCHANGED committed
      BY <1>4, <2>2 DEF processACK
    <3> QED
      BY <2>1, <3>1, Unseen
  <2>3. CASE processCommitProposal(Leader)
    <3>1. proposalsQueue[Leader] # << >>
      BY <1>0, <2>3 DEF processCommitProposal, NoFatal
    <3>2. AB!Deliver(Leader)
      BY <1>0, <2>1, <2>3, <3>1, CommitDelivers
    <3> QED
      BY <1>0, <3>2 DEF AB!Next
  <2> QED
    BY <2>2, <2>3
<1>5. ASSUME NEW s \in Server, denyWrite(s) \/ processErr(s) \/ proposalWriter(s)
      PROVE  UNCHANGED AB!vars
  <2>1. UNCHANGED <<submitted, issued, committed>>
    BY <1>5 DEF denyWrite, processErr, proposalWriter, queues, aux
  <2> QED
    BY <2>1, Unseen
<1>6. ASSUME NEW f \in Follower,
             processStateChangeProposal(f) \/ Crash(f) \/ Drop(f) \/ DropReply(f)
      PROVE  UNCHANGED AB!vars
  <2>1. UNCHANGED <<submitted, issued, committed>>
    BY <1>6 DEF processStateChangeProposal, Crash, Drop, DropReply, queues, aux
  <2> QED
    BY <2>1, Unseen
<1>7. CASE UNCHANGED vars
  <2>1. UNCHANGED <<submitted, issued, committed>>
    BY <1>7 DEF vars, queues, aux
  <2> QED
    BY <2>1, Unseen
<1> QED
  BY <1>1, <1>2, <1>3, <1>4, <1>5, <1>6, <1>7 DEF Next

\* The queues, ACKs and Commits of the Proposals package implement an atomic
\* broadcast: one order, delivered by every server without gaps or repeats.
THEOREM Refinement == ASSUME MaxDrops = 0 PROVE Spec => ImplementsAtomicBroadcast
<1>1. Init => AB!Init
  <2> SUFFICES ASSUME Init PROVE AB!Init
    OBVIOUS
  <2>1. submitted = {} /\ issued = << >> /\ \A s \in Server : committed[s] = << >>
    BY DEF Init
  <2>2. contents(<< >>) = << >>
    <3>1. Len(<< >>) = 0 /\ << >> \in Seq(Proposal)
      BY EmptySeq
    <3> QED
      BY <3>1 DEF contents
  <2> QED
    BY <2>1, <2>2 DEF AB!Init, contents
<1>2. IInv /\ IInv' /\ [Next]_vars => [AB!Next]_(AB!vars)
  BY RefinementStep
<1> QED
  BY <1>1, <1>2, Invariance, PTL DEF Spec, ImplementsAtomicBroadcast, AB!Spec

-----------------------------------------------------------------------------
(* What is left when messages are lost: the coordinator commits in the     *)
(* order it issued, a follower in increasing zxid order, and the           *)
(* coordinator never meets the Fatal of an empty queue.                    *)

-----------------------------------------------------------------------------
(* The coordinator *)

\* The coordinator has committed the first proposals it issued and queues all
\* the others; no message that is lost changes this.
LeaderInv ==
  /\ Received(Leader) = nIssued
  /\ zxidCounter[Leader] = nIssued
  /\ Slice(committed[Leader], 0, issued)
  /\ Slice(proposalsQueue[Leader], nCommitted(Leader), issued)

\* LeaderInv depends on the coordinator's own counter and queues only.
LEMMA FrameLeader ==
  ASSUME LeaderInv, issued' = issued, zxidCounter'[Leader] = zxidCounter[Leader],
         committed'[Leader] = committed[Leader],
         proposalsQueue'[Leader] = proposalsQueue[Leader]
  PROVE  LeaderInv'
BY DEF LeaderInv, Received, nCommitted, nQueued, nIssued, Slice

\* processRequest gives the next proposal the next count.
LEMMA LeaderWrites ==
  ASSUME TypeOK, LeaderInv, NEW s \in Server, processWrite(s)
  PROVE  LeaderInv'
<1> DEFINE r == dequeue(reqs[s])
           C == committed[Leader]
           Q == proposalsQueue[Leader]
           P == Len(issued)
           e == StateChange(P + 1, r)
<1>1. /\ reqs[s] \in Seq(Request) /\ reqs[s] # << >>
      /\ issued \in Seq(Request) /\ C \in Seq(Proposal) /\ Q \in Seq(Proposal)
  BY LeaderFacts DEF processWrite, TypeOK
<1>2. r \in Request
  BY <1>1, DequeueFacts
<1>3. P \in Nat /\ Len(C) \in Nat /\ Len(Q) \in Nat /\ Len(C) + Len(Q) = P
  BY <1>1, LenProperties DEF LeaderInv, Received, nCommitted, nQueued, nIssued
<1>4. e \in Proposal
  BY <1>2, <1>3 DEF StateChange, Proposal
<1>5. /\ zxidCounter'[Leader] = P + 1
      /\ proposalsQueue'[Leader] = Append(Q, e)
      /\ committed'[Leader] = C
      /\ issued' = Append(issued, r)
  BY LeaderFacts DEF processWrite, TypeOK, LeaderInv, nIssued
<1>6. Slice(C, 0, issued) /\ Slice(Q, Len(C), issued)
  BY DEF LeaderInv, nCommitted
<1> HIDE DEF r, C, Q
<1>7. Slice(C, 0, Append(issued, r)) /\ Slice(Q, Len(C), Append(issued, r))
  <2>1. 0 + Len(C) <= Len(issued) /\ Len(C) + Len(Q) <= Len(issued)
    BY <1>3
  <2> QED
    BY <1>1, <1>2, <1>3, <1>6, <2>1, SliceGrow
<1>8. /\ Append(issued, r)[P + 1] = r /\ Len(Append(issued, r)) = P + 1
      /\ Len(Append(Q, e)) = Len(Q) + 1
  BY <1>1, <1>2, <1>4, AppendFacts
<1>9. Slice(Append(Q, e), Len(C), Append(issued, r))
  <2>1. Len(C) + Len(Q) + 1 = P + 1
    BY <1>3
  <2> QED
    BY <1>1, <1>3, <1>4, <1>7, <1>8, <2>1, SliceAppend
<1>10. Len(C) + (Len(Q) + 1) = P + 1
  BY <1>3
<1> QED
  BY <1>5, <1>7, <1>8, <1>9, <1>10
     DEF LeaderInv, Received, nCommitted, nQueued, nIssued, Slice, C

\* processCommitProposal moves the oldest proposal, whichever ACK brought it.
LEMMA LeaderCommits ==
  ASSUME TypeOK, LeaderInv, processCommitProposal(Leader),
         UNCHANGED <<zxidCounter, issued>>
  PROVE  LeaderInv'
<1> DEFINE C == committed[Leader]
           Q == proposalsQueue[Leader]
           e == dequeue(Q)
<1>1. CASE Q = << >>
  BY <1>1, FrameLeader DEF processCommitProposal
<1>2. CASE Q # << >>
  <2>1. C \in Seq(Proposal) /\ Q \in Seq(Proposal)
    BY LeaderFacts DEF TypeOK
  <2>2. committed'[Leader] = Append(C, e) /\ proposalsQueue'[Leader] = Tail(Q)
    BY <1>2, LeaderFacts DEF processCommitProposal, TypeOK
  <2>3. Slice(C, 0, issued) /\ Slice(Q, Len(C), issued)
    BY DEF LeaderInv, nCommitted
  <2> HIDE DEF C, Q, e
  <2>4. /\ Len(C) \in Nat /\ Len(Q) \in Nat
        /\ Len(Append(C, e)) = Len(C) + 1 /\ Len(Tail(Q)) = Len(Q) - 1
        /\ e \in Proposal
    BY <1>2, <2>1, AppendFacts, DequeueFacts, LenProperties DEF e
  <2>5. Slice(Tail(Q), Len(C) + 1, issued) /\ e = StateChange(Len(C) + 1, issued[Len(C) + 1])
    BY <1>2, <2>1, <2>3, <2>4, SliceTail DEF e
  <2>6. Slice(Append(C, e), 0, issued)
    <3>1. 0 + Len(C) + 1 = Len(C) + 1
      BY <2>4
    <3> QED
      BY <2>1, <2>3, <2>4, <2>5, <3>1, SliceAppend
  <2>7. Len(C) + Len(Q) = Len(issued)
    BY DEF LeaderInv, Received, nCommitted, nQueued, nIssued, C, Q
  <2>8. Len(C) + 1 + (Len(Q) - 1) = Len(issued)
    BY <2>4, <2>7
  <2>9. zxidCounter'[Leader] = Len(issued)
    BY DEF LeaderInv, nIssued
  <2> QED
    BY ZenonT(60), <2>2, <2>4, <2>5, <2>6, <2>8, <2>9
       DEF LeaderInv, Received, nCommitted, nQueued, nIssued, Slice
<1> QED
  BY <1>1, <1>2

\* Every step, a loss included, preserves LeaderInv.
LEMMA LeaderStep ==
  ASSUME TypeOK, LeaderInv, [Next]_vars
  PROVE  LeaderInv'
<1>1. ASSUME NEW s \in Server, processWrite(s) PROVE LeaderInv'
  BY <1>1, LeaderWrites
<1>2. ASSUME NEW f \in Follower, processACK(f) PROVE LeaderInv'
  <2>1. UNCHANGED <<zxidCounter, issued>>
    BY <1>2 DEF processACK
  <2>2. CASE processCommitProposal(Leader)
    BY <2>1, <2>2, LeaderCommits
  <2>3. CASE ~processCommitProposal(Leader)
    <3>1. UNCHANGED <<proposalsQueue, committed>>
      BY <1>2, <2>3 DEF processACK
    <3> QED
      BY <2>1, <3>1, FrameLeader
  <2> QED
    BY <2>2, <2>3
<1>3. ASSUME NEW f \in Follower, processStateChangeProposal(f) \/ processCommit(f)
      PROVE  LeaderInv'
  <2>1. f # Leader
    BY LeaderFacts
  <2>2. CASE processStateChangeProposal(f)
    <3>1. /\ issued' = issued /\ committed' = committed
          /\ zxidCounter'[Leader] = zxidCounter[Leader]
          /\ proposalsQueue'[Leader] = proposalsQueue[Leader]
      BY <2>1, <2>2, LeaderFacts DEF processStateChangeProposal, aux, TypeOK
    <3> QED
      BY <3>1, FrameLeader
  <2>3. CASE processCommit(f)
    <3>1. issued' = issued /\ zxidCounter' = zxidCounter /\ processCommitProposal(f)
      BY <2>3 DEF processCommit, aux
    <3>2. committed'[Leader] = committed[Leader] /\ proposalsQueue'[Leader] = proposalsQueue[Leader]
      BY <2>1, <3>1, LeaderFacts DEF processCommitProposal, TypeOK
    <3> QED
      BY <3>1, <3>2, FrameLeader
  <2> QED
    BY <1>3, <2>2, <2>3
<1>4. CASE UNCHANGED <<zxidCounter, proposalsQueue, committed, issued>>
  BY <1>4, FrameLeader
<1>5. ASSUME NEW r \in Request, SendWriteRequest(r)
      PROVE  UNCHANGED <<zxidCounter, proposalsQueue, committed, issued>>
  BY <1>5 DEF SendWriteRequest, queues
<1>6. ASSUME NEW s \in Server, denyWrite(s) \/ processErr(s) \/ proposalWriter(s)
      PROVE  UNCHANGED <<zxidCounter, proposalsQueue, committed, issued>>
  BY <1>6 DEF denyWrite, processErr, proposalWriter, queues, aux
<1>7. ASSUME NEW f \in Follower, Crash(f) \/ Drop(f) \/ DropReply(f)
      PROVE  UNCHANGED <<zxidCounter, proposalsQueue, committed, issued>>
  BY <1>7 DEF Crash, Drop, DropReply, queues, aux
<1>8. CASE UNCHANGED vars
  BY <1>4, <1>8 DEF vars, queues, aux
<1> QED
  BY <1>1, <1>2, <1>3, <1>4, <1>5, <1>6, <1>7, <1>8 DEF Next

\* LeaderInv holds when nothing is issued yet.
LEMMA LeaderInit == Init => LeaderInv
<1> SUFFICES ASSUME Init PROVE LeaderInv
  OBVIOUS
<1>1. /\ issued = << >> /\ committed[Leader] = << >> /\ proposalsQueue[Leader] = << >>
      /\ zxidCounter[Leader] = 0
  BY LeaderFacts DEF Init
<1>2. Len(<< >>) = 0
  BY EmptySeq
<1> QED
  BY <1>1, <1>2 DEF LeaderInv, Received, nCommitted, nQueued, nIssued, Slice

\* The coordinator commits its proposals one by one in the order it issued
\* them, whatever ACKs are lost.
THEOREM LeaderOrder == Spec => []CoordinatorInOrder
<1>1. Init => LeaderInv
  BY LeaderInit
<1>2. TypeOK /\ LeaderInv /\ [Next]_vars => LeaderInv'
  BY LeaderStep
<1>3. TypeOK /\ LeaderInv => CoordinatorInOrder
  <2> SUFFICES ASSUME TypeOK, LeaderInv, NEW i \in 1..Len(committed[Leader])
               PROVE  i <= Len(issued) /\ committed[Leader][i] = StateChange(i, issued[i])
    BY DEF CoordinatorInOrder
  <2>1. PICK c \in Nat, w \in Nat, P \in Nat :
          c = nCommitted(Leader) /\ w = nQueued(Leader) /\ P = nIssued
    BY LenFacts, LeaderFacts
  <2>2. c + w = P /\ i \in 1..c
    BY <2>1 DEF LeaderInv, Received, nCommitted
  <2>3. i <= P /\ 0 + i = i
    BY <2>1, <2>2
  <2> QED
    BY <2>1, <2>3 DEF LeaderInv, Slice, nIssued
<1> QED
  BY <1>1, <1>2, <1>3, TypeCorrect, PTL DEF Spec

-----------------------------------------------------------------------------
(* The followers *)

\* What a follower has accepted, in the order in which it came: the proposals it
\* has committed and those it queues.
held(f) == committed[f] \o proposalsQueue[f]

Increasing(q) ==
  \A i, j \in 1..Len(q) : i < j => q[i].CountNum < q[j].CountNum
Below(q, n) == \A i \in 1..Len(q) : q[i].CountNum < n

\* The StateChanges of the broadcast carry increasing counts, none above the
\* coordinator's counter; what a follower holds is increasing and below all
\* that the broadcast still has for it.
BroadcastOrder ==
  /\ \A i \in 1..nBcast : IsSC(i) => bcast[i].CountNum <= zxidCounter[Leader]
  /\ \A i, j \in 1..nBcast :
       i < j /\ IsSC(i) /\ IsSC(j) => bcast[i].CountNum < bcast[j].CountNum
HeldOrder(f) ==
  /\ rcvd[f] <= nBcast
  /\ Increasing(held(f))
  /\ Below(held(f), zxidCounter[Leader] + 1)
  /\ \A j \in 1..nBcast :
       j > rcvd[f] /\ IsSC(j) => Below(held(f), bcast[j].CountNum)
OrderInv == BroadcastOrder /\ \A f \in Follower : HeldOrder(f)

\* Counts of proposals are natural numbers, in the queues and in the broadcast.
LEMMA CountFacts ==
  ASSUME TypeOK
  PROVE  /\ \A s \in Server : held(s) \in Seq(Proposal) /\ Len(held(s)) \in Nat
         /\ \A s \in Server : \A i \in 1..Len(held(s)) : held(s)[i].CountNum \in Nat
         /\ \A i \in 1..nBcast : IsSC(i) => bcast[i] \in Proposal /\ bcast[i].CountNum \in Nat
         /\ zxidCounter[Leader] \in Nat
         /\ nBcast \in Nat /\ \A f \in Follower : rcvd[f] \in Nat
<1>1. \A p \in Proposal : p.CountNum \in Nat
  BY DEF Proposal
<1>2. ASSUME NEW s \in Server PROVE held(s) \in Seq(Proposal) /\ Len(held(s)) \in Nat
  <2>1. committed[s] \in Seq(Proposal) /\ proposalsQueue[s] \in Seq(Proposal)
    BY DEF TypeOK
  <2>2. held(s) \in Seq(Proposal)
    BY <2>1, ConcatProperties DEF held
  <2> QED
    BY <2>2, LenProperties
<1>3. ASSUME NEW s \in Server, NEW i \in 1..Len(held(s)) PROVE held(s)[i].CountNum \in Nat
  BY <1>1, <1>2, ElementOfSeq
<1>4. ASSUME NEW i \in 1..nBcast, IsSC(i) PROVE bcast[i] \in Proposal
  <2>1. bcast[i] \in Proposal \cup {CommitMsg}
    BY ElementOfSeq DEF TypeOK, nBcast
  <2> QED
    BY <1>4, <2>1, MessageFacts DEF IsSC
<1>5. zxidCounter[Leader] \in Nat
  BY LeaderFacts DEF TypeOK
<1> QED
  BY <1>1, <1>2, <1>3, <1>4, <1>5, LenFacts

\* A proposal above all of an increasing queue can be appended to it.
LEMMA IncreasingAppend ==
  ASSUME NEW q \in Seq(Proposal), NEW e \in Proposal, NEW n \in Nat,
         Increasing(q), Below(q, e.CountNum), Below(q, n), e.CountNum < n
  PROVE  Increasing(Append(q, e)) /\ Below(Append(q, e), n)
<1> DEFINE m == Len(q)
           p == Append(q, e)
<1>1. m \in Nat /\ Len(p) = m + 1 /\ p[m + 1] = e /\ \A i \in 1..m : p[i] = q[i]
  BY AppendFacts, LenProperties
<1>2. /\ \A i, j \in 1..m : i < j => q[i].CountNum < q[j].CountNum
      /\ \A i \in 1..m : q[i].CountNum < e.CountNum
      /\ \A i \in 1..m : q[i].CountNum < n
  BY DEF Increasing, Below
<1> HIDE DEF m, p
<1>3. ASSUME NEW i \in 1..(m + 1) PROVE p[i].CountNum < n
  BY <1>1, <1>2
<1>4. ASSUME NEW i \in 1..(m + 1), NEW j \in 1..(m + 1), i < j
      PROVE  p[i].CountNum < p[j].CountNum
  <2>1. i \in 1..m
    BY <1>1, <1>4
  <2>2. CASE j = m + 1
    BY <1>1, <1>2, <2>1, <2>2
  <2>3. CASE j \in 1..m
    BY <1>1, <1>2, <1>4, <2>1, <2>3
  <2> QED
    BY <1>1, <2>2, <2>3
<1> QED
  BY <1>1, <1>3, <1>4 DEF Increasing, Below, p

\* Moving the head of the second queue to the end of the first one leaves the
\* two together as they were (processCommitProposal).
LEMMA ConcatMove ==
  ASSUME NEW S, NEW c \in Seq(S), NEW q \in Seq(S), q # << >>
  PROVE  Append(c, dequeue(q)) \o Tail(q) = c \o q
<1> DEFINE n == Len(c)
           m == Len(q)
           a == Append(c, dequeue(q))
           t == Tail(q)
<1>1. /\ n \in Nat /\ m \in Nat /\ m >= 1
      /\ a \in Seq(S) /\ Len(a) = n + 1 /\ a[n + 1] = q[1]
      /\ \A i \in 1..n : a[i] = c[i]
      /\ t \in Seq(S) /\ Len(t) = m - 1
      /\ \A i \in 1..(m - 1) : t[i] = q[i + 1]
  BY AppendFacts, DequeueFacts, LenProperties
<1>2. /\ c \o q \in Seq(S) /\ Len(c \o q) = n + m
      /\ \A i \in 1..(n + m) : (c \o q)[i] = IF i <= n THEN c[i] ELSE q[i - n]
  BY ConcatProperties
<1> HIDE DEF n, m, a, t
<1>3. /\ a \o t \in Seq(S) /\ Len(a \o t) = n + m
      /\ \A i \in 1..(n + m) : (a \o t)[i] = IF i <= n + 1 THEN a[i] ELSE t[i - (n + 1)]
  <2>1. Len(a) = n + 1 /\ Len(t) = m - 1 /\ Len(a) + Len(t) = n + m
    BY <1>1
  <2>2. /\ a \o t \in Seq(S) /\ Len(a \o t) = Len(a) + Len(t)
        /\ \A i \in 1..(Len(a) + Len(t)) :
             (a \o t)[i] = IF i <= Len(a) THEN a[i] ELSE t[i - Len(a)]
    BY ZenonT(60), <1>1, ConcatProperties
  <2> QED
    BY <2>1, <2>2
<1>4. ASSUME NEW i \in 1..(n + m) PROVE (a \o t)[i] = (c \o q)[i]
  <2>1. CASE i <= n
    BY SMTT(60), <1>1, <1>2, <1>3, <2>1
  <2>2. CASE i = n + 1
    <3>1. i - n = 1 /\ ~(i <= n) /\ i <= n + 1
      BY <1>1, <2>2
    <3>2. (c \o q)[i] = q[1] /\ (a \o t)[i] = a[i]
      BY <1>2, <1>3, <3>1
    <3> QED
      BY <1>1, <2>2, <3>2
  <2>3. CASE i > n + 1
    <3>1. i - (n + 1) \in 1..(m - 1) /\ i - (n + 1) + 1 = i - n /\ ~(i <= n) /\ ~(i <= n + 1)
      BY <1>1, <2>3
    <3>2. (c \o q)[i] = q[i - n] /\ (a \o t)[i] = t[i - (n + 1)]
      BY <1>2, <1>3, <3>1
    <3>3. t[i - (n + 1)] = q[i - (n + 1) + 1]
      BY <1>1, <3>1
    <3> QED
      BY <3>1, <3>2, <3>3
  <2>4. i <= n \/ i = n + 1 \/ i > n + 1
    <3>1. n \in Nat /\ m \in Nat
      BY <1>1
    <3> QED
      BY <3>1
  <2> QED
    BY <2>1, <2>2, <2>3, <2>4
<1>5. a \o t = c \o q
  BY <1>2, <1>3, <1>4, SeqEqual
<1> QED
  BY <1>5 DEF a, t

\* Appending to the second of two queues appends to the two together.
LEMMA ConcatAppend ==
  ASSUME NEW S, NEW c \in Seq(S), NEW q \in Seq(S), NEW e \in S
  PROVE  c \o Append(q, e) = Append(c \o q, e)
<1> DEFINE n == Len(c)
           m == Len(q)
           a == Append(q, e)
           l == c \o a
           r == Append(c \o q, e)
<1>1. /\ n \in Nat /\ m \in Nat
      /\ a \in Seq(S) /\ Len(a) = m + 1 /\ a[m + 1] = e /\ \A i \in 1..m : a[i] = q[i]
  BY AppendFacts, LenProperties
<1>2. /\ c \o q \in Seq(S) /\ Len(c \o q) = n + m
      /\ \A i \in 1..(n + m) : (c \o q)[i] = IF i <= n THEN c[i] ELSE q[i - n]
  BY ConcatProperties
<1>3. /\ r \in Seq(S) /\ Len(r) = Len(c \o q) + 1 /\ r[Len(c \o q) + 1] = e
      /\ \A i \in 1..Len(c \o q) : r[i] = (c \o q)[i]
  BY <1>2, AppendFacts
<1>4. /\ l \in Seq(S) /\ Len(l) = n + Len(a)
      /\ \A i \in 1..(n + Len(a)) : l[i] = IF i <= n THEN c[i] ELSE a[i - n]
  BY <1>1, ConcatProperties
<1> HIDE DEF n, m, a, l, r
<1>5. Len(l) = n + m + 1 /\ Len(r) = n + m + 1
  BY <1>1, <1>2, <1>3, <1>4
<1>6. ASSUME NEW i \in 1..(n + m + 1) PROVE l[i] = r[i]
  <2>1. l[i] = IF i <= n THEN c[i] ELSE a[i - n]
    BY <1>1, <1>4, <1>5
  <2>2. CASE i <= n
    <3>1. i \in 1..(n + m)
      BY <1>1, <2>2
    <3> QED
      BY <1>2, <1>3, <2>1, <2>2, <3>1
  <2>3. CASE i > n /\ i <= n + m
    <3>1. i \in 1..(n + m) /\ ~(i <= n) /\ i - n \in 1..m
      BY SMTT(60), <1>1, <2>3
    <3>2. a[i - n] = q[i - n] /\ r[i] = q[i - n]
      BY <1>1, <1>2, <1>3, <3>1
    <3> QED
      BY <2>1, <3>1, <3>2
  <2>4. CASE i = n + m + 1
    <3>1. ~(i <= n) /\ i - n = m + 1
      BY <1>1, <2>4
    <3> QED
      BY <1>1, <1>2, <1>3, <2>1, <2>4, <3>1
  <2> QED
    BY <1>1, <2>2, <2>3, <2>4
<1>7. l = r
  BY <1>3, <1>4, <1>5, <1>6, SeqEqual
<1> QED
  BY <1>7 DEF l, r, a

\* A Commit changes nothing in what a follower holds.
LEMMA HeldCommit ==
  ASSUME TypeOK, NEW s \in Server, processCommitProposal(s)
  PROVE  \A u \in Server : held(u)' = held(u)
<1> SUFFICES ASSUME NEW u \in Server PROVE held(u)' = held(u)
  OBVIOUS
<1>1. CASE proposalsQueue[s] = << >> \/ u # s
  BY <1>1 DEF processCommitProposal, held, TypeOK
<1>2. CASE proposalsQueue[s] # << >> /\ u = s
  <2>1. committed[s] \in Seq(Proposal) /\ proposalsQueue[s] \in Seq(Proposal)
    BY DEF TypeOK
  <2>2. /\ committed'[s] = Append(committed[s], dequeue(proposalsQueue[s]))
        /\ proposalsQueue'[s] = Tail(proposalsQueue[s])
    BY <1>2 DEF processCommitProposal, TypeOK
  <2> QED
    BY ZenonT(60), <1>2, <2>1, <2>2, ConcatMove DEF held
<1> QED
  BY <1>1, <1>2

\* OrderInv stays when messages are taken or lost, and what followers hold does
\* not change.
LEMMA FrameOrder ==
  ASSUME TypeOK, OrderInv, UNCHANGED bcast, zxidCounter'[Leader] = zxidCounter[Leader],
         \A g \in Follower : /\ held(g)' = held(g)
                             /\ rcvd'[g] \in rcvd[g]..nBcast
  PROVE  OrderInv'
<1>1. nBcast' = nBcast /\ \A i : IsSC(i)' = IsSC(i)
  BY DEF nBcast, IsSC
<1>2. BroadcastOrder'
  BY <1>1 DEF OrderInv, BroadcastOrder
<1>3. ASSUME NEW g \in Follower PROVE HeldOrder(g)'
  <2>1. HeldOrder(g) /\ held(g)' = held(g) /\ rcvd[g] \in Nat /\ nBcast \in Nat
        /\ rcvd'[g] >= rcvd[g] /\ rcvd'[g] <= nBcast /\ rcvd'[g] \in Int
    BY CountFacts DEF OrderInv
  <2>2. \A j \in 1..nBcast : j > rcvd'[g] => j > rcvd[g]
    BY <2>1
  <2>3. Increasing(held(g)') /\ Below(held(g)', zxidCounter'[Leader] + 1)
    BY <2>1 DEF HeldOrder
  <2>4. \A j \in 1..nBcast' : j > rcvd'[g] /\ IsSC(j)' => Below(held(g)', bcast'[j].CountNum)
    BY <1>1, <2>1, <2>2 DEF HeldOrder
  <2> QED
    BY <1>1, <2>1, <2>3, <2>4 DEF HeldOrder, Increasing, Below
<1> QED
  BY <1>2, <1>3 DEF OrderInv

\* processRequest broadcasts a proposal with a count above all earlier ones.
LEMMA OrderWrites ==
  ASSUME TypeOK, OrderInv, NEW s \in Server, processWrite(s)
  PROVE  OrderInv'
<1> DEFINE z == zxidCounter[Leader]
           e == StateChange(z + 1, dequeue(reqs[s]))
           B == nBcast
<1>1. /\ zxidCounter'[Leader] = z + 1 /\ bcast' = Append(bcast, e)
      /\ \A g \in Follower : held(g)' = held(g) /\ rcvd'[g] = rcvd[g]
  BY LeaderFacts DEF processWrite, TypeOK, held
<1>2. z \in Nat /\ B \in Nat /\ e.CountNum = z + 1 /\ e \in Proposal
  <2>1. dequeue(reqs[s]) \in Request
    BY DequeueFacts DEF processWrite, TypeOK
  <2>2. z \in Nat /\ B \in Nat
    BY CountFacts
  <2> HIDE DEF z
  <2> QED
    BY <2>1, <2>2 DEF StateChange, Proposal
<1>3. /\ nBcast' = B + 1 /\ bcast'[B + 1] = e
      /\ \A i \in 1..B : bcast'[i] = bcast[i] /\ IsSC(i)' = IsSC(i)
  <2>1. bcast \in Seq(Proposal \cup {CommitMsg}) /\ e \in Proposal \cup {CommitMsg}
    BY <1>2 DEF TypeOK
  <2>2. /\ Len(Append(bcast, e)) = Len(bcast) + 1 /\ Append(bcast, e)[Len(bcast) + 1] = e
        /\ \A i \in 1..Len(bcast) : Append(bcast, e)[i] = bcast[i]
    BY <2>1, AppendFacts
  <2> HIDE DEF e
  <2> QED
    BY <1>1, <2>2 DEF nBcast, IsSC
<1> HIDE DEF z, e, B
<1>4. \A i \in 1..B : IsSC(i) => bcast[i].CountNum <= z /\ bcast[i].CountNum \in Nat
  BY CountFacts DEF OrderInv, BroadcastOrder, z, B
<1>5. ASSUME NEW i \in 1..(B + 1), IsSC(i)' PROVE bcast'[i].CountNum <= z + 1
  BY <1>2, <1>3, <1>4, <1>5
<1>6. ASSUME NEW i \in 1..(B + 1), NEW j \in 1..(B + 1), i < j, IsSC(i)', IsSC(j)'
      PROVE  bcast'[i].CountNum < bcast'[j].CountNum
  <2>1. i \in 1..B /\ IsSC(i) /\ bcast'[i] = bcast[i]
    BY <1>2, <1>3, <1>6
  <2>2. CASE j = B + 1
    BY <1>2, <1>3, <1>4, <2>1, <2>2
  <2>3. CASE j \in 1..B
    <3>1. IsSC(j) /\ bcast'[j] = bcast[j]
      BY <1>3, <1>6, <2>3
    <3> QED
      BY <1>6, <2>1, <2>3, <3>1 DEF OrderInv, BroadcastOrder, B
  <2> QED
    BY <1>2, <2>2, <2>3
<1>7. BroadcastOrder'
  BY <1>1, <1>3, <1>5, <1>6 DEF BroadcastOrder
<1>8. ASSUME NEW g \in Follower PROVE HeldOrder(g)'
  <2>1. HeldOrder(g) /\ rcvd[g] \in Nat /\ g \in Server
    BY CountFacts, LeaderFacts DEF OrderInv
  <2>2. \A i \in 1..Len(held(g)) :
          held(g)[i].CountNum \in Nat /\ held(g)[i].CountNum < z + 1
    BY <2>1, CountFacts DEF HeldOrder, Below, z
  <2>3. Below(held(g), z + 1 + 1) /\ Below(held(g), e.CountNum)
    BY <1>2, <2>2 DEF Below
  <2>4. ASSUME NEW j \in 1..(B + 1), j > rcvd[g], IsSC(j)'
        PROVE  Below(held(g), bcast'[j].CountNum)
    <3>1. CASE j = B + 1
      BY <1>3, <2>3, <3>1
    <3>2. CASE j \in 1..B
      BY <1>3, <2>1, <2>4, <3>2 DEF HeldOrder, B
    <3> QED
      BY <1>2, <3>1, <3>2
  <2>5. Increasing(held(g)) /\ rcvd[g] <= B + 1
    BY <1>2, <2>1 DEF HeldOrder, B
  <2> QED
    BY <1>1, <1>3, <2>3, <2>4, <2>5 DEF HeldOrder, Increasing, Below
<1> QED
  BY <1>7, <1>8 DEF OrderInv

\* broadcastCommit adds a Commit, which carries no count.
LEMMA OrderCommits ==
  ASSUME TypeOK, OrderInv, NEW f \in Follower, processACK(f)
  PROVE  OrderInv'
<1>1. /\ zxidCounter' = zxidCounter /\ rcvd' = rcvd
      /\ \A g \in Follower : held(g)' = held(g)
  <2>1. zxidCounter' = zxidCounter /\ rcvd' = rcvd
    BY DEF processACK
  <2>2. CASE processCommitProposal(Leader)
    BY <2>1, <2>2, HeldCommit, LeaderFacts
  <2>3. CASE ~processCommitProposal(Leader)
    BY <2>1, <2>3 DEF processACK, held
  <2> QED
    BY <2>1, <2>2, <2>3
<1>2. \A g \in Follower : rcvd'[g] \in rcvd[g]..nBcast
  BY <1>1, CountFacts DEF OrderInv, HeldOrder
<1>3. CASE bcast' = bcast
  BY <1>1, <1>2, <1>3, FrameOrder
<1>4. CASE bcast' = Append(bcast, CommitMsg)
  <2>1. PICK B \in Nat : B = nBcast /\ B = Len(bcast)
    BY CountFacts DEF nBcast
  <2>2. /\ nBcast' = B + 1 /\ bcast'[B + 1] = CommitMsg
        /\ \A i \in 1..B : bcast'[i] = bcast[i]
    <3>1. bcast \in Seq(Proposal \cup {CommitMsg}) /\ CommitMsg \in Proposal \cup {CommitMsg}
      BY DEF TypeOK
    <3>2. /\ Len(Append(bcast, CommitMsg)) = Len(bcast) + 1
          /\ Append(bcast, CommitMsg)[Len(bcast) + 1] = CommitMsg
          /\ \A i \in 1..Len(bcast) : Append(bcast, CommitMsg)[i] = bcast[i]
      BY <3>1, AppendFacts
    <3> QED
      BY <1>4, <2>1, <3>2 DEF nBcast
  <2>3. ASSUME NEW i \in 1..(B + 1), IsSC(i)'
        PROVE  i \in 1..B /\ IsSC(i) /\ bcast'[i] = bcast[i]
    <3>1. i # B + 1
      BY <2>2, <2>3, MessageFacts DEF IsSC
    <3>2. i \in 1..B
      BY <3>1
    <3> QED
      BY <2>2, <2>3, <3>2 DEF IsSC
  <2>4. BroadcastOrder'
    BY <1>1, <2>1, <2>2, <2>3 DEF OrderInv, BroadcastOrder
  <2>5. ASSUME NEW g \in Follower PROVE HeldOrder(g)'
    <3>1. HeldOrder(g) /\ rcvd[g] \in Nat
      BY CountFacts DEF OrderInv
    <3>2. rcvd[g] <= B + 1
      BY <2>1, <3>1 DEF HeldOrder
    <3>3. \A j \in 1..(B + 1) :
            j > rcvd[g] /\ IsSC(j)' => Below(held(g), bcast'[j].CountNum)
      BY <2>1, <2>3, <3>1 DEF HeldOrder
    <3>4. Increasing(held(g)) /\ Below(held(g), zxidCounter[Leader] + 1)
      BY <3>1 DEF HeldOrder
    <3> QED
      BY <1>1, <2>2, <3>2, <3>3, <3>4 DEF HeldOrder, Increasing, Below
  <2> QED
    BY <2>4, <2>5 DEF OrderInv
<1> QED
  BY <1>3, <1>4 DEF processACK

\* A follower accepts the next proposal of the broadcast.
LEMMA OrderAccepts ==
  ASSUME TypeOK, OrderInv, NEW f \in Follower, processStateChangeProposal(f)
  PROVE  OrderInv'
<1> DEFINE n == rcvd[f] + 1
           e == bcast[n]
<1>1. /\ UNCHANGED <<bcast, committed>> /\ zxidCounter'[Leader] = zxidCounter[Leader]
      /\ proposalsQueue' = [proposalsQueue EXCEPT ![f] = Append(@, e)]
      /\ rcvd' = [rcvd EXCEPT ![f] = @ + 1]
      /\ rcvd[f] < nBcast /\ IsSC(n)
  BY LeaderFacts DEF processStateChangeProposal, TypeOK, nBcast, IsSC
<1>2. /\ rcvd[f] \in Nat /\ nBcast \in Nat /\ n \in 1..nBcast /\ zxidCounter[Leader] \in Nat
      /\ e \in Proposal /\ e.CountNum \in Nat /\ e.CountNum <= zxidCounter[Leader]
  <2>1. rcvd[f] \in Nat /\ nBcast \in Nat /\ zxidCounter[Leader] \in Nat
    BY CountFacts
  <2>2. n \in 1..nBcast
    BY <1>1, <2>1
  <2> HIDE DEF n
  <2> QED
    BY <1>1, <2>1, <2>2, CountFacts DEF OrderInv, BroadcastOrder
<1>3. nBcast' = nBcast /\ \A i : IsSC(i)' = IsSC(i)
  BY <1>1 DEF nBcast, IsSC
<1>4. BroadcastOrder'
  BY <1>1, <1>3 DEF OrderInv, BroadcastOrder
<1>5. held(f)' = Append(held(f), e)
  <2>1. /\ committed[f] \in Seq(Proposal) /\ proposalsQueue[f] \in Seq(Proposal)
        /\ committed'[f] = committed[f]
        /\ proposalsQueue'[f] = Append(proposalsQueue[f], e)
    BY <1>1, LeaderFacts DEF TypeOK
  <2> HIDE DEF e
  <2>2. committed[f] \o Append(proposalsQueue[f], e) = Append(committed[f] \o proposalsQueue[f], e)
    <3>1. ASSUME NEW c \in Seq(Proposal), NEW q \in Seq(Proposal), NEW p \in Proposal
          PROVE  c \o Append(q, p) = Append(c \o q, p)
      BY ConcatAppend
    <3>2. e \in Proposal
      BY <1>2
    <3> QED
      BY <2>1, <3>1, <3>2
  <2> QED
    BY <2>1, <2>2 DEF held
<1>6. rcvd'[f] = n /\ \A g \in Follower : g # f => rcvd'[g] = rcvd[g] /\ held(g)' = held(g)
  BY <1>1, LeaderFacts DEF TypeOK, held
<1>7. HeldOrder(f) /\ held(f) \in Seq(Proposal)
  BY CountFacts, LeaderFacts DEF OrderInv
<1>8. ASSUME NEW m \in Nat, Below(held(f), m), e.CountNum < m
      PROVE  Below(held(f)', m) /\ Increasing(held(f)')
  <2>1. Increasing(held(f)) /\ Below(held(f), e.CountNum)
    BY <1>1, <1>2, <1>7 DEF HeldOrder
  <2> QED
    BY <1>2, <1>5, <1>7, <1>8, <2>1, IncreasingAppend
<1> HIDE DEF e
<1>9. HeldOrder(f)'
  <2>1. Increasing(held(f)') /\ Below(held(f)', zxidCounter[Leader] + 1)
    BY <1>2, <1>7, <1>8 DEF HeldOrder
  <2>2. ASSUME NEW j \in 1..nBcast, j > n, IsSC(j) PROVE Below(held(f)', bcast[j].CountNum)
    <3>1. e.CountNum < bcast[j].CountNum /\ bcast[j].CountNum \in Nat
      BY <1>1, <1>2, <2>2, CountFacts DEF OrderInv, BroadcastOrder, e
    <3>2. Below(held(f), bcast[j].CountNum)
      <4>1. j > rcvd[f]
        BY <1>2, <2>2
      <4> QED
        BY <1>7, <2>2, <4>1 DEF HeldOrder
    <3> QED
      BY <1>8, <3>1, <3>2
  <2>3. n <= nBcast
    BY <1>2
  <2> HIDE DEF n
  <2> QED
    BY <1>1, <1>3, <1>6, <2>1, <2>2, <2>3 DEF HeldOrder, Increasing, Below
<1>10. ASSUME NEW g \in Follower, g # f PROVE HeldOrder(g)'
  <2>1. HeldOrder(g) /\ rcvd'[g] = rcvd[g] /\ held(g)' = held(g)
    BY <1>6, <1>10 DEF OrderInv
  <2> QED
    BY <1>1, <1>3, <2>1 DEF HeldOrder, Increasing, Below
<1> QED
  BY <1>4, <1>9, <1>10 DEF OrderInv

\* Every step, a loss included, preserves OrderInv.
LEMMA OrderStep ==
  ASSUME TypeOK, OrderInv, [Next]_vars
  PROVE  OrderInv'
<1>0. \A g \in Follower : rcvd[g] \in Nat /\ rcvd[g] \in rcvd[g]..nBcast
  BY CountFacts DEF OrderInv, HeldOrder
<1>1. ASSUME NEW s \in Server, processWrite(s) PROVE OrderInv'
  BY <1>1, OrderWrites
<1>2. ASSUME NEW f \in Follower, processACK(f) PROVE OrderInv'
  BY <1>2, OrderCommits
<1>3. ASSUME NEW f \in Follower, processStateChangeProposal(f) PROVE OrderInv'
  BY <1>3, OrderAccepts
<1>4. ASSUME NEW f \in Follower, processCommit(f) \/ Drop(f) PROVE OrderInv'
  <2>1. /\ UNCHANGED <<bcast, zxidCounter>> /\ rcvd[f] < nBcast
        /\ rcvd' = [rcvd EXCEPT ![f] = @ + 1]
    BY <1>4 DEF processCommit, Drop, nBcast
  <2>2. \A g \in Follower : held(g)' = held(g)
    <3>1. CASE processCommit(f)
      BY <3>1, HeldCommit, LeaderFacts DEF processCommit
    <3>2. CASE Drop(f)
      BY <3>2 DEF Drop, queues, held
    <3> QED
      BY <1>4, <3>1, <3>2
  <2>3. \A g \in Follower : rcvd'[g] \in rcvd[g]..nBcast
    <3>1. nBcast \in Nat /\ rcvd[f] \in Nat
      BY CountFacts
    <3>2. rcvd[f] + 1 \in rcvd[f]..nBcast
      BY <2>1, <3>1
    <3>3. \A g \in Follower : rcvd'[g] = IF g = f THEN rcvd[f] + 1 ELSE rcvd[g]
      BY <2>1 DEF TypeOK
    <3> QED
      BY <1>0, <3>2, <3>3
  <2> QED
    BY <2>1, <2>2, <2>3, FrameOrder
<1>5. CASE UNCHANGED <<zxidCounter, proposalsQueue, committed, bcast, rcvd>>
  BY <1>0, <1>5, FrameOrder DEF held
<1>6. ASSUME NEW r \in Request, SendWriteRequest(r)
      PROVE  UNCHANGED <<zxidCounter, proposalsQueue, committed, bcast, rcvd>>
  BY <1>6 DEF SendWriteRequest, queues
<1>7. ASSUME NEW s \in Server, denyWrite(s) \/ processErr(s) \/ proposalWriter(s)
      PROVE  UNCHANGED <<zxidCounter, proposalsQueue, committed, bcast, rcvd>>
  BY <1>7 DEF denyWrite, processErr, proposalWriter, queues, channels
<1>8. ASSUME NEW f \in Follower, Crash(f) \/ DropReply(f)
      PROVE  UNCHANGED <<zxidCounter, proposalsQueue, committed, bcast, rcvd>>
  BY <1>8 DEF Crash, DropReply, queues
<1>9. CASE UNCHANGED vars
  BY <1>5, <1>9 DEF vars, queues, channels
<1> QED
  BY <1>1, <1>2, <1>3, <1>4, <1>5, <1>6, <1>7, <1>8, <1>9 DEF Next

\* OrderInv holds when nothing is broadcast yet.
LEMMA OrderInit == Init => OrderInv
<1> SUFFICES ASSUME Init PROVE OrderInv
  OBVIOUS
<1>1. Len(<< >>) = 0 /\ << >> \in Seq(Proposal) /\ << >> \o << >> = << >>
  BY EmptySeq, ConcatEmptySeq
<1>2. /\ nBcast = 0 /\ \A f \in Follower : rcvd[f] = 0 /\ held(f) = << >>
  BY <1>1, LeaderFacts DEF Init, nBcast, held
<1> QED
  BY <1>1, <1>2 DEF OrderInv, BroadcastOrder, HeldOrder, Increasing, Below

\* A follower may miss proposals that are lost, but never commits one behind a
\* later one: its commits carry increasing counts.
THEOREM FollowerOrder == Spec => []FollowerInOrder
<1>1. Init => OrderInv
  BY OrderInit
<1>2. TypeOK /\ OrderInv /\ [Next]_vars => OrderInv'
  BY OrderStep
<1>3. TypeOK /\ OrderInv => FollowerInOrder
  <2> SUFFICES ASSUME TypeOK, OrderInv, NEW f \in Follower,
                      NEW i \in 1..Len(committed[f]), NEW j \in 1..Len(committed[f]), i < j
               PROVE  committed[f][i].CountNum < committed[f][j].CountNum
    BY DEF FollowerInOrder
  <2>1. committed[f] \in Seq(Proposal) /\ proposalsQueue[f] \in Seq(Proposal)
    BY LeaderFacts DEF TypeOK
  <2>2. PICK c \in Nat, w \in Nat : c = Len(committed[f]) /\ w = Len(proposalsQueue[f])
    BY <2>1, LenProperties
  <2>3. /\ Len(held(f)) = c + w
        /\ \A k \in 1..(c + w) : k <= c => held(f)[k] = committed[f][k]
    BY <2>1, <2>2, ConcatProperties DEF held
  <2>4. i \in 1..(c + w) /\ j \in 1..(c + w) /\ i <= c /\ j <= c
    <3>1. i \in 1..c /\ j \in 1..c
      BY <2>2
    <3> QED
      BY <3>1
  <2>5. held(f)[i].CountNum < held(f)[j].CountNum
    BY <2>3, <2>4 DEF OrderInv, HeldOrder, Increasing
  <2> QED
    BY <2>3, <2>4, <2>5
<1> QED
  BY <1>1, <1>2, <1>3, TypeCorrect, PTL DEF Spec

-----------------------------------------------------------------------------
(* The coordinator never commits twice for one proposal *)

\* Follower f may still acknowledge k: an ACK is under way, or the proposal is.
Awaits(f, k) ==
  \/ \E i \in 1..nAcks(f) : acks[f][i] = k
  \/ \E j \in 1..nBcast : j > rcvd[f] /\ IsSC(j) /\ bcast[j].CountNum = k
Pending(k) == {f \in Follower : Awaits(f, k)}

\* A follower's ACKs increase and are below all that the broadcast still has
\* for it, so it acknowledges a proposal once.
AckOrder(f) ==
  /\ rcvd[f] <= nBcast
  /\ \A i, j \in 1..nAcks(f) : i < j => acks[f][i] < acks[f][j]
  /\ \A i \in 1..nAcks(f) : acks[f][i] <= zxidCounter[Leader]
  /\ \A i \in 1..nAcks(f), j \in 1..nBcast :
       j > rcvd[f] /\ IsSC(j) => acks[f][i] < bcast[j].CountNum

\* What the tracker has counted and what may still come never exceeds the
\* servers; a proposal of E has had its commit, which used up maxCount of them.
Tally(E) ==
  \A k \in 1..nIssued :
    IF k \in E THEN ackTracker[k] + maxCount + Cardinality(Pending(k)) + 1 <= n_systems
    ELSE ackTracker[k] + Cardinality(Pending(k)) <= n_systems

\* There was one commit for each proposal of a set E.
OnceInv ==
  /\ nTracked = nIssued
  /\ \A f \in Follower : AckOrder(f)
  /\ \E E \in SUBSET (1..nIssued) : Cardinality(E) = nCommitted(Leader) /\ Tally(E)

\* Any followers are finitely many, and the coordinator is none of them.
LEMMA FollowersFacts ==
  ASSUME NEW T \in SUBSET Follower
  PROVE  /\ IsFiniteSet(T) /\ Cardinality(T) \in Nat
         /\ Cardinality(T) + 1 <= n_systems
<1>1. IsFiniteSet(Follower) /\ Cardinality(Follower) = n_systems - 1
  BY ServerAssumption, FS_RemoveElement DEF Follower, n_systems
<1>2. IsFiniteSet(T) /\ Cardinality(T) <= Cardinality(Follower)
  BY <1>1, FS_Subset
<1>3. Cardinality(T) \in Nat /\ n_systems \in Nat
  BY <1>2, ServerAssumption, FS_CardinalityType DEF n_systems
<1> QED
  BY <1>1, <1>2, <1>3

\* The same for those that may still acknowledge a proposal.
LEMMA PendingFacts ==
  ASSUME NEW k
  PROVE  /\ IsFiniteSet(Pending(k)) /\ Cardinality(Pending(k)) \in Nat
         /\ Cardinality(Pending(k)) + 1 <= n_systems
BY FollowersFacts DEF Pending

\* A follower whose ACKs are taken or lost, and that takes or loses messages of
\* the broadcast, may acknowledge no more than before.
LEMMA AckFrame ==
  ASSUME TypeOK, NEW g \in Follower, AckOrder(g), zxidCounter'[Leader] = zxidCounter[Leader],
         NEW B \in Nat, B = nBcast',
         \A j \in 1..B : IsSC(j)' => j \in 1..nBcast /\ IsSC(j) /\ bcast'[j] = bcast[j],
         rcvd'[g] \in rcvd[g]..B,
         NEW d \in Nat, NEW n \in Nat, n = nAcks(g)',
         \A i \in 1..n : i + d \in 1..nAcks(g) /\ acks'[g][i] = acks[g][i + d]
  PROVE  AckOrder(g)' /\ \A k : Awaits(g, k)' => Awaits(g, k)
<1>1. PICK r \in Nat, s \in Nat : r = rcvd[g] /\ s = rcvd'[g] /\ r <= s /\ s <= B
  BY LenFacts
<1>2. \A j \in 1..B : j > s => j > r
  BY <1>1
<1>3. \A i, j \in 1..n : i < j => acks'[g][i] < acks'[g][j]
  <2> SUFFICES ASSUME NEW i \in 1..n, NEW j \in 1..n, i < j PROVE acks'[g][i] < acks'[g][j]
    OBVIOUS
  <2>1. i + d < j + d
    OBVIOUS
  <2> QED
    BY <2>1 DEF AckOrder
<1>4. \A i \in 1..n : acks'[g][i] <= zxidCounter'[Leader]
  BY DEF AckOrder
<1>5. ASSUME NEW i \in 1..n, NEW j \in 1..B, j > s, IsSC(j)'
      PROVE  acks'[g][i] < bcast'[j].CountNum
  <2>1. j > r /\ j \in 1..nBcast /\ IsSC(j) /\ bcast'[j] = bcast[j]
    BY <1>2, <1>5
  <2> QED
    BY <1>1, <2>1 DEF AckOrder
<1>6. AckOrder(g)'
  BY <1>1, <1>3, <1>4, <1>5 DEF AckOrder
<1>7. ASSUME NEW k, Awaits(g, k)' PROVE Awaits(g, k)
  <2>1. CASE \E i \in 1..n : acks'[g][i] = k
    BY <2>1 DEF Awaits
  <2>2. CASE \E j \in 1..B : j > s /\ IsSC(j)' /\ bcast'[j].CountNum = k
    BY <1>1, <1>2, <2>2 DEF Awaits
  <2> QED
    BY <1>1, <1>7, <2>1, <2>2 DEF Awaits
<1> QED
  BY <1>6, <1>7

\* OnceInv stays when nothing is issued, counted or committed by the coordinator
\* and no follower may acknowledge more than before.
LEMMA FrameOnce ==
  ASSUME OnceInv, UNCHANGED <<issued, ackTracker>>, committed'[Leader] = committed[Leader],
         TypeOK,
         \A g \in Follower : AckOrder(g)' /\ \A k : Awaits(g, k)' => Awaits(g, k)
  PROVE  OnceInv'
<1>1. nIssued' = nIssued /\ nTracked' = nTracked /\ nCommitted(Leader)' = nCommitted(Leader)
  BY DEF nIssued, nTracked, nCommitted
<1>2. PICK E \in SUBSET (1..nIssued) : Cardinality(E) = nCommitted(Leader) /\ Tally(E)
  BY DEF OnceInv
<1>3. ASSUME NEW k \in 1..nIssued
      PROVE  /\ Cardinality(Pending(k)') <= Cardinality(Pending(k))
             /\ Cardinality(Pending(k)') \in Nat /\ Cardinality(Pending(k)) \in Nat
  <2>1. Pending(k)' \subseteq Pending(k)
    BY DEF Pending
  <2>2. IsFiniteSet(Pending(k)) /\ Cardinality(Pending(k)) \in Nat
    BY PendingFacts
  <2> QED
    BY <2>1, <2>2, FS_Subset, FS_CardinalityType
<1>4. Tally(E)'
  <2> SUFFICES ASSUME NEW k \in 1..nIssued
               PROVE  IF k \in E
                      THEN ackTracker[k] + maxCount + Cardinality(Pending(k)') + 1 <= n_systems
                      ELSE ackTracker[k] + Cardinality(Pending(k)') <= n_systems
    BY <1>1 DEF Tally
  <2>1. ackTracker[k] \in Nat /\ maxCount \in Nat /\ n_systems \in Nat
    BY ElementFacts, MajorityFacts DEF OnceInv
  <2>2. IF k \in E THEN ackTracker[k] + maxCount + Cardinality(Pending(k)) + 1 <= n_systems
        ELSE ackTracker[k] + Cardinality(Pending(k)) <= n_systems
    BY <1>2 DEF Tally
  <2> QED
    BY <1>3, <2>1, <2>2
<1> QED
  BY <1>1, <1>2, <1>4 DEF OnceInv

\* A follower that takes nothing keeps what it may acknowledge.
LEMMA AckSame ==
  ASSUME TypeOK, NEW g \in Follower, AckOrder(g), zxidCounter'[Leader] = zxidCounter[Leader],
         NEW B \in Nat, B = nBcast',
         \A j \in 1..B : IsSC(j)' => j \in 1..nBcast /\ IsSC(j) /\ bcast'[j] = bcast[j],
         rcvd'[g] \in rcvd[g]..B, acks'[g] = acks[g]
  PROVE  AckOrder(g)' /\ \A k : Awaits(g, k)' => Awaits(g, k)
<1>1. PICK n \in Nat : n = nAcks(g)
  BY LenFacts
<1>2. nAcks(g)' = n /\ \A i \in 1..n : i + 0 \in 1..nAcks(g) /\ acks'[g][i] = acks[g][i + 0]
  BY <1>1 DEF nAcks
<1> QED
  BY <1>1, <1>2, AckFrame

\* processRequest issues a proposal that no follower has acknowledged.
LEMMA OnceWrites ==
  ASSUME TypeOK, LeaderInv, OnceInv, NEW s \in Server, processWrite(s)
  PROVE  OnceInv'
<1> DEFINE r == dequeue(reqs[s])
           e == StateChange(zxidCounter[Leader] + 1, r)
<1>1. PICK P \in Nat, B \in Nat : P = nIssued /\ B = nBcast
  BY LenFacts
<1>2. P = zxidCounter[Leader] /\ nTracked = P
  BY <1>1 DEF LeaderInv, OnceInv
<1>3. r \in Request /\ e \in Proposal /\ e.CountNum = P + 1
  <2>1. r \in Request
    BY DequeueFacts DEF processWrite, TypeOK
  <2> HIDE DEF r
  <2>2. e = StateChange(P + 1, r)
    BY <1>2
  <2> HIDE DEF e
  <2> QED
    BY <2>1, <2>2 DEF StateChange, Proposal
<1>4. /\ zxidCounter'[Leader] = P + 1 /\ committed' = committed /\ rcvd' = rcvd /\ acks' = acks
      /\ bcast' = Append(bcast, e) /\ issued' = Append(issued, r)
      /\ ackTracker' = Append(ackTracker, 1)
  BY <1>2, LeaderFacts DEF processWrite, TypeOK
<1> HIDE DEF r, e
<1>5. /\ nBcast' = B + 1 /\ bcast'[B + 1] = e
      /\ \A i \in 1..B : bcast'[i] = bcast[i] /\ IsSC(i)' = IsSC(i)
  <2>1. bcast \in Seq(Proposal \cup {CommitMsg}) /\ e \in Proposal \cup {CommitMsg}
    BY <1>3 DEF TypeOK
  <2>2. /\ Len(Append(bcast, e)) = Len(bcast) + 1 /\ Append(bcast, e)[Len(bcast) + 1] = e
        /\ \A i \in 1..Len(bcast) : Append(bcast, e)[i] = bcast[i]
    BY <2>1, AppendFacts
  <2> QED
    BY <1>1, <1>4, <2>2 DEF nBcast, IsSC
<1>6. nIssued' = P + 1
  <2>1. issued \in Seq(Request)
    BY DEF TypeOK
  <2> QED
    BY <1>1, <1>3, <1>4, <2>1, AppendFacts DEF nIssued
<1>7. /\ nTracked' = P + 1 /\ ackTracker'[P + 1] = 1
      /\ \A i \in 1..P : ackTracker'[i] = ackTracker[i]
  <2>1. ackTracker \in Seq(Nat) /\ Len(ackTracker) = P
    BY <1>2 DEF TypeOK, nTracked
  <2> QED
    BY <1>4, <2>1, AppendFacts DEF nTracked
<1>8. ASSUME NEW g \in Follower PROVE AckOrder(g)'
  <2>1. PICK n \in Nat, c \in Nat : n = nAcks(g) /\ c = rcvd[g] /\ AckOrder(g)
    BY LenFacts DEF OnceInv
  <2>2. \A i \in 1..n : acks[g][i] \in Nat /\ acks[g][i] <= P
    <3>1. acks[g] \in Seq(Nat)
      BY DEF TypeOK
    <3>2. \A i \in 1..n : acks[g][i] \in Nat
      BY <2>1, <3>1, ElementOfSeq DEF nAcks
    <3> QED
      BY <1>2, <2>1, <3>2 DEF AckOrder
  <2>3. \A i \in 1..n : acks[g][i] <= P + 1 /\ acks[g][i] < P + 1
    BY <2>2
  <2>4. ASSUME NEW i \in 1..n, NEW j \in 1..(B + 1), j > c, IsSC(j)'
        PROVE  acks[g][i] < bcast'[j].CountNum
    <3>1. CASE j = B + 1
      BY <1>3, <1>5, <2>3, <3>1
    <3>2. CASE j \in 1..B
      BY <1>1, <1>5, <2>1, <2>4, <3>2 DEF AckOrder
    <3> QED
      BY <3>1, <3>2
  <2>5. \A i, j \in 1..n : i < j => acks[g][i] < acks[g][j]
    BY <2>1 DEF AckOrder
  <2>6. c <= B + 1
    BY <1>1, <2>1 DEF AckOrder
  <2>7. nAcks(g)' = n
    BY <1>4, <2>1 DEF nAcks
  <2> QED
    BY <1>4, <1>5, <2>1, <2>3, <2>4, <2>5, <2>6, <2>7 DEF AckOrder
<1>9. ASSUME NEW k \in 1..P, NEW g \in Follower, Awaits(g, k)' PROVE Awaits(g, k)
  <2>1. CASE \E i \in 1..nAcks(g) : acks[g][i] = k
    BY <2>1 DEF Awaits
  <2>2. CASE \E j \in 1..(B + 1) : j > rcvd[g] /\ IsSC(j)' /\ bcast'[j].CountNum = k
    <3>1. PICK j \in 1..(B + 1) : j > rcvd[g] /\ IsSC(j)' /\ bcast'[j].CountNum = k
      BY <2>2
    <3>2. j # B + 1
      BY <1>3, <1>5, <3>1
    <3>3. j \in 1..B
      BY <3>2
    <3> QED
      BY <1>1, <1>5, <3>1, <3>3 DEF Awaits
  <2> QED
    BY <1>4, <1>5, <1>9, <2>1, <2>2 DEF Awaits, nAcks
<1>10. PICK E \in SUBSET (1..P) : Cardinality(E) = nCommitted(Leader) /\ Tally(E)
  BY <1>1 DEF OnceInv
<1>11. ASSUME NEW k \in 1..(P + 1)
       PROVE  IF k \in E
              THEN ackTracker'[k] + maxCount + Cardinality(Pending(k)') + 1 <= n_systems
              ELSE ackTracker'[k] + Cardinality(Pending(k)') <= n_systems
  <2>1. CASE k \in 1..P
    <3>1. Pending(k)' \subseteq Pending(k)
      BY <1>9, <2>1 DEF Pending
    <3>2. /\ Cardinality(Pending(k)') <= Cardinality(Pending(k))
          /\ Cardinality(Pending(k)') \in Nat /\ Cardinality(Pending(k)) \in Nat
      BY <3>1, PendingFacts, FS_Subset, FS_CardinalityType
    <3>3. IF k \in E THEN ackTracker[k] + maxCount + Cardinality(Pending(k)) + 1 <= n_systems
          ELSE ackTracker[k] + Cardinality(Pending(k)) <= n_systems
      BY <1>1, <1>10, <2>1 DEF Tally
    <3>4. ackTracker[k] \in Nat /\ maxCount \in Nat /\ n_systems \in Nat
          /\ ackTracker'[k] = ackTracker[k]
      BY <1>1, <1>2, <1>7, <2>1, ElementFacts, MajorityFacts
    <3> QED
      BY <3>2, <3>3, <3>4
  <2>2. CASE k = P + 1
    <3>1. k \notin E /\ ackTracker'[k] = 1
      BY <1>7, <2>2
    <3>2. Pending(k)' \subseteq Follower
      BY DEF Pending
    <3>3. Cardinality(Pending(k)') \in Nat /\ Cardinality(Pending(k)') + 1 <= n_systems
      BY <3>2, FollowersFacts
    <3> QED
      BY <3>1, <3>3, MajorityFacts
  <2> QED
    BY <2>1, <2>2
<1>12. Tally(E)'
  BY <1>6, <1>11 DEF Tally
<1>13. E \in SUBSET (1..(P + 1)) /\ nCommitted(Leader)' = nCommitted(Leader)
  BY <1>4 DEF nCommitted
<1> QED
  BY <1>6, <1>7, <1>8, <1>10, <1>12, <1>13 DEF OnceInv

\* A follower that accepts a proposal acknowledges it instead of awaiting it.
LEMMA OnceAccepts ==
  ASSUME TypeOK, OrderInv, OnceInv, NEW f \in Follower, processStateChangeProposal(f)
  PROVE  OnceInv'
<1> DEFINE n == rcvd[f] + 1
           e == bcast[n]
<1>1. /\ UNCHANGED <<bcast, committed, issued, ackTracker>>
      /\ zxidCounter'[Leader] = zxidCounter[Leader]
      /\ acks' = [acks EXCEPT ![f] = Append(@, e.CountNum)]
      /\ rcvd' = [rcvd EXCEPT ![f] = @ + 1]
      /\ rcvd[f] < nBcast /\ IsSC(n)
  BY LeaderFacts DEF processStateChangeProposal, TypeOK, nBcast, IsSC, aux
<1>2. PICK B \in Nat, c \in Nat, z \in Nat :
        B = nBcast /\ c = rcvd[f] /\ z = zxidCounter[Leader]
  BY CountFacts
<1>3. /\ n = c + 1 /\ n \in 1..B
      /\ e.CountNum \in Nat /\ e.CountNum <= z
  <2>1. n = c + 1 /\ n \in 1..B
    BY <1>1, <1>2
  <2> HIDE DEF n
  <2> QED
    BY <1>1, <1>2, <2>1, CountFacts DEF OrderInv, BroadcastOrder
<1>4. nBcast' = B /\ \A i : IsSC(i)' = IsSC(i)
  BY <1>1, <1>2 DEF nBcast, IsSC
<1>5. ASSUME NEW g \in Follower, g # f
      PROVE  AckOrder(g)' /\ \A k : Awaits(g, k)' => Awaits(g, k)
  <2>1. AckOrder(g) /\ acks'[g] = acks[g] /\ rcvd'[g] = rcvd[g]
    BY <1>1, <1>5 DEF OnceInv, TypeOK
  <2>2. rcvd'[g] \in rcvd[g]..B
    BY <1>2, <2>1, CountFacts DEF AckOrder
  <2> QED
    BY <1>1, <1>2, <1>4, <2>1, <2>2, AckSame
<1> DEFINE a == acks[f]
           x == e.CountNum
<1>6. PICK m \in Nat : /\ m = Len(a) /\ m = nAcks(f) /\ nAcks(f)' = m + 1
                       /\ acks'[f][m + 1] = x
                       /\ \A i \in 1..m : acks'[f][i] = a[i] /\ a[i] \in Nat
  <2>1. a \in Seq(Nat) /\ acks'[f] = Append(a, x)
    BY <1>1 DEF TypeOK
  <2> HIDE DEF a, x
  <2>2. x \in Nat
    BY <1>3 DEF x
  <2>3. /\ Len(Append(a, x)) = Len(a) + 1 /\ Len(a) \in Nat
        /\ Append(a, x)[Len(a) + 1] = x
        /\ \A i \in 1..Len(a) : Append(a, x)[i] = a[i] /\ a[i] \in Nat
    BY <2>1, <2>2, AppendFacts, LenProperties, ElementOfSeq
  <2> QED
    BY <2>1, <2>3 DEF nAcks, a
<1>7. rcvd'[f] = c + 1
  BY <1>1, <1>2 DEF TypeOK
<1>8. /\ \A i, j \in 1..m : i < j => a[i] < a[j]
      /\ \A i \in 1..m : a[i] <= z /\ a[i] < x
      /\ \A i \in 1..m, j \in 1..B : j > c /\ IsSC(j) => a[i] < bcast[j].CountNum
  <2>1. AckOrder(f)
    BY DEF OnceInv
  <2>2. /\ \A i, j \in 1..m : i < j => a[i] < a[j]
        /\ \A i \in 1..m : a[i] <= z
        /\ \A i \in 1..m, j \in 1..B : j > c /\ IsSC(j) => a[i] < bcast[j].CountNum
    BY <1>2, <1>6, <2>1 DEF AckOrder
  <2> HIDE DEF n
  <2>3. n > c /\ n \in 1..B /\ IsSC(n)
    BY <1>1, <1>3
  <2> QED
    BY <2>2, <2>3
<1>9. \A j \in 1..B : j > c + 1 /\ IsSC(j) => x < bcast[j].CountNum
  BY <1>1, <1>2, <1>3 DEF OrderInv, BroadcastOrder
<1>10. x \in Nat /\ x <= z
  BY <1>3
<1> HIDE DEF n, e, a, x
<1>11. AckOrder(f)'
  <2>1. \A i \in 1..(m + 1) : acks'[f][i] <= z
    BY <1>6, <1>8, <1>10
  <2>2. ASSUME NEW i \in 1..(m + 1), NEW j \in 1..(m + 1), i < j
        PROVE  acks'[f][i] < acks'[f][j]
    <3>1. i \in 1..m
      BY <2>2
    <3>2. CASE j = m + 1
      BY <1>6, <1>8, <3>1, <3>2
    <3>3. CASE j \in 1..m
      BY <1>6, <1>8, <2>2, <3>1, <3>3
    <3> QED
      BY <3>2, <3>3
  <2>3. ASSUME NEW i \in 1..(m + 1), NEW j \in 1..B, j > c + 1, IsSC(j)
        PROVE  acks'[f][i] < bcast[j].CountNum
    <3>1. CASE i = m + 1
      BY <1>6, <1>9, <2>3, <3>1
    <3>2. CASE i \in 1..m
      <4>1. j > c
        BY <2>3
      <4> QED
        BY <1>6, <1>8, <2>3, <3>2, <4>1
    <3> QED
      BY <3>1, <3>2
  <2>4. c + 1 <= B
    BY <1>3
  <2> QED
    BY <1>1, <1>2, <1>4, <1>6, <1>7, <2>1, <2>2, <2>3, <2>4 DEF AckOrder
<1>12. ASSUME NEW k, Awaits(f, k)' PROVE Awaits(f, k)
  <2>1. CASE \E i \in 1..(m + 1) : acks'[f][i] = k
    <3>1. PICK i \in 1..(m + 1) : acks'[f][i] = k
      BY <2>1
    <3>2. CASE i = m + 1
      <4>1. bcast[n].CountNum = k
        BY <1>6, <3>1, <3>2 DEF e, x
      <4>2. n \in 1..B /\ n > c
        BY <1>3
      <4> QED
        BY <1>1, <1>2, <4>1, <4>2 DEF Awaits
    <3>3. CASE i \in 1..m
      BY <1>6, <3>1, <3>3 DEF Awaits, a
    <3> QED
      BY <3>2, <3>3
  <2>2. CASE \E j \in 1..B : j > c + 1 /\ IsSC(j) /\ bcast[j].CountNum = k
    <3>1. PICK j \in 1..B : j > c + 1 /\ IsSC(j) /\ bcast[j].CountNum = k
      BY <2>2
    <3>2. j > c
      BY <3>1
    <3> QED
      BY <1>2, <3>1, <3>2 DEF Awaits
  <2> QED
    BY <1>1, <1>4, <1>6, <1>7, <1>12, <2>1, <2>2 DEF Awaits
<1>13. \A g \in Follower : AckOrder(g)' /\ \A k : Awaits(g, k)' => Awaits(g, k)
  BY <1>5, <1>11, <1>12
<1> QED
  BY <1>1, <1>13, FrameOnce

\* A subset that misses an element has fewer of them.
LEMMA SmallerSubset ==
  ASSUME NEW S, IsFiniteSet(S), NEW T \in SUBSET S, NEW x \in S, x \notin T
  PROVE  Cardinality(T) + 1 <= Cardinality(S)
<1>1. /\ IsFiniteSet(T) /\ Cardinality(T) <= Cardinality(S)
      /\ Cardinality(S) # Cardinality(T)
  BY FS_Subset
<1>2. Cardinality(T) \in Nat /\ Cardinality(S) \in Nat
  BY <1>1, FS_CardinalityType
<1> QED
  BY <1>1, <1>2

\* An ACK that carries the counter past maxCount is the first one to do so for
\* its proposal, for which the coordinator then still queues one.
LEMMA OnceAcks ==
  ASSUME TypeOK, LeaderInv, OnceInv, NEW f \in Follower, processACK(f)
  PROVE  OnceInv' /\ (Leader \in exited' => Leader \in exited)
<1>0. PICK k \in Nat : k = dequeue(acks[f])
  BY DequeueFacts DEF processACK, TypeOK
<1> DEFINE exceeded == incrementOrRemove(k, n_systems \div 2)
<1>1. /\ acks[f] # << >>
      /\ acks' = [acks EXCEPT ![f] = Tail(@)]
      /\ UNCHANGED <<zxidCounter, rcvd, issued>>
      /\ k \notin DOMAIN ackTracker => ackTracker' = ackTracker
      /\ k \in DOMAIN ackTracker =>
           ackTracker' = [ackTracker EXCEPT ![k] = IF exceeded THEN 0 ELSE @ + 1]
      /\ exceeded => processCommitProposal(Leader)
      /\ ~exceeded => UNCHANGED <<committed, exited>>
      /\ bcast' = bcast \/ bcast' = Append(bcast, CommitMsg)
  BY <1>0 DEF processACK
<1>2. PICK P \in Nat, B \in Nat, c \in Nat, n \in Nat :
        /\ P = nIssued /\ B = nBcast /\ c = nCommitted(Leader) /\ n = nAcks(f)
  BY LenFacts, LeaderFacts
<1>3. /\ n >= 1 /\ nAcks(f)' = n - 1 /\ acks[f][1] = k
      /\ \A i \in 1..(n - 1) : acks'[f][i] = acks[f][i + 1]
      /\ \A g \in Follower : g # f => acks'[g] = acks[g]
  <2>1. acks[f] \in Seq(Nat) /\ acks'[f] = Tail(acks[f])
        /\ \A g \in Follower : g # f => acks'[g] = acks[g]
    BY <1>1 DEF TypeOK
  <2>2. /\ Len(acks[f]) >= 1 /\ dequeue(acks[f]) = acks[f][1]
        /\ Len(Tail(acks[f])) = Len(acks[f]) - 1
        /\ \A i \in 1..(Len(acks[f]) - 1) : Tail(acks[f])[i] = acks[f][i + 1]
    BY <1>1, <2>1, DequeueFacts
  <2> QED
    BY <1>0, <1>2, <2>1, <2>2 DEF nAcks
<1>4. PICK D \in Nat :
        /\ D = nBcast' /\ B <= D
        /\ \A j \in 1..D : IsSC(j)' => j \in 1..nBcast /\ IsSC(j) /\ bcast'[j] = bcast[j]
  <2>1. CASE bcast' = bcast
    BY <1>2, <2>1 DEF nBcast, IsSC
  <2>2. CASE bcast' = Append(bcast, CommitMsg)
    <3>1. bcast \in Seq(Proposal \cup {CommitMsg}) /\ CommitMsg \in Proposal \cup {CommitMsg}
      BY DEF TypeOK
    <3>2. /\ nBcast' = B + 1 /\ bcast'[B + 1] = CommitMsg
          /\ \A i \in 1..B : bcast'[i] = bcast[i]
      BY <1>2, <2>2, <3>1, AppendFacts DEF nBcast
    <3>3. ASSUME NEW j \in 1..(B + 1), IsSC(j)'
          PROVE  j \in 1..nBcast /\ IsSC(j) /\ bcast'[j] = bcast[j]
      <4>1. j # B + 1
        BY <3>2, <3>3, MessageFacts DEF IsSC
      <4>2. j \in 1..B
        BY <4>1
      <4> QED
        BY <1>2, <3>2, <3>3, <4>2 DEF IsSC
    <3> QED
      BY <3>2, <3>3
  <2> QED
    BY <1>1, <2>1, <2>2
<1>5. ASSUME NEW g \in Follower PROVE rcvd'[g] \in rcvd[g]..D /\ AckOrder(g)
  <2>1. AckOrder(g) /\ rcvd[g] \in Nat
    BY LenFacts DEF OnceInv
  <2>2. rcvd[g] <= B
    BY <1>2, <2>1 DEF AckOrder
  <2>3. rcvd[g] <= D
    BY <1>4, <2>1, <2>2
  <2> QED
    BY <1>1, <2>1, <2>3
<1>6. ASSUME NEW g \in Follower, g # f
      PROVE  AckOrder(g)' /\ \A m : Awaits(g, m)' => Awaits(g, m)
  BY <1>1, <1>3, <1>4, <1>5, <1>6, AckSame
<1>7. AckOrder(f)' /\ \A m : Awaits(f, m)' => Awaits(f, m)
  <2>1. n - 1 \in Nat /\ \A i \in 1..(n - 1) : i + 1 \in 1..n
    BY <1>3
  <2>2. \A i \in 1..(n - 1) : i + 1 \in 1..nAcks(f) /\ acks'[f][i] = acks[f][i + 1]
    BY <1>2, <1>3, <2>1
  <2> QED
    BY ZenonT(60), <1>1, <1>3, <1>4, <1>5, <2>1, <2>2, AckFrame
<1> HIDE DEF exceeded
<1>8. Awaits(f, k) /\ ~Awaits(f, k)'
  <2>1. 1 \in 1..n
    BY <1>3
  <2>2. Awaits(f, k)
    BY <1>2, <1>3, <2>1 DEF Awaits
  <2>3. \A i \in 1..(n - 1) : acks'[f][i] # k
    <3> SUFFICES ASSUME NEW i \in 1..(n - 1) PROVE acks[f][i + 1] # k
      BY <1>3
    <3>1. i + 1 \in 1..n /\ 1 < i + 1
      BY <1>3
    <3>2. acks[f][1] < acks[f][i + 1]
      BY <1>2, <1>5, <2>1, <3>1 DEF AckOrder
    <3> QED
      BY <1>3, <2>1, <3>2
  <2>4. \A j \in 1..D : j > rcvd'[f] /\ IsSC(j)' => bcast'[j].CountNum # k
    <3> SUFFICES ASSUME NEW j \in 1..D, j > rcvd[f], IsSC(j)' PROVE bcast'[j].CountNum # k
      BY <1>1
    <3>1. j \in 1..nBcast /\ IsSC(j) /\ bcast'[j] = bcast[j]
      BY <1>4
    <3>2. k < bcast[j].CountNum
      BY <1>2, <1>3, <1>5, <2>1, <3>1 DEF AckOrder
    <3> QED
      BY <2>1, <3>1, <3>2
  <2> QED
    BY <1>3, <1>4, <2>2, <2>3, <2>4 DEF Awaits
<1>9. ASSUME NEW m
      PROVE  /\ Cardinality(Pending(m)') \in Nat /\ Cardinality(Pending(m)) \in Nat
             /\ Cardinality(Pending(m)') <= Cardinality(Pending(m))
             /\ m = k => Cardinality(Pending(m)') + 1 <= Cardinality(Pending(m))
  <2>1. Pending(m)' \subseteq Pending(m) /\ IsFiniteSet(Pending(m))
    BY <1>6, <1>7, PendingFacts DEF Pending
  <2>2. /\ Cardinality(Pending(m)') \in Nat /\ Cardinality(Pending(m)) \in Nat
        /\ Cardinality(Pending(m)') <= Cardinality(Pending(m))
    BY <2>1, FS_Subset, FS_CardinalityType
  <2>3. ASSUME m = k PROVE Cardinality(Pending(m)') + 1 <= Cardinality(Pending(m))
    <3>1. f \in Pending(m) /\ f \notin Pending(m)'
      BY <1>8, <2>3 DEF Pending
    <3> QED
      BY <2>1, <3>1, SmallerSubset
  <2> QED
    BY <2>2, <2>3
<1>10. /\ DOMAIN ackTracker = 1..P /\ ackTracker \in Seq(Nat) /\ Len(ackTracker) = P
       /\ \A m \in 1..P : ackTracker[m] \in Nat
  <2>1. ackTracker \in Seq(Nat) /\ Len(ackTracker) = P
    BY <1>2 DEF TypeOK, OnceInv, nTracked
  <2> QED
    BY <2>1, LenProperties, ElementOfSeq
<1>11. exceeded <=> k \in 1..P /\ ackTracker[k] + 1 > maxCount
  BY <1>10 DEF exceeded, incrementOrRemove, maxCount
<1>12. /\ Len(ackTracker') = P
       /\ \A m \in 1..P : ackTracker'[m] =
            IF m # k THEN ackTracker[m] ELSE IF exceeded THEN 0 ELSE ackTracker[m] + 1
  <2>1. CASE k \notin 1..P
    BY <1>1, <1>10, <2>1
  <2>2. CASE k \in 1..P
    <3> DEFINE v == IF exceeded THEN 0 ELSE ackTracker[k] + 1
    <3>1. v \in Nat /\ ackTracker' = [ackTracker EXCEPT ![k] = v]
      BY <1>1, <1>10, <2>2
    <3> HIDE DEF v
    <3>2. /\ Len([ackTracker EXCEPT ![k] = v]) = Len(ackTracker)
          /\ \A m \in 1..Len(ackTracker) :
               [ackTracker EXCEPT ![k] = v][m] = IF m = k THEN v ELSE ackTracker[m]
      BY <1>10, <2>2, <3>1, ExceptSeq
    <3> QED
      BY <1>10, <3>1, <3>2 DEF v
  <2> QED
    BY <2>1, <2>2
<1>13. PICK E \in SUBSET (1..P) : Cardinality(E) = c /\ Tally(E)
  BY <1>2 DEF OnceInv
<1>14. ASSUME NEW m \in 1..P
       PROVE  IF m \in E THEN ackTracker[m] + maxCount + Cardinality(Pending(m)) + 1 <= n_systems
              ELSE ackTracker[m] + Cardinality(Pending(m)) <= n_systems
  BY <1>2, <1>13 DEF Tally
<1>15. exceeded => k \in 1..P /\ k \notin E
  <2> SUFFICES ASSUME exceeded, k \in E PROVE FALSE
    BY <1>11
  <2>1. k \in 1..P /\ ackTracker[k] + 1 > maxCount /\ ackTracker[k] \in Nat
    BY <1>10, <1>11
  <2>2. ackTracker[k] + maxCount + Cardinality(Pending(k)) + 1 <= n_systems
    BY <1>14, <2>1
  <2>3. Cardinality(Pending(k)) >= 1 /\ Cardinality(Pending(k)) \in Nat
    BY <1>9
  <2> QED
    BY <2>1, <2>2, <2>3, MajorityFacts
<1>16. PICK F \in SUBSET (1..P) : F = IF exceeded THEN E \cup {k} ELSE E
  BY <1>15
<1>f. Cardinality(F) = (IF exceeded THEN c + 1 ELSE c) /\ Cardinality(F) <= P
  <2>1. IsFiniteSet(1..P) /\ Cardinality(1..P) = P
    BY FS_Interval
  <2>2. IsFiniteSet(E) /\ Cardinality(F) <= P
    BY ZenonT(60), <2>1, FS_Subset
  <2>3. exceeded => Cardinality(E \cup {k}) = Cardinality(E) + 1
    BY <1>15, <2>2, FS_AddElement
  <2> QED
    BY <1>13, <1>16, <2>2, <2>3
<1>17. Tally(F)'
  <2> SUFFICES ASSUME NEW m \in 1..P
               PROVE  IF m \in F
                      THEN ackTracker'[m] + maxCount + Cardinality(Pending(m)') + 1 <= n_systems
                      ELSE ackTracker'[m] + Cardinality(Pending(m)') <= n_systems
    BY <1>1, <1>2 DEF Tally, nIssued
  <2>1. ackTracker[m] \in Nat /\ maxCount \in Nat /\ n_systems \in Nat
    BY <1>10, MajorityFacts
  <2>2. CASE m # k
    <3>1. ackTracker'[m] = ackTracker[m] /\ (m \in F <=> m \in E)
      BY <1>12, <1>16, <2>2
    <3> QED
      BY <1>9, <1>14, <2>1, <3>1
  <2>3. CASE m = k /\ ~exceeded
    <3>1. ackTracker'[m] = ackTracker[m] + 1 /\ F = E
      BY <1>12, <1>16, <2>3
    <3> QED
      BY <1>9, <1>14, <2>1, <2>3, <3>1
  <2>4. CASE m = k /\ exceeded
    <3>1. ackTracker'[m] = 0 /\ m \in F /\ m \notin E /\ ackTracker[m] + 1 > maxCount
      BY <1>11, <1>12, <1>15, <1>16, <2>4
    <3> QED
      BY <1>9, <1>14, <2>1, <2>4, <3>1
  <2> QED
    BY <2>2, <2>3, <2>4
<1>18. /\ nCommitted(Leader)' = IF exceeded THEN c + 1 ELSE c
       /\ Leader \in exited' => Leader \in exited
  <2>1. CASE ~exceeded
    BY <1>1, <1>2, <2>1 DEF nCommitted
  <2>2. CASE exceeded
    <3>1. c + 1 <= P
      BY <1>f, <2>2
    <3>2. proposalsQueue[Leader] # << >>
      <4>1. c + nQueued(Leader) = P /\ nQueued(Leader) \in Nat
        BY <1>2, LenFacts, LeaderFacts DEF LeaderInv, Received
      <4>2. nQueued(Leader) # 0
        BY <3>1, <4>1
      <4> QED
        BY <4>2, EmptySeq DEF nQueued
    <3>3. /\ committed' = [committed EXCEPT ![Leader] = Append(@, dequeue(proposalsQueue[Leader]))]
          /\ exited' = exited
      BY <1>1, <2>2, <3>2 DEF processCommitProposal
    <3>4. Len(committed'[Leader]) = c + 1
      <4>1. /\ committed[Leader] \in Seq(Proposal)
            /\ proposalsQueue[Leader] \in Seq(Proposal)
            /\ committed'[Leader] = Append(committed[Leader], dequeue(proposalsQueue[Leader]))
        BY <3>3, LeaderFacts DEF TypeOK
      <4>2. dequeue(proposalsQueue[Leader]) \in Proposal
        BY <3>2, <4>1, DequeueFacts
      <4> QED
        BY <1>2, <4>1, <4>2, AppendFacts DEF nCommitted
    <3> QED
      BY <2>2, <3>3, <3>4 DEF nCommitted
  <2> QED
    BY <2>1, <2>2
<1>19. nIssued' = P /\ nTracked' = P
  BY <1>1, <1>2, <1>12 DEF nIssued, nTracked
<1>20. \A g \in Follower : AckOrder(g)'
  BY <1>6, <1>7
<1> QED
  BY <1>f, <1>17, <1>18, <1>19, <1>20 DEF OnceInv

\* OnceInv survives a step in which followers only take or lose messages of the
\* broadcast, and ACKs are only lost at either end of a follower's queue.
LEMMA OnceTakes ==
  ASSUME TypeOK, OnceInv, UNCHANGED <<issued, ackTracker, bcast>>,
         zxidCounter'[Leader] = zxidCounter[Leader], committed'[Leader] = committed[Leader],
         \A g \in Follower : rcvd'[g] \in rcvd[g]..nBcast,
         \A g \in Follower : \E d \in Nat, n \in Nat :
           /\ n = Len(acks'[g])
           /\ \A i \in 1..n : i + d \in 1..Len(acks[g]) /\ acks'[g][i] = acks[g][i + d]
  PROVE  OnceInv'
<1>1. PICK B \in Nat : B = nBcast
  BY LenFacts
<1>2. nBcast' = B /\ \A j \in 1..B : IsSC(j)' => j \in 1..nBcast /\ IsSC(j) /\ bcast'[j] = bcast[j]
  BY <1>1 DEF nBcast, IsSC
<1>3. ASSUME NEW g \in Follower
      PROVE  AckOrder(g)' /\ \A k : Awaits(g, k)' => Awaits(g, k)
  <2>1. PICK d \in Nat, n \in Nat :
          /\ n = Len(acks'[g])
          /\ \A i \in 1..n : i + d \in 1..Len(acks[g]) /\ acks'[g][i] = acks[g][i + d]
    OBVIOUS
  <2>2. /\ n = nAcks(g)'
        /\ \A i \in 1..n : i + d \in 1..nAcks(g) /\ acks'[g][i] = acks[g][i + d]
    BY <2>1 DEF nAcks
  <2>3. AckOrder(g) /\ rcvd'[g] \in rcvd[g]..B
    BY <1>1 DEF OnceInv
  <2> QED
    BY <1>1, <1>2, <2>2, <2>3, AckFrame
<1> QED
  BY <1>3, FrameOnce

\* Every step, a loss included, preserves OnceInv, and none ends the coordinator.
LEMMA OnceStep ==
  ASSUME TypeOK, LeaderInv, OrderInv, OnceInv, CoordinatorNeverFatal, [Next]_vars
  PROVE  OnceInv' /\ CoordinatorNeverFatal'
<1>1. \A g \in Follower : /\ acks[g] \in Seq(Nat) /\ Len(acks[g]) \in Nat
                          /\ rcvd[g] \in Nat /\ rcvd[g] \in rcvd[g]..nBcast
  <2>1. \A g \in Follower : acks[g] \in Seq(Nat) /\ rcvd[g] \in Nat
    BY DEF TypeOK
  <2>2. \A g \in Follower : rcvd[g] <= nBcast
    BY DEF OnceInv, AckOrder
  <2>3. nBcast \in Nat
    BY LenFacts
  <2> QED
    BY <2>1, <2>2, <2>3, LenProperties
<1>2. ASSUME NEW g \in Follower, acks'[g] = acks[g]
      PROVE  \E d \in Nat, n \in Nat :
               /\ n = Len(acks'[g])
               /\ \A i \in 1..n : i + d \in 1..Len(acks[g]) /\ acks'[g][i] = acks[g][i + d]
  <2>1. PICK n \in Nat : n = Len(acks[g])
    BY <1>1
  <2>2. \A i \in 1..n : i + 0 \in 1..Len(acks[g]) /\ acks'[g][i] = acks[g][i + 0]
    BY <1>2, <2>1
  <2> QED
    BY <1>2, <2>1, <2>2
<1>3. ASSUME NEW s \in Server, processWrite(s) PROVE OnceInv' /\ exited' = exited
  BY <1>3, OnceWrites DEF processWrite, faults
<1>4. ASSUME NEW f \in Follower, processACK(f) PROVE OnceInv' /\ CoordinatorNeverFatal'
  BY <1>4, OnceAcks DEF CoordinatorNeverFatal
<1>5. ASSUME NEW f \in Follower, processStateChangeProposal(f)
      PROVE  OnceInv' /\ exited' = exited
  BY <1>5, OnceAccepts DEF processStateChangeProposal, faults
<1>6. ASSUME NEW f \in Follower, processCommit(f) \/ Drop(f)
      PROVE  OnceInv' /\ CoordinatorNeverFatal'
  <2>1. /\ UNCHANGED <<bcast, zxidCounter, issued, ackTracker, acks>> /\ rcvd[f] < nBcast
        /\ rcvd' = [rcvd EXCEPT ![f] = @ + 1]
    BY <1>6 DEF processCommit, Drop, nBcast, aux
  <2>2. committed'[Leader] = committed[Leader] /\ (Leader \in exited' => Leader \in exited)
    <3>1. CASE processCommit(f)
      BY <3>1, LeaderFacts DEF processCommit, processCommitProposal, TypeOK
    <3>2. CASE Drop(f)
      BY <3>2 DEF Drop, queues
    <3> QED
      BY <1>6, <3>1, <3>2
  <2>3. \A g \in Follower : rcvd'[g] \in rcvd[g]..nBcast
    <3>1. nBcast \in Nat
      BY LenFacts
    <3>2. rcvd[f] + 1 \in rcvd[f]..nBcast
      BY <1>1, <2>1, <3>1
    <3>3. \A g \in Follower : rcvd'[g] = IF g = f THEN rcvd[f] + 1 ELSE rcvd[g]
      BY <2>1 DEF TypeOK
    <3> QED
      BY <1>1, <3>2, <3>3
  <2>4. OnceInv'
    BY <1>2, <2>1, <2>2, <2>3, OnceTakes
  <2> QED
    BY <2>2, <2>4 DEF CoordinatorNeverFatal
<1>7. ASSUME NEW f \in Follower, Crash(f) \/ DropReply(f)
      PROVE  OnceInv' /\ CoordinatorNeverFatal'
  <2>1. /\ UNCHANGED <<bcast, zxidCounter, issued, ackTracker, committed, rcvd, exited>>
        /\ \A g \in Follower : g # f => acks'[g] = acks[g]
    BY <1>7 DEF Crash, DropReply, queues, aux, TypeOK
  <2>2. \E d \in Nat, n \in Nat :
          /\ n = Len(acks'[f])
          /\ \A i \in 1..n : i + d \in 1..Len(acks[f]) /\ acks'[f][i] = acks[f][i + d]
    <3> DEFINE a == acks[f]
    <3>1. a \in Seq(Nat) /\ Len(a) \in Nat
      BY <1>1
    <3>2. CASE Crash(f)
      <4>1. PICK n \in 0..Len(a) : acks'[f] = SubSeq(a, 1, n)
        BY <3>2 DEF Crash, TypeOK
      <4> HIDE DEF a
      <4>2. Len(acks'[f]) = n /\ \A i \in 1..n : acks'[f][i] = a[i]
        BY <3>1, <4>1, PrefixFacts
      <4>3. n \in Nat /\ \A i \in 1..n : i + 0 \in 1..Len(a) /\ acks'[f][i] = a[i + 0]
        BY <3>1, <4>2
      <4> QED
        BY <4>2, <4>3 DEF a
    <3>3. CASE DropReply(f)
      <4>1. a # << >> /\ acks'[f] = Tail(a)
        BY <3>3 DEF DropReply, TypeOK
      <4> HIDE DEF a
      <4>2. /\ Len(a) >= 1 /\ Len(acks'[f]) = Len(a) - 1
            /\ \A i \in 1..(Len(a) - 1) : acks'[f][i] = a[i + 1]
        BY <3>1, <4>1, DequeueFacts
      <4>3. PICK n \in Nat : n = Len(a) - 1
        BY <3>1, <4>2
      <4>4. \A i \in 1..n : i + 1 \in 1..Len(a) /\ acks'[f][i] = a[i + 1]
        BY <3>1, <4>2, <4>3
      <4> QED
        BY <4>2, <4>3, <4>4 DEF a
    <3> QED
      BY <1>7, <3>2, <3>3
  <2>3. \A g \in Follower : rcvd'[g] \in rcvd[g]..nBcast
    BY <1>1, <2>1
  <2>4. ASSUME NEW g \in Follower
        PROVE  \E d \in Nat, n \in Nat :
                 /\ n = Len(acks'[g])
                 /\ \A i \in 1..n : i + d \in 1..Len(acks[g]) /\ acks'[g][i] = acks[g][i + d]
    <3>1. CASE g = f
      BY <2>2, <3>1
    <3>2. CASE g # f
      BY <1>2, <2>1, <3>2
    <3> QED
      BY <3>1, <3>2
  <2>5. OnceInv'
    BY <2>1, <2>3, <2>4, OnceTakes
  <2> QED
    BY <2>1, <2>5 DEF CoordinatorNeverFatal
<1>8. CASE UNCHANGED <<zxidCounter, ackTracker, committed, acks, bcast, rcvd, issued, exited>>
  BY <1>1, <1>2, <1>8, OnceTakes DEF CoordinatorNeverFatal
<1>9. ASSUME NEW r \in Request, SendWriteRequest(r)
      PROVE  UNCHANGED <<zxidCounter, ackTracker, committed, acks, bcast, rcvd, issued, exited>>
  BY <1>9 DEF SendWriteRequest, queues, faults
<1>10. ASSUME NEW s \in Server, denyWrite(s) \/ processErr(s) \/ proposalWriter(s)
       PROVE  UNCHANGED <<zxidCounter, ackTracker, committed, acks, bcast, rcvd, issued, exited>>
  BY <1>10 DEF denyWrite, processErr, proposalWriter, queues, channels, faults, aux
<1>11. CASE UNCHANGED vars
  BY <1>8, <1>11 DEF vars, queues, channels, faults, aux
<1> QED
  BY <1>3, <1>4, <1>5, <1>6, <1>7, <1>8, <1>9, <1>10, <1>11 DEF Next, CoordinatorNeverFatal

\* However many messages are lost, the coordinator commits at most once for
\* each proposal, so the Fatal of processCommitProposal never ends it.
THEOREM LeaderNeverFatal == Spec => []CoordinatorNeverFatal
<1>1. Init => OnceInv /\ CoordinatorNeverFatal
  <2> SUFFICES ASSUME Init PROVE OnceInv /\ CoordinatorNeverFatal
    OBVIOUS
  <2>1. Len(<< >>) = 0
    BY EmptySeq
  <2>2. /\ nTracked = 0 /\ nIssued = 0 /\ nBcast = 0 /\ nCommitted(Leader) = 0
        /\ exited = {}
        /\ \A f \in Follower : nAcks(f) = 0 /\ rcvd[f] = 0
    BY <2>1, LeaderFacts DEF Init, nTracked, nIssued, nBcast, nCommitted, nAcks
  <2>3. {} \in SUBSET (1..nIssued) /\ Cardinality({}) = 0 /\ Tally({})
    BY <2>2, FS_EmptySet DEF Tally
  <2>4. \A f \in Follower : AckOrder(f)
    BY <2>2 DEF AckOrder
  <2> QED
    BY <2>2, <2>3, <2>4 DEF OnceInv, CoordinatorNeverFatal
<1>2. /\ TypeOK /\ LeaderInv /\ [Next]_vars => LeaderInv'
      /\ TypeOK /\ OrderInv /\ [Next]_vars => OrderInv'
      /\ TypeOK /\ LeaderInv /\ OrderInv /\ OnceInv /\ CoordinatorNeverFatal /\ [Next]_vars
           => OnceInv' /\ CoordinatorNeverFatal'
  BY LeaderStep, OrderStep, OnceStep
<1> QED
  BY <1>1, <1>2, LeaderInit, OrderInit, TypeCorrect, PTL DEF Spec
=============================================================================

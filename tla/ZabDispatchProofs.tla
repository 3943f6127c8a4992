-------------------------- MODULE ZabDispatchProofs --------------------------
(***************************************************************************)
(* Machine-checked proofs about ZabDispatch, for every set of followers    *)
(* and requests, with one goroutine for all messages or with two.          *)
(***************************************************************************)
EXTENDS ZabDispatch, Integers, TLAPS, SequenceTheorems, FiniteSetTheorems

-----------------------------------------------------------------------------
(* Queues *)

\* What Append does to a queue, element by element.
LEMMA AppendFacts ==
  ASSUME NEW S, NEW q \in Seq(S), NEW e \in S
  PROVE  /\ Append(q, e) \in Seq(S)
         /\ Len(q) \in Nat
         /\ Len(Append(q, e)) = Len(q) + 1
         /\ \A i \in 1..Len(q) : Append(q, e)[i] = q[i]
         /\ Append(q, e)[Len(q) + 1] = e
BY AppendProperties, LenProperties

\* What taking the head of a queue leaves, element by element.
LEMMA HeadFacts ==
  ASSUME NEW S, NEW q \in Seq(S), q # << >>
  PROVE  /\ Len(q) \in Nat /\ Len(q) >= 1
         /\ Head(q) = q[1]
         /\ Head(q) \in S
         /\ Tail(q) \in Seq(S)
         /\ Len(Tail(q)) = Len(q) - 1
         /\ \A i \in 1..(Len(q) - 1) : Tail(q)[i] = q[i + 1]
<1>1. Len(q) \in Nat /\ Len(q) >= 1 /\ 1 \in 1..Len(q)
  BY EmptySeq, LenProperties
<1>2. q[1] \in S
  BY <1>1, ElementOfSeq
<1> QED
  BY <1>1, <1>2, HeadTailProperties

\* A queue stays a queue when one of its items is replaced.
LEMMA ReplaceFacts ==
  ASSUME NEW S, NEW q \in Seq(S), NEW k \in 1..Len(q), NEW e \in S
  PROVE  /\ [q EXCEPT ![k] = e] \in Seq(S)
         /\ Len([q EXCEPT ![k] = e]) = Len(q)
         /\ \A i \in 1..Len(q) : [q EXCEPT ![k] = e][i] = IF i = k THEN e ELSE q[i]
BY ExceptSeq

-----------------------------------------------------------------------------
(* The invariant *)

\* Of the first n messages of q, the places of the proposals and of the Commits.
StateChanges(q, n) == {i \in 1..n : q[i].PropType = "StateChange"}
Commits(q, n)      == {i \in 1..n : q[i].PropType # "StateChange"}

\* The proposals broadcast in q, by count.
Counts(q) == {q[i].CountNum : i \in StateChanges(q, Len(q))}

pc(g)     == goroutine[g].pc
count(g)  == goroutine[g].prop.CountNum
Carrying  == {g \in Goroutine : pc(g) \in {"enqueue", "write", "broadcast"}}
ackRunner == runner(FALSE)

\* A proposal is in the hands of one goroutine until it is broadcast, once.
CarryInv ==
  /\ \A g \in Carrying : count(g) \in (1..countNum) \ Counts(sendingQueue)
  /\ \A g, h \in Carrying : count(g) = count(h) => g = h
  /\ Counts(sendingQueue) \subseteq 1..countNum
  /\ \A i, j \in StateChanges(sendingQueue, Len(sendingQueue)) :
       sendingQueue[i].CountNum = sendingQueue[j].CountNum => i = j

\* Only one goroutine handles ACKs, and so commits.
RunnerInv ==
  \A g \in Goroutine : pc(g) \in {"dequeue", "commit", "broadcastCommit"} => g = ackRunner

\* A follower has one ACK under way for each proposal it has received, at most.
AckInv ==
  \A f \in Follower : LET m == follower[f] IN
    /\ m.rcvd <= Len(sendingQueue)
    /\ \A i, j \in 1..Len(m.acks) : m.acks[i] = m.acks[j] => i = j
    /\ \A i \in 1..Len(m.acks) :
         \E j \in StateChanges(sendingQueue, m.rcvd) : sendingQueue[j].CountNum = m.acks[i]

\* m may still acknowledge proposal k of q: its ACK is under way, or it has not
\* received the proposal.
mayAck(m, q, k) ==
  \/ \E i \in 1..Len(m.acks) : m.acks[i] = k
  \/ \A j \in StateChanges(q, m.rcvd) : q[j].CountNum # k

MayAck(k) == {f \in Follower : mayAck(follower[f], sendingQueue, k)}

\* The ACKs of a proposal, those counted and those that may come, are at most
\* one per server; once its commit is due, too few are left for a second.
Tally(k, done) ==
  ackTracker[k] + Cardinality(MayAck(k)) + (IF done THEN 1 + n_systems \div 2 ELSE 0) <= n_systems

\* The proposals that have been enqueued, by count.
Enqueued == (1..countNum) \ {count(g) : g \in {h \in Goroutine : pc(h) = "enqueue"}}

\* E: the proposals whose ACKs have made a commit due.  Each has been
\* broadcast, and each takes one entry from the queue and puts one Commit
\* behind it, at the latest when the goroutine that handles ACKs is through.
Due(E) ==
  /\ \A k \in 1..countNum : Tally(k, k \in E)
  /\ Len(proposalsQueue) + Cardinality(E)
       = Cardinality(Enqueued) + (IF pc(ackRunner) = "dequeue" THEN 1 ELSE 0)
  /\ Cardinality(Commits(sendingQueue, Len(sendingQueue)))
       + (IF pc(ackRunner) \in {"dequeue", "commit", "broadcastCommit"} THEN 1 ELSE 0)
       = Cardinality(E)

CommitInv == \E E \in SUBSET Counts(sendingQueue) : Due(E)

\* Nowhere in the broadcast is a Commit without a proposal for it.
PrefixInv ==
  \A n \in 0..Len(sendingQueue) :
    Cardinality(Commits(sendingQueue, n)) <= Cardinality(StateChanges(sendingQueue, n))

\* A follower queues what it has received and not committed.
FollowInv ==
  \A f \in Follower : LET m == follower[f] IN
    Len(m.proposalsQueue) + Cardinality(Commits(sendingQueue, m.rcvd))
      = Cardinality(StateChanges(sendingQueue, m.rcvd))

DispatchInv ==
  /\ TypeOK
  /\ CarryInv
  /\ RunnerInv
  /\ AckInv
  /\ CommitInv
  /\ PrefixInv
  /\ FollowInv
  /\ NoFatal

-----------------------------------------------------------------------------
(* Type correctness *)

\* Where a goroutine can be, and when it holds a proposal.
LEMMA GoroutineFacts ==
  ASSUME TypeOK, NEW g \in Goroutine
  PROVE  /\ goroutine[g].pc \in {"idle", "enqueue", "write", "broadcast", "commit", "dequeue",
                                 "broadcastCommit"}
         /\ goroutine[g].pc \in {"enqueue", "write", "broadcast", "commit"} =>
              /\ goroutine[g] = [pc |-> goroutine[g].pc, prop |-> goroutine[g].prop]
              /\ goroutine[g].prop \in Proposal
<1>1. goroutine[g] \in Place
  BY DEF TypeOK
<1> QED
  BY <1>1 DEF Idle, Place

\* The places a goroutine goes to.
LEMMA PlaceFacts ==
  /\ Idle \in Place
  /\ \A w \in {"enqueue", "write", "broadcast", "commit"}, p \in Proposal : [pc |-> w, prop |-> p] \in Place
  /\ \A w \in {"dequeue", "broadcastCommit"} : [pc |-> w] \in Place
BY DEF Place

\* incCount: one more proposal, held by g, and its counter.
LEMMA IncCountType ==
  ASSUME TypeOK, NEW g \in Goroutine, incCount(g)
  PROVE  TypeOK'
<1>1. PICK r \in waiting :
        /\ waiting' = waiting \ {r}
        /\ countNum' = countNum + 1
        /\ ackTracker' = Append(ackTracker, 1)
        /\ goroutine' = [goroutine EXCEPT ![g] = [pc |-> "enqueue", prop |-> StateChange(countNum + 1, r)]]
  BY DEF incCount
<1>2. countNum \in Nat /\ r \in Request
  BY <1>1 DEF TypeOK
<1>3. StateChange(countNum + 1, r) \in Proposal /\ countNum' \in Nat
  BY <1>1, <1>2 DEF StateChange, Proposal
<1>4. ackTracker' \in Seq(Nat) /\ Len(ackTracker') = countNum'
  BY <1>1, AppendFacts DEF TypeOK
<1>5. goroutine' \in [Goroutine -> Place]
  BY <1>1, <1>3, PlaceFacts DEF TypeOK
<1> QED
  BY <1>1, <1>3, <1>4, <1>5 DEF incCount, TypeOK

\* The steps of processRequest after incCount move the proposal that g holds.
LEMMA CarryType ==
  ASSUME TypeOK, NEW g \in Goroutine,
         enqueueProposal(g) \/ queueWriteProposal(g) \/ broadcastProposal(g)
  PROVE  TypeOK'
<1> DEFINE p == goroutine[g].prop
<1>1. p \in Proposal /\ goroutine[g] = [pc |-> goroutine[g].pc, prop |-> p]
  BY GoroutineFacts DEF enqueueProposal, queueWriteProposal, broadcastProposal
<1> HIDE DEF p
<1>2. CASE enqueueProposal(g)
  <2>1. goroutine' = [goroutine EXCEPT ![g] = [pc |-> "write", prop |-> p]]
    <3>1. [goroutine[g] EXCEPT !.pc = "write"] = [pc |-> "write", prop |-> p]
      BY <1>1
    <3>2. goroutine' = [goroutine EXCEPT ![g] = [goroutine[g] EXCEPT !.pc = "write"]]
      BY <1>2 DEF enqueueProposal
    <3> QED
      BY <3>1, <3>2
  <2>2. goroutine' \in [Goroutine -> Place]
    BY <1>1, <2>1, PlaceFacts DEF TypeOK
  <2>3. proposalsQueue' \in Seq(Proposal)
    BY <1>1, <1>2, AppendFacts DEF enqueueProposal, enqueue, TypeOK, p
  <2>9. UNCHANGED <<sent, waiting, countNum, ackTracker, log, committed, sendingQueue, follower, fatal>>
    BY <1>2 DEF enqueueProposal
  <2> QED
    BY <2>2, <2>3, <2>9 DEF TypeOK
<1>3. CASE queueWriteProposal(g)
  <2>1. goroutine' = [goroutine EXCEPT ![g] = [pc |-> "broadcast", prop |-> p]]
    <3>1. [goroutine[g] EXCEPT !.pc = "broadcast"] = [pc |-> "broadcast", prop |-> p]
      BY <1>1
    <3>2. goroutine' = [goroutine EXCEPT ![g] = [goroutine[g] EXCEPT !.pc = "broadcast"]]
      BY <1>3 DEF queueWriteProposal
    <3> QED
      BY <3>1, <3>2
  <2>2. goroutine' \in [Goroutine -> Place]
    BY <1>1, <2>1, PlaceFacts DEF TypeOK
  <2>3. log' \in Seq(Proposal)
    BY <1>1, <1>3, AppendFacts DEF queueWriteProposal, TypeOK, p
  <2>9. UNCHANGED <<sent, waiting, countNum, ackTracker, proposalsQueue, committed, sendingQueue,
                  follower, fatal>>
    BY <1>3 DEF queueWriteProposal
  <2> QED
    BY <2>2, <2>3, <2>9 DEF TypeOK
<1>4. CASE broadcastProposal(g)
  <2>1. goroutine' \in [Goroutine -> Place]
    BY <1>4, PlaceFacts DEF broadcastProposal, TypeOK
  <2>2. sendingQueue' \in Seq(Proposal \cup {CommitMsg})
    BY <1>1, <1>4, AppendFacts DEF broadcastProposal, TypeOK, p
  <2>9. UNCHANGED <<sent, waiting, countNum, ackTracker, proposalsQueue, log, committed, follower, fatal>>
    BY <1>4 DEF broadcastProposal
  <2> QED
    BY <2>1, <2>2, <2>9 DEF TypeOK
<1> QED
  BY <1>2, <1>3, <1>4

\* What processACK does, by the ACK it takes.
LEMMA AckFacts ==
  ASSUME TypeOK, CarryInv, AckInv, NEW g \in Goroutine, processACK(g)
  PROVE  \E f \in Follower, k \in 1..countNum :
           /\ follower[f].acks # << >> /\ k = Head(follower[f].acks)
           /\ follower[f].acks \in Seq(Nat)
           /\ follower' = [follower EXCEPT ![f].acks = Tail(@)]
           /\ \/ /\ ackTracker[k] + 1 > n_systems \div 2
                 /\ ackTracker' = [ackTracker EXCEPT ![k] = 0]
                 /\ goroutine' = [goroutine EXCEPT ![g] = [pc |-> "dequeue"]]
              \/ /\ ~(ackTracker[k] + 1 > n_systems \div 2)
                 /\ ackTracker' = [ackTracker EXCEPT ![k] = ackTracker[k] + 1]
                 /\ UNCHANGED goroutine
<1>1. PICK f \in Follower :
        /\ follower[f].acks # << >>
        /\ LET k == Head(follower[f].acks) IN
           IF incrementOrRemove(k)
           THEN /\ ackTracker' = [ackTracker EXCEPT ![k] = 0]
                /\ goroutine' = [goroutine EXCEPT ![g] = [pc |-> "dequeue"]]
           ELSE /\ ackTracker' = [ackTracker EXCEPT ![k] = @ + 1]
                /\ UNCHANGED goroutine
        /\ follower' = [follower EXCEPT ![f].acks = Tail(@)]
  BY DEF processACK
<1>2. follower[f].acks \in Seq(Nat)
  BY DEF TypeOK
<1>3. Head(follower[f].acks) \in 1..countNum
  <2>1. Len(follower[f].acks) \in Nat /\ 1 <= Len(follower[f].acks)
        /\ Head(follower[f].acks) = follower[f].acks[1]
    BY <1>1, <1>2, HeadFacts
  <2>2. PICK j \in StateChanges(sendingQueue, follower[f].rcvd) :
          sendingQueue[j].CountNum = follower[f].acks[1]
    BY <2>1 DEF AckInv
  <2>3. follower[f].rcvd \in Nat /\ Len(sendingQueue) \in Nat /\ follower[f].rcvd <= Len(sendingQueue)
    BY LenProperties DEF TypeOK, AckInv
  <2>4. j \in StateChanges(sendingQueue, Len(sendingQueue))
    BY <2>2, <2>3 DEF StateChanges
  <2> QED
    BY <2>1, <2>2, <2>4 DEF CarryInv, Counts
<1>4. \A k : [ackTracker EXCEPT ![k] = @ + 1] = [ackTracker EXCEPT ![k] = ackTracker[k] + 1]
  OBVIOUS
<1> QED
  BY <1>1, <1>2, <1>3, <1>4 DEF incrementOrRemove

\* processACK: the counter of one proposal, one ACK less under way.
LEMMA AckType ==
  ASSUME TypeOK, CarryInv, AckInv, NEW g \in Goroutine, processACK(g)
  PROVE  TypeOK'
<1>1. PICK f \in Follower, k \in 1..countNum :
           /\ follower[f].acks # << >> /\ k = Head(follower[f].acks)
           /\ follower[f].acks \in Seq(Nat)
           /\ follower' = [follower EXCEPT ![f].acks = Tail(@)]
           /\ \/ /\ ackTracker[k] + 1 > n_systems \div 2
                 /\ ackTracker' = [ackTracker EXCEPT ![k] = 0]
                 /\ goroutine' = [goroutine EXCEPT ![g] = [pc |-> "dequeue"]]
              \/ /\ ~(ackTracker[k] + 1 > n_systems \div 2)
                 /\ ackTracker' = [ackTracker EXCEPT ![k] = ackTracker[k] + 1]
                 /\ UNCHANGED goroutine
  BY AckFacts
<1>2. goroutine' \in [Goroutine -> Place]
  BY <1>1, PlaceFacts DEF TypeOK
<1>3. ackTracker[k] + 1 \in Nat /\ 0 \in Nat
  <2>1. ackTracker[k] \in Nat
    BY ElementOfSeq DEF TypeOK
  <2> QED
    BY <2>1
<1>4. ackTracker' \in Seq(Nat) /\ Len(ackTracker') = countNum
  <2>1. PICK v \in Nat : ackTracker' = [ackTracker EXCEPT ![k] = v]
    BY <1>1, <1>3
  <2>2. ackTracker \in Seq(Nat) /\ Len(ackTracker) = countNum
    BY DEF TypeOK
  <2> QED
    BY <2>1, <2>2, ReplaceFacts
<1>5. Tail(follower[f].acks) \in Seq(Nat)
  BY <1>1, HeadFacts
<1> HIDE DEF Proposal
<1>6. UNCHANGED <<sent, waiting, countNum, proposalsQueue, log, committed, sendingQueue, fatal>>
  BY DEF processACK
<1>7. follower' \in [Follower -> [rcvd : Nat, acks : Seq(Nat), proposalsQueue : Seq(Proposal),
                                  committed : Seq(Request)]]
  <2>1. follower' = [follower EXCEPT ![f].acks = Tail(follower[f].acks)]
    BY <1>1
  <2> HIDE <1>1
  <2> QED
    BY ZenonT(60), <2>1, <1>5 DEF TypeOK
<1> QED
  BY <1>2, <1>4, <1>6, <1>7 DEF TypeOK

\* A commit: the head of the queue, if there is one, and the message to the followers.
LEMMA CommitType ==
  ASSUME TypeOK, NEW g \in Goroutine,
         processCommitProposal(g) \/ queueCommitProposal(g) \/ broadcastCommit(g)
  PROVE  TypeOK'
<1>1. CASE processCommitProposal(g)
  <2>1. CASE proposalsQueue = << >>
    BY <1>1, <2>1 DEF processCommitProposal, TypeOK
  <2>2. CASE proposalsQueue # << >>
    <3>1. Head(proposalsQueue) \in Proposal /\ Tail(proposalsQueue) \in Seq(Proposal)
      BY <2>2, HeadFacts DEF TypeOK
    <3>2. goroutine' \in [Goroutine -> Place]
      BY <1>1, <2>2, <3>1, PlaceFacts DEF processCommitProposal, TypeOK
    <3> QED
      BY <1>1, <2>2, <3>1, <3>2 DEF processCommitProposal, TypeOK
  <2> QED
    BY <2>1, <2>2
<1>2. CASE queueCommitProposal(g)
  <2>1. goroutine[g].prop.Content \in Request
    BY <1>2, GoroutineFacts DEF queueCommitProposal, Proposal
  <2>2. committed' \in Seq(Request)
    BY <1>2, <2>1, AppendFacts DEF queueCommitProposal, TypeOK
  <2>3. goroutine' \in [Goroutine -> Place]
    BY <1>2, PlaceFacts DEF queueCommitProposal, TypeOK
  <2>9. UNCHANGED <<sent, waiting, countNum, ackTracker, proposalsQueue, log, sendingQueue,
                  follower, fatal>>
    BY <1>2 DEF queueCommitProposal
  <2> QED
    BY <2>2, <2>3, <2>9 DEF TypeOK
<1>3. CASE broadcastCommit(g)
  <2>1. goroutine' \in [Goroutine -> Place]
    BY <1>3, PlaceFacts DEF broadcastCommit, TypeOK
  <2>2. sendingQueue' \in Seq(Proposal \cup {CommitMsg})
    BY <1>3, AppendFacts DEF broadcastCommit, TypeOK
  <2>9. UNCHANGED <<sent, waiting, countNum, ackTracker, proposalsQueue, log, committed, follower, fatal>>
    BY <1>3 DEF broadcastCommit
  <2> QED
    BY <2>1, <2>2, <2>9 DEF TypeOK
<1> QED
  BY <1>1, <1>2, <1>3

\* What a follower does with the next message of the broadcast.
LEMMA FollowerFacts ==
  ASSUME TypeOK, NEW f \in Follower, followerProposal(f)
  PROVE  LET m == follower[f]
             e == sendingQueue[m.rcvd + 1]
         IN
         /\ m.rcvd \in Nat /\ m.acks \in Seq(Nat) /\ m.proposalsQueue \in Seq(Proposal)
         /\ m.committed \in Seq(Request)
         /\ m.rcvd + 1 \in 1..Len(sendingQueue)
         /\ \/ /\ e \in Proposal
               /\ follower' = [follower EXCEPT ![f] =
                     [rcvd |-> m.rcvd + 1, acks |-> Append(m.acks, e.CountNum),
                      proposalsQueue |-> Append(m.proposalsQueue, e), committed |-> m.committed]]
               /\ UNCHANGED fatal
            \/ /\ e = CommitMsg /\ m.proposalsQueue = << >>
               /\ fatal' = TRUE /\ UNCHANGED follower
            \/ /\ e = CommitMsg /\ m.proposalsQueue # << >>
               /\ follower' = [follower EXCEPT ![f] =
                     [rcvd |-> m.rcvd + 1, acks |-> m.acks,
                      proposalsQueue |-> Tail(m.proposalsQueue),
                      committed |-> Append(m.committed, Head(m.proposalsQueue).Content)]]
               /\ UNCHANGED fatal
<1> DEFINE m == follower[f]
           e == sendingQueue[m.rcvd + 1]
<1>1. /\ m \in [rcvd : Nat, acks : Seq(Nat), proposalsQueue : Seq(Proposal), committed : Seq(Request)]
      /\ sendingQueue \in Seq(Proposal \cup {CommitMsg})
  BY DEF TypeOK
<1>2. m.rcvd < Len(sendingQueue)
  BY DEF followerProposal
<1>3. m.rcvd \in Nat /\ Len(sendingQueue) \in Nat
  BY <1>1, LenProperties
<1> HIDE DEF m
<1>4. m.rcvd + 1 \in 1..Len(sendingQueue)
  BY <1>2, <1>3
<1>5. e \in Proposal \cup {CommitMsg}
  BY SMTT(60), <1>1, <1>4, ElementOfSeq
<1>6. CASE e \in Proposal
  <2>1. e.PropType = "StateChange"
    BY <1>6 DEF Proposal
  <2>2. [m EXCEPT !.rcvd = @ + 1, !.acks = Append(@, e.CountNum), !.proposalsQueue = Append(@, e)]
          = [rcvd |-> m.rcvd + 1, acks |-> Append(m.acks, e.CountNum),
             proposalsQueue |-> Append(m.proposalsQueue, e), committed |-> m.committed]
    <3> DEFINE n == m.rcvd + 1
               x == Append(m.acks, e.CountNum)
               y == Append(m.proposalsQueue, e)
    <3> HIDE DEF n, x, y
    <3> DEFINE m1 == [m EXCEPT !.rcvd = n]
               m2 == [m1 EXCEPT !.acks = x]
    <3>1. m1 = [rcvd |-> n, acks |-> m.acks, proposalsQueue |-> m.proposalsQueue,
                committed |-> m.committed]
      BY <1>1
    <3> HIDE DEF m1
    <3>2. m2 = [rcvd |-> n, acks |-> x, proposalsQueue |-> m.proposalsQueue,
                committed |-> m.committed]
      BY <3>1
    <3> HIDE DEF m2
    <3>3. [m2 EXCEPT !.proposalsQueue = y]
            = [rcvd |-> n, acks |-> x, proposalsQueue |-> y, committed |-> m.committed]
      BY <3>2
    <3> QED
      BY <3>3 DEF n, x, y, m1, m2
  <2>3. follower' = [follower EXCEPT ![f] =
           [m EXCEPT !.rcvd = @ + 1, !.acks = Append(@, e.CountNum), !.proposalsQueue = Append(@, e)]]
        /\ UNCHANGED fatal
    BY <2>1 DEF followerProposal, m
  <2> QED
    BY <1>1, <1>4, <1>6, <2>2, <2>3 DEF m
<1>7. CASE e = CommitMsg
  <2>1. e.PropType # "StateChange"
    BY <1>7 DEF CommitMsg
  <2>2. CASE m.proposalsQueue = << >>
    BY <1>1, <1>4, <1>7, <2>1, <2>2 DEF followerProposal, m
  <2>3. CASE m.proposalsQueue # << >>
    <3>1. [m EXCEPT !.rcvd = @ + 1, !.committed = Append(@, Head(m.proposalsQueue).Content),
                    !.proposalsQueue = Tail(@)]
            = [rcvd |-> m.rcvd + 1, acks |-> m.acks, proposalsQueue |-> Tail(m.proposalsQueue),
               committed |-> Append(m.committed, Head(m.proposalsQueue).Content)]
      <4> DEFINE n == m.rcvd + 1
                 x == Append(m.committed, Head(m.proposalsQueue).Content)
                 y == Tail(m.proposalsQueue)
      <4> HIDE DEF n, x, y
      <4> DEFINE m1 == [m EXCEPT !.rcvd = n]
                 m2 == [m1 EXCEPT !.committed = x]
      <4>1. m1 = [rcvd |-> n, acks |-> m.acks, proposalsQueue |-> m.proposalsQueue,
                  committed |-> m.committed]
        BY <1>1
      <4> HIDE DEF m1
      <4>2. m2 = [rcvd |-> n, acks |-> m.acks, proposalsQueue |-> m.proposalsQueue, committed |-> x]
        BY <4>1
      <4> HIDE DEF m2
      <4>3. [m2 EXCEPT !.proposalsQueue = y]
              = [rcvd |-> n, acks |-> m.acks, proposalsQueue |-> y, committed |-> x]
        BY <4>2
      <4> QED
        BY <4>3 DEF n, x, y, m1, m2
    <3>2. follower' = [follower EXCEPT ![f] =
             [m EXCEPT !.rcvd = @ + 1, !.committed = Append(@, Head(m.proposalsQueue).Content),
                       !.proposalsQueue = Tail(@)]]
          /\ UNCHANGED fatal
      BY <2>1, <2>3 DEF followerProposal, m
    <3> QED
      BY <1>1, <1>4, <1>7, <2>3, <3>1, <3>2 DEF m
  <2> QED
    BY <2>2, <2>3
<1> QED
  BY <1>5, <1>6, <1>7 DEF m

\* followerProposal: the queues of one follower.
LEMMA FollowerType ==
  ASSUME TypeOK, NEW f \in Follower, followerProposal(f)
  PROVE  TypeOK'
<1> DEFINE m == follower[f]
           e == sendingQueue[m.rcvd + 1]
           State == [rcvd : Nat, acks : Seq(Nat), proposalsQueue : Seq(Proposal), committed : Seq(Request)]
<1>1. UNCHANGED <<sent, waiting, goroutine, countNum, ackTracker, proposalsQueue, log, committed,
                  sendingQueue>>
  BY DEF followerProposal
<1>2. follower \in [Follower -> State] /\ fatal \in BOOLEAN
  BY DEF TypeOK
<1> HIDE DEF State
<1>3. SUFFICES follower' \in [Follower -> State] /\ fatal' \in BOOLEAN
  BY <1>1 DEF TypeOK, State
<1>4. /\ m.rcvd + 1 \in Nat /\ m.acks \in Seq(Nat) /\ m.proposalsQueue \in Seq(Proposal)
      /\ m.committed \in Seq(Request)
  <2>1. m.rcvd \in Nat /\ m.acks \in Seq(Nat) /\ m.proposalsQueue \in Seq(Proposal)
        /\ m.committed \in Seq(Request)
    BY FollowerFacts
  <2> HIDE DEF m
  <2> QED
    BY <2>1
<1>5. CASE /\ e \in Proposal
           /\ follower' = [follower EXCEPT ![f] =
                     [rcvd |-> m.rcvd + 1, acks |-> Append(m.acks, e.CountNum),
                      proposalsQueue |-> Append(m.proposalsQueue, e), committed |-> m.committed]]
           /\ UNCHANGED fatal
  <2>1. e.CountNum \in Nat
    BY <1>5 DEF Proposal
  <2> HIDE DEF m, e
  <2>2. Append(m.acks, e.CountNum) \in Seq(Nat) /\ Append(m.proposalsQueue, e) \in Seq(Proposal)
    BY <1>4, <1>5, <2>1, AppendFacts
  <2>3. [rcvd |-> m.rcvd + 1, acks |-> Append(m.acks, e.CountNum),
         proposalsQueue |-> Append(m.proposalsQueue, e), committed |-> m.committed] \in State
    BY <1>4, <2>2 DEF State
  <2> QED
    BY <1>2, <1>5, <2>3
<1>6. CASE fatal' = TRUE /\ UNCHANGED follower
  BY <1>2, <1>6
<1>7. CASE /\ m.proposalsQueue # << >>
           /\ follower' = [follower EXCEPT ![f] =
                     [rcvd |-> m.rcvd + 1, acks |-> m.acks,
                      proposalsQueue |-> Tail(m.proposalsQueue),
                      committed |-> Append(m.committed, Head(m.proposalsQueue).Content)]]
           /\ UNCHANGED fatal
  <2> HIDE DEF m
  <2>1. Head(m.proposalsQueue) \in Proposal /\ Tail(m.proposalsQueue) \in Seq(Proposal)
    BY <1>4, <1>7, HeadFacts
  <2>2. Append(m.committed, Head(m.proposalsQueue).Content) \in Seq(Request)
    BY <1>4, <2>1, AppendFacts DEF Proposal
  <2>3. [rcvd |-> m.rcvd + 1, acks |-> m.acks, proposalsQueue |-> Tail(m.proposalsQueue),
         committed |-> Append(m.committed, Head(m.proposalsQueue).Content)] \in State
    BY <1>4, <2>1, <2>2 DEF State
  <2> QED
    BY <1>2, <1>7, <2>3
<1> QED
  BY <1>5, <1>6, <1>7, FollowerFacts

\* The type invariant holds of the initial state.
LEMMA TypeInit == Init => TypeOK
<1> SUFFICES ASSUME Init PROVE TypeOK
  OBVIOUS
<1>1. \A S : << >> \in Seq(S) /\ Len(<< >>) = 0
  OBVIOUS
<1>2. goroutine \in [Goroutine -> Place]
  BY PlaceFacts DEF Init
<1>3. [rcvd |-> 0, acks |-> << >>, proposalsQueue |-> << >>, committed |-> << >>]
        \in [rcvd : Nat, acks : Seq(Nat), proposalsQueue : Seq(Proposal), committed : Seq(Request)]
  BY <1>1
<1>4. follower \in [Follower -> [rcvd : Nat, acks : Seq(Nat), proposalsQueue : Seq(Proposal),
                               committed : Seq(Request)]]
  BY <1>3 DEF Init
<1> QED
  BY <1>1, <1>2, <1>4 DEF Init, TypeOK

\* Every step keeps the type invariant; for an ACK, because it is for a
\* proposal that has a counter.
LEMMA TypeStep == TypeOK /\ CarryInv /\ AckInv /\ [Next]_vars => TypeOK'
<1> SUFFICES ASSUME TypeOK, CarryInv, AckInv, [Next]_vars PROVE TypeOK'
  OBVIOUS
<1>1. ASSUME NEW r \in Request, SendWriteRequest(r) PROVE TypeOK'
  BY <1>1 DEF SendWriteRequest, TypeOK
<1>2. ASSUME UNCHANGED vars PROVE TypeOK'
  BY <1>2 DEF vars, TypeOK
<1> QED
  BY <1>1, <1>2, IncCountType, CarryType, AckType, CommitType, FollowerType DEF Next, handler

-----------------------------------------------------------------------------
(* Counting in the broadcast *)

\* The numbers of proposals and Commits are numbers; the places depend on the
\* messages up to n only.
LEMMA PlacesFacts ==
  ASSUME NEW q, NEW n \in Nat
  PROVE  /\ IsFiniteSet(StateChanges(q, n)) /\ Cardinality(StateChanges(q, n)) \in Nat
         /\ IsFiniteSet(Commits(q, n)) /\ Cardinality(Commits(q, n)) \in Nat
<1>1. IsFiniteSet(1..n)
  BY FS_Interval
<1>2. StateChanges(q, n) \in SUBSET (1..n) /\ Commits(q, n) \in SUBSET (1..n)
  BY DEF StateChanges, Commits
<1>3. IsFiniteSet(StateChanges(q, n)) /\ IsFiniteSet(Commits(q, n))
  BY <1>1, <1>2, FS_Subset
<1> QED
  BY <1>3, FS_CardinalityType

\* Where the messages are the same, so are the places.
LEMMA PlacesSame ==
  ASSUME NEW p, NEW q, NEW n \in Nat, \A i \in 1..n : p[i] = q[i]
  PROVE  StateChanges(p, n) = StateChanges(q, n) /\ Commits(p, n) = Commits(q, n)
BY DEF StateChanges, Commits

\* One more message is one more proposal, or one more Commit.
LEMMA PlacesNext ==
  ASSUME NEW q, NEW n \in Nat
  PROVE  /\ q[n + 1].PropType = "StateChange" =>
              /\ StateChanges(q, n + 1) = StateChanges(q, n) \cup {n + 1}
              /\ Commits(q, n + 1) = Commits(q, n)
              /\ Cardinality(StateChanges(q, n + 1)) = Cardinality(StateChanges(q, n)) + 1
         /\ q[n + 1].PropType # "StateChange" =>
              /\ StateChanges(q, n + 1) = StateChanges(q, n)
              /\ Commits(q, n + 1) = Commits(q, n) \cup {n + 1}
              /\ Cardinality(Commits(q, n + 1)) = Cardinality(Commits(q, n)) + 1
<1>1. n + 1 \notin StateChanges(q, n) /\ n + 1 \notin Commits(q, n)
  BY DEF StateChanges, Commits
<1>2. 1..(n + 1) = (1..n) \cup {n + 1}
  OBVIOUS
<1>3. CASE q[n + 1].PropType = "StateChange"
  <2>1. /\ StateChanges(q, n + 1) = StateChanges(q, n) \cup {n + 1}
        /\ Commits(q, n + 1) = Commits(q, n)
    BY <1>2, <1>3 DEF StateChanges, Commits
  <2> QED
    BY <1>1, <1>3, <2>1, PlacesFacts, FS_AddElement
<1>4. CASE q[n + 1].PropType # "StateChange"
  <2>1. /\ StateChanges(q, n + 1) = StateChanges(q, n)
        /\ Commits(q, n + 1) = Commits(q, n) \cup {n + 1}
    BY <1>2, <1>4 DEF StateChanges, Commits
  <2> QED
    BY <1>1, <1>4, <2>1, PlacesFacts, FS_AddElement
<1> QED
  BY <1>3, <1>4

\* No more proposals are broadcast than there are places with one.
LEMMA CountsFacts ==
  ASSUME NEW q, Len(q) \in Nat, NEW E \in SUBSET Counts(q)
  PROVE  /\ IsFiniteSet(E) /\ Cardinality(E) \in Nat
         /\ Cardinality(E) <= Cardinality(StateChanges(q, Len(q)))
<1> DEFINE P == StateChanges(q, Len(q))
           f == [i \in P |-> q[i].CountNum]
<1>1. f \in Surjection(P, Counts(q))
  BY DEF Surjection, Counts
<1>2. IsFiniteSet(P) /\ Cardinality(P) \in Nat
  BY PlacesFacts
<1> HIDE DEF P, f
<1>3. IsFiniteSet(Counts(q)) /\ Cardinality(Counts(q)) <= Cardinality(P)
  BY <1>1, <1>2, FS_Surjection
<1>4. IsFiniteSet(E) /\ Cardinality(E) <= Cardinality(Counts(q))
  BY <1>3, FS_Subset
<1>5. Cardinality(E) \in Nat /\ Cardinality(Counts(q)) \in Nat
  BY <1>3, <1>4, FS_CardinalityType
<1>6. Cardinality(E) <= Cardinality(P)
  BY <1>2, <1>3, <1>4, <1>5
<1> QED
  BY <1>4, <1>5, <1>6 DEF P

\* One more message: what it adds to the proposals broadcast.
LEMMA CountsNext ==
  ASSUME NEW p, NEW q, NEW n \in Nat, Len(p) = n, Len(q) = n + 1,
         \A i \in 1..n : q[i] = p[i]
  PROVE  /\ q[n + 1].PropType = "StateChange" => Counts(q) = Counts(p) \cup {q[n + 1].CountNum}
         /\ q[n + 1].PropType # "StateChange" => Counts(q) = Counts(p)
<1>1. StateChanges(q, n) = StateChanges(p, n)
  BY PlacesSame
<1>2. \A i \in StateChanges(p, n) : q[i] = p[i]
  BY DEF StateChanges
<1>3. CASE q[n + 1].PropType = "StateChange"
  <2>1. StateChanges(q, n + 1) = StateChanges(p, n) \cup {n + 1}
    BY <1>1, <1>3, PlacesNext
  <2> QED
    BY <1>2, <1>3, <2>1 DEF Counts
<1>4. CASE q[n + 1].PropType # "StateChange"
  <2>1. StateChanges(q, n + 1) = StateChanges(p, n)
    BY <1>1, <1>4, PlacesNext
  <2> QED
    BY <1>2, <1>4, <2>1 DEF Counts
<1> QED
  BY <1>3, <1>4

\* What one more message, e, changes from p to q.
OneMore(p, q, e) ==
  LET n == Len(p) IN
  /\ n \in Nat /\ Len(q) = n + 1 /\ q[n + 1] = e /\ \A i \in 1..n : q[i] = p[i]
  /\ \A i \in 0..n : StateChanges(q, i) = StateChanges(p, i) /\ Commits(q, i) = Commits(p, i)
  /\ e.PropType = "StateChange" =>
       /\ Counts(q) = Counts(p) \cup {e.CountNum}
       /\ StateChanges(q, n + 1) = StateChanges(p, n) \cup {n + 1}
       /\ Cardinality(StateChanges(q, n + 1)) = Cardinality(StateChanges(p, n)) + 1
       /\ Commits(q, n + 1) = Commits(p, n)
  /\ e.PropType # "StateChange" =>
       /\ Counts(q) = Counts(p)
       /\ StateChanges(q, n + 1) = StateChanges(p, n)
       /\ Cardinality(Commits(q, n + 1)) = Cardinality(Commits(p, n)) + 1

\* q is p and one message more.
LEMMA MessageNext ==
  ASSUME NEW p, NEW q, NEW n \in Nat, NEW e, Len(p) = n, Len(q) = n + 1,
         \A i \in 1..n : q[i] = p[i], q[n + 1] = e
  PROVE  OneMore(p, q, e)
<1>1. ASSUME NEW i \in 0..n
      PROVE  StateChanges(q, i) = StateChanges(p, i) /\ Commits(q, i) = Commits(p, i)
  BY SMTT(60), PlacesSame
<1>2. StateChanges(q, n) = StateChanges(p, n) /\ Commits(q, n) = Commits(p, n)
  BY PlacesSame
<1>3. CASE e.PropType = "StateChange"
  <2>1. Counts(q) = Counts(p) \cup {e.CountNum}
    BY <1>3, CountsNext
  <2>2. /\ StateChanges(q, n + 1) = StateChanges(p, n) \cup {n + 1}
        /\ Cardinality(StateChanges(q, n + 1)) = Cardinality(StateChanges(p, n)) + 1
        /\ Commits(q, n + 1) = Commits(p, n)
    BY <1>2, <1>3, PlacesNext
  <2> QED
    BY <1>1, <1>3, <2>1, <2>2 DEF OneMore
<1>4. CASE e.PropType # "StateChange"
  <2>1. Counts(q) = Counts(p)
    BY <1>4, CountsNext
  <2>2. /\ StateChanges(q, n + 1) = StateChanges(p, n)
        /\ Cardinality(Commits(q, n + 1)) = Cardinality(Commits(p, n)) + 1
    BY <1>2, <1>4, PlacesNext
  <2> QED
    BY <1>1, <1>4, <2>1, <2>2 DEF OneMore
<1> QED
  BY <1>3, <1>4

\* A message put at the end is one more message.
LEMMA AppendMessage ==
  ASSUME NEW S, NEW p \in Seq(S), NEW e \in S
  PROVE  OneMore(p, Append(p, e), e)
<1>1. /\ Append(p, e) \in Seq(S) /\ Len(p) \in Nat /\ Len(Append(p, e)) = Len(p) + 1
      /\ \A i \in 1..Len(p) : Append(p, e)[i] = p[i] /\ Append(p, e)[Len(p) + 1] = e
  BY AppendFacts
<1> DEFINE q == Append(p, e)
           n == Len(p)
<1>2. Append(p, e)[Len(p) + 1] = e
  BY AppendFacts
<1> HIDE DEF q, n
<1>3. n \in Nat /\ Len(p) = n /\ Len(q) = n + 1 /\ (\A i \in 1..n : q[i] = p[i]) /\ q[n + 1] = e
  BY <1>1, <1>2 DEF q, n
<1>4. OneMore(p, q, e)
  BY <1>3, MessageNext
<1> QED
  BY <1>4 DEF q

-----------------------------------------------------------------------------
(* What each part of the invariant depends on *)

\* CarryInv: the broadcast, and the goroutines that hold a proposal of their own.
LEMMA FrameCarry ==
  ASSUME CarryInv, UNCHANGED <<countNum, sendingQueue>>,
         \A h \in Goroutine : goroutine'[h].pc \in {"enqueue", "write", "broadcast"} =>
           /\ goroutine[h].pc \in {"enqueue", "write", "broadcast"}
           /\ goroutine'[h].prop = goroutine[h].prop
  PROVE  CarryInv'
BY SMTT(60) DEF CarryInv, Carrying, pc, count, Counts, StateChanges

\* RunnerInv: the goroutines that commit.
LEMMA FrameRunner ==
  ASSUME RunnerInv,
         \A h \in Goroutine : goroutine'[h].pc \in {"dequeue", "commit", "broadcastCommit"} =>
           goroutine[h].pc \in {"dequeue", "commit", "broadcastCommit"}
  PROVE  RunnerInv'
BY DEF RunnerInv, pc, ackRunner, runner

\* What is under way to and from the followers: the broadcast and the followers.
LEMMA FrameFollower ==
  ASSUME AckInv, PrefixInv, FollowInv, UNCHANGED <<follower, sendingQueue>>
  PROVE  AckInv' /\ PrefixInv' /\ FollowInv'
BY ZenonT(60) DEF AckInv, PrefixInv, FollowInv, StateChanges, Commits

\* What is under way to the followers and from them stays what it was when one
\* more message is broadcast.
LEMMA FollowerBehind ==
  ASSUME TypeOK, AckInv, FollowInv, UNCHANGED follower,
         NEW e \in Proposal \cup {CommitMsg}, sendingQueue' = Append(sendingQueue, e)
  PROVE  AckInv' /\ FollowInv' /\ \A k : MayAck(k)' = MayAck(k)
<1> DEFINE q == Append(sendingQueue, e)
           n == Len(sendingQueue)
<1>1. /\ n \in Nat /\ Len(q) = n + 1
      /\ \A i \in 1..n : q[i] = sendingQueue[i]
  BY AppendFacts DEF TypeOK
<1> HIDE DEF q, n
<1>2. ASSUME NEW f \in Follower
      PROVE  /\ follower[f].rcvd \in 0..n /\ follower[f].rcvd <= Len(q)
             /\ StateChanges(q, follower[f].rcvd) = StateChanges(sendingQueue, follower[f].rcvd)
             /\ Commits(q, follower[f].rcvd) = Commits(sendingQueue, follower[f].rcvd)
             /\ \A j \in StateChanges(sendingQueue, follower[f].rcvd) : q[j] = sendingQueue[j]
  <2>1. follower[f].rcvd \in Nat /\ follower[f].rcvd <= n
    BY DEF TypeOK, AckInv, n
  <2>2. \A i \in 1..follower[f].rcvd : q[i] = sendingQueue[i]
    BY <1>1, <2>1
  <2> QED
    BY SMTT(60), <1>1, <2>1, <2>2, PlacesSame DEF StateChanges
<1>3. sendingQueue' = q /\ follower' = follower
  BY DEF q
<1>4. AckInv'
  BY <1>2, <1>3 DEF AckInv
<1>5. FollowInv'
  BY <1>2, <1>3 DEF FollowInv
<1>6. \A k : MayAck(k)' = MayAck(k)
  BY <1>2, <1>3 DEF MayAck, mayAck
<1> QED
  BY <1>4, <1>5, <1>6

\* The proposals enqueued: the goroutines that are about to enqueue one.
LEMMA EnqueuedFrame ==
  ASSUME UNCHANGED countNum,
         \A h \in Goroutine : goroutine'[h].pc = "enqueue" <=> goroutine[h].pc = "enqueue",
         \A h \in Goroutine : goroutine[h].pc = "enqueue" => goroutine'[h].prop = goroutine[h].prop
  PROVE  Enqueued' = Enqueued
<1>1. {h \in Goroutine : goroutine'[h].pc = "enqueue"} = {h \in Goroutine : goroutine[h].pc = "enqueue"}
  OBVIOUS
<1> QED
  BY <1>1 DEF Enqueued, pc, count

\* The proposals enqueued are finitely many.
LEMMA EnqueuedFacts ==
  ASSUME TypeOK
  PROVE  IsFiniteSet(Enqueued) /\ Cardinality(Enqueued) \in Nat /\ Enqueued \subseteq 1..countNum
<1>1. IsFiniteSet(1..countNum)
  BY FS_Interval DEF TypeOK
<1>2. Enqueued \in SUBSET (1..countNum)
  BY DEF Enqueued
<1> QED
  BY <1>1, <1>2, FS_Subset, FS_CardinalityType

\* What is due does not change when no ACK is taken and no count given away.
LEMMA FrameTally ==
  ASSUME UNCHANGED <<countNum, ackTracker>>, \A k : MayAck(k)' = MayAck(k),
         NEW E, \A k \in 1..countNum : Tally(k, k \in E)
  PROVE  \A k \in 1..countNum' : Tally(k, k \in E)'
BY DEF Tally, n_systems

-----------------------------------------------------------------------------
(* The steps of processRequest *)

\* incCount: the new proposal is in the hands of g, all ACKs are to come.
LEMMA IncCountStep ==
  ASSUME DispatchInv, NEW g \in Goroutine, incCount(g)
  PROVE  CarryInv' /\ RunnerInv' /\ AckInv' /\ CommitInv' /\ PrefixInv' /\ FollowInv'
<1> DEFINE c == countNum + 1
<1>1. PICK r \in waiting :
        /\ countNum' = c
        /\ ackTracker' = Append(ackTracker, 1)
        /\ goroutine' = [goroutine EXCEPT ![g] = [pc |-> "enqueue", prop |-> StateChange(c, r)]]
  BY DEF incCount
<1>2. UNCHANGED <<proposalsQueue, sendingQueue, follower>> /\ goroutine[g].pc = "idle"
  BY DEF incCount
<1>3. /\ goroutine'[g].pc = "enqueue" /\ goroutine'[g].prop.CountNum = c
      /\ \A h \in Goroutine \ {g} : goroutine'[h] = goroutine[h]
  BY <1>1 DEF DispatchInv, TypeOK, StateChange
<1>4. countNum \in Nat /\ c \notin 1..countNum /\ 1..c = (1..countNum) \cup {c}
  BY DEF DispatchInv, TypeOK
<1>5. CarryInv'
  <2>1. c \notin Counts(sendingQueue)
    BY <1>4 DEF DispatchInv, CarryInv
  <2>2. Counts(sendingQueue)' = Counts(sendingQueue)
    BY <1>2
  <2>3. \A h \in Carrying' : h = g \/ (h \in Carrying /\ goroutine'[h].prop = goroutine[h].prop)
    BY <1>3 DEF Carrying, pc
  <2>4. \A h \in Carrying' : goroutine'[h].prop.CountNum \in (1..c) \ Counts(sendingQueue)
    BY <1>3, <1>4, <2>1, <2>3 DEF DispatchInv, CarryInv, count
  <2>5. \A h, i \in Carrying' : goroutine'[h].prop.CountNum = goroutine'[i].prop.CountNum => h = i
    BY SMTT(60), <1>3, <1>4, <2>3 DEF DispatchInv, CarryInv, count
  <2> QED
    BY <1>1, <1>2, <1>4, <2>2, <2>4, <2>5 DEF DispatchInv, CarryInv, count
<1>6. RunnerInv'
  BY <1>3, FrameRunner DEF DispatchInv
<1>7. AckInv' /\ PrefixInv' /\ FollowInv'
  BY <1>2, FrameFollower DEF DispatchInv
<1>8. CommitInv'
  <2>1. PICK E \in SUBSET Counts(sendingQueue) : Due(E)
    BY DEF DispatchInv, CommitInv
  <2>2. Enqueued' = Enqueued
    <3> DEFINE H == {h \in Goroutine : goroutine[h].pc = "enqueue"}
    <3>1. {h \in Goroutine : goroutine'[h].pc = "enqueue"} = H \cup {g} /\ g \notin H
      BY <1>2, <1>3
    <3>2. {goroutine'[h].prop.CountNum : h \in H \cup {g}} = {goroutine[h].prop.CountNum : h \in H} \cup {c}
      BY <1>3, <3>1
    <3> QED
      BY ZenonT(60), <1>1, <1>4, <3>1, <3>2 DEF Enqueued, pc, count
  <2>3. ASSUME NEW k \in 1..c PROVE Tally(k, k \in E)'
    <3>1. MayAck(k)' = MayAck(k)
      BY <1>2 DEF MayAck, mayAck
    <3>2. CASE k \in 1..countNum
      <4>1. ackTracker'[k] = ackTracker[k]
        BY <1>1, <3>2, AppendFacts DEF DispatchInv, TypeOK
      <4>2. Tally(k, k \in E)
        BY <2>1, <3>2 DEF Due
      <4> QED
        BY <3>1, <4>1, <4>2 DEF Tally, n_systems
    <3>3. CASE k = c
      <4>1. ackTracker'[k] = 1
        BY <1>1, <3>3, AppendFacts DEF DispatchInv, TypeOK
      <4>2. k \notin E
        BY <1>4, <3>3 DEF DispatchInv, CarryInv
      <4>3. IsFiniteSet(MayAck(k)) /\ Cardinality(MayAck(k)) <= Cardinality(Follower)
            /\ Cardinality(MayAck(k)) \in Nat /\ Cardinality(Follower) \in Nat
        BY DispatchAssumption, FS_Subset, FS_CardinalityType DEF MayAck
      <4> QED
        BY <3>1, <4>1, <4>2, <4>3 DEF Tally, n_systems
    <3> QED
      BY <1>4, <3>2, <3>3
  <2>4. pc(ackRunner)' \in {"dequeue", "commit", "broadcastCommit"}
          <=> pc(ackRunner) \in {"dequeue", "commit", "broadcastCommit"}
    BY <1>2, <1>3 DEF pc, ackRunner, runner, Goroutine
  <2>5. pc(ackRunner)' = "dequeue" <=> pc(ackRunner) = "dequeue"
    BY <1>2, <1>3 DEF pc, ackRunner, runner, Goroutine
  <2> QED
    BY <1>1, <1>2, <2>1, <2>2, <2>3, <2>4, <2>5 DEF CommitInv, Due
<1> QED
  BY <1>5, <1>6, <1>7, <1>8

\* enqueueProposal: the queue grows with the set of proposals enqueued.
LEMMA EnqueueStep ==
  ASSUME DispatchInv, NEW g \in Goroutine, enqueueProposal(g)
  PROVE  CarryInv' /\ RunnerInv' /\ AckInv' /\ CommitInv' /\ PrefixInv' /\ FollowInv'
<1>1. /\ goroutine[g].pc = "enqueue"
      /\ goroutine' = [goroutine EXCEPT ![g].pc = "write"]
      /\ proposalsQueue' = Append(proposalsQueue, goroutine[g].prop)
      /\ UNCHANGED <<countNum, ackTracker, sendingQueue, follower>>
  BY DEF enqueueProposal, enqueue
<1>2. /\ goroutine'[g].pc = "write" /\ goroutine'[g].prop = goroutine[g].prop
      /\ goroutine[g].prop \in Proposal
      /\ \A h \in Goroutine \ {g} : goroutine'[h] = goroutine[h]
  <2>1. /\ goroutine[g] = [pc |-> "enqueue", prop |-> goroutine[g].prop]
        /\ goroutine[g].prop \in Proposal
    BY <1>1, GoroutineFacts DEF DispatchInv
  <2>2. goroutine \in [Goroutine -> Place]
    BY DEF DispatchInv, TypeOK
  <2> QED
    BY <1>1, <2>1, <2>2
<1>3. CarryInv'
  BY <1>1, <1>2, FrameCarry DEF DispatchInv
<1>4. RunnerInv'
  BY <1>1, <1>2, FrameRunner DEF DispatchInv
<1>5. AckInv' /\ PrefixInv' /\ FollowInv'
  BY <1>1, FrameFollower DEF DispatchInv
<1>6. CommitInv'
  <2>1. PICK E \in SUBSET Counts(sendingQueue) : Due(E)
    BY DEF DispatchInv, CommitInv
  <2>2. Enqueued' = Enqueued \cup {count(g)} /\ count(g) \notin Enqueued
    <3> DEFINE H == {h \in Goroutine : goroutine[h].pc = "enqueue"}
    <3>1. {h \in Goroutine : goroutine'[h].pc = "enqueue"} = H \ {g} /\ g \in H
      BY <1>1, <1>2
    <3>2. \A h \in H \ {g} : goroutine'[h].prop.CountNum = count(h) /\ count(h) # count(g)
      BY <1>1, <1>2 DEF DispatchInv, CarryInv, Carrying, pc, count
    <3>3. count(g) \in 1..countNum
      BY <1>1 DEF DispatchInv, CarryInv, Carrying, pc
    <3> QED
      BY <1>1, <3>1, <3>2, <3>3 DEF Enqueued, pc, count
  <2>3. Cardinality(Enqueued') = Cardinality(Enqueued) + 1
    BY <2>2, EnqueuedFacts, FS_AddElement DEF DispatchInv
  <2>4. Len(proposalsQueue') = Len(proposalsQueue) + 1 /\ Len(proposalsQueue) \in Nat
    BY <1>1, <1>2, AppendFacts DEF DispatchInv, TypeOK
  <2>5. \A k \in 1..countNum' : Tally(k, k \in E)'
    BY <1>1, <2>1, FrameTally DEF Due, MayAck, mayAck
  <2>6. pc(ackRunner)' \in {"dequeue", "commit", "broadcastCommit"}
          <=> pc(ackRunner) \in {"dequeue", "commit", "broadcastCommit"}
    BY <1>1, <1>2 DEF pc, ackRunner, runner, Goroutine
  <2>7. pc(ackRunner)' = "dequeue" <=> pc(ackRunner) = "dequeue"
    BY <1>1, <1>2 DEF pc, ackRunner, runner, Goroutine
  <2>8. Cardinality(E) \in Nat /\ Cardinality(Enqueued) \in Nat
    BY <2>1, CountsFacts, EnqueuedFacts, LenProperties DEF DispatchInv, TypeOK
  <2>9. Len(proposalsQueue) + Cardinality(E)
          = Cardinality(Enqueued) + (IF pc(ackRunner) = "dequeue" THEN 1 ELSE 0)
    BY <2>1 DEF Due
  <2>10. Len(proposalsQueue') + Cardinality(E)
           = Cardinality(Enqueued') + (IF pc(ackRunner)' = "dequeue" THEN 1 ELSE 0)
    BY <2>3, <2>4, <2>7, <2>8, <2>9
  <2>11. Due(E)'
    BY <1>1, <2>1, <2>5, <2>6, <2>10 DEF Due
  <2> QED
    BY <1>1, <2>1, <2>11 DEF CommitInv
<1> QED
  BY <1>3, <1>4, <1>5, <1>6

\* queueWriteProposal changes neither queue nor broadcast.
LEMMA LogStep ==
  ASSUME DispatchInv, NEW g \in Goroutine, queueWriteProposal(g)
  PROVE  CarryInv' /\ RunnerInv' /\ AckInv' /\ CommitInv' /\ PrefixInv' /\ FollowInv'
<1>1. /\ goroutine[g].pc = "write"
      /\ goroutine' = [goroutine EXCEPT ![g].pc = "broadcast"]
      /\ UNCHANGED <<countNum, ackTracker, proposalsQueue, sendingQueue, follower>>
  BY DEF queueWriteProposal
<1>2. /\ goroutine'[g].pc = "broadcast" /\ goroutine'[g].prop = goroutine[g].prop
      /\ \A h \in Goroutine \ {g} : goroutine'[h] = goroutine[h]
  <2>1. goroutine[g] = [pc |-> "write", prop |-> goroutine[g].prop]
    BY <1>1, GoroutineFacts DEF DispatchInv
  <2>2. goroutine \in [Goroutine -> Place]
    BY DEF DispatchInv, TypeOK
  <2> QED
    BY <1>1, <2>1, <2>2
<1>3. CarryInv'
  BY <1>1, <1>2, FrameCarry DEF DispatchInv
<1>4. RunnerInv'
  BY <1>1, <1>2, FrameRunner DEF DispatchInv
<1>5. AckInv' /\ PrefixInv' /\ FollowInv'
  BY <1>1, FrameFollower DEF DispatchInv
<1>6. CommitInv'
  <2>1. PICK E \in SUBSET Counts(sendingQueue) : Due(E)
    BY DEF DispatchInv, CommitInv
  <2>2. Enqueued' = Enqueued
    BY <1>1, <1>2, EnqueuedFrame
  <2>3. \A k \in 1..countNum' : Tally(k, k \in E)'
    BY <1>1, <2>1, FrameTally DEF Due, MayAck, mayAck
  <2>4. pc(ackRunner)' \in {"dequeue", "commit", "broadcastCommit"}
          <=> pc(ackRunner) \in {"dequeue", "commit", "broadcastCommit"}
    BY <1>1, <1>2 DEF pc, ackRunner, runner, Goroutine
  <2>5. pc(ackRunner)' = "dequeue" <=> pc(ackRunner) = "dequeue"
    BY <1>1, <1>2 DEF pc, ackRunner, runner, Goroutine
  <2>6. Due(E)'
    BY <1>1, <2>1, <2>2, <2>3, <2>4, <2>5 DEF Due
  <2> QED
    BY <1>1, <2>1, <2>6 DEF CommitInv
<1> QED
  BY <1>3, <1>4, <1>5, <1>6

\* broadcastProposal: the count leaves the hands of g and is in the broadcast, once.
LEMMA BroadcastStep ==
  ASSUME DispatchInv, NEW g \in Goroutine, broadcastProposal(g)
  PROVE  CarryInv' /\ RunnerInv' /\ AckInv' /\ CommitInv' /\ PrefixInv' /\ FollowInv'
<1> DEFINE e == goroutine[g].prop
           n == Len(sendingQueue)
           q == Append(sendingQueue, e)
           C == Counts(sendingQueue)
           S == StateChanges(sendingQueue, n)
<1>1. /\ goroutine[g].pc = "broadcast"
      /\ goroutine' = [goroutine EXCEPT ![g] = Idle]
      /\ sendingQueue' = q
      /\ UNCHANGED <<countNum, ackTracker, proposalsQueue, follower>>
  BY DEF broadcastProposal
<1>2. /\ goroutine'[g].pc = "idle" /\ e \in Proposal
      /\ \A h \in Goroutine \ {g} : goroutine'[h] = goroutine[h]
  BY <1>1, GoroutineFacts DEF DispatchInv, TypeOK, Idle
<1>3. g \in Carrying /\ Carrying' = Carrying \ {g}
  BY <1>1, <1>2 DEF Carrying, pc
<1>4. OneMore(sendingQueue, q, e)
  BY <1>2, AppendMessage DEF DispatchInv, TypeOK
<1>5. e.PropType = "StateChange"
  BY <1>2 DEF Proposal
<1> HIDE DEF q, e
<1>6. /\ n \in Nat /\ Len(q) = n + 1 /\ q[n + 1] = e /\ \A i \in 1..n : q[i] = sendingQueue[i]
      /\ \A i \in 0..n : /\ StateChanges(q, i) = StateChanges(sendingQueue, i)
                         /\ Commits(q, i) = Commits(sendingQueue, i)
      /\ Counts(q) = C \cup {e.CountNum}
      /\ StateChanges(q, n + 1) = S \cup {n + 1}
      /\ Cardinality(StateChanges(q, n + 1)) = Cardinality(S) + 1
      /\ Commits(q, n + 1) = Commits(sendingQueue, n)
  BY <1>4, <1>5 DEF OneMore
<1>7. CarryInv'
  <2>1. e.CountNum \in 1..countNum /\ e.CountNum \notin C
    <3>1. CarryInv
      BY DEF DispatchInv
    <3>2. count(g) = e.CountNum
      BY DEF count, e
    <3> QED
      BY <1>3, <3>1, <3>2 DEF CarryInv
  <2>2. \A h \in Carrying' : count(h)' = count(h) /\ count(h) # e.CountNum
    <3>1. \A h \in Carrying \ {g} : h \in Goroutine \ {g} /\ goroutine'[h] = goroutine[h]
      BY <1>2 DEF Carrying
    <3>2. \A h \in Carrying \ {g} : count(h) # count(g)
      BY <1>3 DEF DispatchInv, CarryInv
    <3> QED
      BY <1>3, <3>1, <3>2 DEF count, e
  <2>3. \A h \in Carrying' : count(h)' \in (1..countNum) \ Counts(q)
    BY <1>3, <1>6, <2>2 DEF DispatchInv, CarryInv
  <2>4. \A h, i \in Carrying' : count(h)' = count(i)' => h = i
    BY <1>3, <2>2 DEF DispatchInv, CarryInv
  <2>5. Counts(q) \subseteq 1..countNum
    BY <1>6, <2>1 DEF DispatchInv, CarryInv
  <2>6. \A i \in S : i \in 1..n /\ q[i] = sendingQueue[i] /\ q[i].CountNum \in C
    BY <1>6 DEF StateChanges, Counts
  <2>7. ASSUME NEW i \in StateChanges(q, n + 1), NEW j \in StateChanges(q, n + 1),
               q[i].CountNum = q[j].CountNum
        PROVE  i = j
    <3>1. CASE i \in S /\ j \in S
      BY <2>6, <2>7, <3>1 DEF DispatchInv, CarryInv
    <3>2. CASE i = n + 1 \/ j = n + 1
      BY <1>6, <2>1, <2>6, <2>7, <3>2
    <3> QED
      BY <1>6, <3>1, <3>2
  <2> QED
    BY <1>1, <1>6, <2>3, <2>4, <2>5, <2>7 DEF CarryInv
<1>8. RunnerInv'
  BY <1>2, FrameRunner DEF DispatchInv
<1>9. AckInv' /\ FollowInv' /\ \A k : MayAck(k)' = MayAck(k)
  <2>1. e \in Proposal \cup {CommitMsg} /\ sendingQueue' = Append(sendingQueue, e)
    BY <1>1, <1>2 DEF q
  <2> QED
    BY <1>1, <2>1, FollowerBehind DEF DispatchInv
<1>10. PrefixInv'
  <2>1. ASSUME NEW i \in 0..(n + 1)
        PROVE  Cardinality(Commits(q, i)) <= Cardinality(StateChanges(q, i))
    <3>1. CASE i \in 0..n
      BY <1>6, <3>1 DEF DispatchInv, PrefixInv
    <3>2. CASE i = n + 1
      <4>1. Cardinality(Commits(sendingQueue, n)) <= Cardinality(S)
        BY <1>6 DEF DispatchInv, PrefixInv
      <4>2. Cardinality(Commits(sendingQueue, n)) \in Nat /\ Cardinality(S) \in Nat
        BY <1>6, PlacesFacts
      <4> QED
        BY <1>6, <3>2, <4>1, <4>2
    <3> QED
      BY <1>6, <3>1, <3>2
  <2> QED
    BY <1>1, <1>6, <2>1 DEF PrefixInv
<1>11. CommitInv'
  <2>1. PICK E \in SUBSET C : Due(E)
    BY DEF DispatchInv, CommitInv
  <2>2. Enqueued' = Enqueued
    BY <1>1, <1>2, EnqueuedFrame
  <2>3. \A k \in 1..countNum' : Tally(k, k \in E)'
    BY <1>1, <1>9, <2>1, FrameTally DEF Due
  <2>4. pc(ackRunner)' \in {"dequeue", "commit", "broadcastCommit"}
          <=> pc(ackRunner) \in {"dequeue", "commit", "broadcastCommit"}
    BY <1>1, <1>2 DEF pc, ackRunner, runner, Goroutine
  <2>5. pc(ackRunner)' = "dequeue" <=> pc(ackRunner) = "dequeue"
    BY <1>1, <1>2 DEF pc, ackRunner, runner, Goroutine
  <2>6. Commits(sendingQueue, Len(sendingQueue))' = Commits(sendingQueue, Len(sendingQueue))
    BY <1>1, <1>6
  <2>7. Due(E)'
    BY <1>1, <2>1, <2>2, <2>3, <2>4, <2>5, <2>6 DEF Due
  <2>8. E \in SUBSET Counts(q)
    BY <1>6
  <2> QED
    BY <1>1, <2>7, <2>8 DEF CommitInv
<1> QED
  BY <1>7, <1>8, <1>9, <1>10, <1>11

-----------------------------------------------------------------------------
(* The steps of processACK *)

\* An ACK comes off the queue of a follower; when it makes the commit due, no
\* ACK of the proposal will do so again.
LEMMA AckStep ==
  ASSUME DispatchInv, NEW g \in Goroutine, processACK(g)
  PROVE  CarryInv' /\ RunnerInv' /\ AckInv' /\ CommitInv' /\ PrefixInv' /\ FollowInv'
<1>1. PICK f \in Follower, k \in 1..countNum :
           /\ follower[f].acks # << >> /\ k = Head(follower[f].acks)
           /\ follower[f].acks \in Seq(Nat)
           /\ follower' = [follower EXCEPT ![f].acks = Tail(@)]
           /\ \/ /\ ackTracker[k] + 1 > n_systems \div 2
                 /\ ackTracker' = [ackTracker EXCEPT ![k] = 0]
                 /\ goroutine' = [goroutine EXCEPT ![g] = [pc |-> "dequeue"]]
              \/ /\ ~(ackTracker[k] + 1 > n_systems \div 2)
                 /\ ackTracker' = [ackTracker EXCEPT ![k] = ackTracker[k] + 1]
                 /\ UNCHANGED goroutine
  BY AckFacts DEF DispatchInv
<1>2. /\ goroutine[g].pc = "idle" /\ g = ackRunner
      /\ UNCHANGED <<countNum, proposalsQueue, sendingQueue>>
  BY DEF processACK, ackRunner
<1>3. \A h \in Goroutine \ {g} : goroutine'[h] = goroutine[h]
  <2>1. goroutine \in [Goroutine -> Place]
    BY DEF DispatchInv, TypeOK
  <2>2. goroutine' = [goroutine EXCEPT ![g] = [pc |-> "dequeue"]] \/ goroutine' = goroutine
    BY <1>1
  <2> HIDE <1>1
  <2> QED
    BY <2>1, <2>2
<1>4. goroutine'[g].pc \in {"idle", "dequeue"}
  <2>1. goroutine \in [Goroutine -> Place]
    BY DEF DispatchInv, TypeOK
  <2> QED
    BY <1>1, <1>2, <2>1
<1>5. CarryInv'
  BY <1>2, <1>3, <1>4, FrameCarry DEF DispatchInv
<1>6. RunnerInv'
  BY <1>2, <1>3, <1>4 DEF DispatchInv, RunnerInv, pc, ackRunner, runner
<1>7. /\ \A h \in Follower \ {f} : follower'[h] = follower[h]
      /\ follower'[f].rcvd = follower[f].rcvd
      /\ follower'[f].proposalsQueue = follower[f].proposalsQueue
      /\ follower'[f].acks = Tail(follower[f].acks)
  <2>1. follower' = [follower EXCEPT ![f].acks = Tail(follower[f].acks)]
    BY <1>1
  <2>2. follower \in [Follower -> [rcvd : Nat, acks : Seq(Nat), proposalsQueue : Seq(Proposal),
                                 committed : Seq(Request)]]
    BY DEF DispatchInv, TypeOK
  <2> HIDE <1>1
  <2> QED
    BY <2>1, <2>2
<1>8. /\ Len(follower[f].acks) \in Nat /\ Len(follower[f].acks) >= 1 /\ k = follower[f].acks[1]
      /\ Len(Tail(follower[f].acks)) = Len(follower[f].acks) - 1
      /\ \A i \in 1..(Len(follower[f].acks) - 1) : Tail(follower[f].acks)[i] = follower[f].acks[i + 1]
  BY <1>1, HeadFacts
<1>9. AckInv'
  <2>1. ASSUME NEW h \in Follower
        PROVE  /\ follower'[h].rcvd <= Len(sendingQueue)
               /\ \A i, j \in 1..Len(follower'[h].acks) : follower'[h].acks[i] = follower'[h].acks[j] => i = j
               /\ \A i \in 1..Len(follower'[h].acks) :
                    \E j \in StateChanges(sendingQueue, follower'[h].rcvd) :
                      sendingQueue[j].CountNum = follower'[h].acks[i]
    <3>1. CASE h # f
      BY SMTT(60), <1>7, <3>1 DEF DispatchInv, AckInv
    <3>2. CASE h = f
      <4>1. \A i \in 1..Len(follower'[f].acks) :
              i + 1 \in 1..Len(follower[f].acks) /\ follower'[f].acks[i] = follower[f].acks[i + 1]
        BY <1>7, <1>8
      <4>2. \A i, j \in 1..Len(follower'[f].acks) : follower'[f].acks[i] = follower'[f].acks[j] => i = j
        BY <1>7, <1>8, <4>1 DEF DispatchInv, AckInv
      <4>3. /\ follower[f].rcvd <= Len(sendingQueue)
            /\ \A i \in 1..Len(follower[f].acks) :
                 \E j \in StateChanges(sendingQueue, follower[f].rcvd) :
                   sendingQueue[j].CountNum = follower[f].acks[i]
        BY DEF DispatchInv, AckInv
      <4>4. \A i \in 1..Len(follower'[f].acks) :
              \E j \in StateChanges(sendingQueue, follower[f].rcvd) :
                sendingQueue[j].CountNum = follower'[f].acks[i]
        BY <4>1, <4>3
      <4> QED
        BY <1>7, <3>2, <4>2, <4>3, <4>4
    <3> QED
      BY <3>1, <3>2
  <2> QED
    BY <1>2, <2>1 DEF AckInv
<1>10. PrefixInv'
  BY <1>2 DEF DispatchInv, PrefixInv
<1>11. FollowInv'
  <2>1. \A h \in Follower : /\ follower'[h].rcvd = follower[h].rcvd
                           /\ follower'[h].proposalsQueue = follower[h].proposalsQueue
    BY <1>7
  <2> QED
    BY <1>2, <2>1 DEF DispatchInv, FollowInv
<1>12. PICK E \in SUBSET Counts(sendingQueue) : Due(E)
  BY DEF DispatchInv, CommitInv
<1>13. /\ MayAck(k)' = MayAck(k) \ {f} /\ f \in MayAck(k)
       /\ \A c : c # k => MayAck(c)' = MayAck(c)
  <2> DEFINE A == follower[f].acks
             B == follower'[f].acks
  <2>1. \A c : c # k => ((\E i \in 1..Len(B) : B[i] = c) <=> (\E i \in 1..Len(A) : A[i] = c))
    <3>1. \A i \in 1..Len(B) : i + 1 \in 1..Len(A) /\ B[i] = A[i + 1]
      BY <1>7, <1>8
    <3>2. \A i \in 1..Len(A) : i = 1 \/ (i - 1 \in 1..Len(B) /\ B[i - 1] = A[i])
      BY <1>7, <1>8
    <3>3. A[1] = k
      BY <1>8
    <3> HIDE DEF A, B
    <3>4. ASSUME NEW c, c # k, NEW i \in 1..Len(B), B[i] = c PROVE \E j \in 1..Len(A) : A[j] = c
      BY <3>1, <3>4
    <3>5. ASSUME NEW c, c # k, NEW i \in 1..Len(A), A[i] = c PROVE \E j \in 1..Len(B) : B[j] = c
      <4>1. i - 1 \in 1..Len(B) /\ B[i - 1] = c
        BY <3>2, <3>3, <3>5
      <4> QED
        BY <4>1
    <3> QED
      BY <3>4, <3>5
  <2>2. ~ \E i \in 1..Len(B) : B[i] = k
    <3>1. \A i \in 1..Len(B) : i + 1 \in 1..Len(A) /\ B[i] = A[i + 1] /\ i + 1 # 1
      BY <1>7, <1>8
    <3>2. 1 \in 1..Len(A) /\ A[1] = k
      BY <1>8
    <3>3. \A i, j \in 1..Len(A) : A[i] = A[j] => i = j
      BY DEF DispatchInv, AckInv
    <3> QED
      BY <3>1, <3>2, <3>3
  <2>3. \E j \in StateChanges(sendingQueue, follower[f].rcvd) : sendingQueue[j].CountNum = k
    BY <1>8 DEF DispatchInv, AckInv
  <2>4. \E i \in 1..Len(A) : A[i] = k
    BY <1>8
  <2>5. mayAck(follower[f], sendingQueue, k) /\ ~mayAck(follower'[f], sendingQueue, k)
    BY <1>7, <2>2, <2>3, <2>4 DEF mayAck
  <2>6. \A c : c # k => (mayAck(follower'[f], sendingQueue, c) <=> mayAck(follower[f], sendingQueue, c))
    BY <1>7, <2>1 DEF mayAck
  <2> HIDE DEF A, B
  <2>7. \A c : MayAck(c)' = {h \in Follower : mayAck(follower'[h], sendingQueue, c)}
    BY <1>2 DEF MayAck, mayAck
  <2> QED
    BY <1>7, <2>5, <2>6, <2>7 DEF MayAck
<1>14. /\ n_systems \in Nat /\ n_systems' = n_systems /\ n_systems \div 2 \in Nat
       /\ n_systems <= 2 * (n_systems \div 2) + 1
       /\ ackTracker[k] \in Nat
  <2>1. Cardinality(Follower) \in Nat
    BY DispatchAssumption, FS_CardinalityType
  <2>2. ackTracker[k] \in Nat
    BY ElementOfSeq DEF DispatchInv, TypeOK
  <2> QED
    BY <2>1, <2>2 DEF n_systems
<1>15. /\ Cardinality(MayAck(k)) \in Nat /\ Cardinality(MayAck(k)') = Cardinality(MayAck(k)) - 1
       /\ Cardinality(MayAck(k)) >= 1
  <2>1. IsFiniteSet(MayAck(k))
    BY DispatchAssumption, FS_Subset DEF MayAck
  <2>2. Cardinality(MayAck(k)) \in Nat /\ Cardinality(MayAck(k)) # 0
    BY <1>13, <2>1, FS_CardinalityType, FS_EmptySet
  <2>3. Cardinality(MayAck(k) \ {f}) = Cardinality(MayAck(k)) - 1
    BY <1>13, <2>1, FS_RemoveElement
  <2>4. Cardinality(MayAck(k)') = Cardinality(MayAck(k)) - 1
    BY <1>13, <2>3
  <2>5. \A m \in Nat : m # 0 => m >= 1
    OBVIOUS
  <2> QED
    BY <2>2, <2>4, <2>5
<1>16. ackTracker[k] + Cardinality(MayAck(k)) + (IF k \in E THEN 1 + n_systems \div 2 ELSE 0) <= n_systems
  BY <1>12 DEF Due, Tally
<1>17. Enqueued' = Enqueued
  BY <1>2, <1>3, <1>4, EnqueuedFrame
<1>18. ASSUME NEW c \in 1..countNum, c # k
       PROVE  ackTracker'[c] = ackTracker[c] /\ MayAck(c)' = MayAck(c)
  <2>1. ackTracker \in Seq(Nat) /\ Len(ackTracker) = countNum
    BY DEF DispatchInv, TypeOK
  <2>2. \E v : ackTracker' = [ackTracker EXCEPT ![k] = v]
    BY <1>1
  <2>3. ackTracker'[c] = ackTracker[c]
    BY <1>18, <2>1, <2>2
  <2> QED
    BY <1>13, <1>18, <2>3
<1>19. CASE ~(ackTracker[k] + 1 > n_systems \div 2)
  <2>1. ackTracker'[k] = ackTracker[k] + 1 /\ UNCHANGED goroutine
    BY SMTT(60), <1>1, <1>19, ReplaceFacts DEF DispatchInv, TypeOK
  <2>2. ASSUME NEW c \in 1..countNum PROVE Tally(c, c \in E)'
    <3>1. CASE c # k
      BY <1>12, <1>14, <1>18, <3>1 DEF Due, Tally
    <3>2. CASE c = k
      <4>1. ackTracker'[k] + Cardinality(MayAck(k)')
              + (IF k \in E THEN 1 + n_systems \div 2 ELSE 0) <= n_systems
        BY <1>14, <1>15, <1>16, <2>1
      <4> QED
        BY <1>14, <3>2, <4>1 DEF Tally
    <3> QED
      BY <3>1, <3>2
  <2>3. Due(E)'
    BY <1>2, <1>12, <1>17, <2>1, <2>2 DEF Due, pc, ackRunner, runner
  <2>4. CommitInv'
    BY <1>2, <1>12, <2>3 DEF CommitInv
  <2> QED
    BY <1>5, <1>6, <1>9, <1>10, <1>11, <2>4
<1>20. CASE ackTracker[k] + 1 > n_systems \div 2
  <2>1. ackTracker'[k] = 0 /\ goroutine'[g].pc = "dequeue"
    <3>1. ~(~(ackTracker[k] + 1 > n_systems \div 2))
      BY <1>20
    <3>2. ackTracker' = [ackTracker EXCEPT ![k] = 0] /\ goroutine' = [goroutine EXCEPT ![g] = [pc |-> "dequeue"]]
      BY <1>1, <3>1
    <3>3. ackTracker \in Seq(Nat) /\ Len(ackTracker) = countNum /\ goroutine \in [Goroutine -> Place]
      BY DEF DispatchInv, TypeOK
    <3> QED
      BY <3>2, <3>3
  <2> DEFINE F == E \cup {k}
  <2>2. k \notin E
    BY <1>14, <1>15, <1>16, <1>20
  <2>3. k \in Counts(sendingQueue)
    <3>1. PICK j \in StateChanges(sendingQueue, follower[f].rcvd) : sendingQueue[j].CountNum = k
      BY <1>8 DEF DispatchInv, AckInv
    <3>2. follower[f].rcvd \in Nat /\ follower[f].rcvd <= Len(sendingQueue) /\ Len(sendingQueue) \in Nat
      BY LenProperties DEF DispatchInv, AckInv, TypeOK
    <3>3. j \in StateChanges(sendingQueue, Len(sendingQueue))
      BY <3>1, <3>2 DEF StateChanges
    <3> QED
      BY <3>1, <3>3 DEF Counts
  <2>4. F \in SUBSET Counts(sendingQueue)
    BY <1>12, <2>3
  <2>5. Cardinality(F) = Cardinality(E) + 1 /\ Cardinality(E) \in Nat
    <3>1. Len(sendingQueue) \in Nat
      BY LenProperties DEF DispatchInv, TypeOK
    <3> QED
      BY <1>12, <2>2, <3>1, CountsFacts, FS_AddElement
  <2>6. ASSUME NEW c \in 1..countNum PROVE Tally(c, c \in F)'
    <3>1. CASE c # k
      BY <1>12, <1>14, <1>18, <3>1 DEF Due, Tally
    <3>2. CASE c = k
      <4>1. ackTracker'[k] + Cardinality(MayAck(k)') + (1 + n_systems \div 2) <= n_systems
        BY <1>14, <1>15, <1>16, <1>20, <2>1, <2>2
      <4> QED
        BY <1>14, <3>2, <4>1 DEF Tally
    <3> QED
      BY <3>1, <3>2
  <2>7. goroutine[ackRunner].pc = "idle" /\ goroutine'[ackRunner].pc = "dequeue"
    BY <1>2, <2>1
  <2>8. /\ Len(proposalsQueue) + Cardinality(E) = Cardinality(Enqueued)
        /\ Cardinality(Commits(sendingQueue, Len(sendingQueue))) = Cardinality(E)
    <3>1. Cardinality(Commits(sendingQueue, Len(sendingQueue))) \in Nat /\ Cardinality(Enqueued) \in Nat
      BY PlacesFacts, LenProperties, EnqueuedFacts DEF DispatchInv, TypeOK
    <3>2. /\ Len(proposalsQueue) + Cardinality(E) = Cardinality(Enqueued) + 0
          /\ Cardinality(Commits(sendingQueue, Len(sendingQueue))) + 0 = Cardinality(E)
      BY <1>12, <2>7 DEF Due, pc
    <3> QED
      BY <3>1, <3>2
  <2>9. Len(proposalsQueue) \in Nat
    BY LenProperties DEF DispatchInv, TypeOK
  <2> HIDE DEF F
  <2>10. /\ Len(proposalsQueue) + Cardinality(F) = Cardinality(Enqueued) + 1
         /\ Cardinality(Commits(sendingQueue, Len(sendingQueue))) + 1 = Cardinality(F)
    BY <2>5, <2>8, <2>9
  <2>11. ackRunner' = ackRunner
    BY DEF ackRunner, runner
  <2>12. Due(F)'
    BY <1>2, <1>17, <2>6, <2>7, <2>10, <2>11 DEF Due, pc
  <2>13. CommitInv'
    BY <1>2, <2>4, <2>12 DEF CommitInv
  <2> QED
    BY <1>5, <1>6, <1>9, <1>10, <1>11, <2>13
<1> QED
  BY <1>19, <1>20

\* When a commit is due, there is an entry for it: its proposal was enqueued
\* before it was broadcast.
LEMMA QueueNotEmpty ==
  ASSUME DispatchInv, NEW g \in Goroutine, goroutine[g].pc = "dequeue"
  PROVE  proposalsQueue # << >>
<1>1. PICK E \in SUBSET Counts(sendingQueue) : Due(E)
  BY DEF DispatchInv, CommitInv
<1>2. goroutine[ackRunner].pc = "dequeue"
  BY DEF DispatchInv, RunnerInv, pc
<1>3. E \in SUBSET Enqueued
  <2>1. E \subseteq 1..countNum
    BY DEF DispatchInv, CarryInv
  <2>2. \A h \in Goroutine : goroutine[h].pc = "enqueue" => count(h) \notin E
    BY DEF DispatchInv, CarryInv, Carrying, pc
  <2> QED
    BY <2>1, <2>2 DEF Enqueued, pc
<1>4. IsFiniteSet(Enqueued) /\ Cardinality(Enqueued) \in Nat
  BY EnqueuedFacts DEF DispatchInv
<1>5. Cardinality(E) <= Cardinality(Enqueued) /\ Cardinality(E) \in Nat
  BY <1>3, <1>4, FS_Subset, FS_CardinalityType
<1>6. Len(proposalsQueue) + Cardinality(E) = Cardinality(Enqueued) + 1
  BY <1>1, <1>2 DEF Due, pc
<1>7. Len(proposalsQueue) \in Nat
  BY LenProperties DEF DispatchInv, TypeOK
<1>8. Len(proposalsQueue) # 0
  BY <1>4, <1>5, <1>6, <1>7
<1> QED
  BY <1>8

\* processCommitProposal and queueCommitProposal: the entry leaves the queue,
\* its Commit is still to be broadcast.
LEMMA DequeueStep ==
  ASSUME DispatchInv, NEW g \in Goroutine, processCommitProposal(g) \/ queueCommitProposal(g)
  PROVE  CarryInv' /\ RunnerInv' /\ AckInv' /\ CommitInv' /\ PrefixInv' /\ FollowInv' /\ NoFatal'
<1>1. /\ UNCHANGED <<countNum, ackTracker, sendingQueue, follower, fatal>>
      /\ goroutine[g].pc \in {"dequeue", "commit"}
  BY QueueNotEmpty DEF processCommitProposal, queueCommitProposal
<1>2. goroutine[g].pc = "dequeue" =>
        /\ proposalsQueue' = Tail(proposalsQueue)
        /\ goroutine'[g].pc = "commit"
  <2> SUFFICES ASSUME goroutine[g].pc = "dequeue"
               PROVE  proposalsQueue' = Tail(proposalsQueue) /\ goroutine'[g].pc = "commit"
    OBVIOUS
  <2>1. proposalsQueue # << >> /\ goroutine \in [Goroutine -> Place]
    BY QueueNotEmpty DEF DispatchInv, TypeOK
  <2> QED
    BY <2>1 DEF processCommitProposal, queueCommitProposal
<1>3. goroutine[g].pc = "commit" =>
        proposalsQueue' = proposalsQueue /\ goroutine'[g].pc = "broadcastCommit"
  BY DEF processCommitProposal, queueCommitProposal, DispatchInv, TypeOK
<1>4. \A h \in Goroutine \ {g} : goroutine'[h] = goroutine[h]
  <2>1. goroutine \in [Goroutine -> Place]
    BY DEF DispatchInv, TypeOK
  <2>2. \E v : goroutine' = [goroutine EXCEPT ![g] = v]
    BY QueueNotEmpty DEF processCommitProposal, queueCommitProposal
  <2> QED
    BY <2>1, <2>2
<1>5. g = ackRunner
  BY <1>1 DEF DispatchInv, RunnerInv, pc
<1>6. CarryInv'
  BY <1>1, <1>2, <1>3, <1>4, FrameCarry DEF DispatchInv
<1>7. RunnerInv'
  BY <1>1, <1>4, FrameRunner DEF DispatchInv
<1>8. AckInv' /\ PrefixInv' /\ FollowInv'
  BY <1>1, FrameFollower DEF DispatchInv
<1>9. CommitInv'
  <2>1. PICK E \in SUBSET Counts(sendingQueue) : Due(E)
    BY DEF DispatchInv, CommitInv
  <2>2. Enqueued' = Enqueued
    BY <1>1, <1>2, <1>3, <1>4, EnqueuedFrame
  <2>3. \A k \in 1..countNum' : Tally(k, k \in E)'
    BY <1>1, <2>1, FrameTally DEF Due, MayAck, mayAck
  <2>4. ackRunner' = ackRunner
    BY DEF ackRunner, runner
  <2>5. Len(proposalsQueue') + Cardinality(E)
          = Cardinality(Enqueued) + (IF goroutine'[ackRunner].pc = "dequeue" THEN 1 ELSE 0)
    <3>1. CASE goroutine[g].pc = "dequeue"
      <4>1. proposalsQueue # << >> /\ Len(Tail(proposalsQueue)) = Len(proposalsQueue) - 1
            /\ Len(proposalsQueue) \in Nat
        BY <3>1, QueueNotEmpty, HeadFacts DEF DispatchInv, TypeOK
      <4>2. Len(proposalsQueue) + Cardinality(E) = Cardinality(Enqueued) + 1
        BY <1>5, <2>1, <3>1 DEF Due, pc
      <4>3. Cardinality(E) \in Nat /\ Cardinality(Enqueued) \in Nat
        BY <2>1, CountsFacts, EnqueuedFacts, LenProperties DEF DispatchInv, TypeOK
      <4>4. Len(proposalsQueue') + Cardinality(E) = Cardinality(Enqueued) + 0
        BY SMTT(60), <1>2, <3>1, <4>1, <4>2, <4>3
      <4> QED
        BY <1>2, <1>5, <3>1, <4>4
    <3>2. CASE goroutine[g].pc = "commit"
      BY <1>3, <1>5, <2>1, <3>2 DEF Due, pc
    <3> QED
      BY <1>1, <3>1, <3>2
  <2>6. goroutine'[ackRunner].pc \in {"dequeue", "commit", "broadcastCommit"}
        /\ goroutine[ackRunner].pc \in {"dequeue", "commit", "broadcastCommit"}
    BY <1>1, <1>2, <1>3, <1>5
  <2>7. Due(E)'
    BY <1>1, <2>1, <2>2, <2>3, <2>4, <2>5, <2>6 DEF Due, pc
  <2> QED
    BY <1>1, <2>1, <2>7 DEF CommitInv
<1>10. NoFatal'
  BY <1>1 DEF DispatchInv, NoFatal
<1> QED
  BY <1>6, <1>7, <1>8, <1>9, <1>10

\* broadcastCommit: one Commit more, for a proposal that is in the broadcast before it.
LEMMA CommitStep ==
  ASSUME DispatchInv, NEW g \in Goroutine, broadcastCommit(g)
  PROVE  CarryInv' /\ RunnerInv' /\ AckInv' /\ CommitInv' /\ PrefixInv' /\ FollowInv'
<1> DEFINE n == Len(sendingQueue)
           q == Append(sendingQueue, CommitMsg)
           C == Counts(sendingQueue)
           S == StateChanges(sendingQueue, n)
<1>1. /\ goroutine[g].pc = "broadcastCommit"
      /\ goroutine' = [goroutine EXCEPT ![g] = Idle]
      /\ sendingQueue' = q
      /\ UNCHANGED <<countNum, ackTracker, proposalsQueue, follower>>
  BY DEF broadcastCommit
<1>2. /\ goroutine'[g].pc = "idle"
      /\ \A h \in Goroutine \ {g} : goroutine'[h] = goroutine[h]
  BY <1>1 DEF DispatchInv, TypeOK, Idle
<1>3. g = ackRunner
  BY <1>1 DEF DispatchInv, RunnerInv, pc
<1>4. OneMore(sendingQueue, q, CommitMsg)
  BY AppendMessage DEF DispatchInv, TypeOK
<1>5. CommitMsg.PropType # "StateChange"
  BY DEF CommitMsg
<1> HIDE DEF q
<1>6. /\ n \in Nat /\ Len(q) = n + 1 /\ \A i \in 1..n : q[i] = sendingQueue[i]
      /\ \A i \in 0..n : /\ StateChanges(q, i) = StateChanges(sendingQueue, i)
                         /\ Commits(q, i) = Commits(sendingQueue, i)
      /\ Counts(q) = C
      /\ StateChanges(q, n + 1) = S
      /\ Cardinality(Commits(q, n + 1)) = Cardinality(Commits(sendingQueue, n)) + 1
  BY <1>4, <1>5 DEF OneMore
<1>7. CarryInv'
  <2>1. Carrying' = Carrying /\ \A h \in Carrying : h \in Goroutine \ {g}
    BY <1>1, <1>2 DEF Carrying, pc
  <2>2. \A h \in Carrying : count(h)' = count(h)
    BY <1>2, <2>1 DEF count
  <2>3. \A i \in S : q[i] = sendingQueue[i]
    BY <1>6 DEF StateChanges
  <2>4. /\ \A h \in Carrying' : count(h)' \in (1..countNum) \ Counts(q)
        /\ \A h, i \in Carrying' : count(h)' = count(i)' => h = i
    BY <1>6, <2>1, <2>2 DEF DispatchInv, CarryInv
  <2>5. Counts(q) \subseteq 1..countNum
    BY <1>6 DEF DispatchInv, CarryInv
  <2>6. \A i, j \in StateChanges(q, n + 1) : q[i].CountNum = q[j].CountNum => i = j
    BY <1>6, <2>3 DEF DispatchInv, CarryInv
  <2> QED
    BY <1>1, <1>6, <2>4, <2>5, <2>6 DEF CarryInv
<1>8. RunnerInv'
  BY <1>2, FrameRunner DEF DispatchInv
<1>9. AckInv' /\ FollowInv' /\ \A k : MayAck(k)' = MayAck(k)
  <2>1. CommitMsg \in Proposal \cup {CommitMsg} /\ sendingQueue' = Append(sendingQueue, CommitMsg)
    BY <1>1 DEF q
  <2> QED
    BY <1>1, <2>1, FollowerBehind DEF DispatchInv
<1>10. PICK E \in SUBSET C : Due(E)
  BY DEF DispatchInv, CommitInv
<1>11. Cardinality(Commits(sendingQueue, n)) + 1 = Cardinality(E)
  BY <1>1, <1>3, <1>10 DEF Due, pc
<1>12. Cardinality(E) \in Nat /\ Cardinality(E) <= Cardinality(S) /\ Cardinality(S) \in Nat
       /\ Cardinality(Commits(sendingQueue, n)) \in Nat
  BY <1>6, <1>10, CountsFacts, PlacesFacts
<1>13. PrefixInv'
  <2>1. ASSUME NEW i \in 0..(n + 1)
        PROVE  Cardinality(Commits(q, i)) <= Cardinality(StateChanges(q, i))
    <3>1. CASE i \in 0..n
      BY <1>6, <3>1 DEF DispatchInv, PrefixInv
    <3>2. CASE i = n + 1
      BY <1>6, <1>11, <1>12, <3>2
    <3> QED
      BY <1>6, <3>1, <3>2
  <2> QED
    BY <1>1, <1>6, <2>1 DEF PrefixInv
<1>14. CommitInv'
  <2>1. Enqueued' = Enqueued
    BY <1>1, <1>2, EnqueuedFrame
  <2>2. \A k \in 1..countNum' : Tally(k, k \in E)'
    BY <1>1, <1>9, <1>10, FrameTally DEF Due
  <2>3. ackRunner' = ackRunner
    BY DEF ackRunner, runner
  <2>4. goroutine[ackRunner].pc = "broadcastCommit" /\ goroutine'[ackRunner].pc = "idle"
    BY <1>1, <1>2, <1>3
  <2>5. Len(proposalsQueue') + Cardinality(E) = Cardinality(Enqueued') + 0
    BY <1>1, <1>10, <2>1, <2>4 DEF Due, pc
  <2>6. Commits(sendingQueue, Len(sendingQueue))' = Commits(q, n + 1)
    BY <1>1, <1>6
  <2>7. Cardinality(Commits(q, n + 1)) + 0 = Cardinality(E)
    BY <1>6, <1>11, <1>12
  <2>8. Due(E)'
    BY <2>2, <2>3, <2>4, <2>5, <2>6, <2>7 DEF Due, pc
  <2>9. E \in SUBSET Counts(q)
    BY <1>6
  <2> QED
    BY <1>1, <2>8, <2>9 DEF CommitInv
<1> QED
  BY <1>7, <1>8, <1>9, <1>13, <1>14

-----------------------------------------------------------------------------
(* The steps of a follower *)

\* m2, the follower m after one more message of q: one ACK at most for each
\* proposal received, and it may still acknowledge the same ones.
SameAcks(m, m2, q) ==
  /\ \A i, j \in 1..Len(m2.acks) : m2.acks[i] = m2.acks[j] => i = j
  /\ \A i \in 1..Len(m2.acks) : \E j \in StateChanges(q, m2.rcvd) : q[j].CountNum = m2.acks[i]
  /\ \A k : mayAck(m2, q, k) <=> mayAck(m, q, k)

\* A proposal: its ACK is under way now, and no other ACK of this follower is
\* for the same proposal.
LEMMA ProposalReceived ==
  ASSUME DispatchInv, NEW f \in Follower, NEW n, NEW m2,
         n = follower[f].rcvd, n + 1 \in 1..Len(sendingQueue),
         sendingQueue[n + 1].PropType = "StateChange",
         m2.rcvd = n + 1, m2.acks = Append(follower[f].acks, sendingQueue[n + 1].CountNum)
  PROVE  SameAcks(follower[f], m2, sendingQueue)
<1>1. n \in Nat /\ Len(sendingQueue) \in Nat /\ follower[f].acks \in Seq(Nat) /\ n < Len(sendingQueue)
  <2>1. /\ follower \in [Follower -> [rcvd : Nat, acks : Seq(Nat), proposalsQueue : Seq(Proposal),
                                     committed : Seq(Request)]]
        /\ sendingQueue \in Seq(Proposal \cup {CommitMsg})
    BY DEF DispatchInv, TypeOK
  <2>2. n \in Nat /\ follower[f].acks \in Seq(Nat)
    BY <2>1
  <2>3. Len(sendingQueue) \in Nat
    BY <2>1, LenProperties
  <2> QED
    BY <2>2, <2>3
<1>2. StateChanges(sendingQueue, n + 1) = StateChanges(sendingQueue, n) \cup {n + 1}
  BY ZenonT(60), <1>1, PlacesNext
<1> DEFINE A == follower[f].acks
           B == m2.acks
           c == sendingQueue[n + 1].CountNum
           P == StateChanges(sendingQueue, n)
           Q == StateChanges(sendingQueue, n + 1)
<1>3. Q = P \cup {n + 1}
  BY <1>2
<1>4. \A j \in P : sendingQueue[j].CountNum # c
  <2>1. P \subseteq StateChanges(sendingQueue, Len(sendingQueue))
    BY <1>1 DEF StateChanges
  <2>2. n + 1 \in StateChanges(sendingQueue, Len(sendingQueue))
    BY <1>1 DEF StateChanges
  <2>3. \A j \in P : j # n + 1
    BY <1>1 DEF StateChanges
  <2> HIDE DEF P
  <2> QED
    BY <2>1, <2>2, <2>3 DEF DispatchInv, CarryInv
<1>5. /\ \A i, j \in 1..Len(A) : A[i] = A[j] => i = j
      /\ \A i \in 1..Len(A) : \E j \in P : sendingQueue[j].CountNum = A[i]
  BY DEF DispatchInv, AckInv
<1>6. \A i \in 1..Len(A) : A[i] # c
  BY <1>4, <1>5
<1>7. c \in Nat
  <2>1. sendingQueue[n + 1] \in Proposal \cup {CommitMsg}
    BY ElementOfSeq DEF DispatchInv, TypeOK
  <2> QED
    BY <2>1 DEF Proposal, CommitMsg
<1>8. /\ Len(A) \in Nat /\ Len(B) = Len(A) + 1
      /\ \A i \in 1..Len(A) : B[i] = A[i]
      /\ B[Len(A) + 1] = c
  BY SMTT(60), <1>1, <1>7, AppendFacts
<1>9. \A k : mayAck(follower[f], sendingQueue, k)
               <=> ((\E i \in 1..Len(A) : A[i] = k) \/ (\A j \in P : sendingQueue[j].CountNum # k))
  BY DEF mayAck
<1>10. \A k : mayAck(m2, sendingQueue, k)
               <=> ((\E i \in 1..Len(B) : B[i] = k) \/ (\A j \in Q : sendingQueue[j].CountNum # k))
  BY DEF mayAck
<1> HIDE DEF A, B, P, Q
<1>11. /\ \A i \in 1..Len(B) : i \in 1..Len(A) \/ i = Len(A) + 1
       /\ \A i \in 1..Len(A) : i \in 1..Len(B)
       /\ Len(A) + 1 \in 1..Len(B)
  BY <1>8
<1> HIDE DEF c
<1>12. sendingQueue[n + 1].CountNum = c
  BY DEF c
<1>13. \A i, j \in 1..Len(B) : B[i] = B[j] => i = j
  BY SMTT(60), <1>5, <1>6, <1>8, <1>11
<1>14. \A i \in 1..Len(B) : \E j \in Q : sendingQueue[j].CountNum = B[i]
  BY SMTT(60), <1>3, <1>5, <1>8, <1>11, <1>12
<1>15. ASSUME NEW k
       PROVE  mayAck(m2, sendingQueue, k) <=> mayAck(follower[f], sendingQueue, k)
  <2>1. (\E i \in 1..Len(B) : B[i] = k) <=> (k = c \/ \E i \in 1..Len(A) : A[i] = k)
    BY <1>8, <1>11
  <2>2. (\A j \in Q : sendingQueue[j].CountNum # k)
          <=> (k # c /\ \A j \in P : sendingQueue[j].CountNum # k)
    BY <1>3, <1>12
  <2>3. k = c => \A j \in P : sendingQueue[j].CountNum # k
    BY <1>4
  <2> QED
    BY <1>9, <1>10, <2>1, <2>2, <2>3
<1> QED
  BY <1>13, <1>14, <1>15 DEF SameAcks, B, Q

\* A Commit: the follower has an entry for it, because nowhere in the
\* broadcast is a Commit without a proposal.
LEMMA CommitReceived ==
  ASSUME DispatchInv, NEW f \in Follower, NEW n,
         n = follower[f].rcvd, n + 1 \in 1..Len(sendingQueue),
         sendingQueue[n + 1].PropType # "StateChange"
  PROVE  follower[f].proposalsQueue # << >>
<1>1. n \in Nat /\ n + 1 \in 0..Len(sendingQueue) /\ Len(sendingQueue) \in Nat
  BY LenProperties DEF DispatchInv, TypeOK
<1>2. /\ Cardinality(Commits(sendingQueue, n + 1)) = Cardinality(Commits(sendingQueue, n)) + 1
      /\ StateChanges(sendingQueue, n + 1) = StateChanges(sendingQueue, n)
  BY <1>1, PlacesNext
<1>3. Cardinality(Commits(sendingQueue, n + 1)) <= Cardinality(StateChanges(sendingQueue, n + 1))
  BY <1>1 DEF DispatchInv, PrefixInv
<1>4. Len(follower[f].proposalsQueue) + Cardinality(Commits(sendingQueue, n))
        = Cardinality(StateChanges(sendingQueue, n))
  BY DEF DispatchInv, FollowInv
<1>5. Cardinality(Commits(sendingQueue, n)) \in Nat /\ Cardinality(StateChanges(sendingQueue, n)) \in Nat
  BY <1>1, PlacesFacts
<1>6. Len(follower[f].proposalsQueue) \in Nat
  BY LenProperties DEF DispatchInv, TypeOK
<1>7. Len(follower[f].proposalsQueue) # 0
  BY <1>2, <1>3, <1>4, <1>5, <1>6
<1> QED
  BY <1>7

\* followerProposal, for a proposal or a Commit; there is an entry for the Commit.
LEMMA FollowerStep ==
  ASSUME DispatchInv, NEW f \in Follower, followerProposal(f)
  PROVE  CarryInv' /\ RunnerInv' /\ AckInv' /\ CommitInv' /\ PrefixInv' /\ FollowInv' /\ NoFatal'
<1> DEFINE m == follower[f]
           n == follower[f].rcvd
           e == sendingQueue[follower[f].rcvd + 1]
<1>1. UNCHANGED <<sent, waiting, goroutine, countNum, ackTracker, proposalsQueue, log, committed,
                  sendingQueue>>
  BY DEF followerProposal
<1>2. CarryInv' /\ RunnerInv' /\ PrefixInv'
  <2>1. CarryInv' /\ RunnerInv'
    BY <1>1, FrameCarry, FrameRunner DEF DispatchInv
  <2> QED
    BY <1>1, <2>1 DEF DispatchInv, PrefixInv, StateChanges, Commits
<1>3. n \in Nat /\ n + 1 \in 1..Len(sendingQueue) /\ Len(sendingQueue) \in Nat
      /\ follower \in [Follower -> [rcvd : Nat, acks : Seq(Nat), proposalsQueue : Seq(Proposal),
                                    committed : Seq(Request)]]
      /\ ~fatal
  BY FollowerFacts, LenProperties DEF DispatchInv, TypeOK, NoFatal
<1>4. ASSUME NEW m2, follower' = [follower EXCEPT ![f] = m2],
             m2.rcvd = n + 1,
             SameAcks(m, m2, sendingQueue),
             Len(m2.proposalsQueue) + Cardinality(Commits(sendingQueue, n + 1))
               = Cardinality(StateChanges(sendingQueue, n + 1)),
             UNCHANGED fatal
      PROVE  AckInv' /\ CommitInv' /\ FollowInv' /\ NoFatal'
  <2>1. follower'[f] = m2 /\ \A h \in Follower \ {f} : follower'[h] = follower[h]
    BY <1>3, <1>4
  <2>2. n + 1 <= Len(sendingQueue)
    BY <1>3
  <2>3. AckInv'
    BY <1>1, <1>4, <2>1, <2>2 DEF DispatchInv, AckInv, SameAcks, StateChanges
  <2>4. FollowInv'
    <3>1. ASSUME NEW h \in Follower
          PROVE  Len(follower'[h].proposalsQueue) + Cardinality(Commits(sendingQueue, follower'[h].rcvd))
                   = Cardinality(StateChanges(sendingQueue, follower'[h].rcvd))
      <4>1. CASE h = f
        BY <1>4, <2>1, <4>1
      <4>2. CASE h # f
        BY <2>1, <4>2 DEF DispatchInv, FollowInv
      <4> QED
        BY <4>1, <4>2
    <3> QED
      BY <1>1, <3>1 DEF FollowInv, StateChanges, Commits
  <2>5. \A h \in Follower : \A k :
          mayAck(follower'[h], sendingQueue, k) <=> mayAck(follower[h], sendingQueue, k)
    BY <1>4, <2>1 DEF SameAcks
  <2>6. \A k : MayAck(k)' = MayAck(k)
    <3>1. \A k : MayAck(k)' = {h \in Follower : mayAck(follower'[h], sendingQueue, k)}
      BY <1>1 DEF MayAck, mayAck, StateChanges
    <3> QED
      BY <2>5, <3>1 DEF MayAck
  <2>7. PICK E \in SUBSET Counts(sendingQueue) : Due(E)
    BY DEF DispatchInv, CommitInv
  <2>8. \A k \in 1..countNum' : Tally(k, k \in E)'
    BY <1>1, <2>6, <2>7, FrameTally DEF Due
  <2>9. Enqueued' = Enqueued
    BY <1>1, EnqueuedFrame
  <2>10. Due(E)'
    BY <1>1, <2>7, <2>8, <2>9 DEF Due, pc, ackRunner, runner, Commits
  <2>11. CommitInv'
    BY <1>1, <2>7, <2>10 DEF CommitInv, Counts, StateChanges
  <2> QED
    BY <1>3, <1>4, <2>3, <2>4, <2>11 DEF NoFatal
<1>5. Len(m.proposalsQueue) + Cardinality(Commits(sendingQueue, n)) = Cardinality(StateChanges(sendingQueue, n))
      /\ Len(m.proposalsQueue) \in Nat
      /\ Cardinality(Commits(sendingQueue, n)) \in Nat /\ Cardinality(StateChanges(sendingQueue, n)) \in Nat
  BY <1>3, PlacesFacts, LenProperties DEF DispatchInv, TypeOK, FollowInv
<1>6. CASE /\ e \in Proposal
           /\ follower' = [follower EXCEPT ![f] =
                     [rcvd |-> m.rcvd + 1, acks |-> Append(m.acks, e.CountNum),
                      proposalsQueue |-> Append(m.proposalsQueue, e), committed |-> m.committed]]
           /\ UNCHANGED fatal
  <2> DEFINE m2 == [rcvd |-> m.rcvd + 1, acks |-> Append(m.acks, e.CountNum),
                    proposalsQueue |-> Append(m.proposalsQueue, e), committed |-> m.committed]
  <2>1. m2.rcvd = n + 1 /\ m2.acks = Append(m.acks, e.CountNum)
        /\ m2.proposalsQueue = Append(m.proposalsQueue, e)
        /\ follower' = [follower EXCEPT ![f] = m2] /\ UNCHANGED fatal
    BY <1>6
  <2>2. e.PropType = "StateChange"
    BY <1>6 DEF Proposal
  <2> HIDE DEF m2
  <2>3. SameAcks(m, m2, sendingQueue)
    BY <1>3, <2>1, <2>2, ProposalReceived
  <2>4. Len(m2.proposalsQueue) = Len(m.proposalsQueue) + 1
    BY <1>6, <2>1, AppendFacts, FollowerFacts DEF DispatchInv
  <2>5. /\ Commits(sendingQueue, n + 1) = Commits(sendingQueue, n)
        /\ Cardinality(StateChanges(sendingQueue, n + 1)) = Cardinality(StateChanges(sendingQueue, n)) + 1
    BY <1>3, <2>2, PlacesNext
  <2> HIDE DEF m, n, e
  <2>6. Len(m2.proposalsQueue) + Cardinality(Commits(sendingQueue, n + 1))
               = Cardinality(StateChanges(sendingQueue, n + 1))
    BY <1>5, <2>4, <2>5
  <2> QED
    BY <1>2, <1>4, <2>1, <2>3, <2>6
<1>7. ASSUME e = CommitMsg
      PROVE  m.proposalsQueue # << >> /\ e.PropType # "StateChange"
  <2>1. e.PropType # "StateChange"
    BY <1>7 DEF CommitMsg
  <2> QED
    BY <1>3, <2>1, CommitReceived
<1>8. CASE /\ e = CommitMsg /\ m.proposalsQueue # << >>
           /\ follower' = [follower EXCEPT ![f] =
                     [rcvd |-> m.rcvd + 1, acks |-> m.acks,
                      proposalsQueue |-> Tail(m.proposalsQueue),
                      committed |-> Append(m.committed, Head(m.proposalsQueue).Content)]]
           /\ UNCHANGED fatal
  <2> DEFINE m2 == [rcvd |-> m.rcvd + 1, acks |-> m.acks, proposalsQueue |-> Tail(m.proposalsQueue),
                    committed |-> Append(m.committed, Head(m.proposalsQueue).Content)]
  <2>1. m2.rcvd = n + 1 /\ m2.acks = m.acks /\ m2.proposalsQueue = Tail(m.proposalsQueue)
        /\ follower' = [follower EXCEPT ![f] = m2] /\ UNCHANGED fatal
    BY <1>8
  <2> HIDE DEF m2
  <2>2. /\ StateChanges(sendingQueue, n + 1) = StateChanges(sendingQueue, n)
        /\ Cardinality(Commits(sendingQueue, n + 1)) = Cardinality(Commits(sendingQueue, n)) + 1
    BY SMTT(60), <1>3, <1>7, <1>8, PlacesNext
  <2>3. SameAcks(m, m2, sendingQueue)
    BY <2>1, <2>2 DEF DispatchInv, AckInv, SameAcks, mayAck
  <2>4. Len(m2.proposalsQueue) = Len(m.proposalsQueue) - 1
    BY <1>8, <2>1, HeadFacts, FollowerFacts DEF DispatchInv
  <2> HIDE DEF m, n, e
  <2>5. Len(m2.proposalsQueue) + Cardinality(Commits(sendingQueue, n + 1))
               = Cardinality(StateChanges(sendingQueue, n + 1))
    BY SMTT(60), <1>5, <2>2, <2>4
  <2> QED
    BY <1>2, <1>4, <2>1, <2>3, <2>5
<1> QED
  BY <1>6, <1>7, <1>8, FollowerFacts DEF DispatchInv

-----------------------------------------------------------------------------
(* The theorem *)

\* The invariant holds of the initial state: no commit is due.
LEMMA DispatchInit == Init => DispatchInv
<1> SUFFICES ASSUME Init PROVE DispatchInv
  OBVIOUS
<1>1. /\ \A g \in Goroutine : goroutine[g].pc = "idle"
      /\ countNum = 0 /\ proposalsQueue = << >> /\ sendingQueue = << >> /\ fatal = FALSE
      /\ \A f \in Follower : /\ follower[f].rcvd = 0 /\ follower[f].acks = << >>
                             /\ follower[f].proposalsQueue = << >>
  BY DEF Init, Idle
<1>2. Len(sendingQueue) = 0 /\ Len(proposalsQueue) = 0
  BY <1>1
<1>3. \A n \in 0..0 : StateChanges(sendingQueue, n) = {} /\ Commits(sendingQueue, n) = {}
  BY DEF StateChanges, Commits
<1>4. StateChanges(sendingQueue, 0) = {} /\ Commits(sendingQueue, 0) = {} /\ Counts(sendingQueue) = {}
  BY <1>2, <1>3 DEF Counts
<1>5. Cardinality({}) = 0
  BY FS_EmptySet
<1>6. ackRunner \in Goroutine
  BY DEF ackRunner, runner, Goroutine
<1>7. TypeOK
  BY TypeInit
<1>8. CarryInv
  BY <1>1, <1>2, <1>4 DEF CarryInv, Carrying, pc
<1>9. RunnerInv
  BY <1>1 DEF RunnerInv, pc
<1>10. AckInv
  BY <1>1, <1>2 DEF AckInv
<1>11. CommitInv
  <2>1. Enqueued = {}
    BY <1>1 DEF Enqueued
  <2>2. Due({})
    <3>1. \A k \in 1..countNum : Tally(k, k \in {})
      BY <1>1
    <3>2. goroutine[ackRunner].pc = "idle"
      BY <1>1, <1>6
    <3>3. Len(proposalsQueue) + Cardinality({}) = Cardinality(Enqueued) + 0
      BY <1>2, <1>5, <2>1
    <3>4. Cardinality(Commits(sendingQueue, Len(sendingQueue))) + 0 = Cardinality({})
      BY SMTT(60), <1>2, <1>4, <1>5
    <3> QED
      BY <3>1, <3>2, <3>3, <3>4 DEF Due, pc
  <2> QED
    BY <2>2 DEF CommitInv
<1>12. PrefixInv /\ FollowInv
  <2>1. PrefixInv
    BY <1>2, <1>3, <1>5 DEF PrefixInv
  <2>2. \A f \in Follower : follower[f].rcvd = 0 /\ Len(follower[f].proposalsQueue) = 0
    BY <1>1
  <2>3. 0 + Cardinality({}) = Cardinality({})
    BY <1>5
  <2>4. FollowInv
    BY <1>4, <2>2, <2>3 DEF FollowInv
  <2> QED
    BY <2>1, <2>4
<1> QED
  BY <1>1, <1>7, <1>8, <1>9, <1>10, <1>11, <1>12 DEF DispatchInv, NoFatal

\* A new request, or no step at all, touches none of it.
LEMMA WaitStep ==
  ASSUME DispatchInv,
         UNCHANGED <<goroutine, countNum, ackTracker, proposalsQueue, sendingQueue, follower, fatal>>
  PROVE  CarryInv' /\ RunnerInv' /\ AckInv' /\ CommitInv' /\ PrefixInv' /\ FollowInv' /\ NoFatal'
<1>1. CarryInv' /\ RunnerInv'
  BY FrameCarry, FrameRunner DEF DispatchInv
<1>2. AckInv' /\ PrefixInv' /\ FollowInv'
  BY FrameFollower DEF DispatchInv
<1>3. CommitInv'
  <2>1. PICK E \in SUBSET Counts(sendingQueue) : Due(E)
    BY DEF DispatchInv, CommitInv
  <2>2. \A k : MayAck(k)' = MayAck(k)
    BY DEF MayAck, mayAck
  <2>3. \A k \in 1..countNum' : Tally(k, k \in E)'
    BY <2>1, <2>2, FrameTally DEF Due
  <2>4. Enqueued' = Enqueued
    BY EnqueuedFrame
  <2>5. Due(E)'
    BY <2>1, <2>3, <2>4 DEF Due, pc, ackRunner, runner, Commits
  <2> QED
    BY <2>1, <2>5 DEF CommitInv, Counts, StateChanges
<1> QED
  BY <1>1, <1>2, <1>3 DEF DispatchInv, NoFatal

\* Every step keeps the invariant.
LEMMA DispatchStep == DispatchInv /\ [Next]_vars => DispatchInv'
<1> SUFFICES ASSUME DispatchInv, [Next]_vars PROVE DispatchInv'
  OBVIOUS
<1>1. TypeOK'
  BY TypeStep DEF DispatchInv
<1> DEFINE Rest == CarryInv /\ RunnerInv /\ AckInv /\ CommitInv /\ PrefixInv /\ FollowInv /\ NoFatal
<1>2. ASSUME NEW r \in Request, SendWriteRequest(r) PROVE Rest'
  BY <1>2, WaitStep DEF SendWriteRequest
<1>3. ASSUME NEW g \in Goroutine, handler(g) PROVE Rest'
  <2>1. CASE incCount(g)
    BY <2>1, IncCountStep DEF incCount, DispatchInv, NoFatal
  <2>2. CASE enqueueProposal(g)
    BY <2>2, EnqueueStep DEF enqueueProposal, DispatchInv, NoFatal
  <2>3. CASE queueWriteProposal(g)
    BY <2>3, LogStep DEF queueWriteProposal, DispatchInv, NoFatal
  <2>4. CASE broadcastProposal(g)
    BY <2>4, BroadcastStep DEF broadcastProposal, DispatchInv, NoFatal
  <2>5. CASE processACK(g)
    BY <2>5, AckStep DEF processACK, DispatchInv, NoFatal
  <2>6. CASE processCommitProposal(g) \/ queueCommitProposal(g)
    BY <2>6, DequeueStep
  <2>7. CASE broadcastCommit(g)
    BY <2>7, CommitStep DEF broadcastCommit, DispatchInv, NoFatal
  <2> QED
    BY <1>3, <2>1, <2>2, <2>3, <2>4, <2>5, <2>6, <2>7 DEF handler
<1>4. ASSUME NEW f \in Follower, followerProposal(f) PROVE Rest'
  BY <1>4, FollowerStep
<1>5. ASSUME UNCHANGED vars PROVE Rest'
  <2>1. UNCHANGED <<goroutine, countNum, ackTracker, proposalsQueue, sendingQueue, follower, fatal>>
    BY <1>5 DEF vars
  <2> QED
    BY <2>1, WaitStep
<1> HIDE DEF Rest
<1>6. Rest'
  BY <1>2, <1>3, <1>4, <1>5 DEF Next
<1> QED
  BY <1>1, <1>6 DEF DispatchInv, Rest

\* The main theorem: however the two goroutines interleave, no Commit meets an
\* empty proposalsQueue, neither at the coordinator (processCommitProposal) nor
\* at a follower: its logger.Fatal is not reached.
THEOREM DispatchNeverFatal == Spec => []NoFatal
<1>1. DispatchInv => NoFatal
  BY DEF DispatchInv
<1> QED
  BY <1>1, DispatchInit, DispatchStep, PTL DEF Spec

\* The queues hold proposals, and ackTracker has one counter for each of them.
THEOREM DispatchTypeOK == Spec => []TypeOK
<1>1. DispatchInv => TypeOK
  BY DEF DispatchInv
<1> QED
  BY <1>1, DispatchInit, DispatchStep, PTL DEF Spec
=============================================================================

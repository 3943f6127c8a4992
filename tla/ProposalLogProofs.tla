-------------------------- MODULE ProposalLogProofs --------------------------
(***************************************************************************)
(* Machine-checked proofs about ProposalLog, for all limits of the numbers,*)
(* sizes of the records, contents of broken lengths, cuts and restarts.    *)
(***************************************************************************)
EXTENDS ProposalLog, Integers, TLAPS, SequenceTheorems, FiniteSetTheorems,
        WellFoundedInduction

-----------------------------------------------------------------------------
(* Queues and sets of numbers *)

\* What Append does to a queue, element by element.
LEMMA AppendFacts ==
  ASSUME NEW S, NEW q \in Seq(S), NEW e \in S
  PROVE  /\ Append(q, e) \in Seq(S)
         /\ Len(q) \in Nat
         /\ Len(Append(q, e)) = Len(q) + 1
         /\ \A i \in 1..Len(q) : Append(q, e)[i] = q[i]
         /\ Append(q, e)[Len(q) + 1] = e
BY AppendProperties, LenProperties

\* What taking the head of a queue leaves, element by element.
LEMMA HeadFacts ==
  ASSUME NEW S, NEW q \in Seq(S), q # << >>
  PROVE  /\ Len(q) \in Nat /\ Len(q) >= 1
         /\ Head(q) = q[1]
         /\ Head(q) \in S
         /\ Tail(q) \in Seq(S)
         /\ Len(Tail(q)) = Len(q) - 1
         /\ \A i \in 1..(Len(q) - 1) : Tail(q)[i] = q[i + 1]
<1>1. Len(q) \in Nat /\ Len(q) >= 1 /\ 1 \in 1..Len(q)
  BY EmptySeq, LenProperties
<1>2. q[1] \in S
  BY <1>1, ElementOfSeq
<1> QED
  BY <1>1, <1>2, HeadTailProperties

\* A set of numbers with a bound has a greatest one.
LEMMA MaximumExists ==
  ASSUME NEW n \in Nat, NEW S \in SUBSET (0..n), S # {}
  PROVE  \E m \in S : \A x \in S : m >= x
<1> DEFINE T == {k \in 0..n : n - k \in S}
           R == OpToRel(<, Nat)
<1>1. \A x \in S : n - x \in T
  <2> SUFFICES ASSUME NEW x \in S PROVE n - x \in T
    OBVIOUS
  <2>1. x \in 0..n
    OBVIOUS
  <2> QED
    BY <2>1
<1>2. \A k \in T : k \in Nat /\ n - k \in S
  OBVIOUS
<1>3. \A i, j \in Nat : i < j => <<i, j>> \in R
  BY DEF OpToRel
<1>4. IsWellFoundedOn(R, Nat)
  BY NatLessThanWellFounded
<1> HIDE DEF T, R
<1>5. T \subseteq Nat /\ T # {}
  BY <1>1, <1>2
<1>6. PICK k \in T : \A j \in T : <<j, k>> \notin R
  BY <1>4, <1>5, WFMin
<1>7. ASSUME NEW x \in S PROVE n - k >= x
  <2>1. n - x \in Nat /\ k \in Nat /\ x \in Nat
    BY <1>1, <1>2, <1>6
  <2>2. ~(n - x < k)
    BY <1>1, <1>3, <1>6, <2>1
  <2> QED
    BY <2>1, <2>2
<1> QED
  BY <1>2, <1>6, <1>7

-----------------------------------------------------------------------------
(* The invariant *)

Number   == (0..(EpochLimit - 1)) \X (0..(CountLimit - 1))
Proposal == [EpochNum : 0..(EpochLimit - 1), CountNum : 0..(CountLimit - 1), id : 1..Len(ContentSize)]
Byte     == [of : Proposal, at : Nat]
\* What a read can return: a proposal, or numbers with a content nobody saved.
Read     == [EpochNum : Nat, CountNum : 0..(CountLimit - 1), id : Nat]

SyncTypeOK ==
  /\ requestsEnabled \in BOOLEAN /\ requestsProcessingEnabled \in BOOLEAN
  /\ syncing \in BOOLEAN
  /\ currentSync \in Number

\* The type invariant: what the counter, the sync, the queue and the files hold.
TypeOK ==
  /\ zxidCounter \in Number
  /\ SyncTypeOK
  /\ newProposalChan \in Seq(Proposal)
  /\ writing \in Seq(Byte)
  /\ DOMAIN file \subseteq 0..(EpochLimit - 1)
  /\ file \in [DOMAIN file -> Seq(Byte)]
  /\ cuts \in Nat /\ restarts \in Nat
  /\ issued \in Seq(Proposal) /\ Len(issued) <= Len(ContentSize)

\* p is a proposal that was made; its id is its place in issued.
Made(p) == p.id \in 1..Len(issued) /\ issued[p.id] = p

\* The bytes of a record lie one behind the other, from its first one on.
Chained(f) ==
  \A i \in 1..Len(f) :
    /\ f[i].at \in 1..i /\ f[i].at <= recordSize(f[i].of)
    /\ \A j \in 1..f[i].at : f[i - f[i].at + j] = [of |-> f[i].of, at |-> j]

\* Records are saved in the order they went to the writer; a NewLeader that is
\* saved twice went to it twice, with two ids.
Ordered(f) ==
  \A i, j \in 1..Len(f) : i < j =>
    f[i].of.id < f[j].of.id \/ (f[i].of = f[j].of /\ f[i].at < f[j].at)

FileInv ==
  \A e \in DOMAIN file :
    /\ Chained(file[e]) /\ Ordered(file[e])
    /\ \A i \in 1..Len(file[e]) : file[e][i].of.EpochNum = e /\ Made(file[e][i].of)

\* What is left of a record, p from byte k on, belongs at the end of its file.
Left(p, k) ==
  /\ Made(p) /\ p.EpochNum \in DOMAIN file
  /\ k \in 1..recordSize(p)
  /\ Len(writing) = recordSize(p) - k + 1
  /\ \A i \in 1..Len(writing) : writing[i] = [of |-> p, at |-> k + i - 1]
  /\ LET f == file[p.EpochNum] IN
     /\ \A i \in 1..Len(f) : f[i].of.id < p.id \/ (f[i].of = p /\ f[i].at < k)
     /\ k > 1 => Len(f) >= 1 /\ f[Len(f)] = [of |-> p, at |-> k - 1]

WritingInv == writing # << >> => Left(writing[1].of, writing[1].at)

\* Proposals wait in the order they were made, behind all that are written.
ChanInv ==
  /\ \A i \in 1..Len(issued) : issued[i].id = i
  /\ \A i \in 1..Len(newProposalChan) :
       /\ Made(newProposalChan[i])
       /\ \A j \in 1..Len(newProposalChan) : i < j => newProposalChan[i].id < newProposalChan[j].id
       /\ writing # << >> => writing[1].of.id < newProposalChan[i].id
       /\ \A e \in DOMAIN file : \A j \in 1..Len(file[e]) :
            file[e][j].of.id < newProposalChan[i].id

\* The proposals that may still be written, and those on disk with them.
Pending == {newProposalChan[i] : i \in 1..Len(newProposalChan)}
           \cup (IF writing = << >> THEN {} ELSE {writing[1].of})
inFile(p) == \E e \in DOMAIN file : \E i \in 1..Len(file[e]) : file[e][i].of = p
Live == {p \in Proposal : inFile(p)} \cup Pending

\* Numbers have not been used up, nor given away again by a restart of the
\* first epoch.
sound(e) == epochsLeft /\ ~exhausted(e) /\ (e = 0 => restarts = 0)

\* No epoch beyond that of the counter is used.
EpochInv ==
  /\ zxidCounter[1] # 0 => \E i \in 1..Len(issued) : issued[i].EpochNum = zxidCounter[1]
  /\ \A e \in DOMAIN file : \E i \in 1..Len(issued) : issued[i].EpochNum = e
  /\ epochsLeft => /\ \A p \in Live : p.EpochNum <= zxidCounter[1]
                   /\ \A e \in DOMAIN file : e <= zxidCounter[1]

\* The proposals with the number of an epoch.
numbered(e) == {i \in DOMAIN issued : issued[i].EpochNum = e}

\* Has the server opened the epoch of its counter since it started?  Then a
\* sync may still be going on, or be over.
serving == requestsProcessingEnabled \/ syncing

\* The sync is that of the epoch of the counter.
SyncInv ==
  syncing => currentSync = <<zxidCounter[1], 0>> /\ (epochsLeft => zxidCounter[1] # 0)

\* While an epoch is served, the count is no more than the proposals it has.
CardInv ==
  serving =>
    Cardinality(numbered(zxidCounter[1])) >= zxidCounter[2] + (IF zxidCounter[1] = 0 THEN 0 ELSE 1)

\* Within an epoch later proposals have higher counts, unless they are its
\* NewLeader again, and the counter of an epoch that is served has the highest.
OrderInv ==
  /\ \A p, q \in Live :
       p.EpochNum = q.EpochNum /\ sound(p.EpochNum) /\ p.id < q.id
         => p.CountNum < q.CountNum \/ (p.EpochNum # 0 /\ q.CountNum = 0)
  /\ (serving \/ zxidCounter[1] = 0) /\ sound(zxidCounter[1]) =>
       \A p \in Live : p.EpochNum = zxidCounter[1] => p.CountNum <= zxidCounter[2]

\* The counter is not behind what is to be written, nor behind a last record
\* that is whole.
LastInv ==
  zxidCounter[1] # 0 /\ sound(zxidCounter[1]) =>
    /\ \A p \in Pending : p.EpochNum = zxidCounter[1] => p.CountNum <= zxidCounter[2]
    /\ \A e \in DOMAIN file :
         e = zxidCounter[1] /\ Len(file[e]) \in ends(file[e])
           => file[e][Len(file[e])].of.CountNum <= zxidCounter[2]

\* What a read that is expected to succeed has read so far: props are the
\* latest records, up to curPos, where one of them begins.  From L on no record
\* was torn when it began.
Reading(f, r, L) ==
  LET m == Len(r.props) IN
  /\ L \in 0..r.end /\ r.want <= behind(f, L, r.end)
  /\ \A j \in (L + 1)..r.end : \E i \in ends(f) : i <= r.end /\ f[i].of = f[j].of
  /\ r.curPos < r.end => f[r.curPos + 1].at = 1
  /\ behind(f, r.curPos, r.end) = m
  /\ \A k \in 1..m : \E i \in ends(f) :
       i <= r.end /\ f[i].of = r.props[k] /\ behind(f, i, r.end) = m - k
  /\ r.want = m + r.left \/ (L = 0 /\ r.want = behind(f, 0, r.end) /\ r.want < m + r.left)
  /\ IF r.state = "done" THEN r.want = m ELSE r.want > m

ReaderInv ==
  \/ reader = Idle
  \/ reader.state = "failed" /\ reader.want = 0
  \/ /\ reader \in [state : {"reading", "done"}, epoch : DOMAIN file, left : Nat, curPos : Nat,
                    end : Nat, props : Seq(Read), want : Nat]
     /\ reader.curPos <= reader.end /\ reader.end <= Len(file[reader.epoch])
     /\ reader.state = "reading" => reader.left >= 1
     /\ reader.want > 0 => \E L \in 0..reader.end : Reading(file[reader.epoch], reader, L)

LogInv ==
  /\ TypeOK
  /\ FileInv /\ WritingInv /\ ChanInv
  /\ EpochInv /\ SyncInv /\ CardInv /\ OrderInv /\ LastInv
  /\ ReaderInv

-----------------------------------------------------------------------------
(* Records and bytes *)

\* The sizes of a record are numbers, and no part of it is empty.
LEMMA SizeFacts ==
  ASSUME NEW p \in Proposal
  PROVE  /\ FixedSize \in Nat /\ LengthSize \in Nat /\ FixedSize >= 1 /\ LengthSize >= 1
         /\ proposalSize(p) \in Nat /\ proposalSize(p) > FixedSize
         /\ recordSize(p) \in Nat /\ recordSize(p) = proposalSize(p) + LengthSize
<1>1. ContentSize[p.id] \in Nat \ {0}
  <2>1. p.id \in 1..Len(ContentSize) /\ ContentSize \in Seq(Nat \ {0})
    BY SizeAssumption DEF Proposal
  <2> QED
    BY <2>1, ElementOfSeq
<1> QED
  BY SMTT(60), <1>1, SizeAssumption DEF proposalSize, recordSize

\* The parts of a proposal.
LEMMA ProposalFacts ==
  ASSUME NEW p \in Proposal
  PROVE  /\ EpochLimit \in Nat /\ CountLimit \in Nat /\ EpochLimit >= 1 /\ CountLimit >= 1
         /\ p.id \in Nat /\ p.id \in 1..Len(ContentSize)
         /\ p.EpochNum \in Nat /\ p.EpochNum \in 0..(EpochLimit - 1)
         /\ p.CountNum \in Nat /\ p.CountNum \in 0..(CountLimit - 1)
         /\ p \in Read
BY SizeAssumption DEF Proposal, Read

\* The parts of a byte of a file.
LEMMA ByteFacts ==
  ASSUME NEW f \in Seq(Byte), NEW i \in 1..Len(f)
  PROVE  f[i] \in Byte /\ f[i].of \in Proposal /\ f[i].at \in Nat
<1>1. f[i] \in Byte
  BY ElementOfSeq
<1> QED
  BY <1>1 DEF Byte

\* What is read at a place of a file, if it is read, has the type of a proposal
\* and lies before that place.
LEMMA ReadBackType ==
  ASSUME NEW f \in Seq(Byte), NEW pos \in 0..Len(f), NEW r \in readBack(f, pos)
  PROVE  \/ r = failed
         \/ r.ok = TRUE /\ r.prop \in Read /\ r.curPos \in Nat /\ r.curPos < pos
<1>1. CASE pos < LengthSize
  BY <1>1 DEF readBack
<1>2. CASE ~(pos < LengthSize)
  <2> DEFINE c == pos - LengthSize
             start(length) == IF length > c THEN 0 ELSE c - length
  <2>1. /\ Len(f) \in Nat /\ c \in Nat /\ c < pos /\ c + 1 \in 1..Len(f)
        /\ FixedSize \in Nat /\ LengthSize \in Nat /\ FixedSize >= 1
    BY <1>2, SizeAssumption, LenProperties
  <2>2. PICK length \in lengthAt(f, c) :
          r \in (IF length <= FixedSize \/ start(length) + length > Len(f) THEN {failed}
                 ELSE {[ok |-> TRUE, prop |-> p, curPos |-> start(length)] :
                         p \in bytesToProposal(f, start(length), length)})
    BY <1>2 DEF readBack
  <2>3. length \in Nat
    <3>1. f[c + 1].of \in Proposal
      BY <2>1, ByteFacts
    <3> QED
      BY <3>1, <2>2, SizeFacts, SizeAssumption DEF lengthAt
  <2>4. CASE length <= FixedSize \/ start(length) + length > Len(f)
    BY <2>2, <2>4
  <2>5. CASE ~(length <= FixedSize \/ start(length) + length > Len(f))
    <3>1. PICK p \in bytesToProposal(f, start(length), length) :
            r = [ok |-> TRUE, prop |-> p, curPos |-> start(length)]
      BY <2>2, <2>5
    <3>2. start(length) \in Nat /\ start(length) < pos /\ start(length) + 1 \in 1..Len(f)
      BY <2>1, <2>3, <2>5
    <3> HIDE DEF start, c
    <3>3. f[start(length) + 1].of \in Proposal
      BY <3>2, ByteFacts
    <3>4. p \in Read
      <4> DEFINE q == f[start(length) + 1].of
      <4>1. q \in Read /\ [q EXCEPT !.id = 0] \in Read
        <5>1. q \in Proposal
          BY <3>3
        <5>2. EpochLimit \in Nat
          BY SizeAssumption
        <5> HIDE DEF q
        <5> QED
          BY <5>1, <5>2 DEF Proposal, Read
      <4>2. \A k \in 0..(CountLimit - 1) : [EpochNum |-> 0, CountNum |-> k, id |-> 0] \in Read
        BY DEF Read
      <4>3. \/ p = q
            \/ p = [q EXCEPT !.id = 0]
            \/ \E k \in 0..(CountLimit - 1) : p = [EpochNum |-> 0, CountNum |-> k, id |-> 0]
        BY <3>1 DEF bytesToProposal
      <4> QED
        BY <4>1, <4>2, <4>3
    <3> QED
      BY <3>1, <3>2, <3>4
  <2> QED
    BY <2>4, <2>5
<1> QED
  BY <1>1, <1>2

\* Read back from the end of a record, just this record is read.
LEMMA ReadBackWhole ==
  ASSUME NEW f \in Seq(Byte), Chained(f), NEW pos \in ends(f), NEW r \in readBack(f, pos)
  PROVE  /\ pos \in 1..Len(f) /\ recordSize(f[pos].of) <= pos
         /\ r = [ok |-> TRUE, prop |-> f[pos].of, curPos |-> pos - recordSize(f[pos].of)]
<1> DEFINE p == f[pos].of
           size == proposalSize(f[pos].of)
           c == pos - LengthSize
           s == pos - recordSize(f[pos].of)
<1>1. /\ pos \in 1..Len(f) /\ Len(f) \in Nat /\ f[pos].at = recordSize(p)
      /\ p \in Proposal /\ f[pos].at \in 1..pos
      /\ \A j \in 1..f[pos].at : f[pos - f[pos].at + j] = [of |-> p, at |-> j]
  <2>1. pos \in 1..Len(f) /\ f[pos].at = recordSize(p)
    BY DEF ends
  <2> QED
    BY <2>1, LenProperties, ByteFacts DEF Chained
<1>2. /\ FixedSize \in Nat /\ LengthSize \in Nat /\ FixedSize >= 1 /\ LengthSize >= 1
      /\ size \in Nat /\ size > FixedSize /\ recordSize(p) = size + LengthSize
  BY <1>1, SizeFacts
<1>3. \A j \in 1..recordSize(p) : f[s + j] = [of |-> p, at |-> j]
  BY <1>1
<1>4. r \in readBack(f, pos)
  OBVIOUS
<1> HIDE DEF p, size
<1>5. /\ c \in Nat /\ s \in Nat /\ c = s + size /\ c + 1 = s + (size + 1) /\ ~(pos < LengthSize)
      /\ s <= pos /\ c <= Len(f)
  BY <1>1, <1>2 DEF p
<1> HIDE DEF c, s
<1>6. f[c + 1].of = p
  <2>1. size + 1 \in 1..recordSize(p)
    BY <1>2
  <2>2. f[s + (size + 1)] = [of |-> p, at |-> size + 1]
    BY <1>3, <2>1
  <2> QED
    BY <1>5, <2>2
<1>7. lengthAt(f, c) = {size}
  <2>1. \A i \in 0..(recordSize(p) - (size + 1)) : f[c + 1 + i] = [of |-> p, at |-> size + 1 + i]
    <3> SUFFICES ASSUME NEW i \in 0..(recordSize(p) - (size + 1))
                 PROVE  f[c + 1 + i] = [of |-> p, at |-> size + 1 + i]
      OBVIOUS
    <3>1. size + 1 + i \in 1..recordSize(p) /\ c + 1 + i = s + (size + 1 + i)
      BY <1>2, <1>5
    <3> QED
      BY <1>3, <3>1
  <2>2. proposalSize(p) = size
    BY DEF p, size
  <2>3. recordSize(p) <= recordSize(p)
    BY <1>2
  <2>4. spells(f, c, proposalSize(p) + 1, recordSize(p))
    BY <1>6, <2>1, <2>2, <2>3 DEF spells
  <2> QED
    BY <1>6, <2>2, <2>4 DEF lengthAt
<1>8. bytesToProposal(f, s, size) = {p}
  <2>1. f[s + 1].of = p
    <3>1. 1 \in 1..recordSize(p)
      BY <1>2
    <3>2. f[s + 1] = [of |-> p, at |-> 1]
      BY <1>3, <3>1
    <3> QED
      BY <3>2
  <2>2. ASSUME NEW n \in 1..size PROVE spells(f, s, 1, n)
    <3>1. n <= recordSize(p)
      BY <1>2
    <3>2. \A i \in 0..(n - 1) : f[s + 1 + i] = [of |-> p, at |-> 1 + i]
      <4> SUFFICES ASSUME NEW i \in 0..(n - 1) PROVE f[s + 1 + i] = [of |-> p, at |-> 1 + i]
        OBVIOUS
      <4>1. 1 + i \in 1..recordSize(p) /\ s + 1 + i = s + (1 + i)
        BY <1>2, <1>5
      <4> QED
        BY <1>3, <4>1
    <3> QED
      BY <2>1, <3>1, <3>2 DEF spells
  <2>3. FixedSize \in 1..size /\ size \in 1..size
    BY <1>2
  <2>4. spells(f, s, 1, FixedSize) /\ spells(f, s, 1, size)
    BY <2>2, <2>3
  <2>5. size = proposalSize(p)
    BY DEF p, size
  <2> QED
    BY <2>1, <2>4, <2>5 DEF bytesToProposal
<1>9. r \in (LET start == IF size > c THEN 0 ELSE c - size IN
             IF size <= FixedSize \/ start + size > Len(f) THEN {failed}
             ELSE {[ok |-> TRUE, prop |-> q, curPos |-> start] : q \in bytesToProposal(f, start, size)})
  BY <1>4, <1>5, <1>7 DEF readBack, c
<1>10. ~(size > c) /\ c - size = s /\ ~(size <= FixedSize) /\ ~(s + size > Len(f))
  BY SMTT(60), <1>1, <1>2, <1>5
<1>11. r \in {[ok |-> TRUE, prop |-> q, curPos |-> s] : q \in {p}}
  BY <1>8, <1>9, <1>10
<1> QED
  BY <1>1, <1>11 DEF p, s

-----------------------------------------------------------------------------
(* Where records end *)

\* The records that end in a stretch of a file can be counted, more of them end
\* in a longer one.
LEMMA BehindFacts ==
  ASSUME NEW f \in Seq(Byte), NEW i \in Nat, NEW n \in Nat, NEW k \in Nat, i <= k
  PROVE  /\ behind(f, i, n) \in Nat /\ behind(f, k, n) \in Nat
         /\ behind(f, k, n) <= behind(f, i, n)
<1> DEFINE A == {j \in ends(f) : k < j /\ j <= n}
           B == {j \in ends(f) : i < j /\ j <= n}
<1>1. IsFiniteSet(1..Len(f))
  BY LenProperties, FS_Interval
<1>2. ends(f) \subseteq 1..Len(f) /\ Len(f) \in Nat
  BY LenProperties DEF ends
<1>3. A \in SUBSET B /\ B \in SUBSET (1..Len(f))
  BY <1>2
<1>4. behind(f, i, n) = Cardinality(B) /\ behind(f, k, n) = Cardinality(A)
  BY DEF behind
<1> HIDE DEF A, B
<1>5. IsFiniteSet(B) /\ IsFiniteSet(A) /\ Cardinality(A) <= Cardinality(B)
  BY <1>1, <1>3, FS_Subset
<1>6. Cardinality(A) \in Nat /\ Cardinality(B) \in Nat
  BY <1>5, FS_CardinalityType
<1> QED
  BY <1>4, <1>5, <1>6

\* No record ends behind the place up to which they are counted.
LEMMA BehindNone ==
  ASSUME NEW f \in Seq(Byte), NEW n \in Nat
  PROVE  behind(f, n, n) = 0
<1>1. ends(f) \subseteq Nat
  BY LenProperties DEF ends
<1>2. {j \in ends(f) : n < j /\ j <= n} = {}
  BY <1>1
<1> QED
  BY <1>2, FS_EmptySet DEF behind

\* One more record ends behind i if just one ends between i and k.
LEMMA BehindOneMore ==
  ASSUME NEW f \in Seq(Byte), NEW i \in Nat, NEW n \in Nat, NEW k \in ends(f),
         i < k, k <= n, \A j \in ends(f) : i < j => k <= j
  PROVE  behind(f, i, n) = behind(f, k, n) + 1
<1> DEFINE E(m) == {j \in ends(f) : m < j /\ j <= n}
<1>1. ends(f) \subseteq 1..Len(f) /\ Len(f) \in Nat /\ k \in Nat
  BY LenProperties DEF ends
<1>2. IsFiniteSet(E(k))
  <2>1. IsFiniteSet(1..Len(f)) /\ E(k) \in SUBSET (1..Len(f))
    BY <1>1, FS_Interval
  <2> QED
    BY <2>1, FS_Subset
<1>3. E(i) = E(k) \cup {k} /\ k \notin E(k)
  BY <1>1
<1>4. behind(f, i, n) = Cardinality(E(i)) /\ behind(f, k, n) = Cardinality(E(k))
  BY DEF behind
<1> HIDE DEF E
<1> QED
  BY ZenonT(60), <1>2, <1>3, <1>4, FS_AddElement

\* A place where a new record begins, or all reading began, is the end of a
\* record if the byte before it belongs to a record that has an end so far.
LEMMA RecordEnd ==
  ASSUME NEW f \in Seq(Byte), Chained(f), Ordered(f),
         NEW n \in 1..Len(f), NEW c \in 1..n, c < n => f[c + 1].at = 1,
         NEW i \in ends(f), i <= n, f[i].of = f[c].of
  PROVE  c \in ends(f)
<1>1. /\ Len(f) \in Nat /\ c \in 1..Len(f) /\ i \in 1..Len(f) /\ f[i].at = recordSize(f[i].of)
      /\ ends(f) \subseteq 1..Len(f) /\ DOMAIN f = 1..Len(f)
  BY LenProperties DEF ends
<1>2. /\ f[c].of \in Proposal /\ f[c].at \in Nat /\ f[c].at >= 1 /\ f[c].at <= recordSize(f[c].of)
  BY <1>1, ByteFacts DEF Chained
<1>3. recordSize(f[c].of) \in Nat /\ f[c].of.id \in Nat
  BY <1>2, SizeFacts, ProposalFacts
<1>4. CASE i = c
  BY <1>4
<1>5. CASE i < c
  <2>1. f[i].of.id < f[c].of.id \/ (f[i].of = f[c].of /\ f[i].at < f[c].at)
    BY <1>1, <1>5 DEF Ordered
  <2>2. ~(f[i].of.id < f[c].of.id)
    BY <1>3
  <2>3. f[i].at = recordSize(f[c].of) /\ f[i].at < f[c].at
    BY <1>1, <2>1, <2>2
  <2> HIDE DEF recordSize
  <2> QED
    BY <1>2, <1>3, <2>3
<1>6. CASE c < i
  <2>1. c < n /\ c + 1 \in 1..Len(f) /\ f[c + 1].at = 1 /\ c < c + 1
    BY <1>1, <1>6
  <2>2. f[c + 1].of \in Proposal
    BY <2>1, ByteFacts
  <2>3. f[c + 1].of.id \in Nat
    BY <2>2, ProposalFacts
  <2>4. f[c].of.id < f[c + 1].of.id \/ (f[c].of = f[c + 1].of /\ f[c].at < f[c + 1].at)
    BY <1>1, <2>1 DEF Ordered
  <2>5. f[c].of.id < f[c + 1].of.id
    BY <1>2, <2>1, <2>4
  <2>6. CASE c + 1 = i
    BY <1>3, <2>5, <2>6
  <2>7. CASE c + 1 < i
    <3>1. f[c + 1].of.id < f[i].of.id \/ f[c + 1].of = f[i].of
      BY <1>1, <2>1, <2>7 DEF Ordered
    <3> QED
      BY SMTT(60), <1>3, <2>3, <2>5, <3>1
  <2> QED
    BY <1>1, <1>6, <2>6, <2>7
<1> QED
  BY <1>1, <1>4, <1>5, <1>6

\* Within a record that has an end no other one ends.
LEMMA NoEndWithin ==
  ASSUME NEW f \in Seq(Byte), Chained(f), NEW c \in ends(f), NEW j \in ends(f),
         c - recordSize(f[c].of) < j
  PROVE  c <= j
<1> DEFINE R == recordSize(f[c].of)
<1>1. /\ Len(f) \in Nat /\ c \in 1..Len(f) /\ j \in 1..Len(f) /\ f[c].at = R
      /\ f[j].at = recordSize(f[j].of)
  BY LenProperties DEF ends
<1>2. R \in 1..c /\ \A k \in 1..R : f[c - R + k] = [of |-> f[c].of, at |-> k]
  BY <1>1 DEF Chained
<1> HIDE DEF R
<1>3. ASSUME j < c PROVE FALSE
  <2> DEFINE k == j - (c - R)
  <2>1. k \in 1..R /\ k < R /\ c - R + k = j
    <3>1. j \in Nat /\ c \in Nat /\ R \in Nat
      BY <1>1, <1>2
    <3>2. c - R < j
      BY DEF R
    <3> QED
      BY <1>2, <1>3, <3>1, <3>2
  <2> HIDE DEF k
  <2>2. f[j] = [of |-> f[c].of, at |-> k]
    BY <1>2, <2>1
  <2>3. f[j].at = k /\ f[j].of = f[c].of
    BY <2>2
  <2>4. f[j].at = R
    BY <1>1, <2>3 DEF R
  <2> QED
    BY <1>2, <2>1, <2>3, <2>4
<1> QED
  BY <1>1, <1>3

\* The greatest of some numbers.
LEMMA MaxFacts ==
  ASSUME NEW n \in Nat, NEW S \in SUBSET (0..n), S # {}
  PROVE  Max(S) \in S /\ \A x \in S : Max(S) >= x
BY MaximumExists DEF Max

-----------------------------------------------------------------------------
(* Reading *)

\* What is appended to a file does not matter to a read that has begun.
LEMMA ReadingGrows ==
  ASSUME NEW f \in Seq(Byte), NEW b \in Byte, NEW r, NEW L,
         r.end \in 0..Len(f), r.curPos \in 0..r.end, Reading(f, r, L)
  PROVE  Reading(Append(f, b), r, L)
<1> DEFINE g == Append(f, b)
<1>1. /\ Len(f) \in Nat /\ Len(g) = Len(f) + 1 /\ \A i \in 1..Len(f) : g[i] = f[i]
      /\ g \in Seq(Byte)
  BY AppendFacts
<1>2. DOMAIN f = 1..Len(f) /\ DOMAIN g = 1..Len(g)
  BY <1>1, LenProperties
<1> HIDE DEF g
<1>3. \A i \in 1..Len(f) : i \in ends(g) <=> i \in ends(f)
  BY <1>1, <1>2 DEF ends
<1>4. ends(f) \subseteq 1..Len(f) /\ ends(g) \subseteq 1..(Len(f) + 1)
  BY <1>1, <1>2 DEF ends
<1>5. r.end \in Nat /\ r.end <= Len(f) /\ r.curPos \in Nat
  BY <1>1
<1>6. \A i : behind(g, i, r.end) = behind(f, i, r.end)
  <2> SUFFICES ASSUME NEW i PROVE behind(g, i, r.end) = behind(f, i, r.end)
    OBVIOUS
  <2>1. {j \in ends(g) : i < j /\ j <= r.end} = {j \in ends(f) : i < j /\ j <= r.end}
    BY <1>1, <1>3, <1>4, <1>5
  <2> QED
    BY <2>1 DEF behind
<1>7. L \in 0..r.end
  BY DEF Reading
<1>8. \A j \in (L + 1)..r.end : \E i \in ends(g) : i <= r.end /\ g[i].of = g[j].of
  <2> SUFFICES ASSUME NEW j \in (L + 1)..r.end
               PROVE  \E i \in ends(g) : i <= r.end /\ g[i].of = g[j].of
    OBVIOUS
  <2>1. PICK i \in ends(f) : i <= r.end /\ f[i].of = f[j].of
    BY DEF Reading
  <2>2. i \in 1..Len(f) /\ j \in 1..Len(f)
    BY <1>1, <1>4, <1>5, <1>7
  <2> QED
    BY <1>1, <1>3, <2>1, <2>2
<1>9. r.curPos < r.end => g[r.curPos + 1].at = 1
  <2>1. r.curPos < r.end => r.curPos + 1 \in 1..Len(f)
    BY <1>1, <1>5
  <2> QED
    BY <1>1, <2>1 DEF Reading
<1>10. \A k \in 1..Len(r.props) : \E i \in ends(g) :
         i <= r.end /\ g[i].of = r.props[k] /\ behind(g, i, r.end) = Len(r.props) - k
  <2> SUFFICES ASSUME NEW k \in 1..Len(r.props)
               PROVE  \E i \in ends(g) :
                        i <= r.end /\ g[i].of = r.props[k] /\ behind(g, i, r.end) = Len(r.props) - k
    OBVIOUS
  <2>1. PICK i \in ends(f) : i <= r.end /\ f[i].of = r.props[k] /\ behind(f, i, r.end) = Len(r.props) - k
    BY DEF Reading
  <2> QED
    BY <1>1, <1>3, <1>4, <1>6, <2>1
<1>11. /\ r.want <= behind(f, L, r.end)
       /\ behind(f, r.curPos, r.end) = Len(r.props)
       /\ r.want = Len(r.props) + r.left
          \/ (L = 0 /\ r.want = behind(f, 0, r.end) /\ r.want < Len(r.props) + r.left)
       /\ IF r.state = "done" THEN r.want = Len(r.props) ELSE r.want > Len(r.props)
  BY DEF Reading
<1> QED
  BY <1>6, <1>7, <1>8, <1>9, <1>10, <1>11 DEF Reading, g

\* While a read has less than it wants, a record ends where it looks, which is
\* not within the torn records.
LEMMA CursorAtEnd ==
  ASSUME NEW f \in Seq(Byte), Chained(f), Ordered(f), NEW r, NEW L,
         r.end \in 0..Len(f), r.curPos \in 0..r.end, Reading(f, r, L),
         Len(r.props) \in Nat, r.want \in Nat, Len(r.props) < r.want
  PROVE  r.curPos \in ends(f) /\ r.curPos > L
<1>1. Len(f) \in Nat /\ r.end \in Nat /\ r.curPos \in Nat /\ L \in 0..r.end
  BY LenProperties DEF Reading
<1>2. /\ r.want <= behind(f, L, r.end) /\ behind(f, r.curPos, r.end) = Len(r.props)
      /\ r.curPos < r.end => f[r.curPos + 1].at = 1
  BY DEF Reading
<1>3. r.curPos > L
  <2>1. ASSUME r.curPos <= L PROVE FALSE
    <3>1. L \in Nat
      BY <1>1
    <3>2. behind(f, L, r.end) <= behind(f, r.curPos, r.end) /\ behind(f, L, r.end) \in Nat
      BY <1>1, <2>1, <3>1, BehindFacts
    <3> QED
      BY <1>2, <3>2
  <2> QED
    BY <1>1, <2>1
<1>4. r.curPos \in (L + 1)..r.end /\ r.curPos \in 1..r.end /\ r.end \in 1..Len(f)
  BY <1>1, <1>3
<1>5. PICK i \in ends(f) : i <= r.end /\ f[i].of = f[r.curPos].of
  BY <1>4 DEF Reading
<1> QED
  BY <1>2, <1>3, <1>4, <1>5, RecordEnd

\* A read that has less than it wants finds one more of the latest records, and
\* stops when it has what it wants.
LEMMA ReadingStep ==
  ASSUME NEW f \in Seq(Byte), Chained(f), Ordered(f), NEW r, NEW s, NEW L,
         r.end \in 0..Len(f), r.curPos \in 0..r.end, Reading(f, r, L),
         r.props \in Seq(Read), r.want \in Nat, r.left \in Nat, r.left >= 1, r.state = "reading",
         r.curPos \in ends(f),
         s.end = r.end, s.want = r.want, s.left = r.left - 1,
         s.props = <<f[r.curPos].of>> \o r.props,
         s.curPos = r.curPos - recordSize(f[r.curPos].of),
         s.state = IF r.left = 1 \/ s.curPos = 0 THEN "done" ELSE "reading"
  PROVE  Reading(f, s, L)
<1> DEFINE m == Len(r.props)
           p == f[r.curPos].of
           c == r.curPos
<1>1. /\ Len(f) \in Nat /\ r.end \in Nat /\ c \in Nat /\ L \in 0..r.end /\ m \in Nat
      /\ c \in 1..Len(f) /\ c <= r.end /\ f[c].at = recordSize(p) /\ p \in Proposal
  <2>1. c \in 1..Len(f) /\ f[c].at = recordSize(p)
    BY LenProperties DEF ends
  <2> QED
    BY SMTT(60), <2>1, LenProperties, ByteFacts DEF Reading
<1>2. /\ recordSize(p) \in 1..c
      /\ \A j \in 1..recordSize(p) : f[c - recordSize(p) + j] = [of |-> p, at |-> j]
  BY ZenonT(60), <1>1 DEF Chained
<1>3. /\ r.want <= behind(f, L, r.end)
      /\ behind(f, c, r.end) = m
      /\ \A j \in (L + 1)..r.end : \E i \in ends(f) : i <= r.end /\ f[i].of = f[j].of
      /\ r.want = m + r.left \/ (L = 0 /\ r.want = behind(f, 0, r.end) /\ r.want < m + r.left)
      /\ r.want > m
  BY DEF Reading
<1>4. Len(s.props) = m + 1 /\ s.props[1] = p /\ \A k \in 2..(m + 1) : s.props[k] = r.props[k - 1]
  <2>1. <<p>> \in Seq(Read) /\ Len(<<p>>) = 1 /\ <<p>>[1] = p
    BY SMTT(60), <1>1, ProposalFacts
  <2> QED
    BY <1>1, <2>1, ConcatProperties
<1>5. s.curPos \in Nat /\ s.curPos < c /\ s.curPos <= s.end
  BY SMTT(60), <1>1, <1>2
<1>6. f[s.curPos + 1].at = 1
  <2>1. 1 \in 1..recordSize(p)
    BY <1>2
  <2>2. f[s.curPos + 1] = [of |-> p, at |-> 1]
    BY <1>2, <2>1
  <2> QED
    BY <2>2
<1>7. behind(f, s.curPos, r.end) = m + 1
  <2>1. \A j \in ends(f) : s.curPos < j => c <= j
    BY <1>5, NoEndWithin
  <2> QED
    BY SMTT(60), <1>1, <1>3, <1>5, <2>1, BehindOneMore
<1>8. \A k \in 1..(m + 1) : \E i \in ends(f) :
        i <= r.end /\ f[i].of = s.props[k] /\ behind(f, i, r.end) = m + 1 - k
  <2> SUFFICES ASSUME NEW k \in 1..(m + 1)
               PROVE  \E i \in ends(f) :
                        i <= r.end /\ f[i].of = s.props[k] /\ behind(f, i, r.end) = m + 1 - k
    OBVIOUS
  <2>1. CASE k = 1
    BY <1>1, <1>3, <1>4, <2>1
  <2>2. CASE k \in 2..(m + 1)
    <3>1. PICK i \in ends(f) : i <= r.end /\ f[i].of = r.props[k - 1] /\ behind(f, i, r.end) = m - (k - 1)
      <4>1. k - 1 \in 1..m
        BY <1>1, <2>2
      <4> QED
        BY <4>1 DEF Reading
    <3>2. m - (k - 1) = m + 1 - k
      BY <1>1, <2>2
    <3> QED
      BY <1>4, <2>2, <3>1, <3>2
  <2> QED
    BY SMTT(60), <1>1, <2>1, <2>2
<1>9. r.want = (m + 1) + s.left \/ (L = 0 /\ r.want = behind(f, 0, r.end) /\ r.want < (m + 1) + s.left)
  <2>1. s.left = r.left - 1 /\ r.left \in Nat /\ m \in Nat
    BY <1>1
  <2>2. r.want = m + r.left \/ (L = 0 /\ r.want = behind(f, 0, r.end) /\ r.want < m + r.left)
    BY <1>3
  <2> HIDE DEF m
  <2>3. \A x, y, z \in Int : z = y - 1 => (x + 1) + z = x + y
    OBVIOUS
  <2>4. m \in Int /\ r.left \in Int /\ s.left \in Int
    BY <2>1
  <2>5. (m + 1) + s.left = m + r.left
    BY ONLY SMTT(60), <2>1, <2>3, <2>4
  <2> QED
    BY <2>2, <2>5
<1>10. behind(f, L, r.end) \in Nat /\ behind(f, 0, r.end) \in Nat /\ behind(f, L, r.end) <= behind(f, 0, r.end)
  <2>1. L \in Nat /\ 0 \in Nat /\ 0 <= L
    BY <1>1
  <2> QED
    BY <1>1, <2>1, BehindFacts
<1>11. s.state = "done" => r.want = m + 1
  <2>1. CASE r.left = 1
    BY <1>1, <1>3, <2>1
  <2>2. CASE s.curPos = 0
    <3>1. behind(f, 0, r.end) = m + 1
      BY <1>7, <2>2
    <3> HIDE DEF m
    <3> QED
      BY <1>1, <1>3, <1>10, <3>1
  <2> QED
    BY <2>1, <2>2
<1>12. s.state # "done" => r.want > m + 1
  <2> SUFFICES ASSUME s.state # "done" PROVE r.want > m + 1
    OBVIOUS
  <2>1. r.left # 1 /\ s.curPos # 0
    OBVIOUS
  <2>2. CASE r.want = m + r.left
    BY SMTT(60), <1>1, <2>1, <2>2
  <2>3. CASE L = 0 /\ r.want = behind(f, 0, r.end)
    <3>1. PICK i \in ends(f) : i <= r.end /\ f[i].of = f[s.curPos].of
      <4>1. s.curPos \in (L + 1)..r.end
        BY <1>1, <1>5, <2>1, <2>3
      <4> QED
        BY <1>3, <4>1
    <3>2. s.curPos \in ends(f)
      <4>1. r.end \in 1..Len(f) /\ s.curPos \in 1..r.end
        BY SMTT(60), <1>1, <1>5, <2>1
      <4> QED
        BY <1>6, <3>1, <4>1, RecordEnd
    <3>3. behind(f, s.curPos, r.end) < behind(f, 0, r.end)
      <4> DEFINE A == {j \in ends(f) : s.curPos < j /\ j <= r.end}
                 B == {j \in ends(f) : 0 < j /\ j <= r.end}
      <4>1. ends(f) \subseteq 1..Len(f)
        BY LenProperties DEF ends
      <4>2. A \in SUBSET B /\ s.curPos \in B /\ s.curPos \notin A
        BY SMTT(60), <1>1, <1>5, <2>1, <3>2, <4>1
      <4>3. IsFiniteSet(B)
        <5>1. B \in SUBSET (1..Len(f)) /\ IsFiniteSet(1..Len(f))
          BY <1>1, <4>1, FS_Interval
        <5> QED
          BY <5>1, FS_Subset
      <4>4. behind(f, s.curPos, r.end) = Cardinality(A) /\ behind(f, 0, r.end) = Cardinality(B)
        BY DEF behind
      <4> HIDE DEF A, B
      <4>5. Cardinality(A) <= Cardinality(B) /\ Cardinality(A) # Cardinality(B)
        BY <4>2, <4>3, FS_Subset
      <4>6. Cardinality(A) \in Nat /\ Cardinality(B) \in Nat
        BY <4>2, <4>3, FS_Subset, FS_CardinalityType
      <4> QED
        BY <4>4, <4>5, <4>6
    <3> QED
      BY <1>1, <1>7, <1>10, <2>3, <3>3
  <2> QED
    BY <1>3, <2>2, <2>3
<1>13. L \in 0..s.end /\ s.want <= behind(f, L, s.end)
  BY <1>1, <1>3
<1>14. \A j \in (L + 1)..s.end : \E i \in ends(f) : i <= s.end /\ f[i].of = f[j].of
  BY <1>3
<1>15. Len(s.props) = m + 1
  BY <1>4
<1>16. IF s.state = "done" THEN s.want = Len(s.props) ELSE s.want > Len(s.props)
  BY <1>11, <1>12, <1>15
<1>17. \/ s.want = Len(s.props) + s.left
       \/ L = 0 /\ s.want = behind(f, 0, s.end) /\ s.want < Len(s.props) + s.left
  BY <1>9, <1>15
<1>18. behind(f, s.curPos, s.end) = Len(s.props)
  BY <1>7, <1>15
<1>19. \A k \in 1..Len(s.props) : \E i \in ends(f) :
         i <= s.end /\ f[i].of = s.props[k] /\ behind(f, i, s.end) = Len(s.props) - k
  BY SMTT(60), <1>8, <1>15
<1> QED
  BY ONLY <1>6, <1>13, <1>14, <1>16, <1>17, <1>18, <1>19 DEF Reading

\* A read that is called looks at the end of the file and wants no more than it
\* can get.
LEMMA ReaderCalled ==
  ASSUME TypeOK, FileInv, ReaderInv,
         NEW epoch, NEW readCount \in 1..Len(ContentSize), ReadProposals(epoch, readCount)
  PROVE  ReaderInv'
<1>1. CASE epoch \notin DOMAIN file
  <2>1. reader' = [state |-> "failed", want |-> 0]
    BY <1>1 DEF ReadProposals
  <2>2. reader'.state = "failed" /\ reader'.want = 0
    BY <2>1
  <2> QED
    BY <2>2 DEF ReaderInv
<1>2. CASE epoch \in DOMAIN file
  <2> DEFINE f == file[epoch]
             L == lastTorn(f)
             n == behind(f, L, Len(f))
             W == IF readCount <= n THEN readCount ELSE IF torn(f) = {} THEN n ELSE 0
             s == [state |-> "reading", epoch |-> epoch, left |-> readCount, curPos |-> Len(f),
                   end |-> Len(f), props |-> << >>, want |-> W]
  <2>1. file' = file /\ reader' = s
    BY <1>2 DEF ReadProposals
  <2>2. /\ f \in Seq(Byte) /\ Len(f) \in Nat /\ DOMAIN f = 1..Len(f)
        /\ Chained(f) /\ Ordered(f)
    BY <1>2, LenProperties DEF TypeOK, FileInv
  <2>3. readCount \in Nat /\ readCount >= 1
    OBVIOUS
  <2> HIDE DEF f
  <2>4. L \in 0..Len(f) /\ \A j \in torn(f) : j <= L
    <3> DEFINE S == torn(f) \cup {0}
    <3>1. S \in SUBSET (0..Len(f)) /\ S # {} /\ L = Max(S)
      BY <2>2 DEF torn, lastTorn
    <3>2. Max(S) \in S /\ \A x \in S : Max(S) >= x
      <4> HIDE DEF S, L
      <4> QED
        BY <2>2, <3>1, MaxFacts
    <3>3. \A j \in torn(f) : j \in S /\ j \in Nat
      BY <2>2 DEF torn
    <3> HIDE DEF S
    <3> HIDE DEF L
    <3>4. L \in S
      BY <3>1, <3>2
    <3>5. L \in 0..Len(f)
      BY <3>1, <3>4
    <3>6. \A j \in torn(f) : L >= j /\ j \in Nat
      BY <3>1, <3>2, <3>3
    <3> QED
      BY <2>2, <3>5, <3>6
  <2>5. torn(f) = {} => L = 0
    <3> SUFFICES ASSUME torn(f) = {} PROVE L = 0
      OBVIOUS
    <3>1. L = Max({0}) /\ {0} \in SUBSET (0..0)
      BY DEF lastTorn
    <3>2. Max({0}) \in {0}
      BY <3>1, MaxFacts
    <3> QED
      BY <3>1, <3>2
  <2> HIDE DEF L
  <2>6. n \in Nat
    <3>1. L \in Nat /\ Len(f) \in Nat /\ L <= L
      BY <2>2, <2>4
    <3> QED
      BY <2>2, <3>1, BehindFacts
  <2> HIDE DEF n
  <2>7. W \in Nat /\ W <= n /\ W <= readCount
        /\ (W = 0 \/ W = readCount \/ (L = 0 /\ W = n /\ W < readCount))
    BY <2>3, <2>5, <2>6
  <2> HIDE DEF W
  <2>8. /\ s.state = "reading" /\ s.epoch = epoch /\ s.left = readCount /\ s.curPos = Len(f)
        /\ s.end = Len(f) /\ s.props = << >> /\ s.want = W
    OBVIOUS
  <2>9. s \in [state : {"reading", "done"}, epoch : DOMAIN file, left : Nat, curPos : Nat,
                end : Nat, props : Seq(Read), want : Nat]
    <3>1. << >> \in Seq(Read)
      OBVIOUS
    <3> QED
      BY <1>2, <2>2, <2>3, <2>7, <3>1
  <2> HIDE DEF s
  <2>10. ASSUME s.want > 0 PROVE Reading(f, s, L)
    <3>1. Len(s.props) = 0
      BY <2>8
    <3>2. behind(f, Len(f), Len(f)) = 0
      BY <2>2, BehindNone
    <3>3. \A j \in (L + 1)..Len(f) : \E i \in ends(f) : i <= Len(f) /\ f[i].of = f[j].of
      <4> SUFFICES ASSUME NEW j \in (L + 1)..Len(f)
                   PROVE  \E i \in ends(f) : i <= Len(f) /\ f[i].of = f[j].of
        OBVIOUS
      <4>1. j \in DOMAIN f /\ j \notin torn(f)
        BY <2>2, <2>4
      <4>2. ends(f) \subseteq 1..Len(f)
        BY <2>2 DEF ends
      <4> QED
        BY <2>2, <4>1, <4>2 DEF torn
    <3>4. /\ L \in 0..s.end /\ s.want <= behind(f, L, s.end)
          /\ ~(s.curPos < s.end) /\ behind(f, s.curPos, s.end) = 0
      BY <2>2, <2>4, <2>7, <2>8, <3>2 DEF n
    <3>5. \A j \in (L + 1)..s.end : \E i \in ends(f) : i <= s.end /\ f[i].of = f[j].of
      BY <2>8, <3>3
    <3>6. \A k \in 1..Len(s.props) : FALSE
      BY <3>1
    <3>7. s.want = Len(s.props) + s.left
          \/ (L = 0 /\ s.want = behind(f, 0, s.end) /\ s.want < Len(s.props) + s.left)
      BY <2>3, <2>7, <2>8, <2>10, <3>1 DEF n
    <3>8. s.state # "done" /\ s.want > Len(s.props)
      BY <2>8, <2>10, <3>1
    <3> QED
      BY <3>1, <3>4, <3>5, <3>6, <3>7, <3>8 DEF Reading
  <2>11. s.want > 0 => \E K \in 0..s.end : Reading(f, s, K)
    BY <2>4, <2>8, <2>10
  <2>12. /\ s.curPos <= s.end /\ s.end <= Len(file[s.epoch]) /\ s.left >= 1
         /\ file[s.epoch] = f
    BY <2>2, <2>3, <2>8 DEF f
  <2> QED
    BY <2>1, <2>9, <2>11, <2>12 DEF ReaderInv
<1> QED
  BY <1>1, <1>2

\* Each record read keeps what is known of the read.
LEMMA ReaderReads ==
  ASSUME TypeOK, FileInv, ReaderInv, ReadOne
  PROVE  ReaderInv'
<1> DEFINE f == file[reader.epoch]
<1>1. reader.state = "reading" /\ file' = file
  BY DEF ReadOne
<1>2. reader # Idle /\ ~(reader.state = "failed" /\ reader.want = 0)
  BY <1>1 DEF Idle
<1>3. /\ reader \in [state : {"reading", "done"}, epoch : DOMAIN file, left : Nat, curPos : Nat,
                     end : Nat, props : Seq(Read), want : Nat]
      /\ reader.curPos <= reader.end /\ reader.end <= Len(f) /\ reader.left >= 1
      /\ reader.want > 0 => \E L \in 0..reader.end : Reading(f, reader, L)
  BY <1>1, <1>2 DEF ReaderInv
<1>4. /\ reader.epoch \in DOMAIN file /\ reader.left \in Nat /\ reader.curPos \in Nat
      /\ reader.end \in Nat /\ reader.props \in Seq(Read) /\ reader.want \in Nat
  BY <1>3
<1>5. /\ f \in Seq(Byte) /\ Len(f) \in Nat /\ Chained(f) /\ Ordered(f)
  BY <1>4, LenProperties DEF TypeOK, FileInv
<1>6. reader.curPos \in 0..Len(f) /\ reader.curPos \in 0..reader.end /\ reader.end \in 0..Len(f)
  BY <1>3, <1>4, <1>5
<1>7. PICK r \in readBack(f, reader.curPos) :
        reader' = IF ~r.ok THEN [state |-> "failed", want |-> reader.want]
                  ELSE [reader EXCEPT !.props = <<r.prop>> \o @, !.curPos = r.curPos,
                                      !.left = @ - 1,
                                      !.state = IF reader.left = 1 \/ r.curPos = 0
                                                THEN "done" ELSE "reading"]
  BY DEF ReadOne
<1> HIDE DEF f
<1>8. \/ r = failed
      \/ r.ok = TRUE /\ r.prop \in Read /\ r.curPos \in Nat /\ r.curPos < reader.curPos
  BY <1>5, <1>6, ReadBackType
<1>9. ASSUME reader.want > 0
      PROVE  /\ reader.curPos \in ends(f)
             /\ r = [ok |-> TRUE, prop |-> f[reader.curPos].of,
                     curPos |-> reader.curPos - recordSize(f[reader.curPos].of)]
  <2>1. PICK L \in 0..reader.end : Reading(f, reader, L)
    BY <1>3, <1>9
  <2>2. Len(reader.props) \in Nat
    BY <1>4, LenProperties
  <2>3. Len(reader.props) < reader.want
    <3>1. reader.want > Len(reader.props)
      BY <1>1, <2>1 DEF Reading
    <3> QED
      BY <1>4, <2>2, <3>1
  <2>4. reader.curPos \in ends(f)
    BY <1>4, <1>5, <1>6, <2>1, <2>2, <2>3, CursorAtEnd
  <2> QED
    BY <1>5, <2>4, ReadBackWhole
<1>10. CASE r = failed
  <2>1. ~r.ok
    BY <1>10 DEF failed
  <2>2. reader.want = 0
    <3>1. reader.want > 0 => r.ok = TRUE
      BY <1>9
    <3> QED
      BY <1>4, <2>1, <3>1
  <2>3. reader' = [state |-> "failed", want |-> 0]
    BY <1>7, <2>1, <2>2
  <2>4. reader'.state = "failed" /\ reader'.want = 0
    BY <2>3
  <2> QED
    BY <2>4 DEF ReaderInv
<1>11. CASE r.ok = TRUE /\ r.prop \in Read /\ r.curPos \in Nat /\ r.curPos < reader.curPos
  <2> DEFINE S == [state : {"reading", "done"}, epoch : DOMAIN file, left : Nat, curPos : Nat,
                   end : Nat, props : Seq(Read), want : Nat]
             q == <<r.prop>> \o reader.props
             st == IF reader.left = 1 \/ r.curPos = 0 THEN "done" ELSE "reading"
             s == [state |-> st, epoch |-> reader.epoch, left |-> reader.left - 1,
                   curPos |-> r.curPos, end |-> reader.end, props |-> q, want |-> reader.want]
  <2>1. q \in Seq(Read)
    <3>1. <<r.prop>> \in Seq(Read)
      BY <1>11
    <3> QED
      BY <1>4, <3>1, ConcatProperties
  <2>2. reader' = [reader EXCEPT !.props = q, !.curPos = r.curPos, !.left = reader.left - 1,
                                 !.state = st]
    BY <1>7, <1>11
  <2>3. reader.left - 1 \in Nat /\ st \in {"reading", "done"}
        /\ (st = "reading" => reader.left - 1 >= 1)
    BY <1>3, <1>4
  <2> HIDE DEF q, st
  <2>4. reader' = s
    BY <1>3, <2>2
  <2>5. s \in S
    BY <1>4, <1>11, <2>1, <2>3
  <2>6. /\ s.state = st /\ s.epoch = reader.epoch /\ s.left = reader.left - 1
        /\ s.curPos = r.curPos /\ s.end = reader.end /\ s.props = q /\ s.want = reader.want
    OBVIOUS
  <2> HIDE DEF s
  <2>7. s.curPos <= s.end /\ s.end <= Len(file[s.epoch]) /\ file[s.epoch] = f
        /\ (s.state = "reading" => s.left >= 1)
    <3>1. s.curPos <= s.end
      BY SMTT(60), <1>4, <1>6, <1>11, <2>6
    <3> QED
      BY <1>3, <2>3, <2>6, <3>1 DEF f
  <2>8. ASSUME s.want > 0 PROVE \E L \in 0..s.end : Reading(f, s, L)
    <3>1. reader.want > 0
      BY <2>6, <2>8
    <3>2. PICK L \in 0..reader.end : Reading(f, reader, L)
      BY <1>3, <3>1
    <3>3. /\ reader.curPos \in ends(f)
          /\ r = [ok |-> TRUE, prop |-> f[reader.curPos].of,
                  curPos |-> reader.curPos - recordSize(f[reader.curPos].of)]
      BY <1>9, <3>1
    <3>4. /\ s.props = <<f[reader.curPos].of>> \o reader.props
          /\ s.curPos = reader.curPos - recordSize(f[reader.curPos].of)
          /\ s.state = IF reader.left = 1 \/ s.curPos = 0 THEN "done" ELSE "reading"
      BY <2>6, <3>3 DEF q, st
    <3>5. Reading(f, s, L)
      BY <1>1, <1>3, <1>4, <1>5, <1>6, <2>6, <3>2, <3>3, <3>4, ReadingStep
    <3> QED
      BY <2>6, <3>2, <3>5
  <2> QED
    BY <1>1, <2>4, <2>5, <2>7, <2>8 DEF ReaderInv
<1> QED
  BY <1>8, <1>10, <1>11

-----------------------------------------------------------------------------
(* The proposals of the server *)

\* Whatever is on disk or may be written was made.
LEMMA LiveFacts ==
  ASSUME LogInv
  PROVE  /\ \A e \in DOMAIN file : \A i \in 1..Len(file[e]) : file[e][i].of \in Live
         /\ Pending \subseteq Live
         /\ \A p \in Live : p \in Proposal /\ Made(p)
<1>1. \A e \in DOMAIN file : file[e] \in Seq(Byte)
  BY DEF LogInv, TypeOK
<1>2. \A e \in DOMAIN file : \A i \in 1..Len(file[e]) :
        file[e][i].of \in Proposal /\ Made(file[e][i].of)
  BY <1>1, ByteFacts DEF LogInv, FileInv
<1>3. \A i \in 1..Len(newProposalChan) : newProposalChan[i] \in Proposal /\ Made(newProposalChan[i])
  BY ElementOfSeq DEF LogInv, TypeOK, ChanInv
<1>4. writing # << >> => writing[1].of \in Proposal /\ Made(writing[1].of)
  <2> SUFFICES ASSUME writing # << >> PROVE writing[1].of \in Proposal /\ Made(writing[1].of)
    OBVIOUS
  <2>1. writing \in Seq(Byte)
    BY DEF LogInv, TypeOK
  <2>2. 1 \in 1..Len(writing)
    BY <2>1, HeadFacts
  <2> QED
    BY <2>1, <2>2, ByteFacts DEF LogInv, WritingInv, Left
<1>5. \A p \in Pending : p \in Proposal /\ Made(p)
  BY <1>3, <1>4 DEF Pending
<1>6. \A p \in Proposal : inFile(p) => Made(p)
  BY <1>2 DEF inFile
<1>7. \A e \in DOMAIN file : \A i \in 1..Len(file[e]) : inFile(file[e][i].of)
  BY DEF inFile
<1> QED
  BY <1>2, <1>5, <1>6, <1>7 DEF Live

\* What is said of numbers holds if no proposal is added.
LEMMA NumbersKept ==
  ASSUME LogInv, Live' \subseteq Live, Pending' \subseteq Pending,
         UNCHANGED <<zxidCounter, syncVars, restarts, issued>>
  PROVE  /\ SyncTypeOK' /\ SyncInv' /\ CardInv' /\ OrderInv'
         /\ epochsLeft' => epochsLeft /\ \A p \in Live' : p.EpochNum <= zxidCounter'[1]
         /\ \A e : sound(e)' => sound(e)
         /\ zxidCounter'[1] # 0 /\ sound(zxidCounter'[1]) =>
              \A p \in Pending' : p.EpochNum = zxidCounter'[1] => p.CountNum <= zxidCounter'[2]
<1>1. /\ zxidCounter' = zxidCounter /\ restarts' = restarts /\ issued' = issued
      /\ (serving' <=> serving) /\ syncing' = syncing /\ currentSync' = currentSync
      /\ requestsEnabled' = requestsEnabled
      /\ requestsProcessingEnabled' = requestsProcessingEnabled
  BY DEF syncVars, serving
<1>2. epochsLeft' <=> epochsLeft
  BY <1>1 DEF epochsLeft
<1>8. SyncTypeOK' /\ SyncInv'
  BY <1>1, <1>2 DEF LogInv, TypeOK, SyncTypeOK, SyncInv
<1>3. \A e : exhausted(e)' <=> exhausted(e)
  BY <1>1 DEF exhausted
<1>4. \A e : sound(e)' <=> sound(e)
  BY <1>1, <1>2, <1>3 DEF sound
<1>5. \A e : numbered(e)' = numbered(e)
  BY <1>1 DEF numbered
<1>6. CardInv'
  BY <1>1, <1>5 DEF LogInv, CardInv
<1>7. OrderInv'
  BY <1>1, <1>4 DEF LogInv, OrderInv
<1> QED
  BY <1>1, <1>2, <1>4, <1>6, <1>7, <1>8 DEF LogInv, EpochInv, LastInv

\* Made, epochsLeft and sound when one proposal is added.
LEMMA IssuedGrows ==
  ASSUME TypeOK, NEW p \in Proposal, issued' = Append(issued, p), p.id = Len(issued) + 1,
         restarts' = restarts
  PROVE  /\ \A q : Made(q) => Made(q)'
         /\ Made(p)'
         /\ Len(issued') = Len(issued) + 1 /\ issued'[Len(issued) + 1] = p
         /\ \A i \in 1..Len(issued) : i \in 1..Len(issued') /\ issued'[i] = issued[i]
         /\ epochsLeft' => epochsLeft /\ p.EpochNum + 1 < EpochLimit
         /\ \A e : /\ IsFiniteSet(numbered(e)) /\ Cardinality(numbered(e)) \in Nat
                  /\ Cardinality(numbered(e)') =
                       Cardinality(numbered(e)) + (IF e = p.EpochNum THEN 1 ELSE 0)
         /\ \A e : sound(e)' => sound(e)
<1>1. /\ issued \in Seq(Proposal) /\ Len(issued) \in Nat
      /\ Len(issued') = Len(issued) + 1
      /\ \A i \in 1..Len(issued) : issued'[i] = issued[i]
      /\ issued'[Len(issued) + 1] = p
      /\ DOMAIN issued = 1..Len(issued) /\ DOMAIN issued' = 1..(Len(issued) + 1)
  <2>1. issued \in Seq(Proposal)
    BY DEF TypeOK
  <2> QED
    BY <2>1, AppendFacts, LenProperties
<1>2. \A i \in 1..Len(issued) : i \in 1..Len(issued') /\ issued'[i] = issued[i]
  BY <1>1
<1>3. Made(p)' /\ \A q : Made(q) => Made(q)'
  BY <1>1 DEF Made
<1>4. epochsLeft' => epochsLeft /\ p.EpochNum + 1 < EpochLimit
  <2>1. Len(issued) + 1 \in DOMAIN issued'
    BY <1>1
  <2> QED
    BY <1>1, <2>1 DEF epochsLeft
<1>5. ASSUME NEW e
      PROVE  /\ IsFiniteSet(numbered(e)) /\ Cardinality(numbered(e)) \in Nat
             /\ Cardinality(numbered(e)') =
                  Cardinality(numbered(e)) + (IF e = p.EpochNum THEN 1 ELSE 0)
             /\ sound(e)' => sound(e)
  <2>1. numbered(e) \subseteq 1..Len(issued)
    BY <1>1 DEF numbered
  <2>2. IsFiniteSet(numbered(e)) /\ Cardinality(numbered(e)) \in Nat
    <3>1. IsFiniteSet(1..Len(issued))
      BY <1>1, FS_Interval
    <3>2. IsFiniteSet(numbered(e))
      BY <2>1, <3>1, FS_Subset
    <3> QED
      BY <3>2, FS_CardinalityType
  <2>3. Len(issued) + 1 \notin numbered(e)
    BY <1>1, <2>1
  <2>4. ASSUME e = p.EpochNum
        PROVE Cardinality(numbered(e)') = Cardinality(numbered(e)) + (IF e = p.EpochNum THEN 1 ELSE 0)
    <3>1. numbered(e)' = numbered(e) \cup {Len(issued) + 1}
      <4> DEFINE A == numbered(e)'
                 B == numbered(e) \cup {Len(issued) + 1}
      <4>1. \A i : i \in numbered(e)' <=> i \in 1..(Len(issued) + 1) /\ issued'[i].EpochNum = e
        BY <1>1 DEF numbered
      <4>2. \A i : i \in numbered(e) <=> i \in 1..Len(issued) /\ issued[i].EpochNum = e
        BY <1>1 DEF numbered
      <4>3. \A i : i \in 1..(Len(issued) + 1) <=> i \in 1..Len(issued) \/ i = Len(issued) + 1
        BY <1>1
      <4>4. issued'[Len(issued) + 1].EpochNum = p.EpochNum /\ \A i \in 1..Len(issued) : issued'[i] = issued[i]
        BY <1>1
      <4>5. \A i : i \in numbered(e)' <=> i \in numbered(e) \/ i = Len(issued) + 1
        BY <2>4, <4>1, <4>2, <4>3, <4>4, Zenon
      <4>6. \A i : i \in A <=> i \in B
        BY <4>5
      <4> HIDE DEF A, B
      <4>7. A = B
        BY <4>6
      <4> QED
        BY <4>7 DEF A, B
    <3>2. Cardinality(numbered(e)') = Cardinality(numbered(e)) + 1
      BY <2>2, <2>3, <3>1, FS_AddElement
    <3> QED
      BY <2>4, <3>2
  <2>5. ASSUME e # p.EpochNum
        PROVE Cardinality(numbered(e)') = Cardinality(numbered(e)) + (IF e = p.EpochNum THEN 1 ELSE 0)
    <3>1. numbered(e)' = numbered(e)
      <4> DEFINE A == numbered(e)'
                 B == numbered(e)
      <4>1. \A i : i \in numbered(e)' <=> i \in 1..(Len(issued) + 1) /\ issued'[i].EpochNum = e
        BY <1>1 DEF numbered
      <4>2. \A i : i \in numbered(e) <=> i \in 1..Len(issued) /\ issued[i].EpochNum = e
        BY <1>1 DEF numbered
      <4>3. \A i : i \in 1..(Len(issued) + 1) <=> i \in 1..Len(issued) \/ i = Len(issued) + 1
        BY <1>1
      <4>4. issued'[Len(issued) + 1].EpochNum = p.EpochNum /\ \A i \in 1..Len(issued) : issued'[i] = issued[i]
        BY <1>1
      <4>5. \A i : i \in numbered(e)' <=> i \in numbered(e)
        BY ZenonT(60), <2>5, <4>1, <4>2, <4>3, <4>4, Zenon
      <4>6. \A i : i \in A <=> i \in B
        BY <4>5
      <4> HIDE DEF A, B
      <4>7. A = B
        BY <4>6
      <4> QED
        BY <4>7 DEF A, B
    <3> QED
      BY <2>2, <2>5, <3>1
  <2>6. Cardinality(numbered(e)') = Cardinality(numbered(e)) + (IF e = p.EpochNum THEN 1 ELSE 0)
    BY <2>4, <2>5
  <2>7. exhausted(e) => exhausted(e)'
    <3>1. exhausted(e) <=> Cardinality(numbered(e)) > CountLimit - (IF e = 0 THEN 1 ELSE 0)
      BY DEF exhausted, numbered
    <3>2. exhausted(e)' <=> Cardinality(numbered(e)') > CountLimit - (IF e = 0 THEN 1 ELSE 0)
      BY DEF exhausted, numbered
    <3>3. Cardinality(numbered(e)') \in Nat /\ Cardinality(numbered(e)') >= Cardinality(numbered(e))
      BY <2>2, <2>6
    <3> QED
      BY <2>2, <3>1, <3>2, <3>3, SizeAssumption
  <2> QED
    BY <1>4, <2>2, <2>6, <2>7 DEF sound
<1> QED
  BY <1>1, <1>2, <1>3, <1>4, <1>5

\* Nothing but what was proposed is added to what may be written.
LEMMA LiveGrows ==
  ASSUME TypeOK, NEW p \in Proposal, newProposalChan' = Append(newProposalChan, p),
         UNCHANGED <<writing, file>>
  PROVE  Live' = Live \cup {p} /\ Pending' = Pending \cup {p}
<1>1. writing' = writing /\ file' = file
  OBVIOUS
<1>2. /\ Len(newProposalChan) \in Nat /\ Len(newProposalChan') = Len(newProposalChan) + 1
      /\ \A i \in 1..Len(newProposalChan) : newProposalChan'[i] = newProposalChan[i]
      /\ newProposalChan'[Len(newProposalChan) + 1] = p
  <2>1. newProposalChan \in Seq(Proposal)
    BY DEF TypeOK
  <2> QED
    BY <2>1, AppendFacts
<1> DEFINE A == {newProposalChan[i] : i \in 1..Len(newProposalChan)}
           B == {newProposalChan'[i] : i \in 1..Len(newProposalChan')}
           W == IF writing = << >> THEN {} ELSE {writing[1].of}
<1>3. B = A \cup {p}
  <2>1. \A i : i \in 1..(Len(newProposalChan) + 1)
               <=> i \in 1..Len(newProposalChan) \/ i = Len(newProposalChan) + 1
    BY <1>2
  <2>2. \A q : q \in B <=> \E i \in 1..(Len(newProposalChan) + 1) : q = newProposalChan'[i]
    BY <1>2
  <2>3. \A q : q \in A <=> \E i \in 1..Len(newProposalChan) : q = newProposalChan[i]
    OBVIOUS
  <2> HIDE DEF A, B
  <2>4. \A q : q \in B <=> q \in A \/ q = p
    BY <1>2, <2>1, <2>2, <2>3
  <2> QED
    BY <2>4
<1>4. Pending = A \cup W /\ Pending' = B \cup W
  BY <1>1 DEF Pending
<1>5. {q \in Proposal : inFile(q)}' = {q \in Proposal : inFile(q)}
  BY <1>1 DEF inFile
<1> HIDE DEF A, B, W
<1>6. Pending' = Pending \cup {p}
  BY <1>3, <1>4
<1> DEFINE F == {q \in Proposal : inFile(q)}
<1>7. Live = F \cup Pending /\ Live' = F \cup Pending'
  BY <1>5 DEF Live
<1> HIDE DEF F
<1> QED
  BY <1>6, <1>7

\* A proposal keeps the invariant if it is numbered higher than all before, or
\* is the NewLeader of the epoch again; the counter becomes w.
LEMMA Proposes ==
  ASSUME LogInv, NEW z \in Number, NEW w \in Number, queueWriteProposal(z),
         zxidCounter' = w, w[1] = z[1], z[2] <= w[2],
         UNCHANGED <<writing, file, reader, cuts, restarts>>,
         SyncTypeOK', SyncInv', CardInv',
         epochsLeft' =>
           \/ zxidCounter[1] < z[1]
           \/ /\ serving /\ zxidCounter[1] = z[1]
              /\ sound(z[1])' => /\ zxidCounter[2] <= w[2]
                                 /\ zxidCounter[2] < z[2] \/ (z[1] # 0 /\ z[2] = 0)
  PROVE  LogInv'
<1>0. PICK p : p = [EpochNum |-> z[1], CountNum |-> z[2], id |-> Len(issued) + 1]
  OBVIOUS
<1>1. /\ Len(issued) < Len(ContentSize) /\ zxidCounter' = w
      /\ issued' = Append(issued, p) /\ newProposalChan' = Append(newProposalChan, p)
      /\ writing' = writing /\ file' = file /\ reader' = reader /\ cuts' = cuts
      /\ restarts' = restarts
  BY <1>0 DEF queueWriteProposal
<1>2. /\ TypeOK /\ FileInv /\ WritingInv /\ ChanInv /\ EpochInv /\ OrderInv /\ LastInv /\ ReaderInv
  BY DEF LogInv
<1>3. /\ zxidCounter \in Number /\ newProposalChan \in Seq(Proposal) /\ issued \in Seq(Proposal)
      /\ Len(issued) \in Nat /\ Len(ContentSize) \in Nat
  BY <1>2, LenProperties, SizeAssumption DEF TypeOK
<1>4. /\ z[1] \in 0..(EpochLimit - 1) /\ z[2] \in 0..(CountLimit - 1)
      /\ zxidCounter[1] \in 0..(EpochLimit - 1) /\ zxidCounter[2] \in 0..(CountLimit - 1)
      /\ w[1] = z[1] /\ w[2] \in 0..(CountLimit - 1) /\ z[2] <= w[2]
      /\ EpochLimit \in Nat /\ CountLimit \in Nat
  BY <1>3, SizeAssumption DEF Number
<1>5. p \in Proposal
  BY SMTT(60), <1>0, <1>1, <1>3, <1>4 DEF Proposal
<1>6. p.EpochNum = z[1] /\ p.CountNum = z[2] /\ p.id = Len(issued) + 1
  BY <1>0
<1>7. /\ \A q : Made(q) => Made(q)'
      /\ Made(p)'
      /\ Len(issued') = Len(issued) + 1 /\ issued'[Len(issued) + 1] = p
      /\ \A i \in 1..Len(issued) : i \in 1..Len(issued') /\ issued'[i] = issued[i]
      /\ epochsLeft' => epochsLeft /\ p.EpochNum + 1 < EpochLimit
      /\ \A e : sound(e)' => sound(e)
  <2>1. restarts' = restarts /\ issued' = Append(issued, p) /\ TypeOK
    BY <1>1, <1>2
  <2>2. \A e : sound(e)' => sound(e)
    BY <1>5, <1>6, <2>1, IssuedGrows
  <2>3. Made(p)' /\ \A q : Made(q) => Made(q)'
    BY <1>5, <1>6, <2>1, IssuedGrows
  <2>4. epochsLeft' => epochsLeft /\ p.EpochNum + 1 < EpochLimit
    BY <1>5, <1>6, <2>1, IssuedGrows
  <2>5. Len(issued') = Len(issued) + 1 /\ issued'[Len(issued) + 1] = p
    BY <1>5, <1>6, <2>1, IssuedGrows
  <2>6. \A i \in 1..Len(issued) : i \in 1..Len(issued') /\ issued'[i] = issued[i]
    BY <1>5, <1>6, <2>1, IssuedGrows
  <2> QED
    BY <2>2, <2>3, <2>4, <2>5, <2>6
<1>8. Live' = Live \cup {p} /\ Pending' = Pending \cup {p}
  BY <1>1, <1>2, <1>5, LiveGrows
<1>9. /\ \A q \in Live : q \in Proposal /\ Made(q)
      /\ Pending \subseteq Live
  BY LiveFacts
<1>10. TypeOK'
  <2>1. newProposalChan' \in Seq(Proposal) /\ issued' \in Seq(Proposal)
    BY <1>1, <1>3, <1>5, AppendFacts
  <2>2. Len(issued') <= Len(ContentSize)
    BY <1>1, <1>3, <1>7
  <2> QED
    BY <1>1, <1>2, <2>1, <2>2 DEF TypeOK
<1>11. FileInv'
  BY SMTT(60), <1>1, <1>2, <1>7 DEF FileInv
<1>12. WritingInv'
  BY <1>1, <1>2, <1>7 DEF WritingInv, Left
<1>13. ASSUME NEW q, Made(q) PROVE q.id < p.id /\ q.id \in Nat
  BY <1>3, <1>6, <1>13 DEF Made
<1>14. ChanInv'
  <2>1. /\ Len(newProposalChan) \in Nat /\ Len(newProposalChan') = Len(newProposalChan) + 1
        /\ \A i \in 1..Len(newProposalChan) : newProposalChan'[i] = newProposalChan[i]
        /\ newProposalChan'[Len(newProposalChan) + 1] = p
    BY <1>1, <1>3, <1>5, AppendFacts
  <2>2. \A i \in 1..Len(issued') : issued'[i].id = i
    <3>1. \A i \in 1..Len(issued) : issued[i].id = i
      BY <1>2 DEF ChanInv
    <3> QED
      BY SMTT(60), <1>3, <1>6, <1>7, <3>1
  <2>3. ASSUME NEW i \in 1..Len(newProposalChan')
        PROVE  /\ newProposalChan'[i].id \in 1..Len(issued')
               /\ issued'[newProposalChan'[i].id] = newProposalChan'[i]
               /\ writing' # << >> => writing'[1].of.id < newProposalChan'[i].id
               /\ \A e \in DOMAIN file' : \A j \in 1..Len(file'[e]) :
                    file'[e][j].of.id < newProposalChan'[i].id
    <3>1. CASE i \in 1..Len(newProposalChan)
      <4>1. /\ Made(newProposalChan[i])
            /\ writing # << >> => writing[1].of.id < newProposalChan[i].id
            /\ \A e \in DOMAIN file : \A j \in 1..Len(file[e]) :
                 file[e][j].of.id < newProposalChan[i].id
        BY <1>2, <3>1 DEF ChanInv
      <4>2. newProposalChan'[i] = newProposalChan[i]
        BY <2>1, <3>1
      <4>3. newProposalChan[i].id \in 1..Len(issued') /\ issued'[newProposalChan[i].id] = newProposalChan[i]
        BY <1>7, <4>1 DEF Made
      <4> QED
        BY <1>1, <4>1, <4>2, <4>3
    <3>2. CASE i = Len(newProposalChan) + 1
      <4>1. newProposalChan'[i] = p
        BY SMTT(60), <2>1, <3>2
      <4>2. writing # << >> => Made(writing[1].of)
        BY <1>2 DEF WritingInv, Left
      <4>3. \A e \in DOMAIN file : \A j \in 1..Len(file[e]) : Made(file[e][j].of)
        BY <1>2 DEF FileInv
      <4>4. writing # << >> => writing[1].of.id < p.id
        BY <1>13, <4>2
      <4>5. \A e \in DOMAIN file : \A j \in 1..Len(file[e]) : file[e][j].of.id < p.id
        BY <1>13, <4>3
      <4>6. p.id \in 1..Len(issued') /\ issued'[p.id] = p
        BY <1>7 DEF Made
      <4> QED
        BY <1>1, <4>1, <4>4, <4>5, <4>6
    <3> QED
      BY <2>1, <3>1, <3>2
  <2>4. ASSUME NEW i \in 1..Len(newProposalChan'), NEW j \in 1..Len(newProposalChan'), i < j
        PROVE  newProposalChan'[i].id < newProposalChan'[j].id
    <3>1. i \in 1..Len(newProposalChan)
      BY <2>1, <2>4
    <3>2. CASE j \in 1..Len(newProposalChan)
      <4>1. newProposalChan[i].id < newProposalChan[j].id
        BY <1>2, <2>4, <3>1, <3>2 DEF ChanInv
      <4> QED
        BY <2>1, <3>1, <3>2, <4>1
    <3>3. CASE j = Len(newProposalChan) + 1
      <4>1. Made(newProposalChan[i])
        BY <1>2, <3>1 DEF ChanInv
      <4>2. newProposalChan[i].id < p.id
        BY <1>13, <4>1
      <4> QED
        BY <2>1, <3>1, <3>3, <4>2
    <3> QED
      BY <2>1, <3>2, <3>3
  <2> QED
    BY <2>2, <2>3, <2>4 DEF ChanInv, Made
<1>15. epochsLeft' =>
         /\ \A q \in Live : q.EpochNum <= zxidCounter[1] /\ q.EpochNum \in Nat
         /\ \A e \in DOMAIN file : e <= zxidCounter[1] /\ e \in Nat
  <2>1. \A q \in Live : q.EpochNum \in Nat
    BY <1>9, ProposalFacts
  <2>2. \A e \in DOMAIN file : e \in Nat
    BY <1>2, <1>4 DEF TypeOK
  <2> QED
    BY <1>2, <1>7, <2>1, <2>2 DEF EpochInv
<1>16. EpochInv'
  <2>1. zxidCounter'[1] # 0 => \E i \in 1..Len(issued') : issued'[i].EpochNum = zxidCounter'[1]
    <3>1. Len(issued) + 1 \in 1..Len(issued')
      BY <1>3, <1>7
    <3> QED
      BY <1>1, <1>4, <1>6, <1>7, <3>1
  <2>2. \A e \in DOMAIN file' : \E i \in 1..Len(issued') : issued'[i].EpochNum = e
    BY <1>1, <1>2, <1>7 DEF EpochInv
  <2>3. ASSUME epochsLeft'
        PROVE  /\ \A q \in Live' : q.EpochNum <= zxidCounter'[1]
               /\ \A e \in DOMAIN file' : e <= zxidCounter'[1]
    <3>1. zxidCounter[1] <= z[1]
      BY <1>4, <2>3
    <3>2. zxidCounter[1] \in Nat /\ z[1] \in Nat /\ z[1] <= z[1]
      BY <1>4
    <3>3. \A q \in Live : q.EpochNum <= z[1]
      BY <1>15, <2>3, <3>1, <3>2
    <3>4. \A e \in DOMAIN file : e <= z[1]
      BY <1>15, <2>3, <3>1, <3>2
    <3> QED
      BY <1>1, <1>4, <1>6, <1>8, <3>2, <3>3, <3>4
  <2> QED
    BY <2>1, <2>2, <2>3 DEF EpochInv
<1>17. ASSUME sound(z[1])', NEW q \in Live, q.EpochNum = z[1]
       PROVE  q.CountNum <= w[2] /\ (q.CountNum < z[2] \/ (z[1] # 0 /\ z[2] = 0))
  <2>1. epochsLeft' /\ sound(z[1])
    BY <1>7, <1>17 DEF sound
  <2>2. q.EpochNum <= zxidCounter[1]
    BY <1>15, <2>1
  <2>3. ~(zxidCounter[1] < z[1])
    BY <1>4, <1>17, <2>2
  <2>4. /\ serving /\ zxidCounter[1] = z[1]
        /\ zxidCounter[2] <= w[2]
        /\ zxidCounter[2] < z[2] \/ (z[1] # 0 /\ z[2] = 0)
    BY <1>17, <2>1, <2>3
  <2>5. q.CountNum <= zxidCounter[2]
    BY <1>2, <1>17, <2>1, <2>4 DEF OrderInv
  <2>6. q.CountNum \in Nat /\ zxidCounter[2] \in Nat /\ z[2] \in Nat /\ w[2] \in Nat
    BY <1>4, <1>9, ProposalFacts
  <2> QED
    BY <2>4, <2>5, <2>6
<1>18. \A q \in Live : q.CountNum \in Nat
  BY <1>9, ProposalFacts
<1>19. OrderInv'
  <2>1. ASSUME NEW a \in Live', NEW b \in Live', a.EpochNum = b.EpochNum, sound(a.EpochNum)', a.id < b.id
        PROVE  a.CountNum < b.CountNum \/ (a.EpochNum # 0 /\ b.CountNum = 0)
    <3>1. CASE a = p
      <4>1. b \in Live \/ b = p
        BY <1>8
      <4>2. b.id <= p.id /\ b.id \in Nat /\ p.id \in Nat
        BY <1>3, <1>6, <1>9, <1>13, <4>1
      <4> QED
        BY <2>1, <3>1, <4>2
    <3>2. CASE a \in Live /\ b = p
      <4>1. a.EpochNum = z[1] /\ sound(z[1])'
        BY <1>6, <2>1, <3>2
      <4> QED
        BY <1>6, <1>17, <3>2, <4>1
    <3>3. CASE a \in Live /\ b \in Live
      <4>1. sound(a.EpochNum)
        BY <1>7, <2>1
      <4> QED
        BY <1>2, <2>1, <3>3, <4>1 DEF OrderInv
    <3> QED
      BY <1>8, <3>1, <3>2, <3>3
  <2>2. ASSUME sound(zxidCounter[1])', NEW a \in Live', a.EpochNum = zxidCounter'[1]
        PROVE  a.CountNum <= zxidCounter'[2]
    <3>1. CASE a = p
      BY <1>1, <1>4, <1>6, <3>1
    <3>2. CASE a \in Live
      <4>1. sound(z[1])'
        BY <1>1, <1>4, <2>2 DEF sound, epochsLeft, exhausted
      <4>2. a.CountNum <= w[2]
        BY <1>1, <1>4, <1>17, <2>2, <3>2, <4>1
      <4> QED
        BY <1>1, <4>2
    <3> QED
      BY <1>8, <3>1, <3>2
  <2> QED
    BY <2>1, <2>2 DEF OrderInv
<1>20. LastInv'
  <2> SUFFICES ASSUME zxidCounter'[1] # 0, sound(zxidCounter[1])'
               PROVE  /\ \A q \in Pending' : q.EpochNum = zxidCounter'[1] => q.CountNum <= zxidCounter'[2]
                      /\ \A e \in DOMAIN file' :
                           e = zxidCounter'[1] /\ Len(file'[e]) \in ends(file'[e])
                             => file'[e][Len(file'[e])].of.CountNum <= zxidCounter'[2]
    BY DEF LastInv
  <2>1. sound(z[1])'
    BY <1>1, <1>4 DEF sound, epochsLeft, exhausted
  <2>2. ASSUME NEW q \in Pending', q.EpochNum = zxidCounter'[1] PROVE q.CountNum <= zxidCounter'[2]
    <3>1. CASE q = p
      BY <1>1, <1>4, <1>6, <3>1
    <3>2. CASE q \in Pending
      <4>1. q \in Live
        BY <1>9, <3>2
      <4>2. q.CountNum <= w[2]
        BY <1>1, <1>4, <1>17, <2>1, <2>2, <4>1
      <4> QED
        BY <1>1, <4>2
    <3> QED
      BY <1>8, <3>1, <3>2
  <2>3. ASSUME NEW e \in DOMAIN file', e = zxidCounter'[1], Len(file'[e]) \in ends(file'[e])
        PROVE  file'[e][Len(file'[e])].of.CountNum <= zxidCounter'[2]
    <3> DEFINE q == file[e][Len(file[e])].of
    <3>1. e \in DOMAIN file /\ Len(file[e]) \in 1..Len(file[e]) /\ file[e] \in Seq(Byte)
      <4>1. e \in DOMAIN file /\ file[e] \in Seq(Byte) /\ Len(file[e]) \in ends(file[e])
        BY <1>1, <1>2, <2>3 DEF TypeOK
      <4> QED
        BY <4>1, LenProperties DEF ends
    <3>2. q \in Live
      BY <3>1, LiveFacts
    <3>3. q.EpochNum = z[1]
      BY <1>1, <1>2, <1>4, <2>3, <3>1 DEF FileInv
    <3> HIDE DEF q
    <3>4. q.CountNum <= w[2]
      BY <1>17, <2>1, <3>2, <3>3
    <3> QED
      BY <1>1, <3>4 DEF q
  <2> QED
    BY <2>2, <2>3
<1>21. ReaderInv'
  BY <1>1, <1>2 DEF ReaderInv
<1> QED
  BY <1>10, <1>11, <1>12, <1>14, <1>16, <1>19, <1>20, <1>21 DEF LogInv

\* What is not about the reader holds when only the reader changes.
LEMMA ReaderFrame ==
  ASSUME LogInv, ReaderInv',
         UNCHANGED <<zxidCounter, syncVars, newProposalChan, writing, file, cuts, restarts, issued>>
  PROVE  LogInv'
<1>1. /\ zxidCounter' = zxidCounter /\ newProposalChan' = newProposalChan
      /\ writing' = writing /\ file' = file /\ cuts' = cuts /\ restarts' = restarts /\ issued' = issued
  OBVIOUS
<1>2. Live' = Live /\ Pending' = Pending
  BY <1>1 DEF Live, Pending, inFile
<1>3. /\ SyncTypeOK' /\ SyncInv' /\ CardInv' /\ OrderInv'
      /\ \A p \in Live' : epochsLeft' => p.EpochNum <= zxidCounter'[1]
  BY SMTT(60), <1>1, <1>2, NumbersKept
<1>4. TypeOK' /\ FileInv' /\ WritingInv' /\ ChanInv'
  BY SMTT(60), <1>1, <1>3 DEF LogInv, TypeOK, FileInv, WritingInv, ChanInv, Left, Made
<1>5. EpochInv'
  BY <1>1, <1>3 DEF LogInv, EpochInv, epochsLeft
<1>6. LastInv'
  <2>1. sound(zxidCounter[1])' => sound(zxidCounter[1])
    BY <1>1 DEF sound, exhausted, epochsLeft
  <2> QED
    BY <1>1, <1>2, <2>1 DEF LogInv, LastInv
<1> QED
  BY <1>3, <1>4, <1>5, <1>6 DEF LogInv

-----------------------------------------------------------------------------
(* The counter *)

\* What the counter holds.
LEMMA CounterFacts ==
  ASSUME TypeOK
  PROVE  /\ EpochLimit \in Nat /\ EpochLimit >= 1 /\ CountLimit \in Nat /\ CountLimit >= 1
         /\ zxidCounter[1] \in 0..(EpochLimit - 1) /\ zxidCounter[2] \in 0..(CountLimit - 1)
         /\ zxidCounter = <<zxidCounter[1], zxidCounter[2]>>
BY SMTT(60), SizeAssumption DEF TypeOK, Number

\* A proposal gets a number, which its epoch has one more of.
LEMMA OneMoreNumber ==
  ASSUME TypeOK, NEW z \in Number, queueWriteProposal(z), zxidCounter'[1] = z[1],
         restarts' = restarts
  PROVE  /\ \A e : Cardinality(numbered(e)) \in Nat
         /\ Cardinality(numbered(z[1])') = Cardinality(numbered(z[1])) + 1
         /\ Cardinality(numbered(zxidCounter[1])') = Cardinality(numbered(z[1])) + 1
         /\ sound(z[1])' => Cardinality(numbered(z[1])) + 1 <= CountLimit - (IF z[1] = 0 THEN 1 ELSE 0)
         /\ epochsLeft' => epochsLeft /\ z[1] + 1 < EpochLimit
<1>0. PICK p : p = [EpochNum |-> z[1], CountNum |-> z[2], id |-> Len(issued) + 1]
  OBVIOUS
<1>1. /\ Len(issued) < Len(ContentSize) /\ zxidCounter'[1] = z[1] /\ issued' = Append(issued, p)
      /\ p.EpochNum = z[1] /\ p.id = Len(issued) + 1
  BY <1>0 DEF queueWriteProposal
<1>2. p \in Proposal
  <2>1. Len(issued) \in Nat /\ Len(ContentSize) \in Nat
    BY LenProperties, SizeAssumption DEF TypeOK
  <2>2. z[1] \in 0..(EpochLimit - 1) /\ z[2] \in 0..(CountLimit - 1)
    BY DEF Number
  <2> QED
    BY <1>0, <1>1, <2>1, <2>2 DEF Proposal
<1>3. /\ \A e : Cardinality(numbered(e)) \in Nat
      /\ Cardinality(numbered(z[1])') = Cardinality(numbered(z[1])) + 1
      /\ epochsLeft' => epochsLeft /\ z[1] + 1 < EpochLimit
  <2>1. /\ \A e : /\ IsFiniteSet(numbered(e)) /\ Cardinality(numbered(e)) \in Nat
                 /\ Cardinality(numbered(e)') =
                      Cardinality(numbered(e)) + (IF e = p.EpochNum THEN 1 ELSE 0)
        /\ epochsLeft' => epochsLeft /\ p.EpochNum + 1 < EpochLimit
    BY <1>1, <1>2, IssuedGrows
  <2> QED
    BY <1>1, <2>1
<1>4. numbered(zxidCounter[1])' = numbered(z[1])'
  BY <1>1 DEF numbered
<1>5. sound(z[1])' => Cardinality(numbered(z[1])') <= CountLimit - (IF z[1] = 0 THEN 1 ELSE 0)
  <2>1. sound(z[1])' => ~(Cardinality(numbered(z[1])') > CountLimit - (IF z[1] = 0 THEN 1 ELSE 0))
    BY DEF sound, exhausted, numbered
  <2>2. Cardinality(numbered(z[1])') \in Nat /\ CountLimit \in Nat
    BY <1>3, SizeAssumption
  <2> QED
    BY <2>1, <2>2
<1> QED
  BY <1>1, <1>3, <1>4, <1>5

\* A request is numbered next.
LEMMA RequestStep ==
  ASSUME LogInv, processRequest
  PROVE  LogInv'
<1>0. PICK z : z = incCount(zxidCounter)
  OBVIOUS
<1>1. /\ serving /\ queueWriteProposal(z) /\ zxidCounter' = z
      /\ UNCHANGED <<syncVars, writing, file, reader, cuts, restarts>> /\ restarts' = restarts
  BY <1>0 DEF processRequest, serving
<1>2. /\ TypeOK /\ EpochLimit \in Nat /\ EpochLimit >= 1 /\ CountLimit \in Nat /\ CountLimit >= 1
      /\ zxidCounter[1] \in 0..(EpochLimit - 1) /\ zxidCounter[2] \in 0..(CountLimit - 1)
  BY CounterFacts DEF LogInv
<1>3. z[1] = zxidCounter[1] /\ z[2] = (zxidCounter[2] + 1) % CountLimit /\ z = <<z[1], z[2]>>
  BY <1>0 DEF incCount
<1>4. /\ z[2] \in 0..(CountLimit - 1) /\ z[2] <= zxidCounter[2] + 1
      /\ zxidCounter[2] + 1 < CountLimit => z[2] = zxidCounter[2] + 1
  BY <1>2, <1>3
<1>5. z \in Number
  BY <1>2, <1>3, <1>4 DEF Number
<1>6. /\ Cardinality(numbered(z[1])) \in Nat
      /\ epochsLeft' => epochsLeft
      /\ Cardinality(numbered(zxidCounter[1])') = Cardinality(numbered(z[1])) + 1
      /\ sound(z[1])' => Cardinality(numbered(z[1])) + 1 <= CountLimit - (IF z[1] = 0 THEN 1 ELSE 0)
  BY <1>1, <1>2, <1>5, OneMoreNumber
<1>7. Cardinality(numbered(z[1])) >= zxidCounter[2] + (IF z[1] = 0 THEN 0 ELSE 1)
  BY <1>1, <1>3 DEF LogInv, CardInv
<1>8. CardInv'
  <2>1. Cardinality(numbered(zxidCounter[1])') >= z[2] + (IF z[1] = 0 THEN 0 ELSE 1)
    BY <1>2, <1>4, <1>6, <1>7
  <2>2. zxidCounter'[1] = z[1] /\ zxidCounter'[2] = z[2]
    BY <1>1
  <2> QED
    BY <2>1, <2>2 DEF CardInv
<1>10. SyncTypeOK' /\ SyncInv'
  <2>1. /\ requestsEnabled' = requestsEnabled /\ syncing' = syncing /\ currentSync' = currentSync
        /\ requestsProcessingEnabled' = requestsProcessingEnabled
    BY <1>1 DEF syncVars
  <2> QED
    BY <1>1, <1>2, <1>3, <1>6, <2>1 DEF LogInv, TypeOK, SyncTypeOK, SyncInv
<1>9. sound(z[1])' => zxidCounter[2] < z[2]
  <2>1. sound(z[1])' => zxidCounter[2] + 1 < CountLimit
    BY <1>2, <1>3, <1>6, <1>7
  <2> QED
    BY <1>2, <1>4, <2>1
<1>11. z[2] <= z[2] /\ (sound(z[1])' => zxidCounter[2] <= z[2])
  BY <1>2, <1>4, <1>9
<1> QED
  BY <1>1, <1>3, <1>5, <1>8, <1>9, <1>10, <1>11, Proposes

\* The flags and the last NewLeader are of their types after a step that gives
\* them such values.
LEMMA SyncTypes ==
  ASSUME requestsEnabled' \in BOOLEAN, requestsProcessingEnabled' \in BOOLEAN,
         syncing' \in BOOLEAN, currentSync' \in Number
  PROVE  SyncTypeOK'
BY DEF SyncTypeOK

\* A new leader opens an epoch higher than all that are used, or saves its
\* NewLeader once more.
LEMMA NewLeaderStep ==
  ASSUME LogInv, Continue
  PROVE  LogInv'
<1>1. /\ UNCHANGED <<writing, file, reader, cuts, restarts>> /\ restarts' = restarts
      /\ requestsEnabled' = TRUE /\ SendNewLeader
  BY DEF Continue
<1>2. /\ TypeOK /\ EpochLimit \in Nat /\ EpochLimit >= 1 /\ CountLimit \in Nat /\ CountLimit >= 1
      /\ zxidCounter[1] \in 0..(EpochLimit - 1) /\ zxidCounter[2] \in 0..(CountLimit - 1)
  BY CounterFacts DEF LogInv
<1>3. CASE zxidCounter = <<0, 0>>
  <2>1. /\ UNCHANGED <<currentSync, zxidCounter, newProposalChan, issued>>
        /\ requestsProcessingEnabled' = TRUE /\ syncing' = FALSE
        /\ zxidCounter[1] = 0 /\ zxidCounter[2] = 0
    BY <1>1, <1>3 DEF SendNewLeader
  <2>2. /\ zxidCounter' = zxidCounter /\ newProposalChan' = newProposalChan /\ issued' = issued
        /\ writing' = writing /\ file' = file /\ reader' = reader /\ cuts' = cuts
    BY <1>1, <2>1
  <2>3. Live' = Live /\ Pending' = Pending
    BY <2>2 DEF Live, Pending, inFile
  <2>4. /\ \A e : sound(e)' <=> sound(e)
        /\ epochsLeft' <=> epochsLeft
    BY <1>1, <2>2 DEF sound, exhausted, epochsLeft
  <2>5. CardInv'
    <3>1. IsFiniteSet(numbered(0)')
      <4>1. issued \in Seq(Proposal)
        BY <1>2 DEF TypeOK
      <4>2. numbered(0)' \in SUBSET (1..Len(issued)) /\ Len(issued) \in Nat
        BY <2>2, <4>1, LenProperties DEF numbered
      <4>3. IsFiniteSet(1..Len(issued))
        BY <4>2, FS_Interval
      <4> QED
        BY <4>2, <4>3, FS_Subset
    <3>2. Cardinality(numbered(0)') >= 0
      BY <3>1, FS_CardinalityType
    <3>3. numbered(zxidCounter[1])' = numbered(0)' /\ zxidCounter'[1] = 0 /\ zxidCounter'[2] = 0
      BY <2>1, <2>2 DEF numbered
    <3> QED
      BY <3>2, <3>3 DEF CardInv
  <2>6. OrderInv'
    <3>1. /\ \A p, q \in Live : p.EpochNum = q.EpochNum /\ sound(p.EpochNum) /\ p.id < q.id
               => p.CountNum < q.CountNum \/ (p.EpochNum # 0 /\ q.CountNum = 0)
          /\ sound(0) => \A p \in Live : p.EpochNum = 0 => p.CountNum <= 0
      BY <2>1 DEF LogInv, OrderInv
    <3>2. sound(zxidCounter[1])' => sound(0)
      BY <1>1, <2>1, <2>2 DEF sound, exhausted, epochsLeft
    <3> QED
      BY <2>1, <2>2, <2>3, <2>4, <3>1, <3>2 DEF OrderInv
  <2>7. LastInv'
    BY <2>1, <2>2 DEF LastInv
  <2>11. SyncTypeOK' /\ SyncInv'
    <3>1. SyncTypeOK'
      BY <1>1, <1>2, <2>1, SyncTypes DEF TypeOK, SyncTypeOK
    <3> QED
      BY <2>1, <3>1 DEF SyncInv
  <2>8. TypeOK'
    BY SMTT(60), <1>1, <1>2, <2>2, <2>11 DEF TypeOK
  <2>9. FileInv' /\ WritingInv' /\ ChanInv' /\ ReaderInv'
    BY <2>2 DEF LogInv, FileInv, WritingInv, ChanInv, ReaderInv, Left, Made
  <2>10. EpochInv'
    BY <2>2, <2>3, <2>4 DEF LogInv, EpochInv
  <2> QED
    BY <2>5, <2>6, <2>7, <2>8, <2>9, <2>10, <2>11 DEF LogInv
<1>4. CASE zxidCounter # <<0, 0>> /\ ~syncing
  <2>0. PICK z : z = incEpoch(zxidCounter)
    OBVIOUS
  <2>1. /\ queueWriteProposal(z) /\ zxidCounter' = z /\ currentSync' = z
        /\ syncing' = TRUE /\ requestsProcessingEnabled' = requestsProcessingEnabled
    BY <1>1, <1>4, <2>0 DEF SendNewLeader
  <2>2. z[1] = (zxidCounter[1] + 1) % EpochLimit /\ z[2] = 0 /\ z = <<z[1], z[2]>>
    BY <2>0 DEF incEpoch
  <2>3. z[1] \in 0..(EpochLimit - 1) /\ (zxidCounter[1] + 1 < EpochLimit => z[1] = zxidCounter[1] + 1)
    BY <1>2, <2>2
  <2>4. z \in Number
    BY <1>2, <2>2, <2>3 DEF Number
  <2>5. /\ Cardinality(numbered(z[1])) \in Nat
        /\ Cardinality(numbered(zxidCounter[1])') = Cardinality(numbered(z[1])) + 1
        /\ epochsLeft' => epochsLeft /\ z[1] + 1 < EpochLimit
    BY <1>1, <1>2, <2>1, <2>4, OneMoreNumber
  <2>6. CardInv'
    <3>1. Cardinality(numbered(zxidCounter[1])') >= z[2] + (IF z[1] = 0 THEN 0 ELSE 1)
      BY <2>2, <2>5
    <3>2. zxidCounter'[1] = z[1] /\ zxidCounter'[2] = z[2]
      BY <2>1
    <3> QED
      BY <3>1, <3>2 DEF CardInv
  <2>7. epochsLeft' => zxidCounter[1] < z[1]
    <3> SUFFICES ASSUME epochsLeft' PROVE zxidCounter[1] < z[1]
      OBVIOUS
    <3>1. epochsLeft /\ z[1] + 1 < EpochLimit
      BY <2>5
    <3>2. zxidCounter[1] + 1 < EpochLimit
      <4>1. CASE zxidCounter[1] = 0
        BY <1>2, <2>3, <3>1, <4>1
      <4>2. CASE zxidCounter[1] # 0
        <5>1. PICK i \in 1..Len(issued) : issued[i].EpochNum = zxidCounter[1]
          BY <4>2 DEF LogInv, EpochInv
        <5>2. i \in DOMAIN issued
          <6>1. issued \in Seq(Proposal)
            BY <1>2 DEF TypeOK
          <6> QED
            BY <5>1, <6>1, LenProperties
        <5> QED
          BY <3>1, <5>1, <5>2 DEF epochsLeft
      <4> QED
        BY <4>1, <4>2
    <3> QED
      BY <1>2, <2>3, <3>2
  <2>8. SyncTypeOK' /\ SyncInv'
    <3>1. SyncTypeOK'
      BY <1>1, <1>2, <2>1, <2>4, SyncTypes DEF TypeOK, SyncTypeOK
    <3>2. epochsLeft' => z[1] # 0
      BY <1>2, <2>3, <2>7
    <3> QED
      BY <2>1, <2>2, <3>1, <3>2 DEF SyncInv
  <2>9. z[2] <= z[2]
    BY <2>2
  <2> QED
    BY <1>1, <2>1, <2>4, <2>6, <2>7, <2>8, <2>9, Proposes
<1>5. CASE zxidCounter # <<0, 0>> /\ syncing
  <2>1. /\ queueWriteProposal(currentSync) /\ zxidCounter' = zxidCounter
        /\ currentSync' = currentSync
        /\ syncing' = TRUE /\ requestsProcessingEnabled' = requestsProcessingEnabled
    BY <1>1, <1>5 DEF SendNewLeader
  <2>2. /\ currentSync = <<zxidCounter[1], 0>> /\ (epochsLeft => zxidCounter[1] # 0)
        /\ serving
        /\ Cardinality(numbered(zxidCounter[1])) >= zxidCounter[2] + (IF zxidCounter[1] = 0 THEN 0 ELSE 1)
    BY <1>5 DEF LogInv, SyncInv, CardInv, serving
  <2>3. /\ currentSync \in Number /\ zxidCounter \in Number
        /\ currentSync[1] = zxidCounter[1] /\ currentSync[2] = 0
    BY <1>2, <2>2 DEF TypeOK, SyncTypeOK
  <2>4. /\ Cardinality(numbered(currentSync[1])) \in Nat
        /\ Cardinality(numbered(zxidCounter[1])') = Cardinality(numbered(currentSync[1])) + 1
        /\ epochsLeft' => epochsLeft
    BY <1>1, <1>2, <2>1, <2>3, OneMoreNumber
  <2>5. CardInv'
    <3>1. Cardinality(numbered(zxidCounter[1])') >= zxidCounter[2] + (IF zxidCounter[1] = 0 THEN 0 ELSE 1)
      BY <1>2, <2>2, <2>3, <2>4
    <3> QED
      BY <2>1, <3>1 DEF CardInv
  <2>6. SyncTypeOK' /\ SyncInv'
    <3>1. SyncTypeOK'
      BY <1>1, <1>2, <2>1, <2>3, SyncTypes DEF TypeOK, SyncTypeOK
    <3> QED
      BY <2>1, <2>2, <2>4, <3>1 DEF SyncInv
  <2>7. zxidCounter[2] <= zxidCounter[2] /\ currentSync[2] <= zxidCounter[2]
    BY <1>2, <2>3
  <2>8. epochsLeft' => currentSync[1] # 0
    BY <2>2, <2>3, <2>4
  <2> QED
    BY <1>1, <2>1, <2>2, <2>3, <2>5, <2>6, <2>7, <2>8, Proposes
<1> QED
  BY <1>3, <1>4, <1>5

\* A step that only changes the flags keeps the invariant, if it does not begin
\* a sync or open an epoch.
LEMMA FlagStep ==
  ASSUME LogInv, SyncTypeOK', syncing' => syncing, serving' => serving,
         currentSync' = currentSync,
         UNCHANGED <<zxidCounter, newProposalChan, writing, file, reader, cuts, restarts, issued>>
  PROVE  LogInv'
<1>1. /\ zxidCounter' = zxidCounter /\ newProposalChan' = newProposalChan
      /\ writing' = writing /\ file' = file /\ reader' = reader /\ cuts' = cuts
      /\ restarts' = restarts /\ issued' = issued
  OBVIOUS
<1>2. Live' = Live /\ Pending' = Pending
  BY <1>1 DEF Live, Pending, inFile
<1>3. /\ \A e : sound(e)' <=> sound(e)
      /\ epochsLeft' <=> epochsLeft
  BY <1>1 DEF sound, exhausted, epochsLeft
<1>4. TypeOK'
  BY <1>1 DEF LogInv, TypeOK
<1>5. FileInv' /\ WritingInv' /\ ChanInv' /\ ReaderInv'
  BY <1>1 DEF LogInv, FileInv, WritingInv, ChanInv, ReaderInv, Left, Made
<1>6. EpochInv' /\ SyncInv' /\ CardInv'
  <2>1. \A e : numbered(e)' = numbered(e)
    BY <1>1 DEF numbered
  <2>2. EpochInv'
    BY <1>1, <1>2, <1>3 DEF LogInv, EpochInv
  <2> QED
    BY <1>1, <1>3, <2>1, <2>2 DEF LogInv, SyncInv, CardInv
<1>7. OrderInv' /\ LastInv'
  <2>1. sound(zxidCounter[1])' => sound(zxidCounter[1])
    BY <1>1 DEF sound, exhausted, epochsLeft
  <2>2. OrderInv /\ LastInv
    BY DEF LogInv
  <2>3. OrderInv'
    BY <1>1, <1>2, <1>3, <2>1, <2>2 DEF OrderInv
  <2>4. LastInv'
    BY <1>1, <1>2, <2>1, <2>2 DEF LastInv
  <2> QED
    BY <2>3, <2>4
<1> QED
  BY <1>4, <1>5, <1>6, <1>7 DEF LogInv

\* An election takes nothing back.
LEMMA PauseStep ==
  ASSUME LogInv, Pause
  PROVE  LogInv'
<1>1. /\ requestsEnabled' = FALSE /\ requestsProcessingEnabled' = FALSE
      /\ UNCHANGED <<syncing, currentSync>>
      /\ UNCHANGED <<zxidCounter, newProposalChan, writing, file, reader, cuts, restarts, issued>>
  BY DEF Pause
<1>2. SyncTypeOK' /\ (syncing' => syncing) /\ (serving' => serving)
  <2>1. SyncTypeOK
    BY DEF LogInv, TypeOK
  <2> QED
    BY <1>1, <2>1 DEF SyncTypeOK, serving
<1> QED
  BY <1>1, <1>2, FlagStep

\* The last ACK ends a sync; the epoch is served as before.
LEMMA AckStep ==
  ASSUME LogInv, processACK
  PROVE  LogInv'
<1>1. /\ requestsEnabled' = requestsEnabled /\ requestsProcessingEnabled' = TRUE
      /\ syncing /\ syncing' = FALSE /\ currentSync' = currentSync
      /\ UNCHANGED <<zxidCounter, newProposalChan, writing, file, reader, cuts, restarts, issued>>
  BY DEF processACK
<1>2. SyncTypeOK' /\ (syncing' => syncing) /\ (serving' => serving)
  <2>1. SyncTypeOK
    BY DEF LogInv, TypeOK
  <2> QED
    BY <1>1, <2>1 DEF SyncTypeOK, serving
<1> QED
  BY <1>1, <1>2, FlagStep

-----------------------------------------------------------------------------
(* The writer *)

\* A record that is cut short leaves its bytes.
LEMMA FailStep ==
  ASSUME LogInv, WriteFails
  PROVE  LogInv'
<1>1. /\ writing' = << >> /\ zxidCounter' = zxidCounter /\ newProposalChan' = newProposalChan
      /\ UNCHANGED syncVars /\ file' = file /\ reader' = reader /\ cuts' = cuts + 1
      /\ restarts' = restarts /\ issued' = issued
  BY DEF WriteFails
<1>2. Pending' \subseteq Pending /\ Live' \subseteq Live
  <2>1. Pending' = {newProposalChan[i] : i \in 1..Len(newProposalChan)}
    BY <1>1 DEF Pending
  <2>2. Pending' \subseteq Pending
    BY <2>1 DEF Pending
  <2>3. {q \in Proposal : inFile(q)}' = {q \in Proposal : inFile(q)}
    BY <1>1 DEF inFile
  <2> QED
    BY <2>2, <2>3 DEF Live
<1>3. /\ SyncTypeOK' /\ SyncInv' /\ CardInv' /\ OrderInv'
      /\ epochsLeft' => epochsLeft /\ \A p \in Live' : p.EpochNum <= zxidCounter'[1]
      /\ \A e : sound(e)' => sound(e)
      /\ zxidCounter'[1] # 0 /\ sound(zxidCounter'[1]) =>
           \A p \in Pending' : p.EpochNum = zxidCounter'[1] => p.CountNum <= zxidCounter'[2]
  BY <1>1, <1>2, NumbersKept
<1>4. TypeOK'
  <2>1. cuts' \in Nat /\ writing' \in Seq(Byte)
    BY <1>1 DEF LogInv, TypeOK
  <2> QED
    BY <1>1, <1>3, <2>1 DEF LogInv, TypeOK
<1>5. FileInv' /\ WritingInv' /\ ReaderInv'
  BY <1>1 DEF LogInv, FileInv, WritingInv, ReaderInv, Made
<1>6. ChanInv'
  BY <1>1 DEF LogInv, ChanInv, Made
<1>7. EpochInv'
  BY <1>1, <1>3 DEF LogInv, EpochInv
<1>8. LastInv'
  <2>1. sound(zxidCounter[1])' => sound(zxidCounter[1])
    BY <1>1 DEF sound, exhausted, epochsLeft
  <2> QED
    BY <1>1, <1>3, <2>1 DEF LogInv, LastInv
<1> QED
  BY <1>3, <1>4, <1>5, <1>6, <1>7, <1>8 DEF LogInv

\* The proposal taken from the channel is the next to be written.
LEMMA OpenStep ==
  ASSUME LogInv, OpenFile
  PROVE  LogInv'
<1>0. PICK p : p = Head(newProposalChan)
  OBVIOUS
<1>1. /\ writing = << >> /\ newProposalChan # << >>
      /\ writing' = proposalToBytes(p)
      /\ file' = IF p.EpochNum \in DOMAIN file THEN file
                 ELSE [e \in DOMAIN file \cup {p.EpochNum} |->
                         IF e \in DOMAIN file THEN file[e] ELSE << >>]
      /\ newProposalChan' = Tail(newProposalChan)
      /\ zxidCounter' = zxidCounter /\ UNCHANGED syncVars /\ reader' = reader /\ cuts' = cuts
      /\ restarts' = restarts /\ issued' = issued
  BY <1>0 DEF OpenFile
<1>2. /\ TypeOK /\ FileInv /\ ChanInv /\ EpochInv /\ LastInv /\ ReaderInv
      /\ newProposalChan \in Seq(Proposal)
  BY DEF LogInv, TypeOK
<1>3. /\ Len(newProposalChan) \in Nat /\ Len(newProposalChan) >= 1
      /\ p = newProposalChan[1] /\ p \in Proposal
      /\ newProposalChan' \in Seq(Proposal) /\ Len(newProposalChan') = Len(newProposalChan) - 1
      /\ \A i \in 1..(Len(newProposalChan) - 1) : newProposalChan'[i] = newProposalChan[i + 1]
  BY <1>0, <1>1, <1>2, HeadFacts
<1>4. 1 \in 1..Len(newProposalChan) /\ Made(p) /\ p \in Pending
      /\ \A e \in DOMAIN file : \A j \in 1..Len(file[e]) : file[e][j].of.id < p.id
  <2>1. 1 \in 1..Len(newProposalChan)
    BY <1>3
  <2> QED
    BY <1>2, <1>3, <2>1 DEF ChanInv, Pending
<1>5. /\ recordSize(p) \in Nat /\ recordSize(p) >= 1 /\ p.EpochNum \in 0..(EpochLimit - 1)
      /\ p.id \in 1..Len(issued) /\ issued[p.id] = p
  BY SMTT(60), <1>3, <1>4, SizeFacts, ProposalFacts DEF Made
<1>6. /\ writing' \in Seq(Byte) /\ Len(writing') = recordSize(p) /\ writing' # << >>
      /\ \A i \in 1..recordSize(p) : writing'[i] = [of |-> p, at |-> i]
  <2> DEFINE w == [i \in 1..recordSize(p) |-> [of |-> p, at |-> i]]
  <2>1. writing' = w
    BY <1>1 DEF proposalToBytes
  <2>2. \A i \in 1..recordSize(p) : [of |-> p, at |-> i] \in Byte
    BY <1>3, <1>5 DEF Byte
  <2> HIDE DEF Byte
  <2>3. w \in Seq(Byte)
    BY <1>5, <2>2
  <2>4. Len(w) = recordSize(p)
    BY <1>5, <2>3, LenProperties
  <2>5. w # << >>
    BY <1>5, <2>3, <2>4, EmptySeq
  <2> QED
    BY <2>1, <2>3, <2>4, <2>5
<1>7. writing'[1] = [of |-> p, at |-> 1] /\ writing'[1].of = p /\ writing'[1].at = 1
  <2>1. 1 \in 1..recordSize(p)
    BY <1>5
  <2>2. writing'[1] = [of |-> p, at |-> 1]
    BY <1>6, <2>1
  <2> QED
    BY <2>2
<1>8. /\ DOMAIN file' = DOMAIN file \cup {p.EpochNum}
      /\ \A e \in DOMAIN file : file'[e] = file[e]
      /\ \A e \in DOMAIN file' : e \notin DOMAIN file => e = p.EpochNum /\ file'[e] = << >>
      /\ file' \in [DOMAIN file' -> Seq(Byte)]
  <2>1. CASE p.EpochNum \in DOMAIN file
    BY <1>1, <1>2, <2>1 DEF TypeOK
  <2>2. CASE p.EpochNum \notin DOMAIN file
    <3> DEFINE D == DOMAIN file \cup {p.EpochNum}
    <3>1. file' = [e \in D |-> IF e \in DOMAIN file THEN file[e] ELSE << >>]
      BY <1>1, <2>2
    <3>2. << >> \in Seq(Byte) /\ \A e \in DOMAIN file : file[e] \in Seq(Byte)
      BY <1>2 DEF TypeOK
    <3> QED
      BY <2>2, <3>1, <3>2
  <2> QED
    BY <2>1, <2>2
<1>9. \A e \in DOMAIN file' : e \notin DOMAIN file => Len(file'[e]) = 0
  BY <1>8
<1>10. Pending' \subseteq Pending /\ Live' \subseteq Live
  <2>1. Pending' = {newProposalChan'[i] : i \in 1..Len(newProposalChan')} \cup {p}
    BY <1>6, <1>7 DEF Pending
  <2>2. \A i \in 1..Len(newProposalChan') : newProposalChan'[i] \in Pending
    <3>1. \A i \in 1..(Len(newProposalChan) - 1) : i + 1 \in 1..Len(newProposalChan)
      BY <1>3
    <3> QED
      BY <1>3, <3>1 DEF Pending
  <2>3. Pending' \subseteq Pending
    BY <1>4, <2>1, <2>2
  <2>4. \A q : inFile(q)' => inFile(q)
    <3>1. \A e \in DOMAIN file' : \A i \in 1..Len(file'[e]) : e \in DOMAIN file /\ file'[e] = file[e]
      BY <1>8, <1>9
    <3> QED
      BY <3>1 DEF inFile
  <2> QED
    BY <2>3, <2>4 DEF Live
<1>11. /\ SyncTypeOK' /\ SyncInv' /\ CardInv' /\ OrderInv'
       /\ epochsLeft' => epochsLeft /\ \A q \in Live' : q.EpochNum <= zxidCounter'[1]
       /\ \A e : sound(e)' => sound(e)
       /\ zxidCounter'[1] # 0 /\ sound(zxidCounter'[1]) =>
            \A q \in Pending' : q.EpochNum = zxidCounter'[1] => q.CountNum <= zxidCounter'[2]
  BY <1>1, <1>10, NumbersKept
<1>12. TypeOK'
  <2>1. DOMAIN file' \subseteq 0..(EpochLimit - 1)
    BY <1>2, <1>5, <1>8 DEF TypeOK
  <2> QED
    BY <1>1, <1>2, <1>3, <1>6, <1>8, <1>11, <2>1 DEF TypeOK
<1>13. \A q : Made(q)' <=> Made(q)
  BY <1>1 DEF Made
<1>14. FileInv'
  <2> SUFFICES ASSUME NEW e \in DOMAIN file'
               PROVE  /\ Chained(file'[e]) /\ Ordered(file'[e])
                      /\ \A i \in 1..Len(file'[e]) : file'[e][i].of.EpochNum = e /\ Made(file'[e][i].of)
    BY <1>13 DEF FileInv, Made
  <2>1. CASE e \in DOMAIN file
    BY <1>2, <1>8, <2>1 DEF FileInv
  <2>2. CASE e \notin DOMAIN file
    <3>1. \A i \in 1..Len(file'[e]) : FALSE
      BY <1>9, <2>2
    <3> QED
      BY <3>1 DEF Chained, Ordered
  <2> QED
    BY <2>1, <2>2
<1>15. WritingInv'
  <2>1. Made(p)' /\ p.EpochNum \in DOMAIN file' /\ 1 \in 1..recordSize(p)
    BY <1>4, <1>5, <1>8, <1>13
  <2>2. Len(writing') = recordSize(p) - 1 + 1
    BY <1>5, <1>6
  <2>3. \A i \in 1..Len(writing') : writing'[i] = [of |-> p, at |-> 1 + i - 1]
    <3>1. \A i \in 1..recordSize(p) : 1 + i - 1 = i
      BY <1>5
    <3> QED
      BY <1>6, <3>1
  <2>4. \A i \in 1..Len(file'[p.EpochNum]) : file'[p.EpochNum][i].of.id < p.id
    BY <1>4, <1>8, <1>9
  <2>5. Left(p, 1)'
    BY <2>1, <2>2, <2>3, <2>4 DEF Left
  <2> QED
    BY <1>7, <2>5 DEF WritingInv, Left, Made
<1>16. ChanInv'
  <2>1. \A i \in 1..(Len(newProposalChan) - 1) :
          i + 1 \in 1..Len(newProposalChan) /\ 1 < i + 1 /\ newProposalChan'[i] = newProposalChan[i + 1]
    BY <1>3
  <2>2. ASSUME NEW i \in 1..Len(newProposalChan')
        PROVE  /\ Made(newProposalChan[i + 1])
               /\ p.id < newProposalChan[i + 1].id
               /\ \A e \in DOMAIN file : \A j \in 1..Len(file[e]) :
                    file[e][j].of.id < newProposalChan[i + 1].id
    BY <1>2, <1>3, <1>4, <2>1 DEF ChanInv
  <2>3. ASSUME NEW i \in 1..Len(newProposalChan')
        PROVE  /\ newProposalChan'[i].id \in 1..Len(issued')
               /\ issued'[newProposalChan'[i].id] = newProposalChan'[i]
               /\ writing'[1].of.id < newProposalChan'[i].id
               /\ \A e \in DOMAIN file' : \A j \in 1..Len(file'[e]) :
                    file'[e][j].of.id < newProposalChan'[i].id
    <3>1. newProposalChan'[i] = newProposalChan[i + 1]
      BY <1>3, <2>1
    <3>2. newProposalChan'[i].id \in 1..Len(issued') /\ issued'[newProposalChan'[i].id] = newProposalChan'[i]
      BY <1>1, <2>2, <3>1 DEF Made
    <3>3. \A e \in DOMAIN file' : \A j \in 1..Len(file'[e]) : file'[e][j].of.id < newProposalChan'[i].id
      BY <1>8, <1>9, <2>2, <3>1
    <3> QED
      BY <1>7, <2>2, <3>1, <3>2, <3>3
  <2>4. ASSUME NEW i \in 1..Len(newProposalChan'), NEW j \in 1..Len(newProposalChan'), i < j
        PROVE  newProposalChan'[i].id < newProposalChan'[j].id
    <3>1. i + 1 \in 1..Len(newProposalChan) /\ j + 1 \in 1..Len(newProposalChan) /\ i + 1 < j + 1
      BY <1>3, <2>1, <2>4
    <3>2. newProposalChan[i + 1].id < newProposalChan[j + 1].id
      BY <1>2, <3>1 DEF ChanInv
    <3> QED
      BY <1>3, <2>1, <3>2
  <2>5. \A i \in 1..Len(issued') : issued'[i].id = i
    BY <1>1, <1>2 DEF ChanInv
  <2> QED
    BY <2>3, <2>4, <2>5 DEF ChanInv, Made
<1>17. EpochInv'
  <2>1. epochsLeft' => \A e \in DOMAIN file' : e <= zxidCounter'[1]
    <3>1. epochsLeft' => p.EpochNum <= zxidCounter[1]
      BY <1>2, <1>4, <1>11, LiveFacts DEF EpochInv
    <3> QED
      BY <1>1, <1>2, <1>8, <1>11, <3>1 DEF EpochInv
  <2>2. \A e \in DOMAIN file' : \E i \in 1..Len(issued') : issued'[i].EpochNum = e
    BY <1>1, <1>2, <1>5, <1>8 DEF EpochInv
  <2> QED
    BY <1>1, <1>2, <1>11, <2>1, <2>2 DEF EpochInv
<1>18. LastInv'
  <2>1. sound(zxidCounter[1])' => sound(zxidCounter[1])
    BY <1>1 DEF sound, exhausted, epochsLeft
  <2>2. \A e \in DOMAIN file' : Len(file'[e]) \in ends(file'[e]) => e \in DOMAIN file /\ file'[e] = file[e]
    <3> SUFFICES ASSUME NEW e \in DOMAIN file', Len(file'[e]) \in ends(file'[e])
                 PROVE  e \in DOMAIN file /\ file'[e] = file[e]
      OBVIOUS
    <3>1. Len(file'[e]) >= 1
      <4>1. file'[e] \in Seq(Byte)
        BY <1>8
      <4> QED
        BY <4>1, LenProperties DEF ends
    <3> QED
      BY <1>8, <1>9, <3>1
  <2> QED
    BY <1>1, <1>2, <1>11, <2>1, <2>2 DEF LastInv
<1>19. ReaderInv'
  <2>1. CASE reader = Idle \/ (reader.state = "failed" /\ reader.want = 0)
    BY <1>1, <2>1 DEF ReaderInv
  <2>2. CASE ~(reader = Idle \/ (reader.state = "failed" /\ reader.want = 0))
    <3>1. /\ reader \in [state : {"reading", "done"}, epoch : DOMAIN file, left : Nat, curPos : Nat,
                         end : Nat, props : Seq(Read), want : Nat]
          /\ reader.curPos <= reader.end /\ reader.end <= Len(file[reader.epoch])
          /\ reader.state = "reading" => reader.left >= 1
          /\ reader.want > 0 => \E L \in 0..reader.end : Reading(file[reader.epoch], reader, L)
      BY <1>2, <2>2 DEF ReaderInv
    <3>2. reader.epoch \in DOMAIN file /\ file'[reader.epoch] = file[reader.epoch]
      BY <1>8, <3>1
    <3>3. reader \in [state : {"reading", "done"}, epoch : DOMAIN file', left : Nat, curPos : Nat,
                      end : Nat, props : Seq(Read), want : Nat]
      BY <1>8, <3>1
    <3> QED
      BY <1>1, <3>1, <3>2, <3>3 DEF ReaderInv
  <2> QED
    BY <2>1, <2>2
<1> QED
  BY <1>11, <1>12, <1>14, <1>15, <1>16, <1>17, <1>18, <1>19 DEF LogInv

\* A file stays in order when the next byte of a record is appended.
LEMMA FileGrows ==
  ASSUME NEW f \in Seq(Byte), Chained(f), Ordered(f),
         NEW p \in Proposal, NEW k \in 1..recordSize(p),
         \A i \in 1..Len(f) : f[i].of.id < p.id \/ (f[i].of = p /\ f[i].at < k),
         k > 1 => Len(f) >= 1 /\ f[Len(f)] = [of |-> p, at |-> k - 1]
  PROVE  LET b == [of |-> p, at |-> k] IN
         Chained(Append(f, b)) /\ Ordered(Append(f, b))
<1>0. PICK b : b = [of |-> p, at |-> k]
  OBVIOUS
<1>1. /\ recordSize(p) \in Nat /\ k \in Nat /\ k >= 1 /\ k <= recordSize(p)
      /\ b \in Byte /\ b.of = p /\ b.at = k
  <2>1. recordSize(p) \in Nat
    BY SizeFacts
  <2> QED
    BY <1>0, <2>1 DEF Byte
<1> DEFINE g == Append(f, b)
<1>2. /\ g \in Seq(Byte) /\ Len(f) \in Nat /\ Len(g) = Len(f) + 1
      /\ \A i \in 1..Len(f) : g[i] = f[i]
      /\ g[Len(f) + 1] = b
  BY <1>1, AppendFacts
<1> HIDE DEF g
<1>3. \A i \in 1..Len(g) : i \in 1..Len(f) \/ i = Len(f) + 1
  BY <1>2
<1>4. Ordered(g)
  <2> SUFFICES ASSUME NEW i \in 1..Len(g), NEW j \in 1..Len(g), i < j
               PROVE  g[i].of.id < g[j].of.id \/ (g[i].of = g[j].of /\ g[i].at < g[j].at)
    BY DEF Ordered
  <2>1. i \in 1..Len(f)
    BY <1>2
  <2>2. CASE j \in 1..Len(f)
    BY SMTT(60), <1>2, <2>1, <2>2 DEF Ordered
  <2>3. CASE j = Len(f) + 1
    BY <1>1, <1>2, <2>1, <2>3
  <2> QED
    BY <1>3, <2>2, <2>3
<1>5. ASSUME NEW i \in 1..Len(f)
      PROVE  /\ g[i].at \in 1..i /\ g[i].at <= recordSize(g[i].of)
             /\ \A j \in 1..g[i].at : g[i - g[i].at + j] = [of |-> g[i].of, at |-> j]
  <2>1. /\ f[i].at \in 1..i /\ f[i].at <= recordSize(f[i].of)
        /\ \A j \in 1..f[i].at : f[i - f[i].at + j] = [of |-> f[i].of, at |-> j]
    BY DEF Chained
  <2>2. g[i] = f[i]
    BY <1>2
  <2>3. \A j \in 1..f[i].at : i - f[i].at + j \in 1..Len(f)
    BY SMTT(60), <1>2, <2>1
  <2> QED
    BY <1>2, <2>1, <2>2, <2>3
<1>6. /\ g[Len(f) + 1].at \in 1..(Len(f) + 1) /\ g[Len(f) + 1].at <= recordSize(g[Len(f) + 1].of)
      /\ \A j \in 1..k : g[Len(f) + 1 - k + j] = [of |-> p, at |-> j]
  <2>1. CASE k = 1
    <3>1. \A j \in 1..1 : j = 1 /\ Len(f) + 1 - 1 + j = Len(f) + 1
      BY <1>2
    <3> QED
      BY <1>0, <1>1, <1>2, <2>1, <3>1
  <2>2. CASE k > 1
    <3>1. /\ Len(f) \in 1..Len(f) /\ f[Len(f)].of = p /\ f[Len(f)].at = k - 1
      BY <1>2, <2>2
    <3>2. /\ k - 1 \in 1..Len(f)
          /\ \A j \in 1..(k - 1) : f[Len(f) - (k - 1) + j] = [of |-> p, at |-> j]
      BY <3>1 DEF Chained
    <3>3. k \in 1..(Len(f) + 1)
      BY <1>1, <1>2, <3>2
    <3>4. ASSUME NEW j \in 1..k PROVE g[Len(f) + 1 - k + j] = [of |-> p, at |-> j]
      <4>1. CASE j = k
        <5>1. Len(f) + 1 - k + j = Len(f) + 1
          BY <1>1, <1>2, <4>1
        <5> QED
          BY <1>0, <1>2, <4>1, <5>1
      <4>2. CASE j \in 1..(k - 1)
        <5>1. Len(f) + 1 - k + j = Len(f) - (k - 1) + j /\ Len(f) - (k - 1) + j \in 1..Len(f)
          BY <1>1, <1>2, <3>2, <4>2
        <5> QED
          BY <1>2, <3>2, <4>2, <5>1
      <4> QED
        BY <1>1, <4>1, <4>2
    <3> QED
      BY <1>1, <1>2, <3>3, <3>4
  <2> QED
    BY <1>1, <2>1, <2>2
<1>7. Chained(g)
  <2> SUFFICES ASSUME NEW i \in 1..Len(g)
               PROVE  /\ g[i].at \in 1..i /\ g[i].at <= recordSize(g[i].of)
                      /\ \A j \in 1..g[i].at : g[i - g[i].at + j] = [of |-> g[i].of, at |-> j]
    BY DEF Chained
  <2>1. CASE i \in 1..Len(f)
    BY <1>5, <2>1
  <2>2. CASE i = Len(f) + 1
    <3>1. g[i].at = k /\ g[i].of = p
      BY <1>1, <1>2, <2>2
    <3> QED
      BY <1>6, <2>2, <3>1
  <2> QED
    BY <1>3, <2>1, <2>2
<1> QED
  BY <1>0, <1>4, <1>7 DEF g

\* One more byte of a record is in its file.
LEMMA ByteStep ==
  ASSUME LogInv, WriteByte
  PROVE  LogInv'
<1>0. PICK b : b = Head(writing)
  OBVIOUS
<1>1. /\ writing # << >> /\ writing' = Tail(writing)
      /\ file' = [file EXCEPT ![b.of.EpochNum] = Append(file[b.of.EpochNum], b)]
      /\ newProposalChan' = newProposalChan
      /\ zxidCounter' = zxidCounter /\ UNCHANGED syncVars /\ reader' = reader /\ cuts' = cuts
      /\ restarts' = restarts /\ issued' = issued
  BY <1>0 DEF WriteByte
<1>2. /\ TypeOK /\ FileInv /\ WritingInv /\ ChanInv /\ EpochInv /\ LastInv /\ ReaderInv
      /\ writing \in Seq(Byte) /\ \A e \in DOMAIN file : file[e] \in Seq(Byte)
  BY DEF LogInv, TypeOK
<1>3. /\ Len(writing) \in Nat /\ Len(writing) >= 1 /\ 1 \in 1..Len(writing)
      /\ b = writing[1] /\ b \in Byte /\ writing' \in Seq(Byte) /\ Len(writing') = Len(writing) - 1
      /\ \A i \in 1..(Len(writing) - 1) : writing'[i] = writing[i + 1]
  BY <1>0, <1>1, <1>2, HeadFacts
<1>4. PICK p \in Proposal, k \in Nat : b = [of |-> p, at |-> k] /\ p = b.of /\ k = b.at
  BY <1>3 DEF Byte
<1>5. Left(p, k)
  BY <1>1, <1>2, <1>3, <1>4 DEF WritingInv
<1>6. PICK e : e = p.EpochNum
  OBVIOUS
<1>7. PICK f : f = file[e]
  OBVIOUS
<1>8. /\ Made(p) /\ e \in DOMAIN file /\ k \in 1..recordSize(p)
      /\ Len(writing) = recordSize(p) - k + 1
      /\ \A i \in 1..Len(writing) : writing[i] = [of |-> p, at |-> k + i - 1]
      /\ \A i \in 1..Len(f) : f[i].of.id < p.id \/ (f[i].of = p /\ f[i].at < k)
      /\ k > 1 => Len(f) >= 1 /\ f[Len(f)] = [of |-> p, at |-> k - 1]
  BY <1>5, <1>6, <1>7 DEF Left
<1>9. f \in Seq(Byte) /\ Chained(f) /\ Ordered(f)
      /\ \A i \in 1..Len(f) : f[i].of.EpochNum = e /\ Made(f[i].of)
  BY <1>2, <1>7, <1>8 DEF FileInv
<1>10. PICK g : g = Append(f, b)
  OBVIOUS
<1>11. /\ g \in Seq(Byte) /\ Len(f) \in Nat /\ Len(g) = Len(f) + 1
       /\ \A i \in 1..Len(f) : g[i] = f[i]
       /\ g[Len(f) + 1] = b
       /\ \A i \in 1..Len(g) : i \in 1..Len(f) \/ i = Len(f) + 1
  BY <1>3, <1>9, <1>10, AppendFacts
<1>12. Chained(g) /\ Ordered(g)
  BY <1>4, <1>8, <1>9, <1>10, FileGrows
<1>13. /\ file' = [file EXCEPT ![e] = g]
       /\ DOMAIN file' = DOMAIN file /\ file'[e] = g
       /\ \A d \in DOMAIN file : d # e => file'[d] = file[d]
  BY <1>1, <1>4, <1>6, <1>7, <1>8, <1>10
<1>14. p \in Pending /\ p.id \in Nat
  BY <1>1, <1>3, <1>4, ProposalFacts DEF Pending
<1>15. /\ recordSize(p) \in Nat
       /\ writing' # << >> => 1 \in 1..(Len(writing) - 1)
  <2>1. writing' # << >> => Len(writing') >= 1
    BY <1>3, HeadFacts
  <2> QED
    BY <1>3, <2>1, SizeFacts
<1>16. ASSUME writing' # << >>
       PROVE  writing'[1] = [of |-> p, at |-> k + 1] /\ writing'[1].of = p /\ writing'[1].at = k + 1
  <2>1. 1 + 1 \in 1..Len(writing) /\ writing'[1] = writing[1 + 1]
    BY <1>3, <1>15, <1>16
  <2>2. writing'[1] = [of |-> p, at |-> k + (1 + 1) - 1]
    BY <1>8, <2>1
  <2>3. k + (1 + 1) - 1 = k + 1
    OBVIOUS
  <2>4. writing'[1] = [of |-> p, at |-> k + 1]
    BY <2>2, <2>3
  <2> QED
    BY <2>4
<1>17. Pending' \subseteq Pending /\ Live' \subseteq Live
  <2>1. Pending' = {newProposalChan[i] : i \in 1..Len(newProposalChan)}
                   \cup (IF writing' = << >> THEN {} ELSE {writing'[1].of})
    BY <1>1 DEF Pending
  <2>2. {newProposalChan[i] : i \in 1..Len(newProposalChan)} \subseteq Pending
    BY DEF Pending
  <2>3. Pending' \subseteq Pending
    BY <1>14, <1>16, <2>1, <2>2
  <2>4. \A q : inFile(q)' => inFile(q) \/ q = p
    <3> SUFFICES ASSUME NEW q, NEW d \in DOMAIN file', NEW i \in 1..Len(file'[d]), file'[d][i].of = q
                 PROVE  inFile(q) \/ q = p
      BY DEF inFile
    <3>1. CASE d # e
      BY <1>13, <3>1 DEF inFile
    <3>2. CASE d = e
      <4>1. i \in 1..Len(f) \/ q = p
        BY <1>4, <1>11, <1>13, <3>2
      <4>2. ASSUME i \in 1..Len(f) PROVE inFile(q)
        BY <1>7, <1>8, <1>11, <1>13, <3>2, <4>2 DEF inFile
      <4> QED
        BY <4>1, <4>2
    <3> QED
      BY <3>1, <3>2
  <2>5. \A q \in Live' : q \in Live
    <3>1. \A q \in Live' : (q \in Proposal /\ inFile(q)') \/ q \in Pending'
      BY DEF Live
    <3> QED
      BY <1>14, <2>3, <2>4, <3>1 DEF Live
  <2> QED
    BY <2>3, <2>5
<1>18. /\ SyncTypeOK' /\ SyncInv' /\ CardInv' /\ OrderInv'
       /\ epochsLeft' => epochsLeft /\ \A q \in Live' : q.EpochNum <= zxidCounter'[1]
       /\ \A d : sound(d)' => sound(d)
       /\ zxidCounter'[1] # 0 /\ sound(zxidCounter'[1]) =>
            \A q \in Pending' : q.EpochNum = zxidCounter'[1] => q.CountNum <= zxidCounter'[2]
  BY <1>1, <1>17, NumbersKept
<1>19. TypeOK'
  <2>1. file' \in [DOMAIN file' -> Seq(Byte)]
    <3>1. file \in [DOMAIN file -> Seq(Byte)] /\ g \in Seq(Byte) /\ e \in DOMAIN file
      BY <1>2, <1>8, <1>11 DEF TypeOK
    <3> DEFINE B == Seq(Byte)
    <3> HIDE DEF B
    <3>2. file \in [DOMAIN file -> B] /\ g \in B
      BY <3>1 DEF B
    <3>3. file' \in [DOMAIN file -> B]
      BY <1>13, <3>1, <3>2
    <3> QED
      BY <1>13, <3>3 DEF B
  <2> QED
    BY <1>1, <1>2, <1>3, <1>13, <1>18, <2>1 DEF TypeOK
<1>20. \A q : Made(q)' <=> Made(q)
  BY <1>1 DEF Made
<1>21. \A i \in 1..Len(g) : g[i].of.EpochNum = e /\ Made(g[i].of)
  BY SMTT(60), <1>4, <1>6, <1>8, <1>9, <1>11
<1>22. FileInv'
  <2> SUFFICES ASSUME NEW d \in DOMAIN file'
               PROVE  /\ Chained(file'[d]) /\ Ordered(file'[d])
                      /\ \A i \in 1..Len(file'[d]) : file'[d][i].of.EpochNum = d /\ Made(file'[d][i].of)
    BY ZenonT(60), <1>20 DEF FileInv, Made
  <2>1. CASE d = e
    BY <1>12, <1>13, <1>21, <2>1
  <2>2. CASE d # e
    BY SMTT(60), <1>2, <1>13, <2>2 DEF FileInv
  <2> QED
    BY <2>1, <2>2
<1>23. WritingInv'
  <2> SUFFICES ASSUME writing' # << >> PROVE Left(writing[1].of, writing[1].at)'
    BY DEF WritingInv
  <2>1. Made(p)' /\ p.EpochNum \in DOMAIN file'
    BY <1>6, <1>8, <1>13, <1>20
  <2>2. k + 1 \in 1..recordSize(p) /\ Len(writing') = recordSize(p) - (k + 1) + 1
    BY SMTT(60), <1>3, <1>8, <1>15
  <2>3. ASSUME NEW i \in 1..Len(writing') PROVE writing'[i] = [of |-> p, at |-> (k + 1) + i - 1]
    <3>1. i + 1 \in 1..Len(writing) /\ writing'[i] = writing[i + 1] /\ k + (i + 1) - 1 = (k + 1) + i - 1
      BY <1>3
    <3> QED
      BY <1>8, <3>1
  <2>4. ASSUME NEW i \in 1..Len(g) PROVE g[i].of.id < p.id \/ (g[i].of = p /\ g[i].at < k + 1)
    <3>1. CASE i \in 1..Len(f)
      <4>1. f[i].at \in Nat
        BY <1>9, <3>1, ByteFacts
      <4> QED
        BY SMTT(60), <1>8, <1>11, <3>1, <4>1
    <3>2. CASE i = Len(f) + 1
      BY <1>4, <1>11, <3>2
    <3> QED
      BY <1>11, <3>1, <3>2
  <2>5. Len(g) >= 1 /\ g[Len(g)] = [of |-> p, at |-> k + 1 - 1]
    <3>1. k + 1 - 1 = k
      OBVIOUS
    <3> QED
      BY <1>4, <1>11, <3>1
  <2>6. file'[p.EpochNum] = g
    BY <1>6, <1>13
  <2>7. LET h == file'[p.EpochNum] IN
        /\ \A i \in 1..Len(h) : h[i].of.id < p.id \/ (h[i].of = p /\ h[i].at < k + 1)
        /\ k + 1 > 1 => Len(h) >= 1 /\ h[Len(h)] = [of |-> p, at |-> k + 1 - 1]
    BY <2>4, <2>5, <2>6
  <2>8. \A i \in 1..Len(writing') : writing'[i] = [of |-> p, at |-> (k + 1) + i - 1]
    BY <2>3
  <2>9. Left(p, k + 1)'
    BY ONLY SMTT(60), <2>1, <2>2, <2>7, <2>8 DEF Left
  <2> QED
    BY ZenonT(60), <1>16, <2>9
<1>24. ChanInv'
  <2>1. ASSUME NEW i \in 1..Len(newProposalChan)
        PROVE  /\ Made(newProposalChan[i])
               /\ \A j \in 1..Len(newProposalChan) : i < j => newProposalChan[i].id < newProposalChan[j].id
               /\ p.id < newProposalChan[i].id
               /\ \A d \in DOMAIN file : \A j \in 1..Len(file[d]) :
                    file[d][j].of.id < newProposalChan[i].id
    BY <1>1, <1>2, <1>3, <1>4 DEF ChanInv
  <2>2. ASSUME NEW i \in 1..Len(newProposalChan), NEW d \in DOMAIN file', NEW j \in 1..Len(file'[d])
        PROVE  file'[d][j].of.id < newProposalChan[i].id
    <3>1. CASE d # e
      BY <1>13, <2>1, <3>1
    <3>2. CASE d = e
      <4>1. CASE j \in 1..Len(f)
        BY <1>7, <1>8, <1>11, <1>13, <2>1, <3>2, <4>1
      <4>2. CASE j = Len(f) + 1
        BY <1>4, <1>11, <1>13, <2>1, <3>2, <4>2
      <4> QED
        BY <1>11, <1>13, <3>2, <4>1, <4>2
    <3> QED
      BY <3>1, <3>2
  <2>3. writing' # << >> => writing'[1].of = p
    BY <1>16
  <2>4. \A i \in 1..Len(issued) : issued[i].id = i
    BY <1>2 DEF ChanInv
  <2> QED
    BY SMTT(60), <1>1, <2>1, <2>2, <2>3, <2>4 DEF ChanInv, Made
<1>25. EpochInv'
  BY <1>1, <1>2, <1>13, <1>18 DEF EpochInv
<1>26. LastInv'
  <2>1. sound(zxidCounter[1])' => sound(zxidCounter[1])
    BY <1>1 DEF sound, exhausted, epochsLeft
  <2>2. ASSUME zxidCounter[1] # 0, sound(zxidCounter[1]), NEW d \in DOMAIN file', d = zxidCounter[1],
               Len(file'[d]) \in ends(file'[d])
        PROVE  file'[d][Len(file'[d])].of.CountNum <= zxidCounter[2]
    <3>1. CASE d # e
      BY <1>2, <1>13, <2>2, <3>1 DEF LastInv
    <3>2. CASE d = e
      <4>1. file'[d][Len(file'[d])].of = p
        BY <1>4, <1>11, <1>13, <3>2
      <4>2. p.CountNum <= zxidCounter[2]
        BY <1>2, <1>6, <1>14, <2>2, <3>2 DEF LastInv
      <4> QED
        BY <4>1, <4>2
    <3> QED
      BY <3>1, <3>2
  <2> QED
    BY <1>1, <1>18, <2>1, <2>2 DEF LastInv
<1>27. ReaderInv'
  <2>1. CASE reader = Idle \/ (reader.state = "failed" /\ reader.want = 0)
    BY <1>1, <2>1 DEF ReaderInv
  <2>2. CASE ~(reader = Idle \/ (reader.state = "failed" /\ reader.want = 0))
    <3>1. /\ reader \in [state : {"reading", "done"}, epoch : DOMAIN file, left : Nat, curPos : Nat,
                         end : Nat, props : Seq(Read), want : Nat]
          /\ reader.curPos <= reader.end /\ reader.end <= Len(file[reader.epoch])
          /\ reader.state = "reading" => reader.left >= 1
          /\ reader.want > 0 => \E L \in 0..reader.end : Reading(file[reader.epoch], reader, L)
      BY <1>2, <2>2 DEF ReaderInv
    <3>2. /\ reader.epoch \in DOMAIN file /\ reader.end \in Nat /\ reader.curPos \in Nat
      BY <3>1
    <3>3. CASE reader.epoch # e
      <4>1. file'[reader.epoch] = file[reader.epoch]
        BY <1>13, <3>2, <3>3
      <4> QED
        BY <1>1, <1>13, <3>1, <4>1 DEF ReaderInv
    <3>4. CASE reader.epoch = e
      <4>1. /\ file[reader.epoch] = f /\ file'[reader.epoch] = g
        BY <1>7, <1>13, <3>4
      <4>2. reader.end <= Len(g) /\ reader.end \in 0..Len(f) /\ reader.curPos \in 0..reader.end
        BY <1>11, <3>1, <3>2, <4>1
      <4>3. \A L : Reading(f, reader, L) => Reading(g, reader, L)
        BY <1>3, <1>9, <1>10, <4>2, ReadingGrows
      <4>4. reader.want > 0 => \E L \in 0..reader.end : Reading(g, reader, L)
        BY <3>1, <4>1, <4>3
      <4>5. reader \in [state : {"reading", "done"}, epoch : DOMAIN file', left : Nat, curPos : Nat,
                        end : Nat, props : Seq(Read), want : Nat]
        BY <1>13, <3>1
      <4> QED
        BY <1>1, <3>1, <4>1, <4>2, <4>4, <4>5 DEF ReaderInv
    <3> QED
      BY <3>3, <3>4
  <2> QED
    BY <2>1, <2>2
<1> QED
  BY <1>18, <1>19, <1>22, <1>23, <1>24, <1>25, <1>26, <1>27 DEF LogInv

-----------------------------------------------------------------------------
(* The restart *)

\* The counter is restored from the highest file: its epoch, and the count of
\* its last record if that one is whole.
LEMMA RestoreFacts ==
  ASSUME TypeOK, FileInv, NEW z \in RestoreZXIDFromDisk
  PROVE  /\ z \in Number
         /\ z[1] # 0 => z[1] \in DOMAIN file
         /\ \A e \in DOMAIN file : e <= z[1]
         /\ z[1] # 0 /\ Len(file[z[1]]) \in ends(file[z[1]])
              => z[2] = file[z[1]][Len(file[z[1]])].of.CountNum
<1>1. /\ EpochLimit \in Nat /\ EpochLimit >= 1 /\ CountLimit \in Nat /\ CountLimit >= 1
      /\ DOMAIN file \subseteq 0..(EpochLimit - 1) /\ \A e \in DOMAIN file : file[e] \in Seq(Byte)
  BY SMTT(60), SizeAssumption DEF TypeOK
<1> DEFINE S == DOMAIN file \cup {0}
<1>2. EpochLimit - 1 \in Nat /\ S \in SUBSET (0..(EpochLimit - 1)) /\ S # {}
  BY <1>1
<1>3. restoredEpoch = Max(S)
  BY DEF restoredEpoch
<1>4. Max(S) \in S /\ \A x \in S : Max(S) >= x
  <2> HIDE DEF S
  <2> QED
    BY <1>2, MaxFacts
<1>5. /\ restoredEpoch \in 0..(EpochLimit - 1)
      /\ restoredEpoch # 0 => restoredEpoch \in DOMAIN file
      /\ \A e \in DOMAIN file : e <= restoredEpoch
  <2>1. \A e \in DOMAIN file : e \in S /\ e \in Nat
    BY <1>1
  <2>2. Max(S) \in 0..(EpochLimit - 1) /\ (Max(S) # 0 => Max(S) \in DOMAIN file)
    BY <1>2, <1>4
  <2> HIDE DEF S
  <2> QED
    BY <1>1, <1>3, <1>4, <2>1, <2>2
<1> HIDE DEF S
<1>6. CASE restoredEpoch = 0
  <2>1. z = <<0, 0>>
    BY <1>6 DEF RestoreZXIDFromDisk
  <2>2. z \in Number /\ z[1] = 0
    BY <1>1, <2>1 DEF Number
  <2> QED
    BY <1>5, <1>6, <2>2
<1>7. CASE restoredEpoch # 0
  <2>0. PICK e : e = restoredEpoch
    OBVIOUS
  <2>1. PICK f : f = file[e]
    OBVIOUS
  <2>2. PICK c \in getEpochHighestCount(e) : z = <<e, c>>
    BY <1>7, <2>0 DEF RestoreZXIDFromDisk
  <2>3. PICK r \in readBack(f, Len(f)) : c = IF r.ok THEN r.prop.CountNum ELSE 0
    BY <2>1, <2>2 DEF getEpochHighestCount
  <2>4. e \in DOMAIN file /\ f \in Seq(Byte) /\ Len(f) \in Nat /\ Chained(f)
    <3>1. e \in DOMAIN file
      BY <1>5, <1>7, <2>0
    <3> QED
      BY <1>1, <2>1, <3>1, LenProperties DEF FileInv
  <2>5. c \in 0..(CountLimit - 1)
    <3>1. \/ r = failed
          \/ r.ok = TRUE /\ r.prop \in Read
      <4>1. Len(f) \in 0..Len(f)
        BY <2>4
      <4> QED
        BY <2>4, <4>1, ReadBackType
    <3>2. CASE r = failed
      BY <1>1, <2>3, <3>2 DEF failed
    <3>3. CASE r.ok = TRUE /\ r.prop \in Read
      BY <2>3, <3>3 DEF Read
    <3> QED
      BY <3>1, <3>2, <3>3
  <2>6. Len(f) \in ends(f) => c = f[Len(f)].of.CountNum
    <3> SUFFICES ASSUME Len(f) \in ends(f) PROVE c = f[Len(f)].of.CountNum
      OBVIOUS
    <3>1. r = [ok |-> TRUE, prop |-> f[Len(f)].of, curPos |-> Len(f) - recordSize(f[Len(f)].of)]
      BY <2>4, ReadBackWhole
    <3> QED
      BY <2>3, <3>1
  <2>7. z \in Number /\ z[1] = e /\ z[2] = c
    BY <1>5, <2>0, <2>2, <2>5 DEF Number
  <2> QED
    BY <1>5, <2>0, <2>1, <2>4, <2>6, <2>7
<1> QED
  BY <1>6, <1>7

\* A restart keeps the files, forgets what was to be written and restores the
\* counter from them.
LEMMA RestartStep ==
  ASSUME LogInv, Restart
  PROVE  LogInv'
<1>0. PICK z \in RestoreZXIDFromDisk : z = zxidCounter'
  BY DEF Restart
<1>1. /\ restarts' = restarts + 1 /\ zxidCounter' = z
      /\ requestsEnabled' = FALSE /\ requestsProcessingEnabled' = FALSE
      /\ syncing' = FALSE /\ currentSync' = <<0, 0>>
      /\ newProposalChan' = << >> /\ writing' = << >> /\ reader' = Idle
      /\ file' = file /\ cuts' = cuts /\ issued' = issued
  BY <1>0 DEF Restart
<1>2. TypeOK /\ FileInv /\ ChanInv /\ EpochInv /\ OrderInv /\ restarts \in Nat
  BY DEF LogInv, TypeOK
<1>3. /\ z \in Number
      /\ z[1] # 0 => z[1] \in DOMAIN file
      /\ \A e \in DOMAIN file : e <= z[1]
      /\ z[1] # 0 /\ Len(file[z[1]]) \in ends(file[z[1]])
           => z[2] = file[z[1]][Len(file[z[1]])].of.CountNum
  BY <1>2, RestoreFacts
<1>4. z[2] \in Nat
  BY <1>3, SizeAssumption DEF Number
<1>5. Len(<< >>) = 0 /\ << >> \in Seq(Proposal) /\ << >> \in Seq(Byte)
  OBVIOUS
<1>6. TypeOK'
  <2>1. restarts' \in Nat
    BY <1>1, <1>2
  <2>2. SyncTypeOK'
    <3>1. <<0, 0>> \in Number
      BY SizeAssumption DEF Number
    <3> QED
      BY <1>1, <3>1 DEF SyncTypeOK
  <2> QED
    BY <1>1, <1>2, <1>3, <1>5, <2>1, <2>2 DEF TypeOK
<1>7. FileInv' /\ WritingInv' /\ ReaderInv' /\ SyncInv' /\ CardInv' /\ ~serving'
  BY <1>1, <1>2 DEF FileInv, WritingInv, ReaderInv, SyncInv, CardInv, Made, serving
<1>8. \A i \in 1..Len(newProposalChan') : FALSE
  BY <1>1, <1>5
<1>9. ChanInv'
  BY <1>1, <1>2, <1>8 DEF ChanInv
<1>10. Pending' = {} /\ Live' \subseteq Live
  <2>1. Pending' = {}
    BY <1>1, <1>8 DEF Pending
  <2>2. {q \in Proposal : inFile(q)}' = {q \in Proposal : inFile(q)}
    BY <1>1 DEF inFile
  <2> QED
    BY <2>1, <2>2 DEF Live
<1>11. epochsLeft' <=> epochsLeft
  BY <1>1 DEF epochsLeft
<1>12. /\ \A e : sound(e)' => sound(e) /\ e # 0
       /\ sound(zxidCounter[1])' => z[1] # 0
  <2>1. restarts' # 0
    BY <1>1, <1>2
  <2>2. \A e : exhausted(e)' <=> exhausted(e)
    BY <1>1 DEF exhausted
  <2>3. \A e : sound(e)' => sound(e) /\ e # 0
    BY <1>11, <2>1, <2>2 DEF sound
  <2>4. sound(zxidCounter[1])' => z[1] # 0
    BY <1>1, <2>1 DEF sound
  <2> QED
    BY <2>3, <2>4
<1>13. EpochInv'
  <2>1. \A q \in Live' : q.EpochNum \in DOMAIN file
    <3>1. \A q : inFile(q)' => q.EpochNum \in DOMAIN file
      BY <1>1, <1>2 DEF inFile, FileInv
    <3> QED
      BY <1>10, <3>1 DEF Live
  <2>2. \A q \in Live' : q.EpochNum <= z[1]
    BY <1>3, <2>1
  <2> QED
    BY <1>1, <1>2, <1>3, <2>2 DEF EpochInv
<1>14. OrderInv'
  <2>1. \A p, q \in Live' :
          p.EpochNum = q.EpochNum /\ sound(p.EpochNum)' /\ p.id < q.id
            => p.CountNum < q.CountNum \/ (p.EpochNum # 0 /\ q.CountNum = 0)
    BY <1>2, <1>10, <1>12 DEF OrderInv
  <2>2. ~((serving' \/ zxidCounter'[1] = 0) /\ sound(zxidCounter[1])')
    BY <1>1, <1>7, <1>12
  <2> QED
    BY <2>1, <2>2 DEF OrderInv
<1>15. LastInv'
  <2>1. ASSUME NEW e \in DOMAIN file, z[1] # 0, e = z[1], Len(file[e]) \in ends(file[e])
        PROVE  file[e][Len(file[e])].of.CountNum <= z[2]
    BY <1>3, <1>4, <2>1
  <2> QED
    BY <1>1, <1>10, <2>1 DEF LastInv
<1> QED
  BY <1>6, <1>7, <1>9, <1>13, <1>14, <1>15 DEF LogInv

-----------------------------------------------------------------------------
(* The theorems *)

\* An empty log: nothing was made, written or read.
LEMMA LogInit == Init => LogInv
<1> SUFFICES ASSUME Init PROVE LogInv
  OBVIOUS
<1>1. /\ requestsEnabled = FALSE /\ requestsProcessingEnabled = FALSE
      /\ syncing = FALSE /\ currentSync = <<0, 0>>
      /\ zxidCounter = <<0, 0>> /\ newProposalChan = << >> /\ writing = << >>
      /\ file = << >> /\ reader = Idle /\ cuts = 0 /\ restarts = 0 /\ issued = << >>
      /\ zxidCounter[1] = 0
  BY DEF Init
<1>2. Len(<< >>) = 0 /\ << >> \in Seq(Proposal) /\ << >> \in Seq(Byte)
  OBVIOUS
<1>3. DOMAIN file = {} /\ file \in [DOMAIN file -> Seq(Byte)]
  <2>1. DOMAIN file = {}
    BY <1>1
  <2>2. file = [e \in {} |-> file[e]]
    BY <1>1
  <2> QED
    BY <2>1, <2>2
<1>4. TypeOK
  <2>1. zxidCounter \in Number /\ SyncTypeOK
    <3>1. <<0, 0>> \in Number
      BY SizeAssumption DEF Number
    <3> QED
      BY <1>1, <3>1 DEF SyncTypeOK
  <2>2. Len(issued) <= Len(ContentSize)
    BY <1>1, <1>2, SizeAssumption, LenProperties
  <2> QED
    BY <1>1, <1>2, <1>3, <2>1, <2>2 DEF TypeOK
<1>5. \A i \in 1..Len(<< >>) : FALSE
  BY <1>2
<1>6. Pending = {} /\ Live = {}
  BY <1>1, <1>3, <1>5 DEF Pending, Live, inFile
<1>7. FileInv /\ WritingInv /\ ChanInv /\ ReaderInv /\ SyncInv /\ CardInv
  BY <1>1, <1>3, <1>5 DEF FileInv, WritingInv, ChanInv, ReaderInv, SyncInv, CardInv, serving
<1>8. EpochInv /\ OrderInv /\ LastInv
  BY <1>1, <1>3, <1>6 DEF EpochInv, OrderInv, LastInv
<1> QED
  BY <1>4, <1>7, <1>8 DEF LogInv

\* Every step of the coordinator, the writer, a reader and a restart keeps it.
LEMMA LogStep == LogInv /\ [Next]_vars => LogInv'
<1> SUFFICES ASSUME LogInv, [Next]_vars PROVE LogInv'
  OBVIOUS
<1>1. CASE Continue
  BY <1>1, NewLeaderStep
<1>11. CASE processACK
  BY <1>11, AckStep
<1>2. CASE processRequest
  BY <1>2, RequestStep
<1>3. CASE Pause
  BY <1>3, PauseStep
<1>4. CASE OpenFile
  BY <1>4, OpenStep
<1>5. CASE WriteByte
  BY <1>5, ByteStep
<1>6. CASE WriteFails
  BY <1>6, FailStep
<1>7. ASSUME NEW e, NEW n \in 1..Len(ContentSize), ReadProposals(e, n) PROVE LogInv'
  <2>1. ReaderInv'
    BY <1>7, ReaderCalled DEF LogInv
  <2>2. UNCHANGED <<zxidCounter, syncVars, newProposalChan, writing, file, cuts, restarts, issued>>
    BY <1>7 DEF ReadProposals
  <2> QED
    BY <2>1, <2>2, ReaderFrame
<1>8. CASE ReadOne
  <2>1. ReaderInv'
    BY <1>8, ReaderReads DEF LogInv
  <2>2. UNCHANGED <<zxidCounter, syncVars, newProposalChan, writing, file, cuts, restarts, issued>>
    BY <1>8 DEF ReadOne
  <2> QED
    BY <2>1, <2>2, ReaderFrame
<1>9. CASE Restart
  BY <1>9, RestartStep
<1>10. CASE UNCHANGED vars
  <2>1. UNCHANGED <<zxidCounter, syncVars, newProposalChan, writing, file, cuts, restarts, issued>>
        /\ reader' = reader /\ file' = file
    BY <1>10 DEF vars
  <2>2. ReaderInv'
    BY <2>1 DEF LogInv, ReaderInv
  <2> QED
    BY <2>1, <2>2, ReaderFrame
<1> QED
  BY <1>1, <1>2, <1>3, <1>4, <1>5, <1>6, <1>7, <1>8, <1>9, <1>10, <1>11 DEF Next

\* Files, the record under way, the queue, the counter and a reader fit together
\* in every state (SaveProposal, ReadProposals, RestoreZXIDFromDisk).
THEOREM LogInvariant == Spec => []LogInv
<1> QED
  BY LogInit, LogStep, PTL DEF Spec

\* Within a file counts only grow, but for the NewLeader saved again, as long as
\* neither epochs nor the counts of this one are used up (SendNewLeader,
\* incEpoch, incCount, SaveProposal).
THEOREM LogOrder == Spec => []LogInZxidOrder
<1>1. LogInv => LogInZxidOrder
  <2> SUFFICES ASSUME LogInv, epochsLeft,
                      NEW e \in DOMAIN file, ~exhausted(e), e = 0 => restarts = 0,
                      NEW i \in ends(file[e]), NEW j \in ends(file[e]), i < j
               PROVE  \/ file[e][i].of.CountNum < file[e][j].of.CountNum
                      \/ e # 0 /\ file[e][j].of.CountNum = 0
    BY DEF LogInZxidOrder
  <2> DEFINE f == file[e]
  <2>1. f \in Seq(Byte) /\ Chained(f) /\ Ordered(f)
        /\ \A k \in 1..Len(f) : f[k].of.EpochNum = e
    BY DEF LogInv, TypeOK, FileInv
  <2>2. i \in 1..Len(f) /\ j \in 1..Len(f) /\ f[i].at = recordSize(f[i].of) /\ f[j].at = recordSize(f[j].of)
    BY <2>1, LenProperties DEF ends
  <2>3. f[i].of \in Live /\ f[j].of \in Live
    BY <2>2, LiveFacts
  <2>4. f[i].of.id < f[j].of.id
    <3>1. f[i].of.id < f[j].of.id \/ (f[i].of = f[j].of /\ f[i].at < f[j].at)
      BY <2>1, <2>2 DEF Ordered
    <3>2. f[i].at \in Nat
      BY <2>1, <2>2, ByteFacts
    <3>3. f[i].of = f[j].of => f[i].at = f[j].at
      BY <2>2
    <3> QED
      BY <3>1, <3>2, <3>3
  <2>5. sound(e) /\ f[i].of.EpochNum = e /\ f[j].of.EpochNum = e
    BY <2>1, <2>2 DEF sound
  <2> HIDE DEF f
  <2>6. f[i].of.CountNum < f[j].of.CountNum \/ (e # 0 /\ f[j].of.CountNum = 0)
    BY <2>3, <2>4, <2>5 DEF LogInv, OrderInv
  <2> QED
    BY <2>6 DEF f
<1> QED
  BY <1>1, LogInvariant, PTL

\* The counter is never behind the log: not its epoch, nor, if the last record
\* is whole, its count (RestoreZXIDFromDisk, getEpochHighestCount).
THEOREM NeverBehind == Spec => []NeverBehindLog
<1>1. LogInv => NeverBehindLog
  <2> SUFFICES ASSUME LogInv, epochsLeft, NEW e \in DOMAIN file \ {0}
               PROVE  /\ e <= zxidCounter[1]
                      /\ e = zxidCounter[1] /\ ~exhausted(e) /\ Len(file[e]) \in ends(file[e])
                           => Last(file[e]).of.CountNum <= zxidCounter[2]
    BY DEF NeverBehindLog
  <2>1. e <= zxidCounter[1]
    BY DEF LogInv, EpochInv
  <2>2. ASSUME e = zxidCounter[1], ~exhausted(e), Len(file[e]) \in ends(file[e])
        PROVE  Last(file[e]).of.CountNum <= zxidCounter[2]
    <3>1. sound(zxidCounter[1]) /\ zxidCounter[1] # 0
      BY <2>2 DEF sound
    <3>2. file[e][Len(file[e])].of.CountNum <= zxidCounter[2]
      BY <2>2, <3>1 DEF LogInv, LastInv
    <3> QED
      BY <3>2 DEF Last
  <2> QED
    BY <2>1, <2>2
<1> QED
  BY <1>1, LogInvariant, PTL

\* A read returns the latest proposals in the order they were saved, as far as
\* no torn record lies in between, whatever is appended meanwhile
\* (ReadProposals and SaveProposal).
THEOREM ReadBack == Spec => []ReadsWhatWasSaved
<1>1. LogInv => ReadsWhatWasSaved
  <2> SUFFICES ASSUME LogInv, reader.state \in {"done", "failed"}, reader.want > 0
               PROVE  /\ reader.state = "done"
                      /\ Len(reader.props) = reader.want
                      /\ \A k \in 1..reader.want : \E i \in ends(file[reader.epoch]) :
                           /\ i <= reader.end
                           /\ file[reader.epoch][i].of = reader.props[k]
                           /\ behind(file[reader.epoch], i, reader.end) = reader.want - k
    BY DEF ReadsWhatWasSaved
  <2>1. reader # Idle /\ reader.want # 0
    BY DEF Idle
  <2>2. /\ reader.state \in {"reading", "done"}
        /\ \E L \in 0..reader.end : Reading(file[reader.epoch], reader, L)
    BY <2>1 DEF LogInv, ReaderInv
  <2>3. reader.state = "done"
    BY <2>2
  <2>4. /\ reader.want = Len(reader.props)
        /\ \A k \in 1..Len(reader.props) : \E i \in ends(file[reader.epoch]) :
             /\ i <= reader.end
             /\ file[reader.epoch][i].of = reader.props[k]
             /\ behind(file[reader.epoch], i, reader.end) = Len(reader.props) - k
    BY <2>2, <2>3 DEF Reading
  <2> QED
    BY <2>3, <2>4
<1> QED
  BY <1>1, LogInvariant, PTL
=============================================================================

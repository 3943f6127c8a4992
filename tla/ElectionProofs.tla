--------------------------- MODULE ElectionProofs ---------------------------
(***************************************************************************)
(* Proofs about Election: the types, and, as long as no server is started, *)
(* that the coordinator that runs is the best server that runs and that    *)
(* the rings of zabFailureTest keep every server that runs.                *)
(*                                                                         *)
(* The argument is about places in the ring of all servers.  A round goes  *)
(* from each server to the first running one that follows it, so that it   *)
(* has passed no running server by when it comes back to one it visited.   *)
(***************************************************************************)
EXTENDS Election, Integers, TLAPS, SequenceTheorems, FiniteSetTheorems,
        WellFoundedInduction

-----------------------------------------------------------------------------
(* Queues and sets of numbers *)

\* What Append does to a queue, element by element.
LEMMA AppendFacts ==
  ASSUME NEW S, NEW q \in Seq(S), NEW e \in S
  PROVE  /\ Append(q, e) \in Seq(S)
         /\ Len(q) \in Nat
         /\ Len(Append(q, e)) = Len(q) + 1
         /\ \A i \in 1..Len(q) : Append(q, e)[i] = q[i]
         /\ Append(q, e)[Len(q) + 1] = e
BY AppendProperties, LenProperties

\* What taking the head of a queue leaves, element by element.
LEMMA HeadFacts ==
  ASSUME NEW S, NEW q \in Seq(S), q # << >>
  PROVE  /\ Len(q) \in Nat /\ Len(q) >= 1
         /\ Head(q) = q[1]
         /\ Head(q) \in S
         /\ Tail(q) \in Seq(S)
         /\ Len(Tail(q)) = Len(q) - 1
         /\ \A i \in 1..(Len(q) - 1) : Tail(q)[i] = q[i + 1]
<1>1. Len(q) \in Nat /\ Len(q) >= 1 /\ 1 \in 1..Len(q)
  BY EmptySeq, LenProperties
<1>2. q[1] \in S
  BY <1>1, ElementOfSeq
<1> QED
  BY <1>1, <1>2, HeadTailProperties

\* The numbers up to n are n.
LEMMA CountOfInterval ==
  ASSUME NEW n \in Nat
  PROVE  IsFiniteSet(1..n) /\ Cardinality(1..n) = n
<1>1. /\ IsFiniteSet(1..n)
      /\ Cardinality(1..n) = IF 1 > n THEN 0 ELSE n - 1 + 1
  BY FS_Interval
<1> QED
  BY <1>1

\* A set of numbers has a least one.
LEMMA MinimumExists ==
  ASSUME NEW S \in SUBSET Nat, S # {}
  PROVE  \E m \in S : \A x \in S : m <= x
<1> DEFINE R == OpToRel(<, Nat)
<1>1. \A i, j \in Nat : i < j => <<i, j>> \in R
  BY DEF OpToRel
<1>2. IsWellFoundedOn(R, Nat)
  BY NatLessThanWellFounded
<1> HIDE DEF R
<1>3. PICK m \in S : \A x \in S : <<x, m>> \notin R
  BY <1>2, WFMin
<1>4. ASSUME NEW x \in S PROVE m <= x
  <2>1. m \in Nat /\ x \in Nat
    OBVIOUS
  <2>2. ~(x < m)
    BY <1>1, <1>3, <2>1
  <2> QED
    BY <2>1, <2>2
<1> QED
  BY <1>3, <1>4

-----------------------------------------------------------------------------
(* Servers, rings and lists *)

\* The configuration lists every server once.
LEMMA ServersFacts ==
  /\ Servers \in Seq(Nat \ {0}) /\ IsInjective(Servers)
  /\ Len(Servers) \in Nat /\ DOMAIN Servers = 1..Len(Servers)
  /\ Server \subseteq Nat \ {0} /\ NoServer \notin Server
  /\ \A s \in Server : \E i \in 1..Len(Servers) : Servers[i] = s
  /\ \A i \in 1..Len(Servers) : Servers[i] \in Server
  /\ \A s \in Server : ZXID[s] \in Nat
<1>1. Servers \in Seq(Nat \ {0}) /\ IsInjective(Servers) /\ ZXID \in [Server -> Nat]
  BY ServersAssumption
<1>2. Len(Servers) \in Nat /\ DOMAIN Servers = 1..Len(Servers)
  BY <1>1, LenProperties
<1>3. \A i \in 1..Len(Servers) : Servers[i] \in Nat \ {0}
  BY <1>1, ElementOfSeq
<1>4. Server = {Servers[i] : i \in 1..Len(Servers)}
  BY <1>2 DEF Server, Range
<1> QED
  BY <1>1, <1>2, <1>3, <1>4 DEF NoServer

\* There are finitely many servers.
LEMMA ServerFinite == IsFiniteSet(Server) /\ Cardinality(Server) \in Nat
<1>1. Len(Servers) \in Nat /\ IsFiniteSet(1..Len(Servers))
  BY ServersFacts, CountOfInterval
<1>2. Servers \in Surjection(1..Len(Servers), Server)
  <2>1. Servers \in [1..Len(Servers) -> Server]
    BY ServersFacts, LenProperties
  <2> QED
    BY <2>1, ServersFacts DEF Surjection
<1> QED
  BY <1>1, <1>2, FS_Surjection, FS_CardinalityType

\* A ring is a list of servers without repetition.
LEMMA RingFacts ==
  ASSUME NEW r
  PROVE  r \in Rings <=> r \in Seq(Server) /\ IsInjective(r)
<1>1. ASSUME r \in Rings PROVE r \in Seq(Server) /\ IsInjective(r)
  <2>1. PICK n \in 0..Cardinality(Server) : r \in [1..n -> Server]
    BY <1>1 DEF Rings
  <2>2. n \in Nat
    BY <2>1, ServerFinite
  <2>3. r \in Seq(Server)
    BY <2>1, <2>2, SeqDef
  <2> QED
    BY <1>1, <2>3 DEF Rings
<1>2. ASSUME r \in Seq(Server), IsInjective(r) PROVE r \in Rings
  <2>1. Len(r) \in Nat /\ r \in [1..Len(r) -> Server]
    BY <1>2, LenProperties
  <2>2. r \in Injection(1..Len(r), Server)
    BY <1>2, <2>1 DEF Injection
  <2>3. Cardinality(1..Len(r)) <= Cardinality(Server)
    BY <2>2, ServerFinite, FS_Injection
  <2>4. Len(r) \in 0..Cardinality(Server)
    BY <2>1, <2>3, CountOfInterval, ServerFinite
  <2> QED
    BY <1>2, <2>1, <2>4 DEF Rings
<1> QED
  BY <1>1, <1>2

\* What is in a ring, place by place.
LEMMA RingParts ==
  ASSUME NEW r \in Rings
  PROVE  /\ r \in Seq(Server) /\ Len(r) \in Nat /\ DOMAIN r = 1..Len(r)
         /\ \A i \in 1..Len(r) : r[i] \in Server
         /\ \A i, j \in 1..Len(r) : r[i] = r[j] => i = j
         /\ Range(r) \subseteq Server
         /\ \A s : s \in Range(r) <=> \E i \in 1..Len(r) : r[i] = s
<1>1. r \in Seq(Server) /\ IsInjective(r)
  BY RingFacts
<1>2. Len(r) \in Nat /\ DOMAIN r = 1..Len(r)
  BY <1>1, LenProperties
<1>3. \A i \in 1..Len(r) : r[i] \in Server
  BY <1>1, ElementOfSeq
<1> QED
  BY <1>1, <1>2, <1>3 DEF IsInjective, Range

\* The empty list and the list of one server are rings.
LEMMA SmallRings ==
  /\ << >> \in Rings /\ Len(<< >>) = 0
  /\ \A s \in Server : <<s>> \in Rings /\ Len(<<s>>) = 1 /\ <<s>>[1] = s /\ Range(<<s>>) = {s}
<1>1. << >> \in Rings
  <2>1. << >> \in Seq(Server)
    BY EmptySeq
  <2>2. IsInjective(<< >>)
    BY DEF IsInjective
  <2> QED
    BY <2>1, <2>2, RingFacts
<1>2. ASSUME NEW s \in Server PROVE <<s>> \in Rings /\ Len(<<s>>) = 1 /\ <<s>>[1] = s /\ Range(<<s>>) = {s}
  <2>1. <<s>> \in Seq(Server) /\ Len(<<s>>) = 1 /\ <<s>>[1] = s /\ DOMAIN <<s>> = {1}
    OBVIOUS
  <2>2. IsInjective(<<s>>)
    BY <2>1 DEF IsInjective
  <2> QED
    BY <2>1, <2>2, RingFacts DEF Range
<1> QED
  BY <1>1, <1>2

\* A ring stays a ring when a server that is not in it is added.
LEMMA RingAppend ==
  ASSUME NEW r \in Rings, NEW s \in Server, s \notin Range(r)
  PROVE  /\ Append(r, s) \in Rings /\ Append(r, s) # << >>
         /\ Len(Append(r, s)) = Len(r) + 1
         /\ \A i \in 1..Len(r) : Append(r, s)[i] = r[i]
         /\ Append(r, s)[Len(r) + 1] = s
         /\ Range(Append(r, s)) = Range(r) \cup {s}
<1> DEFINE a == Append(r, s)
<1>1. /\ a \in Seq(Server) /\ a # << >> /\ Len(a) = Len(r) + 1
      /\ \A i \in 1..Len(r) : a[i] = r[i]
      /\ a[Len(r) + 1] = s
  BY RingParts, AppendProperties
<1>2. Len(r) \in Nat /\ DOMAIN a = 1..(Len(r) + 1)
  BY <1>1, RingParts, LenProperties
<1> HIDE DEF a
<1>3. ASSUME NEW i \in 1..(Len(r) + 1), NEW j \in 1..(Len(r) + 1), a[i] = a[j]
      PROVE  i = j
  <2>1. \A k \in 1..Len(r) : a[k] # s
    BY <1>1, RingParts
  <2>2. i = Len(r) + 1 <=> j = Len(r) + 1
    BY <1>1, <1>2, <1>3, <2>1
  <2> QED
    BY <1>1, <1>2, <1>3, <2>2, RingParts
<1>4. a \in Rings
  BY <1>1, <1>2, <1>3, RingFacts DEF IsInjective
<1>5. Range(a) = Range(r) \cup {s}
  <2>1. \A x : x \in Range(a) <=> \E i \in 1..(Len(r) + 1) : a[i] = x
    BY <1>2 DEF Range
  <2>2. \A x : (\E i \in 1..(Len(r) + 1) : a[i] = x) <=> (x = s \/ \E i \in 1..Len(r) : a[i] = x)
    BY <1>1, <1>2
  <2> QED
    BY <1>1, <2>1, <2>2, RingParts
<1> QED
  BY <1>1, <1>4, <1>5 DEF a

-----------------------------------------------------------------------------
(* The ring of all servers *)

\* The place of a server in the configuration.
pos(s) == CHOOSE i \in 1..Len(Servers) : Servers[i] = s

\* How far b comes after a, going round.
dist(a, b) == IF pos(a) <= pos(b) THEN pos(b) - pos(a) ELSE (pos(b) + Len(Servers)) - pos(a)

\* The list starts behind s and goes once round at most.
Behind(s, ring) ==
  /\ \A i \in 1..Len(ring) : ring[i] # s
  /\ \A i, j \in 1..Len(ring) : i < j => dist(s, ring[i]) < dist(s, ring[j])

\* The list goes round in the order of the configuration, from its first server.
InOrder(ring) ==
  \A i, j \in 1..Len(ring) : i < j => dist(ring[1], ring[i]) < dist(ring[1], ring[j])

\* Each server has a place of its own.
LEMMA PosFacts ==
  /\ \A s \in Server : pos(s) \in 1..Len(Servers) /\ Servers[pos(s)] = s
  /\ \A s, t \in Server : pos(s) = pos(t) => s = t
  /\ \A i \in 1..Len(Servers) : pos(Servers[i]) = i
<1>1. ASSUME NEW s \in Server PROVE pos(s) \in 1..Len(Servers) /\ Servers[pos(s)] = s
  <2>1. \E i \in 1..Len(Servers) : Servers[i] = s
    BY ServersFacts
  <2> QED
    BY <2>1 DEF pos
<1>2. ASSUME NEW i \in 1..Len(Servers) PROVE pos(Servers[i]) = i
  <2>1. pos(Servers[i]) \in 1..Len(Servers) /\ Servers[pos(Servers[i])] = Servers[i]
    BY <1>1, ServersFacts
  <2> QED
    BY <2>1, ServersFacts DEF IsInjective
<1> QED
  BY <1>1, <1>2

\* Distances are those between places on a circle.
LEMMA DistFacts ==
  /\ \A a, b \in Server : dist(a, b) \in Nat /\ (dist(a, b) = 0 <=> a = b)
  /\ \A a, b, c \in Server :
       /\ dist(a, b) <= dist(a, c) => dist(b, c) = dist(a, c) - dist(a, b)
       /\ dist(a, c) < dist(a, b) => dist(b, c) = dist(a, c) - dist(a, b) + Len(Servers)
  /\ \A a, b \in Server : dist(a, b) < Len(Servers)
  /\ \A a, b, c \in Server : dist(a, b) = dist(a, c) => b = c
<1> DEFINE N == Len(Servers)
<1>1. N \in Nat /\ \A s \in Server : pos(s) \in 1..N
  BY ServersFacts, PosFacts
<1>2. \A s, t \in Server : pos(s) = pos(t) => s = t
  BY PosFacts
<1> HIDE DEF N
<1>3. \A a, b \in Server : dist(a, b) = IF pos(a) <= pos(b) THEN pos(b) - pos(a) ELSE (pos(b) + N) - pos(a)
  BY DEF dist, N
<1>4. ASSUME NEW a \in Server, NEW b \in Server
      PROVE  dist(a, b) \in Nat /\ (dist(a, b) = 0 <=> a = b) /\ dist(a, b) < N
  BY <1>1, <1>2, <1>3
<1>5. ASSUME NEW a \in Server, NEW b \in Server, NEW c \in Server
      PROVE  /\ dist(a, b) <= dist(a, c) => dist(b, c) = dist(a, c) - dist(a, b)
             /\ dist(a, c) < dist(a, b) => dist(b, c) = dist(a, c) - dist(a, b) + N
             /\ dist(a, b) = dist(a, c) => b = c
  BY <1>1, <1>2, <1>3
<1> QED
  BY <1>4, <1>5 DEF N

\* ReorderRing, place by place: what comes behind id, then what comes before it.
LEMMA ReorderParts ==
  ASSUME NEW r \in Rings, NEW k \in 1..Len(r)
  PROVE  LET R == ReorderRing(r, r[k]) IN
         /\ R \in Seq(Server) /\ Len(R) = Len(r) - 1
         /\ \A i \in 1..Len(R) : R[i] = IF i <= Len(r) - k THEN r[k + i] ELSE r[i - (Len(r) - k)]
<1> DEFINE a == SubSeq(r, k + 1, Len(r))
           b == SubSeq(r, 1, k - 1)
<1>1. /\ Len(r) \in Nat /\ k \in Nat /\ 1 <= k /\ k <= Len(r)
      /\ \A i \in 1..Len(r) : r[i] \in Server
      /\ \A i, j \in 1..Len(r) : r[i] = r[j] => i = j
  BY RingParts
<1>2. ReorderRing(r, r[k]) = a \o b
  <2>1. (CHOOSE j \in 1..Len(r) : r[j] = r[k]) = k
    BY <1>1
  <2> QED
    BY <2>1 DEF ReorderRing
<1>3. /\ a \in Seq(Server) /\ Len(a) = Len(r) - k
      /\ \A i \in 1..(Len(r) - k) : a[i] = r[k + i]
  <2>1. \A j \in (k + 1)..Len(r) : r[j] \in Server
    BY <1>1
  <2>2. /\ a \in Seq(Server) /\ Len(a) = IF k + 1 <= Len(r) THEN Len(r) - (k + 1) + 1 ELSE 0
        /\ \A i \in 1..(Len(r) - (k + 1) + 1) : a[i] = r[(k + 1) + i - 1]
    BY <1>1, <2>1, SubSeqProperties
  <2>3. \A i \in 1..(Len(r) - k) : i \in 1..(Len(r) - (k + 1) + 1) /\ (k + 1) + i - 1 = k + i
    BY <1>1
  <2> QED
    BY <1>1, <2>2, <2>3
<1>4. /\ b \in Seq(Server) /\ Len(b) = k - 1
      /\ \A i \in 1..(k - 1) : b[i] = r[i]
  <2>1. \A j \in 1..(k - 1) : r[j] \in Server
    BY <1>1
  <2>2. /\ b \in Seq(Server) /\ Len(b) = IF 1 <= k - 1 THEN (k - 1) - 1 + 1 ELSE 0
        /\ \A i \in 1..((k - 1) - 1 + 1) : b[i] = r[1 + i - 1]
    BY <1>1, <2>1, SubSeqProperties
  <2>3. \A i \in 1..(k - 1) : i \in 1..((k - 1) - 1 + 1) /\ 1 + i - 1 = i
    BY <1>1
  <2> QED
    BY <1>1, <2>2, <2>3
<1> HIDE DEF a, b
<1>5. /\ a \o b \in Seq(Server) /\ Len(a \o b) = Len(a) + Len(b)
      /\ \A i \in 1..(Len(a) + Len(b)) : (a \o b)[i] = IF i <= Len(a) THEN a[i] ELSE b[i - Len(a)]
  BY ZenonT(60), <1>3, <1>4, ConcatProperties
<1>6. Len(a) + Len(b) = Len(r) - 1
  BY <1>1, <1>3, <1>4
<1>7. ASSUME NEW i \in 1..(Len(r) - 1)
      PROVE  (a \o b)[i] = IF i <= Len(r) - k THEN r[k + i] ELSE r[i - (Len(r) - k)]
  <2>1. CASE i <= Len(r) - k
    BY SMTT(60), <1>1, <1>3, <1>5, <1>6, <2>1
  <2>2. CASE ~(i <= Len(r) - k)
    <3>1. i - (Len(r) - k) \in 1..(k - 1)
      BY <1>1, <2>2
    <3> QED
      BY ZenonT(60), <1>1, <1>3, <1>4, <1>5, <1>6, <2>2, <3>1
  <2> QED
    BY <2>1, <2>2
<1> QED
  BY <1>2, <1>5, <1>6, <1>7

\* Without its server, a ring is a ring of the others.
LEMMA ReorderFacts ==
  ASSUME NEW r \in Rings, NEW s
  PROVE  /\ ReorderRing(r, s) \in Rings
         /\ Range(ReorderRing(r, s)) = Range(r) \ {s}
         /\ r = << >> => ReorderRing(r, s) = << >>
<1>1. CASE \A i \in 1..Len(r) : r[i] # s
  <2>1. ReorderRing(r, s) = r
    BY <1>1 DEF ReorderRing
  <2> QED
    BY <1>1, <2>1, RingParts
<1>2. ASSUME NEW k \in 1..Len(r), r[k] = s
      PROVE  /\ ReorderRing(r, s) \in Rings
             /\ Range(ReorderRing(r, s)) = Range(r) \ {s}
             /\ r # << >>
  <2> DEFINE R == ReorderRing(r, s)
             at(i) == IF i <= Len(r) - k THEN k + i ELSE i - (Len(r) - k)
  <2>1. /\ Len(r) \in Nat /\ \A i \in 1..Len(r) : r[i] \in Server
        /\ \A i, j \in 1..Len(r) : r[i] = r[j] => i = j
        /\ k \in Nat /\ 1 <= k /\ k <= Len(r)
    BY RingParts
  <2>2. R \in Seq(Server) /\ Len(R) = Len(r) - 1 /\ \A i \in 1..Len(R) : R[i] = r[at(i)]
    BY <1>2, ReorderParts
  <2>3. DOMAIN R = 1..(Len(r) - 1)
    BY <2>2, LenProperties
  <2> HIDE DEF R
  <2>4. \A i \in 1..(Len(r) - 1) : at(i) \in 1..Len(r) /\ at(i) # k
    BY <2>1
  <2>5. \A i, j \in 1..(Len(r) - 1) : at(i) = at(j) => i = j
    BY <2>1
  <2>6. \A m \in 1..Len(r) : m # k => \E i \in 1..(Len(r) - 1) : at(i) = m
    <3> SUFFICES ASSUME NEW m \in 1..Len(r), m # k
                 PROVE  \E i \in 1..(Len(r) - 1) : at(i) = m
      OBVIOUS
    <3>1. CASE m > k
      <4>1. m - k \in 1..(Len(r) - 1) /\ at(m - k) = m
        BY <2>1, <3>1
      <4> QED
        BY <4>1
    <3>2. CASE m < k
      <4>1. m + (Len(r) - k) \in 1..(Len(r) - 1) /\ at(m + (Len(r) - k)) = m
        BY <2>1, <3>2
      <4> QED
        BY <4>1
    <3> QED
      BY <2>1, <3>1, <3>2
  <2> HIDE DEF at
  <2>7. IsInjective(R)
    BY SMTT(60), <2>1, <2>2, <2>3, <2>4, <2>5 DEF IsInjective
  <2>8. Range(R) = Range(r) \ {s}
    <3>1. ASSUME NEW i \in 1..(Len(r) - 1) PROVE R[i] \in Range(r) \ {s}
      BY <1>2, <2>1, <2>2, <2>4, RingParts
    <3>2. ASSUME NEW x \in Range(r) \ {s} PROVE \E i \in 1..(Len(r) - 1) : R[i] = x
      <4>1. PICK m \in 1..Len(r) : r[m] = x
        BY RingParts
      <4> QED
        BY <1>2, <2>2, <2>6, <4>1
    <3> QED
      BY <2>3, <3>1, <3>2 DEF Range
  <2>9. r # << >>
    BY <2>1
  <2> QED
    BY <2>2, <2>7, <2>8, <2>9, RingFacts DEF R
<1> QED
  BY <1>1, <1>2

\* The ring of all, seen from one of its servers, starts behind that server.
LEMMA ReorderOrder ==
  ASSUME NEW r \in Rings, InOrder(r), NEW s \in Range(r)
  PROVE  Behind(s, ReorderRing(r, s))
<1> DEFINE R == ReorderRing(r, s)
<1>1. PICK k \in 1..Len(r) : r[k] = s
  BY RingParts
<1> DEFINE at(i) == IF i <= Len(r) - k THEN k + i ELSE i - (Len(r) - k)
           d(i) == dist(r[1], r[i])
<1>2. /\ Len(r) \in Nat /\ \A i \in 1..Len(r) : r[i] \in Server
      /\ k \in Nat /\ 1 <= k /\ k <= Len(r) /\ 1 \in 1..Len(r)
  BY <1>1, RingParts
<1>3. Len(R) = Len(r) - 1 /\ \A i \in 1..Len(R) : R[i] = r[at(i)]
  BY <1>1, ReorderParts
<1>4. \A i \in 1..Len(R) : R[i] # s
  <2>1. R \in Rings /\ s \notin Range(R)
    BY ReorderFacts
  <2> QED
    BY <2>1, RingParts
<1>5. \A i \in 1..Len(r) : d(i) \in Nat /\ d(i) < Len(Servers)
  BY <1>2, DistFacts
<1>6. \A i, j \in 1..Len(r) : i < j => d(i) < d(j)
  BY DEF InOrder
<1>7. ASSUME NEW i \in 1..Len(r)
      PROVE  dist(s, r[i]) = IF i < k THEN d(i) - d(k) + Len(Servers) ELSE d(i) - d(k)
  <2>1. CASE i < k
    BY <1>1, <1>2, <1>6, <2>1, DistFacts
  <2>2. CASE i = k
    <3>1. d(k) <= d(i)
      BY <1>5, <2>2
    <3> QED
      BY <1>1, <1>2, <2>2, <3>1, DistFacts
  <2>3. CASE i > k
    <3>1. d(k) <= d(i)
      BY <1>1, <1>2, <1>5, <1>6, <2>3
    <3> QED
      BY <1>1, <1>2, <2>3, <3>1, DistFacts
  <2> QED
    BY <1>2, <2>1, <2>2, <2>3
<1>8. ASSUME NEW i \in 1..Len(R), NEW j \in 1..Len(R), i < j
      PROVE  dist(s, R[i]) < dist(s, R[j])
  <2>1. /\ at(i) \in 1..Len(r) /\ at(j) \in 1..Len(r)
        /\ \/ at(i) < at(j) /\ (at(i) < k <=> at(j) < k)
           \/ at(j) < k /\ k <= at(i)
    BY <1>2, <1>3, <1>8
  <2>2. R[i] = r[at(i)] /\ R[j] = r[at(j)]
    BY <1>3
  <2> HIDE DEF at, R
  <2> DEFINE a == at(i)
             b == at(j)
  <2> HIDE DEF a, b
  <2>3. /\ a \in 1..Len(r) /\ b \in 1..Len(r) /\ R[i] = r[a] /\ R[j] = r[b]
        /\ \/ a < b /\ (a < k <=> b < k)
           \/ b < k /\ k <= a
    BY <2>1, <2>2 DEF a, b
  <2>4. /\ dist(s, R[i]) = IF a < k THEN d(a) - d(k) + Len(Servers) ELSE d(a) - d(k)
        /\ dist(s, R[j]) = IF b < k THEN d(b) - d(k) + Len(Servers) ELSE d(b) - d(k)
    BY <1>7, <2>3
  <2>5. /\ d(a) \in Nat /\ d(b) \in Nat /\ d(k) \in Nat /\ d(a) < Len(Servers)
        /\ Len(Servers) \in Nat
        /\ a < b => d(a) < d(b)
    BY <1>1, <1>5, <1>6, <2>3, ServersFacts
  <2> HIDE DEF d
  <2> QED
    BY SMTT(60), <1>2, <2>3, <2>4, <2>5
<1> QED
  BY <1>4, <1>8 DEF Behind

-----------------------------------------------------------------------------
(* Messages *)

\* A message, perhaps before its first server is listed.
Draft ==
  {m \in [Message_Type : {"Discovery", "Announcement", "NewRing", "RingDiscover"},
          Visited_Nodes : Rings, ZxId_List : Seq(Nat), Payload : Rings] :
     /\ m.ZxId_List = [i \in 1..Len(m.Visited_Nodes) |-> ZXID[m.Visited_Nodes[i]]]
     /\ m.Message_Type = "Announcement" => Len(m.Payload) = 1}

Msg == {m \in Draft : m.Visited_Nodes # << >>}

\* m with s on its lists.
visit(m, s) == [m EXCEPT !.Visited_Nodes = Append(@, s), !.ZxId_List = Append(@, ZXID[s])]

\* The messages of the code are such messages.
LEMMA MsgIsOK == ASSUME NEW m \in Msg PROVE MessageOK(m)
<1>1. m \in Draft /\ m.Visited_Nodes \in Rings /\ m.Payload \in Rings
  BY DEF Msg, Draft
<1>2. IsInjective(m.Visited_Nodes) /\ Range(m.Visited_Nodes) \subseteq Server
  BY <1>1, RingFacts, RingParts
<1>3. m.Message_Type = "Announcement" => Len(m.Payload) = 1 /\ m.Payload[1] \in Server
  <2>1. SUFFICES ASSUME m.Message_Type = "Announcement" PROVE Len(m.Payload) = 1 /\ m.Payload[1] \in Server
    OBVIOUS
  <2>2. Len(m.Payload) = 1
    BY SMTT(60), <1>1, <2>1 DEF Draft
  <2> QED
    BY <1>1, <2>2, RingParts
<1> QED
  BY <1>1, <1>2, <1>3 DEF MessageOK, Draft

\* A message that has not visited s can go on with s.
LEMMA VisitFacts ==
  ASSUME NEW m \in Draft, NEW s \in Server, ~complete(s, m)
  PROVE  /\ visit(m, s) \in Msg
         /\ visit(m, s).Message_Type = m.Message_Type
         /\ visit(m, s).Payload = m.Payload
         /\ visit(m, s).Visited_Nodes = Append(m.Visited_Nodes, s)
<1> DEFINE V == m.Visited_Nodes
           Z == m.ZxId_List
<1>1. /\ m \in [Message_Type : {"Discovery", "Announcement", "NewRing", "RingDiscover"},
                Visited_Nodes : Rings, ZxId_List : Seq(Nat), Payload : Rings]
      /\ Z = [i \in 1..Len(V) |-> ZXID[V[i]]]
      /\ m.Message_Type = "Announcement" => Len(m.Payload) = 1
  BY DEF Draft
<1>2. V \in Rings /\ Z \in Seq(Nat) /\ s \notin Range(V)
  BY <1>1 DEF complete
<1>3. ZXID[s] \in Nat
  BY ServersFacts
<1>4. /\ visit(m, s) \in [Message_Type : {"Discovery", "Announcement", "NewRing", "RingDiscover"},
                          Visited_Nodes : Rings, ZxId_List : Seq(Nat), Payload : Rings]
      /\ visit(m, s) = [m EXCEPT !.Visited_Nodes = Append(V, s), !.ZxId_List = Append(Z, ZXID[s])]
  <2>1. Append(V, s) \in Rings /\ Append(Z, ZXID[s]) \in Seq(Nat)
    BY <1>2, <1>3, RingAppend, AppendProperties
  <2> QED
    BY <1>1, <2>1 DEF visit
<1>5. Append(Z, ZXID[s]) = [i \in 1..Len(Append(V, s)) |-> ZXID[Append(V, s)[i]]]
  <2> DEFINE z == Append(Z, ZXID[s])
             v == Append(V, s)
  <2>1. Len(V) \in Nat /\ Len(Z) = Len(V)
    BY <1>1, <1>2, RingParts, LenProperties
  <2>2. /\ Len(v) = Len(V) + 1 /\ \A i \in 1..Len(V) : v[i] = V[i]
        /\ v[Len(V) + 1] = s
    BY <1>2, RingAppend
  <2>3. /\ z \in Seq(Nat) /\ Len(z) = Len(V) + 1 /\ \A i \in 1..Len(V) : z[i] = Z[i]
        /\ z[Len(V) + 1] = ZXID[s]
    BY <1>2, <1>3, <2>1, AppendProperties
  <2>4. DOMAIN z = 1..(Len(V) + 1) /\ z \in [1..(Len(V) + 1) -> Nat]
    BY <2>3, LenProperties
  <2> HIDE DEF z, v
  <2>5. ASSUME NEW i \in 1..(Len(V) + 1) PROVE z[i] = ZXID[v[i]]
    <3>1. CASE i \in 1..Len(V)
      <4>1. Z[i] = ZXID[V[i]]
        BY <1>1, <3>1
      <4> QED
        BY <2>2, <2>3, <3>1, <4>1
    <3>2. CASE i = Len(V) + 1
      BY <2>2, <2>3, <3>2
    <3> QED
      BY <2>1, <3>1, <3>2
  <2>6. z = [i \in 1..Len(v) |-> ZXID[v[i]]]
    BY <2>2, <2>4, <2>5
  <2> QED
    BY <2>6 DEF z, v
<1>6. Append(V, s) # << >>
  BY <1>2, RingAppend
<1> QED
  BY ZenonT(60), <1>1, <1>4, <1>5, <1>6 DEF Draft, Msg

\* The message of StartRingMessage.
LEMMA StartFacts ==
  ASSUME NEW s \in Server, NEW content \in Rings,
         NEW type \in {"Discovery", "Announcement", "NewRing", "RingDiscover"},
         type = "Announcement" => Len(content) = 1
  PROVE  /\ Message(type, <<s>>, <<ZXID[s]>>, content) \in Msg
         /\ Message(type, <<s>>, <<ZXID[s]>>, content).Message_Type = type
         /\ Message(type, <<s>>, <<ZXID[s]>>, content).Payload = content
         /\ Message(type, <<s>>, <<ZXID[s]>>, content).Visited_Nodes = <<s>>
<1>1. <<s>> \in Rings /\ Len(<<s>>) = 1 /\ <<s>>[1] = s
  BY SmallRings
<1>2. ZXID[s] \in Nat
  BY ServersFacts
<1>3. <<ZXID[s]>> \in Seq(Nat)
  BY <1>2
<1>4. <<ZXID[s]>> = [i \in 1..1 |-> ZXID[<<s>>[i]]]
  BY <1>1
<1>5. <<s>> # << >>
  OBVIOUS
<1> QED
  BY <1>1, <1>3, <1>4, <1>5 DEF Message, Draft, Msg

-----------------------------------------------------------------------------
(* What is on its way *)

Item    == [ring : Rings, message : Msg]
NetType == [Server -> [Server -> Seq(Msg)]]

\* m is among the messages from a to b; x among what a has still to send.
Carries(n, a, b, m) == \E i \in 1..Len(n[a][b]) : n[a][b][i] = m
Waits(d, a, x) == \E i \in 1..Len(d[a]) : d[a][i] = x

\* t is the first server of the list that runs.
FirstUp(ring, t) ==
  \E i \in 1..Len(ring) :
    /\ ring[i] = t /\ t \in up
    /\ \A j \in 1..Len(ring) : j < i => ring[j] \notin up

\* Only m is new on the net, from s to the first running server of the list.
SendsAtMost(n, s, ring, m) ==
  /\ net' \in NetType
  /\ \A a, b \in Server : \A x :
       Carries(net', a, b, x) => \/ Carries(n, a, b, x)
                                 \/ a = s /\ FirstUp(ring, b) /\ x = m

\* Only x is new among what the goroutines of s have to send.
StartsAtMost(s, x) ==
  /\ dispatching' \in [Server -> Seq(Item)]
  /\ \A a \in Server : \A y : Waits(dispatching', a, y) => Waits(dispatching, a, y) \/ (a = s /\ y = x)

\* A message that is taken leaves the others as they were.
LEMMA TakeFacts ==
  ASSUME net \in NetType, NEW s \in Server, NEW t \in Server, net[t][s] # << >>
  PROVE  LET n == [net EXCEPT ![t][s] = Tail(@)] IN
         /\ n \in NetType
         /\ \A a, b \in Server : \A x : Carries(n, a, b, x) => Carries(net, a, b, x)
         /\ Head(net[t][s]) \in Msg
         /\ Carries(net, t, s, Head(net[t][s]))
<1> DEFINE q == net[t][s]
           n == [net EXCEPT ![t][s] = Tail(@)]
<1>1. /\ q \in Seq(Msg) /\ Head(q) \in Msg /\ Tail(q) \in Seq(Msg)
      /\ Len(q) \in Nat /\ Len(q) >= 1 /\ Head(q) = q[1] /\ Len(Tail(q)) = Len(q) - 1
      /\ \A i \in 1..(Len(q) - 1) : Tail(q)[i] = q[i + 1]
  <2>1. q \in Seq(Msg) /\ q # << >>
    BY DEF NetType
  <2> HIDE DEF q
  <2> QED
    BY <2>1, HeadFacts
<1>2. n \in NetType
  BY <1>1 DEF NetType
<1>3. \A a, b \in Server : n[a][b] = IF a = t /\ b = s THEN Tail(q) ELSE net[a][b]
  BY DEF NetType
<1>4. ASSUME NEW a \in Server, NEW b \in Server, NEW x, Carries(n, a, b, x)
      PROVE  Carries(net, a, b, x)
  <2>1. CASE a = t /\ b = s
    <3>1. n[a][b] = Tail(q)
      BY <1>3, <2>1
    <3>2. PICK i \in 1..(Len(q) - 1) : Tail(q)[i] = x
      BY <1>1, <1>4, <3>1 DEF Carries
    <3>3. i + 1 \in 1..Len(q) /\ q[i + 1] = x
      BY <1>1, <3>2
    <3> QED
      BY <2>1, <3>3 DEF Carries
  <2>2. CASE ~(a = t /\ b = s)
    BY <1>3, <1>4, <2>2 DEF Carries
  <2> QED
    BY <2>1, <2>2
<1>5. Carries(net, t, s, Head(q))
  <2>1. 1 \in 1..Len(q)
    BY SMTT(60), <1>1
  <2> QED
    BY <1>1, <2>1 DEF Carries
<1> QED
  BY <1>1, <1>2, <1>4, <1>5

\* DispatchMessage sends to the first running server, or not at all.
LEMMA DispatchFacts ==
  ASSUME NEW n \in NetType, NEW s \in Server, NEW ring \in Rings, NEW m \in Msg,
         up \subseteq Server, DispatchMessage(s, ring, m, n)
  PROVE  SendsAtMost(n, s, ring, m)
<1> DEFINE alive == {i \in 1..Len(ring) : ring[i] \in up}
           k     == CHOOSE j \in alive : \A x \in alive : j <= x
<1>1. net' = n \/ (alive # {} /\ net' = [n EXCEPT ![s][ring[k]] = Append(@, m)])
  BY ZenonT(60) DEF DispatchMessage
<1>2. CASE net' = n
  BY <1>2 DEF SendsAtMost
<1>3. CASE alive # {} /\ net' = [n EXCEPT ![s][ring[k]] = Append(@, m)]
  <2>1. k \in alive /\ \A x \in alive : k <= x
    <3>1. alive \subseteq Nat
      BY RingParts
    <3> HIDE DEF alive
    <3>2. \E j \in alive : \A x \in alive : j <= x
      BY <1>3, <3>1, MinimumExists
    <3> QED
      BY <3>2
  <2> HIDE DEF k
  <2>2. /\ k \in 1..Len(ring) /\ ring[k] \in up /\ ring[k] \in Server
        /\ \A j \in 1..Len(ring) : j < k => ring[j] \notin up
    BY <2>1, RingParts
  <2> DEFINE t == ring[k]
             q == n[s][t]
  <2>3. FirstUp(ring, t)
    BY <2>2 DEF FirstUp
  <2> HIDE DEF t
  <2>4. t \in Server /\ net' = [n EXCEPT ![s][t] = Append(q, m)]
    BY <1>3, <2>2 DEF t, NetType
  <2>5. q \in Seq(Msg)
    BY <2>4 DEF NetType
  <2>6. /\ Append(q, m) \in Seq(Msg) /\ Len(q) \in Nat /\ Len(Append(q, m)) = Len(q) + 1
        /\ \A i \in 1..Len(q) : Append(q, m)[i] = q[i]
        /\ Append(q, m)[Len(q) + 1] = m
    <3> HIDE DEF q
    <3> QED
      BY <2>5, AppendFacts
  <2>7. net' \in NetType
    BY <2>4, <2>6 DEF NetType
  <2>8. \A a, b \in Server : net'[a][b] = IF a = s /\ b = t THEN Append(q, m) ELSE n[a][b]
    BY <2>4 DEF NetType
  <2>9. ASSUME NEW a \in Server, NEW b \in Server, NEW x, Carries(net', a, b, x)
        PROVE  Carries(n, a, b, x) \/ (a = s /\ b = t /\ x = m)
    <3>1. CASE a = s /\ b = t
      <4>1. PICK i \in 1..(Len(q) + 1) : Append(q, m)[i] = x
        BY <2>6, <2>8, <2>9, <3>1 DEF Carries
      <4>2. i \in 1..Len(q) \/ i = Len(q) + 1
        BY <2>6
      <4> QED
        BY <2>6, <3>1, <4>1, <4>2 DEF Carries
    <3>2. CASE ~(a = s /\ b = t)
      BY <2>8, <2>9, <3>2 DEF Carries
    <3> QED
      BY <3>1, <3>2
  <2> QED
    BY <2>3, <2>7, <2>9 DEF SendsAtMost
<1> QED
  BY ZenonT(60), <1>1, <1>2, <1>3

\* Pass_message_down_ring does so with the message that has visited s as well,
\* unless the round is complete.
LEMMA PassFacts ==
  ASSUME NEW n \in NetType, NEW s \in Server, NEW ring \in Rings, NEW m \in Draft,
         up \subseteq Server, Pass_message_down_ring(s, ring, m, n)
  PROVE  \/ complete(s, m) /\ net' = n
         \/ ~complete(s, m) /\ SendsAtMost(n, s, ring, visit(m, s))
<1>1. CASE complete(s, m)
  BY <1>1 DEF Pass_message_down_ring
<1>2. CASE ~complete(s, m)
  <2>1. DispatchMessage(s, ring, visit(m, s), n)
    BY <1>2 DEF Pass_message_down_ring, visit
  <2>2. visit(m, s) \in Msg
    BY <1>2, VisitFacts
  <2> QED
    BY <1>2, <2>1, <2>2, DispatchFacts
<1> QED
  BY <1>1, <1>2

\* StartRingMessage leaves its message to a new goroutine.
LEMMA StartsFacts ==
  ASSUME dispatching \in [Server -> Seq(Item)], NEW s \in Server, NEW ring \in Rings,
         NEW content \in Rings, NEW type \in {"Discovery", "Announcement", "NewRing", "RingDiscover"},
         type = "Announcement" => Len(content) = 1,
         StartRingMessage(s, ring, content, type)
  PROVE  StartsAtMost(s, [ring |-> ring, message |-> Message(type, <<s>>, <<ZXID[s]>>, content)])
<1> DEFINE x == [ring |-> ring, message |-> Message(type, <<s>>, <<ZXID[s]>>, content)]
           q == dispatching[s]
<1>1. x \in Item /\ q \in Seq(Item)
  BY ZenonT(60), StartFacts DEF Item
<1>2. dispatching' = [dispatching EXCEPT ![s] = Append(q, x)]
  BY DEF StartRingMessage
<1> HIDE DEF x
<1>3. /\ Append(q, x) \in Seq(Item) /\ Len(q) \in Nat /\ Len(Append(q, x)) = Len(q) + 1
      /\ \A i \in 1..Len(q) : Append(q, x)[i] = q[i]
      /\ Append(q, x)[Len(q) + 1] = x
  <2> HIDE DEF q
  <2> QED
    BY <1>1, AppendFacts
<1>4. dispatching' \in [Server -> Seq(Item)]
  BY <1>2, <1>3
<1>5. \A a \in Server : dispatching'[a] = IF a = s THEN Append(q, x) ELSE dispatching[a]
  BY <1>2
<1>6. ASSUME NEW a \in Server, NEW y, Waits(dispatching', a, y)
      PROVE  Waits(dispatching, a, y) \/ (a = s /\ y = x)
  <2>1. CASE a = s
    <3>1. PICK i \in 1..(Len(q) + 1) : Append(q, x)[i] = y
      BY <1>3, <1>5, <1>6, <2>1 DEF Waits
    <3>2. i \in 1..Len(q) \/ i = Len(q) + 1
      BY <1>3
    <3> QED
      BY <1>3, <2>1, <3>1, <3>2 DEF Waits
  <2>2. CASE a # s
    BY <1>5, <1>6, <2>2 DEF Waits
  <2> QED
    BY <2>1, <2>2
<1> QED
  BY <1>4, <1>6 DEF StartsAtMost, x

-----------------------------------------------------------------------------
(* The winner of an election *)

\* a wins against b.
better(a, b) == ZXID[a] > ZXID[b] \/ (ZXID[a] = ZXID[b] /\ a > b)

\* Of two servers one is better, and what is better than a better one is better.
LEMMA BetterFacts ==
  /\ \A a, b \in Server : a # b => better(a, b) \/ better(b, a)
  /\ \A a, b \in Server : ~(better(a, b) /\ better(b, a))
  /\ \A a, b, c \in Server : better(a, b) /\ better(b, c) => better(a, c)
<1>1. \A a \in Server : a \in Nat /\ ZXID[a] \in Nat
  BY ServersFacts
<1> QED
  BY <1>1 DEF better

\* Some server is better than all others.
LEMMA BestExists ==
  ASSUME NEW S \in SUBSET Server, S # {}
  PROVE  \E b \in S : \A t \in S \ {b} : better(b, t)
<1> DEFINE first(k) == {s \in S : pos(s) <= k}
           winner(T) == \E b \in T : \A t \in T \ {b} : better(b, t)
           bad == {k \in Nat : first(k) # {} /\ ~winner(first(k))}
<1>1. \A s \in S : s \in Server /\ pos(s) \in Nat /\ 1 <= pos(s) /\ pos(s) <= Len(Servers)
  BY PosFacts, ServersFacts
<1>2. SUFFICES ASSUME ~\E b \in S : \A t \in S \ {b} : better(b, t) PROVE FALSE
  OBVIOUS
<1>3. Len(Servers) \in bad
  <2>1. first(Len(Servers)) = S
    BY <1>1
  <2> QED
    BY <1>2, <2>1, ServersFacts
<1>4. PICK m \in bad : \A k \in bad : m <= k
  <2> HIDE DEF bad
  <2>1. bad \subseteq Nat
    BY DEF bad
  <2> QED
    BY <1>3, <2>1, MinimumExists
<1>5. m \in Nat /\ first(m) # {} /\ ~winner(first(m)) /\ m >= 1
  BY <1>1, <1>4
<1>6. m - 1 \in Nat /\ m - 1 \notin bad
  <2> HIDE DEF bad
  <2> QED
    BY <1>4, <1>5
<1>7. PICK x \in S : pos(x) = m
  <2>1. CASE \E y \in S : pos(y) = m
    BY <2>1
  <2>2. CASE \A y \in S : pos(y) # m
    <3>1. ASSUME NEW y \in S PROVE pos(y) <= m <=> pos(y) <= m - 1
      <4>1. pos(y) \in Nat /\ pos(y) # m /\ m \in Nat
        BY <1>1, <1>5, <2>2
      <4> QED
        BY ONLY <4>1
    <3>2. first(m) = first(m - 1)
      BY <3>1
    <3> HIDE DEF first, winner
    <3> QED
      BY <1>5, <1>6, <3>2
  <2> QED
    BY <2>1, <2>2
<1>8. first(m) = first(m - 1) \cup {x} /\ x \notin first(m - 1)
  <2>1. \A y \in S : pos(y) <= m <=> pos(y) <= m - 1 \/ y = x
    BY SMTT(60), <1>1, <1>5, <1>7, PosFacts
  <2>2. x \in S /\ ~(pos(x) <= m - 1)
    BY <1>5, <1>7
  <2> QED
    BY ONLY ZenonT(60), <2>1, <2>2
<1>9. CASE first(m - 1) = {}
  <2>1. first(m) = {x}
    BY <1>8, <1>9
  <2> QED
    BY <1>5, <2>1
<1>10. CASE first(m - 1) # {}
  <2>1. PICK b \in first(m - 1) : \A t \in first(m - 1) \ {b} : better(b, t)
    BY <1>6, <1>10
  <2> HIDE DEF bad
  <2>2. b \in Server /\ x \in Server /\ b # x /\ \A t \in first(m - 1) : t \in Server
    BY <1>1, <1>8
  <2> HIDE DEF first
  <2>3. CASE better(b, x)
    <3>1. b \in first(m) /\ \A t \in first(m) \ {b} : better(b, t)
      BY <1>8, <2>1, <2>3
    <3> QED
      BY <1>5, <3>1
  <2>4. CASE better(x, b)
    <3>1. \A t \in first(m - 1) : better(x, t)
      BY <2>1, <2>2, <2>4, BetterFacts
    <3>2. x \in first(m) /\ \A t \in first(m) \ {x} : better(x, t)
      BY <1>8, <3>1
    <3> QED
      BY <1>5, <3>2
  <2> QED
    BY <2>2, <2>3, <2>4, BetterFacts
<1> QED
  BY <1>9, <1>10

\* best(S) is that server, and no other is.
LEMMA BestFacts ==
  ASSUME NEW S \in SUBSET Server, S # {}
  PROVE  /\ best(S) \in S
         /\ \A b \in S : (\A t \in S \ {b} : better(b, t)) => b = best(S)
         /\ \A t \in S \ {best(S)} : better(best(S), t)
<1>1. best(S) = CHOOSE s \in S : \A t \in S \ {s} : better(s, t)
  BY Zenon DEF best, better
<1>2. best(S) \in S /\ \A t \in S \ {best(S)} : better(best(S), t)
  BY <1>1, BestExists
<1>3. ASSUME NEW b \in S, \A t \in S \ {b} : better(b, t)
      PROVE  b = best(S)
  <2>1. SUFFICES ASSUME b # best(S) PROVE FALSE
    OBVIOUS
  <2>2. better(b, best(S)) /\ better(best(S), b) /\ b \in Server /\ best(S) \in Server
    BY <1>2, <1>3, <2>1
  <2> QED
    BY <2>2, BetterFacts
<1> QED
  BY <1>2, <1>3

\* The server that is best remains so when others fail.
LEMMA BestRemains ==
  ASSUME NEW S \in SUBSET Server, NEW T \in SUBSET S, best(S) \in T
  PROVE  best(T) = best(S)
<1>1. S # {} /\ T # {} /\ T \in SUBSET Server
  OBVIOUS
<1>2. \A t \in T \ {best(S)} : better(best(S), t)
  BY <1>1, BestFacts
<1> QED
  BY <1>1, <1>2, BestFacts

\* getCorrespondingValue finds the best of the servers visited.
LEMMA WinnerFacts ==
  ASSUME NEW V \in Rings, V # << >>
  PROVE  LET Z == [i \in 1..Len(V) |-> ZXID[V[i]]]
         IN  getCorrespondingValue(Z, V) = best(Range(V)) /\ best(Range(V)) \in Range(V)
<1> DEFINE Z == [i \in 1..Len(V) |-> ZXID[V[i]]]
           wins(i) == \A j \in 1..Len(Z) :
                        Z[i] > Z[j] \/ (Z[i] = Z[j] /\ V[i] >= V[j])
           k == CHOOSE i \in 1..Len(Z) : wins(i)
<1>1. /\ Len(V) \in Nat /\ \A i \in 1..Len(V) : V[i] \in Server /\ V[i] \in Nat /\ ZXID[V[i]] \in Nat
      /\ \A s : s \in Range(V) <=> \E i \in 1..Len(V) : V[i] = s
      /\ Range(V) \subseteq Server
  BY RingParts, ServersFacts
<1>2. Len(V) >= 1
  <2>1. V \in Seq(Server)
    BY RingParts
  <2> QED
    BY <2>1, EmptySeq
<1>3. Range(V) # {}
  <2>1. 1 \in 1..Len(V)
    BY <1>1, <1>2
  <2> QED
    BY <1>1, <2>1
<1>4. Len(Z) = Len(V) /\ \A i \in 1..Len(V) : Z[i] = ZXID[V[i]]
  BY <1>1
<1>5. best(Range(V)) \in Range(V) /\ \A t \in Range(V) \ {best(Range(V))} : better(best(Range(V)), t)
  BY <1>1, <1>3, BestFacts
<1>6. PICK b \in 1..Len(V) : V[b] = best(Range(V))
  BY <1>1, <1>5
<1> HIDE DEF Z
<1>7. wins(b)
  <2>1. ASSUME NEW j \in 1..Len(V) PROVE Z[b] > Z[j] \/ (Z[b] = Z[j] /\ V[b] >= V[j])
    <3>1. CASE V[j] = V[b]
      BY <1>1, <1>4, <3>1
    <3>2. CASE V[j] # V[b]
      <4>1. better(V[b], V[j])
        BY <1>1, <1>5, <1>6, <3>2
      <4> QED
        BY <1>1, <1>4, <4>1 DEF better
    <3> QED
      BY <3>1, <3>2
  <2> QED
    BY <1>4, <2>1
<1>8. k \in 1..Len(V) /\ wins(k)
  <2> HIDE DEF wins
  <2> QED
    BY <1>4, <1>6, <1>7
<1>9. V[k] = best(Range(V))
  <2> SUFFICES ASSUME V[k] # V[b] PROVE FALSE
    BY <1>6
  <2> HIDE DEF k
  <2>1. better(V[b], V[k])
    BY <1>1, <1>5, <1>6, <1>8
  <2>2. Z[k] > Z[b] \/ (Z[k] = Z[b] /\ V[k] >= V[b])
    BY <1>4, <1>8
  <2> QED
    BY <1>1, <1>4, <1>8, <2>1, <2>2 DEF better
<1>10. getCorrespondingValue(Z, V) = V[k]
  BY DEF getCorrespondingValue
<1> QED
  BY <1>5, <1>9, <1>10 DEF Z

-----------------------------------------------------------------------------
(* Types *)

StateOK ==
  /\ scenario \in Scenarios
  /\ up \subseteq Server
  /\ Addresses \in [Server -> Rings]
  /\ Coordinator \in [Server -> Server \cup {NoServer}]
  /\ ringDiscoverInitiator \in [Server -> BOOLEAN]
  /\ dispatching \in [Server -> Seq(Item)]
  /\ net \in NetType
  /\ failedSends \in [Server -> SUBSET Server]

\* Only m, with s on its lists, is new on the net, and only when it has not
\* been at s before.
Forwards(s, m, ring) ==
  /\ net' \in NetType
  /\ \A a, b \in Server : \A x :
       Carries(net', a, b, x) =>
         \/ Carries(net, a, b, x)
         \/ ~complete(s, m) /\ a = s /\ FirstUp(ring, b) /\ x = visit(m, s)

\* What is new among the goroutines of s is a round of this type.
Rounds(s, ring, content, type) ==
  StartsAtMost(s, [ring |-> ring, message |-> Message(type, <<s>>, <<ZXID[s]>>, content)])

\* Each handler, by what it sends, starts and remembers.
HandlesDiscovery(s, m) ==
  /\ m.Message_Type = "Discovery"
  /\ Forwards(s, m, ReorderRing(Addresses[s], s))
  /\ \/ UNCHANGED dispatching
     \/ /\ complete(s, m)
        /\ Rounds(s, ReorderRing(m.Visited_Nodes, s), <<best(Range(m.Visited_Nodes))>>, "Announcement")
  /\ UNCHANGED <<Addresses, Coordinator, ringDiscoverInitiator>>

HandlesAnnouncement(s, m) ==
  /\ m.Message_Type = "Announcement"
  /\ Forwards(s, m, ReorderRing(Addresses[s], s))
  /\ \/ UNCHANGED dispatching
     \/ complete(s, m) /\ Rounds(s, ReorderRing(Addresses[s], s), m.Visited_Nodes, "NewRing")
  /\ Coordinator' = [Coordinator EXCEPT ![s] = m.Payload[1]]
  /\ UNCHANGED <<Addresses, ringDiscoverInitiator>>

HandlesNewRing(s, m) ==
  /\ m.Message_Type = "NewRing"
  /\ Forwards(s, m, ReorderRing(m.Payload, s))
  /\ \/ UNCHANGED dispatching
     \/ ringDiscoverInitiator[s] /\ Rounds(s, ReorderRing(m.Payload, s), << >>, "Discovery")
  /\ Addresses' = [Addresses EXCEPT ![s] = m.Payload]
  /\ ringDiscoverInitiator' = [ringDiscoverInitiator EXCEPT ![s] = FALSE]
  /\ UNCHANGED Coordinator

HandlesRingDiscover(s, m) ==
  /\ m.Message_Type = "RingDiscover"
  /\ Forwards(s, m, ReorderRing(Addresses[s], s))
  /\ \/ UNCHANGED dispatching
     \/ complete(s, m) /\ Rounds(s, ReorderRing(m.Visited_Nodes, s), m.Visited_Nodes, "NewRing")
  /\ UNCHANGED <<Addresses, Coordinator, ringDiscoverInitiator>>

\* Every handler does what is said above, with a message that was on the net.
LEMMA HandleFacts ==
  ASSUME StateOK, NEW s \in Server, HandleMessage(s)
  PROVE  \E t \in Server, m \in Msg :
           /\ Carries(net, t, s, m) /\ s \in up
           /\ UNCHANGED <<scenario, up, failedSends, boots, crashes>>
           /\ \/ HandlesDiscovery(s, m) \/ HandlesAnnouncement(s, m)
              \/ HandlesNewRing(s, m) \/ HandlesRingDiscover(s, m)
<1> DEFINE h(t) == Head(net[t][s])
           n(t) == [net EXCEPT ![t][s] = Tail(@)]
<1>1. PICK t \in Server :
        /\ net[t][s] # << >>
        /\ \/ h(t).Message_Type = "Discovery" /\ HandleDiscoveryMessage(s, h(t), n(t))
           \/ h(t).Message_Type = "Announcement" /\ HandleAnnouncementMessage(s, h(t), n(t))
           \/ h(t).Message_Type = "NewRing" /\ HandleNewRingMessage(s, h(t), n(t))
           \/ h(t).Message_Type = "RingDiscover" /\ HandleRingDiscover(s, h(t), n(t))
  <2>1. PICK t \in Server :
          /\ net[t][s] # << >>
          /\ CASE h(t).Message_Type = "Discovery"    -> HandleDiscoveryMessage(s, h(t), n(t))
               [] h(t).Message_Type = "Announcement" -> HandleAnnouncementMessage(s, h(t), n(t))
               [] h(t).Message_Type = "NewRing"      -> HandleNewRingMessage(s, h(t), n(t))
               [] h(t).Message_Type = "RingDiscover" -> HandleRingDiscover(s, h(t), n(t))
    BY ZenonT(60) DEF HandleMessage
  <2>2. h(t) \in Msg
    BY <2>1, TakeFacts DEF StateOK
  <2>3. h(t).Message_Type \in {"Discovery", "Announcement", "NewRing", "RingDiscover"}
    <3> HIDE DEF h
    <3> QED
      BY <2>2 DEF Msg, Draft
  <2> HIDE DEF h, n
  <2> QED
    BY <2>1, <2>3
<1> DEFINE m == h(t)
           k == n(t)
<1>2. /\ m \in Msg /\ Carries(net, t, s, m) /\ k \in NetType
      /\ \A a, b \in Server : \A x : Carries(k, a, b, x) => Carries(net, a, b, x)
  BY <1>1, TakeFacts DEF StateOK
<1>3. s \in up /\ UNCHANGED <<scenario, up, failedSends, boots, crashes>>
  BY DEF HandleMessage
<1> HIDE DEF m, k
<1>4. /\ up \subseteq Server /\ Addresses[s] \in Rings /\ dispatching \in [Server -> Seq(Item)]
      /\ m \in Draft /\ m.Visited_Nodes \in Rings /\ m.Visited_Nodes # << >> /\ m.Payload \in Rings
      /\ m.ZxId_List = [i \in 1..Len(m.Visited_Nodes) |-> ZXID[m.Visited_Nodes[i]]]
  BY <1>2 DEF StateOK, Msg, Draft
<1>5. ASSUME NEW ring \in Rings, Pass_message_down_ring(s, ring, m, k)
      PROVE  Forwards(s, m, ring)
  <2>1. \/ complete(s, m) /\ net' = k
        \/ ~complete(s, m) /\ SendsAtMost(k, s, ring, visit(m, s))
    BY <1>2, <1>4, <1>5, PassFacts
  <2> QED
    BY <1>2, <2>1 DEF Forwards, SendsAtMost
<1>6. \A r \in Rings : ReorderRing(r, s) \in Rings
  BY ReorderFacts
<1>7. ASSUME NEW ring \in Rings, NEW content \in Rings,
             NEW type \in {"Discovery", "Announcement", "NewRing", "RingDiscover"},
             type = "Announcement" => Len(content) = 1,
             StartRingMessage(s, ring, content, type)
      PROVE  Rounds(s, ring, content, type)
  BY <1>4, <1>7, StartsFacts DEF Rounds
<1>8. CASE m.Message_Type = "Discovery" /\ HandleDiscoveryMessage(s, m, k)
  <2> DEFINE w == best(Range(m.Visited_Nodes))
  <2>1. w = getCorrespondingValue(m.ZxId_List, m.Visited_Nodes) /\ w \in Server
    BY <1>4, WinnerFacts, RingParts
  <2>2. <<w>> \in Rings /\ Len(<<w>>) = 1
    BY <2>1, SmallRings
  <2>3. /\ Pass_message_down_ring(s, ReorderRing(Addresses[s], s), m, k)
        /\ UNCHANGED <<Addresses, Coordinator, ringDiscoverInitiator>>
        /\ \/ UNCHANGED dispatching
           \/ /\ complete(s, m)
              /\ StartRingMessage(s, ReorderRing(m.Visited_Nodes, s), <<w>>, "Announcement")
    BY <1>8, <2>1 DEF HandleDiscoveryMessage
  <2> HIDE DEF w
  <2>4. Forwards(s, m, ReorderRing(Addresses[s], s))
    BY <1>4, <1>5, <1>6, <2>3
  <2>5. \/ UNCHANGED dispatching
        \/ complete(s, m) /\ Rounds(s, ReorderRing(m.Visited_Nodes, s), <<w>>, "Announcement")
    BY <1>4, <1>6, <1>7, <2>2, <2>3
  <2> QED
    BY <1>2, <1>3, <1>8, <2>3, <2>4, <2>5 DEF HandlesDiscovery, w
<1>9. CASE m.Message_Type = "Announcement" /\ HandleAnnouncementMessage(s, m, k)
  <2>1. /\ Pass_message_down_ring(s, ReorderRing(Addresses[s], s), m, k)
        /\ Coordinator' = [Coordinator EXCEPT ![s] = m.Payload[1]]
        /\ UNCHANGED <<Addresses, ringDiscoverInitiator>>
        /\ \/ UNCHANGED dispatching
           \/ /\ complete(s, m)
              /\ StartRingMessage(s, ReorderRing(Addresses[s], s), m.Visited_Nodes, "NewRing")
    BY <1>9 DEF HandleAnnouncementMessage
  <2>2. Forwards(s, m, ReorderRing(Addresses[s], s))
    BY <1>4, <1>5, <1>6, <2>1
  <2>3. \/ UNCHANGED dispatching
        \/ complete(s, m) /\ Rounds(s, ReorderRing(Addresses[s], s), m.Visited_Nodes, "NewRing")
    BY <1>4, <1>6, <1>7, <2>1
  <2> QED
    BY <1>2, <1>3, <1>9, <2>1, <2>2, <2>3 DEF HandlesAnnouncement
<1>10. CASE m.Message_Type = "NewRing" /\ HandleNewRingMessage(s, m, k)
  <2>1. /\ Pass_message_down_ring(s, ReorderRing(m.Payload, s), m, k)
        /\ Addresses' = [Addresses EXCEPT ![s] = m.Payload]
        /\ ringDiscoverInitiator' = [ringDiscoverInitiator EXCEPT ![s] = FALSE]
        /\ UNCHANGED Coordinator
        /\ \/ UNCHANGED dispatching
           \/ /\ ringDiscoverInitiator[s]
              /\ StartRingMessage(s, ReorderRing(m.Payload, s), << >>, "Discovery")
    BY <1>10 DEF HandleNewRingMessage, InitiateElectionDiscovery
  <2>2. Forwards(s, m, ReorderRing(m.Payload, s))
    BY <1>4, <1>5, <1>6, <2>1
  <2>3. \/ UNCHANGED dispatching
        \/ ringDiscoverInitiator[s] /\ Rounds(s, ReorderRing(m.Payload, s), << >>, "Discovery")
    BY <1>4, <1>6, <1>7, <2>1, SmallRings
  <2> QED
    BY <1>2, <1>3, <1>10, <2>1, <2>2, <2>3 DEF HandlesNewRing
<1>11. CASE m.Message_Type = "RingDiscover" /\ HandleRingDiscover(s, m, k)
  <2>1. /\ Pass_message_down_ring(s, ReorderRing(Addresses[s], s), m, k)
        /\ UNCHANGED <<Addresses, Coordinator, ringDiscoverInitiator>>
        /\ \/ UNCHANGED dispatching
           \/ /\ complete(s, m)
              /\ StartRingMessage(s, ReorderRing(m.Visited_Nodes, s), m.Visited_Nodes, "NewRing")
    BY <1>11 DEF HandleRingDiscover
  <2>2. Forwards(s, m, ReorderRing(Addresses[s], s))
    BY <1>4, <1>5, <1>6, <2>1
  <2>3. \/ UNCHANGED dispatching
        \/ complete(s, m) /\ Rounds(s, ReorderRing(m.Visited_Nodes, s), m.Visited_Nodes, "NewRing")
    BY <1>4, <1>6, <1>7, <2>1
  <2> QED
    BY <1>2, <1>3, <1>11, <2>1, <2>2, <2>3 DEF HandlesRingDiscover
<1> QED
  BY <1>1, <1>8, <1>9, <1>10, <1>11 DEF m, k

\* An element of a list without one of its items is an element of the list.
LEMMA RemoveFacts ==
  ASSUME NEW S, NEW q \in Seq(S), NEW i \in 1..Len(q)
  PROVE  /\ RemoveAt(q, i) \in Seq(S)
         /\ \A k \in 1..Len(RemoveAt(q, i)) : \E j \in 1..Len(q) : RemoveAt(q, i)[k] = q[j]
<1> DEFINE a == SubSeq(q, 1, i - 1)
           b == SubSeq(q, i + 1, Len(q))
<1>1. Len(q) \in Nat /\ i \in Nat /\ 1 <= i /\ i <= Len(q) /\ \A j \in 1..Len(q) : q[j] \in S
  BY ElementOfSeq, LenProperties
<1>2. a \in Seq(S) /\ Len(a) = i - 1 /\ \A j \in 1..(i - 1) : a[j] = q[j]
  <2>1. \A j \in 1..(i - 1) : q[j] \in S
    BY <1>1
  <2>2. /\ a \in Seq(S) /\ Len(a) = IF 1 <= i - 1 THEN (i - 1) - 1 + 1 ELSE 0
        /\ \A j \in 1..((i - 1) - 1 + 1) : a[j] = q[1 + j - 1]
    BY <1>1, <2>1, SubSeqProperties
  <2>3. \A j \in 1..(i - 1) : j \in 1..((i - 1) - 1 + 1) /\ 1 + j - 1 = j
    BY <1>1
  <2> QED
    BY <1>1, <2>2, <2>3
<1>3. b \in Seq(S) /\ Len(b) = Len(q) - i /\ \A j \in 1..(Len(q) - i) : b[j] = q[i + j]
  <2>1. \A j \in (i + 1)..Len(q) : q[j] \in S
    BY <1>1
  <2>2. /\ b \in Seq(S) /\ Len(b) = IF i + 1 <= Len(q) THEN Len(q) - (i + 1) + 1 ELSE 0
        /\ \A j \in 1..(Len(q) - (i + 1) + 1) : b[j] = q[(i + 1) + j - 1]
    BY <1>1, <2>1, SubSeqProperties
  <2>3. \A j \in 1..(Len(q) - i) : j \in 1..(Len(q) - (i + 1) + 1) /\ (i + 1) + j - 1 = i + j
    BY <1>1
  <2> QED
    BY SMTT(60), <1>1, <2>2, <2>3
<1>4. RemoveAt(q, i) = a \o b
  BY DEF RemoveAt
<1> HIDE DEF a, b
<1>5. /\ a \o b \in Seq(S) /\ Len(a \o b) = Len(a) + Len(b)
      /\ \A k \in 1..(Len(a) + Len(b)) : (a \o b)[k] = IF k <= Len(a) THEN a[k] ELSE b[k - Len(a)]
  BY ZenonT(60), <1>2, <1>3, ConcatProperties
<1>6. ASSUME NEW k \in 1..Len(a \o b) PROVE \E j \in 1..Len(q) : (a \o b)[k] = q[j]
  <2>1. CASE k <= i - 1
    <3>1. k \in 1..(i - 1) /\ k \in 1..Len(q)
      BY SMTT(60), <1>1, <2>1, <1>2, <1>3, <1>5
    <3> QED
      BY <1>2, <1>3, <1>5, <2>1, <3>1
  <2>2. CASE ~(k <= i - 1)
    <3>1. k - (i - 1) \in 1..(Len(q) - i) /\ i + (k - (i - 1)) \in 1..Len(q)
      BY <1>1, <1>2, <1>3, <1>5, <2>2
    <3>2. (a \o b)[k] = b[k - (i - 1)]
      BY <1>2, <1>3, <1>5, <2>2
    <3> QED
      BY <1>3, <3>1, <3>2
  <2> QED
    BY <2>1, <2>2
<1> QED
  BY <1>4, <1>5, <1>6

\* A goroutine sends its message and is gone.
LEMMA DispatchStep ==
  ASSUME StateOK, NEW s \in Server, Dispatch(s)
  PROVE  /\ dispatching' \in [Server -> Seq(Item)]
         /\ \A a \in Server : \A y : Waits(dispatching', a, y) => Waits(dispatching, a, y)
         /\ \E x \in Item : Waits(dispatching, s, x) /\ SendsAtMost(net, s, x.ring, x.message)
         /\ UNCHANGED <<scenario, up, Addresses, Coordinator, ringDiscoverInitiator, failedSends,
                        boots, crashes>>
<1> DEFINE q == dispatching[s]
<1>1. PICK i \in 1..Len(q) :
        /\ dispatching' = [dispatching EXCEPT ![s] = RemoveAt(q, i)]
        /\ DispatchMessage(s, q[i].ring, q[i].message, net)
  BY DEF Dispatch
<1>2. q \in Seq(Item) /\ dispatching \in [Server -> Seq(Item)] /\ net \in NetType /\ up \subseteq Server
  BY DEF StateOK
<1>3. q[i] \in Item
  <2> HIDE DEF q
  <2> QED
    BY <1>1, <1>2, ElementOfSeq
<1>4. SendsAtMost(net, s, q[i].ring, q[i].message)
  <2> HIDE DEF q
  <2>1. q[i].ring \in Rings /\ q[i].message \in Msg
    BY <1>3 DEF Item
  <2> QED
    BY <1>1, <1>2, <2>1, DispatchFacts
<1>5. /\ RemoveAt(q, i) \in Seq(Item)
      /\ \A k \in 1..Len(RemoveAt(q, i)) : \E j \in 1..Len(q) : RemoveAt(q, i)[k] = q[j]
  <2> HIDE DEF q
  <2> QED
    BY <1>1, <1>2, RemoveFacts
<1>6. ASSUME NEW a \in Server, NEW y, Waits(dispatching', a, y)
      PROVE  Waits(dispatching, a, y)
  BY <1>1, <1>2, <1>5, <1>6 DEF Waits
<1>7. dispatching' \in [Server -> Seq(Item)]
  BY <1>1, <1>2, <1>5
<1>8. Waits(dispatching, s, q[i])
  BY <1>1 DEF Waits
<1>9. UNCHANGED <<scenario, up, Addresses, Coordinator, ringDiscoverInitiator, failedSends, boots, crashes>>
  BY DEF Dispatch
<1> HIDE DEF q
<1> QED
  BY <1>3, <1>4, <1>6, <1>7, <1>8, <1>9

\* A round of discovery from s, along a ring.
LEMMA DiscoveryStep ==
  ASSUME StateOK, NEW s \in Server, NEW ring \in Rings, InitiateElectionDiscovery(s, ring)
  PROVE  Rounds(s, ReorderRing(ring, s), << >>, "Discovery")
<1>1. ReorderRing(ring, s) \in Rings /\ << >> \in Rings
  BY ReorderFacts, SmallRings
<1>2. StartRingMessage(s, ReorderRing(ring, s), << >>, "Discovery")
  BY DEF InitiateElectionDiscovery
<1> QED
  BY <1>1, <1>2, StartsFacts DEF StateOK, Rounds

\* All servers form a ring.
LEMMA ServersRing == Servers \in Rings
<1>1. Servers \in Seq(Server)
  <2>1. Servers \in [1..Len(Servers) -> Server]
    BY ServersFacts, LenProperties
  <2> QED
    BY <2>1, ServersFacts, SeqDef
<1> QED
  BY <1>1, ServersFacts, RingFacts

\* What main sends when another server than the coordinator fails.
LEMMA EmptyRingStep ==
  ASSUME StateOK, NEW s \in Server,
         Pass_message_down_ring(s, ReorderRing(Servers, s), Message("NewRing", << >>, << >>, << >>), net)
  PROVE  LET m == visit(Message("NewRing", << >>, << >>, << >>), s) IN
         /\ SendsAtMost(net, s, ReorderRing(Servers, s), m)
         /\ m \in Msg /\ m.Message_Type = "NewRing" /\ m.Payload = << >>
<1> DEFINE m == Message("NewRing", << >>, << >>, << >>)
<1>1. m \in Draft
  <2>1. << >> \in Rings /\ << >> \in Seq(Nat) /\ Len(<< >>) = 0
    BY SmallRings, EmptySeq
  <2>2. << >> = [i \in 1..0 |-> ZXID[<< >>[i]]]
    OBVIOUS
  <2> QED
    BY <2>1, <2>2 DEF Message, Draft
<1>2. ~complete(s, m)
  BY DEF complete, Message, Range
<1>3. ReorderRing(Servers, s) \in Rings
  BY ServersRing, ReorderFacts
<1>4. m.Message_Type = "NewRing" /\ m.Payload = << >>
  BY DEF Message
<1> HIDE DEF m
<1>5. SendsAtMost(net, s, ReorderRing(Servers, s), visit(m, s))
  BY <1>1, <1>2, <1>3, PassFacts DEF m, StateOK
<1>6. visit(m, s) \in Msg /\ visit(m, s).Message_Type = "NewRing" /\ visit(m, s).Payload = << >>
  BY <1>1, <1>2, <1>4, VisitFacts
<1> QED
  BY <1>5, <1>6 DEF m

\* A crash takes messages and adds none.
LEMMA CrashStep ==
  ASSUME StateOK, NEW s \in Server, Crash(s)
  PROVE  /\ net' \in NetType /\ dispatching' \in [Server -> Seq(Item)]
         /\ \A a, b \in Server : \A x : Carries(net', a, b, x) => Carries(net, a, b, x)
         /\ \A a \in Server : \A y : Waits(dispatching', a, y) => Waits(dispatching, a, y)
         /\ failedSends' \in [Server -> SUBSET Server]
         /\ up' = up \ {s}
         /\ UNCHANGED <<scenario, Addresses, Coordinator, ringDiscoverInitiator, boots>>
<1>1. /\ net' = [t \in Server |-> [net[t] EXCEPT ![s] = << >>]]
      /\ dispatching' = [dispatching EXCEPT ![s] = << >>]
      /\ failedSends' = [t \in Server |-> IF t \in up \ {s} THEN failedSends[t] \cup {s} ELSE failedSends[t]]
      /\ up' = up \ {s}
      /\ UNCHANGED <<scenario, Addresses, Coordinator, ringDiscoverInitiator, boots>>
  BY DEF Crash
<1>2. /\ net \in NetType /\ dispatching \in [Server -> Seq(Item)] /\ failedSends \in [Server -> SUBSET Server]
  BY DEF StateOK
<1>3. << >> \in Seq(Msg) /\ << >> \in Seq(Item) /\ Len(<< >>) = 0
  BY EmptySeq
<1>4. net' \in NetType
  BY <1>1, <1>2, <1>3 DEF NetType
<1>5. dispatching' \in [Server -> Seq(Item)] /\ failedSends' \in [Server -> SUBSET Server]
  BY <1>1, <1>2, <1>3
<1>6. ASSUME NEW a \in Server, NEW b \in Server, NEW x, Carries(net', a, b, x)
      PROVE  Carries(net, a, b, x)
  <2>1. net'[a][b] = IF b = s THEN << >> ELSE net[a][b]
    BY <1>1, <1>2 DEF NetType
  <2> QED
    BY <1>3, <1>6, <2>1 DEF Carries
<1>7. ASSUME NEW a \in Server, NEW y, Waits(dispatching', a, y)
      PROVE  Waits(dispatching, a, y)
  <2>1. dispatching'[a] = IF a = s THEN << >> ELSE dispatching[a]
    BY <1>1, <1>2
  <2> QED
    BY <1>3, <1>7, <2>1 DEF Waits
<1> QED
  BY <1>1, <1>4, <1>5, <1>6, <1>7

\* A start adds a round of discovery of the ring.
LEMMA EntryStep ==
  ASSUME StateOK, NEW s \in Server, InitiateRingEntry(s)
  PROVE  StateOK'
<1>1. /\ up' = up \cup {s}
      /\ Addresses' = [Addresses EXCEPT ![s] = Servers]
      /\ Coordinator' = [Coordinator EXCEPT ![s] = NoServer]
      /\ ringDiscoverInitiator' = [ringDiscoverInitiator EXCEPT ![s] = TRUE]
      /\ failedSends' = [failedSends EXCEPT ![s] = {}]
      /\ StartRingMessage(s, ReorderRing(Servers, s), << >>, "RingDiscover")
      /\ UNCHANGED <<scenario, net>>
  BY DEF InitiateRingEntry
<1>2. Servers \in Rings /\ ReorderRing(Servers, s) \in Rings /\ << >> \in Rings
  BY ServersRing, ReorderFacts, SmallRings
<1>3. dispatching' \in [Server -> Seq(Item)]
  BY <1>1, <1>2, StartsFacts DEF StateOK, StartsAtMost
<1> QED
  BY <1>1, <1>2, <1>3 DEF StateOK

\* Every step keeps the types.
LEMMA TypeStep ==
  ASSUME StateOK, [Next]_vars
  PROVE  StateOK'
<1> USE DEF StateOK
<1>1. ASSUME NEW s \in Server, HandleMessage(s) PROVE StateOK'
  <2>1. PICK t \in Server, m \in Msg :
          /\ UNCHANGED <<scenario, up, failedSends, boots, crashes>>
          /\ \/ HandlesDiscovery(s, m) \/ HandlesAnnouncement(s, m)
             \/ HandlesNewRing(s, m) \/ HandlesRingDiscover(s, m)
    BY <1>1, HandleFacts
  <2>2. net' \in NetType
    BY <2>1 DEF HandlesDiscovery, HandlesAnnouncement, HandlesNewRing, HandlesRingDiscover, Forwards
  <2>3. dispatching' \in [Server -> Seq(Item)]
    BY <2>1 DEF HandlesDiscovery, HandlesAnnouncement, HandlesNewRing, HandlesRingDiscover, Rounds,
                StartsAtMost
  <2>4. m.Payload \in Rings
    BY DEF Msg, Draft
  <2>5. m.Message_Type = "Announcement" => m.Payload[1] \in Server
    BY MsgIsOK DEF MessageOK
  <2>6. /\ Addresses' \in [Server -> Rings] /\ Coordinator' \in [Server -> Server \cup {NoServer}]
        /\ ringDiscoverInitiator' \in [Server -> BOOLEAN]
    BY <2>1, <2>4, <2>5 DEF HandlesDiscovery, HandlesAnnouncement, HandlesNewRing, HandlesRingDiscover
  <2> QED
    BY <2>1, <2>2, <2>3, <2>6
<1>2. ASSUME NEW s \in Server, Dispatch(s) PROVE StateOK'
  <2>1. /\ dispatching' \in [Server -> Seq(Item)] /\ net' \in NetType
        /\ UNCHANGED <<scenario, up, Addresses, Coordinator, ringDiscoverInitiator, failedSends>>
    BY <1>2, DispatchStep DEF SendsAtMost
  <2> QED
    BY <2>1
<1>3. ASSUME NEW s \in Server, InitiateRingEntry(s) PROVE StateOK'
  BY <1>3, EntryStep
<1>4. ASSUME NEW s \in Server, Crash(s) PROVE StateOK'
  <2>1. /\ net' \in NetType /\ dispatching' \in [Server -> Seq(Item)]
        /\ failedSends' \in [Server -> SUBSET Server]
        /\ up' = up \ {s}
        /\ UNCHANGED <<scenario, Addresses, Coordinator, ringDiscoverInitiator>>
    BY <1>4, CrashStep
  <2> QED
    BY <2>1
<1>5. ASSUME NEW s \in Server, NEW c \in Server, monitorConnectionToServer(s, c) PROVE StateOK'
  <2>1. /\ failedSends' = [failedSends EXCEPT ![s] = @ \ {c}]
        /\ UNCHANGED <<scenario, up, Coordinator, ringDiscoverInitiator>>
    BY <1>5 DEF monitorConnectionToServer
  <2>2. failedSends' \in [Server -> SUBSET Server]
    BY <2>1
  <2>3. CASE InitiateElectionDiscovery(s, Addresses[s]) /\ UNCHANGED <<net, lost, Addresses>>
    <3>1. Rounds(s, ReorderRing(Addresses[s], s), << >>, "Discovery")
      BY <2>3, DiscoveryStep
    <3> QED
      BY <2>1, <2>2, <2>3, <3>1 DEF Rounds, StartsAtMost
  <2>4. CASE /\ Pass_message_down_ring(s, ReorderRing(Servers, s),
                                       Message("NewRing", << >>, << >>, << >>), net)
             /\ Addresses' = [Addresses EXCEPT ![s] = << >>]
             /\ UNCHANGED dispatching
    <3>1. net' \in NetType
      BY <2>4, EmptyRingStep DEF SendsAtMost
    <3> QED
      BY <2>1, <2>2, <2>4, <3>1, SmallRings
  <2>5. CASE UNCHANGED <<net, lost, Addresses, dispatching>>
    BY <2>1, <2>2, <2>5
  <2> QED
    BY <1>5, <2>3, <2>4, <2>5 DEF monitorConnectionToServer
<1>6. ASSUME NEW s \in Server, NEW c \in Server, monitorConnectionToClient(s, c) PROVE StateOK'
  BY <1>6 DEF monitorConnectionToClient
<1>7. ASSUME NEW s \in Server, sendSessionInfo(s) PROVE StateOK'
  <2>1. Rounds(s, ReorderRing(Addresses[s], s), << >>, "Discovery")
    BY <1>7, DiscoveryStep DEF sendSessionInfo
  <2> QED
    BY <1>7, <2>1 DEF sendSessionInfo, Rounds, StartsAtMost
<1>8. CASE UNCHANGED vars
  BY <1>8 DEF vars
<1> HIDE DEF StateOK
<1> QED
  BY <1>1, <1>2, <1>3, <1>4, <1>5, <1>6, <1>7, <1>8 DEF Next

LEMMA TypeInit == Init => StateOK
<1> SUFFICES ASSUME Init PROVE StateOK
  OBVIOUS
<1>1. scenario \in Scenarios /\ up \subseteq Server
  BY ScenariosAssumption DEF Init
<1>2. Addresses \in [Server -> Rings]
  BY DEF Init
<1>3. Coordinator \in [Server -> Server \cup {NoServer}]
  <2>1. ASSUME NEW s \in up PROVE best(up) \in Server
    BY <1>1, BestFacts
  <2>2. Coordinator = [s \in Server |-> IF s \in up THEN best(up) ELSE NoServer]
    BY DEF Init
  <2> QED
    BY <2>1, <2>2
<1>4. << >> \in Seq(Msg) /\ << >> \in Seq(Item)
  BY EmptySeq
<1>5. dispatching \in [Server -> Seq(Item)] /\ net \in NetType
  BY <1>4 DEF Init, NetType
<1> QED
  BY <1>1, <1>2, <1>3, <1>5 DEF Init, StateOK

\* The states of these types are those of TypeOK.
LEMMA TypesAreOK == StateOK => TypeOK
<1> SUFFICES ASSUME StateOK PROVE TypeOK
  OBVIOUS
<1>1. ASSUME NEW s \in Server, NEW t \in Server, NEW i \in 1..Len(net[s][t])
      PROVE  MessageOK(net[s][t][i])
  <2>1. net[s][t] \in Seq(Msg)
    BY DEF StateOK, NetType
  <2> QED
    BY <2>1, ElementOfSeq, MsgIsOK
<1>2. ASSUME NEW s \in Server, NEW i \in 1..Len(dispatching[s])
      PROVE  MessageOK(dispatching[s][i].message)
  <2>1. dispatching[s] \in Seq(Item)
    BY DEF StateOK
  <2>2. dispatching[s][i] \in Item
    BY <2>1, ElementOfSeq
  <2> QED
    BY <2>2, MsgIsOK DEF Item
<1> QED
  BY <1>1, <1>2 DEF StateOK, TypeOK

\* Types: no ring and no list of a message ever names a server twice, and a
\* message always has the zxid of each server it lists, so that
\* getCorrespondingValue never meets lists of different lengths.
THEOREM TypeCorrect == Spec => []TypeOK
<1>1. Init => StateOK
  BY TypeInit
<1>2. StateOK /\ [Next]_vars => StateOK'
  BY TypeStep
<1>3. StateOK => TypeOK
  BY TypesAreOK
<1> QED
  BY <1>1, <1>2, <1>3, PTL DEF Spec

-----------------------------------------------------------------------------
(* The invariant of an execution in which no server is started *)

\* A ring keeps the order of the configuration and every server that runs;
\* main may also have lost it altogether.
RingOK(ring) ==
  \/ InOrder(ring) /\ up \subseteq Range(ring)
  \/ scenario.Main /\ ring = << >>

\* A message sent along the list goes to the first running server behind s.
Onward(s, ring) == ring = << >> \/ (Behind(s, ring) /\ up \ {s} \subseteq Range(ring))

\* The servers visited, in order, with no running one left out between them.
Visits(V) ==
  /\ V # << >> /\ InOrder(V)
  /\ \A u \in up : dist(V[1], u) <= dist(V[1], V[Len(V)]) => u \in Range(V)

\* From a to b with no running server between them.
Hop(m, a, b) ==
  /\ m.Visited_Nodes[Len(m.Visited_Nodes)] = a /\ a # b
  /\ \A u \in up \ {a} : dist(a, b) <= dist(a, u)

ContentOK(m) ==
  /\ m.Message_Type # "RingDiscover"
  /\ m.Message_Type = "Announcement" => (m.Payload[1] \in up => m.Payload[1] = best(up))
  /\ m.Message_Type = "NewRing" => RingOK(m.Payload)
  /\ m.Message_Type # "NewRing" => Visits(m.Visited_Nodes)

WaitOK(s, x) == Onward(s, x.ring) /\ ContentOK(x.message) /\ x.message.Visited_Nodes = <<s>>
CarryOK(a, b, m) == ContentOK(m) /\ (m.Message_Type # "NewRing" => Hop(m, a, b))

\* No server is started.
NoEntry == scenario.MaxBoots = 0

RoundsInv ==
  /\ NoEntry /\ boots = 0
  /\ \A s \in Server : ~ringDiscoverInitiator[s] /\ RingOK(Addresses[s])
  /\ \A s \in Server : Coordinator[s] \in up => Coordinator[s] = best(up)
  /\ \A s \in Server : \A x \in Item : Waits(dispatching, s, x) => WaitOK(s, x)
  /\ \A a, b \in Server : \A m \in Msg : Carries(net, a, b, m) => CarryOK(a, b, m)

\* A round that is back at a server has visited all that run.
LEMMA CompleteFacts ==
  ASSUME NEW V \in Rings, Visits(V), NEW s \in up, up \subseteq Server, s \in Range(V),
         s # V[Len(V)], \A u \in up \ {V[Len(V)]} : dist(V[Len(V)], s) <= dist(V[Len(V)], u)
  PROVE  up \subseteq Range(V)
<1> DEFINE f == V[1]
           l == V[Len(V)]
<1>1. PICK j \in 1..Len(V) : V[j] = s
  BY RingParts
<1>2. /\ Len(V) \in Nat /\ 1 \in 1..Len(V) /\ Len(V) \in 1..Len(V) /\ j < Len(V)
      /\ \A i \in 1..Len(V) : V[i] \in Server
      /\ \A x : x \in Range(V) <=> \E i \in 1..Len(V) : V[i] = x
  BY <1>1, RingParts
<1>3. f \in Server /\ l \in Server /\ s \in Server /\ l \in Range(V)
  BY <1>2
<1>4. dist(f, s) < dist(f, l)
  BY <1>1, <1>2 DEF Visits, InOrder
<1> HIDE DEF f, l
<1>5. SUFFICES ASSUME NEW u \in up, u \notin Range(V) PROVE FALSE
  OBVIOUS
<1>6. u \in Server /\ u # l /\ dist(l, s) <= dist(l, u)
  BY <1>3, <1>5 DEF l
<1>7. ~(dist(f, u) <= dist(f, l))
  BY <1>5 DEF Visits, f, l
<1>8. /\ dist(f, u) \in Nat /\ dist(f, l) \in Nat /\ dist(f, s) \in Nat
      /\ dist(f, u) < Len(Servers) /\ Len(Servers) \in Nat
  BY <1>3, <1>6, DistFacts, ServersFacts
<1>9. dist(l, u) = dist(f, u) - dist(f, l)
  BY <1>3, <1>6, <1>7, <1>8, DistFacts
<1>10. dist(l, s) = dist(f, s) - dist(f, l) + Len(Servers)
  BY <1>3, <1>4, DistFacts
<1> QED
  BY <1>6, <1>8, <1>9, <1>10

\* A round that has not been at s visits s next, without a gap.
LEMMA VisitsMore ==
  ASSUME NEW V \in Rings, Visits(V), NEW s \in up, up \subseteq Server, s \notin Range(V),
         \A u \in up \ {V[Len(V)]} : dist(V[Len(V)], s) <= dist(V[Len(V)], u)
  PROVE  Visits(Append(V, s)) /\ Append(V, s)[Len(Append(V, s))] = s
<1> DEFINE f == V[1]
           l == V[Len(V)]
           W == Append(V, s)
<1>1. /\ Len(V) \in Nat /\ Len(V) >= 1
      /\ \A i \in 1..Len(V) : V[i] \in Server
      /\ \A x : x \in Range(V) <=> \E i \in 1..Len(V) : V[i] = x
  <2>1. V \in Seq(Server) /\ V # << >>
    BY RingParts DEF Visits
  <2> QED
    BY <2>1, EmptySeq, RingParts
<1>2. /\ 1 \in 1..Len(V) /\ Len(V) \in 1..Len(V)
      /\ f \in Server /\ l \in Server /\ s \in Server /\ l \in Range(V)
  BY <1>1
<1>3. /\ W # << >> /\ Len(W) = Len(V) + 1 /\ \A i \in 1..Len(V) : W[i] = V[i]
      /\ W[Len(V) + 1] = s /\ Range(W) = Range(V) \cup {s}
  BY <1>2, RingAppend
<1>4. \A i, j \in 1..Len(V) : i < j => dist(f, V[i]) < dist(f, V[j])
  BY DEF Visits, InOrder
<1>5. ~(dist(f, s) <= dist(f, l))
  BY DEF Visits
<1>6. \A u \in up : u # l => dist(l, s) <= dist(l, u)
  OBVIOUS
<1>7. \A u \in up : dist(f, u) <= dist(f, l) => u \in Range(V)
  BY DEF Visits
<1>8. W[1] = f /\ W[Len(W)] = s
  BY <1>2, <1>3
<1> HIDE DEF W, f
<1>9. \A i \in 1..Len(V) : dist(f, V[i]) \in Nat /\ dist(f, V[i]) <= dist(f, l)
  <2> SUFFICES ASSUME NEW i \in 1..Len(V) PROVE dist(f, V[i]) \in Nat /\ dist(f, V[i]) <= dist(f, l)
    OBVIOUS
  <2>1. dist(f, V[i]) \in Nat /\ dist(f, l) \in Nat
    BY <1>1, <1>2, DistFacts
  <2>2. i = Len(V) \/ i < Len(V)
    BY <1>1
  <2> QED
    BY <1>2, <1>4, <2>1, <2>2
<1> HIDE DEF l
<1>10. dist(f, s) \in Nat /\ dist(f, l) \in Nat
  BY <1>2, DistFacts
<1>11. InOrder(W)
  <2> SUFFICES ASSUME NEW i \in 1..(Len(V) + 1), NEW j \in 1..(Len(V) + 1), i < j
               PROVE  dist(f, W[i]) < dist(f, W[j])
    BY <1>3, <1>8 DEF InOrder
  <2>1. i \in 1..Len(V)
    BY <1>1
  <2>2. CASE j \in 1..Len(V)
    BY <1>3, <1>4, <2>1, <2>2
  <2>3. CASE j = Len(V) + 1
    <3>1. W[i] = V[i] /\ W[j] = s
      BY <1>3, <2>1, <2>3
    <3>2. dist(f, V[i]) \in Nat /\ dist(f, V[i]) <= dist(f, l)
      BY <1>9, <2>1
    <3> QED
      BY <1>5, <1>10, <3>1, <3>2
  <2> QED
    BY <1>1, <2>2, <2>3
<1>12. ASSUME NEW u \in up, dist(f, u) <= dist(f, s) PROVE u \in Range(W)
  <2> SUFFICES ASSUME u \notin Range(V), u # s PROVE FALSE
    BY <1>3
  <2>1. u \in Server /\ u # l /\ ~(dist(f, u) <= dist(f, l))
    BY <1>2, <1>7
  <2>2. dist(l, s) <= dist(l, u)
    BY <1>6, <2>1
  <2>3. dist(f, u) \in Nat /\ dist(f, u) # dist(f, s)
    BY <1>2, <2>1, DistFacts
  <2>4. dist(f, l) <= dist(f, u) /\ dist(f, l) <= dist(f, s)
    BY <1>5, <1>10, <2>1, <2>3
  <2>5. dist(l, u) = dist(f, u) - dist(f, l) /\ dist(l, s) = dist(f, s) - dist(f, l)
    BY <1>2, <2>1, <2>4, DistFacts
  <2> QED
    BY <1>10, <1>12, <2>2, <2>3, <2>5
<1> QED
  BY <1>3, <1>8, <1>11, <1>12 DEF Visits, W

\* A round starts with its own server.
LEMMA VisitsFirst ==
  ASSUME NEW s \in Server, up \subseteq Server
  PROVE  Visits(<<s>>)
<1>1. <<s>> # << >> /\ Len(<<s>>) = 1 /\ <<s>>[1] = s /\ Range(<<s>>) = {s}
  BY SmallRings
<1>2. InOrder(<<s>>)
  BY <1>1 DEF InOrder
<1>3. ASSUME NEW u \in up, dist(s, u) <= dist(s, s) PROVE u = s
  <2>1. dist(s, s) = 0 /\ dist(s, u) \in Nat /\ (dist(s, u) = 0 <=> s = u)
    BY DistFacts
  <2> QED
    BY <1>3, <2>1
<1> QED
  BY <1>1, <1>2, <1>3 DEF Visits

\* The first running server of such a list is the next one that runs.
LEMMA OnwardFacts ==
  ASSUME NEW s \in Server, NEW ring \in Rings, Onward(s, ring), NEW b, FirstUp(ring, b),
         up \subseteq Server
  PROVE  /\ b \in Server /\ s # b
         /\ \A u \in up \ {s} : dist(s, b) <= dist(s, u)
<1>1. PICK i \in 1..Len(ring) :
        ring[i] = b /\ b \in up /\ \A j \in 1..Len(ring) : j < i => ring[j] \notin up
  BY DEF FirstUp
<1>2. Len(ring) \in Nat /\ Len(<< >>) = 0 /\ \A x : x \in Range(ring) => \E j \in 1..Len(ring) : ring[j] = x
  BY RingParts, SmallRings
<1>3. ring # << >>
  BY <1>1, <1>2
<1>4. Behind(s, ring) /\ up \ {s} \subseteq Range(ring)
  BY <1>3 DEF Onward
<1>5. b # s
  BY <1>1, <1>4 DEF Behind
<1>6. ASSUME NEW u \in up \ {s} PROVE dist(s, b) <= dist(s, u)
  <2>1. PICK j \in 1..Len(ring) : ring[j] = u
    BY <1>2, <1>4
  <2>2. dist(s, b) \in Nat /\ dist(s, u) \in Nat
    BY <1>1, DistFacts
  <2>3. i = j \/ i < j
    BY <1>1, <1>2, <2>1
  <2>4. i < j => dist(s, b) < dist(s, u)
    BY <1>1, <1>4, <2>1 DEF Behind
  <2> QED
    BY <1>1, <2>1, <2>2, <2>3, <2>4
<1> QED
  BY <1>1, <1>5, <1>6

\* ReorderRing makes such a list of a ring.
LEMMA RingOnward ==
  ASSUME NEW ring \in Rings, RingOK(ring), NEW s \in up
  PROVE  Onward(s, ReorderRing(ring, s))
<1>1. CASE ring = << >>
  BY <1>1, ReorderFacts DEF Onward
<1>2. CASE InOrder(ring) /\ up \subseteq Range(ring)
  <2>1. Behind(s, ReorderRing(ring, s))
    BY <1>2, ReorderOrder
  <2>2. Range(ReorderRing(ring, s)) = Range(ring) \ {s}
    BY ReorderFacts
  <2> QED
    BY <1>2, <2>1, <2>2 DEF Onward
<1> QED
  BY <1>1, <1>2 DEF RingOK

\* What holds of the running servers holds of those that are left of them.
LEMMA FewerServers ==
  ASSUME NEW x, up \subseteq Server, up' = up \ {x}, scenario' = scenario
  PROVE  /\ \A ring : RingOK(ring) => RingOK(ring)'
         /\ \A s, y : WaitOK(s, y) => WaitOK(s, y)'
         /\ \A a, b, m : CarryOK(a, b, m) => CarryOK(a, b, m)'
         /\ \A c : (c \in up => c = best(up)) => (c \in up' => c = best(up'))
<1>1. \A ring : RingOK(ring) => RingOK(ring)'
  BY DEF RingOK
<1>2. \A s, ring : Onward(s, ring) => Onward(s, ring)'
  BY DEF Onward
<1>3. \A V : Visits(V) => Visits(V)'
  BY DEF Visits
<1>4. \A a, b, m : Hop(m, a, b) => Hop(m, a, b)'
  BY DEF Hop
<1>5. ASSUME NEW c, c \in up => c = best(up), c \in up' PROVE c = best(up')
  <2>1. c = best(up) /\ up' \subseteq up
    BY <1>5
  <2> QED
    BY <1>5, <2>1, BestRemains
<1>6. \A m : ContentOK(m) => ContentOK(m)'
  BY <1>1, <1>3, <1>5 DEF ContentOK
<1> QED
  BY <1>1, <1>2, <1>4, <1>5, <1>6 DEF WaitOK, CarryOK

\* The rounds are right after a step when what it changed is right before it.
LEMMA RoundsKept ==
  ASSUME StateOK, RoundsInv, NEW x, up' = up \ {x}, scenario' = scenario, boots' = boots,
         \A s \in Server : ~ringDiscoverInitiator'[s] /\ RingOK(Addresses'[s]),
         \A s \in Server : Coordinator'[s] \in up => Coordinator'[s] = best(up),
         \A s \in Server : \A y \in Item : Waits(dispatching', s, y) => WaitOK(s, y),
         \A a, b \in Server : \A m \in Msg : Carries(net', a, b, m) => CarryOK(a, b, m)
  PROVE  RoundsInv'
<1>1. /\ \A ring : RingOK(ring) => RingOK(ring)'
      /\ \A s, y : WaitOK(s, y) => WaitOK(s, y)'
      /\ \A a, b, m : CarryOK(a, b, m) => CarryOK(a, b, m)'
      /\ \A c : (c \in up => c = best(up)) => (c \in up' => c = best(up'))
  BY FewerServers DEF StateOK
<1>2. NoEntry' /\ boots' = 0
  BY DEF RoundsInv, NoEntry
<1>3. ASSUME NEW s \in Server
      PROVE  (~ringDiscoverInitiator[s] /\ RingOK(Addresses[s]))'
  <2>1. RingOK(Addresses'[s])
    OBVIOUS
  <2>2. PICK r : r = Addresses'[s]
    OBVIOUS
  <2>3. RingOK(r)'
    BY <1>1, <2>1, <2>2
  <2> QED
    BY <2>2, <2>3 DEF RingOK
<1>4. ASSUME NEW s \in Server
      PROVE  (Coordinator[s] \in up => Coordinator[s] = best(up))'
  BY <1>1
<1>5. ASSUME NEW s \in Server, NEW y \in Item, Waits(dispatching', s, y)
      PROVE  WaitOK(s, y)'
  BY <1>1, <1>5
<1>6. ASSUME NEW a \in Server, NEW b \in Server, NEW m \in Msg, Carries(net', a, b, m)
      PROVE  CarryOK(a, b, m)'
  BY <1>1, <1>6
<1> QED
  BY <1>2, <1>3, <1>4, <1>5, <1>6 DEF RoundsInv

\* A round that starts along a ring that is right is right.
LEMMA RoundStarts ==
  ASSUME StateOK, NEW s \in up, NEW ring \in Rings, RingOK(ring), NEW content \in Rings,
         NEW type \in {"Discovery", "Announcement", "NewRing"},
         type = "Announcement" => Len(content) = 1 /\ (content[1] \in up => content[1] = best(up)),
         type = "NewRing" => RingOK(content)
  PROVE  WaitOK(s, [ring    |-> ReorderRing(ring, s),
                    message |-> Message(type, <<s>>, <<ZXID[s]>>, content)])
<1> DEFINE m == Message(type, <<s>>, <<ZXID[s]>>, content)
<1>1. up \subseteq Server /\ s \in Server
  BY DEF StateOK
<1>2. m.Message_Type = type /\ m.Payload = content /\ m.Visited_Nodes = <<s>>
  BY DEF Message
<1> HIDE DEF m
<1>3. Visits(<<s>>)
  BY <1>1, VisitsFirst
<1>4. ContentOK(m)
  BY <1>2, <1>3 DEF ContentOK
<1>5. Onward(s, ReorderRing(ring, s))
  BY RingOnward
<1> QED
  BY <1>2, <1>4, <1>5 DEF WaitOK, m

\* What a goroutine sends is right.
LEMMA RoundLeaves ==
  ASSUME StateOK, NEW s \in Server, NEW x \in Item, WaitOK(s, x), NEW b, FirstUp(x.ring, b)
  PROVE  CarryOK(s, b, x.message)
<1>1. x.ring \in Rings /\ up \subseteq Server
  BY DEF StateOK, Item
<1>2. Onward(s, x.ring) /\ ContentOK(x.message) /\ x.message.Visited_Nodes = <<s>>
  BY DEF WaitOK
<1>3. b \in Server /\ s # b /\ \A u \in up \ {s} : dist(s, b) <= dist(s, u)
  BY <1>1, <1>2, OnwardFacts
<1>4. x.message.Visited_Nodes[Len(x.message.Visited_Nodes)] = s
  BY <1>2, SmallRings
<1> QED
  BY <1>2, <1>3, <1>4 DEF CarryOK, Hop

\* What is forwarded along the ring of the server is right, and a new ring
\* along whatever ring.
LEMMA RoundContinues ==
  ASSUME StateOK, NEW a \in Server, NEW s \in up, NEW m \in Msg, CarryOK(a, s, m), ~complete(s, m),
         NEW ring \in Rings, m.Message_Type # "NewRing" => Onward(s, ring),
         NEW b, FirstUp(ring, b)
  PROVE  CarryOK(s, b, visit(m, s))
<1> DEFINE V == m.Visited_Nodes
<1>1. m \in Draft /\ V \in Rings /\ up \subseteq Server /\ s \in Server
  BY DEF StateOK, Msg, Draft
<1>2. /\ visit(m, s).Message_Type = m.Message_Type /\ visit(m, s).Payload = m.Payload
      /\ visit(m, s).Visited_Nodes = Append(V, s)
  BY <1>1, VisitFacts
<1>3. CASE m.Message_Type = "NewRing"
  BY <1>2, <1>3 DEF CarryOK, ContentOK
<1>4. CASE m.Message_Type # "NewRing"
  <2>1. Hop(m, a, s) /\ ContentOK(m) /\ Visits(V) /\ s \notin Range(V)
    BY <1>4 DEF CarryOK, ContentOK, complete
  <2> HIDE DEF V
  <2>2. V[Len(V)] = a /\ \A u \in up \ {a} : dist(a, s) <= dist(a, u)
    BY <2>1 DEF Hop, V
  <2>3. Visits(Append(V, s)) /\ Append(V, s)[Len(Append(V, s))] = s
    BY <1>1, <2>1, <2>2, VisitsMore
  <2>4. b \in Server /\ s # b /\ \A u \in up \ {s} : dist(s, b) <= dist(s, u)
    BY <1>1, <1>4, OnwardFacts
  <2>5. ContentOK(visit(m, s))
    BY <1>2, <1>4, <2>1, <2>3 DEF ContentOK
  <2>6. Hop(visit(m, s), s, b)
    BY <1>2, <2>3, <2>4 DEF Hop
  <2> QED
    BY <2>5, <2>6 DEF CarryOK
<1> QED
  BY <1>3, <1>4

\* The servers of a round that is complete are a ring that is right.
LEMMA RoundCompletes ==
  ASSUME StateOK, NEW a \in Server, NEW s \in up, NEW m \in Msg, CarryOK(a, s, m), complete(s, m),
         m.Message_Type # "NewRing"
  PROVE  RingOK(m.Visited_Nodes) /\ up \subseteq Range(m.Visited_Nodes)
<1> DEFINE V == m.Visited_Nodes
<1>1. V \in Rings /\ up \subseteq Server
  BY DEF StateOK, Msg, Draft
<1>2. Visits(V) /\ s \in Range(V) /\ Hop(m, a, s)
  BY DEF CarryOK, ContentOK, complete
<1>3. V[Len(V)] = a /\ a # s /\ \A u \in up \ {a} : dist(a, s) <= dist(a, u)
  BY <1>2 DEF Hop
<1> HIDE DEF V
<1>4. up \subseteq Range(V)
  BY <1>1, <1>2, <1>3, CompleteFacts
<1> QED
  BY <1>2, <1>4 DEF RingOK, Visits, V

\* A handler leaves the rounds right.
LEMMA HandleRounds ==
  ASSUME StateOK, RoundsInv, NEW s \in Server, HandleMessage(s)
  PROVE  RoundsInv'
<1>1. PICK t \in Server, m \in Msg :
        /\ Carries(net, t, s, m) /\ s \in up
        /\ UNCHANGED <<scenario, up, failedSends, boots, crashes>>
        /\ \/ HandlesDiscovery(s, m) \/ HandlesAnnouncement(s, m)
           \/ HandlesNewRing(s, m) \/ HandlesRingDiscover(s, m)
  BY HandleFacts
<1>2. /\ CarryOK(t, s, m) /\ ContentOK(m) /\ ~ringDiscoverInitiator[s] /\ RingOK(Addresses[s])
      /\ Addresses[s] \in Rings
  BY <1>1 DEF RoundsInv, CarryOK, StateOK
<1>3. m.Visited_Nodes \in Rings /\ m.Payload \in Rings /\ m.Visited_Nodes # << >>
  BY DEF Msg, Draft
<1>4. up' = up \ {NoServer} /\ scenario' = scenario /\ boots' = boots
  BY ZenonT(60), <1>1, ServersFacts DEF StateOK
<1>5. /\ \A x \in Server : ~ringDiscoverInitiator[x] /\ RingOK(Addresses[x])
      /\ \A x \in Server : Coordinator[x] \in up => Coordinator[x] = best(up)
      /\ \A x \in Server : \A y \in Item : Waits(dispatching, x, y) => WaitOK(x, y)
      /\ \A a, b \in Server : \A x \in Msg : Carries(net, a, b, x) => CarryOK(a, b, x)
  BY DEF RoundsInv
<1>6. ASSUME NEW ring \in Rings, m.Message_Type # "NewRing" => Onward(s, ring), Forwards(s, m, ring)
      PROVE  \A a, b \in Server : \A x \in Msg : Carries(net', a, b, x) => CarryOK(a, b, x)
  <2> SUFFICES ASSUME NEW a \in Server, NEW b \in Server, NEW x \in Msg, Carries(net', a, b, x)
               PROVE  CarryOK(a, b, x)
    OBVIOUS
  <2>1. \/ Carries(net, a, b, x)
        \/ ~complete(s, m) /\ a = s /\ FirstUp(ring, b) /\ x = visit(m, s)
    BY <1>6 DEF Forwards
  <2>2. ~complete(s, m) /\ FirstUp(ring, b) => CarryOK(s, b, visit(m, s))
    BY <1>1, <1>2, <1>6, RoundContinues
  <2> QED
    BY <1>5, <2>1, <2>2
<1>7. ASSUME NEW ring \in Rings, NEW content \in Rings, NEW type, RingOK(ring),
             type \in {"Discovery", "Announcement", "NewRing"},
             type = "Announcement" => Len(content) = 1 /\ (content[1] \in up => content[1] = best(up)),
             type = "NewRing" => RingOK(content),
             Rounds(s, ReorderRing(ring, s), content, type)
      PROVE  \A x \in Server : \A y \in Item : Waits(dispatching', x, y) => WaitOK(x, y)
  <2>1. WaitOK(s, [ring |-> ReorderRing(ring, s), message |-> Message(type, <<s>>, <<ZXID[s]>>, content)])
    BY <1>1, <1>7, RoundStarts
  <2> QED
    BY <1>5, <1>7, <2>1 DEF Rounds, StartsAtMost
<1>8. UNCHANGED dispatching => \A x \in Server : \A y \in Item : Waits(dispatching', x, y) => WaitOK(x, y)
  BY <1>5
<1>9. Onward(s, ReorderRing(Addresses[s], s)) /\ ReorderRing(Addresses[s], s) \in Rings
  BY <1>1, <1>2, RingOnward, ReorderFacts
<1>10. complete(s, m) /\ m.Message_Type # "NewRing"
         => RingOK(m.Visited_Nodes) /\ up \subseteq Range(m.Visited_Nodes)
  BY <1>1, <1>2, RoundCompletes
<1>11. CASE HandlesDiscovery(s, m)
  <2> DEFINE w == best(Range(m.Visited_Nodes))
  <2>1. \A a, b \in Server : \A x \in Msg : Carries(net', a, b, x) => CarryOK(a, b, x)
    BY <1>6, <1>9, <1>11 DEF HandlesDiscovery
  <2>2. UNCHANGED <<Addresses, Coordinator, ringDiscoverInitiator>>
    BY <1>11 DEF HandlesDiscovery
  <2>3. \A x \in Server : \A y \in Item : Waits(dispatching', x, y) => WaitOK(x, y)
    <3>1. CASE UNCHANGED dispatching
      BY <1>8, <3>1
    <3>2. CASE /\ complete(s, m)
               /\ Rounds(s, ReorderRing(m.Visited_Nodes, s), <<w>>, "Announcement")
      <4>1. RingOK(m.Visited_Nodes) /\ up \subseteq Range(m.Visited_Nodes)
        BY <1>10, <1>11, <3>2 DEF HandlesDiscovery
      <4>2. w \in Server /\ Range(m.Visited_Nodes) \in SUBSET Server
        BY <1>3, WinnerFacts, RingParts
      <4>3. w \in up => w = best(up)
        BY <4>1, <4>2, BestRemains
      <4> HIDE DEF w
      <4>4. <<w>> \in Rings /\ Len(<<w>>) = 1 /\ <<w>>[1] = w
        BY <4>2, SmallRings
      <4> QED
        BY <1>3, <1>7, <3>2, <4>1, <4>3, <4>4
    <3> QED
      BY <1>11, <3>1, <3>2 DEF HandlesDiscovery
  <2> QED
    BY <1>4, <1>5, <2>1, <2>2, <2>3, RoundsKept
<1>12. CASE HandlesAnnouncement(s, m)
  <2>1. \A a, b \in Server : \A x \in Msg : Carries(net', a, b, x) => CarryOK(a, b, x)
    BY <1>6, <1>9, <1>12 DEF HandlesAnnouncement
  <2>2. /\ UNCHANGED <<Addresses, ringDiscoverInitiator>>
        /\ Coordinator' = [Coordinator EXCEPT ![s] = m.Payload[1]]
        /\ m.Message_Type = "Announcement"
    BY <1>12 DEF HandlesAnnouncement
  <2>3. \A x \in Server : \A y \in Item : Waits(dispatching', x, y) => WaitOK(x, y)
    <3>1. CASE UNCHANGED dispatching
      BY <1>8, <3>1
    <3>2. CASE complete(s, m) /\ Rounds(s, ReorderRing(Addresses[s], s), m.Visited_Nodes, "NewRing")
      <4>1. RingOK(m.Visited_Nodes)
        BY <1>10, <2>2, <3>2
      <4> QED
        BY <1>2, <1>3, <1>7, <3>2, <4>1
    <3> QED
      BY <1>12, <3>1, <3>2 DEF HandlesAnnouncement
  <2>4. \A x \in Server : Coordinator'[x] \in up => Coordinator'[x] = best(up)
    <3>1. m.Payload[1] \in up => m.Payload[1] = best(up)
      BY <1>2, <2>2 DEF ContentOK
    <3>2. \A x \in Server : Coordinator'[x] = IF x = s THEN m.Payload[1] ELSE Coordinator[x]
      BY <2>2 DEF StateOK
    <3> QED
      BY <1>5, <3>1, <3>2
  <2> QED
    BY <1>4, <1>5, <2>1, <2>2, <2>3, <2>4, RoundsKept
<1>13. CASE HandlesNewRing(s, m)
  <2>1. \A a, b \in Server : \A x \in Msg : Carries(net', a, b, x) => CarryOK(a, b, x)
    BY <1>3, <1>6, <1>13, ReorderFacts DEF HandlesNewRing
  <2>2. /\ UNCHANGED <<Coordinator, dispatching>>
        /\ Addresses' = [Addresses EXCEPT ![s] = m.Payload]
        /\ ringDiscoverInitiator' = [ringDiscoverInitiator EXCEPT ![s] = FALSE]
        /\ m.Message_Type = "NewRing"
    BY <1>2, <1>13 DEF HandlesNewRing
  <2>3. \A x \in Server : ~ringDiscoverInitiator'[x] /\ RingOK(Addresses'[x])
    <3>1. RingOK(m.Payload)
      BY <1>2, <2>2 DEF ContentOK
    <3>2. \A x \in Server : Addresses'[x] = IF x = s THEN m.Payload ELSE Addresses[x]
      BY <2>2 DEF StateOK
    <3>3. \A x \in Server : ringDiscoverInitiator'[x] = IF x = s THEN FALSE ELSE ringDiscoverInitiator[x]
      BY <2>2 DEF StateOK
    <3> QED
      BY <1>5, <3>1, <3>2, <3>3
  <2> QED
    BY <1>4, <1>5, <1>8, <2>1, <2>2, <2>3, RoundsKept
<1>14. CASE HandlesRingDiscover(s, m)
  BY <1>2, <1>14 DEF HandlesRingDiscover, ContentOK
<1> QED
  BY <1>1, <1>11, <1>12, <1>13, <1>14

\* Every step leaves the rounds right.
LEMMA RoundsStep ==
  ASSUME StateOK, RoundsInv, [Next]_vars
  PROVE  RoundsInv'
<1>1. /\ \A x \in Server : ~ringDiscoverInitiator[x] /\ RingOK(Addresses[x]) /\ Addresses[x] \in Rings
      /\ \A x \in Server : Coordinator[x] \in up => Coordinator[x] = best(up)
      /\ \A x \in Server : \A y \in Item : Waits(dispatching, x, y) => WaitOK(x, y)
      /\ \A a, b \in Server : \A x \in Msg : Carries(net, a, b, x) => CarryOK(a, b, x)
  BY DEF RoundsInv, StateOK
<1>2. up = up \ {NoServer}
  BY ServersFacts DEF StateOK
<1>3. ASSUME NEW s \in Server, Dispatch(s) PROVE RoundsInv'
  <2>1. PICK x \in Item : Waits(dispatching, s, x) /\ SendsAtMost(net, s, x.ring, x.message)
    BY <1>3, DispatchStep
  <2>2. /\ \A a \in Server : \A y : Waits(dispatching', a, y) => Waits(dispatching, a, y)
        /\ UNCHANGED <<scenario, up, Addresses, Coordinator, ringDiscoverInitiator, boots>>
    BY <1>3, DispatchStep
  <2>3. ASSUME NEW a \in Server, NEW b \in Server, NEW m \in Msg, Carries(net', a, b, m)
        PROVE  CarryOK(a, b, m)
    <3>1. Carries(net, a, b, m) \/ (a = s /\ FirstUp(x.ring, b) /\ m = x.message)
      BY <2>1, <2>3 DEF SendsAtMost
    <3>2. FirstUp(x.ring, b) => CarryOK(s, b, x.message)
      BY <1>1, <1>3, <2>1, RoundLeaves
    <3> QED
      BY <1>1, <3>1, <3>2
  <2> QED
    BY <1>1, <1>2, <2>2, <2>3, RoundsKept
<1>4. ASSUME NEW s \in Server, Crash(s) PROVE RoundsInv'
  <2>1. /\ \A a, b \in Server : \A x : Carries(net', a, b, x) => Carries(net, a, b, x)
        /\ \A a \in Server : \A y : Waits(dispatching', a, y) => Waits(dispatching, a, y)
        /\ up' = up \ {s}
        /\ UNCHANGED <<scenario, Addresses, Coordinator, ringDiscoverInitiator, boots>>
    BY <1>4, CrashStep
  <2> QED
    BY <1>1, <2>1, RoundsKept
<1>5. ASSUME NEW s \in up, s \in Server, InitiateElectionDiscovery(s, Addresses[s]),
             UNCHANGED <<scenario, up, net, Addresses, Coordinator, ringDiscoverInitiator, boots>>
      PROVE  RoundsInv'
  <2> DEFINE y == [ring    |-> ReorderRing(Addresses[s], s),
                   message |-> Message("Discovery", <<s>>, <<ZXID[s]>>, << >>)]
  <2>1. StartsAtMost(s, y)
    BY <1>1, <1>5, DiscoveryStep DEF Rounds
  <2>2. WaitOK(s, y)
    BY <1>1, <1>5, RoundStarts, SmallRings
  <2> HIDE DEF y
  <2>3. \A a \in Server : \A x \in Item : Waits(dispatching', a, x) => WaitOK(a, x)
    BY <1>1, <2>1, <2>2 DEF StartsAtMost
  <2> QED
    BY <1>1, <1>2, <1>5, <2>3, RoundsKept
<1>6. ASSUME NEW s \in Server, NEW c \in Server, monitorConnectionToServer(s, c) PROVE RoundsInv'
  <2>1. s \in up /\ UNCHANGED <<scenario, up, Coordinator, ringDiscoverInitiator, boots>>
    BY <1>6 DEF monitorConnectionToServer
  <2>2. CASE InitiateElectionDiscovery(s, Addresses[s]) /\ UNCHANGED <<net, lost, Addresses>>
    BY <1>5, <2>1, <2>2
  <2>3. CASE /\ scenario.Main
             /\ Pass_message_down_ring(s, ReorderRing(Servers, s),
                                       Message("NewRing", << >>, << >>, << >>), net)
             /\ Addresses' = [Addresses EXCEPT ![s] = << >>]
             /\ UNCHANGED dispatching
    <3> DEFINE m == visit(Message("NewRing", << >>, << >>, << >>), s)
    <3>1. /\ SendsAtMost(net, s, ReorderRing(Servers, s), m)
          /\ m.Message_Type = "NewRing" /\ m.Payload = << >>
      BY <2>3, EmptyRingStep
    <3> HIDE DEF m
    <3>2. RingOK(<< >>)
      BY <2>3 DEF RingOK
    <3>3. \A b : CarryOK(s, b, m)
      BY <3>1, <3>2 DEF CarryOK, ContentOK
    <3>4. \A a, b \in Server : \A x \in Msg : Carries(net', a, b, x) => CarryOK(a, b, x)
      BY <1>1, <3>1, <3>3 DEF SendsAtMost
    <3>5. \A x \in Server : Addresses'[x] = IF x = s THEN << >> ELSE Addresses[x]
      BY <2>3 DEF StateOK
    <3>6. \A x \in Server : ~ringDiscoverInitiator'[x] /\ RingOK(Addresses'[x])
      BY <1>1, <2>1, <3>2, <3>5
    <3> QED
      BY <1>1, <1>2, <2>1, <2>3, <3>4, <3>6, RoundsKept
  <2>4. CASE UNCHANGED <<net, lost, Addresses, dispatching>>
    BY <1>1, <1>2, <2>1, <2>4, RoundsKept
  <2> QED
    BY <1>6, <2>2, <2>3, <2>4 DEF monitorConnectionToServer
<1>7. ASSUME NEW s \in Server, NEW c \in Server, monitorConnectionToClient(s, c) PROVE RoundsInv'
  <2>1. UNCHANGED <<scenario, up, Addresses, Coordinator, ringDiscoverInitiator, dispatching, net, boots>>
    BY <1>7 DEF monitorConnectionToClient
  <2> QED
    BY <1>1, <1>2, <2>1, RoundsKept
<1>8. ASSUME NEW s \in Server, sendSessionInfo(s) PROVE RoundsInv'
  BY <1>5, <1>8 DEF sendSessionInfo
<1>9. ASSUME NEW s \in Server, InitiateRingEntry(s) PROVE RoundsInv'
  <2>1. boots < scenario.MaxBoots /\ boots = 0 /\ scenario.MaxBoots = 0
    BY <1>9 DEF InitiateRingEntry, RoundsInv, NoEntry
  <2> QED
    BY <2>1
<1>10. CASE UNCHANGED vars
  <2>1. UNCHANGED <<scenario, up, Addresses, Coordinator, ringDiscoverInitiator, dispatching, net, boots>>
    BY <1>10 DEF vars
  <2> QED
    BY <1>1, <1>2, <2>1, RoundsKept
<1>11. ASSUME NEW s \in Server, HandleMessage(s) PROVE RoundsInv'
  BY <1>11, HandleRounds
<1> QED
  BY <1>3, <1>4, <1>6, <1>7, <1>8, <1>9, <1>10, <1>11 DEF Next

\* A ring in the order of the configuration goes round once.
LEMMA ConfigOrder ==
  ASSUME NEW ring \in Rings, inConfigOrder(ring, up)
  PROVE  InOrder(ring)
<1>1. /\ Len(ring) \in Nat /\ \A i \in 1..Len(ring) : ring[i] \in Server
      /\ Len(Servers) \in Nat /\ \A s \in Server : pos(s) \in 1..Len(Servers)
  BY RingParts, ServersFacts, PosFacts
<1>2. ASSUME NEW i \in 1..Len(ring), NEW j \in 1..Len(ring), i < j
      PROVE  pos(ring[i]) < pos(ring[j])
  <2>1. PICK a \in 1..Len(Servers), b \in 1..Len(Servers) :
          a < b /\ ring[i] = Servers[a] /\ ring[j] = Servers[b]
    BY <1>2 DEF inConfigOrder
  <2> QED
    BY <2>1, PosFacts
<1>3. ASSUME NEW i \in 1..Len(ring) PROVE pos(ring[1]) <= pos(ring[i])
  <2>1. 1 \in 1..Len(ring) /\ (i = 1 \/ 1 < i)
    BY <1>1
  <2> QED
    BY <1>1, <1>2, <2>1
<1>4. \A i \in 1..Len(ring) : dist(ring[1], ring[i]) = pos(ring[i]) - pos(ring[1])
  BY <1>3 DEF dist
<1>5. ASSUME NEW i \in 1..Len(ring), NEW j \in 1..Len(ring), i < j
      PROVE  dist(ring[1], ring[i]) < dist(ring[1], ring[j])
  <2>1. 1 \in 1..Len(ring)
    BY <1>1
  <2> QED
    BY <1>1, <1>2, <1>4, <1>5, <2>1
<1> QED
  BY <1>5 DEF InOrder

\* At the start nothing is on its way, and the rings are those of the servers
\* that run.
LEMMA RoundsInit == Init /\ NoEntry => RoundsInv
<1> SUFFICES ASSUME Init, NoEntry PROVE RoundsInv
  OBVIOUS
<1>1. up \subseteq Server /\ boots = 0
  BY TypeInit DEF StateOK, Init
<1>2. ASSUME NEW s \in Server PROVE ~ringDiscoverInitiator[s] /\ RingOK(Addresses[s])
  <2>1. PICK ring \in Rings : inConfigOrder(ring, up) /\ Addresses = [x \in Server |-> ring]
    BY DEF Init
  <2>2. InOrder(ring) /\ up \subseteq Range(ring)
    BY <2>1, ConfigOrder DEF inConfigOrder
  <2> QED
    BY <2>1, <2>2 DEF Init, RingOK
<1>3. ASSUME NEW s \in Server, Coordinator[s] \in up PROVE Coordinator[s] = best(up)
  <2>1. Coordinator = [x \in Server |-> IF x \in up THEN best(up) ELSE NoServer]
    BY DEF Init
  <2>2. NoServer \notin up
    BY <1>1, ServersFacts
  <2> QED
    BY <1>3, <2>1, <2>2
<1>4. Len(<< >>) = 0
  BY EmptySeq
<1>5. \A s \in Server : \A x : ~Waits(dispatching, s, x)
  BY <1>4 DEF Init, Waits
<1>6. \A a, b \in Server : \A x : ~Carries(net, a, b, x)
  BY <1>4 DEF Init, Carries
<1> QED
  BY <1>1, <1>2, <1>3, <1>5, <1>6 DEF RoundsInv

\* The invariant holds in every execution in which no server is started.
LEMMA RoundsAlways == Spec /\ NoEntry => [](StateOK /\ RoundsInv)
<1>1. Init /\ NoEntry => StateOK /\ RoundsInv
  BY TypeInit, RoundsInit
<1>2. (StateOK /\ RoundsInv) /\ [Next]_vars => (StateOK /\ RoundsInv)'
  BY TypeStep, RoundsStep
<1> QED
  BY <1>1, <1>2, PTL DEF Spec

\* As long as no server is started, a coordinator that runs is the best of the
\* servers that run, whichever servers crash, whatever messages are lost and
\* however the rounds of several elections overlap, with either driver.
THEOREM BestServerWins == Spec /\ NoEntry => []CoordinatorIsBest
<1>1. StateOK /\ RoundsInv => CoordinatorIsBest
  <2>1. RoundsInv => \A s \in Server : Coordinator[s] \in up => Coordinator[s] = best(up)
    BY DEF RoundsInv
  <2> QED
    BY <2>1 DEF CoordinatorIsBest, StateOK
<1> QED
  BY <1>1, RoundsAlways, PTL

\* As long as no server is started, every ring of zabFailureTest keeps every
\* server that runs.
THEOREM RingsStayComplete == Spec /\ NoEntry => []RingComplete
<1>1. StateOK /\ RoundsInv => RingComplete
  BY DEF StateOK, RoundsInv, RingOK, RingComplete, RingIsWhole
<1> QED
  BY <1>1, RoundsAlways, PTL
=============================================================================

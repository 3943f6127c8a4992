---------------------------- MODULE PubSubProofs ----------------------------
(***************************************************************************)
(* Machine-checked proofs about PubSub, for every set of servers and       *)
(* clients, every number of messages and every set of scenarios.           *)
(***************************************************************************)
EXTENDS PubSub, Integers, TLAPS, SequenceTheorems, FiniteSetTheorems,
        WellFoundedInduction

-----------------------------------------------------------------------------
(* Queues and sets of numbers *)

\* What Append does to a queue, element by element.
LEMMA AppendFacts ==
  ASSUME NEW S, NEW q \in Seq(S), NEW e \in S
  PROVE  /\ Append(q, e) \in Seq(S)
         /\ Len(q) \in Nat
         /\ Len(Append(q, e)) = Len(q) + 1
         /\ \A i \in 1..Len(q) : Append(q, e)[i] = q[i]
         /\ Append(q, e)[Len(q) + 1] = e
BY AppendProperties, LenProperties

\* What taking the head of a queue leaves, element by element.
LEMMA HeadFacts ==
  ASSUME NEW S, NEW q \in Seq(S), q # << >>
  PROVE  /\ Len(q) \in Nat /\ Len(q) >= 1
         /\ Head(q) = q[1]
         /\ Head(q) \in S
         /\ Tail(q) \in Seq(S)
         /\ Len(Tail(q)) = Len(q) - 1
         /\ \A i \in 1..(Len(q) - 1) : Tail(q)[i] = q[i + 1]
<1>1. Len(q) \in Nat /\ Len(q) >= 1 /\ 1 \in 1..Len(q)
  BY EmptySeq, LenProperties
<1>2. q[1] \in S
  BY <1>1, ElementOfSeq
<1> QED
  BY <1>1, <1>2, HeadTailProperties

\* The numbers up to n are n.
LEMMA CountOfInterval ==
  ASSUME NEW n \in Nat
  PROVE  IsFiniteSet(1..n) /\ Cardinality(1..n) = n
<1>1. /\ IsFiniteSet(1..n)
      /\ Cardinality(1..n) = IF 1 > n THEN 0 ELSE n - 1 + 1
  BY FS_Interval
<1> QED
  BY <1>1

\* A set of numbers with a bound has a greatest one.
LEMMA MaximumExists ==
  ASSUME NEW n \in Nat, NEW S \in SUBSET (0..n), S # {}
  PROVE  \E m \in S : \A x \in S : m >= x
<1> DEFINE T == {k \in 0..n : n - k \in S}
           R == OpToRel(<, Nat)
<1>1. \A x \in S : n - x \in T
  <2> SUFFICES ASSUME NEW x \in S PROVE n - x \in T
    OBVIOUS
  <2>1. x \in 0..n
    OBVIOUS
  <2> QED
    BY <2>1
<1>2. \A k \in T : k \in Nat /\ n - k \in S
  OBVIOUS
<1>3. \A i, j \in Nat : i < j => <<i, j>> \in R
  BY DEF OpToRel
<1>4. IsWellFoundedOn(R, Nat)
  BY NatLessThanWellFounded
<1> HIDE DEF T, R
<1>5. T \subseteq Nat /\ T # {}
  BY <1>1, <1>2
<1>6. PICK k \in T : \A j \in T : <<j, k>> \notin R
  BY <1>4, <1>5, WFMin
<1>7. ASSUME NEW x \in S PROVE n - k >= x
  <2>1. n - x \in Nat /\ k \in Nat /\ x \in Nat
    BY <1>1, <1>2, <1>6
  <2>2. ~(n - x < k)
    BY <1>1, <1>3, <1>6, <2>1
  <2> QED
    BY <2>1, <2>2
<1> QED
  BY <1>2, <1>6, <1>7

\* A set of numbers has a least one.
LEMMA MinimumExists ==
  ASSUME NEW S \in SUBSET Nat, S # {}
  PROVE  \E m \in S : \A x \in S : m <= x
<1> DEFINE R == OpToRel(<, Nat)
<1>1. \A i, j \in Nat : i < j => <<i, j>> \in R
  BY DEF OpToRel
<1>2. IsWellFoundedOn(R, Nat)
  BY NatLessThanWellFounded
<1> HIDE DEF R
<1>3. PICK m \in S : \A x \in S : <<x, m>> \notin R
  BY <1>2, WFMin
<1>4. ASSUME NEW x \in S PROVE m <= x
  <2>1. m \in Nat /\ x \in Nat
    OBVIOUS
  <2>2. ~(x < m)
    BY <1>1, <1>3, <2>1
  <2> QED
    BY <2>1, <2>2
<1> QED
  BY <1>3, <1>4

\* A set of numbers can be counted through in order: some element has k - 1
\* others below it.
LEMMA CountedThrough ==
  ASSUME NEW n \in Nat, NEW I \in SUBSET (1..n), NEW k \in 1..Cardinality(I)
  PROVE  \E i \in I : Cardinality({j \in I : j <= i}) = k
<1> DEFINE upTo(m) == {j \in I : j <= m}
           T == {m \in 0..n : Cardinality(upTo(m)) < k}
<1>0. \A j \in I : j \in Nat /\ 1 <= j /\ j <= n
  OBVIOUS
<1>1. IsFiniteSet(I)
  <2>1. IsFiniteSet(1..n)
    BY FS_Interval
  <2> QED
    BY <2>1, FS_Subset
<1>2. \A m \in Nat : IsFiniteSet(upTo(m)) /\ Cardinality(upTo(m)) \in Nat
  <2> SUFFICES ASSUME NEW m \in Nat PROVE IsFiniteSet(upTo(m)) /\ Cardinality(upTo(m)) \in Nat
    OBVIOUS
  <2>1. IsFiniteSet(upTo(m))
    BY <1>1, FS_Subset
  <2> QED
    BY <2>1, FS_CardinalityType
<1>3. Cardinality(I) \in Nat /\ k \in Nat /\ k >= 1
  BY <1>1, FS_CardinalityType
<1>4. 0 \in T
  <2>1. \A j \in I : ~(j <= 0)
    BY <1>0
  <2>2. upTo(0) = {}
    BY <2>1
  <2> QED
    BY <1>3, <2>2, FS_EmptySet
<1>5. n \notin T
  <2>1. upTo(n) = I
    BY <1>0
  <2> QED
    BY <1>3, <2>1
<1>6. T \in SUBSET (0..n) /\ T # {}
  BY <1>4
<1>7. PICK m \in T : \A x \in T : m >= x
  <2> HIDE DEF T
  <2> QED
    BY <1>6, MaximumExists
<1>8. m \in Nat /\ m < n /\ m + 1 \in 0..n
  BY <1>5, <1>7
<1>9. m + 1 \notin T
  <2> HIDE DEF T
  <2> QED
    BY <1>7, <1>8
<1>10. Cardinality(upTo(m)) < k /\ ~(Cardinality(upTo(m + 1)) < k)
  BY <1>7, <1>8, <1>9
<1>11. upTo(m + 1) = IF m + 1 \in I THEN upTo(m) \cup {m + 1} ELSE upTo(m)
  <2>1. \A j \in I : j <= m + 1 <=> j <= m \/ j = m + 1
    BY <1>0, <1>8
  <2> QED
    BY <2>1
<1>12. m + 1 \in I /\ upTo(m + 1) = upTo(m) \cup {m + 1}
  BY <1>10, <1>11
<1>13. m + 1 \notin upTo(m) /\ IsFiniteSet(upTo(m)) /\ Cardinality(upTo(m)) \in Nat
  BY <1>2, <1>8
<1> HIDE DEF upTo, T
<1>14. Cardinality(upTo(m + 1)) = Cardinality(upTo(m)) + 1
  BY <1>12, <1>13, FS_AddElement
<1>15. Cardinality(upTo(m + 1)) = k
  BY <1>3, <1>10, <1>13, <1>14
<1> QED
  BY <1>12, <1>15 DEF upTo

-----------------------------------------------------------------------------
(* The invariant *)

\* A session keeps a version for every path it watches; Update_watch_cache, which
\* shortens one list only, leaves too many versions, never too few.
Session == {d \in [Version : Nat, Watchlist : Seq(Path), Versionlist : Seq({0, 1})] :
              Len(d.Watchlist) <= Len(d.Versionlist)}
Znode   == [client : Client, data : Session]
Request == [type : {"setdata", "watch_trigger"}, znodes : Seq(Znode), origin : Server,
            message : {"none", "SUBSCRIBE", "EXISTS"}, client : Client, path : Path]
Publication == [type : {"create"}, znodes : {<< >>}, message : {"none"}]
Handler == [message : {"SUBSCRIBE", "EXISTS"}, client : Client, path : Path,
            exists : BOOLEAN, data : Seq(Session)]

Number   == 0..(MaxMessages + 1)
Question == [message : {"SUBSCRIBE", "EXISTS", "GET_SUBSCRIPTION", "REESTABLISH_SESSION"},
             n : Number]
Answer   == [message : {"SUBSCRIBE_OK", "SUBSCRIBED_MESSAGE", "GET_SUBSCRIPTION_OK",
                        "WATCH_TRIGGER", "EXISTS_OK", "REJECT"}, n : Number]

\* The type invariant.  A list of versions is never shorter than its list of
\* watches, so that no version is read beyond it.
TypeOK ==
  /\ scenario \in Scenarios /\ up \subseteq Server
  /\ cache \in [Client -> Session]
  /\ log \in Seq(Request \cup Publication) /\ created <= MaxMessages
  /\ requests \in Seq(Request) /\ denied \in [Server -> Seq(Request)]
  /\ applied \in [Server -> Nat] /\ \A s \in Server : applied[s] <= Len(log)
  /\ checking \subseteq up /\ \A s \in checking : applied[s] >= 1
  /\ watchcache \in [Server -> [Path -> Seq(Client)]]
  /\ handling \in [Server -> Handler \cup {Idle}]
  /\ toServer \in [Client -> Seq(Question)] /\ toClient \in [Client -> Seq(Answer)]
  /\ connectedServer \in [Client -> Server]
  /\ topicMsgMap \in [Client -> Number] /\ received \in [Client -> Number]

\* A server handles messages of its own clients.
HandlerInv ==
  \A s \in Server : handling[s] # Idle => s \in up /\ connectedServer[handling[s].client] = s

\* Where the subscription of a client may be: on its way to the server, in its
\* handler, on its way to the coordinator, accepted, on its way back.
asked(q)     == {i \in DOMAIN q : q[i].message = "SUBSCRIBE"}
handled(c)   == {s \in Server : handling[s].message = "SUBSCRIBE" /\ handling[s].client = c}
passed(q, c) == {i \in DOMAIN q : q[i].message = "SUBSCRIBE" /\ q[i].client = c}
confirmed(q) == {i \in DOMAIN q : q[i].message = "SUBSCRIBE_OK"}
answered(c)  == topicMsgMap[c] # 0 \/ confirmed(toClient[c]) # {}

atMostOne(S) == \A x, y \in S : x = y

\* It is in one of these places, once; a client that was told of its
\* subscription has an accepted one, which its server is through with.
OnceInv(c) ==
  /\ atMostOne(asked(toServer[c])) /\ atMostOne(handled(c))
  /\ atMostOne(passed(requests, c)) /\ atMostOne(passed(log, c))
  /\ atMostOne(confirmed(toClient[c]))
  /\ asked(toServer[c]) # {} => handled(c) = {} /\ passed(requests, c) = {} /\ passed(log, c) = {}
  /\ handled(c) # {} => passed(requests, c) = {} /\ passed(log, c) = {}
  /\ passed(requests, c) # {} => passed(log, c) = {}
  /\ answered(c) => passed(log, c) # {}
  /\ topicMsgMap[c] # 0 => confirmed(toClient[c]) = {}
  /\ answered(c) => \A i \in passed(log, c) : LET s == log[i].origin IN
       applied[s] >= i /\ (applied[s] = i => s \notin checking)

\* What stands at position i of q is no message beyond the one after r, unless
\* the one before it comes first.
follows(q, i, r) ==
  \/ q[i].n <= r + 1
  \/ i > 1 /\ q[i - 1] = Message("SUBSCRIBED_MESSAGE", q[i].n - 1)

\* What a client with the number t, which was shown message r, asks for: no
\* message beyond the next one, and only after it was told of its subscription.
questionsOK(q, r, t) ==
  \A i \in DOMAIN q :
    /\ q[i].message \in {"GET_SUBSCRIPTION", "EXISTS"} => t # 0 /\ q[i].n >= 1
    /\ q[i].message = "GET_SUBSCRIPTION" => q[i].n <= r + 1

\* What it is told.
answersOK(q, r, t) ==
  \A i \in DOMAIN q :
    /\ q[i].message \in {"SUBSCRIBE_OK", "SUBSCRIBED_MESSAGE", "GET_SUBSCRIPTION_OK"}
         => q[i].n >= 1
    /\ q[i].message \in {"SUBSCRIBED_MESSAGE", "GET_SUBSCRIPTION_OK", "EXISTS_OK"} => t # 0
    /\ q[i].message \in {"SUBSCRIBED_MESSAGE", "GET_SUBSCRIPTION_OK"} => follows(q, i, r)

GapInv(c) ==
  /\ topicMsgMap[c] <= received[c] + 1
  /\ questionsOK(toServer[c], received[c], topicMsgMap[c])
  /\ \A s \in Server :
       handling[s].message = "EXISTS" /\ handling[s].client = c => topicMsgMap[c] # 0
  /\ answersOK(toClient[c], received[c], topicMsgMap[c])

PubSubInv ==
  /\ TypeOK
  /\ HandlerInv
  /\ \A c \in Client : OnceInv(c) /\ GapInv(c)

-----------------------------------------------------------------------------
(* Operators *)

\* The greatest of a set of numbers.
LEMMA MaxFacts ==
  ASSUME NEW n \in Nat, NEW S \in SUBSET (0..n), S # {}
  PROVE  Max(S) \in S /\ \A x \in S : Max(S) >= x
BY MaximumExists DEF Max

\* The least of a set of numbers.
LEMMA MinFacts ==
  ASSUME NEW S \in SUBSET Nat, S # {}
  PROVE  Min(S) \in S
<1>1. \E m \in S : \A x \in S : m <= x
  BY MinimumExists
<1> QED
  BY <1>1 DEF Min

\* How many of the positions in I are not behind i.
rank(I, i) == Cardinality({j \in I : j <= i})

\* What is picked of a queue is a queue of some of its items.
LEMMA PickFacts ==
  ASSUME NEW S, NEW q \in Seq(S), NEW I \in SUBSET (1..Len(q))
  PROVE  /\ pick(q, I) \in Seq(S)
         /\ Cardinality(I) \in Nat
         /\ DOMAIN pick(q, I) = 1..Cardinality(I)
         /\ \A k \in 1..Cardinality(I) : \E i \in I : pick(q, I)[k] = q[i] /\ rank(I, i) = k
<1>1. Len(q) \in Nat /\ \A i \in 1..Len(q) : q[i] \in S
  BY ElementOfSeq, LenProperties
<1>2. Cardinality(I) \in Nat
  <2>1. IsFiniteSet(1..Len(q))
    BY <1>1, FS_Interval
  <2>2. IsFiniteSet(I)
    BY <2>1, FS_Subset
  <2> QED
    BY <2>2, FS_CardinalityType
<1> DEFINE at(k) == CHOOSE i \in I : rank(I, i) = k
<1>3. \A k \in 1..Cardinality(I) : at(k) \in I /\ rank(I, at(k)) = k
  <2> SUFFICES ASSUME NEW k \in 1..Cardinality(I)
               PROVE  at(k) \in I /\ rank(I, at(k)) = k
    OBVIOUS
  <2>1. \E i \in I : rank(I, i) = k
    BY <1>1, CountedThrough DEF rank
  <2> QED
    BY <2>1
<1>4. pick(q, I) = [k \in 1..Cardinality(I) |-> q[at(k)]]
  BY DEF pick, rank
<1> HIDE DEF at
<1>5. \A k \in 1..Cardinality(I) : q[at(k)] \in S
  BY <1>1, <1>3
<1>6. pick(q, I) \in Seq(S)
  BY <1>2, <1>4, <1>5
<1>7. \A k \in 1..Cardinality(I) : pick(q, I)[k] = q[at(k)]
  BY <1>4
<1>8. DOMAIN pick(q, I) = 1..Cardinality(I)
  BY <1>4
<1> QED
  BY <1>2, <1>3, <1>6, <1>7, <1>8

\* The bounds of a scenario and the numbers of messages.
LEMMA ConstantFacts ==
  ASSUME TypeOK
  PROVE  /\ MaxMessages \in Nat /\ 1 \in Path /\ 0 \in Number /\ 1 \in Number
         /\ scenario.Messages \in Nat /\ scenario.Messages <= MaxMessages
         /\ scenario.First \in Server /\ scenario.Up \subseteq Server
         /\ Path \subseteq Nat /\ Path \subseteq Number /\ Number \subseteq Nat
BY SMTT(60), PubSubAssumption DEF TypeOK, Path, Number

\* An entry of the log has znodes, and none when it is a message.
LEMMA EntryFacts ==
  ASSUME TypeOK, NEW i \in 1..Len(log)
  PROVE  /\ log[i] \in Request \cup Publication
         /\ log[i].znodes \in Seq(Znode)
         /\ log[i].message = "SUBSCRIBE" => log[i] \in Request
<1>1. log[i] \in Request \cup Publication
  BY ElementOfSeq DEF TypeOK
<1>2. << >> \in Seq(Znode)
  OBVIOUS
<1> QED
  BY <1>1, <1>2 DEF Request, Publication

\* A server has no more messages than there are.
LEMMA MessagesFacts ==
  ASSUME TypeOK, NEW s \in Server
  PROVE  /\ messages(s) \in Nat /\ messages(s) <= MaxMessages
         /\ messages(s) + 1 \in Path /\ messages(s) + 1 \in Number
         /\ s \in checking /\ log[applied[s]].type = "create" => messages(s) \in Path
<1> DEFINE C == {i \in DOMAIN log : log[i].type = "create"}
           M == {i \in 1..applied[s] : log[i].type = "create"}
<1>1. /\ Len(log) \in Nat /\ DOMAIN log = 1..Len(log)
      /\ applied[s] \in Nat /\ applied[s] <= Len(log)
  BY LenProperties DEF TypeOK
<1>2. IsFiniteSet(C)
  <2>1. IsFiniteSet(1..Len(log))
    BY <1>1, FS_Interval
  <2> QED
    BY <1>1, <2>1, FS_Subset
<1>3. M \in SUBSET C
  BY <1>1
<1>4. messages(s) = Cardinality(M) /\ created = Cardinality(C)
  BY DEF messages, created
<1>5. s \in checking /\ log[applied[s]].type = "create" => applied[s] \in M
  BY <1>1 DEF TypeOK
<1> HIDE DEF C, M
<1>6. IsFiniteSet(M) /\ Cardinality(M) <= Cardinality(C)
  BY <1>2, <1>3, FS_Subset
<1>7. Cardinality(M) \in Nat /\ Cardinality(C) \in Nat
  BY <1>2, <1>6, FS_CardinalityType
<1>8. M # {} => Cardinality(M) # 0
  BY <1>6, FS_EmptySet
<1>9. messages(s) \in Nat /\ messages(s) <= MaxMessages /\ MaxMessages \in Nat
  BY <1>4, <1>6, <1>7, ConstantFacts DEF TypeOK
<1> QED
  BY <1>4, <1>5, <1>8, <1>9 DEF Path, Number

\* Another request adds to the messages only if it is one.
LEMMA CreatedFacts ==
  ASSUME TypeOK, NEW e \in Request \cup Publication, log' = Append(log, e)
  PROVE  created' = created + (IF e \in Request THEN 0 ELSE 1) /\ created \in Nat
<1> DEFINE C(q) == {i \in DOMAIN q : q[i].type = "create"}
<1>1. /\ log \in Seq(Request \cup Publication)
      /\ Len(log) \in Nat /\ DOMAIN log = 1..Len(log)
  BY LenProperties DEF TypeOK
<1>2. /\ Append(log, e) \in Seq(Request \cup Publication)
      /\ DOMAIN Append(log, e) = 1..(Len(log) + 1)
      /\ \A i \in 1..Len(log) : Append(log, e)[i] = log[i]
      /\ Append(log, e)[Len(log) + 1] = e
  BY <1>1, AppendFacts, LenProperties
<1>3. e.type = "create" <=> e \notin Request
  BY DEF Request, Publication
<1>4. C(Append(log, e)) = IF e \in Request THEN C(log) ELSE C(log) \cup {Len(log) + 1}
  <2>1. \A i : i \in 1..(Len(log) + 1) <=> i \in 1..Len(log) \/ i = Len(log) + 1
    BY <1>1
  <2> QED
    BY <1>1, <1>2, <1>3, <2>1
<1>5. IsFiniteSet(C(log)) /\ Len(log) + 1 \notin C(log)
  <2>1. IsFiniteSet(1..Len(log))
    BY <1>1, FS_Interval
  <2> QED
    BY <1>1, <2>1, FS_Subset
<1>6. created = Cardinality(C(log)) /\ created' = Cardinality(C(Append(log, e)))
  BY DEF created
<1> HIDE DEF C
<1>7. Cardinality(C(log)) \in Nat
  BY <1>5, FS_CardinalityType
<1>8. Cardinality(C(log) \cup {Len(log) + 1}) = Cardinality(C(log)) + 1
  BY <1>5, FS_AddElement
<1> QED
  BY <1>4, <1>6, <1>7, <1>8

-----------------------------------------------------------------------------
(* Sessions *)

\* The parts of a session.
LEMMA SessionParts ==
  ASSUME NEW d \in Session
  PROVE  /\ d \in [Version : Nat, Watchlist : Seq(Path), Versionlist : Seq({0, 1})]
         /\ d.Version \in Nat /\ d.Watchlist \in Seq(Path) /\ d.Versionlist \in Seq({0, 1})
         /\ Len(d.Watchlist) \in Nat /\ Len(d.Versionlist) \in Nat
         /\ Len(d.Watchlist) <= Len(d.Versionlist)
<1>1. d.Watchlist \in Seq(Path) /\ d.Versionlist \in Seq({0, 1})
  BY DEF Session
<1> QED
  BY <1>1, LenProperties DEF Session

\* A session from its parts.
LEMMA SessionMade ==
  ASSUME NEW n \in Nat, NEW w \in Seq(Path), NEW v \in Seq({0, 1}), Len(w) <= Len(v)
  PROVE  [Version |-> n, Watchlist |-> w, Versionlist |-> v] \in Session
<1> DEFINE d == [Version |-> n, Watchlist |-> w, Versionlist |-> v]
<1>1. d \in [Version : Nat, Watchlist : Seq(Path), Versionlist : Seq({0, 1})]
  OBVIOUS
<1>2. d.Watchlist = w /\ d.Versionlist = v
  OBVIOUS
<1> HIDE DEF d
<1>3. d \in Session
  BY <1>1, <1>2 DEF Session
<1> QED
  BY <1>3 DEF d

\* A session with other lists.
LEMMA SessionChanged ==
  ASSUME NEW d \in Session, NEW w \in Seq(Path), NEW v \in Seq({0, 1}), Len(w) <= Len(v)
  PROVE  [d EXCEPT !.Watchlist = w, !.Versionlist = v] \in Session
<1>1. /\ d \in [Version : Nat, Watchlist : Seq(Path), Versionlist : Seq({0, 1})]
      /\ d.Version \in Nat
  BY SessionParts
<1> DEFINE e == [d EXCEPT !.Watchlist = w, !.Versionlist = v]
<1>2. e \in [Version : Nat, Watchlist : Seq(Path), Versionlist : Seq({0, 1})]
  BY <1>1
<1>3. e.Watchlist = w /\ e.Versionlist = v
  BY <1>1
<1> HIDE DEF e
<1>4. e \in Session
  BY <1>2, <1>3 DEF Session
<1> QED
  BY <1>4 DEF e

\* The znodes of a request are numbers of its list.
LEMMA OfFacts ==
  ASSUME NEW q \in Seq(Znode), NEW c
  PROVE  /\ Len(q) \in Nat /\ of(q, c) \in SUBSET (1..Len(q)) /\ of(q, c) \in SUBSET (0..Len(q))
         /\ \A j \in of(q, c) : q[j] \in Znode /\ q[j].data \in Session
<1>1. Len(q) \in Nat /\ DOMAIN q = 1..Len(q) /\ \A j \in 1..Len(q) : q[j] \in Znode
  BY ElementOfSeq, LenProperties
<1> QED
  BY <1>1 DEF of, Znode

\* The empty session, which Start_session makes, is a session.
LEMMA EmptySessionFacts == EmptySession \in Session
<1>1. << >> \in Seq(Path) /\ << >> \in Seq({0, 1}) /\ Len(<< >>) <= Len(<< >>) /\ 1 \in Nat
  OBVIOUS
<1> QED
  BY <1>1, SessionMade DEF EmptySession

\* What a server has of a session is a session.
LEMMA SessionFacts ==
  ASSUME TypeOK, NEW s \in Server, NEW c \in Client
  PROVE  session(s, c) \in Session
<1> DEFINE W == {i \in 1..applied[s] : of(log[i].znodes, c) # {}}
<1>1. applied[s] \in Nat /\ Len(log) \in Nat /\ applied[s] <= Len(log)
  BY LenProperties DEF TypeOK
<1>2. CASE W = {}
  <2>1. session(s, c) = EmptySession
    BY <1>2 DEF session, sessionAfter
  <2> QED
    BY <2>1, EmptySessionFacts
<1>3. CASE W # {}
  <2> DEFINE z == log[Max(W)].znodes
             O == of(z, c)
  <2>1. session(s, c) = z[Max(O)].data
    BY <1>3 DEF session, sessionAfter
  <2>2. W \in SUBSET (0..applied[s])
    OBVIOUS
  <2>3. Max(W) \in W
    <3> HIDE DEF W
    <3> QED
      BY <1>1, <1>3, <2>2, MaxFacts
  <2>4. Max(W) \in 1..Len(log) /\ O # {}
    <3>1. Max(W) \in 1..applied[s] /\ of(log[Max(W)].znodes, c) # {}
      BY <2>3
    <3> HIDE DEF W
    <3> QED
      BY <1>1, <3>1
  <2>5. z \in Seq(Znode)
    BY <2>4, EntryFacts
  <2> HIDE DEF z
  <2>6. /\ Len(z) \in Nat /\ O \in SUBSET (0..Len(z))
        /\ \A j \in O : z[j].data \in Session
    BY <2>5, OfFacts
  <2> HIDE DEF O, W
  <2>7. Max(O) \in O
    BY <2>4, <2>6, MaxFacts
  <2> QED
    BY <2>1, <2>6, <2>7
<1> QED
  BY <1>2, <1>3

\* A session with a watch added.
LEMMA WithWatchFacts ==
  ASSUME TypeOK, NEW s \in Server, NEW c \in Client, NEW n \in Path
  PROVE  withWatch(s, c, n) \in Session
<1> DEFINE d == session(s, c)
           w == Append(d.Watchlist, n)
           v == Append(d.Versionlist, version(s, n))
<1>1. d \in Session
  BY SessionFacts
<1>2. withWatch(s, c, n) = [d EXCEPT !.Watchlist = w, !.Versionlist = v]
  BY DEF withWatch
<1>3. version(s, n) \in {0, 1}
  BY DEF version
<1> HIDE DEF d
<1>4. /\ d \in [Version : Nat, Watchlist : Seq(Path), Versionlist : Seq({0, 1})]
      /\ d.Watchlist \in Seq(Path) /\ d.Versionlist \in Seq({0, 1})
      /\ Len(d.Watchlist) <= Len(d.Versionlist)
  BY <1>1, SessionParts
<1>5. /\ w \in Seq(Path) /\ Len(w) = Len(d.Watchlist) + 1
      /\ v \in Seq({0, 1}) /\ Len(v) = Len(d.Versionlist) + 1
      /\ Len(d.Watchlist) \in Nat /\ Len(d.Versionlist) \in Nat
  BY <1>3, <1>4, AppendFacts
<1> HIDE DEF w, v
<1>6. Len(w) <= Len(v)
  BY <1>4, <1>5
<1> QED
  BY ZenonT(60), <1>1, <1>2, <1>5, <1>6, SessionChanged

\* A list without one of its items.
LEMMA RemoveFacts ==
  ASSUME NEW S, NEW q \in Seq(S), NEW i \in 1..Len(q)
  PROVE  RemoveAt(q, i) \in Seq(S) /\ Len(RemoveAt(q, i)) = Len(q) - 1
<1> DEFINE a == SubSeq(q, 1, i - 1)
           b == SubSeq(q, i + 1, Len(q))
<1>1. Len(q) \in Nat /\ i \in Nat /\ \A j \in 1..Len(q) : q[j] \in S
  BY ElementOfSeq, LenProperties
<1>2. a \in Seq(S) /\ Len(a) = i - 1
  <2>1. \A j \in 1..(i - 1) : q[j] \in S
    BY <1>1
  <2>2. a \in Seq(S) /\ Len(a) = IF 1 <= i - 1 THEN (i - 1) - 1 + 1 ELSE 0
    BY <1>1, <2>1, SubSeqProperties
  <2> QED
    BY <1>1, <2>2
<1>3. b \in Seq(S) /\ Len(b) = Len(q) - i
  <2>1. \A j \in (i + 1)..Len(q) : q[j] \in S
    BY <1>1
  <2>2. b \in Seq(S) /\ Len(b) = IF i + 1 <= Len(q) THEN Len(q) - (i + 1) + 1 ELSE 0
    BY <1>1, <2>1, SubSeqProperties
  <2> QED
    BY <1>1, <2>2
<1>4. RemoveAt(q, i) = a \o b
  BY DEF RemoveAt
<1> HIDE DEF a, b
<1>5. a \o b \in Seq(S) /\ Len(a \o b) = Len(a) + Len(b)
  BY <1>2, <1>3, ConcatProperties
<1> QED
  BY <1>1, <1>2, <1>3, <1>4, <1>5

\* A session with a watch removed.
LEMMA WithoutWatchFacts ==
  ASSUME TypeOK, NEW s \in Server, NEW c \in Client, NEW n
  PROVE  withoutWatch(s, c, n) \in Session
<1> DEFINE d == session(s, c)
           A == {i \in DOMAIN d.Watchlist : d.Watchlist[i] = n}
           w == RemoveAt(d.Watchlist, Min(A))
           v == RemoveAt(d.Versionlist, Min(A))
<1>1. d \in Session
  BY SessionFacts
<1>2. withoutWatch(s, c, n) = IF A = {} THEN d ELSE [d EXCEPT !.Watchlist = w, !.Versionlist = v]
  BY DEF withoutWatch
<1> HIDE DEF d
<1>3. /\ d \in [Version : Nat, Watchlist : Seq(Path), Versionlist : Seq({0, 1})]
      /\ d.Watchlist \in Seq(Path) /\ d.Versionlist \in Seq({0, 1})
      /\ Len(d.Watchlist) \in Nat /\ Len(d.Versionlist) \in Nat
      /\ Len(d.Watchlist) <= Len(d.Versionlist)
  BY <1>1, SessionParts
<1>4. CASE A # {}
  <2>1. A \in SUBSET Nat /\ \A i \in A : i \in 1..Len(d.Watchlist)
    BY <1>3, LenProperties
  <2>2. Min(A) \in A
    <3> HIDE DEF A
    <3> QED
      BY <1>4, <2>1, MinFacts
  <2>3. Min(A) \in 1..Len(d.Watchlist) /\ Min(A) \in 1..Len(d.Versionlist)
    BY <1>3, <2>1, <2>2
  <2> HIDE DEF A
  <2>4. /\ w \in Seq(Path) /\ Len(w) = Len(d.Watchlist) - 1
        /\ v \in Seq({0, 1}) /\ Len(v) = Len(d.Versionlist) - 1
    BY <1>3, <2>3, RemoveFacts
  <2> HIDE DEF w, v
  <2>5. [d EXCEPT !.Watchlist = w, !.Versionlist = v] \in Session
    <3>1. Len(w) <= Len(v)
      BY <1>3, <2>4
    <3> QED
      BY <1>1, <2>4, <3>1, SessionChanged
  <2> QED
    BY <1>2, <1>4, <2>5
<1> QED
  BY <1>1, <1>2, <1>4

-----------------------------------------------------------------------------
(* Type correctness *)

\* A busy server has a client and a path.
LEMMA HandlerFacts ==
  ASSUME TypeOK, NEW s \in Server
  PROVE  /\ handling[s] \in Handler \cup {Idle}
         /\ Idle \notin Handler /\ Idle.message = "none"
         /\ handling[s] # Idle =>
              /\ handling[s] \in Handler
              /\ handling[s].client \in Client /\ handling[s].path \in Path
              /\ handling[s].message \in {"SUBSCRIBE", "EXISTS"}
              /\ handling[s].data \in Seq(Session)
<1>1. handling[s] \in Handler \cup {Idle} /\ Idle.message = "none"
  BY DEF TypeOK, Idle
<1>2. \A h \in Handler : h.message # "none"
  BY DEF Handler
<1> QED
  BY <1>1, <1>2 DEF Handler

\* A message to the server is added, or lost.
LEMMA SendFacts ==
  ASSUME TypeOK, NEW c \in Client, NEW m \in Question, send(c, <<m>>)
  PROVE  /\ toServer' \in [Client -> Seq(Question)]
         /\ \A d \in Client \ {c} : toServer'[d] = toServer[d]
         /\ toServer'[c] \in {toServer[c], Append(toServer[c], m)}
<1>1. toServer[c] \in Seq(Question) /\ toServer \in [Client -> Seq(Question)]
  BY DEF TypeOK
<1>2. toServer[c] \o <<m>> = Append(toServer[c], m) /\ Append(toServer[c], m) \in Seq(Question)
  BY <1>1, AppendFacts, AppendIsConcat
<1> QED
  BY <1>1, <1>2 DEF send

\* The questions and answers that are made.
LEMMA MessageTypes ==
  ASSUME TypeOK, NEW n \in Number
  PROVE  /\ \A m \in {"SUBSCRIBE", "REESTABLISH_SESSION", "GET_SUBSCRIPTION", "EXISTS"} :
              Message(m, n) \in Question
         /\ \A m \in {"SUBSCRIBE_OK", "SUBSCRIBED_MESSAGE", "GET_SUBSCRIPTION_OK",
                      "WATCH_TRIGGER", "EXISTS_OK", "REJECT"} : Message(m, n) \in Answer
         /\ \A m : Message(m, n).message = m /\ Message(m, n).n = n
BY DEF Message, Question, Answer

\* Requests that are made.
LEMMA RequestType ==
  ASSUME NEW s \in Server, NEW type \in {"setdata", "watch_trigger"}, NEW z \in Seq(Znode),
         NEW m \in {"none", "SUBSCRIBE", "EXISTS"}, NEW c \in Client, NEW n \in Path
  PROVE  /\ request(s, type, z, m, c, n) \in Request
         /\ request(s, type, z, m, c, n).message = m /\ request(s, type, z, m, c, n).client = c
BY DEF request, Request

\* A znode in a list of one.
LEMMA OneZnode ==
  ASSUME NEW c \in Client, NEW d \in Session
  PROVE  znode(c, d) \in Znode /\ <<znode(c, d)>> \in Seq(Znode)
<1>1. znode(c, d) \in Znode
  BY DEF znode, Znode
<1> QED
  BY <1>1

\* subscribe: the request a client puts on its way keeps the types.
LEMMA SubscribeType ==
  ASSUME TypeOK, NEW c \in Client, subscribe(c)
  PROVE  TypeOK'
<1>1. Message("SUBSCRIBE", 0) \in Question
  BY ConstantFacts, MessageTypes
<1>2. toServer' \in [Client -> Seq(Question)]
  BY <1>1, SendFacts DEF subscribe
<1>3. created' = created
  BY DEF subscribe, created, coordinator
<1> QED
  BY <1>2, <1>3 DEF subscribe, TypeOK, coordinator, storage, watches, client

\* What the listener takes from its connection.
LEMMA ListenerFacts ==
  ASSUME TypeOK, NEW c \in Client, listener(c)
  PROVE  /\ toClient[c] \in Seq(Answer) /\ toClient[c] # << >>
         /\ Head(toClient[c]) = toClient[c][1] /\ Head(toClient[c]) \in Answer
         /\ 1 \in DOMAIN toClient[c] /\ DOMAIN toClient[c] = 1..Len(toClient[c])
         /\ Len(toClient[c]) \in Nat /\ DOMAIN Tail(toClient[c]) = 1..(Len(toClient[c]) - 1)
         /\ \A i \in 1..(Len(toClient[c]) - 1) : Tail(toClient[c])[i] = toClient[c][i + 1]
         /\ Tail(toClient[c]) \in Seq(Answer)
         /\ toClient'[c] = Tail(toClient[c])
         /\ \A d \in Client \ {c} : toClient'[d] = toClient[d]
         /\ toClient' \in [Client -> Seq(Answer)]
<1>1. toClient[c] \in Seq(Answer) /\ toClient \in [Client -> Seq(Answer)]
  BY DEF TypeOK
<1>2. toClient[c] # << >> /\ toClient' = [toClient EXCEPT ![c] = Tail(@)]
  BY DEF listener
<1>3. /\ Len(toClient[c]) \in Nat /\ Len(toClient[c]) >= 1
      /\ Head(toClient[c]) = toClient[c][1] /\ Head(toClient[c]) \in Answer
      /\ Tail(toClient[c]) \in Seq(Answer) /\ Len(Tail(toClient[c])) = Len(toClient[c]) - 1
      /\ \A i \in 1..(Len(toClient[c]) - 1) : Tail(toClient[c])[i] = toClient[c][i + 1]
  BY <1>1, <1>2, HeadFacts
<1>4. DOMAIN toClient[c] = 1..Len(toClient[c]) /\ DOMAIN Tail(toClient[c]) = 1..Len(Tail(toClient[c]))
  BY <1>1, <1>3, LenProperties
<1> QED
  BY <1>1, <1>2, <1>3, <1>4

\* What each answer does to the client.
LEMMA ListenerCases ==
  ASSUME TypeOK, NEW c \in Client, listener(c), NEW a, a = Head(toClient[c]), OnceInv(c), GapInv(c)
  PROVE  /\ a.message = "SUBSCRIBE_OK" =>
              /\ a.n >= 1
              /\ topicMsgMap' = [topicMsgMap EXCEPT ![c] = a.n]
              /\ received' = [received EXCEPT ![c] = a.n - 1]
              /\ topicMsgMap[c] = 0 /\ UNCHANGED toServer
         /\ a.message = "SUBSCRIBED_MESSAGE" =>
              /\ received' = [received EXCEPT ![c] = IF a.n > @ THEN a.n ELSE @]
              /\ a.n <= received[c] + 1 /\ topicMsgMap[c] # 0
              /\ UNCHANGED <<topicMsgMap, toServer>>
         /\ a.message = "GET_SUBSCRIPTION_OK" =>
              /\ topicMsgMap' = [topicMsgMap EXCEPT ![c] = a.n] /\ topicMsgMap[c] # 0
              /\ a.n >= 1 /\ a.n <= received[c] + 1
              /\ send(c, <<Message("EXISTS", a.n)>>)
              /\ UNCHANGED received
         /\ a.message \in {"WATCH_TRIGGER", "EXISTS_OK", "REJECT"} =>
              /\ UNCHANGED <<topicMsgMap, received>>
              /\ \/ UNCHANGED toServer
                 \/ /\ topicMsgMap[c] # 0
                    /\ send(c, <<Message("GET_SUBSCRIPTION", topicMsgMap[c])>>)
         /\ UNCHANGED <<scenario, up, cache, log, requests, applied, checking, watchcache, handling,
                        denied, connectedServer>>
<1>1. /\ a = toClient[c][1] /\ a \in Answer /\ 1 \in DOMAIN toClient[c]
      /\ a.n \in Nat
  BY ListenerFacts, ConstantFacts DEF Answer
<1>2. received[c] \in Nat /\ topicMsgMap[c] \in Nat
  BY ConstantFacts DEF TypeOK
<1>3. /\ a.message \in {"SUBSCRIBE_OK", "SUBSCRIBED_MESSAGE", "GET_SUBSCRIPTION_OK"} => a.n >= 1
      /\ a.message \in {"SUBSCRIBED_MESSAGE", "GET_SUBSCRIPTION_OK", "EXISTS_OK"} => topicMsgMap[c] # 0
      /\ a.message \in {"SUBSCRIBED_MESSAGE", "GET_SUBSCRIPTION_OK"} => a.n <= received[c] + 1
  BY <1>1 DEF GapInv, answersOK, follows
<1>4. a.message = "SUBSCRIBE_OK" => topicMsgMap[c] = 0
  <2>1. a.message = "SUBSCRIBE_OK" => 1 \in confirmed(toClient[c])
    BY <1>1 DEF confirmed
  <2> QED
    BY <2>1 DEF OnceInv
<1>5. Max({received[c], a.n}) = IF a.n > received[c] THEN a.n ELSE received[c]
  <2> DEFINE S == {received[c], a.n}
  <2>1. Max(S) \in S /\ \A x \in S : Max(S) >= x
    <3>1. PICK n \in Nat : n = received[c] + a.n
      BY <1>1, <1>2
    <3>2. S \in SUBSET (0..n) /\ S # {}
      BY <1>1, <1>2, <3>1
    <3> HIDE DEF S
    <3> QED
      BY <3>2, MaxFacts
  <2> QED
    BY <1>1, <1>2, <2>1
<1> QED
  BY <1>1, <1>3, <1>4, <1>5 DEF listener, coordinator, storage, watches

\* listener: the answer a client takes, and the request it may follow with, keep
\* the types.
LEMMA ListenerType ==
  ASSUME TypeOK, NEW c \in Client, listener(c), OnceInv(c), GapInv(c)
  PROVE  TypeOK'
<1>1. PICK a : a = Head(toClient[c])
  OBVIOUS
<1>2. /\ a \in Answer /\ toClient' \in [Client -> Seq(Answer)]
      /\ a.n \in Number /\ a.n \in Nat
  BY <1>1, ListenerFacts, ConstantFacts DEF Answer
<1>3. topicMsgMap \in [Client -> Number] /\ received \in [Client -> Number]
  BY DEF TypeOK
<1>4. /\ Message("EXISTS", a.n) \in Question
      /\ Message("GET_SUBSCRIPTION", topicMsgMap[c]) \in Question
  BY <1>2, <1>3, MessageTypes
<1>5. UNCHANGED <<scenario, up, cache, log, requests, applied, checking, watchcache, handling,
                  denied, connectedServer>>
  BY <1>1, ListenerCases
<1>6. /\ toServer' \in [Client -> Seq(Question)]
      /\ topicMsgMap' \in [Client -> Number] /\ received' \in [Client -> Number]
  <2>1. CASE a.message = "SUBSCRIBE_OK"
    <3>1. a.n - 1 \in Number
      <4>1. a.n >= 1
        BY <1>1, <2>1, ListenerCases
      <4> QED
        BY <1>2, <4>1, ConstantFacts DEF Number
    <3>2. /\ topicMsgMap' = [topicMsgMap EXCEPT ![c] = a.n]
          /\ received' = [received EXCEPT ![c] = a.n - 1]
          /\ UNCHANGED toServer
      BY <1>1, <2>1, ListenerCases
    <3> QED
      BY <1>2, <1>3, <3>1, <3>2 DEF TypeOK
  <2>2. CASE a.message = "SUBSCRIBED_MESSAGE"
    <3>1. /\ received' = [received EXCEPT ![c] = IF a.n > @ THEN a.n ELSE @]
          /\ UNCHANGED <<topicMsgMap, toServer>>
      BY <1>1, <2>2, ListenerCases
    <3> QED
      BY <1>2, <1>3, <3>1 DEF TypeOK
  <2>3. CASE a.message = "GET_SUBSCRIPTION_OK"
    <3>1. /\ topicMsgMap' = [topicMsgMap EXCEPT ![c] = a.n]
          /\ send(c, <<Message("EXISTS", a.n)>>)
          /\ UNCHANGED received
      BY <1>1, <2>3, ListenerCases
    <3>2. toServer' \in [Client -> Seq(Question)]
      BY <1>4, <3>1, SendFacts
    <3> QED
      BY <1>2, <1>3, <3>1, <3>2
  <2>4. CASE a.message \in {"WATCH_TRIGGER", "EXISTS_OK", "REJECT"}
    <3>1. /\ UNCHANGED <<topicMsgMap, received>>
          /\ \/ UNCHANGED toServer
             \/ send(c, <<Message("GET_SUBSCRIPTION", topicMsgMap[c])>>)
      BY <1>1, <2>4, ListenerCases
    <3>2. toServer' \in [Client -> Seq(Question)]
      BY <1>4, <3>1, SendFacts DEF TypeOK
    <3> QED
      BY <1>3, <3>1, <3>2
  <2> QED
    BY <1>2, <2>1, <2>2, <2>3, <2>4 DEF Answer
<1>7. created' = created
  BY <1>5 DEF created
<1> QED
  BY <1>2, <1>5, <1>6, <1>7 DEF TypeOK

\* reconnect: what a client and its new server agree on keeps the types.
LEMMA ReconnectType ==
  ASSUME TypeOK, NEW c \in Client, reconnect(c)
  PROVE  TypeOK'
<1>1. Message("REESTABLISH_SESSION", 0) \in Question
  BY ConstantFacts, MessageTypes
<1>2. <<Message("REESTABLISH_SESSION", 0)>> \in Seq(Question)
  BY <1>1
<1>3. toServer' \in [Client -> Seq(Question)]
  BY <1>2 DEF reconnect, TypeOK
<1>4. connectedServer' \in [Client -> Server]
  BY DEF reconnect, TypeOK
<1>5. created' = created
  BY DEF reconnect, created, coordinator
<1> QED
  BY <1>3, <1>4, <1>5 DEF reconnect, TypeOK, coordinator, storage, watches

\* The reply to GET_SUBSCRIPTION: the messages from k on, without a gap, and
\* the number of the next one.
LEMMA GetSubscriptionFacts ==
  ASSUME TypeOK, NEW s \in Server, NEW k \in Number
  PROVE  \E N \in Nat : LET q == get_subscription(s, k) IN
           /\ q \in Seq(Answer) /\ Len(q) = N + 1 /\ k + N \in Number
           /\ \A i \in 1..N : q[i] = Message("SUBSCRIBED_MESSAGE", k + i - 1)
           /\ q[N + 1] = Message("GET_SUBSCRIPTION_OK", k + N)
<1> DEFINE m == Max({messages(s) + 1, k})
           a == [i \in 1..(m - k) |-> Message("SUBSCRIBED_MESSAGE", k + i - 1)]
           b == <<Message("GET_SUBSCRIPTION_OK", m)>>
<1>1. /\ messages(s) + 1 \in Number /\ messages(s) + 1 \in Nat /\ k \in Nat
  BY MessagesFacts, ConstantFacts
<1>2. m \in {messages(s) + 1, k} /\ m >= k
  <2> DEFINE S == {messages(s) + 1, k}
  <2>1. PICK n \in Nat : n = messages(s) + 1 + k
    BY <1>1
  <2>2. S \in SUBSET (0..n) /\ S # {} /\ k \in S
    BY <1>1, <2>1
  <2> HIDE DEF S
  <2>3. Max(S) \in S /\ Max(S) >= k
    BY <2>2, MaxFacts
  <2> QED
    BY <2>3 DEF S
<1> HIDE DEF m
<1>3. m \in Number /\ m \in Nat /\ m - k \in Nat
  BY <1>1, <1>2
<1>4. \A i \in 1..(m - k) : k + i - 1 \in Number
  BY <1>1, <1>3, ConstantFacts DEF Number
<1>5. a \in Seq(Answer) /\ Len(a) = m - k /\ \A i \in 1..(m - k) : a[i] = Message("SUBSCRIBED_MESSAGE", k + i - 1)
  <2>1. \A i \in 1..(m - k) : Message("SUBSCRIBED_MESSAGE", k + i - 1) \in Answer
    BY <1>4, MessageTypes
  <2> QED
    BY <1>3, <2>1
<1>6. b \in Seq(Answer) /\ Len(b) = 1 /\ b[1] = Message("GET_SUBSCRIPTION_OK", m)
  <2>1. Message("GET_SUBSCRIPTION_OK", m) \in Answer
    BY <1>3, MessageTypes
  <2> QED
    BY <2>1
<1>7. get_subscription(s, k) = a \o b
  BY DEF get_subscription, m
<1> HIDE DEF a, b
<1>8. /\ a \o b \in Seq(Answer) /\ Len(a \o b) = Len(a) + Len(b)
      /\ \A i \in 1..(Len(a) + Len(b)) : (a \o b)[i] = IF i <= Len(a) THEN a[i] ELSE b[i - Len(a)]
  BY <1>5, <1>6, ConcatProperties
<1> DEFINE N == m - k
<1>9. k + N = m /\ N \in Nat /\ Len(a \o b) = N + 1 /\ k + N \in Number
  BY <1>1, <1>3, <1>5, <1>6, <1>8
<1>10. \A i \in 1..N : (a \o b)[i] = Message("SUBSCRIBED_MESSAGE", k + i - 1)
  BY <1>3, <1>5, <1>6, <1>8
<1>11. (a \o b)[N + 1] = Message("GET_SUBSCRIPTION_OK", k + N)
  <2>1. N + 1 \in 1..(Len(a) + Len(b)) /\ ~(N + 1 <= Len(a)) /\ N + 1 - Len(a) = 1
    BY <1>3, <1>5, <1>6
  <2> QED
    BY <1>6, <1>8, <1>9, <2>1
<1> HIDE DEF N
<1> QED
  BY <1>7, <1>8, <1>9, <1>10, <1>11

\* What a client that comes from another server brings about.
LEMMA UpdateFacts ==
  ASSUME TypeOK, NEW s \in Server, NEW c \in Client, Update_watch_cache(s, c)
  PROVE  /\ watchcache' \in [Server -> [Path -> Seq(Client)]]
         /\ \/ UNCHANGED <<requests, toClient>>
            \/ /\ \E r \in Request : r.message = "none" /\ requests' = Append(requests, r)
               /\ \E w \in Seq(Answer) :
                    /\ \A i \in DOMAIN w : w[i].message = "WATCH_TRIGGER"
                    /\ toClient' = [toClient EXCEPT ![c] = @ \o w]
<1> DEFINE d     == session(s, c)
           fresh == {i \in DOMAIN d.Watchlist : version(s, d.Watchlist[i]) = d.Versionlist[i]}
           kept  == pick(d.Watchlist, fresh)
           fired == pick(d.Watchlist, DOMAIN d.Watchlist \ fresh)
           added(n) == [k \in 1..Cardinality({j \in DOMAIN kept : kept[j] = n}) |-> c]
           u     == [d EXCEPT !.Watchlist = kept]
           r     == request(s, "setdata", <<znode(c, u)>>, "none", c, 1)
           w     == [k \in DOMAIN fired |-> Message("WATCH_TRIGGER", fired[k])]
<1>1. /\ watchcache' = [watchcache EXCEPT ![s] = [n \in Path |-> @[n] \o added(n)]]
      /\ IF kept = << >> THEN UNCHANGED <<requests, toClient>>
         ELSE /\ requests' = Append(requests, r)
              /\ toClient' = [toClient EXCEPT ![c] = @ \o w]
  BY DEF Update_watch_cache
<1>2. d \in Session
  BY SessionFacts
<1> HIDE DEF d
<1>3. /\ d \in [Version : Nat, Watchlist : Seq(Path), Versionlist : Seq({0, 1})]
      /\ d.Watchlist \in Seq(Path) /\ Len(d.Watchlist) \in Nat
      /\ d.Versionlist \in Seq({0, 1}) /\ Len(d.Versionlist) \in Nat
      /\ Len(d.Watchlist) <= Len(d.Versionlist)
      /\ DOMAIN d.Watchlist = 1..Len(d.Watchlist)
  BY <1>2, SessionParts, LenProperties
<1>4. fresh \in SUBSET (1..Len(d.Watchlist)) /\ DOMAIN d.Watchlist \ fresh \in SUBSET (1..Len(d.Watchlist))
  BY <1>3
<1>5. Cardinality(fresh) <= Len(d.Watchlist)
  <2> HIDE DEF fresh
  <2>1. PICK n \in Nat : n = Len(d.Watchlist)
    BY <1>3
  <2>2. IsFiniteSet(1..n) /\ Cardinality(1..n) = n
    BY <2>1, CountOfInterval
  <2>3. fresh \in SUBSET (1..n)
    BY <1>4, <2>1
  <2>4. Cardinality(fresh) <= Cardinality(1..n)
    BY <2>2, <2>3, FS_Subset
  <2> QED
    BY <2>1, <2>2, <2>4
<1>6. kept \in Seq(Path) /\ Cardinality(fresh) \in Nat /\ DOMAIN kept = 1..Cardinality(fresh)
  <2> HIDE DEF fresh
  <2> QED
    BY <1>3, <1>4, PickFacts
<1>7. \E n \in Nat : DOMAIN fired = 1..n /\ fired \in Seq(Path)
  <2>1. PICK I : I = DOMAIN d.Watchlist \ fresh
    OBVIOUS
  <2> HIDE DEF fresh
  <2>2. /\ pick(d.Watchlist, I) \in Seq(Path) /\ Cardinality(I) \in Nat
        /\ DOMAIN pick(d.Watchlist, I) = 1..Cardinality(I)
    BY <1>3, <1>4, <2>1, PickFacts
  <2> QED
    BY <2>1, <2>2
<1> HIDE DEF fresh, kept, fired
<1>8. Len(kept) = Cardinality(fresh)
  BY <1>6, LenProperties
<1>9. u \in Session
  <2>1. u \in [Version : Nat, Watchlist : Seq(Path), Versionlist : Seq({0, 1})]
    BY <1>3, <1>6
  <2>2. u.Watchlist = kept /\ u.Versionlist = d.Versionlist
    BY <1>3
  <2>3. Len(kept) <= Len(d.Versionlist)
    BY <1>3, <1>5, <1>6, <1>8
  <2> HIDE DEF u
  <2> QED
    BY <2>1, <2>2, <2>3 DEF Session
<1>10. r \in Request /\ r.message = "none"
  <2>1. <<znode(c, u)>> \in Seq(Znode)
    BY <1>9, OneZnode
  <2>2. 1 \in Path
    BY ConstantFacts
  <2>3. PICK z \in Seq(Znode) : z = <<znode(c, u)>>
    BY <2>1
  <2> HIDE DEF u
  <2>4. /\ request(s, "setdata", z, "none", c, 1) \in Request
        /\ request(s, "setdata", z, "none", c, 1).message = "none"
    BY <2>2, RequestType
  <2> QED
    BY <2>3, <2>4
<1>11. w \in Seq(Answer) /\ \A i \in DOMAIN w : w[i].message = "WATCH_TRIGGER"
  <2>1. PICK n \in Nat : DOMAIN fired = 1..n /\ fired \in Seq(Path)
    BY <1>7
  <2>2. \A k \in 1..n : fired[k] \in Path
    BY <2>1, ElementOfSeq, LenProperties
  <2>3. \A k \in 1..n : Message("WATCH_TRIGGER", fired[k]) \in Answer
    BY <2>2, ConstantFacts, MessageTypes
  <2> QED
    BY <2>1, <2>3 DEF Message
<1>12. \A n \in Path : added(n) \in Seq(Client)
  <2> SUFFICES ASSUME NEW n \in Path PROVE added(n) \in Seq(Client)
    OBVIOUS
  <2> DEFINE J == {j \in DOMAIN kept : kept[j] = n}
  <2>1. IsFiniteSet(DOMAIN kept)
    BY <1>6, FS_Interval
  <2>2. IsFiniteSet(J)
    BY <2>1, FS_Subset
  <2>3. Cardinality(J) \in Nat
    BY <2>2, FS_CardinalityType
  <2>4. added(n) = [k \in 1..Cardinality(J) |-> c]
    OBVIOUS
  <2> HIDE DEF J, added
  <2> QED
    BY <2>3, <2>4
<1>13. watchcache' \in [Server -> [Path -> Seq(Client)]]
  <2> HIDE DEF added
  <2>1. /\ watchcache \in [Server -> [Path -> Seq(Client)]]
        /\ \A n \in Path : watchcache[s][n] \in Seq(Client)
    BY DEF TypeOK
  <2>2. \A n \in Path : watchcache[s][n] \o added(n) \in Seq(Client)
    BY <1>12, <2>1, ConcatProperties
  <2>3. [n \in Path |-> watchcache[s][n] \o added(n)] \in [Path -> Seq(Client)]
    BY <2>2
  <2> QED
    BY <1>1, <2>1, <2>3
<1> HIDE DEF r, w
<1> QED
  BY <1>1, <1>10, <1>11, <1>13

\* What a client sent is taken up by its server.
LEMMA MainFacts ==
  ASSUME TypeOK, NEW c \in Client, mainListener(c)
  PROVE  /\ connectedServer[c] \in Server /\ connectedServer[c] \in up
         /\ handling[connectedServer[c]] = Idle
         /\ toServer[c] \in Seq(Question) /\ Len(toServer[c]) \in Nat
         /\ DOMAIN toServer[c] = 1..Len(toServer[c]) /\ 1 \in DOMAIN toServer[c]
         /\ Head(toServer[c]) = toServer[c][1] /\ Head(toServer[c]) \in Question
         /\ toServer' = [toServer EXCEPT ![c] = Tail(toServer[c])]
         /\ toServer' \in [Client -> Seq(Question)]
         /\ DOMAIN Tail(toServer[c]) = 1..(Len(toServer[c]) - 1)
         /\ \A i \in 1..(Len(toServer[c]) - 1) : Tail(toServer[c])[i] = toServer[c][i + 1]
         /\ UNCHANGED <<scenario, up, cache, log, applied, checking, denied, connectedServer,
                        topicMsgMap, received>>
<1>1. toServer[c] \in Seq(Question) /\ toServer \in [Client -> Seq(Question)]
  BY DEF TypeOK
<1>2. toServer[c] # << >> /\ toServer' = [toServer EXCEPT ![c] = Tail(toServer[c])]
  BY DEF mainListener
<1>3. /\ Len(toServer[c]) \in Nat /\ Len(toServer[c]) >= 1
      /\ Head(toServer[c]) = toServer[c][1] /\ Head(toServer[c]) \in Question
      /\ Tail(toServer[c]) \in Seq(Question) /\ Len(Tail(toServer[c])) = Len(toServer[c]) - 1
      /\ \A i \in 1..(Len(toServer[c]) - 1) : Tail(toServer[c])[i] = toServer[c][i + 1]
  BY <1>1, <1>2, HeadFacts
<1>4. DOMAIN toServer[c] = 1..Len(toServer[c]) /\ DOMAIN Tail(toServer[c]) = 1..Len(Tail(toServer[c]))
  BY <1>1, <1>3, LenProperties
<1>5. connectedServer[c] \in Server
  BY DEF TypeOK
<1>6. /\ connectedServer[c] \in up /\ handling[connectedServer[c]] = Idle
      /\ UNCHANGED <<scenario, up, cache, log, applied, checking, denied, connectedServer,
                     topicMsgMap, received>>
  BY DEF mainListener, storage, client
<1> QED
  BY <1>1, <1>2, <1>3, <1>4, <1>5, <1>6

\* The handler that a question starts.
LEMMA HandlerStarted ==
  ASSUME TypeOK, NEW s \in Server, NEW c \in Client, NEW m \in {"SUBSCRIBE", "EXISTS"},
         NEW n \in Path, NEW e \in BOOLEAN
  PROVE  [message |-> m, client |-> c, path |-> n, exists |-> e, data |-> << >>] \in Handler
<1>1. << >> \in Seq(Session)
  OBVIOUS
<1> QED
  BY <1>1 DEF Handler

\* mainListener: the handler it starts, the request it proposes or the answer
\* it gives keeps the types.
LEMMA MainType ==
  ASSUME TypeOK, NEW c \in Client, mainListener(c), GapInv(c)
  PROVE  TypeOK'
<1>1. PICK s : s = connectedServer[c]
  OBVIOUS
<1>2. PICK m : m = Head(toServer[c])
  OBVIOUS
<1>3. /\ s \in Server /\ m \in Question /\ toServer' \in [Client -> Seq(Question)]
      /\ m = toServer[c][1] /\ 1 \in DOMAIN toServer[c]
      /\ UNCHANGED <<scenario, up, cache, log, applied, checking, denied, connectedServer,
                     topicMsgMap, received>>
  BY <1>1, <1>2, MainFacts
<1>4. /\ handling \in [Server -> Handler \cup {Idle}] /\ watchcache \in [Server -> [Path -> Seq(Client)]]
      /\ requests \in Seq(Request) /\ toClient \in [Client -> Seq(Answer)]
  BY DEF TypeOK
<1>5. /\ handling' \in [Server -> Handler \cup {Idle}] /\ watchcache' \in [Server -> [Path -> Seq(Client)]]
      /\ requests' \in Seq(Request) /\ toClient' \in [Client -> Seq(Answer)]
  <2>1. CASE m.message = "SUBSCRIBE"
    <3>1. handling' = [handling EXCEPT ![s] = [message |-> "SUBSCRIBE", client |-> c,
                         path |-> messages(s) + 1, exists |-> FALSE, data |-> << >>]]
          /\ UNCHANGED <<watchcache, requests, toClient>>
      BY <1>1, <1>2, <2>1 DEF mainListener
    <3>2. messages(s) + 1 \in Path
      BY <1>3, MessagesFacts
    <3>3. [message |-> "SUBSCRIBE", client |-> c, path |-> messages(s) + 1, exists |-> FALSE,
           data |-> << >>] \in Handler
      BY <1>3, <3>2, HandlerStarted
    <3> QED
      BY <1>4, <3>1, <3>3
  <2>2. CASE m.message = "EXISTS"
    <3>1. handling' = [handling EXCEPT ![s] = [message |-> "EXISTS", client |-> c,
                         path |-> m.n, exists |-> m.n <= messages(s), data |-> << >>]]
          /\ UNCHANGED <<watchcache, requests, toClient>>
      BY <1>1, <1>2, <2>2 DEF mainListener
    <3>2. m.n >= 1
      BY <1>3, <2>2 DEF GapInv, questionsOK
    <3>3. m.n \in Path
      BY <1>3, <3>2, ConstantFacts DEF Question, Number, Path
    <3>4. (m.n <= messages(s)) \in BOOLEAN
      OBVIOUS
    <3>5. [message |-> "EXISTS", client |-> c, path |-> m.n, exists |-> m.n <= messages(s),
           data |-> << >>] \in Handler
      BY <1>3, <3>3, <3>4, HandlerStarted
    <3> QED
      BY <1>4, <3>1, <3>5
  <2>3. CASE m.message = "GET_SUBSCRIPTION"
    <3>1. /\ toClient' = [toClient EXCEPT ![c] = @ \o get_subscription(s, m.n)]
          /\ UNCHANGED <<watchcache, handling, requests>>
      BY <1>1, <1>2, <2>3 DEF mainListener
    <3>2. m.n \in Number
      BY <1>3 DEF Question
    <3>3. get_subscription(s, m.n) \in Seq(Answer)
      BY <1>3, <3>2, GetSubscriptionFacts
    <3>4. toClient[c] \o get_subscription(s, m.n) \in Seq(Answer)
      BY <1>4, <3>3, ConcatProperties
    <3> QED
      BY <1>4, <3>1, <3>4
  <2>4. CASE m.message = "REESTABLISH_SESSION"
    <3>1. Update_watch_cache(s, c) /\ UNCHANGED handling
      BY <1>1, <1>2, <2>4 DEF mainListener
    <3>2. watchcache' \in [Server -> [Path -> Seq(Client)]]
      BY <1>3, <3>1, UpdateFacts
    <3>3. CASE UNCHANGED <<requests, toClient>>
      BY <1>4, <3>1, <3>2, <3>3
    <3>4. CASE ~UNCHANGED <<requests, toClient>>
      <4>1. PICK r \in Request, w \in Seq(Answer) :
              /\ requests' = Append(requests, r)
              /\ toClient' = [toClient EXCEPT ![c] = @ \o w]
        BY <1>3, <3>1, <3>4, UpdateFacts
      <4>2. Append(requests, r) \in Seq(Request)
        BY <1>4, AppendFacts
      <4>3. toClient[c] \o w \in Seq(Answer)
        BY <1>4, ConcatProperties
      <4> QED
        BY <1>4, <3>1, <3>2, <4>1, <4>2, <4>3
    <3> QED
      BY SMTT(60), <3>3, <3>4
  <2> QED
    BY <1>3, <2>1, <2>2, <2>3, <2>4 DEF Question
<1>6. created' = created
  BY <1>3 DEF created
<1> QED
  BY <1>3, <1>5, <1>6 DEF TypeOK

\* Reading a session leaves the state of its server well-typed.
LEMMA EncodeType ==
  ASSUME TypeOK, NEW s \in Server, Encode_watch(s)
  PROVE  TypeOK'
<1>1. PICK h : h = handling[s]
  OBVIOUS
<1>2. h \in Handler /\ h.client \in Client /\ h.path \in Path
  BY <1>1, HandlerFacts DEF Encode_watch
<1>3. PICK d \in Session : d = withWatch(s, h.client, h.path)
  BY <1>2, WithWatchFacts
<1>4. <<d>> \in Seq(Session)
  BY <1>3
<1>5. [h EXCEPT !.data = <<d>>] \in Handler
  BY <1>2, <1>4 DEF Handler
<1>6. handling' = [handling EXCEPT ![s] = [h EXCEPT !.data = <<d>>]]
  BY <1>1, <1>3 DEF Encode_watch
<1>7. handling' \in [Server -> Handler \cup {Idle}]
  BY <1>5, <1>6 DEF TypeOK
<1>8. created' = created
  BY DEF Encode_watch, created, coordinator
<1> QED
  BY <1>7, <1>8 DEF Encode_watch, TypeOK, coordinator, storage, client

\* What setting a watch sends: a request, and for EXISTS an answer.
LEMMA AddWatchFacts ==
  ASSUME TypeOK, NEW s \in Server, NEW h, h = handling[s], addWatch(s)
  PROVE  /\ h \in Handler /\ h.client \in Client /\ h.path \in Path
         /\ \E r \in Request : /\ requests' = Append(requests, r)
                               /\ r.message = h.message /\ r.client = h.client
         /\ \/ h.message = "SUBSCRIBE" /\ UNCHANGED toClient
            \/ /\ h.message = "EXISTS"
               /\ \E a \in Answer : /\ a.message = "EXISTS_OK"
                                    /\ toClient' = [toClient EXCEPT ![h.client] = Append(@, a)]
<1>1. /\ h \in Handler /\ h.client \in Client /\ h.path \in Path /\ h.data \in Seq(Session)
      /\ h.message \in {"SUBSCRIBE", "EXISTS"}
  BY HandlerFacts DEF addWatch
<1>2. h.data # << >>
  BY DEF addWatch
<1>3. h.data[1] \in Session
  BY <1>1, <1>2, HeadFacts
<1>4. PICK z \in Seq(Znode) : z = <<znode(h.client, h.data[1])>>
  BY <1>1, <1>3, OneZnode
<1>5. PICK r : r = request(s, "setdata", z, h.message, h.client, h.path)
  OBVIOUS
<1>6. r \in Request /\ r.message = h.message /\ r.client = h.client
  <2>1. h.message \in {"none", "SUBSCRIBE", "EXISTS"}
    BY <1>1
  <2>2. PICK m \in {"none", "SUBSCRIBE", "EXISTS"}, c \in Client, n \in Path :
          m = h.message /\ c = h.client /\ n = h.path
    BY <1>1, <2>1
  <2>3. r = request(s, "setdata", z, m, c, n)
    BY <1>5, <2>2
  <2>4. r \in Request /\ r.message = m /\ r.client = c
    BY <2>3, RequestType
  <2> QED
    BY <2>2, <2>4
<1>7. requests' = Append(requests, r)
  BY <1>4, <1>5 DEF addWatch
<1>8. CASE h.message = "SUBSCRIBE"
  BY <1>1, <1>6, <1>7, <1>8 DEF addWatch
<1>9. CASE h.message = "EXISTS"
  <2>1. PICK a : a = Message("EXISTS_OK", IF h.exists THEN 1 ELSE 0)
    OBVIOUS
  <2>2. a \in Answer /\ a.message = "EXISTS_OK"
    BY <2>1, ConstantFacts, MessageTypes
  <2>3. toClient' = [toClient EXCEPT ![h.client] = Append(@, a)]
    BY <1>9, <2>1 DEF addWatch
  <2> QED
    BY <1>1, <1>6, <1>7, <1>9, <2>2, <2>3
<1> QED
  BY SMTT(60), <1>1, <1>8, <1>9

\* Setting a watch keeps the types.
LEMMA AddWatchType ==
  ASSUME TypeOK, NEW s \in Server, addWatch(s)
  PROVE  TypeOK'
<1>1. PICK h : h = handling[s]
  OBVIOUS
<1>2. h \in Handler /\ h.client \in Client /\ h.path \in Path
  BY <1>1, AddWatchFacts
<1>3. requests' \in Seq(Request)
  <2>1. PICK r \in Request : requests' = Append(requests, r)
    BY <1>1, AddWatchFacts
  <2> QED
    BY <2>1, AppendFacts DEF TypeOK
<1>4. toClient' \in [Client -> Seq(Answer)]
  <2>1. CASE UNCHANGED toClient
    BY <2>1 DEF TypeOK
  <2>2. CASE ~UNCHANGED toClient
    <3>1. PICK a \in Answer : toClient' = [toClient EXCEPT ![h.client] = Append(@, a)]
      BY <1>1, <2>2, AddWatchFacts
    <3>2. toClient[h.client] \in Seq(Answer) /\ toClient \in [Client -> Seq(Answer)]
      BY <1>2 DEF TypeOK
    <3>3. Append(toClient[h.client], a) \in Seq(Answer)
      BY <3>2, AppendFacts
    <3> QED
      BY <3>1, <3>2, <3>3
  <2> QED
    BY <2>1, <2>2
<1>5. watchcache' \in [Server -> [Path -> Seq(Client)]]
  <2>1. watchcache \in [Server -> [Path -> Seq(Client)]] /\ watchcache[s][h.path] \in Seq(Client)
    BY SMTT(60), <1>2 DEF TypeOK
  <2>2. Append(watchcache[s][h.path], h.client) \in Seq(Client)
    BY <1>2, <2>1, AppendFacts
  <2>3. watchcache' = [watchcache EXCEPT ![s] = [watchcache[s] EXCEPT ![h.path] =
                         Append(watchcache[s][h.path], h.client)]]
    BY <1>1 DEF addWatch
  <2> QED
    BY <2>1, <2>2, <2>3
<1>6. handling' \in [Server -> Handler \cup {Idle}]
  BY DEF addWatch, TypeOK
<1>7. created' = created
  BY DEF addWatch, created
<1> QED
  BY <1>3, <1>4, <1>5, <1>6, <1>7 DEF addWatch, TypeOK, storage, client

\* Writing the next request keeps the types.
LEMMA WriteType ==
  ASSUME TypeOK, NEW s \in Server, Write(s)
  PROVE  TypeOK'
<1>1. applied[s] \in Nat /\ applied[s] < Len(log) /\ Len(log) \in Nat
  BY LenProperties DEF TypeOK, Write
<1>2. applied' = [applied EXCEPT ![s] = applied[s] + 1] /\ checking' = checking \cup {s} /\ s \in up
  BY DEF Write
<1>3. /\ applied' \in [Server -> Nat] /\ \A t \in Server : applied'[t] <= Len(log)
      /\ checking' \subseteq up /\ \A t \in checking' : applied'[t] >= 1
  BY <1>1, <1>2 DEF TypeOK
<1>4. created' = created
  BY DEF Write, created, coordinator
<1> QED
  BY <1>3, <1>4 DEF Write, TypeOK, coordinator, watches, client

\* Client c is told, after w, that the request that s has written is its
\* subscription.
toldSubscribed(s, c, w) ==
  LET e == log[applied[s]] IN
  /\ e.message = "SUBSCRIBE" /\ e.origin = s /\ e.client = c
  /\ \E a \in Answer : /\ a.message = "SUBSCRIBE_OK" /\ a.n >= 1
                       /\ toClient'[c] = Append(toClient[c] \o w, a)

\* What a server tells a client when it has checked the watches: that watches
\* were triggered, and, once, that it is subscribed.
LEMMA CheckFacts ==
  ASSUME TypeOK, NEW s \in Server, Check_watch(s)
  PROVE  /\ applied[s] \in 1..Len(log)
         /\ \/ UNCHANGED requests
            \/ \E r \in Request : r.message = "none" /\ requests' = Append(requests, r)
         /\ toClient' \in [Client -> Seq(Answer)]
         /\ \A c \in Client : \E w \in Seq(Answer) :
              /\ \A i \in DOMAIN w : w[i].message = "WATCH_TRIGGER"
              /\ \/ toClient'[c] = toClient[c] \o w
                 \/ toldSubscribed(s, c, w)
<1> DEFINE e  == log[applied[s]]
           n  == messages(s)
           cs == triggered(s)
           at(c) == {i \in DOMAIN cs : cs[i] = c}
           I(c)  == IF connectedServer[c] = s THEN at(c) ELSE {}
           w(c)  == [i \in 1..Cardinality(I(c)) |-> Message("WATCH_TRIGGER", n)]
           own(c) == e.message = "SUBSCRIBE" /\ e.origin = s /\ e.client = c
           v(c)  == IF own(c) THEN <<Message("SUBSCRIBE_OK", n + 1)>> ELSE << >>
           z     == [i \in DOMAIN cs |-> znode(cs[i], withoutWatch(s, cs[i], n))]
<1>1. /\ applied[s] \in Nat /\ applied[s] >= 1 /\ applied[s] <= Len(log) /\ Len(log) \in Nat
      /\ s \in checking
  BY LenProperties DEF TypeOK, Check_watch
<1>2. e.type = "create" => n \in Path
  BY <1>1, MessagesFacts
<1>3. n \in Number /\ n + 1 \in Number /\ n \in Nat
  BY MessagesFacts, ConstantFacts DEF Number
<1>4. cs \in Seq(Client) /\ (cs # << >> => e.type = "create")
  <2>1. CASE e.type = "create"
    <3>1. watchcache[s][n] \in Seq(Client)
      BY <1>2, <2>1 DEF TypeOK
    <3> QED
      BY <2>1, <3>1 DEF triggered
  <2>2. CASE e.type # "create"
    BY <2>2 DEF triggered
  <2> QED
    BY <2>1, <2>2
<1>5. /\ requests' = IF cs = << >> THEN requests
                     ELSE Append(requests, request(s, "watch_trigger", z, "none", cs[1], n))
      /\ toClient' = [c \in Client |-> toClient[c] \o w(c) \o v(c)]
  BY DEF Check_watch
<1> HIDE DEF e, n, cs
<1>6. Len(cs) \in Nat /\ DOMAIN cs = 1..Len(cs) /\ \A i \in 1..Len(cs) : cs[i] \in Client
  BY <1>4, ElementOfSeq, LenProperties
<1>7. ASSUME cs # << >>
      PROVE  \E r \in Request : r.message = "none" /\ requests' = Append(requests, r)
  <2>1. \A i \in 1..Len(cs) : znode(cs[i], withoutWatch(s, cs[i], n)) \in Znode
    BY <1>6, WithoutWatchFacts, OneZnode
  <2>2. z \in Seq(Znode)
    BY <1>6, <2>1
  <2>3. cs[1] \in Client
    BY <1>4, <1>7, HeadFacts
  <2> HIDE DEF z
  <2>4. PICK y \in Seq(Znode), d \in Client, p \in Path : y = z /\ d = cs[1] /\ p = n
    BY <1>2, <1>4, <1>7, <2>2, <2>3
  <2>5. /\ request(s, "watch_trigger", y, "none", d, p) \in Request
        /\ request(s, "watch_trigger", y, "none", d, p).message = "none"
    BY RequestType
  <2> QED
    BY <1>5, <1>7, <2>4, <2>5
<1>8. \/ UNCHANGED requests
      \/ \E r \in Request : r.message = "none" /\ requests' = Append(requests, r)
  BY <1>5, <1>7
<1>9. \A c \in Client : w(c) \in Seq(Answer) /\ \A i \in DOMAIN w(c) : w(c)[i].message = "WATCH_TRIGGER"
  <2> SUFFICES ASSUME NEW c \in Client
               PROVE  w(c) \in Seq(Answer) /\ \A i \in DOMAIN w(c) : w(c)[i].message = "WATCH_TRIGGER"
    OBVIOUS
  <2>1. IsFiniteSet(1..Len(cs)) /\ I(c) \in SUBSET (1..Len(cs))
    BY <1>6, CountOfInterval
  <2> HIDE DEF I
  <2>2. IsFiniteSet(I(c))
    BY <2>1, FS_Subset
  <2>3. PICK k \in Nat : k = Cardinality(I(c))
    BY <2>2, FS_CardinalityType
  <2>4. PICK m \in Answer : m = Message("WATCH_TRIGGER", n) /\ m.message = "WATCH_TRIGGER"
    BY <1>3, MessageTypes
  <2>5. w(c) = [i \in 1..k |-> m]
    BY <2>3, <2>4
  <2> HIDE DEF w
  <2> QED
    BY <2>4, <2>5
<1>10. \A c \in Client : /\ own(c) => \E a \in Answer : /\ a.message = "SUBSCRIBE_OK" /\ a.n >= 1
                                                        /\ v(c) = <<a>>
                         /\ ~own(c) => v(c) = << >>
  <2>1. /\ Message("SUBSCRIBE_OK", n + 1) \in Answer
        /\ Message("SUBSCRIBE_OK", n + 1).message = "SUBSCRIBE_OK"
        /\ Message("SUBSCRIBE_OK", n + 1).n = n + 1 /\ n + 1 >= 1
    BY <1>3, MessageTypes
  <2> QED
    BY <2>1
<1> HIDE DEF w, v, own
<1>11. ASSUME NEW c \in Client
       PROVE  /\ toClient'[c] \in Seq(Answer)
              /\ \/ toClient'[c] = toClient[c] \o w(c)
                 \/ /\ own(c)
                    /\ \E a \in Answer : /\ a.message = "SUBSCRIBE_OK" /\ a.n >= 1
                                         /\ toClient'[c] = Append(toClient[c] \o w(c), a)
  <2>1. toClient[c] \in Seq(Answer) /\ toClient'[c] = toClient[c] \o w(c) \o v(c)
    BY <1>5 DEF TypeOK
  <2>2. PICK q \in Seq(Answer) : q = toClient[c] \o w(c)
    BY <1>9, <2>1, ConcatProperties
  <2>3. toClient'[c] = q \o v(c)
    BY <2>1, <2>2
  <2>4. CASE own(c)
    <3>1. PICK a \in Answer : a.message = "SUBSCRIBE_OK" /\ a.n >= 1 /\ v(c) = <<a>>
      BY <1>10, <2>4
    <3>2. q \o <<a>> = Append(q, a) /\ Append(q, a) \in Seq(Answer)
      BY AppendIsConcat, AppendFacts
    <3>3. toClient'[c] = Append(q, a)
      BY <2>3, <3>1, <3>2
    <3> QED
      BY <2>2, <2>4, <3>1, <3>2, <3>3
  <2>5. CASE ~own(c)
    <3>1. toClient'[c] = q \o << >>
      BY <1>10, <2>3, <2>5
    <3>2. q \o << >> = q
      BY ConcatEmptySeq
    <3> QED
      BY <2>2, <3>1, <3>2
  <2> QED
    BY <2>4, <2>5
<1>12. toClient' \in [Client -> Seq(Answer)]
  <2>1. \A c \in Client : toClient'[c] \in Seq(Answer)
    BY <1>11
  <2>2. DOMAIN toClient' = Client /\ toClient' = [c \in Client |-> toClient'[c]]
    BY <1>5
  <2> QED
    BY <2>1, <2>2
<1>13. applied[s] \in 1..Len(log)
  BY <1>1
<1>14. \A c \in Client : own(c) <=> /\ log[applied[s]].message = "SUBSCRIBE"
                                  /\ log[applied[s]].origin = s /\ log[applied[s]].client = c
  BY DEF own, e
<1>15. ASSUME NEW c \in Client
       PROVE  \E u \in Seq(Answer) :
                /\ \A i \in DOMAIN u : u[i].message = "WATCH_TRIGGER"
                /\ \/ toClient'[c] = toClient[c] \o u
                   \/ toldSubscribed(s, c, u)
  <2>1. CASE toClient'[c] = toClient[c] \o w(c)
    BY <1>9, <2>1
  <2>2. CASE ~(toClient'[c] = toClient[c] \o w(c))
    BY ZenonT(60), <1>9, <1>11, <1>14, <2>2 DEF toldSubscribed
  <2> QED
    BY <2>1, <2>2
<1> QED
  BY <1>8, <1>12, <1>13, <1>15

\* Checking the watches keeps the types.
LEMMA CheckType ==
  ASSUME TypeOK, NEW s \in Server, Check_watch(s)
  PROVE  TypeOK'
<1>1. requests' \in Seq(Request) /\ toClient' \in [Client -> Seq(Answer)]
  <2>1. CASE UNCHANGED requests
    BY <2>1, CheckFacts DEF TypeOK
  <2>2. CASE ~UNCHANGED requests
    <3>1. PICK r \in Request : requests' = Append(requests, r)
      BY <2>2, CheckFacts
    <3> QED
      BY <3>1, CheckFacts, AppendFacts DEF TypeOK
  <2> QED
    BY <2>1, <2>2
<1>2. watchcache' \in [Server -> [Path -> Seq(Client)]]
  <2>1. << >> \in Seq(Client) /\ watchcache \in [Server -> [Path -> Seq(Client)]]
    BY DEF TypeOK
  <2>2. PICK n : n = messages(s)
    OBVIOUS
  <2>3. \/ watchcache' = watchcache
        \/ watchcache' = [watchcache EXCEPT ![s] = [watchcache[s] EXCEPT ![n] = << >>]]
    BY <2>2 DEF Check_watch
  <2>4. [watchcache[s] EXCEPT ![n] = << >>] \in [Path -> Seq(Client)]
    BY <2>1
  <2> QED
    BY <2>1, <2>3, <2>4
<1>3. checking' = checking \ {s}
  BY DEF Check_watch
<1>4. created' = created
  BY DEF Check_watch, created
<1> QED
  BY <1>1, <1>2, <1>3, <1>4 DEF Check_watch, TypeOK, client

\* What a server does about a denial: it may try again to set a watch of
\* EXISTS, and tells a client that its SUBSCRIBE was denied.
LEMMA DeniedFacts ==
  ASSUME TypeOK, NEW s \in Server, deniedListener(s)
  PROVE  /\ denied' \in [Server -> Seq(Request)]
         /\ \/ UNCHANGED requests
            \/ \E r \in Request : r.message = "EXISTS" /\ requests' = Append(requests, r)
         /\ \/ UNCHANGED toClient
            \/ \E a \in Answer, c \in Client :
                 a.message = "REJECT" /\ toClient' = [toClient EXCEPT ![c] = Append(@, a)]
<1>1. PICK r : r = Head(denied[s])
  OBVIOUS
<1>2. denied \in [Server -> Seq(Request)] /\ denied[s] \in Seq(Request)
  BY DEF TypeOK
<1>3. /\ denied[s] # << >> /\ denied' = [denied EXCEPT ![s] = Tail(@)]
      /\ requests' = IF r.message = "EXISTS" /\ r.client \in Range(watchcache[s][r.path])
                     THEN Append(requests, [r EXCEPT !.znodes =
                            <<znode(r.client, retried(s, r))>>])
                     ELSE requests
      /\ toClient' = IF r.message = "SUBSCRIBE"
                     THEN [toClient EXCEPT ![r.client] = Append(@, Message("REJECT", 0))]
                     ELSE toClient
  BY <1>1 DEF deniedListener
<1>4. r \in Request /\ Tail(denied[s]) \in Seq(Request)
  BY <1>1, <1>2, <1>3, HeadFacts
<1>5. r.client \in Client /\ r.path \in Path
  BY <1>4 DEF Request
<1>6. PICK z \in Seq(Znode) : z = <<znode(r.client, retried(s, r))>>
  <2>1. retried(s, r) \in Session
    BY <1>5, WithWatchFacts DEF retried
  <2> QED
    BY <1>5, <2>1, OneZnode
<1>7. [r EXCEPT !.znodes = z] \in Request /\ [r EXCEPT !.znodes = z].message = r.message
  BY <1>4 DEF Request
<1>8. \/ UNCHANGED requests
      \/ \E x \in Request : x.message = "EXISTS" /\ requests' = Append(requests, x)
  BY <1>3, <1>6, <1>7
<1>9. \/ UNCHANGED toClient
      \/ \E a \in Answer, c \in Client :
           a.message = "REJECT" /\ toClient' = [toClient EXCEPT ![c] = Append(@, a)]
  <2>1. Message("REJECT", 0) \in Answer /\ Message("REJECT", 0).message = "REJECT"
    BY ConstantFacts, MessageTypes
  <2> QED
    BY <1>3, <1>5, <2>1
<1>10. denied' \in [Server -> Seq(Request)]
  BY <1>2, <1>3, <1>4
<1> QED
  BY <1>8, <1>9, <1>10

\* Dealing with a denial keeps the types.
LEMMA DeniedType ==
  ASSUME TypeOK, NEW s \in Server, deniedListener(s)
  PROVE  TypeOK'
<1>1. requests' \in Seq(Request)
  <2>1. CASE UNCHANGED requests
    BY <2>1 DEF TypeOK
  <2>2. CASE ~UNCHANGED requests
    <3>1. PICK r \in Request : requests' = Append(requests, r)
      BY <2>2, DeniedFacts
    <3> QED
      BY <3>1, AppendFacts DEF TypeOK
  <2> QED
    BY <2>1, <2>2
<1>2. toClient' \in [Client -> Seq(Answer)]
  <2>1. CASE UNCHANGED toClient
    BY <2>1 DEF TypeOK
  <2>2. CASE ~UNCHANGED toClient
    <3>1. PICK a \in Answer, c \in Client : toClient' = [toClient EXCEPT ![c] = Append(@, a)]
      BY <2>2, DeniedFacts
    <3>2. toClient[c] \in Seq(Answer) /\ toClient \in [Client -> Seq(Answer)]
      BY DEF TypeOK
    <3>3. Append(toClient[c], a) \in Seq(Answer)
      BY <3>2, AppendFacts
    <3> QED
      BY <3>1, <3>2, <3>3
  <2> QED
    BY <2>1, <2>2
<1>3. denied' \in [Server -> Seq(Request)]
  BY DeniedFacts
<1>4. created' = created
  BY DEF deniedListener, created
<1> QED
  BY <1>1, <1>2, <1>3, <1>4 DEF deniedListener, TypeOK, storage, watches, client

\* What the coordinator does about a request: it accepts it, with new versions,
\* or denies it.
LEMMA ProcessFacts ==
  ASSUME TypeOK, processRequest
  PROVE  /\ Head(requests) \in Request /\ requests # << >> /\ requests' = Tail(requests)
         /\ requests' \in Seq(Request)
         /\ cache' \in [Client -> Session]
         /\ \/ /\ UNCHANGED denied
               /\ \E e \in Request : /\ log' = Append(log, e)
                                     /\ e.message = Head(requests).message
                                     /\ e.client = Head(requests).client
            \/ UNCHANGED log /\ denied' \in [Server -> Seq(Request)]
<1> DEFINE r == Head(requests)
           A == {j \in DOMAIN r.znodes : \A i \in 1..j : check_update(r.znodes, i)}
           z == [j \in DOMAIN r.znodes |-> [r.znodes[j] EXCEPT !.data.Version = @ + 1]]
           own(c) == of(z, c) \cap A
<1>1. requests \in Seq(Request) /\ requests # << >> /\ requests' = Tail(requests)
  BY ZenonT(60) DEF TypeOK, processRequest
<1>2. r \in Request /\ requests' \in Seq(Request)
  BY SMTT(60), <1>1, HeadFacts
<1>3. /\ cache' = [c \in Client |-> IF own(c) = {} THEN cache[c] ELSE z[Max(own(c))].data]
      /\ IF A = DOMAIN r.znodes
         THEN log' = Append(log, [r EXCEPT !.znodes = z]) /\ UNCHANGED denied
         ELSE denied' = [denied EXCEPT ![r.origin] = Append(@, r)] /\ UNCHANGED log
  BY ZenonT(60) DEF processRequest
<1>12. r = Head(requests)
  OBVIOUS
<1> HIDE DEF r
<1>4. r.znodes \in Seq(Znode) /\ r.origin \in Server
  BY <1>2 DEF Request
<1>5. /\ Len(r.znodes) \in Nat /\ DOMAIN r.znodes = 1..Len(r.znodes)
      /\ \A j \in 1..Len(r.znodes) : r.znodes[j] \in Znode
  BY <1>4, ElementOfSeq, LenProperties
<1>6. ASSUME NEW x \in Znode PROVE [x EXCEPT !.data.Version = @ + 1] \in Znode
  <2>1. x.data \in Session /\ x.client \in Client
    BY DEF Znode
  <2>2. PICK d \in Session : d = x.data
    BY <2>1
  <2> DEFINE e == [d EXCEPT !.Version = @ + 1]
  <2>3. /\ d \in [Version : Nat, Watchlist : Seq(Path), Versionlist : Seq({0, 1})]
        /\ d.Version \in Nat /\ Len(d.Watchlist) <= Len(d.Versionlist)
    BY SessionParts
  <2>4. e \in [Version : Nat, Watchlist : Seq(Path), Versionlist : Seq({0, 1})]
    BY SMTT(60), <2>3
  <2>5. e.Watchlist = d.Watchlist /\ e.Versionlist = d.Versionlist
    BY <2>3
  <2>6. [x EXCEPT !.data.Version = @ + 1] = [x EXCEPT !.data = e]
    BY <2>2
  <2> HIDE DEF e
  <2>7. e \in Session
    BY <2>3, <2>4, <2>5 DEF Session
  <2> QED
    BY <2>6, <2>7 DEF Znode
<1>7. z \in Seq(Znode)
  <2>1. \A j \in 1..Len(r.znodes) : z[j] \in Znode
    BY <1>5, <1>6
  <2>2. z = [j \in 1..Len(r.znodes) |-> z[j]]
    BY <1>5
  <2> HIDE DEF z
  <2> QED
    BY <1>5, <2>1, <2>2
<1> HIDE DEF A, z
<1>8. \A c \in Client : own(c) # {} => z[Max(own(c))].data \in Session
  <2> SUFFICES ASSUME NEW c \in Client, own(c) # {}
               PROVE  z[Max(own(c))].data \in Session
    OBVIOUS
  <2>1. /\ Len(z) \in Nat /\ own(c) \in SUBSET (0..Len(z))
        /\ \A j \in own(c) : z[j].data \in Session
    BY <1>7, OfFacts
  <2> HIDE DEF own
  <2>2. Max(own(c)) \in own(c)
    BY <2>1, MaxFacts
  <2> QED
    BY <2>1, <2>2
<1>9. cache' \in [Client -> Session]
  <2> HIDE DEF own
  <2> QED
    BY <1>3, <1>8 DEF TypeOK
<1>10. CASE A = DOMAIN r.znodes
  <2> DEFINE e == [r EXCEPT !.znodes = z]
  <2>1. e \in Request /\ e.message = r.message /\ e.client = r.client
    BY <1>2, <1>7 DEF Request
  <2>2. log' = Append(log, e) /\ UNCHANGED denied
    BY <1>3, <1>10
  <2> HIDE DEF e
  <2> QED
    BY <1>1, <1>2, <1>9, <1>12, <2>1, <2>2
<1>11. CASE A # DOMAIN r.znodes
  <2>1. denied' = [denied EXCEPT ![r.origin] = Append(@, r)] /\ UNCHANGED log
    BY <1>3, <1>11
  <2>2. denied \in [Server -> Seq(Request)] /\ denied[r.origin] \in Seq(Request)
    BY <1>4 DEF TypeOK
  <2>3. Append(denied[r.origin], r) \in Seq(Request)
    BY <1>2, <2>2, AppendFacts
  <2>4. denied' \in [Server -> Seq(Request)]
    BY <2>1, <2>2, <2>3
  <2> QED
    BY <1>1, <1>2, <1>9, <1>12, <2>1, <2>4
<1> QED
  BY SMTT(60), <1>10, <1>11

\* Another entry of the log.
LEMMA LogFacts ==
  ASSUME TypeOK, NEW e \in Request \cup Publication, log' = Append(log, e)
  PROVE  /\ log' \in Seq(Request \cup Publication)
         /\ Len(log) \in Nat /\ Len(log') = Len(log) + 1
         /\ DOMAIN log = 1..Len(log) /\ DOMAIN log' = 1..(Len(log) + 1)
         /\ \A i \in 1..Len(log) : log'[i] = log[i]
         /\ log'[Len(log) + 1] = e
         /\ \A s \in Server : applied[s] <= Len(log')
<1>1. log \in Seq(Request \cup Publication)
  BY DEF TypeOK
<1>2. /\ log' \in Seq(Request \cup Publication) /\ Len(log) \in Nat /\ Len(log') = Len(log) + 1
      /\ \A i \in 1..Len(log) : log'[i] = log[i]
      /\ log'[Len(log) + 1] = e
  BY <1>1, AppendFacts
<1>3. DOMAIN log = 1..Len(log) /\ DOMAIN log' = 1..Len(log')
  BY <1>1, <1>2, LenProperties
<1>4. \A s \in Server : applied[s] \in Nat /\ applied[s] <= Len(log)
  BY SMTT(60) DEF TypeOK
<1> QED
  BY <1>2, <1>3, <1>4

\* What the coordinator does keeps the types.
LEMMA ProcessType ==
  ASSUME TypeOK, processRequest
  PROVE  TypeOK'
<1>1. requests' \in Seq(Request) /\ cache' \in [Client -> Session]
  BY ProcessFacts
<1>2. /\ log' \in Seq(Request \cup Publication) /\ created' <= MaxMessages
      /\ \A s \in Server : applied[s] <= Len(log')
      /\ denied' \in [Server -> Seq(Request)]
  <2>1. CASE UNCHANGED log /\ denied' \in [Server -> Seq(Request)]
    BY <2>1 DEF TypeOK, created
  <2>2. CASE ~(UNCHANGED log /\ denied' \in [Server -> Seq(Request)])
    <3>1. PICK e \in Request : log' = Append(log, e) /\ UNCHANGED denied
      BY <2>2, ProcessFacts
    <3>2. created' = created + 0 /\ created \in Nat
      BY <3>1, CreatedFacts
    <3> QED
      BY <3>1, <3>2, LogFacts DEF TypeOK
  <2> QED
    BY <2>1, <2>2
<1> QED
  BY ZenonT(60), <1>1, <1>2 DEF processRequest, TypeOK, storage, watches, client

\* A message adds to what is created, within the bound.
LEMMA PublishType ==
  ASSUME TypeOK, publish
  PROVE  /\ TypeOK'
         /\ \E e \in Publication : log' = Append(log, e)
<1>1. PICK e \in Publication : log' = Append(log, e)
  BY DEF publish, Publication
<1>2. e \notin Request
  BY DEF Publication, Request
<1>3. created' = created + 1 /\ created \in Nat
  BY <1>1, <1>2, CreatedFacts
<1>4. created' <= MaxMessages
  BY <1>3, ConstantFacts DEF publish
<1> QED
  BY <1>1, <1>4, LogFacts DEF publish, TypeOK, storage, watches, client

\* A crash keeps the types.
LEMMA CrashType ==
  ASSUME TypeOK, NEW s \in Server, Crash(s)
  PROVE  TypeOK'
<1>1. requests' \in Seq(Request)
  <2>1. PICK I : I = {i \in DOMAIN requests : requests[i].origin # s}
    OBVIOUS
  <2>2. requests' = requests \/ requests' = pick(requests, I)
    BY <2>1 DEF Crash
  <2>3. requests \in Seq(Request) /\ I \in SUBSET (1..Len(requests))
    BY <2>1, LenProperties DEF TypeOK
  <2> QED
    BY <2>2, <2>3, PickFacts
<1>2. /\ << >> \in Seq(Request) /\ << >> \in Seq(Client) /\ << >> \in Seq(Question)
  OBVIOUS
<1>3. /\ denied' \in [Server -> Seq(Request)]
      /\ watchcache' \in [Server -> [Path -> Seq(Client)]]
      /\ toServer' \in [Client -> Seq(Question)]
      /\ handling' \in [Server -> Handler \cup {Idle}]
  BY <1>2 DEF Crash, TypeOK
<1>4. up' = up \ {s} /\ checking' = checking \ {s}
  BY DEF Crash
<1>5. created' = created
  BY DEF Crash, created
<1> QED
  BY <1>1, <1>3, <1>4, <1>5 DEF Crash, TypeOK, client

\* Every step keeps the types.
LEMMA TypeStep ==
  ASSUME PubSubInv, [Next]_vars
  PROVE  TypeOK'
<1>1. TypeOK /\ \A c \in Client : OnceInv(c) /\ GapInv(c)
  BY DEF PubSubInv
<1>2. CASE UNCHANGED vars
  BY <1>1, <1>2 DEF vars, coordinator, storage, watches, client, TypeOK, created
<1>3. ASSUME NEW c \in Client, subscribe(c) \/ listener(c) \/ reconnect(c) \/ mainListener(c)
      PROVE  TypeOK'
  BY <1>1, <1>3, SubscribeType, ListenerType, ReconnectType, MainType
<1>4. ASSUME NEW s \in Server,
             \/ Encode_watch(s) \/ addWatch(s) \/ Write(s) \/ Check_watch(s)
             \/ deniedListener(s) \/ Crash(s)
      PROVE  TypeOK'
  BY <1>1, <1>4, EncodeType, AddWatchType, WriteType, CheckType, DeniedType, CrashType
<1>5. CASE processRequest \/ publish
  BY <1>1, <1>5, ProcessType, PublishType
<1> QED
  BY <1>2, <1>3, <1>4, <1>5 DEF Next

-----------------------------------------------------------------------------
(* Handlers *)

\* Every step leaves each handler to a running server, which its client is
\* connected to.
LEMMA HandlerStep ==
  ASSUME PubSubInv, [Next]_vars
  PROVE  HandlerInv'
<1>1. TypeOK /\ HandlerInv /\ handling \in [Server -> Handler \cup {Idle}]
  BY DEF PubSubInv, TypeOK
<1>2. CASE UNCHANGED <<handling, up, connectedServer>>
  BY <1>1, <1>2 DEF HandlerInv
<1>3. ASSUME NEW c \in Client, subscribe(c) \/ listener(c)
      PROVE  HandlerInv'
  BY <1>2, <1>3 DEF subscribe, listener, watches, client
<1>4. ASSUME NEW c \in Client, reconnect(c)
      PROVE  HandlerInv'
  <2>1. \A d \in Client \ {c} : connectedServer'[d] = connectedServer[d]
    BY <1>1, <1>4 DEF reconnect, TypeOK
  <2>2. connectedServer[c] \notin up /\ UNCHANGED <<up, handling>>
    BY <1>4 DEF reconnect, watches
  <2>3. \A s \in Server : handling[s] # Idle => handling[s].client \in Client \ {c}
    BY <1>1, <2>2, HandlerFacts DEF HandlerInv
  <2> QED
    BY <1>1, <2>1, <2>2, <2>3 DEF HandlerInv
<1>5. ASSUME NEW c \in Client, mainListener(c)
      PROVE  HandlerInv'
  <2>1. PICK s : s = connectedServer[c]
    OBVIOUS
  <2>2. s \in Server /\ s \in up /\ UNCHANGED <<up, connectedServer>>
    BY <1>1, <1>5, <2>1, MainFacts
  <2>3. \/ UNCHANGED handling
        \/ \E h : h.client = c /\ handling' = [handling EXCEPT ![s] = h]
    <3>1. PICK m : m = Head(toServer[c])
      OBVIOUS
    <3>2. CASE m.message = "SUBSCRIBE"
      <4>1. PICK h : h = [message |-> "SUBSCRIBE", client |-> c, path |-> messages(s) + 1,
                          exists |-> FALSE, data |-> << >>]
        OBVIOUS
      <4>2. handling' = [handling EXCEPT ![s] = h]
        BY <1>5, <2>1, <3>1, <3>2, <4>1 DEF mainListener
      <4> QED
        BY <4>1, <4>2
    <3>3. CASE m.message = "EXISTS"
      <4>1. PICK h : h = [message |-> "EXISTS", client |-> c, path |-> m.n,
                          exists |-> m.n <= messages(s), data |-> << >>]
        OBVIOUS
      <4>2. handling' = [handling EXCEPT ![s] = h]
        BY <1>5, <2>1, <3>1, <3>3, <4>1 DEF mainListener
      <4> QED
        BY <4>1, <4>2
    <3>4. CASE m.message \notin {"SUBSCRIBE", "EXISTS"}
      BY <1>5, <3>1, <3>4 DEF mainListener
    <3> QED
      BY <3>2, <3>3, <3>4
  <2> QED
    BY <1>1, <2>1, <2>2, <2>3 DEF HandlerInv
<1>6. ASSUME NEW s \in Server, Encode_watch(s)
      PROVE  HandlerInv'
  <2>1. PICK h : h = handling[s]
    OBVIOUS
  <2>2. h \in Handler /\ h # Idle /\ UNCHANGED <<up, connectedServer>>
    BY <1>1, <1>6, <2>1, HandlerFacts DEF Encode_watch, client
  <2>3. PICK d : handling' = [handling EXCEPT ![s] = [h EXCEPT !.data = d]]
    BY <1>6, <2>1 DEF Encode_watch
  <2>4. [h EXCEPT !.data = d].client = h.client
    BY <2>2 DEF Handler
  <2> QED
    BY <1>1, <2>1, <2>2, <2>3, <2>4 DEF HandlerInv
<1>7. ASSUME NEW s \in Server, addWatch(s)
      PROVE  HandlerInv'
  BY SMTT(60), <1>1, <1>7 DEF addWatch, HandlerInv, client
<1>8. ASSUME NEW s \in Server, Write(s) \/ Check_watch(s) \/ deniedListener(s)
      PROVE  HandlerInv'
  BY ZenonT(60), <1>2, <1>8 DEF Write, Check_watch, deniedListener, watches, client
<1>9. ASSUME NEW s \in Server, Crash(s)
      PROVE  HandlerInv'
  BY SMTT(60), <1>1, <1>9 DEF Crash, HandlerInv, client
<1>10. CASE processRequest \/ publish
  BY ZenonT(60), <1>2, <1>10 DEF processRequest, publish, watches, client
<1>11. CASE UNCHANGED vars
  BY <1>2, <1>11 DEF vars, watches, client
<1> QED
  BY <1>3, <1>4, <1>5, <1>6, <1>7, <1>8, <1>9, <1>10, <1>11 DEF Next

-----------------------------------------------------------------------------
(* One subscription *)

\* B has at most one element, and only if A has one.
shrinks(A, B) == atMostOne(B) /\ (B # {} => A # {})

\* A request passed on is not made more often when the head of a queue is taken.
LEMMA PassedTail ==
  ASSUME NEW S, NEW q \in Seq(S), q # << >>, NEW c, atMostOne(passed(q, c))
  PROVE  /\ shrinks(passed(q, c), passed(Tail(q), c))
         /\ Head(q).message = "SUBSCRIBE" /\ Head(q).client = c
              => passed(q, c) # {} /\ passed(Tail(q), c) = {}
<1>1. /\ Len(q) \in Nat /\ Len(q) >= 1 /\ Head(q) = q[1] /\ Tail(q) \in Seq(S)
      /\ Len(Tail(q)) = Len(q) - 1
      /\ \A i \in 1..(Len(q) - 1) : Tail(q)[i] = q[i + 1]
  BY HeadFacts
<1>2. DOMAIN q = 1..Len(q) /\ DOMAIN Tail(q) = 1..(Len(q) - 1)
  BY <1>1, LenProperties
<1>3. \A i \in passed(Tail(q), c) : i \in Nat /\ i + 1 \in passed(q, c) /\ i + 1 # 1
  BY <1>1, <1>2 DEF passed
<1>4. Head(q).message = "SUBSCRIBE" /\ Head(q).client = c => 1 \in passed(q, c)
  BY <1>1, <1>2 DEF passed
<1>5. atMostOne(passed(Tail(q), c))
  BY <1>3 DEF atMostOne
<1> QED
  BY <1>3, <1>4, <1>5 DEF atMostOne, shrinks

\* The same of what a client asks.
LEMMA AskedTail ==
  ASSUME NEW S, NEW q \in Seq(S), q # << >>, atMostOne(asked(q))
  PROVE  /\ shrinks(asked(q), asked(Tail(q)))
         /\ Head(q).message = "SUBSCRIBE" => asked(q) # {} /\ asked(Tail(q)) = {}
<1>1. /\ Len(q) \in Nat /\ Len(q) >= 1 /\ Head(q) = q[1] /\ Tail(q) \in Seq(S)
      /\ Len(Tail(q)) = Len(q) - 1
      /\ \A i \in 1..(Len(q) - 1) : Tail(q)[i] = q[i + 1]
  BY HeadFacts
<1>2. DOMAIN q = 1..Len(q) /\ DOMAIN Tail(q) = 1..(Len(q) - 1)
  BY <1>1, LenProperties
<1>3. \A i \in asked(Tail(q)) : i \in Nat /\ i + 1 \in asked(q) /\ i + 1 # 1
  BY <1>1, <1>2 DEF asked
<1>4. Head(q).message = "SUBSCRIBE" => 1 \in asked(q)
  BY <1>1, <1>2 DEF asked
<1>5. atMostOne(asked(Tail(q)))
  BY <1>3 DEF atMostOne
<1> QED
  BY <1>3, <1>4, <1>5 DEF atMostOne, shrinks

\* The same of what it is told.
LEMMA ConfirmedTail ==
  ASSUME NEW S, NEW q \in Seq(S), q # << >>, atMostOne(confirmed(q))
  PROVE  /\ shrinks(confirmed(q), confirmed(Tail(q)))
         /\ Head(q).message = "SUBSCRIBE_OK" => confirmed(q) # {} /\ confirmed(Tail(q)) = {}
         /\ Head(q).message # "SUBSCRIBE_OK" /\ confirmed(q) # {} => confirmed(Tail(q)) # {}
<1>1. /\ Len(q) \in Nat /\ Len(q) >= 1 /\ Head(q) = q[1] /\ Tail(q) \in Seq(S)
      /\ Len(Tail(q)) = Len(q) - 1
      /\ \A i \in 1..(Len(q) - 1) : Tail(q)[i] = q[i + 1]
  BY HeadFacts
<1>2. DOMAIN q = 1..Len(q) /\ DOMAIN Tail(q) = 1..(Len(q) - 1)
  BY <1>1, LenProperties
<1>3. \A i \in confirmed(Tail(q)) : i \in Nat /\ i + 1 \in confirmed(q) /\ i + 1 # 1
  BY <1>1, <1>2 DEF confirmed
<1>4. Head(q).message = "SUBSCRIBE_OK" => 1 \in confirmed(q)
  BY <1>1, <1>2 DEF confirmed
<1>5. atMostOne(confirmed(Tail(q)))
  BY <1>3 DEF atMostOne
<1>6. \A i \in confirmed(q) : i # 1 => i - 1 \in confirmed(Tail(q))
  BY <1>1, <1>2 DEF confirmed
<1>7. Head(q).message # "SUBSCRIBE_OK" => \A i \in confirmed(q) : i # 1
  BY <1>1 DEF confirmed
<1> QED
  BY <1>3, <1>4, <1>5, <1>6, <1>7 DEF atMostOne, shrinks

\* What an item at the end adds.
LEMMA AppendKeeps ==
  ASSUME NEW S, NEW q \in Seq(S), NEW e \in S
  PROVE  /\ e.message # "SUBSCRIBE" => asked(Append(q, e)) = asked(q)
         /\ asked(q) = {} => atMostOne(asked(Append(q, e)))
         /\ e.message # "SUBSCRIBE_OK" => confirmed(Append(q, e)) = confirmed(q)
         /\ confirmed(q) = {} => atMostOne(confirmed(Append(q, e)))
         /\ \A c : /\ e.message # "SUBSCRIBE" \/ e.client # c => passed(Append(q, e), c) = passed(q, c)
                   /\ passed(q, c) = {} => atMostOne(passed(Append(q, e), c))
<1>1. /\ Append(q, e) \in Seq(S) /\ Len(q) \in Nat /\ Len(Append(q, e)) = Len(q) + 1
      /\ \A i \in 1..Len(q) : Append(q, e)[i] = q[i]
      /\ Append(q, e)[Len(q) + 1] = e
  BY AppendFacts
<1>2. DOMAIN q = 1..Len(q) /\ DOMAIN Append(q, e) = 1..(Len(q) + 1)
  BY <1>1, LenProperties
<1>3. \A i : i \in 1..(Len(q) + 1) <=> i \in 1..Len(q) \/ i = Len(q) + 1
  BY <1>1
<1>4. /\ asked(Append(q, e)) =
           asked(q) \cup (IF e.message = "SUBSCRIBE" THEN {Len(q) + 1} ELSE {})
      /\ confirmed(Append(q, e)) =
           confirmed(q) \cup (IF e.message = "SUBSCRIBE_OK" THEN {Len(q) + 1} ELSE {})
      /\ \A c : passed(Append(q, e), c) =
           passed(q, c) \cup (IF e.message = "SUBSCRIBE" /\ e.client = c THEN {Len(q) + 1} ELSE {})
  BY <1>1, <1>2, <1>3 DEF asked, confirmed, passed
<1> QED
  BY <1>4 DEF atMostOne

\* Answers other than SUBSCRIBE_OK confirm nothing.
LEMMA ConfirmedConcat ==
  ASSUME NEW q \in Seq(Answer), NEW w \in Seq(Answer),
         \A i \in DOMAIN w : w[i].message # "SUBSCRIBE_OK"
  PROVE  confirmed(q \o w) = confirmed(q) /\ q \o w \in Seq(Answer)
<1>1. /\ Len(q) \in Nat /\ DOMAIN q = 1..Len(q) /\ Len(w) \in Nat /\ DOMAIN w = 1..Len(w)
  BY LenProperties
<1>2. /\ q \o w \in Seq(Answer) /\ Len(q \o w) = Len(q) + Len(w)
      /\ \A i \in 1..(Len(q) + Len(w)) : (q \o w)[i] = IF i <= Len(q) THEN q[i] ELSE w[i - Len(q)]
  BY ConcatProperties
<1>3. DOMAIN (q \o w) = 1..(Len(q) + Len(w))
  BY <1>2, LenProperties
<1>4. \A i \in 1..(Len(q) + Len(w)) : i \in 1..Len(q) \/ i - Len(q) \in 1..Len(w)
  BY <1>1
<1>5. \A i \in 1..Len(q) : i \in 1..(Len(q) + Len(w)) /\ (q \o w)[i] = q[i]
  BY <1>1, <1>2
<1>6. \A i \in 1..(Len(q) + Len(w)) : i \notin 1..Len(q) => (q \o w)[i].message # "SUBSCRIBE_OK"
  BY <1>1, <1>2, <1>4
<1> QED
  BY <1>1, <1>2, <1>3, <1>5, <1>6 DEF confirmed

\* A step that puts the subscription of c in no further place.
keepsAsked(c)     == shrinks(asked(toServer[c]), asked(toServer[c])')
keepsHandled(c)   == shrinks(handled(c), handled(c)')
keepsRequested(c) == shrinks(passed(requests, c), passed(requests, c)')
keepsLog(c)       == /\ passed(log, c)' = passed(log, c)
                     /\ \A i \in passed(log, c) : log'[i].origin = log[i].origin
keepsAnswered(c)  == /\ answered(c)' => answered(c)
                     /\ atMostOne(confirmed(toClient[c])')
                     /\ topicMsgMap'[c] # 0 => confirmed(toClient[c])' = {}
keepsApplied      == \A s \in Server :
                       /\ applied'[s] >= applied[s]
                       /\ s \in checking' => s \in checking \/ applied'[s] > applied[s]

\* An accepted subscription came from a server.
LEMMA PassedFacts ==
  ASSUME TypeOK, NEW c \in Client
  PROVE  \A i \in passed(log, c) : i \in 1..Len(log) /\ i \in Nat /\ log[i].origin \in Server
<1>1. DOMAIN log = 1..Len(log) /\ Len(log) \in Nat
  BY LenProperties DEF TypeOK
<1>2. \A i \in passed(log, c) : i \in 1..Len(log) /\ log[i].message = "SUBSCRIBE"
  BY <1>1 DEF passed
<1>3. \A i \in passed(log, c) : log[i] \in Request
  BY <1>2, EntryFacts
<1> QED
  BY <1>1, <1>2, <1>3 DEF Request

\* Such a step keeps the invariant.
LEMMA OnceKept ==
  ASSUME TypeOK, TypeOK', NEW c \in Client, OnceInv(c),
         keepsAsked(c), keepsHandled(c), keepsRequested(c), keepsLog(c), keepsAnswered(c),
         keepsApplied
  PROVE  OnceInv(c)'
<1>1. /\ applied \in [Server -> Nat] /\ applied' \in [Server -> Nat]
  BY DEF TypeOK
<1>2. answered(c)' => \A i \in passed(log, c)' : LET s == log'[i].origin IN
        applied'[s] >= i /\ (applied'[s] = i => s \notin checking')
  <2> SUFFICES ASSUME answered(c)', NEW i \in passed(log, c)', NEW s, s = log'[i].origin
               PROVE  applied'[s] >= i /\ (applied'[s] = i => s \notin checking')
    OBVIOUS
  <2>1. i \in passed(log, c) /\ s = log[i].origin /\ answered(c)
    BY DEF keepsLog, keepsAnswered
  <2>2. s \in Server /\ i \in Nat
    BY <2>1, PassedFacts
  <2>3. applied[s] >= i /\ (applied[s] = i => s \notin checking)
    BY <2>1 DEF OnceInv
  <2>4. /\ applied'[s] >= applied[s] /\ applied[s] \in Nat /\ applied'[s] \in Nat
        /\ s \in checking' => s \in checking \/ applied'[s] > applied[s]
    BY <1>1, <2>2 DEF keepsApplied
  <2> QED
    BY <2>2, <2>3, <2>4
<1>3. /\ atMostOne(asked(toServer[c]))' /\ (asked(toServer[c])' # {} => asked(toServer[c]) # {})
      /\ atMostOne(handled(c))' /\ (handled(c)' # {} => handled(c) # {})
      /\ atMostOne(passed(requests, c))' /\ (passed(requests, c)' # {} => passed(requests, c) # {})
  BY DEF keepsAsked, keepsHandled, keepsRequested, shrinks, atMostOne
<1>4. passed(log, c)' = passed(log, c) /\ atMostOne(passed(log, c))'
  BY DEF keepsLog, OnceInv, atMostOne
<1>5. /\ answered(c)' => answered(c) /\ atMostOne(confirmed(toClient[c]))'
      /\ (topicMsgMap[c])' # 0 => confirmed(toClient[c])' = {}
      /\ atMostOne(confirmed(toClient[c]))'
  BY DEF keepsAnswered, atMostOne
<1>6. /\ asked(toServer[c])' # {} =>
           handled(c)' = {} /\ passed(requests, c)' = {} /\ passed(log, c)' = {}
      /\ handled(c)' # {} => passed(requests, c)' = {} /\ passed(log, c)' = {}
      /\ passed(requests, c)' # {} => passed(log, c)' = {}
      /\ answered(c)' => passed(log, c)' # {}
  BY <1>3, <1>4, <1>5 DEF OnceInv
<1> QED
  BY <1>2, <1>3, <1>4, <1>5, <1>6 DEF OnceInv

\* What does not change is kept.
LEMMA OnceSame ==
  ASSUME NEW c \in Client, OnceInv(c), TypeOK
  PROVE  /\ toServer'[c] = toServer[c] => keepsAsked(c)
         /\ asked(toServer'[c]) = asked(toServer[c]) => keepsAsked(c)
         /\ UNCHANGED handling => keepsHandled(c)
         /\ UNCHANGED requests => keepsRequested(c)
         /\ UNCHANGED log => keepsLog(c)
         /\ UNCHANGED <<applied, checking>> => keepsApplied
<1>1. \A s \in Server : applied[s] \in Nat
  BY DEF TypeOK
<1>2. UNCHANGED <<applied, checking>> => keepsApplied
  BY <1>1 DEF keepsApplied
<1>3. asked(toServer'[c]) = asked(toServer[c])' /\ shrinks(asked(toServer[c]), asked(toServer[c]))
  BY DEF asked, OnceInv, shrinks
<1>4. UNCHANGED handling => handled(c)' = handled(c)
  BY DEF handled
<1>5. UNCHANGED requests => passed(requests, c)' = passed(requests, c)
  BY DEF passed
<1>6. UNCHANGED log => passed(log, c)' = passed(log, c)
  BY DEF passed
<1>7. /\ toServer'[c] = toServer[c] => keepsAsked(c)
      /\ asked(toServer'[c]) = asked(toServer[c]) => keepsAsked(c)
  BY <1>3 DEF keepsAsked
<1>8. UNCHANGED handling => keepsHandled(c)
  BY <1>4 DEF OnceInv, shrinks, keepsHandled
<1>9. UNCHANGED requests => keepsRequested(c)
  BY <1>5 DEF OnceInv, shrinks, keepsRequested
<1>10. UNCHANGED log => keepsLog(c)
  BY <1>6 DEF keepsLog
<1> QED
  BY <1>2, <1>7, <1>8, <1>9, <1>10

\* A client is not told again.
LEMMA AnsweredSame ==
  ASSUME NEW c \in Client, OnceInv(c), topicMsgMap'[c] # 0 => topicMsgMap[c] # 0,
         shrinks(confirmed(toClient[c]), confirmed(toClient'[c]))
  PROVE  keepsAnswered(c)
<1>1. confirmed(toClient[c])' = confirmed(toClient'[c])
  BY DEF confirmed
<1>2. /\ answered(c) <=> topicMsgMap[c] # 0 \/ confirmed(toClient[c]) # {}
      /\ answered(c)' <=> topicMsgMap'[c] # 0 \/ confirmed(toClient'[c]) # {}
  BY <1>1 DEF answered
<1>3. topicMsgMap[c] # 0 => confirmed(toClient[c]) = {}
  BY DEF OnceInv
<1> QED
  BY <1>1, <1>2, <1>3 DEF keepsAnswered, shrinks

\* When the answers to a client confirm nothing more, it is not told again.
LEMMA AnsweredMore ==
  ASSUME NEW c \in Client, OnceInv(c), UNCHANGED topicMsgMap,
         confirmed(toClient'[c]) = confirmed(toClient[c])
  PROVE  keepsAnswered(c)
<1>1. shrinks(confirmed(toClient[c]), confirmed(toClient'[c]))
  BY DEF shrinks, OnceInv
<1> QED
  BY <1>1, AnsweredSame

\* Only SUBSCRIBE makes another request of a client.
LEMMA RequestedMore ==
  ASSUME TypeOK, NEW c \in Client, OnceInv(c), NEW r \in Request,
         r.message # "SUBSCRIBE" \/ r.client # c, requests' = Append(requests, r)
  PROVE  keepsRequested(c)
<1>1. requests \in Seq(Request)
  BY DEF TypeOK
<1>2. passed(Append(requests, r), c) = passed(requests, c)
  BY <1>1, AppendKeeps
<1>3. passed(requests, c)' = passed(Append(requests, r), c)
  BY DEF passed
<1> QED
  BY <1>2, <1>3 DEF keepsRequested, shrinks, OnceInv

\* Only SUBSCRIBE makes another entry of a client.
LEMMA LoggedMore ==
  ASSUME TypeOK, NEW c \in Client, NEW e \in Request \cup Publication,
         e.message # "SUBSCRIBE" \/ e.client # c, log' = Append(log, e)
  PROVE  keepsLog(c)
<1>1. log \in Seq(Request \cup Publication)
  BY DEF TypeOK
<1>2. passed(Append(log, e), c) = passed(log, c)
  BY <1>1, AppendKeeps
<1>3. passed(log, c)' = passed(Append(log, e), c)
  BY DEF passed
<1>4. \A i \in passed(log, c) : log'[i] = log[i]
  BY PassedFacts, LogFacts
<1> QED
  BY <1>2, <1>3, <1>4 DEF keepsLog

\* A client that subscribes has not subscribed.
LEMMA SubscribeOnce ==
  ASSUME TypeOK, TypeOK', HandlerInv, NEW c \in Client, subscribe(c), NEW d \in Client, OnceInv(d)
  PROVE  OnceInv(d)'
<1>1. /\ UNCHANGED <<handling, requests, log, applied, checking, toClient, topicMsgMap>>
      /\ toServer[c] = << >> /\ topicMsgMap[c] = 0 /\ handling[connectedServer[c]] = Idle
  BY DEF subscribe, coordinator, storage, watches, client
<1>2. PICK m \in Question : m.message = "SUBSCRIBE" /\ send(c, <<m>>)
  BY ZenonT(60), ConstantFacts, MessageTypes DEF subscribe
<1>3. /\ \A e \in Client \ {c} : toServer'[e] = toServer[e]
      /\ toServer'[c] \in {toServer[c], Append(toServer[c], m)}
  BY <1>2, SendFacts
<1>4. /\ keepsHandled(d) /\ keepsRequested(d) /\ keepsLog(d) /\ keepsApplied
  BY <1>1, OnceSame
<1>5. answered(d)' <=> answered(d)
  BY <1>1 DEF answered, confirmed
<1>6. CASE d # c
  <2>1. keepsAsked(d)
    BY <1>3, <1>6, OnceSame
  <2>2. keepsAnswered(d)
    BY <1>1, AnsweredMore
  <2> QED
    BY <1>4, <2>1, <2>2, OnceKept
<1>7. CASE d = c
  <2>1. handled(c) = {}
    <3> SUFFICES ASSUME NEW s \in handled(c) PROVE FALSE
      OBVIOUS
    <3>1. s \in Server /\ handling[s].message = "SUBSCRIBE" /\ handling[s].client = c
      BY DEF handled
    <3>2. handling[s] # Idle
      BY <3>1, HandlerFacts
    <3> QED
      BY <1>1, <3>1, <3>2 DEF HandlerInv
  <2>2. passed(requests, c) = {} /\ passed(log, c) = {}
    <3>1. ~\E r \in Range(requests) \cup Range(log) : r.message = "SUBSCRIBE" /\ r.client = c
      BY DEF subscribe
    <3>2. /\ \A i \in DOMAIN requests : requests[i] \in Range(requests)
          /\ \A i \in DOMAIN log : log[i] \in Range(log)
      BY DEF Range
    <3> QED
      BY <3>1, <3>2 DEF passed
  <2>3. ~answered(c) /\ ~answered(c)'
    BY <1>5, <1>7, <2>2 DEF OnceInv
  <2>4. atMostOne(asked(toServer[c]))'
    <3>1. toServer[c] \in Seq(Question)
      BY DEF TypeOK
    <3>2. asked(toServer[c]) = {}
      BY <1>1 DEF asked
    <3>3. PICK q \in Seq(Question) : q = toServer[c]
      BY <3>1
    <3>4. atMostOne(asked(q)) /\ atMostOne(asked(Append(q, m)))
      BY <3>2, <3>3, AppendKeeps DEF atMostOne
    <3>5. toServer'[c] = q \/ toServer'[c] = Append(q, m)
      BY <1>3, <3>3
    <3> QED
      BY <3>4, <3>5 DEF asked, atMostOne
  <2>5. /\ handled(c)' = {} /\ passed(requests, c)' = {} /\ passed(log, c)' = {}
    BY <1>1, <2>1, <2>2 DEF handled, passed
  <2>6. topicMsgMap'[c] = 0 /\ confirmed(toClient[c])' = {}
    BY <2>3 DEF answered
  <2> QED
    BY <1>7, <2>3, <2>4, <2>5, <2>6 DEF OnceInv, atMostOne
<1> QED
  BY <1>6, <1>7

\* The listener asks for no further subscription.
LEMMA ListenerOnce ==
  ASSUME TypeOK, TypeOK', NEW c \in Client, listener(c), OnceInv(c), GapInv(c),
         NEW d \in Client, OnceInv(d)
  PROVE  OnceInv(d)'
<1>1. PICK a : a = Head(toClient[c])
  OBVIOUS
<1>2. UNCHANGED <<handling, requests, log, applied, checking>>
  BY <1>1, ListenerCases
<1>3. keepsHandled(d) /\ keepsRequested(d) /\ keepsLog(d) /\ keepsApplied
  BY <1>2, OnceSame
<1>4. /\ toClient[c] \in Seq(Answer) /\ toClient[c] # << >> /\ toClient'[c] = Tail(toClient[c])
      /\ \A e \in Client \ {c} : toClient'[e] = toClient[e]
      /\ a \in Answer /\ a.n \in Number
  BY <1>1, ListenerFacts DEF Answer
<1>5. \/ UNCHANGED toServer
      \/ \E m \in Question : m.message # "SUBSCRIBE" /\ send(c, <<m>>)
  <2>1. /\ topicMsgMap[c] \in Number
    BY DEF TypeOK
  <2>2. /\ Message("EXISTS", a.n) \in Question /\ Message("EXISTS", a.n).message # "SUBSCRIBE"
        /\ Message("GET_SUBSCRIPTION", topicMsgMap[c]) \in Question
        /\ Message("GET_SUBSCRIPTION", topicMsgMap[c]).message # "SUBSCRIBE"
    BY <1>4, <2>1, MessageTypes
  <2>3. \/ UNCHANGED toServer
        \/ send(c, <<Message("EXISTS", a.n)>>)
        \/ send(c, <<Message("GET_SUBSCRIPTION", topicMsgMap[c])>>)
    BY <1>1, <1>4, ListenerCases DEF Answer
  <2> QED
    BY <2>2, <2>3
<1>6. keepsAsked(d)
  <2>1. CASE UNCHANGED toServer
    BY <2>1, OnceSame
  <2>2. CASE ~UNCHANGED toServer
    <3>1. PICK m \in Question : m.message # "SUBSCRIBE" /\ send(c, <<m>>)
      BY <1>5, <2>2
    <3>2. /\ \A e \in Client \ {c} : toServer'[e] = toServer[e]
          /\ toServer'[c] \in {toServer[c], Append(toServer[c], m)}
      BY <3>1, SendFacts
    <3>3. PICK q \in Seq(Question) : q = toServer[c]
      BY DEF TypeOK
    <3>4. asked(Append(q, m)) = asked(q)
      BY <3>1, AppendKeeps
    <3>5. toServer'[c] = q \/ toServer'[c] = Append(q, m)
      BY <3>2, <3>3
    <3>6. asked(toServer'[c]) = asked(toServer[c])
      BY <3>3, <3>4, <3>5
    <3> QED
      BY <3>2, <3>6, OnceSame
  <2> QED
    BY <2>1, <2>2
<1>7. topicMsgMap' \in [Client -> Number] /\ topicMsgMap \in [Client -> Number]
  BY DEF TypeOK
<1>8. keepsAnswered(d)
  <2>1. CASE d # c
    <3>1. topicMsgMap' = topicMsgMap \/ topicMsgMap' = [topicMsgMap EXCEPT ![c] = a.n]
      BY ZenonT(60), <1>1, <1>4, ListenerCases DEF Answer
    <3>2. topicMsgMap'[d] = topicMsgMap[d]
      BY <1>7, <2>1, <3>1
    <3>3. shrinks(confirmed(toClient[d]), confirmed(toClient'[d]))
      BY <1>4, <2>1 DEF shrinks, OnceInv
    <3> QED
      BY <3>2, <3>3, AnsweredSame
  <2>2. CASE d = c /\ a.message = "SUBSCRIBE_OK"
    <3>1. atMostOne(confirmed(toClient[c]))
      BY DEF OnceInv
    <3>2. confirmed(toClient[c]) # {} /\ confirmed(toClient'[c]) = {}
      BY <1>1, <1>4, <2>2, <3>1, ConfirmedTail
    <3>3. confirmed(toClient[c])' = {}
      BY <3>2 DEF confirmed
    <3> QED
      BY <2>2, <3>2, <3>3 DEF keepsAnswered, answered, atMostOne
  <2>3. CASE d = c /\ a.message # "SUBSCRIBE_OK"
    <3>1. topicMsgMap'[c] # 0 => topicMsgMap[c] # 0
      BY <1>1, <1>4, <2>3, ListenerCases DEF Answer
    <3>2. atMostOne(confirmed(toClient[c]))
      BY DEF OnceInv
    <3>3. shrinks(confirmed(toClient[c]), confirmed(toClient'[c]))
      BY <1>4, <3>2, ConfirmedTail
    <3> QED
      BY <2>3, <3>1, <3>3, AnsweredSame
  <2> QED
    BY <2>1, <2>2, <2>3
<1> QED
  BY <1>3, <1>6, <1>8, OnceKept

\* A client that comes to another server does not subscribe again.
LEMMA ReconnectOnce ==
  ASSUME TypeOK, TypeOK', NEW c \in Client, reconnect(c), NEW d \in Client, OnceInv(d)
  PROVE  OnceInv(d)'
<1>1. /\ UNCHANGED <<handling, requests, log, applied, checking, toClient, topicMsgMap>>
      /\ toServer' = [toServer EXCEPT ![c] = <<Message("REESTABLISH_SESSION", 0)>>]
  BY DEF reconnect, coordinator, storage, watches
<1>2. keepsHandled(d) /\ keepsRequested(d) /\ keepsLog(d) /\ keepsApplied
  BY <1>1, OnceSame
<1>3. keepsAnswered(d)
  BY <1>1, AnsweredMore
<1>4. keepsAsked(d)
  <2>1. CASE d # c
    BY <1>1, <2>1, OnceSame DEF TypeOK
  <2>2. CASE d = c
    <3>1. PICK m \in Question : m = Message("REESTABLISH_SESSION", 0) /\ m.message # "SUBSCRIBE"
      BY ConstantFacts, MessageTypes
    <3>2. toServer'[c] = <<m>>
      BY <1>1, <3>1 DEF TypeOK
    <3>3. asked(<<m>>) = {}
      BY <3>1 DEF asked
    <3>4. asked(toServer[c])' = {}
      BY <3>2, <3>3 DEF asked
    <3> QED
      BY <2>2, <3>4 DEF keepsAsked, shrinks, atMostOne
  <2> QED
    BY <2>1, <2>2
<1> QED
  BY <1>2, <1>3, <1>4, OnceKept

\* A handler that is no subscription of d, or was it already.
LEMMA HandledSame ==
  ASSUME TypeOK, NEW d \in Client, OnceInv(d), NEW s \in Server, NEW h,
         handling' = [handling EXCEPT ![s] = h],
         h.message = "SUBSCRIBE" /\ h.client = d => s \in handled(d)
  PROVE  keepsHandled(d)
<1>1. \A t \in Server : handling'[t] = IF t = s THEN h ELSE handling[t]
  BY DEF TypeOK
<1>2. handled(d)' \subseteq handled(d)
  BY <1>1 DEF handled
<1> QED
  BY <1>2 DEF keepsHandled, shrinks, OnceInv, atMostOne

\* A subscription that is taken up is in the handler, and was on its way.
LEMMA MainOnce ==
  ASSUME TypeOK, TypeOK', NEW c \in Client, mainListener(c), NEW d \in Client, OnceInv(d),
         OnceInv(c), GapInv(c)
  PROVE  OnceInv(d)'
<1>1. PICK s \in Server : s = connectedServer[c]
  BY MainFacts
<1>2. PICK m \in Question : m = Head(toServer[c])
  BY SMTT(60), MainFacts
<1>3. /\ UNCHANGED <<log, applied, checking, topicMsgMap>> /\ handling[s] = Idle
      /\ toServer' = [toServer EXCEPT ![c] = Tail(toServer[c])]
      /\ toServer[c] \in Seq(Question) /\ toServer[c] # << >>
  BY <1>1, MainFacts DEF mainListener
<1>4. keepsLog(d) /\ keepsApplied
  BY <1>3, OnceSame
<1>5. toServer'[c] = Tail(toServer[c]) /\ \A e \in Client \ {c} : toServer'[e] = toServer[e]
  BY <1>3 DEF TypeOK
<1>6. atMostOne(asked(toServer[c]))
  BY DEF OnceInv
<1>7. keepsAsked(d)
  <2>1. CASE d # c
    BY <1>5, <2>1, OnceSame
  <2>2. CASE d = c
    <3>1. shrinks(asked(toServer[c]), asked(Tail(toServer[c])))
      BY <1>3, <1>6, AskedTail
    <3>2. asked(toServer[c])' = asked(Tail(toServer[c]))
      BY <1>5 DEF asked
    <3> QED
      BY <2>2, <3>1, <3>2 DEF keepsAsked
  <2> QED
    BY <2>1, <2>2
<1>8. toClient[c] \in Seq(Answer) /\ toClient \in [Client -> Seq(Answer)]
  BY DEF TypeOK
<1>9. CASE m.message = "SUBSCRIBE"
  <2>1. PICK h : h = [message |-> "SUBSCRIBE", client |-> c, path |-> messages(s) + 1,
                      exists |-> FALSE, data |-> << >>]
    OBVIOUS
  <2>2. handling' = [handling EXCEPT ![s] = h] /\ UNCHANGED <<requests, toClient>>
    BY <1>1, <1>2, <1>9, <2>1 DEF mainListener
  <2>3. keepsRequested(d) /\ keepsAnswered(d)
    BY <1>3, <2>2, OnceSame, AnsweredMore
  <2>4. CASE d # c
    <3>1. keepsHandled(d)
      BY <2>1, <2>2, <2>4, HandledSame
    <3> QED
      BY <1>4, <1>7, <2>3, <3>1, OnceKept
  <2>5. CASE d = c
    <3>1. asked(toServer[c]) # {} /\ asked(Tail(toServer[c])) = {}
      BY <1>2, <1>3, <1>6, <1>9, AskedTail
    <3>2. asked(toServer[c])' = {}
      BY <1>5, <3>1 DEF asked
    <3>3. handled(c) = {} /\ passed(requests, c) = {} /\ passed(log, c) = {} /\ ~answered(c)
      BY <3>1 DEF OnceInv
    <3>4. \A t \in Server : t # s => handling'[t] = handling[t]
      BY <2>2 DEF TypeOK
    <3>5. handled(c)' \subseteq {s}
      BY <3>3, <3>4 DEF handled
    <3>6. /\ passed(requests, c)' = {} /\ passed(log, c)' = {}
      BY <1>3, <2>2, <3>3 DEF passed
    <3>7. ~answered(c)' /\ topicMsgMap'[c] = 0 /\ confirmed(toClient[c])' = {}
      BY <1>3, <2>2, <3>3 DEF answered, confirmed
    <3> QED
      BY <2>5, <3>2, <3>5, <3>6, <3>7 DEF OnceInv, atMostOne
  <2> QED
    BY <2>4, <2>5
<1>10. CASE m.message = "EXISTS"
  <2>1. PICK h : h = [message |-> "EXISTS", client |-> c, path |-> m.n,
                      exists |-> m.n <= messages(s), data |-> << >>]
    OBVIOUS
  <2>2. handling' = [handling EXCEPT ![s] = h] /\ UNCHANGED <<requests, toClient>>
    BY <1>1, <1>2, <1>10, <2>1 DEF mainListener
  <2>3. keepsRequested(d) /\ keepsAnswered(d)
    BY <1>3, <2>2, OnceSame, AnsweredMore
  <2>4. keepsHandled(d)
    BY <2>1, <2>2, HandledSame
  <2> QED
    BY <1>4, <1>7, <2>3, <2>4, OnceKept
<1>11. CASE m.message = "GET_SUBSCRIPTION"
  <2>1. m.n \in Number
    BY SMTT(60) DEF Question
  <2>2. /\ toClient' = [toClient EXCEPT ![c] = @ \o get_subscription(s, m.n)]
        /\ UNCHANGED <<handling, requests>>
    BY <1>1, <1>2, <1>11 DEF mainListener
  <2>3. PICK w \in Seq(Answer) : w = get_subscription(s, m.n) /\ \A i \in DOMAIN w : w[i].message # "SUBSCRIBE_OK"
    <3>1. PICK w : w = get_subscription(s, m.n)
      OBVIOUS
    <3>2. PICK N \in Nat :
            /\ w \in Seq(Answer) /\ Len(w) = N + 1
            /\ \A i \in 1..N : w[i] = Message("SUBSCRIBED_MESSAGE", m.n + i - 1)
            /\ w[N + 1] = Message("GET_SUBSCRIPTION_OK", m.n + N)
      BY ZenonT(60), <2>1, <3>1, GetSubscriptionFacts
    <3>3. DOMAIN w = 1..(N + 1)
      BY <3>2, LenProperties
    <3>4. \A i \in 1..(N + 1) : i \in 1..N \/ i = N + 1
      OBVIOUS
    <3>5. \A x, y : Message(x, y).message = x
      BY DEF Message
    <3>6. /\ \A i \in 1..N : w[i].message = "SUBSCRIBED_MESSAGE"
          /\ w[N + 1].message = "GET_SUBSCRIPTION_OK"
      BY <3>2, <3>5
    <3>7. \A i \in DOMAIN w : w[i].message # "SUBSCRIBE_OK"
      BY <3>3, <3>4, <3>6
    <3> QED
      BY <3>1, <3>2, <3>7
  <2>4. confirmed(toClient[c] \o w) = confirmed(toClient[c])
    BY <1>8, <2>3, ConfirmedConcat
  <2>5. toClient'[c] = toClient[c] \o w /\ \A e \in Client \ {c} : toClient'[e] = toClient[e]
    BY <1>8, <2>2, <2>3
  <2>6. confirmed(toClient'[d]) = confirmed(toClient[d])
    BY <2>4, <2>5
  <2>7. keepsHandled(d) /\ keepsRequested(d) /\ keepsAnswered(d)
    BY <1>3, <2>2, <2>6, OnceSame, AnsweredMore
  <2> QED
    BY <1>4, <1>7, <2>7, OnceKept
<1>12. CASE m.message = "REESTABLISH_SESSION"
  <2>1. Update_watch_cache(s, c) /\ UNCHANGED handling
    BY <1>1, <1>2, <1>12 DEF mainListener
  <2>2. keepsHandled(d)
    BY <2>1, OnceSame
  <2>3. CASE UNCHANGED <<requests, toClient>>
    BY <1>3, <1>4, <1>7, <2>2, <2>3, OnceSame, AnsweredMore, OnceKept
  <2>4. CASE ~UNCHANGED <<requests, toClient>>
    <3>1. PICK r \in Request, w \in Seq(Answer) :
            /\ r.message = "none" /\ requests' = Append(requests, r)
            /\ \A i \in DOMAIN w : w[i].message = "WATCH_TRIGGER"
            /\ toClient' = [toClient EXCEPT ![c] = @ \o w]
      BY <2>1, <2>4, UpdateFacts
    <3>2. keepsRequested(d)
      BY <3>1, RequestedMore
    <3>3. confirmed(toClient[c] \o w) = confirmed(toClient[c])
      BY <1>8, <3>1, ConfirmedConcat
    <3>4. toClient'[c] = toClient[c] \o w /\ \A e \in Client \ {c} : toClient'[e] = toClient[e]
      BY <1>8, <3>1
    <3>5. confirmed(toClient'[d]) = confirmed(toClient[d])
      BY <3>3, <3>4
    <3>6. keepsAnswered(d)
      BY <1>3, <3>5, AnsweredMore
    <3> QED
      BY <1>4, <1>7, <2>2, <3>2, <3>6, OnceKept
  <2> QED
    BY <2>3, <2>4
<1> QED
  BY <1>9, <1>10, <1>11, <1>12 DEF Question

\* Reading a session moves no subscription.
LEMMA EncodeOnce ==
  ASSUME TypeOK, TypeOK', NEW s \in Server, Encode_watch(s), NEW d \in Client, OnceInv(d)
  PROVE  OnceInv(d)'
<1>1. PICK h : h = handling[s]
  OBVIOUS
<1>2. h \in Handler
  BY <1>1, HandlerFacts DEF Encode_watch
<1>3. PICK x : handling' = [handling EXCEPT ![s] = [h EXCEPT !.data = x]]
  BY <1>1 DEF Encode_watch
<1>4. PICK g : g = [h EXCEPT !.data = x]
  OBVIOUS
<1>5. g.message = h.message /\ g.client = h.client
  BY <1>2, <1>4 DEF Handler
<1>6. g.message = "SUBSCRIBE" /\ g.client = d => s \in handled(d)
  BY <1>1, <1>5 DEF handled
<1>7. keepsHandled(d)
  BY <1>3, <1>4, <1>6, HandledSame
<1>8. UNCHANGED <<requests, log, applied, checking, toServer, toClient, topicMsgMap>>
  BY DEF Encode_watch, coordinator, storage, client
<1> QED
  BY <1>7, <1>8, OnceSame, AnsweredMore, OnceKept

\* A subscription whose watch is set is on its way to the coordinator, and was
\* in the handler.
LEMMA AddWatchOnce ==
  ASSUME TypeOK, TypeOK', NEW s \in Server, addWatch(s), NEW d \in Client, OnceInv(d)
  PROVE  OnceInv(d)'
<1>1. PICK h : h = handling[s]
  OBVIOUS
<1>2. /\ h \in Handler /\ h.client \in Client
      /\ h.message \in {"SUBSCRIBE", "EXISTS"}
  BY <1>1, AddWatchFacts
<1>3. PICK r \in Request : requests' = Append(requests, r) /\ r.message = h.message /\ r.client = h.client
  BY <1>1, AddWatchFacts
<1>4. /\ handling' = [handling EXCEPT ![s] = Idle]
      /\ UNCHANGED <<log, applied, checking, toServer, topicMsgMap>>
  BY DEF addWatch, storage, client
<1>5. Idle.message # "SUBSCRIBE"
  BY DEF Idle
<1>6. keepsHandled(d)
  BY <1>4, <1>5, HandledSame
<1>7. keepsAsked(d) /\ keepsLog(d) /\ keepsApplied
  BY <1>4, OnceSame
<1>8. confirmed(toClient'[d]) = confirmed(toClient[d])
  <2>1. CASE UNCHANGED toClient
    BY <2>1
  <2>2. CASE ~UNCHANGED toClient
    <3>1. PICK a \in Answer : /\ a.message = "EXISTS_OK"
                              /\ toClient' = [toClient EXCEPT ![h.client] = Append(@, a)]
      BY <1>1, <2>2, AddWatchFacts
    <3>2. toClient \in [Client -> Seq(Answer)]
      BY DEF TypeOK
    <3>3. PICK q \in Seq(Answer) : q = toClient[h.client]
      BY <1>2, <3>2
    <3>4. confirmed(Append(q, a)) = confirmed(q)
      BY <3>1, AppendKeeps
    <3>5. /\ toClient'[h.client] = Append(q, a)
          /\ \A e \in Client \ {h.client} : toClient'[e] = toClient[e]
      BY <1>2, <3>1, <3>2, <3>3
    <3> QED
      BY <3>3, <3>4, <3>5
  <2> QED
    BY <2>1, <2>2
<1>9. keepsAnswered(d)
  BY <1>4, <1>8, AnsweredMore
<1>10. CASE h.message = "SUBSCRIBE" /\ h.client = d
  <2>1. s \in handled(d)
    BY <1>1, <1>10 DEF handled
  <2>2. asked(toServer[d]) = {} /\ passed(requests, d) = {} /\ passed(log, d) = {} /\ ~answered(d)
    BY <2>1 DEF OnceInv
  <2>3. handled(d)' = {}
    <3>1. \A t \in Server : handling'[t] = IF t = s THEN Idle ELSE handling[t]
      BY <1>4 DEF TypeOK
    <3>2. handled(d)' \subseteq handled(d) /\ s \notin handled(d)'
      BY <1>5, <3>1 DEF handled
    <3> QED
      BY <2>1, <3>2 DEF OnceInv, atMostOne
  <2>4. atMostOne(passed(requests, d))'
    <3>1. PICK q \in Seq(Request) : q = requests
      BY DEF TypeOK
    <3>2. atMostOne(passed(Append(q, r), d))
      BY <2>2, <3>1, AppendKeeps
    <3> QED
      BY <1>3, <3>1, <3>2 DEF passed, atMostOne
  <2>5. asked(toServer[d])' = {} /\ passed(log, d)' = {}
    BY <1>4, <2>2 DEF asked, passed
  <2>6. ~answered(d)' /\ topicMsgMap'[d] = 0 /\ confirmed(toClient[d])' = {}
    BY <1>4, <1>8, <2>2 DEF answered, confirmed
  <2> QED
    BY <2>3, <2>4, <2>5, <2>6 DEF OnceInv, atMostOne
<1>11. CASE ~(h.message = "SUBSCRIBE" /\ h.client = d)
  <2>1. keepsRequested(d)
    BY <1>3, <1>11, RequestedMore
  <2> QED
    BY <1>6, <1>7, <1>9, <2>1, OnceKept
<1> QED
  BY <1>10, <1>11

\* Writing a request leaves a subscription that is through with.
LEMMA WriteOnce ==
  ASSUME TypeOK, TypeOK', NEW s \in Server, Write(s), NEW d \in Client, OnceInv(d)
  PROVE  OnceInv(d)'
<1>1. UNCHANGED <<requests, log, handling, toServer, toClient, topicMsgMap>>
  BY DEF Write, coordinator, watches, client
<1>2. keepsApplied
  <2>1. \A t \in Server : applied[t] \in Nat
    BY DEF TypeOK
  <2>2. /\ \A t \in Server : applied'[t] = IF t = s THEN applied[s] + 1 ELSE applied[t]
        /\ checking' = checking \cup {s}
    BY DEF Write, TypeOK
  <2> QED
    BY <2>1, <2>2 DEF keepsApplied
<1> QED
  BY <1>1, <1>2, OnceSame, AnsweredMore, OnceKept

\* A client is told of its subscription when its server is through with it.
LEMMA CheckOnce ==
  ASSUME TypeOK, TypeOK', NEW s \in Server, Check_watch(s), NEW d \in Client, OnceInv(d)
  PROVE  OnceInv(d)'
<1>1. /\ UNCHANGED <<log, handling, toServer, topicMsgMap, applied>>
      /\ s \in checking /\ checking' = checking \ {s}
  BY DEF Check_watch, client
<1>2. keepsAsked(d) /\ keepsHandled(d) /\ keepsLog(d)
  BY <1>1, OnceSame
<1>3. keepsApplied
  <2>1. \A t \in Server : applied[t] \in Nat
    BY DEF TypeOK
  <2> QED
    BY <1>1, <2>1 DEF keepsApplied
<1>4. keepsRequested(d)
  <2>1. CASE UNCHANGED requests
    BY <2>1, OnceSame
  <2>2. CASE ~UNCHANGED requests
    <3>1. PICK r \in Request : r.message = "none" /\ requests' = Append(requests, r)
      BY <2>2, CheckFacts
    <3> QED
      BY <3>1, RequestedMore
  <2> QED
    BY <2>1, <2>2
<1>5. PICK w \in Seq(Answer) :
        /\ \A i \in DOMAIN w : w[i].message = "WATCH_TRIGGER"
        /\ toClient'[d] = toClient[d] \o w \/ toldSubscribed(s, d, w)
  BY CheckFacts
<1>6. PICK q \in Seq(Answer) : q = toClient[d] \o w /\ confirmed(q) = confirmed(toClient[d])
  <2>1. toClient[d] \in Seq(Answer)
    BY DEF TypeOK
  <2> QED
    BY <1>5, <2>1, ConfirmedConcat
<1>7. CASE toClient'[d] = q
  <2>1. keepsAnswered(d)
    BY <1>1, <1>6, <1>7, AnsweredMore
  <2> QED
    BY <1>2, <1>3, <1>4, <2>1, OnceKept
<1>8. CASE toClient'[d] # q
  <2>1. PICK a \in Answer : toClient'[d] = Append(q, a)
    BY <1>5, <1>6, <1>8 DEF toldSubscribed
  <2>2. /\ log[applied[s]].message = "SUBSCRIBE" /\ log[applied[s]].origin = s
        /\ log[applied[s]].client = d
    BY <1>5, <1>6, <1>8 DEF toldSubscribed
  <2>3. PICK k \in 1..Len(log) : k = applied[s] /\ k \in Nat
    BY CheckFacts, LenProperties DEF TypeOK
  <2>4. k \in passed(log, d)
    <3>1. k \in DOMAIN log
      BY <2>3, LenProperties DEF TypeOK
    <3> QED
      BY <2>2, <2>3, <3>1 DEF passed
  <2>5. ~answered(d)
    BY <1>1, <2>2, <2>3, <2>4 DEF OnceInv
  <2>6. topicMsgMap[d] = 0 /\ confirmed(toClient[d]) = {}
    BY <2>5 DEF answered
  <2>7. atMostOne(confirmed(Append(q, a)))
    BY <1>6, <2>6, AppendKeeps
  <2>8. atMostOne(confirmed(toClient[d]))' /\ (topicMsgMap[d])' = 0
    BY <1>1, <2>1, <2>6, <2>7 DEF confirmed, atMostOne
  <2>9. passed(log, d)' = passed(log, d) /\ \A i \in passed(log, d) : i = k
    BY <1>1, <2>4 DEF passed, OnceInv, atMostOne
  <2>10. \A i \in passed(log, d)' : LET t == log'[i].origin IN
           applied'[t] >= i /\ (applied'[t] = i => t \notin checking')
    BY <1>1, <2>2, <2>3, <2>9
  <2>11. asked(toServer[d])' = {} /\ handled(d)' = {} /\ passed(requests, d)' = {}
    <3>1. asked(toServer[d]) = {} /\ handled(d) = {} /\ passed(requests, d) = {}
      BY <2>4 DEF OnceInv
    <3> QED
      BY <1>2, <1>4, <3>1 DEF keepsAsked, keepsHandled, keepsRequested, shrinks
  <2> QED
    BY <2>4, <2>8, <2>9, <2>10, <2>11 DEF OnceInv, atMostOne
<1> QED
  BY <1>7, <1>8

\* A denied subscription is not tried again.
LEMMA DeniedOnce ==
  ASSUME TypeOK, TypeOK', NEW s \in Server, deniedListener(s), NEW d \in Client, OnceInv(d)
  PROVE  OnceInv(d)'
<1>1. UNCHANGED <<log, handling, toServer, topicMsgMap, applied, checking>>
  BY DEF deniedListener, storage, watches, client
<1>2. keepsAsked(d) /\ keepsHandled(d) /\ keepsLog(d) /\ keepsApplied
  BY <1>1, OnceSame
<1>3. keepsRequested(d)
  <2>1. CASE UNCHANGED requests
    BY <2>1, OnceSame
  <2>2. CASE ~UNCHANGED requests
    <3>1. PICK r \in Request : r.message = "EXISTS" /\ requests' = Append(requests, r)
      BY <2>2, DeniedFacts
    <3> QED
      BY <3>1, RequestedMore
  <2> QED
    BY <2>1, <2>2
<1>4. confirmed(toClient'[d]) = confirmed(toClient[d])
  <2>1. CASE UNCHANGED toClient
    BY <2>1
  <2>2. CASE ~UNCHANGED toClient
    <3>1. PICK a \in Answer, c \in Client :
            a.message = "REJECT" /\ toClient' = [toClient EXCEPT ![c] = Append(@, a)]
      BY <2>2, DeniedFacts
    <3>2. toClient \in [Client -> Seq(Answer)]
      BY DEF TypeOK
    <3>3. PICK q \in Seq(Answer) : q = toClient[c]
      BY <3>2
    <3>4. confirmed(Append(q, a)) = confirmed(q)
      BY <3>1, AppendKeeps
    <3>5. toClient'[c] = Append(q, a) /\ \A e \in Client \ {c} : toClient'[e] = toClient[e]
      BY <3>1, <3>2, <3>3
    <3> QED
      BY <3>3, <3>4, <3>5
  <2> QED
    BY <2>1, <2>2
<1>5. keepsAnswered(d)
  BY <1>1, <1>4, AnsweredMore
<1> QED
  BY <1>2, <1>3, <1>5, OnceKept

\* A subscription that is accepted was on its way.
LEMMA ProcessOnce ==
  ASSUME TypeOK, TypeOK', processRequest, NEW d \in Client, OnceInv(d)
  PROVE  OnceInv(d)'
<1>1. UNCHANGED <<handling, toServer, toClient, topicMsgMap, applied, checking>>
  BY ZenonT(60) DEF processRequest, storage, watches, client
<1>2. keepsAsked(d) /\ keepsHandled(d) /\ keepsApplied /\ keepsAnswered(d)
  BY <1>1, OnceSame, AnsweredMore
<1>3. PICK q \in Seq(Request) : q = requests /\ q # << >> /\ requests' = Tail(q)
  BY ProcessFacts DEF TypeOK
<1>4. atMostOne(passed(q, d)) /\ passed(requests, d) = passed(q, d) /\ passed(requests, d)' = passed(Tail(q), d)
  BY <1>3 DEF OnceInv, passed
<1>5. keepsRequested(d)
  BY <1>3, <1>4, PassedTail DEF keepsRequested
<1>6. CASE UNCHANGED log
  BY <1>2, <1>5, <1>6, OnceSame, OnceKept
<1>7. CASE ~UNCHANGED log
  <2>1. PICK e \in Request : /\ log' = Append(log, e)
                             /\ e.message = Head(q).message /\ e.client = Head(q).client
    BY <1>3, <1>7, ProcessFacts
  <2>2. CASE e.message = "SUBSCRIBE" /\ e.client = d
    <3>1. passed(requests, d) # {} /\ passed(requests, d)' = {}
      BY <1>3, <1>4, <2>1, <2>2, PassedTail
    <3>2. asked(toServer[d]) = {} /\ handled(d) = {} /\ passed(log, d) = {} /\ ~answered(d)
      BY <3>1 DEF OnceInv
    <3>3. asked(toServer[d])' = {} /\ handled(d)' = {} /\ ~answered(d)'
      BY <1>1, <3>2 DEF asked, handled, answered, confirmed
    <3>4. topicMsgMap'[d] = 0 /\ confirmed(toClient[d])' = {}
      BY <3>3 DEF answered
    <3>5. atMostOne(passed(log, d))'
      <4>1. PICK l \in Seq(Request \cup Publication) : l = log
        BY DEF TypeOK
      <4>2. atMostOne(passed(Append(l, e), d))
        BY <3>2, <4>1, AppendKeeps
      <4> QED
        BY <2>1, <4>1, <4>2 DEF passed, atMostOne
    <3> QED
      BY <3>1, <3>3, <3>4, <3>5 DEF OnceInv, atMostOne
  <2>3. CASE ~(e.message = "SUBSCRIBE" /\ e.client = d)
    <3>1. keepsLog(d)
      BY <2>1, <2>3, LoggedMore
    <3> QED
      BY <1>2, <1>5, <3>1, OnceKept
  <2> QED
    BY <2>2, <2>3
<1> QED
  BY SMTT(60), <1>6, <1>7

\* A message of the topic is no subscription.
LEMMA PublishOnce ==
  ASSUME TypeOK, TypeOK', publish, NEW d \in Client, OnceInv(d)
  PROVE  OnceInv(d)'
<1>1. UNCHANGED <<handling, toServer, toClient, topicMsgMap, applied, checking, requests>>
  BY DEF publish, storage, watches, client
<1>2. /\ keepsAsked(d) /\ keepsHandled(d) /\ keepsApplied /\ keepsAnswered(d)
      /\ keepsRequested(d)
  BY <1>1, OnceSame, AnsweredMore
<1>3. keepsLog(d)
  <2>1. PICK e \in Publication : log' = Append(log, e)
    BY PublishType
  <2>2. e.message # "SUBSCRIBE"
    BY DEF Publication
  <2> QED
    BY <2>1, <2>2, LoggedMore
<1> QED
  BY <1>2, <1>3, OnceKept

\* What a crash leaves of the requests has no subscription twice.
LEMMA PickedOnce ==
  ASSUME NEW S, NEW q \in Seq(S), NEW I \in SUBSET (1..Len(q)), NEW d, atMostOne(passed(q, d))
  PROVE  shrinks(passed(q, d), passed(pick(q, I), d))
<1>1. PICK p : p = pick(q, I)
  OBVIOUS
<1>2. /\ DOMAIN p = 1..Cardinality(I)
      /\ \A k \in 1..Cardinality(I) : \E i \in I : p[k] = q[i] /\ rank(I, i) = k
  BY <1>1, PickFacts
<1>3. DOMAIN q = 1..Len(q)
  BY LenProperties
<1>4. \A k \in passed(p, d) : \E i \in passed(q, d) : rank(I, i) = k
  BY <1>2, <1>3 DEF passed
<1>5. atMostOne(passed(p, d)) /\ (passed(p, d) # {} => passed(q, d) # {})
  BY <1>4 DEF atMostOne
<1> QED
  BY <1>1, <1>5 DEF shrinks

\* A crash makes no subscription.
LEMMA CrashOnce ==
  ASSUME TypeOK, TypeOK', NEW s \in Server, Crash(s), NEW d \in Client, OnceInv(d)
  PROVE  OnceInv(d)'
<1>1. /\ UNCHANGED <<log, toClient, topicMsgMap, applied>>
      /\ handling' = [handling EXCEPT ![s] = Idle] /\ checking' = checking \ {s}
      /\ toServer' = [c \in Client |-> IF connectedServer[c] = s THEN << >> ELSE toServer[c]]
  BY DEF Crash, client
<1>2. keepsLog(d) /\ keepsAnswered(d)
  BY <1>1, OnceSame, AnsweredMore
<1>3. keepsApplied
  <2>1. \A t \in Server : applied[t] \in Nat
    BY DEF TypeOK
  <2> QED
    BY <1>1, <2>1 DEF keepsApplied
<1>4. keepsHandled(d)
  <2>1. Idle.message # "SUBSCRIBE"
    BY DEF Idle
  <2> QED
    BY <1>1, <2>1, HandledSame
<1>5. keepsAsked(d)
  <2>1. CASE toServer'[d] = toServer[d]
    BY <2>1, OnceSame
  <2>2. CASE toServer'[d] = << >>
    <3>1. asked(toServer[d])' = {}
      BY <2>2 DEF asked
    <3> QED
      BY <3>1 DEF keepsAsked, shrinks, atMostOne
  <2> QED
    BY <1>1, <2>1, <2>2
<1>6. keepsRequested(d)
  <2>1. PICK I : I = {i \in DOMAIN requests : requests[i].origin # s}
    OBVIOUS
  <2>2. requests' = requests \/ requests' = pick(requests, I)
    BY <2>1 DEF Crash
  <2>3. requests \in Seq(Request) /\ I \in SUBSET (1..Len(requests))
    BY <2>1, LenProperties DEF TypeOK
  <2>4. CASE requests' = requests
    BY <2>4, OnceSame
  <2>5. CASE requests' = pick(requests, I)
    <3>1. atMostOne(passed(requests, d))
      BY DEF OnceInv
    <3>2. shrinks(passed(requests, d), passed(pick(requests, I), d))
      BY <2>3, <3>1, PickedOnce
    <3>3. passed(requests, d)' = passed(pick(requests, I), d)
      BY <2>5 DEF passed
    <3> QED
      BY <3>2, <3>3 DEF keepsRequested
  <2> QED
    BY <2>2, <2>4, <2>5
<1> QED
  BY <1>2, <1>3, <1>4, <1>5, <1>6, OnceKept

\* Every step keeps the subscriptions.
LEMMA OnceStep ==
  ASSUME PubSubInv, TypeOK', [Next]_vars, NEW d \in Client
  PROVE  OnceInv(d)'
<1>1. TypeOK /\ HandlerInv /\ OnceInv(d) /\ \A c \in Client : OnceInv(c) /\ GapInv(c)
  BY DEF PubSubInv
<1>2. CASE UNCHANGED vars
  <2>1. UNCHANGED <<handling, requests, log, applied, checking, toServer, toClient, topicMsgMap>>
    BY <1>2 DEF vars, coordinator, storage, watches, client
  <2> QED
    BY <1>1, <2>1, OnceSame, AnsweredMore, OnceKept
<1>3. ASSUME NEW c \in Client, subscribe(c) \/ listener(c) \/ reconnect(c) \/ mainListener(c)
      PROVE  OnceInv(d)'
  BY <1>1, <1>3, SubscribeOnce, ListenerOnce, ReconnectOnce, MainOnce
<1>4. ASSUME NEW s \in Server,
             \/ Encode_watch(s) \/ addWatch(s) \/ Write(s) \/ Check_watch(s)
             \/ deniedListener(s) \/ Crash(s)
      PROVE  OnceInv(d)'
  BY <1>1, <1>4, EncodeOnce, AddWatchOnce, WriteOnce, CheckOnce, DeniedOnce, CrashOnce
<1>5. CASE processRequest \/ publish
  BY <1>1, <1>5, ProcessOnce, PublishOnce
<1> QED
  BY <1>2, <1>3, <1>4, <1>5 DEF Next

-----------------------------------------------------------------------------
(* No gap *)

\* What was taken from a queue of answers was the head: the next is now first.
LEMMA AnswersTail ==
  ASSUME NEW q \in Seq(Answer), q # << >>, NEW r \in Nat, NEW t, NEW u, NEW x \in Nat,
         answersOK(q, r, t), t # 0 => u # 0,
         t # 0 => x >= r,
         Head(q).message = "SUBSCRIBED_MESSAGE" => x >= Head(q).n
  PROVE  answersOK(Tail(q), x, u)
<1>1. /\ Len(q) \in Nat /\ Len(q) >= 1 /\ Head(q) = q[1] /\ Tail(q) \in Seq(Answer)
      /\ Len(Tail(q)) = Len(q) - 1
      /\ \A i \in 1..(Len(q) - 1) : Tail(q)[i] = q[i + 1]
  BY HeadFacts
<1>2. DOMAIN q = 1..Len(q) /\ DOMAIN Tail(q) = 1..(Len(q) - 1)
  BY <1>1, LenProperties
<1>3. \A i \in 1..Len(q) : q[i] \in Answer /\ q[i].n \in Nat
  <2>1. \A a \in Answer : a.n \in Nat
    BY PubSubAssumption DEF Answer, Number
  <2> QED
    BY <2>1, ElementOfSeq
<1> SUFFICES ASSUME NEW i \in 1..(Len(q) - 1)
             PROVE  LET m == Tail(q)[i].message n == Tail(q)[i].n IN
               /\ m \in {"SUBSCRIBE_OK", "SUBSCRIBED_MESSAGE", "GET_SUBSCRIPTION_OK"} => n >= 1
               /\ m \in {"SUBSCRIBED_MESSAGE", "GET_SUBSCRIPTION_OK", "EXISTS_OK"} => u # 0
               /\ m \in {"SUBSCRIBED_MESSAGE", "GET_SUBSCRIPTION_OK"} => follows(Tail(q), i, x)
  BY <1>2 DEF answersOK
<1>4. Tail(q)[i] = q[i + 1] /\ i + 1 \in 1..Len(q) /\ q[i + 1].n \in Nat /\ i \in Nat
  BY <1>1, <1>3
<1>5. /\ q[i + 1].message \in {"SUBSCRIBE_OK", "SUBSCRIBED_MESSAGE", "GET_SUBSCRIPTION_OK"}
           => q[i + 1].n >= 1
      /\ q[i + 1].message \in {"SUBSCRIBED_MESSAGE", "GET_SUBSCRIPTION_OK", "EXISTS_OK"} => t # 0
      /\ q[i + 1].message \in {"SUBSCRIBED_MESSAGE", "GET_SUBSCRIPTION_OK"} => follows(q, i + 1, r)
  BY <1>2, <1>4 DEF answersOK
<1>6. ASSUME follows(q, i + 1, r), x >= r PROVE follows(Tail(q), i, x)
  <2>1. CASE q[i + 1].n <= r + 1
    BY SMTT(60), <1>4, <1>6, <2>1 DEF follows
  <2>2. CASE ~(q[i + 1].n <= r + 1)
    <3>1. q[i] = Message("SUBSCRIBED_MESSAGE", q[i + 1].n - 1)
      BY <1>4, <1>6, <2>2 DEF follows
    <3>2. q[i].message = "SUBSCRIBED_MESSAGE" /\ q[i].n = q[i + 1].n - 1
      BY <3>1 DEF Message
    <3>3. CASE i = 1
      <4>1. x >= q[i + 1].n - 1
        BY <1>1, <3>2, <3>3
      <4> QED
        BY <1>4, <4>1 DEF follows
    <3>4. CASE i # 1
      <4>1. i - 1 \in 1..(Len(q) - 1) /\ i > 1 /\ (i - 1) + 1 = i
        BY <1>1, <3>4
      <4>2. Tail(q)[i - 1] = q[i]
        BY <1>1, <4>1
      <4> QED
        BY <1>4, <3>1, <4>1, <4>2 DEF follows
    <3> QED
      BY <3>3, <3>4
  <2> QED
    BY <2>1, <2>2
<1> QED
  BY <1>4, <1>5, <1>6

\* Two queues of answers, one after the other.
LEMMA AnswersConcat ==
  ASSUME NEW q \in Seq(Answer), NEW w \in Seq(Answer), NEW r, NEW t,
         answersOK(q, r, t), answersOK(w, r, t)
  PROVE  answersOK(q \o w, r, t)
<1>1. /\ Len(q) \in Nat /\ DOMAIN q = 1..Len(q) /\ Len(w) \in Nat /\ DOMAIN w = 1..Len(w)
  BY LenProperties
<1>2. /\ q \o w \in Seq(Answer) /\ Len(q \o w) = Len(q) + Len(w)
      /\ \A i \in 1..(Len(q) + Len(w)) : (q \o w)[i] = IF i <= Len(q) THEN q[i] ELSE w[i - Len(q)]
  BY ConcatProperties
<1>3. DOMAIN (q \o w) = 1..(Len(q) + Len(w))
  BY <1>2, LenProperties
<1>4. PICK p : p = q \o w
  OBVIOUS
<1>5. PICK m \in Nat, n \in Nat : m = Len(q) /\ n = Len(w)
  BY ZenonT(60), <1>1
<1>6. /\ DOMAIN p = 1..(m + n) /\ DOMAIN q = 1..m /\ DOMAIN w = 1..n
      /\ \A i \in 1..(m + n) : p[i] = IF i <= m THEN q[i] ELSE w[i - m]
  BY <1>1, <1>2, <1>3, <1>4, <1>5
<1> SUFFICES ASSUME NEW i \in 1..(m + n)
             PROVE  LET x == p[i].message IN
               /\ x \in {"SUBSCRIBE_OK", "SUBSCRIBED_MESSAGE", "GET_SUBSCRIPTION_OK"} => p[i].n >= 1
               /\ x \in {"SUBSCRIBED_MESSAGE", "GET_SUBSCRIPTION_OK", "EXISTS_OK"} => t # 0
               /\ x \in {"SUBSCRIBED_MESSAGE", "GET_SUBSCRIPTION_OK"} => follows(p, i, r)
  BY <1>4, <1>6 DEF answersOK
<1>7. CASE i <= m
  <2>1. i \in 1..m /\ i \in Nat /\ p[i] = q[i]
    BY <1>6, <1>7
  <2>2. i > 1 => p[i - 1] = q[i - 1]
    <3>1. i > 1 => i - 1 \in 1..(m + n) /\ i - 1 <= m
      BY <2>1
    <3> QED
      BY <1>6, <3>1
  <2>3. follows(q, i, r) => follows(p, i, r)
    BY <2>1, <2>2 DEF follows
  <2> QED
    BY <1>6, <2>1, <2>3 DEF answersOK
<1>8. CASE ~(i <= m)
  <2>1. PICK k \in 1..n : k = i - m /\ k \in Nat
    BY <1>8
  <2>2. p[i] = w[k]
    BY <1>6, <1>8, <2>1
  <2>3. k > 1 => p[i - 1] = w[k - 1] /\ i > 1
    <3>1. k > 1 => i - 1 \in 1..(m + n) /\ ~(i - 1 <= m) /\ (i - 1) - m = k - 1 /\ i > 1
      BY <1>8, <2>1
    <3> QED
      BY <1>6, <3>1
  <2>4. follows(w, k, r) => follows(p, i, r)
    BY <2>2, <2>3 DEF follows
  <2> QED
    BY <1>6, <2>1, <2>2, <2>4 DEF answersOK
<1> QED
  BY <1>7, <1>8

\* An answer of no message at the end of a queue.
LEMMA AnswersAppend ==
  ASSUME NEW q \in Seq(Answer), NEW a \in Answer, NEW r, NEW t, answersOK(q, r, t),
         a.message \notin {"SUBSCRIBED_MESSAGE", "GET_SUBSCRIPTION_OK"},
         a.message = "SUBSCRIBE_OK" => a.n >= 1,
         a.message = "EXISTS_OK" => t # 0
  PROVE  answersOK(Append(q, a), r, t)
<1>1. <<a>> \in Seq(Answer) /\ Append(q, a) = q \o <<a>>
  BY AppendIsConcat
<1>2. DOMAIN <<a>> = {1} /\ <<a>>[1] = a
  OBVIOUS
<1>3. answersOK(<<a>>, r, t)
  BY <1>2 DEF answersOK
<1> QED
  BY <1>1, <1>3, AnswersConcat

\* Answers that watches were triggered, at the end of a queue.
LEMMA AnswersTriggered ==
  ASSUME NEW q \in Seq(Answer), NEW w \in Seq(Answer), NEW r, NEW t, answersOK(q, r, t),
         \A i \in DOMAIN w : w[i].message = "WATCH_TRIGGER"
  PROVE  answersOK(q \o w, r, t) /\ q \o w \in Seq(Answer)
<1>1. answersOK(w, r, t)
  BY DEF answersOK
<1> QED
  BY <1>1, AnswersConcat, ConcatProperties

\* Messages from the next one on, in their order, at the end of a queue.
LEMMA AnswersBatch ==
  ASSUME NEW q \in Seq(Answer), NEW w \in Seq(Answer), NEW r \in Nat, NEW t, answersOK(q, r, t),
         t # 0, NEW k \in Nat, k >= 1, k <= r + 1, NEW N \in Nat, Len(w) = N + 1,
         \A i \in 1..N : w[i] = Message("SUBSCRIBED_MESSAGE", k + i - 1),
         w[N + 1] = Message("GET_SUBSCRIPTION_OK", k + N)
  PROVE  answersOK(q \o w, r, t)
<1>1. DOMAIN w = 1..(N + 1)
  BY LenProperties
<1>2. \A x, y : Message(x, y).message = x /\ Message(x, y).n = y
  BY DEF Message
<1>3. ASSUME NEW i \in 1..(N + 1)
      PROVE  /\ w[i].message \in {"SUBSCRIBED_MESSAGE", "GET_SUBSCRIPTION_OK"}
             /\ w[i].n = k + i - 1
  <2>1. CASE i \in 1..N
    BY <1>2, <2>1
  <2>2. CASE i = N + 1
    <3>1. k + N = k + i - 1
      BY <2>2
    <3> QED
      BY <1>2, <2>2, <3>1
  <2> QED
    BY <2>1, <2>2
<1>4. ASSUME NEW i \in 1..(N + 1)
      PROVE  w[i].n >= 1 /\ follows(w, i, r)
  <2>1. w[i].n = k + i - 1 /\ i \in Nat /\ i >= 1
    BY <1>3
  <2>2. CASE i = 1
    BY <2>1, <2>2 DEF follows
  <2>3. CASE i # 1
    <3>1. i - 1 \in 1..N /\ k + (i - 1) - 1 = w[i].n - 1 /\ i > 1
      BY <2>1, <2>3
    <3>2. w[i - 1] = Message("SUBSCRIBED_MESSAGE", w[i].n - 1)
      BY <3>1
    <3> QED
      BY <2>1, <3>1, <3>2 DEF follows
  <2> QED
    BY <2>2, <2>3
<1>5. answersOK(w, r, t)
  BY <1>1, <1>3, <1>4 DEF answersOK
<1> QED
  BY <1>5, AnswersConcat

\* The questions of a client that has gone on, and those behind the first.
LEMMA QuestionsFacts ==
  ASSUME NEW q \in Seq(Question), NEW r \in Nat, NEW t, questionsOK(q, r, t)
  PROVE  /\ \A x \in Nat : \A u : (t # 0 => u # 0 /\ x >= r) => questionsOK(q, x, u)
         /\ q # << >> => questionsOK(Tail(q), r, t)
<1>1. Len(q) \in Nat /\ DOMAIN q = 1..Len(q) /\ \A i \in 1..Len(q) : q[i].n \in Nat
  <2>1. \A m \in Question : m.n \in Nat
    BY PubSubAssumption DEF Question, Number
  <2> QED
    BY <2>1, ElementOfSeq, LenProperties
<1>2. ASSUME NEW x \in Nat, NEW u, t # 0 => u # 0 /\ x >= r
      PROVE  questionsOK(q, x, u)
  BY <1>1, <1>2 DEF questionsOK
<1>3. ASSUME q # << >> PROVE questionsOK(Tail(q), r, t)
  <2>1. /\ Len(q) >= 1 /\ Tail(q) \in Seq(Question) /\ Len(Tail(q)) = Len(q) - 1
        /\ \A i \in 1..(Len(q) - 1) : Tail(q)[i] = q[i + 1]
    BY <1>3, HeadFacts
  <2>2. DOMAIN Tail(q) = 1..(Len(q) - 1)
    BY <2>1, LenProperties
  <2>3. \A i \in 1..(Len(q) - 1) : i + 1 \in DOMAIN q
    BY <1>1
  <2> QED
    BY <2>1, <2>2, <2>3 DEF questionsOK
<1> QED
  BY <1>2, <1>3

\* Another question.
LEMMA QuestionsAppend ==
  ASSUME NEW q \in Seq(Question), NEW r \in Nat, NEW t, questionsOK(q, r, t), NEW m \in Question,
         m.message \in {"GET_SUBSCRIPTION", "EXISTS"} => t # 0 /\ m.n >= 1,
         m.message = "GET_SUBSCRIPTION" => m.n <= r + 1
  PROVE  questionsOK(Append(q, m), r, t)
<1>1. /\ Append(q, m) \in Seq(Question) /\ Len(q) \in Nat /\ Len(Append(q, m)) = Len(q) + 1
      /\ \A i \in 1..Len(q) : Append(q, m)[i] = q[i]
      /\ Append(q, m)[Len(q) + 1] = m
  BY AppendFacts
<1>2. DOMAIN q = 1..Len(q) /\ DOMAIN Append(q, m) = 1..(Len(q) + 1)
  BY <1>1, LenProperties
<1>3. \A i \in 1..(Len(q) + 1) : i \in 1..Len(q) \/ i = Len(q) + 1
  BY <1>1
<1> QED
  BY <1>1, <1>2, <1>3 DEF questionsOK

\* The numbers of a client.
LEMMA ClientFacts ==
  ASSUME TypeOK, NEW d \in Client
  PROVE  /\ topicMsgMap[d] \in Nat /\ received[d] \in Nat /\ topicMsgMap[d] \in Number
         /\ toServer[d] \in Seq(Question) /\ toClient[d] \in Seq(Answer)
BY ConstantFacts DEF TypeOK

\* A step in which nothing new is said to a client or by it.
LEMMA GapKept ==
  ASSUME NEW d \in Client, GapInv(d), UNCHANGED <<topicMsgMap, received>>,
         questionsOK(toServer'[d], received[d], topicMsgMap[d]),
         answersOK(toClient'[d], received[d], topicMsgMap[d]),
         \A s \in Server : handling'[s].message = "EXISTS" /\ handling'[s].client = d
                             => topicMsgMap[d] # 0
  PROVE  GapInv(d)'
BY DEF GapInv, questionsOK, answersOK, follows

\* The listener asks for no message beyond the next one.
LEMMA ListenerGap ==
  ASSUME TypeOK, TypeOK', NEW c \in Client, listener(c), OnceInv(c), GapInv(c),
         NEW d \in Client, GapInv(d)
  PROVE  GapInv(d)'
<1>1. PICK a : a = Head(toClient[c])
  OBVIOUS
<1>2. PICK q \in Seq(Answer) : q = toClient[c] /\ q # << >> /\ toClient'[c] = Tail(q) /\ a = Head(q)
  BY <1>1, ListenerFacts
<1>3. PICK p \in Seq(Question) : p = toServer[c]
  BY DEF TypeOK
<1>4. PICK t \in Nat, r \in Nat : t = topicMsgMap[c] /\ r = received[c]
  BY ConstantFacts DEF TypeOK
<1>5. a \in Answer /\ a.n \in Nat /\ a.n \in Number
  BY <1>1, ListenerFacts, ConstantFacts DEF Answer
<1>6. /\ \A e \in Client \ {c} : toClient'[e] = toClient[e]
      /\ UNCHANGED handling
  BY <1>1, ListenerFacts, ListenerCases
<1>7. /\ t <= r + 1 /\ questionsOK(p, r, t) /\ answersOK(q, r, t)
      /\ \A s \in Server : handling[s].message = "EXISTS" /\ handling[s].client = c => t # 0
  BY <1>2, <1>3, <1>4 DEF GapInv
<1>8. topicMsgMap \in [Client -> Number] /\ received \in [Client -> Number]
  BY DEF TypeOK
<1>9. CASE d # c
  <2>1. toServer'[d] = toServer[d]
    <3>1. /\ Message("EXISTS", a.n) \in Question
          /\ Message("GET_SUBSCRIPTION", topicMsgMap[c]) \in Question
      BY <1>5, <1>8, MessageTypes
    <3>2. \/ UNCHANGED toServer
          \/ send(c, <<Message("EXISTS", a.n)>>)
          \/ send(c, <<Message("GET_SUBSCRIPTION", topicMsgMap[c])>>)
      BY <1>1, <1>5, ListenerCases DEF Answer
    <3> QED
      BY <1>9, <3>1, <3>2, SendFacts
  <2>2. topicMsgMap'[d] = topicMsgMap[d] /\ received'[d] = received[d]
    <3>1. topicMsgMap' = topicMsgMap \/ topicMsgMap' = [topicMsgMap EXCEPT ![c] = a.n]
      BY <1>1, <1>5, ListenerCases DEF Answer
    <3>2. \/ received' = received
          \/ \E x : received' = [received EXCEPT ![c] = x]
      BY ZenonT(60), <1>1, <1>5, ListenerCases DEF Answer
    <3> QED
      BY <1>8, <1>9, <3>1, <3>2
  <2>3. toClient'[d] = toClient[d]
    BY <1>6, <1>9
  <2> QED
    BY <1>6, <2>1, <2>2, <2>3 DEF GapInv, questionsOK, answersOK, follows
<1>10. CASE d = c
  <2> PICK T, R : T = topicMsgMap'[c] /\ R = received'[c]
    OBVIOUS
  <2>1. SUFFICES /\ T <= R + 1
                 /\ questionsOK(toServer'[c], R, T)
                 /\ answersOK(Tail(q), R, T)
                 /\ \A s \in Server : handling[s].message = "EXISTS" /\ handling[s].client = c => T # 0
    BY ZenonT(60), <1>2, <1>6, <1>10, <2>1 DEF GapInv, questionsOK, answersOK, follows
  <2>2. CASE a.message = "SUBSCRIBE_OK"
    <3>1. a.n >= 1 /\ t = 0 /\ UNCHANGED toServer
      BY <1>1, <1>4, <2>2, ListenerCases
    <3>2. T = a.n /\ R = a.n - 1
      <4>1. /\ topicMsgMap' = [topicMsgMap EXCEPT ![c] = a.n]
            /\ received' = [received EXCEPT ![c] = a.n - 1]
        BY <1>1, <2>2, ListenerCases
      <4> QED
        BY <1>8, <4>1
    <3>3. PICK x \in Nat : x = a.n - 1
      BY <1>5, <3>1
    <3>4. questionsOK(p, x, a.n)
      BY <1>7, <3>1, QuestionsFacts
    <3>5. Head(q).message # "SUBSCRIBED_MESSAGE" /\ ~(t # 0)
      BY <1>2, <2>2, <3>1
    <3>6. answersOK(Tail(q), x, a.n)
      BY <1>2, <1>7, <3>5, AnswersTail
    <3> QED
      BY <1>3, <1>5, <1>7, <3>1, <3>2, <3>3, <3>4, <3>6
  <2>3. CASE a.message = "SUBSCRIBED_MESSAGE"
    <3>1. T = t /\ R = (IF a.n > r THEN a.n ELSE r) /\ t # 0 /\ UNCHANGED toServer
      <4>1. /\ UNCHANGED <<topicMsgMap, toServer>> /\ t # 0
            /\ received' = [received EXCEPT ![c] = IF a.n > @ THEN a.n ELSE @]
        BY <1>1, <1>4, <2>3, ListenerCases
      <4> QED
        BY <1>4, <1>8, <4>1
    <3>2. PICK x \in Nat : x = R /\ x >= r /\ x >= a.n
      BY <1>5, <3>1
    <3>3. questionsOK(p, x, t)
      BY <1>7, <3>2, QuestionsFacts
    <3>4. x >= Head(q).n
      BY <1>2, <3>2
    <3>5. answersOK(Tail(q), x, t)
      BY <1>2, <1>7, <3>2, <3>4, AnswersTail
    <3>6. t <= x + 1
      BY <1>7, <3>2
    <3> QED
      BY <1>3, <1>7, <3>1, <3>2, <3>3, <3>5, <3>6
  <2>4. CASE a.message = "GET_SUBSCRIPTION_OK"
    <3>1. /\ T = a.n /\ R = r /\ t # 0 /\ a.n >= 1 /\ a.n <= r + 1
          /\ send(c, <<Message("EXISTS", a.n)>>)
      <4>1. /\ topicMsgMap' = [topicMsgMap EXCEPT ![c] = a.n] /\ UNCHANGED received
            /\ t # 0 /\ a.n >= 1 /\ a.n <= r + 1
            /\ send(c, <<Message("EXISTS", a.n)>>)
        BY <1>1, <1>4, <2>4, ListenerCases
      <4> QED
        BY <1>4, <1>8, <4>1
    <3>2. PICK m \in Question : m = Message("EXISTS", a.n) /\ m.message = "EXISTS" /\ m.n = a.n
      BY <1>5, MessageTypes
    <3>3. toServer'[c] = p \/ toServer'[c] = Append(p, m)
      BY <1>3, <3>1, <3>2, SendFacts
    <3>4. a.n # 0 /\ r >= r /\ Head(q).message # "SUBSCRIBED_MESSAGE"
      BY <1>2, <2>4, <3>1
    <3>5. questionsOK(p, r, a.n)
      BY <1>7, <3>4, QuestionsFacts
    <3>6. answersOK(Tail(q), r, a.n)
      BY <1>2, <1>7, <3>4, AnswersTail
    <3>7. questionsOK(Append(p, m), r, a.n)
      BY <1>5, <3>1, <3>2, <3>5, QuestionsAppend
    <3>8. questionsOK(toServer'[c], r, a.n)
      BY <3>3, <3>5, <3>7
    <3>9. a.n <= r + 1 /\ a.n # 0
      BY <3>1, <3>4
    <3> QED
      BY <3>1, <3>6, <3>8, <3>9
  <2>5. CASE a.message \in {"WATCH_TRIGGER", "EXISTS_OK", "REJECT"}
    <3>1. /\ T = t /\ R = r
          /\ \/ UNCHANGED toServer
             \/ t # 0 /\ send(c, <<Message("GET_SUBSCRIPTION", t)>>)
      BY <1>1, <1>4, <2>5, ListenerCases
    <3>2. answersOK(Tail(q), r, t)
      BY <1>2, <1>7, <2>5, AnswersTail
    <3>3. questionsOK(toServer'[c], r, t)
      <4>1. CASE UNCHANGED toServer
        BY <1>3, <1>7, <4>1
      <4>2. CASE ~UNCHANGED toServer
        <5>1. t # 0 /\ send(c, <<Message("GET_SUBSCRIPTION", t)>>)
          BY <3>1, <4>2
        <5>2. t \in Number
          BY <1>4, <1>8
        <5>3. PICK m \in Question : m = Message("GET_SUBSCRIPTION", t) /\ m.n = t
          BY <5>2, MessageTypes
        <5>4. toServer'[c] = p \/ toServer'[c] = Append(p, m)
          BY <1>3, <5>1, <5>3, SendFacts
        <5>5. questionsOK(Append(p, m), r, t)
          BY <1>7, <5>1, <5>3, QuestionsAppend
        <5> QED
          BY <1>7, <5>4, <5>5
      <4> QED
        BY <4>1, <4>2
    <3> QED
      BY <1>7, <3>1, <3>2, <3>3
  <2> QED
    BY <1>5, <2>2, <2>3, <2>4, <2>5 DEF Answer
<1> QED
  BY <1>9, <1>10

\* What a server takes up it answers with no message beyond the next one.
LEMMA MainGap ==
  ASSUME TypeOK, TypeOK', NEW c \in Client, mainListener(c), NEW d \in Client, GapInv(d),
         GapInv(c)
  PROVE  GapInv(d)'
<1>1. PICK s \in Server : s = connectedServer[c]
  BY SMTT(60), MainFacts
<1>2. PICK p \in Seq(Question) : p = toServer[c] /\ p # << >>
  BY MainFacts DEF mainListener
<1>3. PICK m \in Question : m = Head(p) /\ m = p[1] /\ 1 \in DOMAIN p
  BY <1>2, MainFacts
<1>4. /\ UNCHANGED <<topicMsgMap, received>>
      /\ toServer' = [toServer EXCEPT ![c] = Tail(p)]
  BY <1>2, MainFacts
<1>5. toServer'[c] = Tail(p) /\ \A e \in Client \ {c} : toServer'[e] = toServer[e]
  BY <1>4 DEF TypeOK
<1>6. PICK t \in Nat, r \in Nat : t = topicMsgMap[c] /\ r = received[c]
  BY ClientFacts
<1>7. questionsOK(p, r, t) /\ questionsOK(Tail(p), r, t)
  <2>1. questionsOK(p, r, t)
    BY <1>2, <1>6 DEF GapInv
  <2> QED
    BY <1>2, <2>1, QuestionsFacts
<1>8. questionsOK(toServer'[d], received[d], topicMsgMap[d])
  <2>1. CASE d = c
    BY <1>5, <1>6, <1>7, <2>1
  <2>2. CASE d # c
    BY <1>5, <2>2 DEF GapInv
  <2> QED
    BY <2>1, <2>2
<1>9. /\ answersOK(toClient[d], received[d], topicMsgMap[d])
      /\ \A u \in Server : handling[u].message = "EXISTS" /\ handling[u].client = d
                             => topicMsgMap[d] # 0
  BY DEF GapInv
<1>10. toClient[c] \in Seq(Answer) /\ toClient \in [Client -> Seq(Answer)]
  BY DEF TypeOK
<1>11. CASE m.message = "SUBSCRIBE"
  <2>1. PICK h : h = [message |-> "SUBSCRIBE", client |-> c, path |-> messages(s) + 1,
                      exists |-> FALSE, data |-> << >>]
    OBVIOUS
  <2>2. handling' = [handling EXCEPT ![s] = h] /\ UNCHANGED toClient
    BY <1>1, <1>2, <1>3, <1>11, <2>1 DEF mainListener
  <2>3. \A u \in Server : handling'[u].message = "EXISTS" /\ handling'[u].client = d
                            => topicMsgMap[d] # 0
    BY <1>9, <2>1, <2>2 DEF TypeOK
  <2> QED
    BY <1>4, <1>8, <1>9, <2>2, <2>3, GapKept
<1>12. CASE m.message = "EXISTS"
  <2>1. PICK h : h = [message |-> "EXISTS", client |-> c, path |-> m.n,
                      exists |-> m.n <= messages(s), data |-> << >>]
    OBVIOUS
  <2>2. handling' = [handling EXCEPT ![s] = h] /\ UNCHANGED toClient
    BY <1>1, <1>2, <1>3, <1>12, <2>1 DEF mainListener
  <2>3. topicMsgMap[c] # 0
    BY <1>3, <1>6, <1>7, <1>12 DEF questionsOK
  <2>4. \A u \in Server : handling'[u].message = "EXISTS" /\ handling'[u].client = d
                            => topicMsgMap[d] # 0
    BY <1>9, <2>1, <2>2, <2>3 DEF TypeOK
  <2> QED
    BY <1>4, <1>8, <1>9, <2>2, <2>4, GapKept
<1>13. CASE m.message = "GET_SUBSCRIPTION"
  <2>1. PICK k \in Nat : k = m.n /\ k \in Number
    BY ConstantFacts DEF Question
  <2>2. k >= 1 /\ k <= r + 1 /\ t # 0
    BY <1>3, <1>7, <1>13, <2>1 DEF questionsOK
  <2>3. PICK w : w = get_subscription(s, k)
    OBVIOUS
  <2>4. toClient' = [toClient EXCEPT ![c] = @ \o w] /\ UNCHANGED handling
    BY <1>1, <1>2, <1>3, <1>13, <2>1, <2>3 DEF mainListener
  <2>5. PICK N \in Nat :
          /\ w \in Seq(Answer) /\ Len(w) = N + 1
          /\ \A i \in 1..N : w[i] = Message("SUBSCRIBED_MESSAGE", k + i - 1)
          /\ w[N + 1] = Message("GET_SUBSCRIPTION_OK", k + N)
    BY ZenonT(60), <2>1, <2>3, GetSubscriptionFacts
  <2>6. answersOK(toClient[c], r, t)
    BY <1>6 DEF GapInv
  <2>7. answersOK(toClient[c] \o w, r, t)
    BY <1>10, <2>2, <2>5, <2>6, AnswersBatch
  <2>8. toClient'[c] = toClient[c] \o w /\ \A e \in Client \ {c} : toClient'[e] = toClient[e]
    BY <1>10, <2>4
  <2>9. answersOK(toClient'[d], received[d], topicMsgMap[d])
    <3>1. CASE d = c
      BY <1>6, <2>7, <2>8, <3>1
    <3>2. CASE d # c
      BY <1>9, <2>8, <3>2
    <3> QED
      BY <3>1, <3>2
  <2> QED
    BY <1>4, <1>8, <1>9, <2>4, <2>9, GapKept
<1>14. CASE m.message = "REESTABLISH_SESSION"
  <2>1. Update_watch_cache(s, c) /\ UNCHANGED handling
    BY <1>1, <1>2, <1>3, <1>14 DEF mainListener
  <2>2. CASE UNCHANGED toClient
    BY <1>4, <1>8, <1>9, <2>1, <2>2, GapKept
  <2>3. CASE ~UNCHANGED toClient
    <3>1. PICK w \in Seq(Answer) :
            /\ \A i \in DOMAIN w : w[i].message = "WATCH_TRIGGER"
            /\ toClient' = [toClient EXCEPT ![c] = @ \o w]
      BY <2>1, <2>3, UpdateFacts
    <3>2. toClient'[c] = toClient[c] \o w /\ \A e \in Client \ {c} : toClient'[e] = toClient[e]
      BY <1>10, <3>1
    <3>3. answersOK(toClient'[d], received[d], topicMsgMap[d])
      <4>1. CASE d = c
        BY <1>9, <1>10, <3>1, <3>2, <4>1, AnswersTriggered
      <4>2. CASE d # c
        BY <1>9, <3>2, <4>2
      <4> QED
        BY <4>1, <4>2
    <3> QED
      BY <1>4, <1>8, <1>9, <2>1, <3>3, GapKept
  <2> QED
    BY <2>2, <2>3
<1> QED
  BY <1>11, <1>12, <1>13, <1>14 DEF Question

\* Nor does a client that subscribes or comes to another server.
LEMMA ClientGap ==
  ASSUME TypeOK, NEW c \in Client, subscribe(c) \/ reconnect(c), NEW d \in Client, GapInv(d)
  PROVE  GapInv(d)'
<1>1. UNCHANGED <<topicMsgMap, received, toClient, handling>>
  BY DEF subscribe, reconnect, client, watches
<1>2. /\ answersOK(toClient'[d], received[d], topicMsgMap[d])
      /\ questionsOK(toServer[d], received[d], topicMsgMap[d])
      /\ \A s \in Server : handling'[s].message = "EXISTS" /\ handling'[s].client = d
                             => topicMsgMap[d] # 0
  BY <1>1 DEF GapInv
<1>3. PICK m \in Question, n \in Question :
        /\ m = Message("SUBSCRIBE", 0) /\ m.message = "SUBSCRIBE"
        /\ n = Message("REESTABLISH_SESSION", 0) /\ n.message = "REESTABLISH_SESSION"
  BY ConstantFacts, MessageTypes
<1>4. toServer'[d] \in {toServer[d], Append(toServer[d], m), <<n>>}
  <2>1. CASE subscribe(c)
    <3>1. send(c, <<m>>)
      BY <1>3, <2>1 DEF subscribe
    <3> QED
      BY <3>1, SendFacts
  <2>2. CASE reconnect(c)
    BY <1>3, <2>2 DEF reconnect, TypeOK
  <2> QED
    BY <2>1, <2>2
<1>5. questionsOK(Append(toServer[d], m), received[d], topicMsgMap[d])
  BY <1>2, <1>3, ClientFacts, QuestionsAppend
<1>6. questionsOK(<<n>>, received[d], topicMsgMap[d])
  BY <1>3 DEF questionsOK
<1>7. questionsOK(toServer'[d], received[d], topicMsgMap[d])
  BY <1>2, <1>4, <1>5, <1>6
<1> QED
  BY <1>1, <1>2, <1>7, GapKept

\* A server does not answer before a client is subscribed.
LEMMA HandlerGap ==
  ASSUME TypeOK, NEW s \in Server, Encode_watch(s) \/ addWatch(s), NEW d \in Client, GapInv(d)
  PROVE  GapInv(d)'
<1>1. UNCHANGED <<topicMsgMap, received, toServer>>
  BY DEF Encode_watch, addWatch, client
<1>2. /\ answersOK(toClient[d], received[d], topicMsgMap[d])
      /\ questionsOK(toServer'[d], received[d], topicMsgMap[d])
      /\ \A u \in Server : handling[u].message = "EXISTS" /\ handling[u].client = d
                             => topicMsgMap[d] # 0
  BY <1>1 DEF GapInv
<1>3. PICK h : h = handling[s]
  OBVIOUS
<1>4. CASE Encode_watch(s)
  <2>1. h \in Handler
    BY <1>3, <1>4, HandlerFacts DEF Encode_watch
  <2>2. PICK x : handling' = [handling EXCEPT ![s] = [h EXCEPT !.data = x]]
    BY <1>3, <1>4 DEF Encode_watch
  <2>3. PICK g : g = [h EXCEPT !.data = x]
    OBVIOUS
  <2>4. g.message = h.message /\ g.client = h.client
    BY <2>1, <2>3 DEF Handler
  <2>5. \A u \in Server : handling'[u] = IF u = s THEN g ELSE handling[u]
    BY <2>2, <2>3 DEF TypeOK
  <2>6. \A u \in Server : handling'[u].message = "EXISTS" /\ handling'[u].client = d
                            => topicMsgMap[d] # 0
    BY <1>2, <1>3, <2>4, <2>5
  <2>7. UNCHANGED toClient
    BY <1>4 DEF Encode_watch
  <2> QED
    BY <1>1, <1>2, <2>6, <2>7, GapKept
<1>5. CASE addWatch(s)
  <2>1. h \in Handler /\ h.client \in Client
    BY <1>3, <1>5, AddWatchFacts
  <2>2. handling' = [handling EXCEPT ![s] = Idle] /\ Idle.message # "EXISTS"
    BY <1>5 DEF addWatch, Idle
  <2>3. \A u \in Server : handling'[u].message = "EXISTS" /\ handling'[u].client = d
                            => topicMsgMap[d] # 0
    <3>1. \A u \in Server : handling'[u] = IF u = s THEN Idle ELSE handling[u]
      BY <2>2 DEF TypeOK
    <3> QED
      BY <1>2, <2>2, <3>1
  <2>4. answersOK(toClient'[d], received[d], topicMsgMap[d])
    <3>1. CASE UNCHANGED toClient
      BY <1>2, <3>1
    <3>2. CASE ~UNCHANGED toClient
      <4>1. /\ h.message = "EXISTS"
            /\ \E a \in Answer : /\ a.message = "EXISTS_OK"
                                 /\ toClient' = [toClient EXCEPT ![h.client] = Append(@, a)]
        BY SMTT(60), <1>3, <1>5, <3>2, AddWatchFacts
      <4>2. PICK a \in Answer : /\ a.message = "EXISTS_OK"
                                /\ toClient' = [toClient EXCEPT ![h.client] = Append(@, a)]
        BY <4>1
      <4>3. h.client = d => toClient'[d] = Append(toClient[d], a) /\ topicMsgMap[d] # 0
        BY <1>2, <1>3, <4>1, <4>2 DEF TypeOK
      <4>4. h.client # d => toClient'[d] = toClient[d]
        BY <4>2 DEF TypeOK
      <4>5. h.client = d => answersOK(Append(toClient[d], a), received[d], topicMsgMap[d])
        BY SMTT(60), <1>2, <4>2, <4>3, ClientFacts, AnswersAppend
      <4> QED
        BY <1>2, <4>3, <4>4, <4>5
    <3> QED
      BY <3>1, <3>2
  <2> QED
    BY <1>1, <1>2, <2>3, <2>4, GapKept
<1> QED
  BY <1>4, <1>5

\* What is triggered, confirmed or denied is no message.
LEMMA ReplyGap ==
  ASSUME TypeOK, NEW s \in Server, Check_watch(s) \/ deniedListener(s), NEW d \in Client, GapInv(d)
  PROVE  GapInv(d)'
<1>1. UNCHANGED <<topicMsgMap, received, toServer, handling>>
  BY DEF Check_watch, deniedListener, client, watches
<1>2. /\ answersOK(toClient[d], received[d], topicMsgMap[d])
      /\ questionsOK(toServer'[d], received[d], topicMsgMap[d])
      /\ \A u \in Server : handling'[u].message = "EXISTS" /\ handling'[u].client = d
                             => topicMsgMap[d] # 0
  BY <1>1 DEF GapInv
<1>3. CASE Check_watch(s)
  <2>1. PICK w \in Seq(Answer) :
          /\ \A i \in DOMAIN w : w[i].message = "WATCH_TRIGGER"
          /\ toClient'[d] = toClient[d] \o w \/ toldSubscribed(s, d, w)
    BY <1>3, CheckFacts
  <2>2. PICK q \in Seq(Answer) :
          q = toClient[d] \o w /\ answersOK(q, received[d], topicMsgMap[d])
    BY <1>2, <2>1, ClientFacts, AnswersTriggered
  <2>3. CASE toClient'[d] = q
    BY <1>1, <1>2, <2>2, <2>3, GapKept
  <2>4. CASE toClient'[d] # q
    <3>1. PICK a \in Answer : /\ a.message = "SUBSCRIBE_OK" /\ a.n >= 1
                              /\ toClient'[d] = Append(q, a)
      BY <2>1, <2>2, <2>4 DEF toldSubscribed
    <3>2. answersOK(Append(q, a), received[d], topicMsgMap[d])
      BY <2>2, <3>1, AnswersAppend
    <3> QED
      BY <1>1, <1>2, <3>1, <3>2, GapKept
  <2> QED
    BY <2>3, <2>4
<1>4. CASE deniedListener(s)
  <2>1. CASE UNCHANGED toClient
    BY <1>1, <1>2, <2>1, GapKept
  <2>2. CASE ~UNCHANGED toClient
    <3>1. PICK a \in Answer, c \in Client :
            a.message = "REJECT" /\ toClient' = [toClient EXCEPT ![c] = Append(@, a)]
      BY <1>4, <2>2, DeniedFacts
    <3>2. toClient'[d] = toClient[d] \/ toClient'[d] = Append(toClient[d], a)
      BY <3>1 DEF TypeOK
    <3>3. answersOK(Append(toClient[d], a), received[d], topicMsgMap[d])
      BY <1>2, <3>1, ClientFacts, AnswersAppend
    <3>4. answersOK(toClient'[d], received[d], topicMsgMap[d])
      BY <1>2, <3>2, <3>3
    <3> QED
      BY <1>1, <1>2, <3>4, GapKept
  <2> QED
    BY <2>1, <2>2
<1> QED
  BY <1>3, <1>4

\* A crash loses questions and handlers.
LEMMA CrashGap ==
  ASSUME TypeOK, NEW s \in Server, Crash(s), NEW d \in Client, GapInv(d)
  PROVE  GapInv(d)'
<1>1. /\ UNCHANGED <<topicMsgMap, received, toClient>>
      /\ handling' = [handling EXCEPT ![s] = Idle]
      /\ toServer' = [c \in Client |-> IF connectedServer[c] = s THEN << >> ELSE toServer[c]]
  BY DEF Crash, client
<1>2. \A u \in Server : handling'[u].message = "EXISTS" /\ handling'[u].client = d
                          => topicMsgMap[d] # 0
  <2>1. \A u \in Server : handling'[u] = IF u = s THEN Idle ELSE handling[u]
    BY <1>1 DEF TypeOK
  <2>2. Idle.message # "EXISTS"
    BY DEF Idle
  <2> QED
    BY <2>1, <2>2 DEF GapInv
<1>3. questionsOK(toServer'[d], received[d], topicMsgMap[d])
  <2>1. questionsOK(<< >>, received[d], topicMsgMap[d])
    BY DEF questionsOK
  <2> QED
    BY <1>1, <2>1 DEF GapInv
<1>4. answersOK(toClient'[d], received[d], topicMsgMap[d])
  BY <1>1 DEF GapInv
<1> QED
  BY <1>1, <1>2, <1>3, <1>4, GapKept

\* Every step keeps the messages in order.
LEMMA GapStep ==
  ASSUME PubSubInv, TypeOK', [Next]_vars, NEW d \in Client
  PROVE  GapInv(d)'
<1>1. TypeOK /\ GapInv(d) /\ \A c \in Client : OnceInv(c) /\ GapInv(c)
  BY DEF PubSubInv
<1>2. CASE UNCHANGED <<topicMsgMap, received, toServer, toClient, handling>>
  BY <1>1, <1>2, GapKept DEF GapInv
<1>3. ASSUME NEW c \in Client, subscribe(c) \/ listener(c) \/ reconnect(c) \/ mainListener(c)
      PROVE  GapInv(d)'
  BY <1>1, <1>3, ClientGap, ListenerGap, MainGap
<1>4. ASSUME NEW s \in Server,
             \/ Encode_watch(s) \/ addWatch(s) \/ Check_watch(s)
             \/ deniedListener(s) \/ Crash(s)
      PROVE  GapInv(d)'
  BY <1>1, <1>4, HandlerGap, ReplyGap, CrashGap
<1>5. ASSUME NEW s \in Server, Write(s)
      PROVE  GapInv(d)'
  BY SMTT(60), <1>2, <1>5 DEF Write, watches, client
<1>6. CASE processRequest \/ publish
  BY ZenonT(60), <1>2, <1>6 DEF processRequest, publish, watches, client
<1>7. CASE UNCHANGED vars
  BY <1>2, <1>7 DEF vars, watches, client
<1> QED
  BY <1>3, <1>4, <1>5, <1>6, <1>7 DEF Next

-----------------------------------------------------------------------------
(* Theorems *)

\* The initial states.
LEMMA PubSubInit ==
  ASSUME Init
  PROVE  PubSubInv
<1>1. /\ << >> \in Seq(Request \cup Publication) /\ << >> \in Seq(Request) /\ << >> \in Seq(Client)
      /\ << >> \in Seq(Question) /\ << >> \in Seq(Answer) /\ Len(<< >>) = 0
  OBVIOUS
<1>2. EmptySession \in Session
  BY EmptySessionFacts
<1>3. created = 0
  <2>1. {i \in DOMAIN log : log[i].type = "create"} = {}
    BY DEF Init
  <2> QED
    BY <2>1, FS_EmptySet DEF created
<1>4. /\ scenario \in Scenarios /\ scenario.Up \subseteq Server /\ scenario.First \in Server
      /\ MaxMessages \in Nat /\ 0 \in Number
  BY PubSubAssumption DEF Init, Number
<1>5. TypeOK
  BY <1>1, <1>2, <1>3, <1>4 DEF Init, TypeOK
<1>6. \A s \in Server : handling[s] = Idle /\ Idle.message = "none"
  BY DEF Init, Idle
<1>7. HandlerInv
  BY <1>6 DEF HandlerInv
<1>8. ASSUME NEW c \in Client PROVE OnceInv(c) /\ GapInv(c)
  <2>1. /\ toServer[c] = << >> /\ toClient[c] = << >> /\ topicMsgMap[c] = 0 /\ received[c] = 0
        /\ requests = << >> /\ log = << >>
    BY DEF Init
  <2>2. /\ asked(toServer[c]) = {} /\ handled(c) = {} /\ passed(requests, c) = {}
        /\ passed(log, c) = {} /\ confirmed(toClient[c]) = {} /\ ~answered(c)
    BY <1>6, <2>1 DEF asked, handled, passed, confirmed, answered
  <2>3. OnceInv(c)
    BY <2>1, <2>2 DEF OnceInv, atMostOne
  <2>4. GapInv(c)
    BY <1>6, <2>1 DEF GapInv, questionsOK, answersOK
  <2> QED
    BY <2>3, <2>4
<1> QED
  BY <1>5, <1>7, <1>8 DEF PubSubInv

\* Every step keeps the invariant.
LEMMA PubSubStep ==
  ASSUME PubSubInv, [Next]_vars
  PROVE  PubSubInv'
<1>1. TypeOK' /\ HandlerInv'
  BY TypeStep, HandlerStep
<1>2. \A c \in Client : OnceInv(c)' /\ GapInv(c)'
  BY <1>1, OnceStep, GapStep
<1> QED
  BY <1>1, <1>2 DEF PubSubInv

\* Every variable of publish/subscribe keeps its type; no server has written
\* more than was accepted, and no session has fewer versions than watches, so
\* that Update_watch_cache never reads a version that is not there.
THEOREM PubSubTypeOK == Spec => []TypeOK
<1>1. Init => PubSubInv
  BY PubSubInit
<1>2. PubSubInv /\ [Next]_vars => PubSubInv'
  BY PubSubStep
<1>3. PubSubInv => TypeOK
  BY DEF PubSubInv
<1> QED
  BY <1>1, <1>2, <1>3, PTL DEF Spec

\* A client that is told of its subscription has exactly one that was accepted,
\* and its server has written it: a SUBSCRIBE is in one place at a time, from
\* the client through its server to the coordinator and back.
THEOREM SubscribedOnce == Spec => [](\A c \in Client : OnceInv(c))
<1>1. Init => PubSubInv
  BY PubSubInit
<1>2. PubSubInv /\ [Next]_vars => PubSubInv'
  BY PubSubStep
<1>3. PubSubInv => \A c \in Client : OnceInv(c)
  BY DEF PubSubInv
<1> QED
  BY <1>1, <1>2, <1>3, PTL DEF Spec

\* What a client that has subscribed is shown next is the message after the
\* last one, whatever crashes, watches and reconnections come between.
THEOREM NoGapHolds == Spec => NoGap
<1>1. Init => PubSubInv
  BY PubSubInit
<1>2. PubSubInv /\ [Next]_vars => PubSubInv'
  BY PubSubStep
<1>3. ASSUME PubSubInv, [Next]_vars, NEW c \in Client, topicMsgMap[c] # 0
      PROVE  received'[c] \in {received[c], received[c] + 1}
  <2>1. TypeOK /\ \A d \in Client : OnceInv(d) /\ GapInv(d)
    BY <1>3 DEF PubSubInv
  <2>2. received \in [Client -> Number] /\ received[c] \in Nat
    BY <2>1, ClientFacts DEF TypeOK
  <2>3. ASSUME NEW d \in Client, listener(d)
        PROVE  received'[c] \in {received[c], received[c] + 1}
    <3>1. PICK a : a = Head(toClient[d])
      OBVIOUS
    <3>2. a \in Answer /\ a.n \in Nat
      BY <2>1, <2>3, <3>1, ListenerFacts, ConstantFacts DEF Answer
    <3>3. CASE a.message = "SUBSCRIBE_OK"
      <4>1. received' = [received EXCEPT ![d] = a.n - 1] /\ topicMsgMap[d] = 0
        BY <2>1, <2>3, <3>1, <3>3, ListenerCases
      <4> QED
        BY <1>3, <2>2, <4>1
    <3>4. CASE a.message = "SUBSCRIBED_MESSAGE"
      <4>1. /\ received' = [received EXCEPT ![d] = IF a.n > @ THEN a.n ELSE @]
            /\ a.n <= received[d] + 1
        BY <2>1, <2>3, <3>1, <3>4, ListenerCases
      <4> QED
        BY <2>2, <3>2, <4>1
    <3>5. CASE a.message \notin {"SUBSCRIBE_OK", "SUBSCRIBED_MESSAGE"}
      <4>1. UNCHANGED received
        BY <2>1, <2>3, <3>1, <3>2, <3>5, ListenerCases DEF Answer
      <4> QED
        BY <4>1
    <3> QED
      BY <3>3, <3>4, <3>5
  <2>4. CASE UNCHANGED received
    BY <2>4
  <2>5. ASSUME NEW d \in Client, subscribe(d) \/ reconnect(d) \/ mainListener(d)
        PROVE  UNCHANGED received
    BY ZenonT(60), <2>5 DEF subscribe, reconnect, mainListener, client
  <2>6. ASSUME NEW s \in Server,
               \/ Encode_watch(s) \/ addWatch(s) \/ Write(s) \/ Check_watch(s)
               \/ deniedListener(s) \/ Crash(s)
        PROVE  UNCHANGED received
    BY ZenonT(60), <2>6 DEF Encode_watch, addWatch, Write, Check_watch, deniedListener, Crash, client
  <2>7. processRequest \/ publish \/ UNCHANGED vars => UNCHANGED received
    BY ZenonT(60) DEF processRequest, publish, vars, client
  <2> QED
    BY <1>3, <2>3, <2>4, <2>5, <2>6, <2>7 DEF Next
<1>4. PubSubInv /\ [Next]_vars =>
        [\A c \in Client : topicMsgMap[c] # 0 =>
           received'[c] \in {received[c], received[c] + 1}]_vars
  BY <1>3
<1> QED
  BY <1>1, <1>2, <1>4, PTL DEF Spec, NoGap
=============================================================================

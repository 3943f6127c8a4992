---------------------------- MODULE SessionsProofs ----------------------------
(***************************************************************************)
(* Machine-checked proofs about Sessions, for every set of servers and     *)
(* clients and every set of scenarios.                                     *)
(***************************************************************************)
EXTENDS Sessions, TLAPS, SequenceTheorems

\* The requests made so far, and the numbers not yet given away.
Made == 1..Len(request)

\* What the maps know: a request is entered in the map once, after it was made.
MapInv ==
  /\ \E S : request \in Seq(S)
  /\ scenario \in Scenarios /\ Len(request) <= MaxRequests
  /\ registering \subseteq Made /\ pending \subseteq Made
  /\ registering \cap pending = {}

\* A request that was answered with OK has left the map for good, and one that
\* is about to be answered has not been answered before.  Each is answered by
\* the server it was made at.
AnswerInv ==
  /\ oks \in [Id -> {0, 1}]
  /\ \A i \in Id : oks[i] = 1 => i \in Made \ (registering \cup pending)
  /\ replying \in [Server -> Made \cup {No}]
  /\ \A s \in Server : replying[s] # No =>
       /\ request[replying[s]].origin = s
       /\ oks[replying[s]] = 0
       /\ replying[s] \notin registering

SessionsInv == MapInv /\ AnswerInv

-----------------------------------------------------------------------------

\* A request that is made gets the next number and changes no other.
LEMMA GenerateFacts ==
  ASSUME MapInv, NEW s, NEW type, NEW session, NEW c, generate(s, type, session, c)
  PROVE  /\ \E S : request' \in Seq(S)
         /\ Len(request) \in Nat
         /\ Len(request') = Len(request) + 1 /\ Len(request') <= MaxRequests
         /\ \A i \in Made : request'[i] = request[i]
         /\ registering' = registering \cup {Len(request) + 1}
         /\ UNCHANGED <<pending, denied, replying, oks>>
<1>1. PICK S : request \in Seq(S)
  BY DEF MapInv
<1>2. PICK r : request' = Append(request, r)
  BY DEF generate
<1>3. request \in Seq(S \cup {r}) /\ r \in S \cup {r}
  <2>1. Len(request) \in Nat /\ \A i \in 1..Len(request) : request[i] \in S
    BY <1>1, ElementOfSeq, LenProperties
  <2>2. request = [i \in 1..Len(request) |-> request[i]]
    BY <1>1, LenProperties
  <2> QED
    BY <2>1, <2>2, IsASeq
<1>4. /\ Append(request, r) \in Seq(S \cup {r})
      /\ Len(Append(request, r)) = Len(request) + 1
      /\ \A i \in 1..Len(request) : Append(request, r)[i] = request[i]
  BY <1>3, AppendProperties
<1>5. Len(request) \in Nat
  BY <1>1, LenProperties
<1>6. scenario.Requests \in Nat /\ scenario.Requests <= MaxRequests /\ MaxRequests \in Nat
  BY SessionsAssumption DEF MapInv
<1>7. Len(request) < scenario.Requests
  BY DEF generate
<1> QED
  BY <1>2, <1>4, <1>5, <1>6, <1>7 DEF generate, Made

\* A request that is made disturbs neither the map nor the answers under way.
LEMMA GenerateStep ==
  ASSUME SessionsInv, NEW s, NEW type, NEW session, NEW c, generate(s, type, session, c),
         UNCHANGED scenario
  PROVE  SessionsInv'
<1> USE DEF SessionsInv, Made
<1>1. /\ \E S : request' \in Seq(S)
      /\ Len(request) \in Nat
      /\ Len(request') = Len(request) + 1 /\ Len(request') <= MaxRequests
      /\ \A i \in Made : request'[i] = request[i]
      /\ registering' = registering \cup {Len(request) + 1}
      /\ UNCHANGED <<pending, denied, replying, oks>>
  BY GenerateFacts
<1>2. Made \subseteq Made' /\ Len(request) + 1 \in Made' /\ Len(request) + 1 \notin Made
  BY <1>1
<1>3. MapInv'
  BY <1>1, <1>2 DEF MapInv
<1>4. AnswerInv'
  <2>1. oks' \in [Id -> {0, 1}] /\ replying' \in [Server -> Made' \cup {No}]
    BY <1>1, <1>2 DEF AnswerInv
  <2>2. \A i \in Id : oks'[i] = 1 => i \in Made' \ (registering' \cup pending')
    BY <1>1, <1>2 DEF AnswerInv
  <2>3. ASSUME NEW r \in Server, replying'[r] # No
        PROVE  /\ request'[replying'[r]].origin = r
               /\ oks'[replying'[r]] = 0
               /\ replying'[r] \notin registering'
    <3>1. replying[r] \in Made /\ replying'[r] = replying[r]
      BY <1>1, <2>3 DEF AnswerInv
    <3>2. request'[replying[r]] = request[replying[r]]
      BY <1>1, <3>1
    <3> QED
      BY <1>1, <1>2, <2>3, <3>1, <3>2 DEF AnswerInv
  <2> QED
    BY <2>1, <2>2, <2>3 DEF AnswerInv
<1> QED
  BY <1>3, <1>4

\* Steps that leave the map and the answers alone.
LEMMA MapFrame ==
  ASSUME SessionsInv, UNCHANGED <<scenario, request, registering, pending, replying, oks>>
  PROVE  SessionsInv'
BY DEF SessionsInv, MapInv, AnswerInv, Made

\* A request enters the map.
LEMMA RegisterStep ==
  ASSUME SessionsInv, NEW i \in Id, register(i)
  PROVE  SessionsInv'
<1>1. i \in registering /\ registering' = registering \ {i} /\ pending' = pending \cup {i}
      /\ UNCHANGED <<scenario, request, replying, oks>>
  BY DEF register, server
<1>2. MapInv'
  BY <1>1 DEF SessionsInv, MapInv, Made
<1>3. AnswerInv'
  BY <1>1 DEF SessionsInv, AnswerInv, MapInv, Made
<1> QED
  BY <1>2, <1>3 DEF SessionsInv

\* The look into the map: only a request that is in it, and so was not
\* answered before, is about to be answered.
LEMMA CommittedStep ==
  ASSUME SessionsInv, NEW s \in Server, committed(s)
  PROVE  SessionsInv'
<1>1. UNCHANGED <<scenario, request, registering, pending, oks>>
  BY DEF committed, server
<1>2. MapInv'
  BY <1>1 DEF SessionsInv, MapInv, Made
<1>3. CASE UNCHANGED replying
  BY <1>1, <1>3, MapFrame
<1>4. CASE ~UNCHANGED replying
  <2> DEFINE i == log[applied[s] + 1]
             found == i \in pending /\ request[i].origin = s
  <2>1. replying' = [replying EXCEPT ![s] = IF found THEN i ELSE No]
    BY <1>4 DEF committed
  <2> HIDE DEF i
  <2>2. CASE ~found
    BY <1>1, <1>2, <2>1, <2>2 DEF SessionsInv, AnswerInv, Made
  <2>3. CASE found
    <3>1. i \in Made /\ i \in Id /\ i \notin registering /\ oks[i] = 0
      BY <2>3, SessionsAssumption DEF SessionsInv, AnswerInv, MapInv, Made, Id
    <3>2. replying' = [replying EXCEPT ![s] = i]
      BY <2>1, <2>3
    <3> HIDE DEF found
    <3>3. request[i].origin = s
      BY <2>3 DEF found
    <3>4. AnswerInv'
      BY <1>1, <3>1, <3>2, <3>3 DEF SessionsInv, AnswerInv, Made
    <3> QED
      BY <1>2, <3>4 DEF SessionsInv
  <2> QED
    BY <2>2, <2>3
<1> QED
  BY <1>3, <1>4

\* The answer, and the removal from the map: nobody else is about to give the same.
LEMMA CommittedReplyStep ==
  ASSUME SessionsInv, NEW s \in Server, committedReply(s)
  PROVE  SessionsInv'
<1> DEFINE i == replying[s]
           c == request[i].client
<1>1. /\ i # No /\ replying' = [replying EXCEPT ![s] = No] /\ pending' = pending \ {i}
      /\ oks' = oks \/ oks' = [oks EXCEPT ![i] = @ + 1]
      /\ UNCHANGED <<scenario, request, registering>>
  BY DEF committedReply, server, local
<1>2. MapInv'
  BY <1>1 DEF SessionsInv, MapInv, Made
<1>3. /\ i \in Made /\ i \in Id /\ request[i].origin = s /\ oks[i] = 0 /\ i \notin registering
  <2>1. i \in Made /\ request[i].origin = s /\ oks[i] = 0 /\ i \notin registering
    BY <1>1 DEF SessionsInv, AnswerInv
  <2> QED
    BY <2>1, SessionsAssumption DEF SessionsInv, MapInv, Made, Id
<1> HIDE DEF i
<1>4. /\ oks' \in [Id -> {0, 1}]
      /\ \A j \in Id : oks'[j] = 1 => j = i \/ oks[j] = 1
      /\ \A j \in Id \ {i} : oks'[j] = oks[j]
  BY <1>1, <1>3 DEF SessionsInv, AnswerInv
<1>5. replying' \in [Server -> Made' \cup {No}]
  BY <1>1 DEF SessionsInv, AnswerInv, Made
<1>6. \A j \in Id : oks'[j] = 1 => j \in Made' \ (registering' \cup pending')
  BY <1>1, <1>3, <1>4 DEF SessionsInv, AnswerInv, Made
<1>7. ASSUME NEW r \in Server, replying'[r] # No
      PROVE  /\ request'[replying'[r]].origin = r
             /\ oks'[replying'[r]] = 0
             /\ replying'[r] \notin registering'
  <2>1. r # s /\ replying'[r] = replying[r]
    BY <1>1, <1>7 DEF SessionsInv, AnswerInv
  <2>2. request[replying[r]].origin = r /\ oks[replying[r]] = 0 /\ replying[r] \notin registering
        /\ replying[r] \in Made
    BY <1>7, <2>1 DEF SessionsInv, AnswerInv
  <2>3. replying[r] # i /\ replying[r] \in Id
    BY SMTT(60), <1>3, <2>1, <2>2, SessionsAssumption DEF SessionsInv, MapInv, Made, Id
  <2> QED
    BY <1>1, <1>4, <2>1, <2>2, <2>3
<1> QED
  BY <1>2, <1>4, <1>5, <1>6, <1>7 DEF SessionsInv, AnswerInv

\* Requests leave the map: those denied, those of a server that crashes.
LEMMA RemoveStep ==
  ASSUME SessionsInv, pending' \subseteq pending, registering' \subseteq registering,
         UNCHANGED <<scenario, request, replying, oks>>
  PROVE  SessionsInv'
<1>1. MapInv'
  BY DEF SessionsInv, MapInv, Made
<1>2. AnswerInv'
  BY DEF SessionsInv, AnswerInv, Made
<1> QED
  BY <1>1, <1>2 DEF SessionsInv

-----------------------------------------------------------------------------

\* The invariant holds of the initial state: no request is registered.
LEMMA SessionsInit == Init => SessionsInv
<1> SUFFICES ASSUME Init PROVE SessionsInv
  OBVIOUS
<1>1. request \in Seq({}) /\ Len(request) = 0
  BY DEF Init
<1>2. MapInv
  BY <1>1, SessionsAssumption DEF Init, MapInv, Made
<1>3. AnswerInv
  BY <1>1 DEF Init, AnswerInv, Made, No
<1> QED
  BY <1>2, <1>3 DEF SessionsInv

\* Every step of a server or a client keeps it.
LEMMA SessionsStep == SessionsInv /\ [Next]_vars => SessionsInv'
<1> SUFFICES ASSUME SessionsInv, [Next]_vars PROVE SessionsInv'
  OBVIOUS
<1> USE DEF server, write, map, time, sent, conn, local
<1>1. ASSUME NEW c \in Client, startsession(c) PROVE SessionsInv'
  BY <1>1, MapFrame DEF startsession
<1>2. ASSUME NEW c \in Client, endsession(c) PROVE SessionsInv'
  BY <1>2, MapFrame DEF endsession
<1>3. ASSUME NEW c \in Client, listener(c) PROVE SessionsInv'
  BY <1>3, MapFrame DEF listener
<1>4. ASSUME NEW c \in Client, monitorClientConnectionToServer(c) PROVE SessionsInv'
  BY <1>4, MapFrame DEF monitorClientConnectionToServer
<1>5. ASSUME NEW c \in Client, mainListener(c) PROVE SessionsInv'
  <2>1. UNCHANGED scenario
    BY <1>5 DEF mainListener
  <2>2. CASE UNCHANGED map
    BY <2>1, <2>2, MapFrame
  <2>3. CASE \E s, type, session : generate(s, type, session, c)
    BY <2>1, <2>3, GenerateStep
  <2> QED
    BY <1>5, <2>2, <2>3 DEF mainListener
<1>6. ASSUME NEW c \in Client, ClientCrash(c) PROVE SessionsInv'
  BY <1>6, MapFrame DEF ClientCrash
<1>7. ASSUME NEW c \in Client, NEW s \in Server, monitorConnectionToClient(s, c)
      PROVE  SessionsInv'
  <2>1. UNCHANGED scenario
    BY <1>7 DEF monitorConnectionToClient
  <2>2. CASE UNCHANGED map
    BY <2>1, <2>2, MapFrame
  <2>3. CASE generate(s, "delete", local_sessions[s][c], No)
    BY <2>1, <2>3, GenerateStep
  <2> QED
    BY <1>7, <2>2, <2>3 DEF monitorConnectionToClient
<1>8. ASSUME NEW c \in Client, NEW s \in Server, monitorConnectionToServer(s, c)
      PROVE  SessionsInv'
  BY <1>8, MapFrame DEF monitorConnectionToServer
<1>9. ASSUME NEW i \in Id, processRequest(i) PROVE SessionsInv'
  BY <1>9, MapFrame DEF processRequest
<1>10. ASSUME NEW s \in Server, NEW i \in Id, deniedListener(s, i) PROVE SessionsInv'
  BY <1>10, RemoveStep DEF deniedListener
<1>11. ASSUME NEW s \in Server, Crash(s) PROVE SessionsInv'
  BY <1>11, RemoveStep DEF Crash
<1>12. ASSUME NEW s \in Server, Elect(s) PROVE SessionsInv'
  BY <1>12, MapFrame DEF Elect
<1>13. ASSUME NEW s \in Server, syncFinish(s) PROVE SessionsInv'
  BY <1>13, MapFrame DEF syncFinish
<1>14. ASSUME NEW s \in Server, syncListener(s) PROVE SessionsInv'
  BY <1>14, MapFrame DEF syncListener
<1>15. ASSUME NEW s \in Server, removeExpiredSessions(s) PROVE SessionsInv'
  <2>1. UNCHANGED scenario
    BY <1>15 DEF removeExpiredSessions
  <2>2. CASE UNCHANGED map
    BY <2>1, <2>2, MapFrame
  <2>3. CASE \E x \in expired(s) : generate(s, "delete", x, No)
    BY <2>1, <2>3, GenerateStep
  <2> QED
    BY <1>15, <2>2, <2>3 DEF removeExpiredSessions
<1>16. ASSUME NEW s \in Server, sendSessionInfo(s) PROVE SessionsInv'
  BY <1>16, MapFrame DEF sendSessionInfo
<1>17. CASE UNCHANGED vars
  BY <1>17, MapFrame DEF vars
<1> QED
  BY <1>1, <1>2, <1>3, <1>4, <1>5, <1>6, <1>7, <1>8, <1>9, <1>10, <1>11, <1>12, <1>13, <1>14,
     <1>15, <1>16, <1>17, RegisterStep, CommittedStep, CommittedReplyStep DEF Next

\* No client is told twice that a request has succeeded, whatever is sent
\* again after a change of coordinator (syncListener, committedListener).
THEOREM AnsweredOnce == Spec => []OneOK
<1>1. SessionsInv => OneOK
  BY DEF SessionsInv, AnswerInv, OneOK
<1> QED
  BY <1>1, SessionsInit, SessionsStep, PTL DEF Spec

-----------------------------------------------------------------------------
(* Heartbeats *)

\* How often a coordinator may have ticked since the last heartbeat of s: once in
\* this period, and once in the one before.
missed(s) == (IF coordinator \in ticked THEN 1 ELSE 0) + (IF s \in ticked THEN 0 ELSE 1)

\* The sessions that s keeps alive have not waited longer than that.
HeartbeatInv ==
  (coordinator \in up /\ timestamps[coordinator] # Nil) =>
     \A s \in up \ {coordinator} : \A c \in Client :
       local_sessions[s][c] # No /\ <<s, c>> \notin fresh
         => timestamps[coordinator][2][local_sessions[s][c]] <= missed(s)

\* The values of the variables that time depends on.
TimeTypeOK ==
  /\ up \subseteq Server /\ coordinator \in Server
  /\ local_sessions \in [Server -> [Client -> Id \cup {No}]]
  /\ timestamps \in [Server -> {Nil} \cup ((SUBSET Id) \X [Id -> Nat])]
  /\ \A i \in Made : request[i].type = "create" => request[i].session \in Id

TimeInv == SessionsInv /\ TimeTypeOK /\ HeartbeatInv

\* What a map of session times holds.
LEMMA TimestampFacts ==
  ASSUME TimeTypeOK, NEW k \in Server, timestamps[k] # Nil
  PROVE  /\ timestamps[k] = <<timestamps[k][1], timestamps[k][2]>>
         /\ timestamps[k][1] \subseteq Id /\ timestamps[k][2] \in [Id -> Nat]
BY DEF TimeTypeOK

\* A request that is made creates a session with a number.
LEMMA GenerateTypes ==
  ASSUME TimeInv, NEW s, NEW type, NEW session, NEW c, generate(s, type, session, c)
  PROVE  \A i \in Made' : request'[i].type = "create" => request'[i].session \in Id
<1> USE DEF Made
<1> DEFINE r == [type |-> type, origin |-> s, client |-> c,
                 session |-> IF type = "create" THEN Len(request) + 1 ELSE session]
<1>1. /\ \E S : request' \in Seq(S)
      /\ Len(request) \in Nat
      /\ Len(request') = Len(request) + 1 /\ Len(request') <= MaxRequests
      /\ \A i \in Made : request'[i] = request[i]
  BY GenerateFacts DEF TimeInv, SessionsInv
<1>2. request' = Append(request, r)
  BY DEF generate
<1>3. request'[Len(request) + 1] = r
  <2>1. PICK S : request \in Seq(S)
    BY DEF TimeInv, SessionsInv, MapInv
  <2>2. request \in Seq(S \cup {r}) /\ r \in S \cup {r}
    <3>1. Len(request) \in Nat /\ \A i \in 1..Len(request) : request[i] \in S
      BY <2>1, ElementOfSeq, LenProperties
    <3>2. request = [i \in 1..Len(request) |-> request[i]]
      BY <2>1, LenProperties
    <3> HIDE DEF r
    <3> QED
      BY <3>1, <3>2, IsASeq
  <2> HIDE DEF r
  <2> QED
    BY <1>2, <2>2, AppendProperties
<1>4. Len(request) + 1 \in Id
  BY <1>1, SessionsAssumption DEF Id
<1>5. r.type = "create" => r.session = Len(request) + 1
  OBVIOUS
<1> HIDE DEF r
<1>6. ASSUME NEW i \in Made', request'[i].type = "create" PROVE request'[i].session \in Id
  <2>1. CASE i \in Made
    <3>1. request'[i] = request[i]
      BY <1>1, <2>1
    <3> QED
      BY <1>6, <2>1, <3>1 DEF TimeInv, TimeTypeOK
  <2>2. CASE i = Len(request) + 1
    BY <1>3, <1>4, <1>5, <1>6, <2>2
  <2> QED
    BY <1>1, <2>1, <2>2
<1> QED
  BY <1>6

\* Steps that leave sessions, heartbeats and the coordinator alone.
LEMMA TimeFrame ==
  ASSUME TimeInv, SessionsInv',
         UNCHANGED <<up, coordinator, request, local_sessions, timestamps, ticked, fresh>>
  PROVE  TimeInv'
BY DEF TimeInv, TimeTypeOK, HeartbeatInv, missed, Made

\* Sessions that a server no longer keeps, or has just taken over.
LEMMA LocalStep ==
  ASSUME TimeInv, SessionsInv', UNCHANGED <<up, coordinator, timestamps, ticked>>,
         local_sessions' \in [Server -> [Client -> Id \cup {No}]],
         \A s \in Server, c \in Client :
            \/ local_sessions'[s][c] = local_sessions[s][c]
            \/ local_sessions'[s][c] = No \/ <<s, c>> \in fresh',
         fresh \subseteq fresh',
         \A i \in Made' : request'[i].type = "create" => request'[i].session \in Id
  PROVE  TimeInv'
<1>1. TimeTypeOK'
  BY DEF TimeInv, TimeTypeOK
<1>2. HeartbeatInv'
  BY DEF TimeInv, TimeTypeOK, HeartbeatInv, missed
<1> QED
  BY <1>1, <1>2 DEF TimeInv

\* A tick of the coordinator, at which all sessions wait one tick longer.
LEMMA TickStep ==
  ASSUME TimeInv, SessionsInv', NEW k \in Server,
         k = coordinator, k \in up \ ticked, timestamps[k] # Nil,
         timestamps' = [timestamps EXCEPT ![k] =
                          <<@[1], [x \in Id |-> IF x \in @[1] THEN @[2][x] + 1 ELSE 0]>>],
         period(k), UNCHANGED <<up, coordinator, request, local_sessions, fresh>>
  PROVE  TimeInv'
<1> DEFINE times == [x \in Id |-> IF x \in timestamps[k][1] THEN timestamps[k][2][x] + 1 ELSE 0]
<1>1. /\ timestamps[k][1] \subseteq Id /\ timestamps[k][2] \in [Id -> Nat]
      /\ timestamps \in [Server -> {Nil} \cup ((SUBSET Id) \X [Id -> Nat])]
  BY TimestampFacts DEF TimeInv, TimeTypeOK
<1>2. times \in [Id -> Nat] /\ \A x \in Id : times[x] <= timestamps[k][2][x] + 1
  BY <1>1
<1>3. timestamps' = [timestamps EXCEPT ![k] = <<timestamps[k][1], times>>]
  OBVIOUS
<1> HIDE DEF times
<1>4. timestamps' \in [Server -> {Nil} \cup ((SUBSET Id) \X [Id -> Nat])] /\ timestamps'[k][2] = times
  BY <1>1, <1>2, <1>3
<1>5. TimeTypeOK'
  BY <1>4 DEF TimeInv, TimeTypeOK, Made
<1>6. ASSUME NEW s \in up \ {k}, NEW c \in Client,
             local_sessions[s][c] # No, <<s, c>> \notin fresh
      PROVE  times[local_sessions[s][c]] <= missed(s)'
  <2>1. local_sessions[s][c] \in Id
    BY <1>6 DEF TimeInv, TimeTypeOK
  <2>2. timestamps[k][2][local_sessions[s][c]] <= IF s \in ticked THEN 0 ELSE 1
    BY <1>6 DEF TimeInv, HeartbeatInv, missed
  <2>3. timestamps[k][2][local_sessions[s][c]] \in Nat
    BY <1>1, <2>1
  <2>4. times[local_sessions[s][c]] <= timestamps[k][2][local_sessions[s][c]] + 1
        /\ times[local_sessions[s][c]] \in Nat
    BY <1>2, <2>1
  <2>5. CASE up \subseteq ticked \cup {k}
    <3>1. s \in ticked /\ ticked' = {}
      BY <1>6, <2>5 DEF period
    <3>2. missed(s)' = 1
      BY <3>1 DEF missed
    <3> QED
      BY <2>2, <2>3, <2>4, <3>1, <3>2
  <2>6. CASE ~(up \subseteq ticked \cup {k})
    <3>1. ticked' = ticked \cup {k}
      BY <2>6 DEF period
    <3>2. missed(s)' = 1 + (IF s \in ticked THEN 0 ELSE 1)
      BY <1>6, <3>1 DEF missed
    <3> QED
      BY <2>2, <2>3, <2>4, <3>2
  <2> QED
    BY <2>5, <2>6
<1>7. HeartbeatInv'
  BY <1>4, <1>6 DEF HeartbeatInv
<1> QED
  BY <1>5, <1>7 DEF TimeInv

\* A heartbeat: the sessions of s start to wait again, those of the others may.
LEMMA HeartbeatStep ==
  ASSUME TimeInv, SessionsInv', NEW s \in Server, sendSessionInfo(s)
  PROVE  TimeInv'
<1> DEFINE k     == coordinator
           xs    == {local_sessions[s][c] : c \in Client} \ {No}
           times == [x \in Id |-> IF x \in xs THEN 0 ELSE timestamps[k][2][x]]
<1>1. /\ s \in up \ ticked /\ s # k /\ k \in up /\ timestamps[k] # Nil
      /\ timestamps' = [timestamps EXCEPT ![k] = <<timestamps[k][1] \cup xs, times>>]
      /\ period(s) /\ fresh' = {f \in fresh : f[1] # s}
      /\ UNCHANGED <<up, coordinator, request, local_sessions>>
  BY DEF sendSessionInfo, server, map
<1>2. k \in Server /\ up \subseteq Server /\ local_sessions \in [Server -> [Client -> Id \cup {No}]]
  BY DEF TimeInv, TimeTypeOK
<1>3. xs \subseteq Id
  BY <1>2
<1>4. /\ timestamps[k][1] \subseteq Id /\ timestamps[k][2] \in [Id -> Nat]
      /\ timestamps \in [Server -> {Nil} \cup ((SUBSET Id) \X [Id -> Nat])]
  BY <1>1, <1>2, TimestampFacts DEF TimeInv, TimeTypeOK
<1>5. /\ times \in [Id -> Nat] /\ \A x \in Id : times[x] <= timestamps[k][2][x]
      /\ \A c \in Client : local_sessions[s][c] # No => times[local_sessions[s][c]] = 0
  BY <1>2, <1>3, <1>4
<1> HIDE DEF times, xs
<1>6. /\ timestamps' \in [Server -> {Nil} \cup ((SUBSET Id) \X [Id -> Nat])]
      /\ timestamps'[k][2] = times
  BY <1>1, <1>2, <1>3, <1>4, <1>5
<1>7. TimeTypeOK'
  BY <1>1, <1>6 DEF TimeInv, TimeTypeOK, Made
<1>8. ASSUME NEW r \in up \ {k}, NEW c \in Client,
             local_sessions[r][c] # No, <<r, c>> \notin fresh'
      PROVE  times[local_sessions[r][c]] <= missed(r)'
  <2> DEFINE x == local_sessions[r][c]
  <2>1. missed(r)' \in Nat
    BY DEF missed
  <2>2. CASE r = s
    BY <1>5, <1>8, <2>1, <2>2
  <2>3. CASE r # s
    <3>1. <<r, c>> \notin fresh /\ x \in Id
      BY <1>1, <1>2, <1>8, <2>3
    <3>2. timestamps[k][2][x] <= missed(r)
      BY <1>1, <1>8, <3>1 DEF TimeInv, HeartbeatInv
    <3>3. times[x] <= timestamps[k][2][x] /\ times[x] \in Nat /\ timestamps[k][2][x] \in Nat
      BY <1>4, <1>5, <3>1
    <3> HIDE DEF x, k
    <3>4. CASE up \subseteq ticked \cup {s}
      <4>1. r \in ticked /\ k \in ticked /\ ticked' = {}
        BY <1>1, <1>8, <2>3, <3>4 DEF period
      <4>2. missed(r) = 1 /\ missed(r)' = 1
        BY <1>1, <4>1 DEF missed, k
      <4> QED
        BY <3>2, <3>3, <4>2 DEF x
    <3>5. CASE ~(up \subseteq ticked \cup {s})
      <4>1. ticked' = ticked \cup {s}
        BY <1>1, <3>5 DEF period
      <4>2. missed(r)' = missed(r) /\ missed(r) \in Nat
        BY <1>1, <2>3, <4>1 DEF missed, k
      <4> QED
        BY <3>2, <3>3, <4>2 DEF x
    <3> QED
      BY <3>4, <3>5
  <2> QED
    BY <2>2, <2>3
<1>9. HeartbeatInv'
  BY <1>1, <1>6, <1>8 DEF HeartbeatInv
<1> QED
  BY <1>7, <1>9 DEF TimeInv

\* A crash may end the period, in which the others have all ticked.
LEMMA CrashTime ==
  ASSUME TimeInv, SessionsInv', NEW s \in Server, Crash(s)
  PROVE  TimeInv'
<1>1. /\ up' = up \ {s} /\ ticked' = IF up' \subseteq ticked THEN {} ELSE ticked
      /\ local_sessions' = [local_sessions EXCEPT ![s] = [c \in Client |-> No]]
      /\ UNCHANGED <<coordinator, request, timestamps, fresh>>
  BY DEF Crash
<1>2. TimeTypeOK'
  BY <1>1 DEF TimeInv, TimeTypeOK, Made
<1>3. ASSUME coordinator \in up', timestamps[coordinator] # Nil,
             NEW r \in up' \ {coordinator}, NEW c \in Client,
             local_sessions'[r][c] # No, <<r, c>> \notin fresh
      PROVE  timestamps[coordinator][2][local_sessions'[r][c]] <= missed(r)'
  <2> DEFINE x == local_sessions[r][c]
  <2>1. r # s /\ r \in Server /\ coordinator \in Server /\ x \in Id
        /\ local_sessions'[r][c] = x
    BY <1>1, <1>3 DEF TimeInv, TimeTypeOK
  <2>2. timestamps[coordinator][2][x] <= missed(r)
    BY <1>1, <1>3, <2>1 DEF TimeInv, HeartbeatInv
  <2>3. timestamps[coordinator][2][x] \in Nat
    BY <1>3, <2>1, TimestampFacts DEF TimeInv
  <2>4. missed(r) <= missed(r)' /\ missed(r) \in Nat /\ missed(r)' \in Nat
    <3>1. CASE up' \subseteq ticked
      BY <1>1, <1>3, <3>1 DEF missed
    <3>2. CASE ~(up' \subseteq ticked)
      BY <1>1, <3>2 DEF missed
    <3> QED
      BY <3>1, <3>2
  <2> HIDE DEF x
  <2> QED
    BY <2>1, <2>2, <2>3, <2>4
<1>4. HeartbeatInv'
  BY <1>1, <1>3 DEF HeartbeatInv
<1> QED
  BY <1>2, <1>4 DEF TimeInv

\* A new coordinator has no map; syncListener makes one in which no session has
\* waited yet.
LEMMA NewMapStep ==
  ASSUME TimeInv, SessionsInv', NEW s \in Server, Elect(s) \/ syncListener(s)
  PROVE  TimeInv'
<1>1. TimeTypeOK /\ up \subseteq Server /\ coordinator \in Server
      /\ timestamps \in [Server -> {Nil} \cup ((SUBSET Id) \X [Id -> Nat])]
  BY DEF TimeInv, TimeTypeOK
<1>2. CASE Elect(s)
  <2>1. /\ s \in up /\ coordinator' = s
        /\ timestamps' = [r \in Server |-> IF r \in up THEN Nil ELSE timestamps[r]]
        /\ UNCHANGED <<up, request, local_sessions>>
    BY <1>2 DEF Elect, local
  <2>2. TimeTypeOK'
    BY <1>1, <2>1 DEF TimeTypeOK, Made
  <2>3. timestamps'[coordinator'] = Nil
    BY <1>1, <2>1
  <2>4. HeartbeatInv'
    BY <2>3 DEF HeartbeatInv
  <2> QED
    BY <2>2, <2>4 DEF TimeInv
<1>3. CASE syncListener(s)
  <2>1. UNCHANGED <<up, coordinator, request, local_sessions, ticked, fresh>>
    BY <1>3 DEF syncListener, local
  <2>2. CASE s # coordinator
    <3>1. UNCHANGED timestamps
      BY <1>3, <2>2 DEF syncListener
    <3> QED
      BY <2>1, <3>1, TimeFrame
  <2>3. CASE s = coordinator
    <3> DEFINE times == [x \in Id |-> 0]
    <3>1. timestamps' = [timestamps EXCEPT ![s] = <<stored(applied[s]), times>>]
      BY <1>3, <2>3 DEF syncListener
    <3>2. stored(applied[s]) \subseteq Id /\ times \in [Id -> Nat]
      BY DEF stored
    <3>3. /\ timestamps' \in [Server -> {Nil} \cup ((SUBSET Id) \X [Id -> Nat])]
          /\ timestamps'[s][2] = times
      <4> HIDE DEF times
      <4> QED
        BY <1>1, <3>1, <3>2
    <3>4. TimeTypeOK'
      BY <1>1, <2>1, <3>3 DEF TimeTypeOK, Made
    <3>5. ASSUME NEW r \in up, NEW c \in Client, local_sessions[r][c] # No
          PROVE  times[local_sessions[r][c]] <= missed(r)'
      <4>1. local_sessions[r][c] \in Id
        BY <1>1, <3>5 DEF TimeTypeOK
      <4> QED
        BY <4>1 DEF missed
    <3>6. HeartbeatInv'
      <4> HIDE DEF times
      <4> QED
        BY <2>1, <2>3, <3>3, <3>5 DEF HeartbeatInv
    <3> QED
      BY <3>4, <3>6 DEF TimeInv
  <2> QED
    BY <2>2, <2>3
<1> QED
  BY <1>2, <1>3

\* The expiry of a session.
LEMMA ExpireStep ==
  ASSUME TimeInv, SessionsInv', NEW k \in Server, removeExpiredSessions(k)
  PROVE  TimeInv'
<1>1. /\ k = coordinator /\ k \in up \ ticked /\ timestamps[k] # Nil
      /\ UNCHANGED <<up, coordinator, local_sessions, fresh>>
  BY DEF removeExpiredSessions, server, local
<1>2. ASSUME timestamps' = [timestamps EXCEPT ![k] =
               <<@[1], [x \in Id |-> IF x \in @[1] THEN @[2][x] + 1 ELSE 0]>>],
             period(k), UNCHANGED map
      PROVE  TimeInv'
  BY <1>1, <1>2, TickStep DEF map
<1>3. ASSUME NEW x \in expired(k),
             timestamps' = [timestamps EXCEPT ![k] = <<@[1] \ {x}, @[2]>>],
             generate(k, "delete", x, No), UNCHANGED ticked
      PROVE  TimeInv'
  <2>1. \A i \in Made' : request'[i].type = "create" => request'[i].session \in Id
    BY <1>3, GenerateTypes
  <2>2. /\ timestamps[k][1] \subseteq Id /\ timestamps[k][2] \in [Id -> Nat]
        /\ timestamps \in [Server -> {Nil} \cup ((SUBSET Id) \X [Id -> Nat])]
    BY <1>1, TimestampFacts DEF TimeInv, TimeTypeOK
  <2>3. /\ timestamps' \in [Server -> {Nil} \cup ((SUBSET Id) \X [Id -> Nat])]
        /\ timestamps'[k][2] = timestamps[k][2]
    BY <1>3, <2>2
  <2>4. TimeTypeOK'
    BY <1>1, <2>1, <2>3 DEF TimeInv, TimeTypeOK
  <2>5. HeartbeatInv'
    BY <1>1, <1>3, <2>3 DEF TimeInv, HeartbeatInv, missed
  <2> QED
    BY <2>4, <2>5 DEF TimeInv
<1> QED
  BY <1>2, <1>3 DEF removeExpiredSessions

\* The answer to a client: it has a session now, which is fresh, or none.
LEMMA ReplyTime ==
  ASSUME TimeInv, SessionsInv', NEW s \in Server, committedReply(s)
  PROVE  TimeInv'
<1> DEFINE i == replying[s]
           c == request[i].client
<1>1. /\ i \in Made
      /\ UNCHANGED <<up, coordinator, timestamps, ticked, request>>
  BY DEF committedReply, server, time, TimeInv, SessionsInv, AnswerInv
<1>2. /\ local_sessions \in [Server -> [Client -> Id \cup {No}]]
      /\ request[i].type = "create" => request[i].session \in Id
  BY <1>1 DEF TimeInv, TimeTypeOK
<1>3. \/ UNCHANGED <<local_sessions, fresh>>
      \/ /\ request[i].type = "create"
         /\ local_sessions' = [local_sessions EXCEPT ![s][c] = request[i].session]
         /\ fresh' = fresh \cup {<<s, c>>}
      \/ /\ local_sessions' = [local_sessions EXCEPT ![s][c] = No]
         /\ fresh' = fresh
  BY DEF committedReply, local
<1> HIDE DEF i, c
<1>4. local_sessions' \in [Server -> [Client -> Id \cup {No}]]
  BY <1>2, <1>3
<1>5. \A r \in Server, d \in Client :
         \/ local_sessions'[r][d] = local_sessions[r][d]
         \/ local_sessions'[r][d] = No \/ <<r, d>> \in fresh'
  BY <1>2, <1>3
<1>6. \A j \in Made' : request'[j].type = "create" => request'[j].session \in Id
  BY <1>1 DEF TimeInv, TimeTypeOK, Made
<1>7. fresh \subseteq fresh'
  BY <1>3
<1> QED
  BY <1>1, <1>4, <1>5, <1>6, <1>7, LocalStep

\* The messages of a client, and the end of its connection.
LEMMA ListenerTime ==
  ASSUME TimeInv, SessionsInv', NEW d \in Client,
         mainListener(d) \/ \E s \in Server : monitorConnectionToClient(s, d)
  PROVE  TimeInv'
<1>1. /\ UNCHANGED <<up, coordinator, timestamps, ticked>>
      /\ local_sessions \in [Server -> [Client -> Id \cup {No}]]
  BY SMTT(60) DEF mainListener, monitorConnectionToClient, server, time, TimeInv, TimeTypeOK
<1>2. \/ UNCHANGED <<local_sessions, fresh>>
      \/ \E s \in up : \E x : /\ Exists_session(s, x)
                            /\ local_sessions' = [local_sessions EXCEPT ![s][d] = x]
                            /\ fresh' = fresh \cup {<<s, d>>}
      \/ \E s \in Server : /\ local_sessions' = [local_sessions EXCEPT ![s][d] = No]
                          /\ fresh' = fresh
  BY DEF mainListener, monitorConnectionToClient, local
<1>3. \A s, x : Exists_session(s, x) => x \in Id
  BY DEF Exists_session, stored
<1>4. local_sessions' \in [Server -> [Client -> Id \cup {No}]]
  BY <1>1, <1>2, <1>3
<1>5. \A r \in Server, e \in Client :
         \/ local_sessions'[r][e] = local_sessions[r][e]
         \/ local_sessions'[r][e] = No \/ <<r, e>> \in fresh'
  BY <1>1, <1>2
<1>6. \A i \in Made' : request'[i].type = "create" => request'[i].session \in Id
  <2>1. CASE UNCHANGED map
    BY <2>1 DEF map, Made, TimeInv, TimeTypeOK
  <2>2. CASE \E s, type, session, c : generate(s, type, session, c)
                                      /\ (type = "create" => session = No)
    BY <2>2, GenerateTypes
  <2> QED
    BY <2>1, <2>2 DEF mainListener, monitorConnectionToClient
<1>7. fresh \subseteq fresh'
  BY <1>2
<1> QED
  BY SMTT(60), <1>1, <1>4, <1>5, <1>6, <1>7, LocalStep

\* The initial states.
LEMMA TimeInit == Init => TimeInv
<1> SUFFICES ASSUME Init PROVE TimeInv
  OBVIOUS
<1>1. scenario.InitiallyUp \subseteq Server /\ scenario.Coordinator \in Server
  BY SessionsAssumption DEF Init
<1>2. Made = {}
  BY DEF Init, Made
<1>3. TimeTypeOK
  BY <1>1, <1>2 DEF Init, TimeTypeOK
<1>4. HeartbeatInv
  BY <1>1 DEF Init, HeartbeatInv
<1> QED
  BY <1>3, <1>4, SessionsInit DEF TimeInv

\* Every step keeps the invariant.
LEMMA TimeStep == TimeInv /\ [Next]_vars => TimeInv'
<1> SUFFICES ASSUME TimeInv, [Next]_vars PROVE TimeInv'
  OBVIOUS
<1>1. SessionsInv'
  BY SessionsStep DEF TimeInv
<1>2. CASE UNCHANGED <<up, coordinator, request, local_sessions, timestamps, ticked, fresh>>
  BY <1>1, <1>2, TimeFrame
<1> USE DEF server, write, map, time, sent, conn, local
<1>3. ASSUME NEW c \in Client,
             \/ startsession(c) \/ endsession(c) \/ listener(c)
             \/ monitorClientConnectionToServer(c) \/ ClientCrash(c)
             \/ \E s \in Server : monitorConnectionToServer(s, c)
      PROVE  TimeInv'
  BY <1>2, <1>3 DEF startsession, endsession, listener, monitorClientConnectionToServer,
     ClientCrash, monitorConnectionToServer
<1>4. ASSUME NEW i \in Id,
             register(i) \/ processRequest(i) \/ \E s \in Server : deniedListener(s, i)
      PROVE  TimeInv'
  BY <1>2, <1>4 DEF register, processRequest, deniedListener
<1>5. ASSUME NEW s \in Server, committed(s) \/ syncFinish(s)
      PROVE  TimeInv'
  BY <1>2, <1>5 DEF committed, syncFinish
<1>6. CASE UNCHANGED vars
  BY <1>2, <1>6 DEF vars
<1> QED
  BY <1>1, <1>3, <1>4, <1>5, <1>6, ListenerTime, ReplyTime, CrashTime, NewMapStep, ExpireStep,
     HeartbeatStep DEF Next

\* A session whose client is at a running server, and whose server has sent a
\* heartbeat since it took the client over, is not expired: a coordinator ticks
\* at most twice between two heartbeats (removeExpiredSessions, sendSessionInfo).
THEOREM HeartbeatSuffices == Spec => HeartbeatKeepsSession
<1>1. ASSUME TimeInv, [Next]_vars, NEW k \in Server,
             timestamps[k] # Nil, timestamps'[k] # Nil, request' # request,
             NEW x \in timestamps[k][1] \ timestamps'[k][1],
             NEW s \in up \ {k}, NEW c \in Client, local_sessions[s][c] = x
      PROVE  <<s, c>> \in fresh
  <2> USE DEF server, write, map, time, sent, conn, local
  <2>1. timestamps' # timestamps /\ request' # request
    BY <1>1
  <2>2. PICK j \in Server : removeExpiredSessions(j)
    <3>1. \A d \in Client :
            ~(\/ startsession(d) \/ endsession(d) \/ listener(d)
              \/ monitorClientConnectionToServer(d) \/ mainListener(d) \/ ClientCrash(d))
      BY <2>1 DEF startsession, endsession, listener, monitorClientConnectionToServer,
         mainListener, ClientCrash
    <3>2. \A d \in Client, r \in Server :
            ~(monitorConnectionToClient(r, d) \/ monitorConnectionToServer(r, d))
      BY <2>1 DEF monitorConnectionToClient, monitorConnectionToServer
    <3>3. \A i \in Id : ~(register(i) \/ processRequest(i))
      BY <2>1 DEF register, processRequest
    <3>4. \A r \in Server :
            ~(\/ committed(r) \/ committedReply(r) \/ Crash(r) \/ Elect(r)
              \/ syncFinish(r) \/ syncListener(r) \/ sendSessionInfo(r))
      BY ZenonT(60), <2>1 DEF committed, committedReply, Crash, Elect, syncFinish, syncListener,
         sendSessionInfo
    <3>5. \A i \in Id, r \in Server : ~deniedListener(r, i)
      BY <2>1 DEF deniedListener
    <3>6. ~UNCHANGED vars
      BY <2>1 DEF vars
    <3> QED
      BY <1>1, <3>1, <3>2, <3>3, <3>4, <3>5, <3>6 DEF Next
  <2>3. /\ j = coordinator /\ j \in up \ ticked /\ timestamps[j] # Nil
        /\ timestamps \in [Server -> {Nil} \cup ((SUBSET Id) \X [Id -> Nat])]
    BY <1>1, <2>2 DEF removeExpiredSessions, TimeInv, TimeTypeOK
  <2>4. PICK y \in expired(j) : timestamps' = [timestamps EXCEPT ![j] = <<@[1] \ {y}, @[2]>>]
    BY <2>1, <2>2 DEF removeExpiredSessions
  <2>5. k = j /\ x = y
    BY <1>1, <2>3, <2>4
  <2>6. timestamps[k][2][x] \in Nat /\ timestamps[k][2][x] >= 2 /\ x \in Id
    <3>1. timestamps[k][1] \subseteq Id /\ timestamps[k][2] \in [Id -> Nat]
      BY <1>1, TimestampFacts DEF TimeInv
    <3>2. timestamps[k][2][x] >= 2
      BY <2>4, <2>5 DEF expired
    <3> QED
      BY <1>1, <3>1, <3>2
  <2>7. x # No
    BY <2>6, SessionsAssumption DEF Id, No
  <2>8. CASE <<s, c>> \notin fresh
    <3>1. timestamps[k][2][x] <= missed(s)
      BY <1>1, <2>3, <2>5, <2>7, <2>8 DEF TimeInv, HeartbeatInv
    <3>2. missed(s) \in {0, 1}
      BY <2>3, <2>5 DEF missed
    <3> QED
      BY <2>6, <3>1, <3>2
  <2> QED
    BY <2>8
<1>2. TimeInv /\ [Next]_vars =>
        [\A k \in Server :
           timestamps[k] # Nil /\ timestamps'[k] # Nil /\ request' # request =>
             \A x \in timestamps[k][1] \ timestamps'[k][1] : \A s \in up \ {k} : \A c \in Client :
               local_sessions[s][c] = x => <<s, c>> \in fresh]_vars
  BY <1>1
<1> QED
  BY <1>2, TimeInit, TimeStep, PTL DEF Spec, HeartbeatKeepsSession
=============================================================================

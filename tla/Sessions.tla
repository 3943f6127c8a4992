------------------------------ MODULE Sessions ------------------------------
(***************************************************************************)
(* Sessions and pending requests of main: clients that start, end and      *)
(* reestablish sessions, servers that send the writes for it and answer    *)
(* when these are committed or denied, the heartbeats and the expiry of    *)
(* sessions, and what a change of coordinator does to all of this.         *)
(*                                                                         *)
(* The committed writes are one sequence, log, of which each server has    *)
(* applied a part (ZabSync).  An election is one step: all servers learn   *)
(* the coordinator and "Election Completed", requests on their way to the  *)
(* old one are lost; the NewLeader reaches each follower later.  A         *)
(* heartbeat takes less than the 5 s between two of them.                  *)
(***************************************************************************)
EXTENDS Naturals, Sequences, FiniteSets, FiniteSetsExt, SequencesExt

CONSTANTS Server,        \* names, as numbers: the order of config.Servers
          Client,
          MaxRequests,   \* bound: requests
          Scenarios      \* the bounds and first states considered, see below

\* A scenario bounds the requests, elections, crashes of servers and of clients,
\* names the servers that run at first and their coordinator, and says whether
\* users start sessions while they are connected, and end them without one.
ASSUME SessionsAssumption ==
  /\ IsFiniteSet(Server) /\ Server \subseteq Nat \ {0}
  /\ IsFiniteSet(Client) /\ 0 \notin Client
  /\ MaxRequests \in Nat
  /\ Scenarios \subseteq [Requests : 0..MaxRequests, MaxElections : Nat, MaxCrashes : Nat,
                          MaxClientCrashes : Nat, InitiallyUp : SUBSET Server, Coordinator : Server,
                          FreeUsers : BOOLEAN]

VARIABLES
  scenario,       \* one of Scenarios; never changes
  up, coordinator,
  continued,      \* servers whose proposals.Continue has run
  awaiting,       \* followers that have not handled the NewLeader
  SyncFinish,     \* SyncFinish[s]: signals for syncListener
  request,        \* request[i]: the request with number i
  onTheWay,       \* onTheWay[i]: its copies on the way to the coordinator
  znodecache,     \* sessions in the cache of the coordinator
  log, applied,   \* committed requests; how many s has applied
  listening,      \* servers whose committedListener has not returned
  replying,       \* replying[s]: the request it has looked up, or 0
  registering,    \* requests sent but not entered in the map yet
  pending,        \* request_id_to_pending_request
  denied,         \* denied[s]: requests on failedRequestChan
  local_sessions, \* local_sessions[s][c], or 0
  failedSends,    \* failedSends[s]: clients whose connection failed
  timestamps,     \* session_id_to_timestamp: <<sessions, ticks since>>, or Nil
  ticked,         \* servers whose ticker fired in this period of 5 s
  client,         \* connectedServer, sessionID
  toServer, toClient,  \* connections
  ipToConnectionWrite, \* ipToConnectionWrite[s]: clients s has sent something
  crashes, elections,  \* how often so far
  oks, fresh,     \* auxiliary: OKs sent; sessions taken over since the last tick
  again           \* auxiliary: has a former coordinator become coordinator again?

server == <<scenario, up, coordinator, continued, awaiting, SyncFinish, crashes, elections, again>>
write  == <<znodecache, log, applied, listening>>
map    == <<request, onTheWay, registering, pending, denied, replying, oks>>
time   == <<timestamps, ticked>>
sent   == <<toClient, ipToConnectionWrite>>
conn   == <<client, toServer, sent, failedSends>>
local  == <<local_sessions, fresh>>
vars   == <<server, write, map, time, conn, local>>

No  == 0              \* no server, no session, no request, no client
Nil == << >>          \* the nil map
Id  == 1..MaxRequests
firstOf(S) == IF S = {} THEN No ELSE Min(S)

\* The sessions that exist after the first n committed requests.
stored(n) ==
  {x \in Id : \E i \in 1..n :
     /\ request[log[i]].type = "create" /\ request[log[i]].session = x
     /\ \A j \in (i + 1)..n :
          ~(request[log[j]].type = "delete" /\ request[log[j]].session = x)}
Exists_session(s, x) == x \in stored(applied[s])

Init ==
  /\ scenario \in Scenarios
  /\ up = scenario.InitiallyUp /\ coordinator = scenario.Coordinator
  /\ continued = {coordinator} /\ awaiting = {}
  /\ SyncFinish = [s \in Server |-> 0]
  /\ request = << >>
  /\ onTheWay = [i \in Id |-> 0]
  /\ znodecache = {} /\ log = << >>
  /\ applied = [s \in Server |-> 0] /\ listening = scenario.InitiallyUp
  /\ replying = [s \in Server |-> No]
  /\ registering = {} /\ pending = {} /\ denied = [s \in Server |-> {}]
  /\ local_sessions = [s \in Server |-> [c \in Client |-> No]]
  /\ failedSends = [s \in Server |-> {}]
  /\ timestamps = [s \in Server |-> Nil] /\ ticked = {}
  /\ client = [c \in Client |-> [alive |-> TRUE, connectedServer |-> No, sessionID |-> No]]
  /\ toServer = [c \in Client |-> << >>] /\ toClient = [c \in Client |-> << >>]
  /\ ipToConnectionWrite = [s \in Server |-> {}]
  /\ crashes = 0 /\ elections = 0
  /\ oks = [i \in Id |-> 0] /\ fresh = {} /\ again = FALSE

-----------------------------------------------------------------------------
(* Client *)

\* The first server that can be reached is sent START_SESSION, or
\* REESTABLISH_SESSION when there is a session.
findLiveServer(c) ==
  LET s == firstOf(up)
      x == client[c].sessionID
  IN /\ client' = [client EXCEPT ![c].connectedServer = s]
     /\ toServer' =
          IF s = No THEN toServer
          ELSE [toServer EXCEPT ![c] = Append(@,
                  [to |-> s, session |-> x,
                   message |-> IF x = No THEN "START_SESSION" ELSE "REESTABLISH_SESSION"])]

\* Bound: a user waits until the servers have taken what it sent, and before
\* startsession for their answers.
startsession(c) ==
  /\ client[c].alive /\ (scenario.FreeUsers \/ client[c].connectedServer = No)
  /\ toServer[c] = << >> /\ toClient[c] = << >>
  /\ findLiveServer(c)
  /\ UNCHANGED <<server, write, map, time, local, sent, failedSends>>

endsession(c) ==
  /\ client[c].alive /\ client[c].connectedServer \in up
  /\ scenario.FreeUsers \/ client[c].sessionID # No
  /\ toServer[c] = << >>
  /\ toServer' = [toServer EXCEPT ![c] = Append(@,
                    [to |-> client[c].connectedServer, session |-> client[c].sessionID,
                     message |-> "END_SESSION"])]
  /\ UNCHANGED <<server, write, map, time, local, client, sent, failedSends>>

listener(c) ==
  /\ client[c].alive /\ toClient[c] # << >>
  /\ LET m == Head(toClient[c]) IN
     client' = IF m.message = "START_SESSION_OK" THEN [client EXCEPT ![c].sessionID = m.session]
               ELSE IF m.message \in {"REESTABLISH_SESSION_REJECT", "END_SESSION_OK"}
               THEN [client EXCEPT ![c].sessionID = No]
               ELSE client
  /\ toClient' = [toClient EXCEPT ![c] = Tail(@)]
  /\ UNCHANGED <<server, write, map, time, local, toServer, ipToConnectionWrite, failedSends>>

monitorClientConnectionToServer(c) ==
  /\ client[c].alive
  /\ client[c].connectedServer \notin up \cup {No}
  /\ findLiveServer(c)
  /\ UNCHANGED <<server, write, map, time, local, sent, failedSends>>

-----------------------------------------------------------------------------
(* Requests of a server *)

\* generateAndSendRequest, up to and including the send.  On behalf of c, or
\* of no client.  A create is for a new session.
generate(s, type, session, c) ==
  /\ Len(request) < scenario.Requests
  /\ LET i == Len(request) + 1 IN
     /\ request' = Append(request, [type |-> type, origin |-> s, client |-> c,
                                    session |-> IF type = "create" THEN i ELSE session])
     /\ onTheWay' = [onTheWay EXCEPT ![i] = IF coordinator \in up THEN 1 ELSE 0]
     /\ registering' = registering \cup {i}
  /\ UNCHANGED <<pending, denied, replying, oks>>

\* Its second half enters the request in the map.
register(i) ==
  /\ i \in registering
  /\ registering' = registering \ {i}
  /\ pending' = pending \cup {i}
  /\ UNCHANGED <<server, write, time, conn, local, request, onTheWay, denied, replying, oks>>

\* SendJSONMessageToClient: a message to a dead client is an error in the log.
reply(s, c, message, x) ==
  IF ~client[c].alive THEN UNCHANGED sent
  ELSE /\ toClient' = [toClient EXCEPT ![c] = Append(@, [message |-> message, session |-> x])]
       /\ ipToConnectionWrite' = [ipToConnectionWrite EXCEPT ![s] = @ \cup {c}]

\* mainListener takes no message while it is in generateAndSendRequest.
mainListener(c) ==
  /\ toServer[c] # << >>
  /\ LET m == Head(toServer[c])
         s == m.to
     IN /\ s \in up
        /\ \A i \in registering : request[i].origin = s => request[i].client = No
        /\ \/ /\ m.message = "START_SESSION"
              /\ generate(s, "create", No, c)
              /\ UNCHANGED <<sent, local>>
           \/ /\ m.message = "END_SESSION"
              /\ generate(s, "delete", m.session, c)
              /\ UNCHANGED <<sent, local>>
           \/ /\ m.message = "REESTABLISH_SESSION"
              /\ Exists_session(s, m.session)
              /\ local_sessions' = [local_sessions EXCEPT ![s][c] = m.session]
              /\ fresh' = fresh \cup {<<s, c>>}
              /\ reply(s, c, "REESTABLISH_SESSION_OK", m.session)
              /\ UNCHANGED map
           \/ /\ m.message = "REESTABLISH_SESSION"
              /\ ~Exists_session(s, m.session)
              /\ reply(s, c, "REESTABLISH_SESSION_REJECT", No)
              /\ UNCHANGED <<map, local>>
  /\ toServer' = [toServer EXCEPT ![c] = Tail(@)]
  /\ UNCHANGED <<server, write, time, client, failedSends>>

\* The coordinator takes a request when no sync holds it up, and checks it:
\* a create against its cache, delete_session against its storage.  A denied
\* request of its own is reported to nobody.
processRequest(i) ==
  /\ onTheWay[i] > 0
  /\ coordinator \in up /\ awaiting = {}
  /\ onTheWay' = [onTheWay EXCEPT ![i] = @ - 1]
  /\ LET r == request[i] IN
     IF IF r.type = "create" THEN r.session \notin znodecache
        ELSE Exists_session(coordinator, r.session)
     THEN /\ log' = Append(log, i)
          /\ znodecache' = IF r.type = "create" THEN znodecache \cup {r.session}
                           ELSE znodecache \ {r.session}
          /\ UNCHANGED denied
     ELSE /\ denied' = IF r.origin = coordinator THEN denied
                       ELSE [denied EXCEPT ![r.origin] = @ \cup {i}]
          /\ UNCHANGED <<log, znodecache>>
  /\ UNCHANGED <<server, time, conn, local, applied, listening, request, registering,
                 pending, replying, oks>>

\* committedListener up to the look into the map: a Write that fails ends it.
committed(s) ==
  /\ s \in up \cap listening
  /\ replying[s] = No
  /\ applied[s] < Len(log)
  /\ LET i == log[applied[s] + 1] IN
     IF request[i].type = "delete" /\ ~Exists_session(s, request[i].session)
     THEN listening' = listening \ {s} /\ UNCHANGED <<applied, replying>>
     ELSE /\ applied' = [applied EXCEPT ![s] = @ + 1]
          /\ replying' = [replying EXCEPT ![s] =
                            IF i \in pending /\ request[i].origin = s THEN i ELSE No]
          /\ UNCHANGED listening
  /\ UNCHANGED <<server, time, conn, local, znodecache, log, request, onTheWay,
                 registering, pending, denied, oks>>

\* Mutation: the entry stays in the map.
committedReply_bug(s) ==
  LET i == replying[s]
      c == request[i].client
  IN
  /\ s \in up /\ i # No
  /\ replying' = [replying EXCEPT ![s] = No]
  /\ IF c = No THEN UNCHANGED <<oks, local, sent>>
     ELSE /\ oks' = [oks EXCEPT ![i] = @ + 1]
          /\ IF request[i].type = "create"
             THEN /\ local_sessions' = [local_sessions EXCEPT ![s][c] = request[i].session]
                  /\ fresh' = fresh \cup {<<s, c>>}
                  /\ reply(s, c, "START_SESSION_OK", request[i].session)
             ELSE /\ local_sessions' = [local_sessions EXCEPT ![s][c] = No]
                  /\ reply(s, c, "END_SESSION_OK", No)
                  /\ UNCHANGED fresh
  /\ UNCHANGED <<server, write, time, request, onTheWay, registering, denied,
                 pending, client, toServer, failedSends>>

\* The rest of it: the client is told and the entry removed.
committedReply(s) ==
  LET i == replying[s]
      c == request[i].client
  IN
  /\ s \in up /\ i # No
  /\ replying' = [replying EXCEPT ![s] = No]
  /\ pending' = pending \ {i}
  /\ IF c = No THEN UNCHANGED <<oks, local, sent>>
     ELSE /\ oks' = [oks EXCEPT ![i] = @ + 1]
          /\ IF request[i].type = "create"
             THEN /\ local_sessions' = [local_sessions EXCEPT ![s][c] = request[i].session]
                  /\ fresh' = fresh \cup {<<s, c>>}
                  /\ reply(s, c, "START_SESSION_OK", request[i].session)
             ELSE /\ local_sessions' = [local_sessions EXCEPT ![s][c] = No]
                  /\ reply(s, c, "END_SESSION_OK", No)
                  /\ UNCHANGED fresh
  /\ UNCHANGED <<server, write, time, request, onTheWay, registering, denied,
                 client, toServer, failedSends>>

\* Requests of no client stay in the map.
deniedListener(s, i) ==
  /\ s \in up /\ i \in denied[s]
  /\ denied' = [denied EXCEPT ![s] = @ \ {i}]
  /\ IF i \in pending /\ request[i].client # No
     THEN /\ reply(s, request[i].client, "REJECT", No)
          /\ pending' = pending \ {i}
     ELSE UNCHANGED <<sent, pending>>
  /\ UNCHANGED <<server, write, time, local, client, toServer, failedSends, request,
                 onTheWay, registering, replying, oks>>

-----------------------------------------------------------------------------
(* Failures and elections *)

Crash(s) ==
  /\ s \in up
  /\ crashes < scenario.MaxCrashes /\ elections < scenario.MaxElections
  /\ 2 * Cardinality(up \ {s}) > Cardinality(scenario.InitiallyUp)
  /\ crashes' = crashes + 1
  /\ up' = up \ {s}
  /\ local_sessions' = [local_sessions EXCEPT ![s] = [c \in Client |-> No]]
  /\ toServer' = [c \in Client |-> SelectSeq(toServer[c], LAMBDA m : m.to # s)]
  /\ registering' = {i \in registering : request[i].origin # s}
  /\ pending' = {i \in pending : request[i].origin # s}
  /\ onTheWay' = IF s = coordinator THEN [i \in Id |-> 0] ELSE onTheWay
  /\ ticked' = IF up' \subseteq ticked THEN {} ELSE ticked
  /\ UNCHANGED <<scenario, coordinator, continued, awaiting, SyncFinish, elections, again, write,
                 timestamps, client, sent, failedSends, fresh, request, denied, replying, oks>>

\* A server notices on the connection it has opened to send the client something.
ClientCrash(c) ==
  /\ client[c].alive
  /\ Cardinality({d \in Client : ~client[d].alive}) < scenario.MaxClientCrashes
  /\ client' = [client EXCEPT ![c].alive = FALSE]
  /\ failedSends' = [s \in Server |-> failedSends[s] \cup ({c} \cap ipToConnectionWrite[s])]
  /\ ipToConnectionWrite' = [s \in Server |-> ipToConnectionWrite[s] \ {c}]
  /\ toClient' = [toClient EXCEPT ![c] = << >>]
  /\ UNCHANGED <<server, write, map, time, local, toServer>>

\* Two goroutines read failedSends; only this one knows about sessions.
monitorConnectionToClient(s, c) ==
  LET x == local_sessions[s][c] IN
  /\ s \in up /\ c \in failedSends[s]
  /\ failedSends' = [failedSends EXCEPT ![s] = @ \ {c}]
  /\ IF x = No THEN UNCHANGED <<map, local_sessions>>
     ELSE /\ generate(s, "delete", x, No)
          /\ local_sessions' = [local_sessions EXCEPT ![s][c] = No]
  /\ UNCHANGED <<server, write, time, client, toServer, sent, fresh>>

monitorConnectionToServer(s, c) ==
  /\ s \in up /\ c \in failedSends[s]
  /\ failedSends' = [failedSends EXCEPT ![s] = @ \ {c}]
  /\ UNCHANGED <<server, write, map, time, local, client, toServer, sent>>

\* An election makes k coordinator.  The first time, k opens an epoch, unless
\* nothing was ever proposed.
Elect(k) ==
  /\ k \in up
  /\ elections < scenario.MaxElections
  /\ coordinator \in up => elections + (scenario.MaxCrashes - crashes) < scenario.MaxElections
  /\ elections' = elections + 1
  /\ coordinator' = k
  /\ timestamps' = [s \in Server |-> IF s \in up THEN Nil ELSE timestamps[s]]
  /\ znodecache' = stored(applied[k])
  /\ continued' = continued \cup {k}
  /\ awaiting' = IF k \in continued \/ log = << >> THEN {} ELSE up \ {k}
  /\ again' = (again \/ k \in continued \ {coordinator})
  /\ onTheWay' = IF k = coordinator THEN onTheWay ELSE [i \in Id |-> 0]
  /\ UNCHANGED <<scenario, up, crashes, SyncFinish, log, applied, listening, conn, local, ticked,
                 request, registering, pending, denied, replying, oks>>

\* A follower handles the NewLeader, or the last proposal of its sync.
syncFinish(s) ==
  /\ s \in awaiting \cap up
  /\ coordinator \in up
  /\ awaiting' = awaiting \ {s}
  /\ SyncFinish' = [SyncFinish EXCEPT ![s] = @ + 1]
  /\ UNCHANGED <<scenario, up, coordinator, continued, crashes, elections, again, write,
                 map, time, conn, local>>

\* Mutation: nothing is sent again.
syncListener_bug(s) ==
  /\ s \in up /\ SyncFinish[s] > 0
  /\ SyncFinish' = [SyncFinish EXCEPT ![s] = @ - 1]
  /\ timestamps' = IF s # coordinator THEN timestamps
                   ELSE [timestamps EXCEPT ![s] = <<stored(applied[s]), [x \in Id |-> 0]>>]
  /\ UNCHANGED <<scenario, up, coordinator, continued, awaiting, crashes, elections, again,
                 write, map, conn, local, ticked>>

\* Only a server that has become coordinator since the signal was sent runs
\* initializeSessionIdMap; all pending requests are sent again.
syncListener(s) ==
  /\ s \in up /\ SyncFinish[s] > 0
  /\ SyncFinish' = [SyncFinish EXCEPT ![s] = @ - 1]
  /\ timestamps' = IF s # coordinator THEN timestamps
                   ELSE [timestamps EXCEPT ![s] = <<stored(applied[s]), [x \in Id |-> 0]>>]
  /\ onTheWay' = IF coordinator \notin up THEN onTheWay
                 ELSE [i \in Id |-> onTheWay[i] +
                         IF i \in pending /\ request[i].origin = s THEN 1 ELSE 0]
  /\ UNCHANGED <<scenario, up, coordinator, continued, awaiting, crashes, elections, again, write,
                 conn, local, ticked, request, registering, pending, denied, replying, oks>>

-----------------------------------------------------------------------------
(* Heartbeats and expiry: tickers of 5 s, a timeout of 10 s *)

period(s) == ticked' = IF up \subseteq ticked \cup {s} THEN {} ELSE ticked \cup {s}

\* Mutation: sessions expire after 5 s.
expired_bug(k) == {x \in timestamps[k][1] : timestamps[k][2][x] >= 1}

\* With tickers of a fixed phase, 10 s have passed at the third tick.
expired(k) == {x \in timestamps[k][1] : timestamps[k][2][x] >= 2}

\* The request that deletes a session is one more; expiry takes one session
\* at a time, in any order.
removeExpiredSessions(k) ==
  /\ k = coordinator /\ k \in up \ ticked
  /\ timestamps[k] # Nil
  /\ \/ /\ expired(k) = {}
        /\ timestamps' = [timestamps EXCEPT ![k] =
                            <<@[1], [x \in Id |-> IF x \in @[1] THEN @[2][x] + 1 ELSE 0]>>]
        /\ period(k)
        /\ UNCHANGED map
     \/ \E x \in expired(k) :
          /\ timestamps' = [timestamps EXCEPT ![k] = <<@[1] \ {x}, @[2]>>]
          /\ generate(k, "delete", x, No)
          /\ UNCHANGED ticked
  /\ UNCHANGED <<server, write, conn, local>>

\* The coordinator's recvSessionInfo ignores it as long as it has no map.
sendSessionInfo(s) ==
  LET xs == {local_sessions[s][c] : c \in Client} \ {No} IN
  /\ s \in up \ ticked /\ s # coordinator
  /\ coordinator \in up /\ timestamps[coordinator] # Nil
  /\ timestamps' = [timestamps EXCEPT ![coordinator] =
                      <<@[1] \cup xs, [x \in Id |-> IF x \in xs THEN 0 ELSE @[2][x]]>>]
  /\ period(s)
  /\ fresh' = {f \in fresh : f[1] # s}
  /\ UNCHANGED <<server, write, map, conn, local_sessions>>

Next ==
  \/ \E c \in Client :
       \/ startsession(c) \/ endsession(c) \/ listener(c)
       \/ monitorClientConnectionToServer(c)
       \/ mainListener(c)
       \/ ClientCrash(c)
       \/ \E s \in Server : monitorConnectionToClient(s, c) \/ monitorConnectionToServer(s, c)
  \/ \E i \in Id : register(i) \/ processRequest(i)
  \/ \E s \in Server :
       \/ committed(s) \/ committedReply(s)
       \/ \E i \in Id : deniedListener(s, i)
       \/ Crash(s) \/ Elect(s)
       \/ syncFinish(s) \/ syncListener(s)
       \/ removeExpiredSessions(s) \/ sendSessionInfo(s)

Spec == Init /\ [][Next]_vars

\* Goroutines and tickers run on; a dead coordinator is replaced.
Fairness ==
  /\ \A c \in Client : WF_vars(listener(c)) /\ WF_vars(monitorClientConnectionToServer(c))
                       /\ WF_vars(mainListener(c))
  /\ \A i \in Id : WF_vars(register(i)) /\ WF_vars(processRequest(i))
  /\ \A s \in Server :
       /\ WF_vars(committed(s)) /\ WF_vars(committedReply(s))
       /\ \A i \in Id : WF_vars(deniedListener(s, i))
       /\ \A c \in Client : WF_vars(monitorConnectionToClient(s, c))
       /\ WF_vars(coordinator \notin up /\ Elect(s))
       /\ WF_vars(syncFinish(s)) /\ WF_vars(syncListener(s))
       /\ WF_vars(removeExpiredSessions(s)) /\ WF_vars(sendSessionInfo(s))

FairSpec == Spec /\ Fairness

-----------------------------------------------------------------------------
(* Properties *)

\* A coordinator that expires a session, that is, drops it from its map and
\* asks for its deletion, spares those of clients at other running servers: two
\* missed ticks are needed, and each server sends one heartbeat in between
\* (removeExpiredSessions, reconnect_timeout).  A server that took the client
\* over since its last tick may be too late.
HeartbeatKeepsSession ==
  [][\A k \in Server :
       timestamps[k] # Nil /\ timestamps'[k] # Nil /\ request' # request =>
       \A x \in timestamps[k][1] \ timestamps'[k][1] : \A s \in up \ {k} : \A c \in Client :
         local_sessions[s][c] = x => <<s, c>> \in fresh]_vars

\* A client is told once that a request has succeeded, however often
\* syncListener sends it again (committedListener deletes the entry).
OneOK == \A i \in Id : oks[i] <= 1

\* A request of a client that is in the map while it is on its way gets an
\* answer, also across a change of coordinator, because syncListener sends it
\* again.  Not those of a coordinator, which never signals SyncFinish to
\* itself; nor when the election leads to no sync, because nothing was
\* committed before or the winner has been coordinator before (Continue);
\* nor after a failed Write or the crash of a follower in the sync.
PendingIsAnswered ==
  \A i \in Id :
    (/\ i \in pending /\ request[i].client # No /\ log # << >>
     /\ onTheWay[i] > 0 /\ i \notin Range(log))
    ~> \/ i \notin pending
       \/ coordinator = request[i].origin
       \/ request[i].origin \notin listening
       \/ again \/ ~(awaiting \subseteq up)

\* A request whose client was told REJECT has no effect.
RejectedHasNoEffect ==
  \A s \in Server : \A i \in denied[s] \cap pending : i \notin Range(log)

\* The session of a client that died together with the server it was connected
\* to, which no other server keeps alive, ends: "For coordinator. Remove expired
\* sessions when they timeout." (removeExpiredSessions).  Unless the bound on
\* requests prevents it.
OrphansExpire ==
  \A c \in Client : \A x \in Id :
    (/\ ~client[c].alive /\ client[c].connectedServer \notin up \cup {No}
     /\ client[c].sessionID = x /\ x \in stored(Len(log))
     /\ \A s \in up : local_sessions[s][c] # x)
    ~> \/ x \notin stored(Len(log))
       \/ \E s \in up : local_sessions[s][c] = x
       \/ Len(request) = scenario.Requests
=============================================================================

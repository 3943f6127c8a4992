------------------------------- MODULE PubSub -------------------------------
(***************************************************************************)
(* Publish/subscribe over watch flags, on one topic that exists: clients   *)
(* that subscribe, their servers with the watch cache, and the session     *)
(* znodes in which watches are persisted.  mainListener handles a message  *)
(* of a client in several steps, between which committedListener runs.     *)
(*                                                                         *)
(* Message n of the topic is the znode msg_n.  The coordinator has no      *)
(* clients here; it accepts messages of publishers elsewhere, and log is   *)
(* what it has accepted, of which each server has written a part.          *)
(***************************************************************************)
EXTENDS Naturals, Sequences, FiniteSets, SequencesExt, FiniteSetsExt

CONSTANTS Server, Client,
          MaxMessages,   \* bound: messages
          Scenarios      \* what is considered, see below

\* A scenario does not change during an execution:
\*   Up, First   the servers that may have clients; the first they try
\*   Messages    bound: messages published
\*   Crashes     bound: crashes of servers
\*   Quiet       TRUE: nothing is published before all clients have subscribed
\*   Serial      TRUE: a handler runs to its end before anything else happens,
\*               other than a crash
ASSUME PubSubAssumption ==
  /\ IsFiniteSet(Server) /\ Server # {} /\ IsFiniteSet(Client)
  /\ MaxMessages \in Nat
  /\ Scenarios \subseteq [Up : SUBSET Server, First : Server, Messages : 0..MaxMessages,
                          Crashes : Nat, Quiet : BOOLEAN, Serial : BOOLEAN]

VARIABLES
  scenario,
  up,            \* servers that run
  cache,         \* cache[c]: the session of c in the cache of the coordinator
  log,           \* accepted requests
  applied,       \* applied[s]: how many of them s has written
  checking,      \* servers that have written one and not yet called Check_watch
  watchcache,    \* watchcache[s][n]: the sessions with a watch on message n
  handling,      \* handling[s]: what mainListener is busy with, or Idle
  requests,      \* write requests on their way to the coordinator
  denied,        \* denied[s]: the denials on their way back
  toServer, toClient,
  connectedServer,
  topicMsgMap,   \* topicMsgMap[c]: the next message, 0 when not subscribed
  received       \* received[c]: the last message shown to the user

coordinator == <<cache, log, requests>>
storage     == <<applied, checking>>
watches     == <<watchcache, handling>>
client      == <<connectedServer, topicMsgMap, received>>
vars == <<scenario, up, coordinator, storage, watches, denied, toServer, toClient, client>>

Path == 1..(MaxMessages + 1)
Idle == [message |-> "none"]

created == Cardinality({i \in DOMAIN log : log[i].type = "create"})

\* The files of server s.
messages(s) == Cardinality({i \in 1..applied[s] : log[i].type = "create"})
EmptySession == [Version |-> 1, Watchlist |-> << >>, Versionlist |-> << >>]
\* What the first n requests leave of the session of c: what the last one that
\* has it says of it last.
of(znodes, c) == {j \in DOMAIN znodes : znodes[j].client = c}
sessionAfter(n, c) ==
  LET W == {i \in 1..n : of(log[i].znodes, c) # {}} IN
  IF W = {} THEN EmptySession
  ELSE LET znodes == log[Max(W)].znodes IN znodes[Max(of(znodes, c))].data
session(s, c) == sessionAfter(applied[s], c)
version(s, n) == IF n <= messages(s) THEN 1 ELSE 0

\* A write request: new data of session znodes.  From server s, for a message
\* of client c about message n of the topic, or for none.
request(s, type, znodes, message, c, n) ==
  [type |-> type, znodes |-> znodes, origin |-> s, message |-> message, client |-> c, path |-> n]
znode(c, data) == [client |-> c, data |-> data]

\* The items of q at the positions in I, in their order.
pick(q, I) ==
  [k \in 1..Cardinality(I) |-> q[CHOOSE i \in I : Cardinality({j \in I : j <= i}) = k]]

Init ==
  /\ scenario \in Scenarios
  /\ up = scenario.Up
  /\ cache = [c \in Client |-> EmptySession]
  /\ log = << >> /\ requests = << >> /\ denied = [s \in Server |-> << >>]
  /\ applied = [s \in Server |-> 0] /\ checking = {}
  /\ watchcache = [s \in Server |-> [n \in Path |-> << >>]]
  /\ handling = [s \in Server |-> Idle]
  /\ toServer = [c \in Client |-> << >>] /\ toClient = [c \in Client |-> << >>]
  /\ connectedServer = [c \in Client |-> scenario.First]
  /\ topicMsgMap = [c \in Client |-> 0] /\ received = [c \in Client |-> 0]

-----------------------------------------------------------------------------
(* Client *)

\* No handler is busy, or they may overlap.
free == scenario.Serial => checking = {} /\ \A s \in Server : handling[s] = Idle

Message(m, n) == [message |-> m, n |-> n]
send(c, ms) == toServer' = IF connectedServer[c] \in up
                           THEN [toServer EXCEPT ![c] = @ \o ms] ELSE toServer

\* Assumption: the user subscribes once, and again only if the server crashed
\* before it had sent the request.  A second SUBSCRIBE_OK would set the number
\* of the next message without regard to what was shown.
subscribe(c) ==
  /\ free
  /\ topicMsgMap[c] = 0 /\ toServer[c] = << >> /\ connectedServer[c] \in up
  /\ handling[connectedServer[c]] = Idle
  /\ ~\E r \in Range(requests) \cup Range(log) :
        r.message = "SUBSCRIBE" /\ r.client = c
  /\ send(c, <<Message("SUBSCRIBE", 0)>>)
  /\ UNCHANGED <<scenario, up, coordinator, storage, watches, denied, toClient, client>>

\* listener
listener(c) ==
  /\ free
  /\ toClient[c] # << >>
  /\ LET m == Head(toClient[c]).message
         n == Head(toClient[c]).n
     IN \/ /\ m = "SUBSCRIBE_OK"
           /\ topicMsgMap' = [topicMsgMap EXCEPT ![c] = n]
           /\ received' = [received EXCEPT ![c] = n - 1]
           /\ UNCHANGED toServer
        \/ /\ m = "SUBSCRIBED_MESSAGE"
           /\ received' = [received EXCEPT ![c] = Max({@, n})]
           /\ UNCHANGED <<topicMsgMap, toServer>>
        \/ /\ m = "GET_SUBSCRIPTION_OK"
           /\ topicMsgMap' = [topicMsgMap EXCEPT ![c] = n]
           /\ send(c, <<Message("EXISTS", n)>>)
           /\ UNCHANGED received
        \/ /\ m \in {"WATCH_TRIGGER", "EXISTS_OK", "REJECT"}
           /\ IF (m = "WATCH_TRIGGER" /\ topicMsgMap[c] # 0) \/ (m = "EXISTS_OK" /\ n = 1)
              THEN send(c, <<Message("GET_SUBSCRIPTION", topicMsgMap[c])>>)
              ELSE UNCHANGED toServer
           /\ UNCHANGED <<topicMsgMap, received>>
  /\ toClient' = [toClient EXCEPT ![c] = Tail(@)]
  /\ UNCHANGED <<scenario, up, coordinator, storage, watches, denied, connectedServer>>

\* monitorClientConnectionToServer: what was on the way is lost.  The listener
\* has handled what had arrived before.
reconnect(c) ==
  /\ free
  /\ connectedServer[c] \notin up /\ toClient[c] = << >>
  /\ \E s \in up : connectedServer' = [connectedServer EXCEPT ![c] = s]
  /\ toServer' = [toServer EXCEPT ![c] = <<Message("REESTABLISH_SESSION", 0)>>]
  /\ UNCHANGED <<scenario, up, coordinator, storage, watches, denied, toClient, topicMsgMap,
                 received>>

-----------------------------------------------------------------------------
(* mainListener *)

\* Mutation: the message after the one asked for comes first.
get_subscription_bug(s, k) ==
  [i \in 1..(Max({messages(s), k}) - k) |-> Message("SUBSCRIBED_MESSAGE", k + i)]
  \o <<Message("GET_SUBSCRIPTION_OK", Max({messages(s) + 1, k}))>>

\* The messages from number k on, then the number of the first that is missing.
get_subscription(s, k) ==
  [i \in 1..(Max({messages(s) + 1, k}) - k) |-> Message("SUBSCRIBED_MESSAGE", k + i - 1)]
  \o <<Message("GET_SUBSCRIPTION_OK", Max({messages(s) + 1, k}))>>

\* Watches whose versions agree are taken over; the session forgets the others,
\* but keeps its list of versions.  Only if one is taken over is there anything
\* to write, and only then is the client told of the others.
Update_watch_cache(s, c) ==
  LET d       == session(s, c)
      fresh   == {i \in DOMAIN d.Watchlist : version(s, d.Watchlist[i]) = d.Versionlist[i]}
      kept    == pick(d.Watchlist, fresh)
  IN /\ watchcache' = [watchcache EXCEPT ![s] = [n \in Path |->
                         @[n] \o [k \in 1..Cardinality({j \in DOMAIN kept : kept[j] = n}) |-> c]]]
     /\ IF kept = << >> THEN UNCHANGED <<requests, toClient>>
        ELSE /\ requests' = Append(requests, request(s, "setdata",
                              <<znode(c, [d EXCEPT !.Watchlist = kept])>>, "none", c, 1))
             /\ LET fired == pick(d.Watchlist, DOMAIN d.Watchlist \ fresh)
                IN toClient' = [toClient EXCEPT ![c] =
                                  @ \o [k \in DOMAIN fired |-> Message("WATCH_TRIGGER", fired[k])]]

\* SUBSCRIBE and EXISTS look at the messages first and set the watch later.
mainListener(c) ==
  LET s == connectedServer[c]
      m == Head(toServer[c])
  IN
  /\ free /\ toServer[c] # << >>
  /\ s \in up /\ handling[s] = Idle
  /\ toServer' = [toServer EXCEPT ![c] = Tail(@)]
  /\ \/ /\ m.message = "SUBSCRIBE"
        /\ handling' = [handling EXCEPT ![s] = [message |-> "SUBSCRIBE", client |-> c,
                           path |-> messages(s) + 1, exists |-> FALSE, data |-> << >>]]
        /\ UNCHANGED <<watchcache, requests, toClient>>
     \/ /\ m.message = "EXISTS"
        /\ handling' = [handling EXCEPT ![s] = [message |-> "EXISTS", client |-> c,
                           path |-> m.n, exists |-> m.n <= messages(s), data |-> << >>]]
        /\ UNCHANGED <<watchcache, requests, toClient>>
     \/ /\ m.message = "GET_SUBSCRIPTION"
        /\ toClient' = [toClient EXCEPT ![c] = @ \o get_subscription(s, m.n)]
        /\ UNCHANGED <<watchcache, handling, requests>>
     \/ /\ m.message = "REESTABLISH_SESSION"
        /\ Update_watch_cache(s, c)
        /\ UNCHANGED handling
  /\ UNCHANGED <<scenario, up, cache, log, storage, denied, client>>

\* The session's data with a watch on message n added.
withWatch(s, c, n) ==
  LET d == session(s, c)
  IN [d EXCEPT !.Watchlist = Append(@, n), !.Versionlist = Append(@, version(s, n))]

\* Encode_watch reads the session and the watched znode ...
Encode_watch(s) ==
  LET h == handling[s] IN
  /\ s \in up /\ h # Idle /\ h.data = << >>
  /\ handling' = [handling EXCEPT ![s].data = <<withWatch(s, h.client, h.path)>>]
  /\ UNCHANGED <<scenario, up, coordinator, storage, watchcache, denied, toServer, toClient,
                 client>>

\* ... and enters the watch in the cache; the request is sent, and the reply.
addWatch(s) ==
  LET h == handling[s] IN
  /\ s \in up /\ h # Idle /\ h.data # << >>
  /\ watchcache' = [watchcache EXCEPT ![s][h.path] = Append(@, h.client)]
  /\ requests' = Append(requests, request(s, "setdata", <<znode(h.client, h.data[1])>>,
                                          h.message, h.client, h.path))
  /\ toClient' = IF h.message = "SUBSCRIBE" THEN toClient
                 ELSE [toClient EXCEPT ![h.client] =
                         Append(@, Message("EXISTS_OK", IF h.exists THEN 1 ELSE 0))]
  /\ handling' = [handling EXCEPT ![s] = Idle]
  /\ UNCHANGED <<scenario, up, cache, log, storage, denied, toServer, client>>

-----------------------------------------------------------------------------
(* committedListener, deniedListener and the coordinator *)

Write(s) ==
  /\ free
  /\ s \in up \ checking
  /\ applied[s] < Len(log)
  /\ applied' = [applied EXCEPT ![s] = @ + 1]
  /\ checking' = checking \cup {s}
  /\ UNCHANGED <<scenario, up, coordinator, watches, denied, toServer, toClient, client>>

\* The session's data without its first watch on message n.
withoutWatch(s, c, n) ==
  LET d  == session(s, c)
      at == {i \in DOMAIN d.Watchlist : d.Watchlist[i] = n}
  IN IF at = {} THEN d
     ELSE [d EXCEPT !.Watchlist = RemoveAt(@, Min(at)), !.Versionlist = RemoveAt(@, Min(at))]

\* Mutation: the watch is removed before it is looked at.
triggered_bug(s) == << >>

\* The sessions that watch what s has just written.
triggered(s) == IF log[applied[s]].type = "create" THEN watchcache[s][messages(s)] ELSE << >>

\* Each session gets WATCH_TRIGGER as often as it is in the list, and is in the
\* request as often, each time with the version it has now.  Then the reply.
Check_watch(s) ==
  LET e  == log[applied[s]]
      n  == messages(s)
      cs == triggered(s)
      watching(c) == IF connectedServer[c] = s THEN {i \in DOMAIN cs : cs[i] = c} ELSE {}
  IN
  /\ s \in up \cap checking
  /\ checking' = checking \ {s}
  /\ watchcache' = IF e.type = "create" THEN [watchcache EXCEPT ![s][n] = << >>] ELSE watchcache
  /\ requests' = IF cs = << >> THEN requests
                 ELSE Append(requests, request(s, "watch_trigger",
                        [i \in DOMAIN cs |-> znode(cs[i], withoutWatch(s, cs[i], n))],
                        "none", cs[1], n))
  /\ toClient' = [c \in Client |->
       toClient[c]
       \o [i \in 1..Cardinality(watching(c)) |-> Message("WATCH_TRIGGER", n)]
       \o (IF e.message = "SUBSCRIBE" /\ e.origin = s /\ e.client = c
           THEN <<Message("SUBSCRIBE_OK", n + 1)>> ELSE << >>)]
  /\ UNCHANGED <<scenario, up, cache, log, applied, handling, denied, toServer, client>>

\* Mutation: the denied data is sent again.
retried_bug(s, r) == r.znodes[1].data

\* The data of the second attempt: read anew.
retried(s, r) == withWatch(s, r.client, r.path)

\* A watch is tried again unless it has been triggered; the denial of a
\* watch_trigger goes unnoticed.
deniedListener(s) ==
  LET r == Head(denied[s]) IN
  /\ free /\ s \in up /\ denied[s] # << >>
  /\ denied' = [denied EXCEPT ![s] = Tail(@)]
  /\ requests' = IF r.message = "EXISTS" /\ r.client \in Range(watchcache[s][r.path])
                 THEN Append(requests, [r EXCEPT !.znodes =
                        <<znode(r.client, retried(s, r))>>])
                 ELSE requests
  /\ toClient' = IF r.message = "SUBSCRIBE"
                 THEN [toClient EXCEPT ![r.client] = Append(@, Message("REJECT", 0))]
                 ELSE toClient
  /\ UNCHANGED <<scenario, up, cache, log, storage, watches, toServer, client>>

\* check_update: the version must be the one in the cache, which every znode of
\* the request before this one has already increased.
check_update(znodes, j) ==
  LET z == znodes[j] IN
  z.data.Version = cache[z.client].Version + Cardinality(of(znodes, z.client) \cap 1..(j - 1))

\* A watch_trigger is checked znode by znode: what was accepted before one is
\* denied stays in the cache.
processRequest ==
  LET r      == Head(requests)
      A      == {j \in DOMAIN r.znodes : \A i \in 1..j : check_update(r.znodes, i)}
      znodes == [j \in DOMAIN r.znodes |-> [r.znodes[j] EXCEPT !.data.Version = @ + 1]]
  IN
  /\ free /\ requests # << >>
  /\ requests' = Tail(requests)
  /\ cache' = [c \in Client |-> LET own == of(znodes, c) \cap A IN
                                IF own = {} THEN cache[c] ELSE znodes[Max(own)].data]
  /\ IF A = DOMAIN r.znodes
     THEN log' = Append(log, [r EXCEPT !.znodes = znodes]) /\ UNCHANGED denied
     ELSE denied' = [denied EXCEPT ![r.origin] = Append(@, r)] /\ UNCHANGED log
  /\ UNCHANGED <<scenario, up, storage, watches, toServer, toClient, client>>

\* PUBLISH of a client of some other server, accepted by the coordinator.
publish ==
  /\ free
  /\ created < scenario.Messages
  /\ scenario.Quiet => \A c \in Client : topicMsgMap[c] # 0
  /\ log' = Append(log, [type |-> "create", znodes |-> << >>, message |-> "none"])
  /\ UNCHANGED <<scenario, up, cache, requests, storage, watches, denied, toServer, toClient,
                 client>>

\* A server with clients.  The requests it has sent are lost or not.
Crash(s) ==
  /\ s \in up /\ up # {s} /\ \E c \in Client : connectedServer[c] = s
  /\ Cardinality(scenario.Up \ up) < scenario.Crashes
  /\ up' = up \ {s}
  /\ requests' \in {requests, pick(requests, {i \in DOMAIN requests : requests[i].origin # s})}
  /\ handling' = [handling EXCEPT ![s] = Idle]
  /\ checking' = checking \ {s}
  /\ denied' = [denied EXCEPT ![s] = << >>]
  /\ watchcache' = [watchcache EXCEPT ![s] = [n \in Path |-> << >>]]
  /\ toServer' = [c \in Client |-> IF connectedServer[c] = s THEN << >> ELSE toServer[c]]
  /\ UNCHANGED <<scenario, cache, log, applied, toClient, client>>

Next ==
  \/ \E c \in Client : subscribe(c) \/ listener(c) \/ reconnect(c) \/ mainListener(c)
  \/ \E s \in Server :
       \/ Encode_watch(s) \/ addWatch(s)
       \/ Write(s) \/ Check_watch(s) \/ deniedListener(s)
       \/ Crash(s)
  \/ processRequest \/ publish

Spec == Init /\ [][Next]_vars

\* The goroutines run on and messages arrive; users need not do anything.
Fairness ==
  /\ \A c \in Client : WF_vars(listener(c)) /\ WF_vars(reconnect(c)) /\ WF_vars(mainListener(c))
  /\ \A s \in Server :
       /\ WF_vars(Encode_watch(s)) /\ WF_vars(addWatch(s)) /\ WF_vars(Check_watch(s))
       /\ WF_vars(Write(s)) /\ WF_vars(deniedListener(s))
  /\ WF_vars(processRequest)

FairSpec == Spec /\ Fairness

-----------------------------------------------------------------------------
(* Properties *)

\* A subscriber is never shown a message before the one that precedes it,
\* whatever watches race and whichever server it moves to (GET_SUBSCRIPTION
\* starts from the client's own number).
NoGap ==
  [][\A c \in Client : topicMsgMap[c] # 0 =>
       received'[c] \in {received[c], received[c] + 1}]_vars

\* A watch that is set before its message is written at the server leads to
\* the message: WATCH_TRIGGER makes the client ask for all from its own number
\* on (Check_watch, listener).
WatchDelivers ==
  \A c \in Client, n \in 1..MaxMessages :
    (LET s == connectedServer[c] IN
     /\ s \in up /\ c \in Range(watchcache[s][n])
     /\ messages(s) < n /\ n <= created /\ topicMsgMap[c] # 0)
    ~> (received[c] >= n \/ up # scenario.Up)

\* A subscriber is shown every message in the end: as long as no server
\* crashes, nothing is published while it subscribes, and no commit falls
\* between the look at the messages and the entry in the watch cache.
Delivered ==
  \A c \in Client, n \in 1..MaxMessages :
    (/\ scenario.Serial /\ scenario.Quiet /\ scenario.Crashes = 0
     /\ topicMsgMap[c] # 0 /\ n <= created)
    ~> received[c] >= n

\* A watch in the cache is also entered in the session znode, where another
\* server finds it after a crash, or triggered: deniedListener tries again when
\* a watch_trigger of the same session was faster.  With one subscriber, and no
\* commit while a request of a client is handled: with two, the cache can run
\* ahead of all sessions (PubSub_partial.cfg).
WatchIsPersisted ==
  \A c \in Client, n \in 1..MaxMessages :
    LET s == connectedServer[c] IN
    (scenario.Serial /\ s \in up /\ c \in Range(watchcache[s][n]) /\ messages(s) < n)
    ~> (n \in Range(session(s, c).Watchlist) \/ messages(s) >= n \/ up # scenario.Up)

\* The same as Delivered without its conditions.
SubscriberGetsAll ==
  \A c \in Client, n \in 1..MaxMessages :
    (topicMsgMap[c] # 0 /\ n <= created) ~> received[c] >= n

\* A client that comes with triggered watches is told: "if any mismatch will
\* return paths of mismatched (to inform client)" (Update_watch_cache).
MissedIsTold ==
  [][\A c \in Client :
       LET s == connectedServer[c]
           d == session(s, c)
       IN (/\ toServer[c] # << >> /\ toServer'[c] = Tail(toServer[c])
           /\ Head(toServer[c]).message = "REESTABLISH_SESSION" /\ s \in up'
           /\ \E i \in DOMAIN d.Watchlist : version(s, d.Watchlist[i]) # d.Versionlist[i])
          => \E m \in Range(toClient'[c]) : m.message = "WATCH_TRIGGER"]_vars

\* The coordinator's version of a session is the one it has sent to all.
CacheIsSent == \A c \in Client : cache[c].Version = sessionAfter(Len(log), c).Version
=============================================================================

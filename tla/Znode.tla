------------------------------- MODULE Znode -------------------------------
(***************************************************************************)
(* internal/znode on the coordinator.  A write request is checked against  *)
(* the cache (Check), which then already shows its effect; the request is  *)
(* broadcast, and when it comes back on the committed channel it is        *)
(* written to the storage (committedListener, Write).  Every server writes *)
(* the same requests in the same order, so one storage stands for all.     *)
(*                                                                         *)
(* A path is a sequence of names; a name is <<text, n>>, n the number      *)
(* after "_" or 0.  The root is << >>.  A panic of Check and an error of   *)
(* Write are ends: the first kills the coordinator, after the second the   *)
(* committed channel has no reader.                                        *)
(***************************************************************************)
EXTENDS Integers, Sequences, FiniteSets, SequencesExt, FiniteSetsExt

CONSTANTS Workloads,    \* what the clients and servers may do
          Topics        \* znodes that exist at the start, below the root

Root == << >>
sessionDir == << <<"sessionDir", 0>> >>
None == "none"          \* ZNode.Ephemeral of a znode that is not ephemeral

\* Requests.  The two literals are added to STRING for the prover, which does
\* not know that STRING has them.
Strings == STRING \cup {None, "sessionDir"}
Names   == Strings \X Nat
Paths   == Seq(Names)
Reqs    == [Request : {"create", "setdata", "delete", "delete_session", "sync"},
            Path : Paths, Data : Strings, Version : Int, Ephemeral : Strings,
            Sequential : BOOLEAN]

\* filepath.Dir and filepath.Base
Dir(path)  == Front(path)
Base(path) == Last(path)
SessionPath(id) == Append(sessionDir, <<id, 0>>)

(* A request: what the Encode functions make. *)
create(path, data, ephemeral, sequential) ==
  [Request |-> "create", Path |-> path, Data |-> data, Version |-> 0,
   Ephemeral |-> ephemeral, Sequential |-> sequential]
setdata(path, data, version) ==
  [Request |-> "setdata", Path |-> path, Data |-> data, Version |-> version,
   Ephemeral |-> None, Sequential |-> FALSE]
delete(path, version) == [setdata(path, None, version) EXCEPT !.Request = "delete"]
delete_session(id)    == [setdata(SessionPath(id), None, 0) EXCEPT !.Request = "delete_session"]
sync                  == [setdata(Root, None, 0) EXCEPT !.Request = "sync"]

\* A workload does not change during an execution:
\*   Requests     the write requests
\*   MaxPending   bound: accepted requests that are not yet written
\*   MaxChecks    bound: accepted requests
\*   ReinitIdle   TRUE: Init_znode_cache only when nothing is pending
ASSUME WorkloadsAssumption ==
  /\ \A w \in Workloads :
       /\ w.MaxPending \in Nat \ {0} /\ w.MaxChecks \in Nat /\ w.ReinitIdle \in BOOLEAN
       /\ w.Requests \subseteq Reqs
       /\ \A r \in w.Requests : r.Request = "create" \/ r.Ephemeral = None
  /\ IsFiniteSet(Topics) /\ Topics \subseteq Paths
  /\ \A t \in Topics : Len(t) = 1 /\ t # sessionDir

VARIABLES workload,
          cache,      \* znodecache: path -> znode; empty before Init_znode_cache
          storage,    \* the files: path -> znode
          pending,    \* accepted requests, in the order of their commits
          panicked,   \* Check dereferenced a nil *ZNode
          listening,  \* committedListener still reads
          checks

vars == <<workload, cache, storage, pending, panicked, listening, checks>>

\* EphemeralNodes is the part of a session znode's Data that Check and Write
\* use, and empty in the others.
ZNode(data, version, ephemeral, children) ==
  [Data |-> data, Version |-> version, Ephemeral |-> ephemeral, Children |-> children,
   EphemeralNodes |-> << >>]

\* The storage with the base znode and the session directory.
init_base_znode ==
  [path \in {Root, sessionDir} \cup Topics |->
     IF path = Root THEN ZNode(None, 0, None, SetToSeq({Base(t) : t \in Topics}))
     ELSE ZNode(None, IF path \in Topics THEN 1 ELSE 0, None, << >>)]

Init ==
  /\ workload \in Workloads
  /\ cache = << >>
  /\ storage = init_base_znode
  /\ pending = << >>
  /\ panicked = FALSE /\ listening = TRUE
  /\ checks = 0

-----------------------------------------------------------------------------
(* Helpers on a tree t: path -> znode *)

Put(t, path, node) == [p \in DOMAIN t \cup {path} |-> IF p = path THEN node ELSE t[p]]
Without(t, S)      == [p \in DOMAIN t \ S |-> t[p]]

addChild(t, path) == [t EXCEPT ![Dir(path)].Children = Append(@, Base(path))]
addEphemeral(t, session, path) ==
  [t EXCEPT ![session].EphemeralNodes = Append(@, path), ![session].Version = @ + 1]
\* The first entry with the name goes.
dropChild(t, path) == [t EXCEPT ![Dir(path)].Children =
  LET at == {i \in DOMAIN @ : @[i] = Base(path)}
  IN IF at = {} THEN @ ELSE RemoveAt(@, Min(at))]

Written(t) == [err |-> FALSE, st |-> t]
Failed(t)  == [err |-> TRUE,  st |-> t]

\* An ephemeral znode goes from the cache (check_delete_session) ...
forget(t, path) ==
  IF Dir(path) \notin DOMAIN t THEN Failed(t) ELSE Written(Without(dropChild(t, path), {path}))

\* ... and a directory from the files, with all that is in it (delete_op).
delete_op(t, path) ==
  IF Dir(path) \notin DOMAIN t
  THEN Failed(t)
  ELSE Written(Without(dropChild(t, path), {p \in DOMAIN t : IsPrefix(path, p)}))

\* The ephemeral znodes of a session go one after the other, up to the first
\* that cannot: from the files, where each is read first, or from the cache.
eachNode(t, nodes, onDisk) ==
  LET after[k \in 0..Len(nodes)] ==
        IF k = 0 THEN Written(t)
        ELSE IF after[k - 1].err THEN after[k - 1]
        ELSE IF ~onDisk THEN forget(after[k - 1].st, nodes[k])
        ELSE IF nodes[k] \notin DOMAIN after[k - 1].st THEN Failed(after[k - 1].st)
        ELSE delete_op(after[k - 1].st, nodes[k])
  IN after[Len(nodes)]

\* populate_cache_layer, from the root and from sessionDir: the znodes that the
\* lists of children lead to.
populate(t) ==
  LET listed(p, n) == p[n] \in Range(t[SubSeq(p, 1, n - 1)].Children)
      reached(p)   == \A n \in 1..Len(p) : (p[n] = sessionDir[1] /\ n = 1) \/ listed(p, n)
  IN [p \in {q \in DOMAIN t : reached(q)} |-> t[p]]

-----------------------------------------------------------------------------
(* Check: an outcome is the cache after it and what became of the request *)

Denied(t)       == [res |-> "denied", cache |-> t, req |-> sync]
Panic(t)        == [res |-> "panic",  cache |-> t, req |-> sync]
Accepted(t, r)  == [res |-> "ok",     cache |-> t, req |-> r]

\* The highest number among the siblings with the same text, plus one.
seqname(t, path) ==
  LET taken == {c[2] : c \in {c \in Range(t[Dir(path)].Children) : c[1] = Base(path)[1]}}
  IN Append(Dir(path), <<Base(path)[1], Max(taken \cup {0}) + 1>>)

\* Mutation: a znode that exists can be created.
check_create_bug(t, req) ==
  IF Dir(req.Path) \notin DOMAIN t
  THEN Denied(t)
  ELSE Accepted(addChild(Put(t, req.Path, ZNode(req.Data, 1, req.Ephemeral, << >>)), req.Path),
                [req EXCEPT !.Version = 1])

check_create(t, req) ==
  LET session == SessionPath(req.Ephemeral)
      t1      == IF req.Ephemeral = None THEN t ELSE addEphemeral(t, session, req.Path)
  IN IF \/ req.Path \in DOMAIN t
        \/ Dir(req.Path) \notin DOMAIN t
        \/ t[Dir(req.Path)].Ephemeral # None
        \/ req.Ephemeral # None /\ session \notin DOMAIN t
     THEN Denied(t)
     ELSE Accepted(
            addChild(Put(t1, req.Path, ZNode(req.Data, 1, req.Ephemeral, << >>)), req.Path),
            [req EXCEPT !.Version = 1])

\* Mutation: the version in the cache is not incremented.
check_update_bug(t, req) ==
  IF req.Path \notin DOMAIN t \/ req.Version \notin {-1, t[req.Path].Version}
  THEN Denied(t)
  ELSE Accepted([t EXCEPT ![req.Path].Data = req.Data],
                [req EXCEPT !.Version = IF @ = -1 THEN -1 ELSE @ + 1])

\* Version -1 means any version; the request then keeps it, and so does the
\* cache its own.
check_update(t, req) ==
  IF req.Path \notin DOMAIN t \/ req.Version \notin {-1, t[req.Path].Version}
  THEN Denied(t)
  ELSE IF req.Version = -1
  THEN Accepted([t EXCEPT ![req.Path].Data = req.Data], req)
  ELSE Accepted([t EXCEPT ![req.Path].Data = req.Data, ![req.Path].Version = @ + 1],
                [req EXCEPT !.Version = @ + 1])

\* Mutation: the znode stays in its parent's list.
check_delete_bug(t, req) ==
  IF req.Path \notin DOMAIN t \/ req.Version \notin {-1, t[req.Path].Version}
  THEN Denied(t)
  ELSE Accepted(Without(t, {req.Path}), req)

\* Only the znode itself leaves the cache.
check_delete(t, req) ==
  IF req.Path \notin DOMAIN t \/ req.Version \notin {-1, t[req.Path].Version}
  THEN Denied(t)
  ELSE IF Dir(req.Path) \notin DOMAIN t
  THEN Panic(t)
  ELSE Accepted(Without(dropChild(t, req.Path), {req.Path}), req)

\* The session and its list are read from the storage, not from the cache.
check_delete_session(t, req) ==
  IF req.Path \notin DOMAIN storage
  THEN Denied(t)
  ELSE LET rest == eachNode(t, storage[req.Path].EphemeralNodes, FALSE)
       IN IF rest.err THEN Panic(t) ELSE Accepted(Without(rest.st, {req.Path}), req)

Check(t, req) ==
  IF t = << >> THEN Denied(t)
  ELSE CASE req.Request = "create" ->
              IF ~req.Sequential
              THEN check_create(t, req)
              ELSE IF Dir(req.Path) \notin DOMAIN t
              THEN Panic(t)
              ELSE check_create(t, [req EXCEPT !.Path = seqname(t, req.Path)])
         [] req.Request = "setdata"        -> check_update(t, req)
         [] req.Request = "delete"         -> check_delete(t, req)
         [] req.Request = "delete_session" -> check_delete_session(t, req)
         [] req.Request = "sync"           -> Accepted(t, req)

-----------------------------------------------------------------------------
(* Write: an outcome is the storage after it and whether it was an error *)

\* Each file is written by itself: an error leaves the ones before it.
write_create(t, req) ==
  LET session == SessionPath(req.Ephemeral)
      t1      == addChild(t, req.Path)
      t2      == IF req.Ephemeral = None THEN t1 ELSE addEphemeral(t1, session, req.Path)
  IN IF Dir(req.Path) \notin DOMAIN t
     THEN Failed(t)
     ELSE IF req.Ephemeral # None /\ session \notin DOMAIN t1
     THEN Failed(t1)
     ELSE Written(Put(t2, req.Path, ZNode(req.Data, req.Version, req.Ephemeral, << >>)))

\* Mutation: the session goes first, and what it owns afterwards.
write_delete_session_bug(t, req) ==
  IF req.Path \notin DOMAIN t
  THEN Failed(t)
  ELSE eachNode(delete_op(t, req.Path).st, t[req.Path].EphemeralNodes, TRUE)

write_delete_session(t, req) ==
  IF req.Path \notin DOMAIN t
  THEN Failed(t)
  ELSE LET rest == eachNode(t, t[req.Path].EphemeralNodes, TRUE)
       IN IF rest.err THEN rest ELSE delete_op(rest.st, req.Path)

\* setdata writes the znode of the request over the old one.
Write(t, req) ==
  CASE req.Request = "create"         -> write_create(t, req)
    [] req.Request = "setdata"        ->
         Written(Put(t, req.Path, ZNode(req.Data, req.Version, req.Ephemeral, << >>)))
    [] req.Request = "delete"         -> delete_op(t, req.Path)
    [] req.Request = "delete_session" -> write_delete_session(t, req)
    [] req.Request = "sync"           -> Failed(t)

-----------------------------------------------------------------------------
Running == ~panicked /\ listening

\* processRequest on the coordinator: the check, and the proposal it allows.
processRequest ==
  /\ Running
  /\ checks < workload.MaxChecks
  /\ Len(pending) < workload.MaxPending
  /\ \E req \in workload.Requests :
       LET outcome == Check(cache, req) IN
       /\ cache' = outcome.cache
       /\ panicked' = (outcome.res = "panic")
       /\ pending' = IF outcome.res = "ok" THEN Append(pending, outcome.req) ELSE pending
       /\ checks' = IF outcome.res = "ok" THEN checks + 1 ELSE checks
  /\ UNCHANGED <<workload, storage, listening>>

committedListener ==
  /\ Running
  /\ pending # << >>
  /\ LET outcome == Write(storage, Head(pending)) IN
     /\ storage' = outcome.st
     /\ listening' = ~outcome.err
  /\ pending' = Tail(pending)
  /\ UNCHANGED <<workload, cache, panicked, checks>>

\* mainListener calls it whenever a NewRing or a RingDiscover message reaches
\* the coordinator.
Init_znode_cache ==
  /\ Running
  /\ workload.ReinitIdle => pending = << >>
  /\ cache' = populate(storage)
  /\ UNCHANGED <<workload, storage, pending, panicked, listening, checks>>

Next == processRequest \/ committedListener \/ Init_znode_cache

Spec == Init /\ [][Next]_vars

-----------------------------------------------------------------------------
(* Properties *)

\* What the storage will be once the first i pending requests are written, up
\* to the first error.
ahead[i \in 0..Len(pending)] ==
  IF i = 0 THEN Written(storage)
  ELSE IF ahead[i - 1].err THEN ahead[i - 1]
  ELSE Write(ahead[i - 1].st, pending[i])

Predicted == ahead[Len(pending)]

\* The cache is what the storage will be, znode by znode: every request that
\* Check accepted against the cache will be written without an error, whatever
\* is still between the two, and leave the data, the version and the owner that
\* the cache already shows.
PredictsZnodes ==
  cache # << >> =>
    /\ ~Predicted.err
    /\ DOMAIN Predicted.st = DOMAIN cache
    /\ \A p \in DOMAIN cache :
         [Predicted.st[p] EXCEPT !.Children = << >>] = [cache[p] EXCEPT !.Children = << >>]

\* The lists of children in the cache, from which seqname takes the next number,
\* are the ones the storage will have, and from which the next coordinator
\* fills its cache.
PredictsChildren ==
  \A p \in DOMAIN cache \cap DOMAIN Predicted.st : cache[p].Children = Predicted.st[p].Children

\* No accepted request ends a session of which another has already taken, or is
\* about to take, something away: check_delete_session looks at the storage, and
\* accepts what Write then refuses (Znode_owned).
EndsAlone ==
  \/ \A req \in workload.Requests : req.Request # "delete_session"
  \/ workload.MaxPending = 1 /\ \A req \in workload.Requests : req.Request # "delete"

\* What the coordinator decides with is what every server will have.  Where
\* sessions end, lists of children are excepted: check_delete_session leaves
\* the session in that of sessionDir, which no sequence number depends on.
CacheIsAhead ==
  EndsAlone =>
    /\ PredictsZnodes
    /\ (\A req \in workload.Requests : req.Request # "delete_session") => PredictsChildren

\* A create never writes over a znode: two publishers whose requests are under
\* way at the same time get different sequence numbers, and no message of a
\* topic replaces another (Check, seqname and check_create).
NoOverwrite ==
  [][storage' # storage /\ Head(pending).Request = "create"
       => Head(pending).Path \notin DOMAIN storage]_vars

\* Each write of a znode's data is the next version: of two updates made from
\* the same version only one is written (check_update compares with the cache
\* while older updates are still on their way to the storage).
NoLostUpdate ==
  [][\A p \in DOMAIN storage \cap DOMAIN storage' :
       storage'[p].Data # storage[p].Data => storage'[p].Version = storage[p].Version + 1]_vars

\* An ephemeral znode is never in the storage without its session's znode: not
\* while delete_session stops at the first of its znodes that is already gone,
\* and not when a session ends twice, or starts again, before the first end of it
\* is written.
EphemeralsEndWithSession ==
  \A p \in DOMAIN storage :
    storage[p].Ephemeral # None => SessionPath(storage[p].Ephemeral) \in DOMAIN storage

\* committedListener returns when Write fails, and the server then commits
\* nothing more.  Requests that Check accepts can bring it there: a sync, and a
\* delete_session that finds less than it was promised.
CommitsGoOn == listening

\* Check never dereferences the entry of a path that is not in the cache.  It
\* does for a sequential create under a parent that does not exist, for a
\* delete whose parent was deleted, and for such a znode of a session.
NoPanic == ~panicked
=============================================================================

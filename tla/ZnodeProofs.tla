------------------------------ MODULE ZnodeProofs ------------------------------
(***************************************************************************)
(* Machine-checked proofs about Znode, for any requests and any number of  *)
(* them under way between the check and the storage.  In workloads that    *)
(* change and delete only leaves the cache is what the storage will be     *)
(* after all of them (Ahead), so that what Check decides is right.  Where  *)
(* sessions end, Write may refuse what Check accepted; ephemeral znodes    *)
(* still have their sessions (SInv).                                       *)
(***************************************************************************)
EXTENDS Znode, Integers, TLAPS, SequenceTheorems, FiniteSetTheorems,
        WellFoundedInduction

-----------------------------------------------------------------------------
(* Queues and sets of numbers *)

\* What Append does to a queue, element by element.
LEMMA AppendFacts ==
  ASSUME NEW S, NEW q \in Seq(S), NEW e \in S
  PROVE  /\ Append(q, e) \in Seq(S)
         /\ Len(q) \in Nat
         /\ Len(Append(q, e)) = Len(q) + 1
         /\ \A i \in 1..Len(q) : Append(q, e)[i] = q[i]
         /\ Append(q, e)[Len(q) + 1] = e
BY AppendProperties, LenProperties

\* What taking the head of a queue leaves, element by element.
LEMMA HeadFacts ==
  ASSUME NEW S, NEW q \in Seq(S), q # << >>
  PROVE  /\ Len(q) \in Nat /\ Len(q) >= 1
         /\ Head(q) = q[1]
         /\ Head(q) \in S
         /\ Tail(q) \in Seq(S)
         /\ Len(Tail(q)) = Len(q) - 1
         /\ \A i \in 1..(Len(q) - 1) : Tail(q)[i] = q[i + 1]
<1>1. Len(q) \in Nat /\ Len(q) >= 1 /\ 1 \in 1..Len(q)
  BY EmptySeq, LenProperties
<1>2. q[1] \in S
  BY <1>1, ElementOfSeq
<1> QED
  BY <1>1, <1>2, HeadTailProperties

\* The numbers up to n are n.
LEMMA CountOfInterval ==
  ASSUME NEW n \in Nat
  PROVE  IsFiniteSet(1..n) /\ Cardinality(1..n) = n
<1>1. /\ IsFiniteSet(1..n)
      /\ Cardinality(1..n) = IF 1 > n THEN 0 ELSE n - 1 + 1
  BY FS_Interval
<1> QED
  BY <1>1

\* A set of numbers with a bound has a greatest one.
LEMMA MaximumExists ==
  ASSUME NEW n \in Nat, NEW S \in SUBSET (0..n), S # {}
  PROVE  \E m \in S : \A x \in S : m >= x
<1> DEFINE T == {k \in 0..n : n - k \in S}
           R == OpToRel(<, Nat)
<1>1. \A x \in S : n - x \in T
  <2> SUFFICES ASSUME NEW x \in S PROVE n - x \in T
    OBVIOUS
  <2>1. x \in 0..n
    OBVIOUS
  <2> QED
    BY <2>1
<1>2. \A k \in T : k \in Nat /\ n - k \in S
  OBVIOUS
<1>3. \A i, j \in Nat : i < j => <<i, j>> \in R
  BY DEF OpToRel
<1>4. IsWellFoundedOn(R, Nat)
  BY NatLessThanWellFounded
<1> HIDE DEF T, R
<1>5. T \subseteq Nat /\ T # {}
  BY <1>1, <1>2
<1>6. PICK k \in T : \A j \in T : <<j, k>> \notin R
  BY <1>4, <1>5, WFMin
<1>7. ASSUME NEW x \in S PROVE n - k >= x
  <2>1. n - x \in Nat /\ k \in Nat /\ x \in Nat
    BY <1>1, <1>2, <1>6
  <2>2. ~(n - x < k)
    BY <1>1, <1>3, <1>6, <2>1
  <2> QED
    BY <2>1, <2>2
<1> QED
  BY <1>2, <1>6, <1>7

\* A set of numbers has a least one.
LEMMA MinimumExists ==
  ASSUME NEW S \in SUBSET Nat, S # {}
  PROVE  \E m \in S : \A x \in S : m <= x
<1> DEFINE R == OpToRel(<, Nat)
<1>1. \A i, j \in Nat : i < j => <<i, j>> \in R
  BY DEF OpToRel
<1>2. IsWellFoundedOn(R, Nat)
  BY NatLessThanWellFounded
<1> HIDE DEF R
<1>3. PICK m \in S : \A x \in S : <<x, m>> \notin R
  BY <1>2, WFMin
<1>4. ASSUME NEW x \in S PROVE m <= x
  <2>1. m \in Nat /\ x \in Nat
    OBVIOUS
  <2>2. ~(x < m)
    BY <1>1, <1>3, <2>1
  <2> QED
    BY <2>1, <2>2
<1> QED
  BY <1>3, <1>4

\* The znodes that exist from the start.
Initial == {Root, sessionDir} \cup Topics

\* The create r may make the znode p.
Makes(r, p) ==
  /\ r.Request = "create"
  /\ IF r.Sequential THEN p # Root /\ Dir(p) = Dir(r.Path) /\ Base(p)[1] = Base(r.Path)[1]
     ELSE p = r.Path

\* The create r needs the znode q: above its own, or as its session.
Needs(r, q) ==
  /\ r.Request = "create"
  /\ IsPrefix(q, Dir(r.Path)) \/ (r.Ephemeral # None /\ q = SessionPath(r.Ephemeral))
Needed(w, q) == \E r \in w.Requests : Needs(r, q)

\* Creates of any kind, ephemeral and sequential ones included, the latter below
\* znodes that exist.  What is changed or deleted is no znode that a create
\* needs; changes name the version they are made from.  The cache is not
\* reloaded while requests are under way.  Znode_nested, Znode_owned,
\* Znode_setdata and Znode_reinit show what goes wrong in other workloads.
LeavesOnly(w) ==
  /\ w.ReinitIdle
  /\ \A r \in w.Requests :
     /\ r.Path # Root
     /\ \/ r.Request = "create" /\ (r.Sequential => Dir(r.Path) \in Initial)
        \/ /\ r.Request \in {"setdata", "delete"}
           /\ ~Needed(w, r.Path)
           /\ r.Request = "setdata" =>
                /\ r.Version # -1
                /\ \A c \in w.Requests : Makes(c, r.Path) => c.Ephemeral = None

Nodes == [Data : Strings, Version : Int, Ephemeral : Strings, Children : Seq(Names),
          EphemeralNodes : Seq(Paths)]
Typed(u) == DOMAIN u \subseteq Paths /\ u \in [DOMAIN u -> Nodes]

\* The first k names of a path.
Part(p, k) == SubSeq(p, 1, k)

\* The lists of children lead to the first n names of p, if they do to n - 1.
LedTo(u, p, n) ==
  /\ Part(p, n - 1) \in DOMAIN u
  /\ (n = 1 /\ p[n] = sessionDir[1]) \/ p[n] \in Range(u[Part(p, n - 1)].Children)

\* What the cache and the storage are at any time: what a create needs is
\* there; every path is led to by the lists of children (populate); every znode
\* is from the start or of a create; the session of an ephemeral znode is
\* there; leaves have no children and own nothing.
Tree(w, u) ==
  /\ Typed(u)
  /\ \A p \in Initial : p = Root \/ Needed(w, p) => p \in DOMAIN u
  /\ \A p \in DOMAIN u : \A n \in 1..Len(p) : LedTo(u, p, n)
  /\ \A p \in DOMAIN u : p \in Initial \/ \E r \in w.Requests : Makes(r, p)
  /\ \A p \in DOMAIN u : u[p].Ephemeral # None =>
       /\ SessionPath(u[p].Ephemeral) \in DOMAIN u
       /\ \E r \in w.Requests : Makes(r, p) /\ r.Ephemeral = u[p].Ephemeral
  /\ \A p \in DOMAIN u :
       p = Root \/ Needed(w, p) \/ (u[p].Children = << >> /\ u[p].EphemeralNodes = << >>)

\* The request can be written to u: its znode is new, or is a leaf that is there,
\* in the version before the one it writes.
Sound(w, u, req) ==
  /\ req \in Reqs /\ req.Path # Root
  /\ \/ /\ req.Request = "create" /\ req.Version = 1
        /\ req.Path \notin DOMAIN u /\ Dir(req.Path) \in DOMAIN u
        /\ req.Ephemeral # None => SessionPath(req.Ephemeral) \in DOMAIN u
        /\ \E r \in w.Requests : Makes(r, req.Path) /\ r.Ephemeral = req.Ephemeral
     \/ /\ req.Request = "setdata" /\ req.Ephemeral = None
        /\ req.Path \in DOMAIN u /\ ~Needed(w, req.Path)
        /\ u[req.Path].Ephemeral = None /\ req.Version = u[req.Path].Version + 1
     \/ /\ req.Request = "delete"
        /\ req.Path \in DOMAIN u /\ ~Needed(w, req.Path)

-----------------------------------------------------------------------------
(* Paths *)

\* What the first names of a path are.
LEMMA PartProperties ==
  ASSUME NEW S, NEW p \in Seq(S), NEW k \in 0..Len(p)
  PROVE  /\ Part(p, k) \in Seq(S) /\ Len(Part(p, k)) = k
         /\ \A i \in 1..k : Part(p, k)[i] = p[i]
<1>1. Len(p) \in Nat /\ k \in Int /\ 1 \in Int
  BY LenProperties
<1>2. \A i \in 1..k : p[i] \in S
  BY <1>1, ElementOfSeq
<1>3. /\ SubSeq(p, 1, k) \in Seq(S)
      /\ Len(SubSeq(p, 1, k)) = IF 1 <= k THEN k - 1 + 1 ELSE 0
      /\ \A i \in 1..(k - 1 + 1) : SubSeq(p, 1, k)[i] = p[1 + i - 1]
  BY <1>1, <1>2, SubSeqProperties
<1>4. /\ Part(p, k) \in Seq(S)
      /\ Len(Part(p, k)) = IF 1 <= k THEN k - 1 + 1 ELSE 0
      /\ \A i \in 1..(k - 1 + 1) : Part(p, k)[i] = p[1 + i - 1]
  BY <1>3, Zenon DEF Part
<1>5. Len(Part(p, k)) = k
  BY <1>1, <1>4
<1>6. ASSUME NEW i \in 1..k PROVE Part(p, k)[i] = p[i]
  <2>1. i \in 1..(k - 1 + 1) /\ 1 + i - 1 = i
    BY <1>1
  <2> QED
    BY <1>4, <2>1
<1> QED
  BY <1>4, <1>5, <1>6

\* A path below the root is its directory and its base.
LEMMA PathFacts ==
  ASSUME NEW p \in Paths, p # Root
  PROVE  /\ Len(p) \in Nat /\ Len(p) >= 1
         /\ Dir(p) \in Paths /\ Base(p) \in Names
         /\ Dir(p) = Part(p, Len(p) - 1) /\ Base(p) = p[Len(p)]
         /\ Len(Dir(p)) = Len(p) - 1
         /\ \A n \in 1..(Len(p) - 1) : Dir(p)[n] = p[n]
<1>1. Len(p) \in Nat /\ Len(p) >= 1 /\ p \in Seq(Names)
  BY EmptySeq, LenProperties DEF Root, Paths
<1>2. Dir(p) = Part(p, Len(p) - 1) /\ Base(p) = p[Len(p)]
  BY Zenon DEF Dir, Base, Front, Last, Part
<1>3. Len(p) - 1 \in 0..Len(p) /\ Len(p) \in 1..Len(p)
  BY <1>1
<1>4. /\ Part(p, Len(p) - 1) \in Seq(Names) /\ Len(Part(p, Len(p) - 1)) = Len(p) - 1
      /\ \A n \in 1..(Len(p) - 1) : Part(p, Len(p) - 1)[n] = p[n]
  BY <1>1, <1>3, PartProperties
<1>5. Base(p) \in Names
  BY <1>1, <1>2, <1>3, ElementOfSeq
<1> QED
  BY <1>1, <1>2, <1>4, <1>5 DEF Paths

\* Paths in the same directory with the same base are the same.
LEMMA PathEqual ==
  ASSUME NEW p \in Paths, p # Root, NEW q \in Paths, q # Root,
         Dir(p) = Dir(q), Base(p) = Base(q)
  PROVE  p = q
<1>1. /\ Len(p) \in Nat /\ Len(p) >= 1 /\ Len(Dir(p)) = Len(p) - 1 /\ Base(p) = p[Len(p)]
      /\ \A n \in 1..(Len(p) - 1) : Dir(p)[n] = p[n]
  BY PathFacts
<1>2. /\ Len(q) \in Nat /\ Len(q) >= 1 /\ Len(Dir(q)) = Len(q) - 1 /\ Base(q) = q[Len(q)]
      /\ \A n \in 1..(Len(q) - 1) : Dir(q)[n] = q[n]
  BY PathFacts
<1>3. Len(p) = Len(q)
  BY <1>1, <1>2
<1>4. ASSUME NEW i \in 1..Len(p) PROVE p[i] = q[i]
  <2>1. CASE i = Len(p)
    BY <1>1, <1>2, <1>3, <2>1
  <2>2. CASE i \in 1..(Len(p) - 1)
    BY <1>1, <1>2, <1>3, <2>2
  <2> QED
    BY <1>1, <2>1, <2>2
<1> QED
  BY <1>3, <1>4, SeqEqual DEF Paths

\* A directory and a name make a path.
LEMMA ChildFacts ==
  ASSUME NEW d \in Paths, NEW c \in Names
  PROVE  /\ Append(d, c) \in Paths /\ Append(d, c) # Root
         /\ Dir(Append(d, c)) = d /\ Base(Append(d, c)) = c
<1> DEFINE p == Append(d, c)
<1>1. d \in Seq(Names)
  BY DEF Paths
<1>2. /\ p \in Seq(Names) /\ Len(p) = Len(d) + 1 /\ Len(d) \in Nat
      /\ \A i \in 1..Len(d) : p[i] = d[i]
      /\ p[Len(d) + 1] = c
  BY <1>1, AppendFacts
<1> HIDE DEF p
<1>3. p \in Paths /\ p # Root
  <2>1. Len(<< >>) = 0
    OBVIOUS
  <2> QED
    BY <1>2, <2>1 DEF Root, Paths
<1>4. /\ Dir(p) \in Seq(Names) /\ Len(Dir(p)) = Len(p) - 1 /\ Base(p) = p[Len(p)]
      /\ \A n \in 1..(Len(p) - 1) : Dir(p)[n] = p[n]
  BY <1>3, PathFacts DEF Paths
<1>5. Base(p) = c
  BY <1>2, <1>4
<1>6. Len(Dir(p)) = Len(d) /\ \A i \in 1..Len(Dir(p)) : Dir(p)[i] = d[i]
  BY <1>2, <1>4
<1>7. Dir(p) = d
  BY <1>1, <1>4, <1>6, SeqEqual
<1> QED
  BY <1>3, <1>5, <1>7 DEF p

\* A prefix, name by name.
LEMMA PrefixMeans ==
  ASSUME NEW q \in Paths, NEW p \in Paths
  PROVE  IsPrefix(q, p) <=> Len(q) <= Len(p) /\ \A i \in 1..Len(q) : q[i] = p[i]
<1>1. p \in Seq(Names) /\ q \in Seq(Names) /\ Len(p) \in Nat /\ Len(q) \in Nat
  BY LenProperties DEF Paths
<1>2. IsPrefix(q, p) <=> Len(q) <= Len(p) /\ Part(q, Len(q)) = Part(p, Len(q))
  BY Zenon DEF IsPrefix, Part
<1>3. ASSUME Len(q) <= Len(p)
      PROVE  Part(q, Len(q)) = Part(p, Len(q)) <=> \A i \in 1..Len(q) : q[i] = p[i]
  <2>1. Len(q) \in 0..Len(q) /\ Len(q) \in 0..Len(p)
    BY <1>1, <1>3
  <2>2. /\ Part(q, Len(q)) \in Seq(Names) /\ Len(Part(q, Len(q))) = Len(q)
        /\ \A i \in 1..Len(q) : Part(q, Len(q))[i] = q[i]
    BY <1>1, <2>1, PartProperties
  <2>3. /\ Part(p, Len(q)) \in Seq(Names) /\ Len(Part(p, Len(q))) = Len(q)
        /\ \A i \in 1..Len(q) : Part(p, Len(q))[i] = p[i]
    BY <1>1, <2>1, PartProperties
  <2>4. ASSUME \A i \in 1..Len(q) : q[i] = p[i] PROVE Part(q, Len(q)) = Part(p, Len(q))
    BY <2>2, <2>3, <2>4, SeqEqual
  <2>5. ASSUME Part(q, Len(q)) = Part(p, Len(q)) PROVE \A i \in 1..Len(q) : q[i] = p[i]
    BY <2>2, <2>3, <2>5
  <2> QED
    BY <2>4, <2>5
<1> QED
  BY <1>2, <1>3

\* What is above a path is above its directory.
LEMMA PrefixFacts ==
  ASSUME NEW q \in Paths, NEW p \in Paths, IsPrefix(q, p), q # p
  PROVE  p # Root /\ IsPrefix(q, Dir(p)) /\ Len(q) < Len(p)
<1>1. p \in Seq(Names) /\ q \in Seq(Names) /\ Len(p) \in Nat /\ Len(q) \in Nat
  BY LenProperties DEF Paths
<1>2. Len(q) <= Len(p) /\ \A i \in 1..Len(q) : q[i] = p[i]
  BY PrefixMeans
<1>3. Len(q) # Len(p)
  BY <1>1, <1>2, SeqEqual
<1>4. p # Root
  <2>1. Len(<< >>) = 0
    OBVIOUS
  <2> QED
    BY <1>1, <1>2, <1>3, <2>1 DEF Root
<1>5. Dir(p) \in Paths /\ Len(Dir(p)) = Len(p) - 1 /\ \A n \in 1..(Len(p) - 1) : Dir(p)[n] = p[n]
  BY <1>4, PathFacts
<1>6. Len(q) <= Len(Dir(p)) /\ \A i \in 1..Len(q) : q[i] = Dir(p)[i]
  BY <1>1, <1>2, <1>3, <1>5
<1> QED
  BY <1>1, <1>2, <1>3, <1>4, <1>5, <1>6, PrefixMeans

\* The parts of a path: each is above it, and each is the directory of the next.
LEMMA PartFacts ==
  ASSUME NEW p \in Paths, NEW n \in 1..Len(p)
  PROVE  /\ Part(p, n - 1) \in Paths /\ IsPrefix(Part(p, n - 1), p) /\ Part(p, n - 1) # p
         /\ Part(p, n) \in Paths /\ Part(p, n) # Root /\ IsPrefix(Part(p, n), p)
         /\ Dir(Part(p, n)) = Part(p, n - 1) /\ Base(Part(p, n)) = p[n]
         /\ Len(Part(p, n - 1)) = n - 1
<1>1. p \in Seq(Names) /\ Len(p) \in Nat /\ n \in 0..Len(p) /\ n - 1 \in 0..Len(p) /\ n \in Nat
  BY LenProperties DEF Paths
<1> DEFINE a == Part(p, n - 1)
           b == Part(p, n)
<1>2. a \in Paths /\ Len(a) = n - 1 /\ \A i \in 1..(n - 1) : a[i] = p[i]
  BY <1>1, PartProperties DEF Paths
<1>3. b \in Paths /\ Len(b) = n /\ \A i \in 1..n : b[i] = p[i]
  BY <1>1, PartProperties DEF Paths
<1> HIDE DEF a, b
<1>4. IsPrefix(a, p) /\ a # p
  BY <1>1, <1>2, PrefixMeans
<1>5. IsPrefix(b, p)
  BY <1>1, <1>3, PrefixMeans
<1>6. b # Root
  <2>1. Len(<< >>) = 0
    OBVIOUS
  <2> QED
    BY <1>3, <2>1 DEF Root
<1>7. /\ Dir(b) \in Paths /\ Len(Dir(b)) = n - 1 /\ Base(b) = b[n]
      /\ \A i \in 1..(n - 1) : Dir(b)[i] = b[i]
  BY <1>3, <1>6, PathFacts
<1>8. Dir(b) = a
  <2>1. \A i \in 1..Len(a) : Dir(b)[i] = a[i]
    BY <1>1, <1>2, <1>3, <1>7
  <2> QED
    BY <1>2, <1>7, <2>1, SeqEqual DEF Paths
<1>9. Base(b) = p[n]
  BY <1>1, <1>3, <1>7
<1> QED
  BY <1>2, <1>3, <1>4, <1>5, <1>6, <1>8, <1>9 DEF a, b

\* The parts of a directory are those of the path, and it is the last of them.
LEMMA DirParts ==
  ASSUME NEW p \in Paths, p # Root, NEW n \in 1..Len(p)
  PROVE  IF n = Len(p) THEN Part(p, n - 1) = Dir(p) /\ p[n] = Base(p)
         ELSE n \in 1..Len(Dir(p)) /\ Part(p, n - 1) = Part(Dir(p), n - 1) /\ p[n] = Dir(p)[n]
<1>1. /\ Len(p) \in Nat /\ Dir(p) \in Paths /\ Dir(p) = Part(p, Len(p) - 1)
      /\ Base(p) = p[Len(p)] /\ Len(Dir(p)) = Len(p) - 1
      /\ \A i \in 1..(Len(p) - 1) : Dir(p)[i] = p[i]
  BY PathFacts
<1>2. CASE n = Len(p)
  BY <1>1, <1>2
<1>3. ASSUME n # Len(p)
      PROVE  /\ n \in 1..Len(Dir(p)) /\ Part(p, n - 1) = Part(Dir(p), n - 1)
             /\ p[n] = Dir(p)[n]
  <2>1. n \in 1..(Len(p) - 1) /\ n - 1 \in 0..Len(p) /\ n - 1 \in 0..Len(Dir(p))
    BY <1>1, <1>3
  <2>2. p \in Seq(Names) /\ Dir(p) \in Seq(Names)
    BY <1>1 DEF Paths
  <2>3. /\ Part(p, n - 1) \in Seq(Names) /\ Len(Part(p, n - 1)) = n - 1
        /\ \A i \in 1..(n - 1) : Part(p, n - 1)[i] = p[i]
    BY <2>1, <2>2, PartProperties
  <2>4. /\ Part(Dir(p), n - 1) \in Seq(Names) /\ Len(Part(Dir(p), n - 1)) = n - 1
        /\ \A i \in 1..(n - 1) : Part(Dir(p), n - 1)[i] = Dir(p)[i]
    BY <2>1, <2>2, PartProperties
  <2>5. \A i \in 1..Len(Part(p, n - 1)) : Part(p, n - 1)[i] = Part(Dir(p), n - 1)[i]
    BY SMTT(60), <1>1, <2>1, <2>3, <2>4
  <2>6. Part(p, n - 1) = Part(Dir(p), n - 1)
    BY <2>3, <2>4, <2>5, SeqEqual
  <2> QED
    BY <1>1, <2>1, <2>6
<1> QED
  BY <1>2, <1>3

\* The znodes of the start have paths of one name at most.
LEMMA InitialFacts ==
  /\ Initial \subseteq Paths
  /\ \A p \in Initial : Len(p) <= 1
  /\ Root \in Paths /\ sessionDir \in Paths /\ sessionDir # Root /\ Len(Root) = 0
  /\ Len(sessionDir) = 1
<1>1. Root \in Paths /\ Len(Root) = 0
  BY DEF Root, Paths
<1>2. <<"sessionDir", 0>> \in Names
  <2>1. \A e \in Strings : <<e, 0>> \in Names
    BY DEF Names
  <2>2. "sessionDir" \in Strings
    BY DEF Strings
  <2> QED
    BY <2>1, <2>2, Zenon
<1>3. sessionDir \in Paths /\ Len(sessionDir) = 1
  BY <1>2 DEF sessionDir, Paths
<1>4. Topics \subseteq Paths /\ \A p \in Topics : Len(p) = 1
  BY WorkloadsAssumption
<1>5. sessionDir # Root
  BY <1>1, <1>3
<1>6. Initial \subseteq Paths
  BY <1>1, <1>3, <1>4 DEF Initial
<1>7. \A p \in Initial : Len(p) <= 1
  BY <1>1, <1>3, <1>4 DEF Initial
<1> QED
  BY <1>1, <1>3, <1>5, <1>6, <1>7

\* A session's znode is below sessionDir.
LEMMA SessionFacts ==
  ASSUME NEW e \in Strings
  PROVE  SessionPath(e) \in Paths /\ SessionPath(e) # Root /\ Dir(SessionPath(e)) = sessionDir
<1>1. <<e, 0>> \in Names
  BY DEF Names
<1> QED
  BY <1>1, InitialFacts, ChildFacts DEF SessionPath

\* What a create leads to: its path, what is above it, what that needs.
LEMMA MakesFacts ==
  ASSUME NEW w \in Workloads, LeavesOnly(w), NEW r \in w.Requests,
         NEW p \in Paths, Makes(r, p)
  PROVE  /\ r \in Reqs /\ p # Root /\ Dir(p) = Dir(r.Path)
         /\ \A q : IsPrefix(q, Dir(p)) => Needed(w, q)
         /\ r.Ephemeral # None => Needed(w, SessionPath(r.Ephemeral))
<1>1. r \in Reqs /\ r.Path # Root
  BY WorkloadsAssumption DEF LeavesOnly
<1>2. p # Root /\ Dir(p) = Dir(r.Path) /\ r.Request = "create"
  BY <1>1 DEF Makes
<1> QED
  BY <1>1, <1>2 DEF Needs, Needed

\* What is above a znode is the root or is needed.
LEMMA Above ==
  ASSUME NEW w \in Workloads, LeavesOnly(w), NEW p \in Paths,
         p \in Initial \/ \E r \in w.Requests : Makes(r, p),
         NEW q \in Paths, IsPrefix(q, p), q # p
  PROVE  q = Root \/ Needed(w, q)
<1>1. IsPrefix(q, Dir(p)) /\ Len(q) < Len(p)
  BY PrefixFacts
<1>2. CASE p \in Initial
  <2>1. Len(q) < 1 /\ Len(q) \in Nat /\ q \in Seq(Names)
    BY <1>1, <1>2, InitialFacts, LenProperties DEF Paths
  <2> QED
    BY <2>1, EmptySeq DEF Root
<1>3. CASE \E r \in w.Requests : Makes(r, p)
  BY <1>1, <1>3, MakesFacts
<1> QED
  BY <1>2, <1>3

-----------------------------------------------------------------------------
(* The operations on trees *)

Owns(e, q) == e # None /\ q = SessionPath(e)

\* The list of q's children, the znodes it owns and its version, with the new
\* znode p, whose session is e.
withChild(u, q, p)    == IF q = Dir(p) THEN Append(u[q].Children, Base(p)) ELSE u[q].Children
withOwned(u, q, p, e) == IF Owns(e, q) THEN Append(u[q].EphemeralNodes, p)
                         ELSE u[q].EphemeralNodes
newVersion(u, q, e)   == IF Owns(e, q) THEN u[q].Version + 1 ELSE u[q].Version

\* The tree u with the new znode p.
Grown(u, p, data, e) ==
  [q \in DOMAIN u \cup {p} |->
     IF q = p THEN ZNode(data, 1, e, << >>)
     ELSE [Data |-> u[q].Data,
           Version |-> newVersion(u, q, e),
           Ephemeral |-> u[q].Ephemeral,
           Children |-> withChild(u, q, p),
           EphemeralNodes |-> withOwned(u, q, p, e)]]

\* The check and the write change a znode's record in different orders, and make
\* the same of it.
LEMMA CheckGrows ==
  ASSUME NEW u, Typed(u), NEW p \in Paths, p \notin DOMAIN u, Dir(p) \in DOMAIN u,
         NEW data, NEW e, e # None => SessionPath(e) \in DOMAIN u
  PROVE  addChild(Put(IF e = None THEN u ELSE addEphemeral(u, SessionPath(e), p), p,
                      ZNode(data, 1, e, << >>)), p)
         = Grown(u, p, data, e)
<1> DEFINE s == SessionPath(e)
           a == IF e = None THEN u ELSE addEphemeral(u, s, p)
           b == Put(a, p, ZNode(data, 1, e, << >>))
           c == addChild(b, p)
           g == Grown(u, p, data, e)
<1>1. \A q \in DOMAIN u : u[q] \in Nodes
  BY SMTT(60) DEF Typed
<1>2. /\ DOMAIN a = DOMAIN u
      /\ \A q \in DOMAIN u :
           a[q] = IF Owns(e, q)
                  THEN [u[q] EXCEPT !.EphemeralNodes = Append(@, p), !.Version = @ + 1]
                  ELSE u[q]
  <2>1. CASE e = None
    BY <2>1 DEF Owns
  <2>2. CASE e # None
    BY <1>1, <2>2 DEF Owns, addEphemeral, Nodes
  <2> QED
    BY <2>1, <2>2
<1> HIDE DEF a
<1>3. /\ b = [q \in DOMAIN u \cup {p} |-> IF q = p THEN ZNode(data, 1, e, << >>) ELSE a[q]]
  BY <1>2 DEF Put
<1> HIDE DEF b
<1>4. /\ c = [q \in DOMAIN u \cup {p} |->
               IF q = Dir(p) THEN [b[q] EXCEPT !.Children = Append(@, Base(p))] ELSE b[q]]
  BY <1>3 DEF addChild
<1>5. ASSUME NEW q \in DOMAIN u \cup {p} PROVE c[q] = g[q]
  <2>1. CASE q = p
    BY <1>3, <1>4, <2>1 DEF Grown
  <2>2. ASSUME q # p PROVE c[q] = g[q]
    <3>1. q \in DOMAIN u /\ u[q] \in Nodes /\ b[q] = a[q]
      BY <1>1, <1>3, <2>2
    <3>2. g[q] = [Data |-> u[q].Data,
           Version |-> newVersion(u, q, e),
           Ephemeral |-> u[q].Ephemeral,
           Children |-> withChild(u, q, p),
           EphemeralNodes |-> withOwned(u, q, p, e)]
      BY <2>2, <3>1 DEF Grown
    <3>3. c[q] = IF q = Dir(p) THEN [a[q] EXCEPT !.Children = Append(a[q].Children, Base(p))]
                 ELSE a[q]
      BY <1>4, <3>1
    <3> HIDE DEF c, g
    <3>4. a[q] = [Data |-> u[q].Data,
           Version |-> newVersion(u, q, e),
           Ephemeral |-> u[q].Ephemeral,
           Children |-> u[q].Children,
           EphemeralNodes |-> withOwned(u, q, p, e)]
      BY <1>2, <3>1 DEF Nodes, withOwned, newVersion
    <3>5. ASSUME q = Dir(p) PROVE c[q] = g[q]
      <4> DEFINE r == a[q]
      <4>1. c[q] = [r EXCEPT !.Children = Append(u[q].Children, Base(p))]
        BY <3>3, <3>4, <3>5
      <4> HIDE DEF r
      <4>2. g[q] = [Data |-> r.Data, Version |-> r.Version, Ephemeral |-> r.Ephemeral,
                    Children |-> Append(u[q].Children, Base(p)),
                    EphemeralNodes |-> r.EphemeralNodes]
        BY <3>2, <3>4, <3>5 DEF r, withChild
      <4>3. DOMAIN r = {"Data", "Version", "Ephemeral", "Children", "EphemeralNodes"}
        BY <3>4 DEF r
      <4> QED
        BY <4>1, <4>2, <4>3
    <3>6. ASSUME q # Dir(p) PROVE c[q] = g[q]
      BY <3>2, <3>3, <3>4, <3>6 DEF withChild
    <3> QED
      BY <3>5, <3>6
  <2> QED
    BY <2>1, <2>2
<1>6. g = [q \in DOMAIN u \cup {p} |-> g[q]] /\ c = [q \in DOMAIN u \cup {p} |-> c[q]]
  BY <1>4 DEF Grown
<1>7. c = g
  BY <1>5, <1>6
<1> QED
  BY <1>7 DEF a, b

\* So does the write, which changes the parent and the session first.
LEMMA WriteGrows ==
  ASSUME NEW u, Typed(u), NEW p \in Paths, p \notin DOMAIN u, Dir(p) \in DOMAIN u,
         NEW data, NEW e, e # None => SessionPath(e) \in DOMAIN u
  PROVE  /\ Put(IF e = None THEN addChild(u, p)
                ELSE addEphemeral(addChild(u, p), SessionPath(e), p), p,
                ZNode(data, 1, e, << >>))
            = Grown(u, p, data, e)
         /\ DOMAIN addChild(u, p) = DOMAIN u
<1> DEFINE s == SessionPath(e)
           a == addChild(u, p)
           b == IF e = None THEN a ELSE addEphemeral(a, s, p)
           c == Put(b, p, ZNode(data, 1, e, << >>))
           g == Grown(u, p, data, e)
<1>1. \A q \in DOMAIN u : u[q] \in Nodes
  BY DEF Typed
<1>2. a = [q \in DOMAIN u |->
             IF q = Dir(p) THEN [u[q] EXCEPT !.Children = Append(@, Base(p))] ELSE u[q]]
  BY SMTT(60) DEF addChild, Typed
<1> HIDE DEF a
<1>3. /\ DOMAIN b = DOMAIN u
      /\ \A q \in DOMAIN u :
           b[q] = IF Owns(e, q)
                  THEN [a[q] EXCEPT !.EphemeralNodes = Append(@, p), !.Version = @ + 1]
                  ELSE a[q]
  <2>1. CASE e = None
    BY <1>2, <2>1 DEF Owns
  <2>2. CASE e # None
    <3>1. \A q \in DOMAIN u : DOMAIN a[q] = DOMAIN u[q]
      BY <1>1, <1>2 DEF Nodes
    <3> QED
      BY ZenonT(60), <1>1, <1>2, <2>2, <3>1 DEF Owns, addEphemeral, Nodes
  <2> QED
    BY <2>1, <2>2
<1> HIDE DEF b
<1>4. c = [q \in DOMAIN u \cup {p} |-> IF q = p THEN ZNode(data, 1, e, << >>) ELSE b[q]]
  BY <1>3 DEF Put
<1>5. ASSUME NEW q \in DOMAIN u \cup {p} PROVE c[q] = g[q]
  <2>1. CASE q = p
    BY <1>4, <2>1 DEF Grown
  <2>2. ASSUME q # p PROVE c[q] = g[q]
    <3>1. q \in DOMAIN u /\ u[q] \in Nodes /\ c[q] = b[q]
      BY <1>1, <1>4, <2>2
    <3>2. g[q] = [Data |-> u[q].Data,
           Version |-> newVersion(u, q, e),
           Ephemeral |-> u[q].Ephemeral,
           Children |-> withChild(u, q, p),
           EphemeralNodes |-> withOwned(u, q, p, e)]
      BY <2>2, <3>1 DEF Grown
    <3> QED
      BY ZenonT(60), <1>2, <1>3, <3>1, <3>2 DEF Nodes, withChild, withOwned, newVersion
  <2> QED
    BY <2>1, <2>2
<1>6. g = [q \in DOMAIN u \cup {p} |-> g[q]] /\ c = [q \in DOMAIN u \cup {p} |-> c[q]]
  BY <1>4 DEF Grown
<1>7. c = g
  BY <1>5, <1>6
<1> QED
  BY <1>2, <1>7 DEF a, b

-----------------------------------------------------------------------------
(* A create keeps a tree a tree *)

\* A list of children with one more.
LEMMA RangeAppend ==
  ASSUME NEW S, NEW s \in Seq(S), NEW x \in S
  PROVE  Range(s) \subseteq Range(Append(s, x)) /\ x \in Range(Append(s, x))
<1>1. /\ Append(s, x) \in Seq(S) /\ Len(s) \in Nat /\ Len(Append(s, x)) = Len(s) + 1
      /\ \A i \in 1..Len(s) : Append(s, x)[i] = s[i]
      /\ Append(s, x)[Len(s) + 1] = x
  BY AppendFacts
<1> DEFINE a == Append(s, x)
<1> HIDE DEF a
<1>2. DOMAIN s = 1..Len(s) /\ DOMAIN a = 1..(Len(s) + 1)
  BY <1>1, LenProperties DEF a
<1>3. \A i \in DOMAIN s : i \in DOMAIN a /\ a[i] = s[i]
  BY <1>1, <1>2 DEF a
<1>4. Len(s) + 1 \in DOMAIN a /\ a[Len(s) + 1] = x
  BY <1>1, <1>2 DEF a
<1>5. Range(s) \subseteq Range(a) /\ x \in Range(a)
  BY <1>3, <1>4 DEF Range
<1> QED
  BY <1>5 DEF a

\* g is u with p, in the parts that the tree depends on.
Grew(u, p, data, e, g) ==
  /\ Typed(g)
  /\ DOMAIN g = DOMAIN u \cup {p}
  /\ g[p] = ZNode(data, 1, e, << >>)
  /\ \A q \in DOMAIN u :
       /\ g[q].Data = u[q].Data /\ g[q].Ephemeral = u[q].Ephemeral
       /\ g[q].Children = withChild(u, q, p)
       /\ Range(u[q].Children) \subseteq Range(g[q].Children)
       /\ q = Dir(p) => Base(p) \in Range(g[q].Children)
       /\ ~Owns(e, q) => g[q].EphemeralNodes = u[q].EphemeralNodes

\* A create does that.
LEMMA GrownFacts ==
  ASSUME NEW u, Typed(u), NEW p \in Paths, p # Root, p \notin DOMAIN u,
         NEW data \in Strings, NEW e \in Strings, NEW g, g = Grown(u, p, data, e)
  PROVE  Grew(u, p, data, e, g)
<1>1. DOMAIN g = DOMAIN u \cup {p} /\ g[p] = ZNode(data, 1, e, << >>)
      /\ g = [q \in DOMAIN u \cup {p} |-> g[q]]
  BY DEF Grown
<1>2. ASSUME NEW q \in DOMAIN u
      PROVE  g[q] = [Data |-> u[q].Data,
           Version |-> newVersion(u, q, e),
           Ephemeral |-> u[q].Ephemeral,
           Children |-> withChild(u, q, p),
           EphemeralNodes |-> withOwned(u, q, p, e)]
  BY DEF Grown
<1>3. Base(p) \in Names
  BY PathFacts
<1>4. ASSUME NEW q \in DOMAIN u
      PROVE  /\ g[q] \in Nodes
             /\ Range(u[q].Children) \subseteq Range(g[q].Children)
             /\ q = Dir(p) => Base(p) \in Range(g[q].Children)
  <2>1. u[q] \in Nodes
    BY DEF Typed
  <2>2. /\ u[q].Children \in Seq(Names) /\ u[q].EphemeralNodes \in Seq(Paths)
        /\ u[q].Data \in Strings /\ u[q].Version \in Int /\ u[q].Ephemeral \in Strings
    BY <2>1 DEF Nodes
  <2>3. /\ Append(u[q].Children, Base(p)) \in Seq(Names)
        /\ Append(u[q].EphemeralNodes, p) \in Seq(Paths)
    BY <1>3, <2>2, AppendFacts
  <2>4. /\ Range(u[q].Children) \subseteq Range(Append(u[q].Children, Base(p)))
        /\ Base(p) \in Range(Append(u[q].Children, Base(p)))
    BY <1>3, <2>2, RangeAppend
  <2>5. /\ withChild(u, q, p) \in Seq(Names) /\ withOwned(u, q, p, e) \in Seq(Paths)
        /\ newVersion(u, q, e) \in Int
    BY <2>2, <2>3 DEF withChild, withOwned, newVersion
  <2>6. /\ Range(u[q].Children) \subseteq Range(withChild(u, q, p))
        /\ q = Dir(p) => Base(p) \in Range(withChild(u, q, p))
    BY <2>4 DEF withChild
  <2>7. g[q] = [Data |-> u[q].Data,
           Version |-> newVersion(u, q, e),
           Ephemeral |-> u[q].Ephemeral,
           Children |-> withChild(u, q, p),
           EphemeralNodes |-> withOwned(u, q, p, e)]
    BY <1>2
  <2>8. g[q] \in Nodes
    BY ONLY <2>2, <2>5, <2>7 DEF Nodes
  <2>9. g[q].Children = withChild(u, q, p)
    BY ONLY <2>7
  <2> QED
    BY <2>6, <2>8, <2>9
<1>5. ZNode(data, 1, e, << >>) \in Nodes
  BY DEF ZNode, Nodes
<1>6. Typed(g)
  <2>1. DOMAIN g \subseteq Paths
    BY <1>1 DEF Typed
  <2>2. \A q \in DOMAIN g : g[q] \in Nodes
    BY <1>1, <1>4, <1>5
  <2> QED
    BY <1>1, <2>1, <2>2 DEF Typed
<1>7. ASSUME NEW q \in DOMAIN u
      PROVE  /\ g[q].Data = u[q].Data /\ g[q].Ephemeral = u[q].Ephemeral
             /\ g[q].Children = withChild(u, q, p)
             /\ ~Owns(e, q) => g[q].EphemeralNodes = u[q].EphemeralNodes
  <2>1. g[q] = [Data |-> u[q].Data,
           Version |-> newVersion(u, q, e),
           Ephemeral |-> u[q].Ephemeral,
           Children |-> withChild(u, q, p),
           EphemeralNodes |-> withOwned(u, q, p, e)]
    BY <1>2
  <2>2. ~Owns(e, q) => withOwned(u, q, p, e) = u[q].EphemeralNodes
    BY DEF withOwned
  <2> QED
    BY ONLY <2>1, <2>2
<1> QED
  BY <1>1, <1>4, <1>6, <1>7 DEF Grew

\* What a create that is needed makes of a tree is a tree.
LEMMA GrownTree ==
  ASSUME NEW w \in Workloads, LeavesOnly(w), NEW u, Tree(w, u),
         NEW p \in Paths, p # Root, p \notin DOMAIN u, Dir(p) \in DOMAIN u,
         NEW data \in Strings, NEW e \in Strings, e # None => SessionPath(e) \in DOMAIN u,
         NEW r \in w.Requests, Makes(r, p), r.Ephemeral = e,
         NEW g, g = Grown(u, p, data, e)
  PROVE  Tree(w, g)
<1>0. Typed(u)
  BY DEF Tree
<1>9. Grew(u, p, data, e, g)
  BY <1>0, GrownFacts
<1>1. /\ Typed(u) /\ Typed(g)
      /\ DOMAIN g = DOMAIN u \cup {p}
      /\ g[p] = ZNode(data, 1, e, << >>)
      /\ \A q \in DOMAIN u :
              /\ g[q].Data = u[q].Data /\ g[q].Ephemeral = u[q].Ephemeral
              /\ g[q].Children = withChild(u, q, p)
              /\ Range(u[q].Children) \subseteq Range(g[q].Children)
              /\ q = Dir(p) => Base(p) \in Range(g[q].Children)
              /\ ~Owns(e, q) => g[q].EphemeralNodes = u[q].EphemeralNodes
  BY <1>0, <1>9 DEF Grew
<1>2. g[p].Ephemeral = e /\ g[p].Children = << >> /\ g[p].EphemeralNodes = << >>
  BY <1>1 DEF ZNode
<1>3. \A q \in Initial : q = Root \/ Needed(w, q) => q \in DOMAIN g
  BY <1>1 DEF Tree
<1>4. ASSUME NEW q \in DOMAIN g, NEW n \in 1..Len(q) PROVE LedTo(g, q, n)
  <2>1. ASSUME NEW x \in DOMAIN u, NEW k \in 1..Len(x), LedTo(u, x, k) PROVE LedTo(g, x, k)
    BY <1>1, <2>1 DEF LedTo
  <2>2. CASE q \in DOMAIN u
    BY <2>1, <2>2 DEF Tree
  <2>3. ASSUME q = p, n # Len(p) PROVE LedTo(g, q, n)
    <3>1. /\ n \in 1..Len(Dir(p)) /\ Part(p, n - 1) = Part(Dir(p), n - 1)
          /\ p[n] = Dir(p)[n]
      BY <2>3, DirParts
    <3>2. LedTo(g, Dir(p), n)
      BY <2>1, <3>1 DEF Tree
    <3> QED
      BY <2>3, <3>1, <3>2 DEF LedTo
  <2>4. ASSUME q = p, n = Len(p) PROVE LedTo(g, q, n)
    <3>1. Part(p, n - 1) = Dir(p) /\ p[n] = Base(p)
      BY <2>4, DirParts
    <3> QED
      BY <1>1, <2>4, <3>1 DEF LedTo
  <2> QED
    BY <1>1, <2>2, <2>3, <2>4
<1>5. \A q \in DOMAIN g : q \in Initial \/ \E c \in w.Requests : Makes(c, q)
  BY <1>1 DEF Tree
<1>6. \A q \in DOMAIN g : g[q].Ephemeral # None =>
        /\ SessionPath(g[q].Ephemeral) \in DOMAIN g
        /\ \E c \in w.Requests : Makes(c, q) /\ c.Ephemeral = g[q].Ephemeral
  BY <1>1, <1>2 DEF Tree
<1>7. ASSUME NEW q \in DOMAIN g
      PROVE  q = Root \/ Needed(w, q) \/ (g[q].Children = << >> /\ g[q].EphemeralNodes = << >>)
  <2>1. /\ \A x : IsPrefix(x, Dir(p)) => Needed(w, x)
        /\ e # None => Needed(w, SessionPath(e))
    BY MakesFacts
  <2>2. Dir(p) \in Paths /\ IsPrefix(Dir(p), Dir(p))
    <3>1. Dir(p) \in Paths
      BY PathFacts
    <3>2. Len(Dir(p)) <= Len(Dir(p))
      BY <3>1, LenProperties DEF Paths
    <3> QED
      BY <3>1, <3>2, PrefixMeans
  <2>3. Needed(w, Dir(p)) /\ (Owns(e, q) => Needed(w, q))
    BY <2>1, <2>2 DEF Owns
  <2> QED
    BY <1>1, <1>2, <2>3 DEF Tree, withChild
<1> QED
  BY <1>1, <1>3, <1>4, <1>5, <1>6, <1>7 DEF Tree

-----------------------------------------------------------------------------
(* A change of a leaf keeps a tree a tree *)

\* The record of a leaf that the check changes and the one that the write puts
\* in its place.
LEMMA CheckChanges ==
  ASSUME NEW w \in Workloads, NEW u, Tree(w, u), NEW q \in DOMAIN u, q # Root,
         ~Needed(w, q), u[q].Ephemeral = None, NEW data, NEW v, v = u[q].Version + 1
  PROVE  [u EXCEPT ![q].Data = data, ![q].Version = @ + 1]
         = Put(u, q, ZNode(data, v, None, << >>))
<1> DEFINE c == [u EXCEPT ![q].Data = data, ![q].Version = @ + 1]
           g == Put(u, q, ZNode(data, v, None, << >>))
           n == u[q]
<1>1. /\ n.Children = << >> /\ n.EphemeralNodes = << >> /\ n \in Nodes
      /\ n.Ephemeral = None /\ v = n.Version + 1
  BY DEF Tree, Typed
<1> HIDE DEF n
<1>2. /\ DOMAIN n = {"Data", "Version", "Ephemeral", "Children", "EphemeralNodes"}
      /\ n.Children = << >> /\ n.EphemeralNodes = << >> /\ n.Ephemeral = None
      /\ v = n.Version + 1
  BY ONLY <1>1 DEF Nodes
<1>3. [[n EXCEPT !.Data = data] EXCEPT !.Version = v] = ZNode(data, v, None, << >>)
  <2>1. n = [Data |-> n.Data, Version |-> n.Version, Ephemeral |-> None, Children |-> << >>,
             EphemeralNodes |-> << >>]
    BY ONLY <1>1 DEF Nodes
  <2> DEFINE m == [n EXCEPT !.Data = data]
  <2>2. m = [Data |-> data, Version |-> n.Version, Ephemeral |-> None, Children |-> << >>,
             EphemeralNodes |-> << >>]
    BY ONLY <2>1
  <2> HIDE DEF m
  <2>3. [m EXCEPT !.Version = v] = ZNode(data, v, None, << >>)
    BY ONLY <2>2 DEF ZNode
  <2> QED
    BY <2>3 DEF m
<1>6. c = [x \in DOMAIN u |-> IF x = q THEN [[n EXCEPT !.Data = data] EXCEPT !.Version = v]
                              ELSE u[x]]
  <2>1. u = [x \in DOMAIN u |-> u[x]] /\ [n EXCEPT !.Data = data].Version + 1 = v
    BY <1>2 DEF Tree, Typed
  <2> QED
    BY ONLY ZenonT(60), <2>1, q \in DOMAIN u DEF n
<1>4. DOMAIN u \cup {q} = DOMAIN u
  OBVIOUS
<1>5. g = [x \in DOMAIN u |-> IF x = q THEN ZNode(data, v, None, << >>) ELSE u[x]]
  BY <1>4 DEF Put
<1> QED
  BY <1>3, <1>5, <1>6

\* What a change of a leaf makes of a tree is a tree.
LEMMA ChangedTree ==
  ASSUME NEW w \in Workloads, NEW u, Tree(w, u), NEW q \in DOMAIN u, q # Root,
         ~Needed(w, q), NEW data \in Strings, NEW v \in Int, u[q].Ephemeral = None,
         NEW g, g = Put(u, q, ZNode(data, v, None, << >>))
  PROVE  Tree(w, g)
<1>1. /\ DOMAIN g = DOMAIN u /\ g = [x \in DOMAIN g |-> g[x]]
      /\ g[q] = ZNode(data, v, None, << >>)
      /\ \A x \in DOMAIN u : x # q => g[x] = u[x]
  BY DEF Put
<1>2. /\ g[q] \in Nodes /\ g[q].Children = << >> /\ g[q].Ephemeral = None
      /\ g[q].EphemeralNodes = << >>
  <2>1. None \in Strings
    BY DEF Strings
  <2>2. ZNode(data, v, None, << >>) \in Nodes
    BY <2>1 DEF ZNode, Nodes
  <2>3. /\ g[q].Children = << >> /\ g[q].Ephemeral = None /\ g[q].EphemeralNodes = << >>
    BY <1>1 DEF ZNode
  <2> QED
    BY <1>1, <2>2, <2>3
<1>3. u[q].Children = << >> /\ u[q].EphemeralNodes = << >>
  BY DEF Tree
<1>4. \A x \in DOMAIN u : /\ g[x].Children = u[x].Children
                          /\ g[x].EphemeralNodes = u[x].EphemeralNodes
                          /\ g[x].Ephemeral = u[x].Ephemeral
  BY <1>1, <1>2, <1>3
<1>5. Typed(g)
  BY <1>1, <1>2 DEF Tree, Typed
<1>6. \A p \in DOMAIN g : \A n \in 1..Len(p) : LedTo(g, p, n)
  BY <1>1, <1>4 DEF Tree, LedTo
<1>7. /\ \A p \in Initial : p = Root \/ Needed(w, p) => p \in DOMAIN g
      /\ \A p \in DOMAIN g : p \in Initial \/ \E r \in w.Requests : Makes(r, p)
  BY <1>1 DEF Tree
<1>8. \A p \in DOMAIN g : g[p].Ephemeral # None =>
       /\ SessionPath(g[p].Ephemeral) \in DOMAIN g
       /\ \E r \in w.Requests : Makes(r, p) /\ r.Ephemeral = g[p].Ephemeral
  BY <1>1, <1>4 DEF Tree
<1>9. \A p \in DOMAIN g :
       p = Root \/ Needed(w, p) \/ (g[p].Children = << >> /\ g[p].EphemeralNodes = << >>)
  BY <1>1, <1>4 DEF Tree
<1> QED
  BY <1>5, <1>6, <1>7, <1>8, <1>9 DEF Tree

-----------------------------------------------------------------------------
(* A delete of a leaf keeps a tree a tree *)

\* What is left in a list when an item is removed.
LEMMA RemoveRange ==
  ASSUME NEW S, NEW q \in Seq(S), NEW i \in 1..Len(q)
  PROVE  /\ RemoveAt(q, i) \in Seq(S)
         /\ \A x \in Range(q) : x = q[i] \/ x \in Range(RemoveAt(q, i))
<1> DEFINE a == SubSeq(q, 1, i - 1)
           b == SubSeq(q, i + 1, Len(q))
           c == a \o b
<1>1. Len(q) \in Nat /\ i \in Nat /\ \A j \in 1..Len(q) : q[j] \in S
  BY ElementOfSeq, LenProperties
<1>2. a \in Seq(S) /\ Len(a) = i - 1 /\ \A j \in 1..(i - 1) : a[j] = q[j]
  <2>1. \A j \in 1..(i - 1) : q[j] \in S
    BY <1>1
  <2>2. /\ a \in Seq(S) /\ Len(a) = IF 1 <= i - 1 THEN (i - 1) - 1 + 1 ELSE 0
        /\ \A j \in 1..((i - 1) - 1 + 1) : a[j] = q[1 + j - 1]
    BY <1>1, <2>1, SubSeqProperties
  <2> HIDE DEF a
  <2>3. Len(a) = i - 1
    BY <1>1, <2>2
  <2>4. ASSUME NEW j \in 1..(i - 1) PROVE a[j] = q[j]
    <3>1. j \in 1..((i - 1) - 1 + 1) /\ 1 + j - 1 = j
      BY <1>1
    <3> QED
      BY <2>2, <3>1
  <2> QED
    BY <2>2, <2>3, <2>4
<1>3. b \in Seq(S) /\ Len(b) = Len(q) - i /\ \A j \in 1..(Len(q) - i) : b[j] = q[i + j]
  <2>1. \A j \in (i + 1)..Len(q) : q[j] \in S
    BY <1>1
  <2>2. /\ b \in Seq(S) /\ Len(b) = IF i + 1 <= Len(q) THEN Len(q) - (i + 1) + 1 ELSE 0
        /\ \A j \in 1..(Len(q) - (i + 1) + 1) : b[j] = q[i + 1 + j - 1]
    BY <1>1, <2>1, SubSeqProperties
  <2> HIDE DEF b
  <2>3. Len(b) = Len(q) - i
    BY <1>1, <2>2
  <2>4. ASSUME NEW j \in 1..(Len(q) - i) PROVE b[j] = q[i + j]
    <3>1. j \in 1..(Len(q) - (i + 1) + 1) /\ i + 1 + j - 1 = i + j
      BY <1>1
    <3> QED
      BY <2>2, <3>1
  <2> QED
    BY <2>2, <2>3, <2>4
<1>4. RemoveAt(q, i) = c
  BY DEF RemoveAt
<1> HIDE DEF a, b
<1>5. /\ c \in Seq(S) /\ Len(c) = Len(a) + Len(b)
      /\ \A j \in 1..(Len(a) + Len(b)) : c[j] = IF j <= Len(a) THEN a[j] ELSE b[j - Len(a)]
  BY ZenonT(60), <1>2, <1>3, ConcatProperties
<1> HIDE DEF c
<1>6. ASSUME NEW j \in 1..Len(q), j # i PROVE q[j] \in Range(c)
  <2>1. DOMAIN c = 1..(Len(q) - 1)
    BY <1>1, <1>2, <1>3, <1>5, LenProperties
  <2>2. ASSUME j < i PROVE q[j] \in Range(c)
    <3>1. j \in DOMAIN c /\ j \in 1..(Len(a) + Len(b)) /\ j <= Len(a) /\ j \in 1..(i - 1)
      BY <1>1, <1>2, <1>3, <2>1, <2>2
    <3>2. c[j] = a[j] /\ a[j] = q[j]
      BY <1>2, <1>5, <3>1
    <3> QED
      BY <3>1, <3>2 DEF Range
  <2>3. ASSUME j > i PROVE q[j] \in Range(c)
    <3>1. /\ j - 1 \in DOMAIN c /\ j - 1 \in 1..(Len(a) + Len(b))
          /\ ~(j - 1 <= Len(a)) /\ j - 1 - Len(a) = j - i
      BY <1>1, <1>2, <1>3, <2>1, <2>3
    <3>2. j - i \in 1..(Len(q) - i) /\ i + (j - i) = j
      BY <1>1, <2>3
    <3>3. c[j - 1] = b[j - i] /\ b[j - i] = q[j]
      BY <1>1, <1>2, <1>3, <1>5, <2>1, <3>1, <3>2
    <3> QED
      BY <3>1, <3>3 DEF Range
  <2> QED
    BY <1>1, <1>6, <2>2, <2>3
<1>7. \A x \in Range(q) : \E j \in 1..Len(q) : x = q[j]
  BY LenProperties DEF Range
<1> QED
  BY <1>4, <1>5, <1>6, <1>7

\* The list c without its first b.
Dropped(c, b) == LET at == {i \in DOMAIN c : c[i] = b}
                 IN IF at = {} THEN c ELSE RemoveAt(c, Min(at))

\* Nothing but a b is missing then.
LEMMA DroppedFacts ==
  ASSUME NEW S, NEW c \in Seq(S), NEW b
  PROVE  /\ Dropped(c, b) \in Seq(S)
         /\ \A x \in Range(c) : x = b \/ x \in Range(Dropped(c, b))
         /\ c = << >> => Dropped(c, b) = << >>
<1> DEFINE at == {i \in DOMAIN c : c[i] = b}
           m  == Min(at)
<1>1. DOMAIN c = 1..Len(c) /\ Len(c) \in Nat
  BY LenProperties
<1>2. Dropped(c, b) = IF at = {} THEN c ELSE RemoveAt(c, m)
  BY DEF Dropped
<1>3. ASSUME at # {} PROVE m \in 1..Len(c) /\ c[m] = b
  <2>1. at \in SUBSET Nat /\ at # {}
    BY <1>1, <1>3
  <2>2. m \in at
    <3> HIDE DEF at
    <3>1. \E k \in at : \A x \in at : k <= x
      BY <2>1, MinimumExists
    <3> QED
      BY <3>1 DEF Min
  <2> QED
    BY <1>1, <2>2
<1> HIDE DEF m
<1>4. ASSUME at # {}
      PROVE  /\ RemoveAt(c, m) \in Seq(S)
             /\ \A x \in Range(c) : x = b \/ x \in Range(RemoveAt(c, m))
  BY <1>3, <1>4, RemoveRange
<1>5. c = << >> => at = {}
  OBVIOUS
<1> HIDE DEF at
<1> QED
  BY <1>2, <1>4, <1>5

\* What a delete makes of a tree, in the parts that make it one.
LEMMA DropFacts ==
  ASSUME NEW u, Typed(u), NEW q, NEW g, g = dropChild(u, q)
  PROVE  /\ DOMAIN g = DOMAIN u
         /\ \A x \in DOMAIN u :
              /\ g[x] \in Nodes
              /\ g[x].Data = u[x].Data /\ g[x].Version = u[x].Version
              /\ g[x].Ephemeral = u[x].Ephemeral /\ g[x].EphemeralNodes = u[x].EphemeralNodes
              /\ \A n \in Range(u[x].Children) :
                   (x = Dir(q) /\ n = Base(q)) \/ n \in Range(g[x].Children)
              /\ u[x].Children = << >> => g[x].Children = << >>
<1>1. g = [x \in DOMAIN u |->
             IF x = Dir(q) THEN [u[x] EXCEPT !.Children = Dropped(u[x].Children, Base(q))]
             ELSE u[x]]
  BY DEF dropChild, Dropped, Typed
<1>2. ASSUME NEW x \in DOMAIN u
      PROVE  /\ g[x] \in Nodes
             /\ g[x].Data = u[x].Data /\ g[x].Version = u[x].Version
             /\ g[x].Ephemeral = u[x].Ephemeral /\ g[x].EphemeralNodes = u[x].EphemeralNodes
             /\ \A n \in Range(u[x].Children) :
                  (x = Dir(q) /\ n = Base(q)) \/ n \in Range(g[x].Children)
             /\ u[x].Children = << >> => g[x].Children = << >>
  <2> DEFINE c == u[x].Children
             d == Dropped(c, Base(q))
  <2>1. u[x] \in Nodes
    BY DEF Typed
  <2>2. c \in Seq(Names)
    BY <2>1 DEF Nodes
  <2>3. /\ d \in Seq(Names)
        /\ \A n \in Range(c) : n = Base(q) \/ n \in Range(d)
        /\ c = << >> => d = << >>
    <3> HIDE DEF c
    <3> QED
      BY <2>2, DroppedFacts
  <2>4. g[x] = IF x = Dir(q) THEN [u[x] EXCEPT !.Children = d] ELSE u[x]
    BY <1>1
  <2> HIDE DEF d
  <2>5. /\ g[x] \in Nodes
        /\ g[x].Data = u[x].Data /\ g[x].Version = u[x].Version
        /\ g[x].Ephemeral = u[x].Ephemeral /\ g[x].EphemeralNodes = u[x].EphemeralNodes
        /\ g[x].Children = IF x = Dir(q) THEN d ELSE c
    <3>1. CASE x = Dir(q)
      BY ONLY <2>1, <2>3, <2>4, <3>1 DEF Nodes
    <3>2. CASE x # Dir(q)
      BY <2>1, <2>4, <3>2
    <3> QED
      BY <3>1, <3>2
  <2> QED
    BY <2>3, <2>5
<1> QED
  BY <1>1, <1>2

\* There is nothing below a leaf.
LEMMA LeafAlone ==
  ASSUME NEW w \in Workloads, LeavesOnly(w), NEW u, Tree(w, u),
         NEW q \in DOMAIN u, q # Root, ~Needed(w, q)
  PROVE  {p \in DOMAIN u : IsPrefix(q, p)} = {q}
<1>1. DOMAIN u \subseteq Paths
  BY DEF Tree, Typed
<1>2. ASSUME NEW p \in DOMAIN u, IsPrefix(q, p) PROVE p = q
  <2>1. p \in Paths /\ q \in Paths /\ (p \in Initial \/ \E r \in w.Requests : Makes(r, p))
    BY <1>1 DEF Tree
  <2> QED
    BY <1>2, <2>1, Above
<1>3. IsPrefix(q, q)
  BY <1>1, LenProperties, PrefixMeans DEF Paths
<1> QED
  BY <1>2, <1>3

\* What a delete of a leaf makes of a tree is a tree.
LEMMA DeletedTree ==
  ASSUME NEW w \in Workloads, LeavesOnly(w), NEW u, Tree(w, u),
         NEW q \in DOMAIN u, q # Root, ~Needed(w, q),
         NEW g, g = Without(dropChild(u, q), {q})
  PROVE  Tree(w, g)
<1> DEFINE d == dropChild(u, q)
<1>1. Typed(u) /\ DOMAIN u \subseteq Paths
  BY DEF Tree, Typed
<1>2. /\ DOMAIN d = DOMAIN u
      /\ \A x \in DOMAIN u :
              /\ d[x] \in Nodes
              /\ d[x].Data = u[x].Data /\ d[x].Version = u[x].Version
              /\ d[x].Ephemeral = u[x].Ephemeral /\ d[x].EphemeralNodes = u[x].EphemeralNodes
              /\ \A n \in Range(u[x].Children) :
                   (x = Dir(q) /\ n = Base(q)) \/ n \in Range(d[x].Children)
              /\ u[x].Children = << >> => d[x].Children = << >>
  BY SMTT(60), <1>1, DropFacts
<1>3. g = [x \in DOMAIN d \ {q} |-> d[x]]
  BY DEF Without
<1> HIDE DEF d
<1>4. /\ DOMAIN g = DOMAIN u \ {q}
      /\ \A x \in DOMAIN g : x \in DOMAIN u /\ x # q /\ g[x] = d[x]
  BY <1>2, <1>3
<1>5. Typed(g)
  BY <1>1, <1>2, <1>3, <1>4 DEF Typed
<1>6. \A p \in Initial : p = Root \/ Needed(w, p) => p \in DOMAIN g
  BY <1>4 DEF Tree
<1>7. ASSUME NEW p \in DOMAIN g, NEW n \in 1..Len(p) PROVE LedTo(g, p, n)
  <2> DEFINE a == Part(p, n - 1)
             b == Part(p, n)
  <2>1. /\ p \in Paths /\ p # q /\ p \in DOMAIN u
        /\ p \in Initial \/ \E r \in w.Requests : Makes(r, p)
    BY <1>1, <1>4 DEF Tree
  <2>2. /\ a \in Paths /\ IsPrefix(a, p) /\ a # p /\ b \in Paths /\ b # Root /\ IsPrefix(b, p)
        /\ Dir(b) = a /\ Base(b) = p[n]
    BY <2>1, PartFacts
  <2>3. LedTo(u, p, n)
    BY <2>1 DEF Tree
  <2> HIDE DEF a, b
  <2>4. a # q /\ b # q
    <3>1. \A x \in Paths : IsPrefix(x, p) /\ x # p => x = Root \/ Needed(w, x)
      BY <2>1, Above
    <3> QED
      BY <2>1, <2>2, <3>1
  <2>5. ~(a = Dir(q) /\ p[n] = Base(q))
    BY <1>1, <2>2, <2>4, PathEqual
  <2>6. a \in DOMAIN u /\ ((n = 1 /\ p[n] = sessionDir[1]) \/ p[n] \in Range(u[a].Children))
    BY <2>3 DEF LedTo, a
  <2>7. a \in DOMAIN g /\ ((n = 1 /\ p[n] = sessionDir[1]) \/ p[n] \in Range(g[a].Children))
    BY <1>2, <1>4, <2>4, <2>5, <2>6
  <2> QED
    BY <2>7 DEF LedTo, a
<1>8. \A p \in DOMAIN g : p \in Initial \/ \E r \in w.Requests : Makes(r, p)
  BY <1>4 DEF Tree
<1>9. ASSUME NEW p \in DOMAIN g, g[p].Ephemeral # None
      PROVE  /\ SessionPath(g[p].Ephemeral) \in DOMAIN g
             /\ \E r \in w.Requests : Makes(r, p) /\ r.Ephemeral = g[p].Ephemeral
  <2>1. p \in DOMAIN u /\ p \in Paths /\ g[p].Ephemeral = u[p].Ephemeral
    BY <1>1, <1>2, <1>4
  <2>2. PICK r \in w.Requests : Makes(r, p) /\ r.Ephemeral = g[p].Ephemeral
    BY <1>9, <2>1 DEF Tree
  <2>3. SessionPath(g[p].Ephemeral) \in DOMAIN u
    BY <1>9, <2>1 DEF Tree
  <2>4. Needed(w, SessionPath(g[p].Ephemeral))
    BY <1>9, <2>1, <2>2, MakesFacts
  <2> QED
    BY <1>4, <2>2, <2>3, <2>4
<1>10. \A p \in DOMAIN g :
       p = Root \/ Needed(w, p) \/ (g[p].Children = << >> /\ g[p].EphemeralNodes = << >>)
  BY ZenonT(60), <1>2, <1>4 DEF Tree
<1> QED
  BY <1>5, <1>6, <1>7, <1>8, <1>9, <1>10 DEF Tree

-----------------------------------------------------------------------------
(* Writing a request that is sound for a tree *)

\* What Write does then: none of its errors.
LEMMA WriteMeans ==
  ASSUME NEW w \in Workloads, LeavesOnly(w), NEW u, Tree(w, u), NEW req, Sound(w, u, req)
  PROVE  /\ req.Request = "create" =>
              Write(u, req) = Written(Grown(u, req.Path, req.Data, req.Ephemeral))
         /\ req.Request = "setdata" =>
              Write(u, req) = Written(Put(u, req.Path, ZNode(req.Data, req.Version, None, << >>)))
         /\ req.Request = "delete" =>
              Write(u, req) = Written(Without(dropChild(u, req.Path), {req.Path}))
<1>1. /\ Typed(u) /\ DOMAIN u \subseteq Paths /\ req.Path \in Paths /\ req.Path # Root
      /\ req.Request \in {"create", "setdata", "delete"}
  BY DEF Tree, Typed, Sound, Reqs
<1>2. ASSUME req.Request = "create"
      PROVE  Write(u, req) = Written(Grown(u, req.Path, req.Data, req.Ephemeral))
  <2>1. /\ req.Path \notin DOMAIN u /\ Dir(req.Path) \in DOMAIN u /\ req.Version = 1
        /\ req.Ephemeral # None => SessionPath(req.Ephemeral) \in DOMAIN u
    BY <1>2 DEF Sound
  <2>2. /\ Put(IF req.Ephemeral = None THEN addChild(u, req.Path)
               ELSE addEphemeral(addChild(u, req.Path), SessionPath(req.Ephemeral), req.Path),
               req.Path, ZNode(req.Data, 1, req.Ephemeral, << >>))
           = Grown(u, req.Path, req.Data, req.Ephemeral)
        /\ DOMAIN addChild(u, req.Path) = DOMAIN u
    BY <1>1, <2>1, WriteGrows
  <2>3. Write(u, req) = write_create(u, req)
    BY <1>2 DEF Write
  <2> QED
    BY <2>1, <2>2, <2>3 DEF write_create
<1>3. ASSUME req.Request = "setdata"
      PROVE  Write(u, req) = Written(Put(u, req.Path, ZNode(req.Data, req.Version, None, << >>)))
  <2>1. req.Ephemeral = None
    BY <1>3 DEF Sound
  <2> QED
    BY <1>3, <2>1 DEF Write
<1>4. ASSUME req.Request = "delete"
      PROVE  Write(u, req) = Written(Without(dropChild(u, req.Path), {req.Path}))
  <2>1. req.Path \in DOMAIN u /\ ~Needed(w, req.Path)
    BY <1>4 DEF Sound
  <2>2. {p \in DOMAIN u : IsPrefix(req.Path, p)} = {req.Path}
    BY <1>1, <2>1, LeafAlone
  <2>3. Dir(req.Path) \in DOMAIN u
    <3>1. /\ Len(req.Path) \in Nat /\ Len(req.Path) >= 1
          /\ Dir(req.Path) = Part(req.Path, Len(req.Path) - 1)
      BY <1>1, PathFacts
    <3>2. LedTo(u, req.Path, Len(req.Path))
      BY <2>1, <3>1 DEF Tree
    <3> QED
      BY <3>1, <3>2 DEF LedTo
  <2>4. Write(u, req) = delete_op(u, req.Path)
    BY <1>4 DEF Write
  <2> QED
    BY <2>2, <2>3, <2>4 DEF delete_op
<1> QED
  BY <1>2, <1>3, <1>4

\* A sound request is written without an error, and leaves a tree.
LEMMA WriteSound ==
  ASSUME NEW w \in Workloads, LeavesOnly(w), NEW u, Tree(w, u), NEW req, Sound(w, u, req)
  PROVE  ~Write(u, req).err /\ Tree(w, Write(u, req).st)
<1>1. /\ req.Path \in Paths /\ req.Path # Root /\ req.Data \in Strings /\ req.Ephemeral \in Strings
      /\ req.Version \in Int /\ req.Request \in {"create", "setdata", "delete"}
  BY DEF Sound, Reqs
<1>2. CASE req.Request = "create"
  <2> DEFINE g == Grown(u, req.Path, req.Data, req.Ephemeral)
  <2>1. PICK r \in w.Requests : Makes(r, req.Path) /\ r.Ephemeral = req.Ephemeral
    BY <1>2 DEF Sound
  <2>2. /\ req.Path \notin DOMAIN u /\ Dir(req.Path) \in DOMAIN u
        /\ req.Ephemeral # None => SessionPath(req.Ephemeral) \in DOMAIN u
    BY <1>2 DEF Sound
  <2>3. Tree(w, g)
    BY <1>1, <2>1, <2>2, GrownTree
  <2>4. Write(u, req) = Written(g)
    BY ZenonT(60), <1>2, WriteMeans
  <2> HIDE DEF g
  <2> QED
    BY <2>3, <2>4 DEF Written
<1>3. CASE req.Request = "setdata"
  <2> DEFINE g == Put(u, req.Path, ZNode(req.Data, req.Version, None, << >>))
  <2>1. req.Path \in DOMAIN u /\ ~Needed(w, req.Path) /\ u[req.Path].Ephemeral = None
    BY <1>3 DEF Sound
  <2>2. Tree(w, g)
    BY <1>1, <2>1, ChangedTree
  <2>3. Write(u, req) = Written(g)
    BY ZenonT(60), <1>3, WriteMeans
  <2> HIDE DEF g
  <2> QED
    BY <2>2, <2>3 DEF Written
<1>4. CASE req.Request = "delete"
  <2> DEFINE g == Without(dropChild(u, req.Path), {req.Path})
  <2>1. req.Path \in DOMAIN u /\ ~Needed(w, req.Path)
    BY <1>4 DEF Sound
  <2>2. Tree(w, g)
    BY <1>1, <2>1, DeletedTree
  <2>3. Write(u, req) = Written(g)
    BY <1>4, WriteMeans
  <2> HIDE DEF g
  <2> QED
    BY <2>2, <2>3 DEF Written
<1> QED
  BY <1>1, <1>2, <1>3, <1>4

-----------------------------------------------------------------------------
(* Checking a request against a tree *)

\* Finitely many numbers have a bound.
LEMMA BoundOfSequence ==
  ASSUME NEW n \in Nat, NEW f \in [1..n -> Nat]
  PROVE  \E m \in Nat : \A i \in 1..n : f[i] <= m
<1> DEFINE bound(k) == \E m \in Nat : \A i \in 1..k : f[i] <= m
           T == {k \in 0..n : bound(k)}
<1>1. 0 \in T
  <2>1. \A i \in 1..0 : FALSE
    OBVIOUS
  <2>2. bound(0)
    BY <2>1
  <2> QED
    BY <2>2
<1>2. PICK k \in T : \A x \in T : k >= x
  <2> HIDE DEF T
  <2>1. T \in SUBSET (0..n)
    BY DEF T
  <2> QED
    BY <1>1, <2>1, MaximumExists
<1>3. k \in 0..n /\ bound(k)
  BY <1>2
<1>4. CASE k = n
  BY <1>3, <1>4
<1>5. CASE k # n
  <2>1. k + 1 \in 1..n /\ k + 1 \in 0..n
    BY <1>3, <1>5
  <2>2. PICK m \in Nat : \A i \in 1..k : f[i] <= m
    BY <1>3
  <2> DEFINE v == f[k + 1]
  <2>3. v \in Nat /\ m + v \in Nat
    BY <2>1
  <2>4. \A i \in 1..(k + 1) : f[i] <= m + v
    <3> SUFFICES ASSUME NEW i \in 1..(k + 1) PROVE f[i] <= m + v
      OBVIOUS
    <3>1. CASE i = k + 1
      BY <2>3, <3>1
    <3>2. CASE i # k + 1
      <4>1. i \in 1..k /\ f[i] \in Nat
        BY <1>3, <2>1, <3>2
      <4> HIDE DEF v
      <4> QED
        BY <2>2, <2>3, <4>1
    <3> QED
      BY <3>1, <3>2
  <2>5. bound(k + 1)
    BY <2>3, <2>4
  <2>6. k + 1 \in T
    BY <2>1, <2>5
  <2>7. k >= k + 1
    <3> HIDE DEF T
    <3> QED
      BY <1>2, <2>6
  <2> QED
    BY <1>3, <2>7
<1> QED
  BY <1>4, <1>5

\* The name that a sequential create gets is one of its own.
LEMMA SeqnameFacts ==
  ASSUME NEW u, Typed(u), NEW p \in Paths, p # Root, Dir(p) \in DOMAIN u
  PROVE  /\ seqname(u, p) \in Paths /\ seqname(u, p) # Root
         /\ Dir(seqname(u, p)) = Dir(p) /\ Base(seqname(u, p))[1] = Base(p)[1]
         /\ Base(seqname(u, p))[2] # 0
<1> DEFINE c == u[Dir(p)].Children
           taken == {d[2] : d \in {d \in Range(c) : d[1] = Base(p)[1]}}
           m == Max(taken \cup {0})
           name == <<Base(p)[1], m + 1>>
<1>1. c \in Seq(Names) /\ Base(p) \in Names /\ Dir(p) \in Paths
  BY PathFacts DEF Typed, Nodes
<1>2. \A d \in Names : d[1] \in Strings /\ d[2] \in Nat
  BY DEF Names
<1> HIDE DEF c
<1>3. PICK b \in Nat : \A i \in 1..Len(c) : c[i][2] <= b
  <2> DEFINE f == [i \in 1..Len(c) |-> c[i][2]]
  <2>1. Len(c) \in Nat /\ f \in [1..Len(c) -> Nat]
    <3>1. \A i \in 1..Len(c) : c[i] \in Names
      BY <1>1, ElementOfSeq
    <3>2. \A i \in 1..Len(c) : c[i][2] \in Nat
      BY <1>2, <3>1
    <3> QED
      BY <1>1, <3>2, LenProperties
  <2>2. \E b \in Nat : \A i \in 1..Len(c) : f[i] <= b
    <3> HIDE DEF f
    <3> QED
      BY <2>1, BoundOfSequence
  <2> QED
    BY <2>2
<1>4. \A d \in Range(c) : d[2] \in 0..b
  <2>1. \A i \in 1..Len(c) : c[i][2] \in Nat
    BY <1>1, <1>2, ElementOfSeq
  <2>2. \A d \in Range(c) : \E i \in 1..Len(c) : d = c[i]
    BY <1>1, LenProperties DEF Range
  <2> QED
    BY <1>3, <2>1, <2>2
<1>5. taken \cup {0} \in SUBSET (0..b)
  BY <1>4
<1>7. seqname(u, p) = Append(Dir(p), name)
  BY DEF seqname, c
<1> HIDE DEF taken
<1>6. m \in Nat
  <2> DEFINE S == taken \cup {0}
  <2>1. S \in SUBSET (0..b) /\ S # {}
    BY <1>5
  <2> HIDE DEF S
  <2>2. \E x \in S : \A y \in S : x >= y
    BY <2>1, MaximumExists
  <2>3. Max(S) \in S
    BY <2>2 DEF Max
  <2>4. Max(S) \in Nat
    <3>1. S \subseteq Nat
      BY <2>1
    <3> QED
      BY <2>3, <3>1, Zenon
  <2> QED
    BY <2>4 DEF S
<1> HIDE DEF m
<1>8. name \in Names /\ name[1] = Base(p)[1] /\ name[2] # 0
  BY <1>1, <1>2, <1>6 DEF Names
<1> HIDE DEF name
<1> QED
  BY <1>1, <1>7, <1>8, ChildFacts

\* What the cache is after a check, and what the request is that was accepted.
Fine(w, u, o) ==
  \/ o.res = "denied" /\ o.cache = u
  \/ o.res = "ok" /\ Sound(w, u, o.req) /\ o.cache = Write(u, o.req).st

\* A create is denied, or is sound, with the version it sets.
LEMMA CreateChecked ==
  ASSUME NEW w \in Workloads, LeavesOnly(w), NEW u, Tree(w, u),
         NEW req \in Reqs, req.Request = "create", req.Path # Root,
         NEW r \in w.Requests, Makes(r, req.Path), r.Ephemeral = req.Ephemeral
  PROVE  Fine(w, u, check_create(u, req))
<1> DEFINE s == SessionPath(req.Ephemeral)
           a == IF req.Ephemeral = None THEN u ELSE addEphemeral(u, s, req.Path)
           b == addChild(Put(a, req.Path, ZNode(req.Data, 1, req.Ephemeral, << >>)), req.Path)
           q == [req EXCEPT !.Version = 1]
           no == \/ req.Path \in DOMAIN u
                 \/ Dir(req.Path) \notin DOMAIN u
                 \/ u[Dir(req.Path)].Ephemeral # None
                 \/ req.Ephemeral # None /\ s \notin DOMAIN u
           o == check_create(u, req)
<1>1. o = IF no THEN Denied(u) ELSE Accepted(b, q)
  BY DEF check_create
<1>2. /\ q \in Reqs /\ q.Request = "create" /\ q.Version = 1
      /\ q.Path = req.Path /\ q.Data = req.Data /\ q.Ephemeral = req.Ephemeral
  BY DEF Reqs
<1>3. Typed(u) /\ req.Path \in Paths
  BY DEF Tree, Reqs
<1>4. ASSUME ~no PROVE Sound(w, u, q) /\ b = Write(u, q).st
  <2>1. /\ req.Path \notin DOMAIN u /\ Dir(req.Path) \in DOMAIN u
        /\ req.Ephemeral # None => s \in DOMAIN u
    BY <1>4
  <2>2. Sound(w, u, q)
    <3> HIDE DEF q, s
    <3> QED
      BY <1>2, <2>1 DEF Sound, s
  <2>3. b = Grown(u, req.Path, req.Data, req.Ephemeral)
    <3> DEFINE p == req.Path
               d == req.Data
               e == req.Ephemeral
    <3>1. /\ p \in Paths /\ p \notin DOMAIN u /\ Dir(p) \in DOMAIN u
          /\ e # None => SessionPath(e) \in DOMAIN u
      BY <1>3, <2>1
    <3> HIDE DEF p, d, e
    <3>2. addChild(Put(IF e = None THEN u ELSE addEphemeral(u, SessionPath(e), p), p,
                       ZNode(d, 1, e, << >>)), p)
          = Grown(u, p, d, e)
      BY <1>3, <3>1, CheckGrows
    <3> QED
      BY <3>2, Zenon DEF p, d, e
  <2> HIDE DEF b, q
  <2>4. Write(u, q) = Written(Grown(u, q.Path, q.Data, q.Ephemeral))
    BY ZenonT(60), <1>2, <2>2, WriteMeans
  <2> QED
    BY <1>2, <2>2, <2>3, <2>4 DEF Written
<1> HIDE DEF no, b, q, o
<1>5. CASE no
  BY <1>1, <1>5 DEF Fine, Denied, o
<1>6. CASE ~no
  BY <1>1, <1>4, <1>6 DEF Fine, Accepted, o
<1> QED
  BY <1>5, <1>6

\* Every request of the workload is denied or is sound: Check does not panic,
\* and the cache then is what Write will make of it.
LEMMA CheckSound ==
  ASSUME NEW w \in Workloads, LeavesOnly(w), NEW u, Tree(w, u), NEW r \in w.Requests
  PROVE  Fine(w, u, Check(u, r))
<1>1. u # << >>
  <2>1. Root \in DOMAIN u
    BY DEF Tree, Initial
  <2>2. DOMAIN << >> = {}
    OBVIOUS
  <2> QED
    BY <2>1, <2>2
<1>2. /\ r \in Reqs /\ r.Path # Root /\ r.Path \in Paths
      /\ r.Request = "create" \/ r.Ephemeral = None
  BY WorkloadsAssumption DEF LeavesOnly, Reqs
<1>3. CASE r.Request = "create"
  <2>1. CASE ~r.Sequential
    <3>1. Check(u, r) = check_create(u, r)
      BY <1>1, <1>3, <2>1 DEF Check
    <3>2. Makes(r, r.Path)
      BY <1>3, <2>1 DEF Makes
    <3> QED
      BY <1>2, <1>3, <3>1, <3>2, CreateChecked
  <2>2. CASE r.Sequential
    <3> DEFINE p == seqname(u, r.Path)
               q == [r EXCEPT !.Path = p]
    <3>1. Dir(r.Path) \in DOMAIN u
      <4>1. Dir(r.Path) \in Initial
        BY <1>3, <2>2 DEF LeavesOnly
      <4>2. Dir(r.Path) \in Paths /\ IsPrefix(Dir(r.Path), Dir(r.Path))
        BY <1>2, PathFacts, LenProperties, PrefixMeans DEF Paths
      <4>3. Needed(w, Dir(r.Path))
        BY <1>3, <4>2 DEF Needed, Needs
      <4> QED
        BY <4>1, <4>3 DEF Tree
    <3>2. p \in Paths /\ p # Root /\ Dir(p) = Dir(r.Path) /\ Base(p)[1] = Base(r.Path)[1]
      BY <1>2, <3>1, SeqnameFacts DEF Tree
    <3>3. Check(u, r) = check_create(u, q)
      BY <1>1, <1>3, <2>2, <3>1 DEF Check
    <3> HIDE DEF p
    <3>4. q \in Reqs /\ q.Path = p /\ q.Request = "create" /\ q.Ephemeral = r.Ephemeral
      BY <1>2, <1>3, <3>2 DEF Reqs
    <3>5. Makes(r, p)
      BY <1>3, <2>2, <3>2 DEF Makes
    <3> HIDE DEF q
    <3> QED
      BY <3>2, <3>3, <3>4, <3>5, CreateChecked
  <2> QED
    BY <2>1, <2>2
<1>4. CASE r.Request = "setdata"
  <2> DEFINE no == r.Path \notin DOMAIN u \/ r.Version \notin {-1, u[r.Path].Version}
             b  == [u EXCEPT ![r.Path].Data = r.Data, ![r.Path].Version = @ + 1]
             q  == [r EXCEPT !.Version = @ + 1]
             o  == Check(u, r)
  <2>1. r.Version # -1 /\ ~Needed(w, r.Path) /\ r.Ephemeral = None
        /\ \A c \in w.Requests : Makes(c, r.Path) => c.Ephemeral = None
    BY <1>2, <1>4 DEF LeavesOnly
  <2>2. o = IF no THEN Denied(u) ELSE Accepted(b, q)
    BY <1>1, <1>4, <2>1 DEF Check, check_update
  <2>3. /\ q \in Reqs /\ q.Request = "setdata" /\ q.Version = r.Version + 1
        /\ q.Path = r.Path /\ q.Data = r.Data /\ q.Ephemeral = None
    BY <1>2, <1>4, <2>1 DEF Reqs
  <2>4. ASSUME ~no PROVE Sound(w, u, q) /\ b = Write(u, q).st
    <3>1. r.Path \in DOMAIN u /\ q.Version = u[r.Path].Version + 1
      BY <2>1, <2>3, <2>4
    <3>2. u[r.Path].Ephemeral = None
      BY <2>1, <3>1 DEF Tree
    <3> HIDE DEF q
    <3>3. Sound(w, u, q)
      BY SMTT(60), <1>2, <2>1, <2>3, <3>1, <3>2 DEF Sound
    <3>4. b = Put(u, r.Path, ZNode(r.Data, q.Version, None, << >>))
      BY <1>2, <2>1, <3>1, <3>2, CheckChanges
    <3> HIDE DEF b
    <3>5. Write(u, q) = Written(Put(u, r.Path, ZNode(r.Data, q.Version, None, << >>)))
      BY ZenonT(60), <2>3, <3>3, WriteMeans
    <3> QED
      BY <3>3, <3>4, <3>5 DEF Written
  <2> HIDE DEF no, b, q, o
  <2>5. CASE no
    BY <2>2, <2>5 DEF Fine, Denied, o
  <2>6. CASE ~no
    BY <2>2, <2>4, <2>6 DEF Fine, Accepted, o
  <2> QED
    BY <2>5, <2>6
<1>5. CASE r.Request = "delete"
  <2> DEFINE no == r.Path \notin DOMAIN u \/ r.Version \notin {-1, u[r.Path].Version}
             b  == Without(dropChild(u, r.Path), {r.Path})
             o  == Check(u, r)
  <2>1. ~Needed(w, r.Path)
    BY <1>5 DEF LeavesOnly
  <2>2. ASSUME ~no PROVE Dir(r.Path) \in DOMAIN u
    <3>1. /\ Len(r.Path) \in Nat /\ Len(r.Path) >= 1
          /\ Dir(r.Path) = Part(r.Path, Len(r.Path) - 1)
      BY <1>2, PathFacts
    <3>2. LedTo(u, r.Path, Len(r.Path))
      BY <2>2, <3>1 DEF Tree
    <3> QED
      BY <3>1, <3>2 DEF LedTo
  <2>3. o = IF no THEN Denied(u) ELSE Accepted(b, r)
    BY <1>1, <1>5, <2>2 DEF Check, check_delete
  <2>4. ASSUME ~no PROVE Sound(w, u, r) /\ b = Write(u, r).st
    <3>1. Sound(w, u, r)
      BY <1>2, <1>5, <2>1, <2>4 DEF Sound
    <3> HIDE DEF b
    <3>2. Write(u, r) = Written(b)
      BY ZenonT(60), <1>5, <3>1, WriteMeans DEF b
    <3> QED
      BY <3>1, <3>2 DEF Written
  <2> HIDE DEF no, b, o
  <2>5. CASE no
    BY <2>3, <2>5 DEF Fine, Denied, o
  <2>6. CASE ~no
    BY <2>3, <2>4, <2>6 DEF Fine, Accepted, o
  <2> QED
    BY <2>5, <2>6
<1> QED
  BY <1>3, <1>4, <1>5 DEF LeavesOnly

-----------------------------------------------------------------------------
(* The storage at the start, and the reload of the cache *)

\* populate leaves nothing out of a tree.
LEMMA PopulateTree ==
  ASSUME NEW w \in Workloads, NEW u, Tree(w, u)
  PROVE  populate(u) = u
<1>1. ASSUME NEW p \in DOMAIN u, NEW n \in 1..Len(p)
      PROVE  (p[n] = sessionDir[1] /\ n = 1) \/ p[n] \in Range(u[SubSeq(p, 1, n - 1)].Children)
  <2>1. LedTo(u, p, n)
    BY DEF Tree
  <2> QED
    BY <2>1, Zenon DEF LedTo, Part
<1>2. u = [p \in DOMAIN u |-> u[p]]
  BY DEF Tree, Typed
<1> QED
  BY <1>1, <1>2, Zenon DEF populate

\* The sequence made of a finite set has its elements, all of them.
LEMMA SetToSeqFacts ==
  ASSUME NEW S, IsFiniteSet(S)
  PROVE  SetToSeq(S) \in Seq(S) /\ Range(SetToSeq(S)) = S
<1>1. PICK n \in Nat : ExistsBijection(1..n, S)
  BY FS_NatBijection
<1>2. Cardinality(S) = n
  BY <1>1, FS_CountingElements
<1>3. PICK f \in Bijection(1..n, S) : TRUE
  BY <1>1 DEF ExistsBijection
<1>4. \E g \in [1..n -> S] : IsInjective(g)
  BY <1>3 DEF Bijection, Injection
<1>5. SetToSeq(S) = CHOOSE g \in [1..n -> S] : IsInjective(g)
  BY <1>2 DEF SetToSeq
<1> DEFINE g == SetToSeq(S)
<1> HIDE DEF g
<1>6. g \in [1..n -> S] /\ IsInjective(g)
  BY <1>4, <1>5 DEF g
<1>7. g \in Injection(1..n, S)
  BY <1>6 DEF Injection
<1>8. Cardinality(1..n) = n
  BY CountOfInterval
<1>9. g \in Surjection(1..n, S)
  BY <1>2, <1>7, <1>8, FS_Injection
<1>10. DOMAIN g = 1..n /\ \A x \in S : \E i \in 1..n : g[i] = x
  BY <1>9 DEF Surjection
<1>11. Range(g) = S
  BY <1>6, <1>10 DEF Range
<1>12. g \in Seq(S)
  BY <1>6, SeqDef
<1> QED
  BY <1>11, <1>12 DEF g

\* What the program starts with is a tree.
LEMMA InitialTree ==
  ASSUME NEW w \in Workloads, NEW u, u = init_base_znode
  PROVE  Tree(w, u)
<1> DEFINE B == {Base(t) : t \in Topics}
           c == SetToSeq(B)
           root == ZNode(None, 0, None, c)
<1>1. /\ DOMAIN u = Initial /\ u = [p \in Initial |-> u[p]]
      /\ u[Root] = root
      /\ \A p \in Initial : p # Root =>
           u[p] = ZNode(None, IF p \in Topics THEN 1 ELSE 0, None, << >>)
  BY DEF init_base_znode, Initial
<1>2. IsFiniteSet(Topics) /\ Topics \subseteq Paths /\ \A t \in Topics : Len(t) = 1
  BY WorkloadsAssumption
<1>3. IsFiniteSet(B)
  <2> DEFINE f == [t \in Topics |-> Base(t)]
  <2>1. f \in Surjection(Topics, B)
    BY DEF Surjection
  <2> HIDE DEF f, B
  <2> QED
    BY <1>2, <2>1, FS_Surjection
<1>4. \A t \in Topics : t # Root /\ Base(t) \in Names /\ Base(t) = t[1]
  <2> SUFFICES ASSUME NEW t \in Topics PROVE t # Root /\ Base(t) \in Names /\ Base(t) = t[1]
    OBVIOUS
  <2>1. t \in Paths /\ Len(t) = 1 /\ t # Root
    BY <1>2, InitialFacts
  <2> QED
    BY <2>1, PathFacts
<1>5. B \subseteq Names
  BY <1>4
<1>6. c \in Seq(Names) /\ Range(c) = B
  <2> HIDE DEF B
  <2>1. c \in Seq(B) /\ Range(c) = B
    BY <1>3, SetToSeqFacts
  <2> HIDE DEF c
  <2> QED
    BY <1>5, <2>1, SeqMonotonic
<1>7. None \in Strings
  BY DEF Strings
<1> HIDE DEF c
<1>8. /\ root \in Nodes /\ root.Children = c /\ root.Ephemeral = None
      /\ root.EphemeralNodes = << >>
  BY <1>6, <1>7 DEF ZNode, Nodes
<1>9. ASSUME NEW p \in Initial
      PROVE  /\ u[p] \in Nodes /\ u[p].Ephemeral = None /\ u[p].EphemeralNodes = << >>
             /\ p # Root => u[p].Children = << >>
  <2>1. CASE p = Root
    <3> HIDE DEF root, B
    <3> QED
      BY <1>1, <1>8, <2>1
  <2>2. ASSUME p # Root
        PROVE  /\ u[p] \in Nodes /\ u[p].Ephemeral = None /\ u[p].EphemeralNodes = << >>
               /\ u[p].Children = << >>
    <3> DEFINE v == IF p \in Topics THEN 1 ELSE 0
    <3>1. v \in Int /\ u[p] = ZNode(None, v, None, << >>)
      BY <1>1, <2>2
    <3> HIDE DEF v
    <3> QED
      BY ONLY <1>7, <3>1 DEF ZNode, Nodes
  <2> QED
    BY <2>1, <2>2
<1>10. Root \in Initial /\ u[Root].Children = c
  BY <1>1, <1>8 DEF Initial
<1>11. Typed(u)
  BY <1>1, <1>9, InitialFacts DEF Typed
<1>12. ASSUME NEW p \in Initial, NEW n \in 1..Len(p) PROVE LedTo(u, p, n)
  <2>1. p \in Paths /\ Len(p) <= 1 /\ Len(p) \in Nat
    BY InitialFacts, LenProperties DEF Paths
  <2>2. n = 1 /\ Len(p) = 1 /\ p # Root /\ n - 1 = 0
    <3> DEFINE k == Len(p)
    <3>3. k \in Nat /\ k <= 1 /\ n \in 1..k
      BY <2>1
    <3> HIDE DEF k
    <3>4. n = 1 /\ k = 1 /\ n - 1 = 0
      BY ONLY <3>3
    <3>1. n = 1 /\ Len(p) = 1 /\ n - 1 = 0
      BY <3>4 DEF k
    <3>2. Len(Root) = 0
      BY InitialFacts
    <3> QED
      BY <3>1, <3>2
  <2>3. Part(p, n - 1) \in Paths /\ Len(Part(p, n - 1)) = 0
    <3>1. Part(p, n - 1) \in Paths /\ Len(Part(p, n - 1)) = n - 1
      BY <2>1, PartFacts
    <3> QED
      BY <2>2, <3>1
  <2>4. Part(p, n - 1) = Root
    BY <2>3, EmptySeq DEF Paths, Root
  <2>5. CASE p = sessionDir
    BY <1>1, <1>10, <2>2, <2>4, <2>5 DEF LedTo
  <2>6. CASE p \in Topics
    <3>1. p[n] \in Range(u[Root].Children)
      BY <1>4, <1>6, <1>10, <2>2, <2>6
    <3> QED
      BY <1>1, <1>10, <2>4, <3>1 DEF LedTo
  <2> QED
    BY <2>2, <2>5, <2>6 DEF Initial
<1> QED
  BY <1>1, <1>9, <1>11, <1>12 DEF Tree

-----------------------------------------------------------------------------
(* The requests that are under way *)

\* V[i] is the storage after the first i requests of q, each of them sound for
\* the storage that it will find.
Stages(w, u, q, V) ==
  /\ V[0] = u
  /\ \A i \in 0..Len(q) : Tree(w, V[i])
  /\ \A i \in 1..Len(q) : Sound(w, V[i - 1], q[i]) /\ V[i] = Write(V[i - 1], q[i]).st

\* The cache c is the storage u after all the requests of q.
Ahead(w, u, q, c) ==
  \E V : Stages(w, u, q, V) /\ IF c = << >> THEN q = << >> ELSE c = V[Len(q)]

\* The next request is sound for the storage, and the others are for what it
\* leaves.
LEMMA NextStage ==
  ASSUME NEW w, NEW u, NEW q \in Seq(Reqs), q # << >>, NEW c, Ahead(w, u, q, c)
  PROVE  Sound(w, u, Head(q)) /\ Ahead(w, Write(u, Head(q)).st, Tail(q), c)
<1>1. PICK V : Stages(w, u, q, V) /\ IF c = << >> THEN q = << >> ELSE c = V[Len(q)]
  BY DEF Ahead
<1> DEFINE n == Len(q)
           t == Tail(q)
           x == [i \in 0..(n - 1) |-> V[i + 1]]
<1>2. /\ n \in Nat /\ n >= 1 /\ Head(q) = q[1] /\ t \in Seq(Reqs) /\ Len(t) = n - 1
      /\ \A i \in 1..(n - 1) : t[i] = q[i + 1]
  BY HeadFacts
<1> HIDE DEF t, n
<1>3. /\ V[0] = u
      /\ \A i \in 0..n : Tree(w, V[i])
      /\ \A i \in 1..n : Sound(w, V[i - 1], q[i]) /\ V[i] = Write(V[i - 1], q[i]).st
      /\ c # << >> /\ c = V[n]
  BY <1>1 DEF Stages, n
<1>4. Sound(w, u, Head(q)) /\ V[1] = Write(u, Head(q)).st
  <2>1. 1 \in 1..n /\ 1 - 1 = 0
    BY <1>2
  <2>2. Sound(w, V[0], q[1]) /\ V[1] = Write(V[0], q[1]).st
    BY <1>3, <2>1
  <2> QED
    BY <1>2, <1>3, <2>2
<1>5. x[0] = V[1] /\ x[n - 1] = V[n]
  BY <1>2
<1>6. ASSUME NEW i \in 0..(n - 1) PROVE Tree(w, x[i])
  <2>1. i + 1 \in 0..n /\ x[i] = V[i + 1]
    BY <1>2
  <2> QED
    BY <1>3, <2>1
<1>7. ASSUME NEW i \in 1..(n - 1)
      PROVE  Sound(w, x[i - 1], t[i]) /\ x[i] = Write(x[i - 1], t[i]).st
  <2>1. /\ i + 1 \in 1..n /\ (i + 1) - 1 = i /\ x[i] = V[i + 1] /\ x[i - 1] = V[i]
        /\ t[i] = q[i + 1]
    BY <1>2
  <2>2. Sound(w, V[(i + 1) - 1], q[i + 1]) /\ V[i + 1] = Write(V[(i + 1) - 1], q[i + 1]).st
    BY <1>3, <2>1
  <2> QED
    BY <2>1, <2>2
<1> HIDE DEF x
<1>8. Stages(w, Write(u, Head(q)).st, t, x)
  BY <1>2, <1>4, <1>5, <1>6, <1>7 DEF Stages
<1>9. Ahead(w, Write(u, Head(q)).st, t, c)
  BY <1>2, <1>3, <1>5, <1>8 DEF Ahead
<1> QED
  BY <1>4, <1>9 DEF t

\* A sound request for the cache is one stage more.
LEMMA OneStageMore ==
  ASSUME NEW w \in Workloads, LeavesOnly(w), NEW u, NEW q \in Seq(Reqs), NEW c, c # << >>,
         Ahead(w, u, q, c), NEW r \in Reqs, Sound(w, c, r), NEW d, d = Write(c, r).st
  PROVE  Ahead(w, u, Append(q, r), d)
<1>1. PICK V : Stages(w, u, q, V) /\ c = V[Len(q)]
  BY DEF Ahead
<1> DEFINE n == Len(q)
           a == Append(q, r)
           x == [i \in 0..(n + 1) |-> IF i = n + 1 THEN d ELSE V[i]]
<1>2. /\ a \in Seq(Reqs) /\ n \in Nat /\ Len(a) = n + 1
      /\ \A i \in 1..n : a[i] = q[i]
      /\ a[n + 1] = r
  BY AppendFacts
<1> HIDE DEF a, n
<1>3. /\ V[0] = u /\ c = V[n]
      /\ \A i \in 0..n : Tree(w, V[i])
      /\ \A i \in 1..n : Sound(w, V[i - 1], q[i]) /\ V[i] = Write(V[i - 1], q[i]).st
  BY <1>1 DEF Stages, n
<1>4. x[0] = V[0] /\ x[n + 1] = d /\ \A i \in 0..n : x[i] = V[i]
  BY <1>2
<1> HIDE DEF x
<1>5. Tree(w, c)
  BY <1>2, <1>3
<1>6. Tree(w, d)
  BY <1>5, WriteSound
<1>7. ASSUME NEW i \in 0..(n + 1) PROVE Tree(w, x[i])
  <2>1. i \in 0..n \/ i = n + 1
    BY <1>2
  <2> QED
    BY <1>3, <1>4, <1>6, <2>1
<1>8. ASSUME NEW i \in 1..(n + 1)
      PROVE  Sound(w, x[i - 1], a[i]) /\ x[i] = Write(x[i - 1], a[i]).st
  <2>1. CASE i = n + 1
    <3>1. i - 1 = n /\ n \in 0..n
      BY <1>2, <2>1
    <3>2. x[i - 1] = c /\ a[i] = r /\ x[i] = d
      BY <1>2, <1>3, <1>4, <2>1, <3>1
    <3> QED
      BY <3>2
  <2>2. CASE i # n + 1
    <3>1. i \in 1..n /\ i - 1 \in 0..n /\ i \in 0..n
      BY <1>2, <2>2
    <3>2. x[i - 1] = V[i - 1] /\ x[i] = V[i] /\ a[i] = q[i]
      BY <1>2, <1>4, <3>1
    <3> QED
      BY <1>3, <3>1, <3>2
  <2> QED
    BY <2>1, <2>2
<1>9. Stages(w, u, a, x)
  BY <1>2, <1>3, <1>4, <1>7, <1>8 DEF Stages
<1>10. d # << >>
  <2>1. Root \in DOMAIN d /\ DOMAIN << >> = {}
    BY <1>6 DEF Tree, Initial
  <2> QED
    BY <2>1
<1> QED
  BY <1>2, <1>4, <1>9, <1>10 DEF Ahead, a

\* With nothing under way a cache that is the storage is ahead of it.
LEMMA NothingUnderWay ==
  ASSUME NEW w, NEW u, Tree(w, u), NEW c, c = << >> \/ c = u
  PROVE  Ahead(w, u, << >>, c)
<1> DEFINE x == [i \in {0} |-> u]
<1>1. Len(<< >>) = 0 /\ 0..0 = {0} /\ 1..0 = {} /\ x[0] = u
  OBVIOUS
<1> HIDE DEF x
<1>2. Stages(w, u, << >>, x)
  BY <1>1 DEF Stages
<1> QED
  BY <1>1, <1>2 DEF Ahead

-----------------------------------------------------------------------------
(* The invariant *)

\* What is accepted is sound, for a cache that is the storage that all that is
\* under way will leave; so nothing panics and no write is an error.
Inv ==
  /\ workload \in Workloads /\ LeavesOnly(workload)
  /\ Tree(workload, storage)
  /\ pending \in Seq(Reqs)
  /\ listening /\ ~panicked
  /\ Ahead(workload, storage, pending, cache)

\* It holds at the start: nothing is under way and the cache is empty.
LEMMA InvInit ==
  Init /\ LeavesOnly(workload) => Inv
<1> SUFFICES ASSUME Init, LeavesOnly(workload) PROVE Inv
  OBVIOUS
<1>1. /\ workload \in Workloads /\ cache = << >> /\ storage = init_base_znode
      /\ pending = << >> /\ listening /\ ~panicked
  BY DEF Init
<1>2. Tree(workload, storage)
  BY <1>1, InitialTree
<1>3. Ahead(workload, storage, << >>, cache)
  BY <1>1, <1>2, NothingUnderWay
<1>4. << >> \in Seq(Reqs)
  BY EmptySeq
<1> QED
  BY <1>1, <1>2, <1>3, <1>4 DEF Inv

\* Every step keeps it: processRequest adds a stage, committedListener takes
\* the first away, and Init_znode_cache finds none.
LEMMA InvStep ==
  Inv /\ [Next]_vars => Inv'
<1> SUFFICES ASSUME Inv, [Next]_vars PROVE Inv'
  OBVIOUS
<1>1. /\ workload \in Workloads /\ LeavesOnly(workload)
      /\ Tree(workload, storage)
      /\ pending \in Seq(Reqs)
      /\ listening /\ ~panicked
      /\ Ahead(workload, storage, pending, cache)
  BY DEF Inv
<1>2. CASE processRequest
  <2>1. PICK r \in workload.Requests :
          /\ cache' = Check(cache, r).cache
          /\ panicked' = (Check(cache, r).res = "panic")
          /\ pending' = IF Check(cache, r).res = "ok" THEN Append(pending, Check(cache, r).req)
                        ELSE pending
    BY <1>2 DEF processRequest
  <2>2. workload' = workload /\ storage' = storage /\ listening' = listening
    BY <1>2 DEF processRequest
  <2> DEFINE o == Check(cache, r)
  <2>3. ASSUME cache = << >> PROVE o.res = "denied" /\ o.cache = cache
    BY <2>3 DEF Check, Denied
  <2>4. ASSUME cache # << >> PROVE Fine(workload, cache, o)
    <3>1. PICK V : Stages(workload, storage, pending, V) /\ cache = V[Len(pending)]
      BY <1>1, <2>4 DEF Ahead
    <3>2. Len(pending) \in 0..Len(pending)
      BY <1>1, LenProperties
    <3>3. Tree(workload, cache)
      BY <3>1, <3>2 DEF Stages
    <3> QED
      BY <1>1, <3>3, CheckSound
  <2> HIDE DEF o
  <2>5. /\ cache' = o.cache /\ panicked' = (o.res = "panic")
        /\ pending' = IF o.res = "ok" THEN Append(pending, o.req) ELSE pending
    BY <2>1 DEF o
  <2>6. CASE o.res = "denied" /\ o.cache = cache
    <3>1. cache' = cache /\ pending' = pending /\ ~panicked'
      BY <2>5, <2>6
    <3> QED
      BY <1>1, <2>2, <3>1 DEF Inv
  <2>7. ASSUME cache # << >>, o.res = "ok", Sound(workload, cache, o.req),
               o.cache = Write(cache, o.req).st
        PROVE  Inv'
    <3>1. pending' = Append(pending, o.req) /\ ~panicked' /\ cache' = Write(cache, o.req).st
      BY <2>5, <2>7
    <3>2. o.req \in Reqs
      BY <2>7 DEF Sound
    <3>3. Ahead(workload, storage, Append(pending, o.req), cache')
      BY <1>1, <2>7, <3>1, <3>2, OneStageMore
    <3>4. Append(pending, o.req) \in Seq(Reqs)
      BY <1>1, <3>2, AppendFacts
    <3> QED
      BY <1>1, <2>2, <3>1, <3>3, <3>4 DEF Inv
  <2> QED
    BY <2>3, <2>4, <2>6, <2>7 DEF Fine
<1>3. CASE committedListener
  <2> DEFINE r == Head(pending)
             o == Write(storage, r)
  <2>1. /\ pending # << >> /\ storage' = o.st /\ listening' = ~o.err /\ pending' = Tail(pending)
        /\ workload' = workload /\ cache' = cache /\ panicked' = panicked
    BY <1>3 DEF committedListener
  <2>2. Sound(workload, storage, r) /\ Ahead(workload, o.st, Tail(pending), cache)
    BY <1>1, <2>1, NextStage
  <2>3. ~o.err /\ Tree(workload, o.st)
    BY <1>1, <2>2, WriteSound
  <2>4. Tail(pending) \in Seq(Reqs)
    BY <1>1, <2>1, HeadFacts
  <2> HIDE DEF r, o
  <2> QED
    BY <1>1, <2>1, <2>2, <2>3, <2>4 DEF Inv
<1>4. CASE Init_znode_cache
  <2>1. /\ workload.ReinitIdle => pending = << >>
        /\ cache' = populate(storage)
        /\ workload' = workload /\ storage' = storage /\ pending' = pending
        /\ panicked' = panicked /\ listening' = listening
    BY <1>4 DEF Init_znode_cache
  <2>2. pending = << >>
    BY <1>1, <2>1 DEF LeavesOnly
  <2>3. cache' = storage
    BY <1>1, <2>1, PopulateTree
  <2>4. Ahead(workload, storage, << >>, cache')
    BY <1>1, <2>3, NothingUnderWay
  <2> QED
    BY <1>1, <2>1, <2>2, <2>4 DEF Inv
<1>5. CASE UNCHANGED vars
  BY <1>1, <1>5 DEF vars, Inv
<1> QED
  BY <1>2, <1>3, <1>4, <1>5 DEF Next

\* The invariant holds in every behaviour with such a workload.
LEMMA InvHolds ==
  Spec /\ LeavesOnly(workload) => []Inv
<1> QED
  BY InvInit, InvStep, PTL DEF Spec

-----------------------------------------------------------------------------
(* The properties *)

\* No write of what was accepted and committed is an error: committedListener
\* reads on.
THEOREM ListenerReadsOn ==
  Spec /\ LeavesOnly(workload) => []CommitsGoOn
<1>1. Inv => CommitsGoOn
  BY DEF Inv, CommitsGoOn
<1> QED
  BY <1>1, InvHolds, PTL

\* A sound request that is next is for a new path, if it is a create.
LEMMA NextIsSound ==
  Inv /\ pending # << >> => Sound(workload, storage, Head(pending))
BY NextStage DEF Inv

\* A create that is written writes over no znode: the sequence numbers that the
\* cache gives out are new in the storage too.
THEOREM CreatesAreNew ==
  Spec /\ LeavesOnly(workload) => NoOverwrite
<1>1. ASSUME Inv, [Next]_vars, storage' # storage, Head(pending).Request = "create"
      PROVE  Head(pending).Path \notin DOMAIN storage
  <2>1. committedListener
    BY <1>1 DEF Next, vars, processRequest, Init_znode_cache
  <2>2. pending # << >>
    BY <2>1 DEF committedListener
  <2>3. Sound(workload, storage, Head(pending))
    BY <1>1, <2>2, NextIsSound
  <2> QED
    BY <1>1, <2>3 DEF Sound
<1>2. Inv /\ [Next]_vars =>
        [storage' # storage /\ Head(pending).Request = "create"
           => Head(pending).Path \notin DOMAIN storage]_vars
  BY <1>1
<1> QED
  BY <1>2, InvHolds, PTL DEF Spec, NoOverwrite

\* What a sound write does to the data and the versions of what is there.
LEMMA WriteVersions ==
  ASSUME NEW w \in Workloads, LeavesOnly(w), NEW u, Tree(w, u), NEW req, Sound(w, u, req),
         NEW g, g = Write(u, req).st, NEW p \in DOMAIN u \cap DOMAIN g, g[p].Data # u[p].Data
  PROVE  g[p].Version = u[p].Version + 1
<1>1. /\ req.Path \in Paths /\ req.Path # Root /\ req.Data \in Strings /\ req.Ephemeral \in Strings
      /\ req.Version \in Int /\ req.Request \in {"create", "setdata", "delete"}
      /\ Typed(u)
  BY DEF Sound, Reqs, Tree
<1>2. CASE req.Request = "create"
  <2>1. req.Path \notin DOMAIN u
    BY <1>2 DEF Sound
  <2>2. g = Grown(u, req.Path, req.Data, req.Ephemeral)
    <3>1. Write(u, req) = Written(Grown(u, req.Path, req.Data, req.Ephemeral))
      BY ZenonT(60), <1>2, WriteMeans
    <3> QED
      BY <3>1 DEF Written
  <2>3. Grew(u, req.Path, req.Data, req.Ephemeral, g)
    BY <1>1, <2>1, <2>2, GrownFacts
  <2> QED
    BY <2>3 DEF Grew
<1>3. CASE req.Request = "setdata"
  <2>1. req.Path \in DOMAIN u /\ req.Version = u[req.Path].Version + 1
    BY <1>3 DEF Sound
  <2>2. g = Put(u, req.Path, ZNode(req.Data, req.Version, None, << >>))
    <3>1. Write(u, req) = Written(Put(u, req.Path, ZNode(req.Data, req.Version, None, << >>)))
      BY ZenonT(60), <1>3, WriteMeans
    <3> QED
      BY <3>1 DEF Written
  <2>3. /\ g[req.Path] = ZNode(req.Data, req.Version, None, << >>)
        /\ \A x \in DOMAIN u : x # req.Path => g[x] = u[x]
    BY <2>2 DEF Put
  <2> QED
    BY <2>1, <2>3 DEF ZNode
<1>4. CASE req.Request = "delete"
  <2> DEFINE d == dropChild(u, req.Path)
  <2>1. g = Without(d, {req.Path})
    <3>1. Write(u, req) = Written(Without(d, {req.Path}))
      BY ZenonT(60), <1>4, WriteMeans
    <3> QED
      BY <3>1 DEF Written
  <2>2. DOMAIN d = DOMAIN u /\ \A x \in DOMAIN u : d[x].Data = u[x].Data
    BY <1>1, DropFacts
  <2> HIDE DEF d
  <2>3. g[p] = d[p]
    BY <2>1 DEF Without
  <2> QED
    BY <2>2, <2>3
<1> QED
  BY <1>1, <1>2, <1>3, <1>4

\* Each write of a znode's data is the next version of it: a request that was
\* checked against the cache finds, in the storage, the version that it was
\* made from.
THEOREM UpdatesAreInOrder ==
  Spec /\ LeavesOnly(workload) => NoLostUpdate
<1>1. ASSUME Inv, [Next]_vars, NEW p \in DOMAIN storage \cap DOMAIN storage',
             storage'[p].Data # storage[p].Data
      PROVE  storage'[p].Version = storage[p].Version + 1
  <2>1. committedListener
    BY <1>1 DEF Next, vars, processRequest, Init_znode_cache
  <2>2. pending # << >> /\ storage' = Write(storage, Head(pending)).st
    BY <2>1 DEF committedListener
  <2>3. /\ Sound(workload, storage, Head(pending)) /\ workload \in Workloads
        /\ LeavesOnly(workload) /\ Tree(workload, storage)
    BY <1>1, <2>2, NextIsSound DEF Inv
  <2> QED
    BY <1>1, <2>2, <2>3, WriteVersions
<1>2. Inv /\ [Next]_vars =>
        [\A p \in DOMAIN storage \cap DOMAIN storage' :
           storage'[p].Data # storage[p].Data
             => storage'[p].Version = storage[p].Version + 1]_vars
  BY <1>1
<1> QED
  BY <1>2, InvHolds, PTL DEF Spec, NoLostUpdate

-----------------------------------------------------------------------------
(* The cache and the storage *)

\* A sound write is its storage, without an error.
LEMMA WriteWritten ==
  ASSUME NEW w \in Workloads, LeavesOnly(w), NEW u, Tree(w, u), NEW req, Sound(w, u, req)
  PROVE  Write(u, req) = Written(Write(u, req).st)
<1>1. req.Request \in {"create", "setdata", "delete"}
  BY DEF Sound
<1>2. CASE req.Request = "create"
  <2>1. Write(u, req) = Written(Grown(u, req.Path, req.Data, req.Ephemeral))
    BY ZenonT(60), <1>2, WriteMeans
  <2> QED
    BY <2>1 DEF Written
<1>3. CASE req.Request = "setdata"
  <2>1. Write(u, req) = Written(Put(u, req.Path, ZNode(req.Data, req.Version, None, << >>)))
    BY ZenonT(60), <1>3, WriteMeans
  <2> QED
    BY <2>1 DEF Written
<1>4. CASE req.Request = "delete"
  <2>1. Write(u, req) = Written(Without(dropChild(u, req.Path), {req.Path}))
    BY <1>4, WriteMeans
  <2> QED
    BY <2>1 DEF Written
<1> QED
  BY <1>1, <1>2, <1>3, <1>4

\* ahead, which is defined by recursion, is the stages of the requests that are
\* under way.
LEMMA AheadIsStages ==
  ASSUME Inv, NEW V, Stages(workload, storage, pending, V)
  PROVE  \A i \in 0..Len(pending) : ahead[i] = Written(V[i])
<1> DEFINE n == Len(pending)
           step(f, i) == IF i = 0 THEN Written(storage)
                         ELSE IF f[i - 1].err THEN f[i - 1]
                         ELSE Write(f[i - 1].st, pending[i])
           g == [i \in 0..n |-> Written(V[i])]
<1>1. /\ n \in Nat /\ V[0] = storage
      /\ \A i \in 1..n : Write(V[i - 1], pending[i]) = Written(V[i])
  <2>1. pending \in Seq(Reqs) /\ workload \in Workloads /\ LeavesOnly(workload)
    BY DEF Inv
  <2>2. ASSUME NEW i \in 1..n PROVE Write(V[i - 1], pending[i]) = Written(V[i])
    <3>1. i - 1 \in 0..n
      BY <2>1, LenProperties
    <3>2. /\ Tree(workload, V[i - 1]) /\ Sound(workload, V[i - 1], pending[i])
          /\ V[i] = Write(V[i - 1], pending[i]).st
      BY <3>1 DEF Stages
    <3> QED
      BY <2>1, <3>2, WriteWritten
  <2> QED
    BY <2>1, <2>2, LenProperties DEF Stages
<1>2. \A t : Written(t).err = FALSE /\ Written(t).st = t
  BY DEF Written
<1> HIDE DEF n
<1>3. g = [i \in 0..n |-> step(g, i)]
  <2>1. ASSUME NEW i \in 0..n PROVE g[i] = step(g, i)
    <3>1. CASE i = 0
      BY <1>1, <3>1
    <3>2. CASE i # 0
      <4>1. i \in 1..n /\ i - 1 \in 0..n
        BY <1>1, <3>2
      <4>2. g[i] = Written(V[i]) /\ g[i - 1] = Written(V[i - 1])
        BY <4>1
      <4> HIDE DEF g
      <4> QED
        BY <1>1, <1>2, <3>2, <4>1, <4>2
    <3> QED
      BY <3>1, <3>2
  <2> QED
    BY <2>1
<1>4. ahead = CHOOSE f : f = [i \in 0..n |-> step(f, i)]
  BY SMTT(60) DEF ahead, n
<1> HIDE DEF g
<1>5. ahead = [i \in 0..n |-> step(ahead, i)]
  BY ZenonT(60), <1>3, <1>4
<1> DEFINE wrong == {i \in 0..n : ahead[i] # Written(V[i])}
<1>6. wrong = {}
  <2> SUFFICES ASSUME wrong # {} PROVE FALSE
    OBVIOUS
  <2>1. wrong \in SUBSET Nat
    BY <1>1
  <2>2. PICK i \in wrong : \A j \in wrong : i <= j
    <3> HIDE DEF wrong
    <3> QED
      BY <2>1, MinimumExists
  <2>3. i \in 0..n /\ ahead[i] # Written(V[i])
    BY <2>2
  <2>4. ahead[i] = step(ahead, i)
    BY <1>5, <2>3
  <2>5. CASE i = 0
    BY <1>1, <2>3, <2>4, <2>5
  <2>6. CASE i # 0
    <3>1. i \in 1..n /\ i - 1 \in 0..n /\ ~(i <= i - 1)
      BY <1>1, <2>3, <2>6
    <3>2. i - 1 \notin wrong
      <4> HIDE DEF wrong
      <4> QED
        BY <2>2, <3>1
    <3>3. ahead[i - 1] = Written(V[i - 1])
      BY <3>1, <3>2
    <3> QED
      BY <1>1, <1>2, <2>3, <2>4, <2>6, <3>1, <3>3
  <2> QED
    BY <2>5, <2>6
<1> QED
  BY <1>6 DEF n

\* The cache shows what the storage will be when all that was accepted is
\* written, the lists of children included.
THEOREM CachePredicts ==
  Spec /\ LeavesOnly(workload) => []CacheIsAhead
<1>1. ASSUME Inv PROVE CacheIsAhead
  <2>1. PICK V : /\ Stages(workload, storage, pending, V)
                 /\ IF cache = << >> THEN pending = << >> ELSE cache = V[Len(pending)]
    BY <1>1 DEF Inv, Ahead
  <2>2. Len(pending) \in 0..Len(pending)
    BY <1>1, LenProperties DEF Inv
  <2>3. Predicted = Written(V[Len(pending)])
    BY <1>1, <2>1, <2>2, AheadIsStages DEF Predicted
  <2>4. ~Predicted.err /\ Predicted.st = V[Len(pending)]
    BY <2>3 DEF Written
  <2>5. CASE cache = << >>
    <3>1. DOMAIN cache = {}
      BY <2>5
    <3> QED
      BY <2>5, <3>1 DEF CacheIsAhead, PredictsZnodes, PredictsChildren
  <2>6. CASE cache # << >>
    <3>1. Predicted.st = cache /\ ~Predicted.err
      BY <2>1, <2>4, <2>6
    <3> QED
      BY <3>1 DEF CacheIsAhead, PredictsZnodes, PredictsChildren
  <2> QED
    BY <2>5, <2>6
<1> QED
  BY <1>1, InvHolds, PTL

-----------------------------------------------------------------------------
(* Sessions that end *)

\* The znode of a session, or one that is above such a znode.
OverSession(p) == \E e \in Strings : IsPrefix(p, SessionPath(e))

\* The request creates or ends a session, with the znode of the session itself,
\* or is about a znode that no session is below.
Apart(r) ==
  /\ r.Request # "create" => r.Ephemeral = None
  /\ \/ r.Request = "sync"
     \/ r.Request = "delete_session" /\ \E e \in Strings : r.Path = SessionPath(e)
     \/ r.Request = "create" /\ r.Ephemeral = None /\ \E e \in Strings : r.Path = SessionPath(e)
     \/ r.Request \in {"create", "setdata", "delete"} /\ ~OverSession(r.Path)

\* Sessions start and end, any number of times and with any number of requests
\* under way, next to requests of any kind for other znodes, the ephemeral ones
\* included.  The cache is not reloaded while requests are under way.
SessionsApart(w) ==
  /\ w.ReinitIdle
  /\ \A r \in w.Requests :
       IF r.Request = "create" /\ r.Sequential THEN r.Path # Root ELSE Apart(r)

\* The session of an ephemeral znode is there, and has it in its list.
Owned(u) ==
  \A p \in DOMAIN u : u[p].Ephemeral # None =>
    /\ SessionPath(u[p].Ephemeral) \in DOMAIN u
    /\ p \in Range(u[SessionPath(u[p].Ephemeral)].EphemeralNodes)

\* The lists of children lead to every session.
Listed(u) ==
  \A e \in Strings : SessionPath(e) \in DOMAIN u =>
    sessionDir \in DOMAIN u /\ Base(SessionPath(e)) \in Range(u[sessionDir].Children)

\* The lists of ephemeral znodes lead to no session.
NoneOver(u) == \A x \in DOMAIN u : \A p \in Range(u[x].EphemeralNodes) : ~OverSession(p)

Kept(u) == Typed(u) /\ Owned(u) /\ Listed(u) /\ NoneOver(u)

\* The names of a session's path.
LEMMA SessionNames ==
  ASSUME NEW f \in Strings
  PROVE  Len(SessionPath(f)) = 2 /\ SessionPath(f)[1] = sessionDir[1]
<1> DEFINE s == SessionPath(f)
<1>1. s \in Paths /\ s # Root /\ Dir(s) = sessionDir /\ Len(sessionDir) = 1
  BY SessionFacts, InitialFacts
<1> HIDE DEF s
<1>2. /\ Len(s) \in Nat /\ Len(s) >= 1 /\ Len(Dir(s)) = Len(s) - 1
      /\ \A n \in 1..(Len(s) - 1) : Dir(s)[n] = s[n]
  BY <1>1, PathFacts
<1>3. Len(s) = 2
  <2> DEFINE k == Len(s)
  <2>1. k \in Nat /\ k - 1 = 1
    BY <1>1, <1>2
  <2> HIDE DEF k
  <2>2. k = 2
    BY ONLY <2>1
  <2> QED
    BY <2>2 DEF k
<1>4. s[1] = sessionDir[1]
  BY <1>1, <1>2, <1>3
<1> QED
  BY <1>3, <1>4 DEF s

\* Which paths are above those of sessions.
LEMMA OverFacts ==
  ASSUME NEW e \in Strings
  PROVE  /\ OverSession(SessionPath(e)) /\ OverSession(sessionDir) /\ OverSession(Root)
         /\ ~IsPrefix(SessionPath(e), sessionDir)
         /\ \A f \in Strings : IsPrefix(SessionPath(e), SessionPath(f))
                                 => SessionPath(e) = SessionPath(f)
<1>1. \A f \in Strings : /\ SessionPath(f) \in Paths /\ SessionPath(f) # Root
                         /\ Dir(SessionPath(f)) = sessionDir
  BY SessionFacts
<1>2. /\ Root \in Paths /\ sessionDir \in Paths /\ sessionDir # Root /\ Len(Root) = 0
      /\ Len(sessionDir) = 1
  BY InitialFacts
<1>3. \A f \in Strings : Len(SessionPath(f)) = 2 /\ SessionPath(f)[1] = sessionDir[1]
  BY SessionNames
<1>4. IsPrefix(SessionPath(e), SessionPath(e))
  BY <1>1, <1>3, PrefixMeans
<1>5. IsPrefix(sessionDir, SessionPath(e))
  BY <1>1, <1>2, <1>3, PrefixMeans
<1>6. IsPrefix(Root, SessionPath(e))
  BY <1>1, <1>2, <1>3, PrefixMeans
<1>7. ~IsPrefix(SessionPath(e), sessionDir)
  BY <1>1, <1>2, <1>3, PrefixMeans
<1>8. ASSUME NEW f \in Strings, IsPrefix(SessionPath(e), SessionPath(f))
      PROVE  SessionPath(e) = SessionPath(f)
  <2>1. SessionPath(e) # SessionPath(f) => Len(SessionPath(e)) < Len(SessionPath(f))
    BY <1>1, <1>8, PrefixFacts
  <2> QED
    BY <1>3, <2>1
<1> QED
  BY <1>4, <1>5, <1>6, <1>7, <1>8 DEF OverSession

\* A path that is over none is over no session's own parts.
LEMMA NotOver ==
  ASSUME NEW q \in Paths, ~OverSession(q)
  PROVE  /\ q # Root /\ q # sessionDir /\ IsPrefix(q, q)
         /\ ~IsPrefix(q, sessionDir)
         /\ \A e \in Strings : q # SessionPath(e) /\ ~IsPrefix(q, SessionPath(e))
<1>1. None \in Strings
  BY DEF Strings
<1>2. q # Root /\ q # sessionDir /\ \A e \in Strings : q # SessionPath(e)
  BY <1>1, OverFacts
<1>3. \A e \in Strings : ~IsPrefix(q, SessionPath(e))
  BY DEF OverSession
<1>4. IsPrefix(q, q)
  BY LenProperties, PrefixMeans DEF Paths
<1>5. ~IsPrefix(q, sessionDir)
  <2> SUFFICES ASSUME IsPrefix(q, sessionDir) PROVE FALSE
    OBVIOUS
  <2> DEFINE s == SessionPath(None)
  <2>1. s \in Paths /\ s # Root /\ Dir(s) = sessionDir /\ sessionDir \in Paths
    BY <1>1, SessionFacts, InitialFacts
  <2> HIDE DEF s
  <2>2. /\ Len(s) \in Nat /\ Len(sessionDir) = Len(s) - 1
        /\ \A n \in 1..(Len(s) - 1) : sessionDir[n] = s[n]
    BY <2>1, PathFacts
  <2>3. Len(q) <= Len(sessionDir) /\ \A i \in 1..Len(q) : q[i] = sessionDir[i]
    BY <2>1, PrefixMeans
  <2>4. Len(q) \in Nat
    BY LenProperties DEF Paths
  <2>5. Len(q) <= Len(s) /\ \A i \in 1..Len(q) : q[i] = s[i]
    BY <2>2, <2>3, <2>4
  <2>6. IsPrefix(q, s)
    BY <2>1, <2>5, PrefixMeans
  <2> QED
    BY <1>1, <1>3, <2>6 DEF s
<1> QED
  BY <1>2, <1>3, <1>4, <1>5

\* The name of a sequential create is that of no session.
LEMMA NumberedIsNotOver ==
  ASSUME NEW q \in Paths, q # Root, Base(q)[2] # 0
  PROVE  ~OverSession(q)
<1> SUFFICES ASSUME NEW e \in Strings, IsPrefix(q, SessionPath(e)) PROVE FALSE
  BY DEF OverSession
<1> DEFINE s == SessionPath(e)
<1>1. s \in Paths /\ s # Root /\ Dir(s) = sessionDir
  BY SessionFacts
<1>2. Base(s) = <<e, 0>>
  <2>1. <<e, 0>> \in Names /\ sessionDir \in Paths
    BY InitialFacts DEF Names
  <2> QED
    BY <2>1, ChildFacts DEF SessionPath
<1>3. IsPrefix(q, s)
  OBVIOUS
<1> HIDE DEF s
<1>4. Len(s) = 2 /\ s[1] = sessionDir[1] /\ s[2] = Base(s)
  BY <1>1, SessionNames, PathFacts DEF s
<1>5. sessionDir[1] = <<"sessionDir", 0>>
  BY DEF sessionDir
<1>6. /\ Len(q) \in Nat /\ Len(q) >= 1 /\ Base(q) = q[Len(q)]
      /\ Len(q) <= Len(s) /\ \A i \in 1..Len(q) : q[i] = s[i]
  BY <1>1, <1>3, PathFacts, PrefixMeans
<1>7. CASE Len(q) = 1
  <2>1. 1 \in 1..Len(q)
    BY <1>7
  <2>2. Base(q) = sessionDir[1]
    BY <1>4, <1>6, <1>7, <2>1, Zenon
  <2> QED
    BY <1>5, <2>2
<1>8. CASE Len(q) = 2
  <2>1. 2 \in 1..Len(q)
    BY <1>8
  <2>2. Base(q) = Base(s)
    BY <1>4, <1>6, <1>8, <2>1, Zenon
  <2> QED
    BY <1>2, <2>2
<1> QED
  <2> DEFINE k == Len(q)
  <2>1. k \in Nat /\ k >= 1 /\ k <= 2
    BY <1>4, <1>6
  <2> HIDE DEF k
  <2>2. k = 1 \/ k = 2
    BY <2>1
  <2> QED
    BY <1>7, <1>8, <2>2 DEF k

\* g is u with fewer znodes and shorter lists of children, but with all its
\* sessions.
Less(u, g) ==
  /\ Typed(g) /\ DOMAIN g \subseteq DOMAIN u
  /\ \A x \in DOMAIN g :
       g[x].Ephemeral = u[x].Ephemeral /\ g[x].EphemeralNodes = u[x].EphemeralNodes
  /\ \A e \in Strings : SessionPath(e) \in DOMAIN u => SessionPath(e) \in DOMAIN g
  /\ sessionDir \in DOMAIN u =>
       /\ sessionDir \in DOMAIN g
       /\ \A e \in Strings : Base(SessionPath(e)) \in Range(u[sessionDir].Children)
                               => Base(SessionPath(e)) \in Range(g[sessionDir].Children)

LEMMA LessTwice ==
  ASSUME NEW u, NEW v, NEW g, Less(u, v), Less(v, g)
  PROVE  Less(u, g)
BY DEF Less

LEMMA LessKept ==
  ASSUME NEW u, NEW g, Kept(u), Less(u, g)
  PROVE  Kept(g)
<1>1. \A p \in DOMAIN g : g[p].Ephemeral \in Strings
  BY DEF Less, Typed, Nodes
<1>2. Owned(g)
  BY <1>1 DEF Kept, Less, Owned
<1>3. Listed(g)
  BY DEF Kept, Less, Listed
<1>4. NoneOver(g)
  BY DEF Kept, Less, NoneOver
<1> QED
  BY <1>2, <1>3, <1>4 DEF Kept, Less

\* A znode that is over no session goes, alone or with what is below it.
LEMMA TakenLess ==
  ASSUME NEW u, Typed(u), NEW q \in Paths, ~OverSession(q),
         NEW S, \A x \in S : IsPrefix(q, x),
         NEW g, g = Without(dropChild(u, q), S)
  PROVE  Less(u, g) /\ DOMAIN g = DOMAIN u \ S
<1> DEFINE d == dropChild(u, q)
<1>1. /\ DOMAIN d = DOMAIN u
      /\ \A x \in DOMAIN u :
           /\ d[x] \in Nodes
           /\ d[x].Ephemeral = u[x].Ephemeral /\ d[x].EphemeralNodes = u[x].EphemeralNodes
           /\ \A n \in Range(u[x].Children) :
                (x = Dir(q) /\ n = Base(q)) \/ n \in Range(d[x].Children)
  BY DropFacts
<1> HIDE DEF d
<1>2. DOMAIN g = DOMAIN u \ S /\ \A x \in DOMAIN g : g[x] = d[x]
  BY <1>1 DEF Without, d
<1>3. Typed(g)
  <2>1. g = [x \in DOMAIN g |-> g[x]]
    BY DEF Without
  <2> QED
    BY <1>1, <1>2, <2>1 DEF Typed
<1>4. /\ q # Root /\ ~IsPrefix(q, sessionDir)
      /\ \A e \in Strings : q # SessionPath(e) /\ ~IsPrefix(q, SessionPath(e))
  BY NotOver
<1>5. ASSUME NEW e \in Strings PROVE ~(sessionDir = Dir(q) /\ Base(SessionPath(e)) = Base(q))
  BY <1>4, PathEqual, SessionFacts
<1> QED
  BY <1>1, <1>2, <1>3, <1>4, <1>5 DEF Less

\* The ephemeral znodes of a session that go, all of them or up to an error,
\* leave less; without an error none of them is left.
LEMMA EachFacts ==
  ASSUME NEW u, Typed(u), NEW nodes \in Seq(Paths),
         \A i \in 1..Len(nodes) : ~OverSession(nodes[i]),
         NEW onDisk \in BOOLEAN, NEW r, r = eachNode(u, nodes, onDisk)
  PROVE  /\ Less(u, r.st)
         /\ r.err \in BOOLEAN
         /\ ~r.err => \A i \in 1..Len(nodes) : nodes[i] \notin DOMAIN r.st
<1> DEFINE n == Len(nodes)
           one(v, path) == IF ~onDisk THEN forget(v, path)
                           ELSE IF path \notin DOMAIN v THEN Failed(v)
                           ELSE delete_op(v, path)
           step(f, k) == IF k = 0 THEN Written(u)
                         ELSE IF f[k - 1].err THEN f[k - 1]
                         ELSE one(f[k - 1].st, nodes[k])
           defined(m, f) == f = [k \in 0..m |-> step(f, k)]
<1>1. n \in Nat
  BY LenProperties
<1>2. \A v : Written(v).err = FALSE /\ Written(v).st = v /\ Failed(v).err = TRUE /\ Failed(v).st = v
  BY DEF Written, Failed
\* The function that eachNode defines by recursion exists.
<1>3. \E f : defined(n, f)
  <2> DEFINE none == {m \in 0..n : ~\E f : defined(m, f)}
  <2>1. none = {}
    <3> SUFFICES ASSUME none # {} PROVE FALSE
      OBVIOUS
    <3>1. none \in SUBSET Nat
      BY <1>1
    <3>2. PICK m \in none : \A k \in none : m <= k
      <4> HIDE DEF none
      <4> QED
        BY <3>1, MinimumExists
    <3>3. m \in 0..n /\ ~\E f : defined(m, f)
      BY <3>2
    <3>4. CASE m = 0
      <4> DEFINE f == [k \in 0..0 |-> Written(u)]
      <4>1. f = [k \in 0..0 |-> step(f, k)]
        <5> HIDE DEF one
        <5> QED
          BY <1>2
      <4> QED
        BY <3>3, <3>4, <4>1
    <3>5. CASE m # 0
      <4>1. m - 1 \in 0..n /\ ~(m <= m - 1) /\ m \in Nat
        BY <1>1, <3>3, <3>5
      <4>2. m - 1 \notin none
        <5> HIDE DEF none
        <5> QED
          BY <3>2, <4>1
      <4> HIDE DEF one
      <4>3. PICK f : f = [k \in 0..(m - 1) |-> step(f, k)]
        BY <4>1, <4>2
      <4> DEFINE g == [k \in 0..m |-> IF k = m THEN step(f, m) ELSE f[k]]
      <4>4. \A k \in 0..m : g[k] = step(g, k)
        <5> SUFFICES ASSUME NEW k \in 0..m PROVE g[k] = step(g, k)
          OBVIOUS
        <5>1. k # 0 => k - 1 \in 0..m /\ k - 1 # m /\ g[k - 1] = f[k - 1]
          BY <4>1
        <5>2. step(g, k) = step(f, k)
          <6> HIDE DEF g
          <6> QED
            BY <5>1
        <5>3. CASE k = m
          BY <5>2, <5>3
        <5>4. CASE k # m
          <6>1. k \in 0..(m - 1)
            BY <4>1, <5>4
          <6>2. f[k] = step(f, k)
            BY <4>3, <6>1
          <6> QED
            BY <5>2, <5>4, <6>2
        <5> QED
          BY <5>3, <5>4
      <4>5. g = [k \in 0..m |-> step(g, k)]
        BY <4>4
      <4> HIDE DEF g
      <4> QED
        BY <3>3, <4>5
    <3> QED
      BY <3>4, <3>5
  <2>2. n \in 0..n
    BY <1>1
  <2> QED
    BY <2>1, <2>2
<1> DEFINE after == CHOOSE f : f = [k \in 0..n |-> step(f, k)]
<1>4. r = after[n]
  BY SMTT(60) DEF eachNode
<1>5. after = [k \in 0..n |-> step(after, k)]
  <2> HIDE DEF step
  <2> QED
    BY <1>3
<1> HIDE DEF after
<1>6. \A k \in 0..n : after[k] = step(after, k)
  <2> HIDE DEF step
  <2> QED
    BY <1>5
\* Each step leaves less.
<1> DEFINE good(k) ==
      /\ Less(u, after[k].st)
      /\ after[k].err \in BOOLEAN
      /\ ~after[k].err => \A i \in 1..k : nodes[i] \notin DOMAIN after[k].st
<1>7. ASSUME NEW v, Typed(v), NEW q \in Paths, ~OverSession(q), NEW o, o = one(v, q)
      PROVE  /\ Less(v, o.st)
             /\ o.err \in BOOLEAN
             /\ ~o.err => q \notin DOMAIN o.st
  <2>1. Less(v, v)
    BY <1>7 DEF Less
  <2>2. IsPrefix(q, q)
    BY <1>7, NotOver
  <2>3. /\ Less(v, Without(dropChild(v, q), {q}))
        /\ DOMAIN Without(dropChild(v, q), {q}) = DOMAIN v \ {q}
    <3> DEFINE T == {q}
    <3>1. \A x \in T : IsPrefix(q, x)
      BY <2>2
    <3> HIDE DEF T
    <3>2. \A g : g = Without(dropChild(v, q), T) => Less(v, g) /\ DOMAIN g = DOMAIN v \ T
      BY <1>7, <3>1, TakenLess
    <3> QED
      BY <3>2 DEF T
  <2> DEFINE S == {p \in DOMAIN v : IsPrefix(q, p)}
  <2>4. /\ Less(v, Without(dropChild(v, q), S))
        /\ DOMAIN Without(dropChild(v, q), S) = DOMAIN v \ S
    <3>1. \A x \in S : IsPrefix(q, x)
      OBVIOUS
    <3> HIDE DEF S
    <3>2. \A g : g = Without(dropChild(v, q), S) => Less(v, g) /\ DOMAIN g = DOMAIN v \ S
      BY <1>7, <3>1, TakenLess
    <3> QED
      BY <3>2
  <2>5. o \in {Failed(v), Written(Without(dropChild(v, q), {q})), Written(Without(dropChild(v, q), S))}
    BY <1>7 DEF forget, delete_op
  <2>6. q \notin DOMAIN v \ S
    BY <2>2
  <2> HIDE DEF S
  <2> QED
    BY <1>2, <2>1, <2>3, <2>4, <2>5, <2>6
<1> HIDE DEF one
<1>8. good(0)
  <2>1. after[0] = Written(u)
    BY <1>1, <1>6
  <2>2. Less(u, u)
    BY DEF Less
  <2>3. after[0].err = FALSE /\ after[0].st = u
    BY <1>2, <2>1
  <2>4. \A i \in 1..0 : FALSE
    OBVIOUS
  <2> QED
    BY <2>2, <2>3, <2>4
<1>9. ASSUME NEW k \in 1..n, good(k - 1) PROVE good(k)
  <2>1. k \in 0..n /\ k # 0 /\ k - 1 \in 0..n
    BY <1>1
  <2>2. after[k] = step(after, k)
    BY <1>6, <2>1
  <2>3. CASE after[k - 1].err
    BY <1>9, <2>1, <2>2, <2>3
  <2>4. CASE ~after[k - 1].err
    <3> DEFINE v == after[k - 1].st
               o == after[k]
    <3>1. /\ Less(u, v) /\ Typed(v) /\ o = one(v, nodes[k])
          /\ \A i \in 1..(k - 1) : nodes[i] \notin DOMAIN v
      BY <1>9, <2>1, <2>2, <2>4 DEF Less
    <3>2. nodes[k] \in Paths /\ ~OverSession(nodes[k])
      BY ElementOfSeq
    <3> HIDE DEF v, o
    <3>3. /\ Less(v, o.st)
          /\ o.err \in BOOLEAN
          /\ ~o.err => nodes[k] \notin DOMAIN o.st
      BY <1>7, <3>1, <3>2
    <3>4. Less(u, o.st)
      BY <3>1, <3>3, LessTwice
    <3>5. ASSUME ~o.err, NEW i \in 1..k PROVE nodes[i] \notin DOMAIN o.st
      <4>1. i = k \/ i \in 1..(k - 1)
        BY <1>1
      <4>2. DOMAIN o.st \subseteq DOMAIN v
        BY <3>3 DEF Less
      <4> QED
        BY <3>1, <3>3, <3>5, <4>1, <4>2
    <3> QED
      BY <3>3, <3>4, <3>5 DEF o
  <2> QED
    BY <2>3, <2>4
<1> HIDE DEF good
<1>10. good(n)
  <2> DEFINE wrong == {k \in 0..n : ~good(k)}
  <2>1. wrong = {}
    <3> SUFFICES ASSUME wrong # {} PROVE FALSE
      OBVIOUS
    <3>1. wrong \in SUBSET Nat
      BY <1>1
    <3>2. PICK k \in wrong : \A j \in wrong : k <= j
      <4> HIDE DEF wrong
      <4> QED
        BY <3>1, MinimumExists
    <3>3. k \in 0..n /\ ~good(k)
      BY <3>2
    <3>4. k # 0
      BY <1>8, <3>3
    <3>5. k \in 1..n /\ k - 1 \in 0..n /\ ~(k <= k - 1)
      BY <1>1, <3>3, <3>4
    <3>6. k - 1 \notin wrong
      <4> HIDE DEF wrong
      <4> QED
        BY <3>2, <3>5
    <3>7. good(k - 1)
      BY <3>5, <3>6
    <3> QED
      BY <1>9, <3>3, <3>5, <3>7
  <2>2. n \in 0..n
    BY <1>1
  <2> QED
    BY <2>1, <2>2
<1> QED
  BY <1>4, <1>10 DEF good

\* g is u with longer lists, the new entries of which are over no session.
More(u, g) ==
  /\ Typed(g) /\ DOMAIN g = DOMAIN u
  /\ \A x \in DOMAIN u :
       /\ g[x].Ephemeral = u[x].Ephemeral
       /\ Range(u[x].Children) \subseteq Range(g[x].Children)
       /\ Range(u[x].EphemeralNodes) \subseteq Range(g[x].EphemeralNodes)
       /\ \A p \in Range(g[x].EphemeralNodes) :
            p \in Range(u[x].EphemeralNodes) \/ ~OverSession(p)

LEMMA MoreKept ==
  ASSUME NEW u, NEW g, Kept(u), More(u, g)
  PROVE  Kept(g)
<1>1. \A p \in DOMAIN g : g[p].Ephemeral \in Strings
  BY DEF More, Typed, Nodes
<1>2. Owned(g)
  BY <1>1 DEF Kept, More, Owned
<1>3. Listed(g)
  BY DEF Kept, More, Listed
<1>4. NoneOver(g)
  BY DEF Kept, More, NoneOver
<1> QED
  BY <1>2, <1>3, <1>4 DEF Kept, More

\* The only new item of a list is the one that is appended.
LEMMA RangeOfAppend ==
  ASSUME NEW S, NEW s \in Seq(S), NEW x \in S
  PROVE  \A y \in Range(Append(s, x)) : y \in Range(s) \/ y = x
<1>1. /\ Append(s, x) \in Seq(S) /\ Len(s) \in Nat /\ Len(Append(s, x)) = Len(s) + 1
      /\ \A i \in 1..Len(s) : Append(s, x)[i] = s[i]
      /\ Append(s, x)[Len(s) + 1] = x
  BY AppendFacts
<1> DEFINE a == Append(s, x)
<1> HIDE DEF a
<1>2. DOMAIN s = 1..Len(s) /\ DOMAIN a = 1..(Len(s) + 1)
  BY <1>1, LenProperties DEF a
<1>3. ASSUME NEW i \in DOMAIN a PROVE a[i] \in Range(s) \/ a[i] = x
  <2>1. i \in 1..Len(s) \/ i = Len(s) + 1
    BY <1>1, <1>2
  <2>2. CASE i \in 1..Len(s)
    BY <1>1, <1>2, <2>2 DEF a, Range
  <2>3. CASE i = Len(s) + 1
    BY <1>1, <2>3 DEF a
  <2> QED
    BY <2>1, <2>2, <2>3
<1> QED
  BY <1>3 DEF a, Range

\* A child more in the list of a directory.
LEMMA ChildAdded ==
  ASSUME NEW u, Typed(u), NEW p \in Paths, p # Root, Dir(p) \in DOMAIN u,
         NEW g, g = addChild(u, p)
  PROVE  More(u, g) /\ Base(p) \in Range(g[Dir(p)].Children)
<1> DEFINE d == Dir(p)
           c == Append(u[d].Children, Base(p))
<1>1. u[d] \in Nodes /\ Base(p) \in Names
  BY PathFacts DEF Typed
<1>2. u[d].Children \in Seq(Names)
  BY <1>1 DEF Nodes
<1>3. c \in Seq(Names) /\ Range(u[d].Children) \subseteq Range(c) /\ Base(p) \in Range(c)
  BY <1>1, <1>2, AppendFacts, RangeAppend
<1>4. g = [x \in DOMAIN u |-> IF x = d THEN [u[x] EXCEPT !.Children = c] ELSE u[x]]
  BY DEF addChild, Typed
<1> HIDE DEF c, d
<1>5. /\ g[d] \in Nodes /\ g[d].Children = c /\ g[d].Ephemeral = u[d].Ephemeral
      /\ g[d].EphemeralNodes = u[d].EphemeralNodes
  <2>1. g[d] = [u[d] EXCEPT !.Children = c]
    BY <1>4 DEF d
  <2> QED
    BY ONLY <1>1, <1>3, <2>1 DEF Nodes
<1>6. \A x \in DOMAIN u : x # d => g[x] = u[x]
  BY <1>4
<1>7. Typed(g) /\ DOMAIN g = DOMAIN u
  <2>1. \A x \in DOMAIN u : g[x] \in Nodes
    BY <1>5, <1>6 DEF Typed
  <2> QED
    BY <1>4, <2>1 DEF Typed
<1> QED
  BY <1>3, <1>5, <1>6, <1>7 DEF More, d

\* An ephemeral znode more in the list of its session.
LEMMA EphemeralAdded ==
  ASSUME NEW u, Typed(u), NEW p \in Paths, ~OverSession(p), NEW s \in DOMAIN u,
         NEW g, g = addEphemeral(u, s, p)
  PROVE  More(u, g) /\ p \in Range(g[s].EphemeralNodes)
<1> DEFINE c == Append(u[s].EphemeralNodes, p)
<1>1. u[s] \in Nodes
  BY DEF Typed
<1>2. u[s].EphemeralNodes \in Seq(Paths)
  BY <1>1 DEF Nodes
<1>3. /\ c \in Seq(Paths) /\ Range(u[s].EphemeralNodes) \subseteq Range(c) /\ p \in Range(c)
      /\ \A y \in Range(c) : y \in Range(u[s].EphemeralNodes) \/ y = p
  BY <1>2, AppendFacts, RangeAppend, RangeOfAppend
<1>4. g = [x \in DOMAIN u |->
             IF x = s THEN [u[x] EXCEPT !.EphemeralNodes = c, !.Version = @ + 1] ELSE u[x]]
  BY DEF addEphemeral, Typed
<1> HIDE DEF c
<1>5. /\ g[s] \in Nodes /\ g[s].Children = u[s].Children /\ g[s].Ephemeral = u[s].Ephemeral
      /\ g[s].EphemeralNodes = c
  <2>1. g[s] = [u[s] EXCEPT !.EphemeralNodes = c, !.Version = @ + 1]
    BY <1>4
  <2>2. u[s].Version + 1 \in Int
    BY <1>1 DEF Nodes
  <2>3. g[s] = [Data |-> u[s].Data, Version |-> u[s].Version + 1, Ephemeral |-> u[s].Ephemeral,
                Children |-> u[s].Children, EphemeralNodes |-> c]
    BY <1>1, <2>1 DEF Nodes
  <2> QED
    BY ONLY <1>1, <1>3, <2>2, <2>3 DEF Nodes
<1>6. \A x \in DOMAIN u : x # s => g[x] = u[x]
  BY <1>4
<1>7. Typed(g) /\ DOMAIN g = DOMAIN u
  <2>1. \A x \in DOMAIN u : g[x] \in Nodes
    BY <1>5, <1>6 DEF Typed
  <2> QED
    BY <1>4, <2>1 DEF Typed
<1> QED
  BY <1>3, <1>5, <1>6, <1>7 DEF More

\* A znode that owns nothing is put where no session is, or as a new session
\* that its directory lists.
LEMMA PutKept ==
  ASSUME NEW u, Kept(u), NEW p \in Paths, NEW node \in Nodes,
         node.EphemeralNodes = << >>,
         node.Ephemeral # None => /\ SessionPath(node.Ephemeral) \in DOMAIN u
                                  /\ p \in Range(u[SessionPath(node.Ephemeral)].EphemeralNodes),
         \/ ~OverSession(p)
         \/ /\ p \notin DOMAIN u /\ p # sessionDir /\ node.Ephemeral = None
            /\ sessionDir \in DOMAIN u /\ Base(p) \in Range(u[sessionDir].Children)
  PROVE  Kept(Put(u, p, node))
<1> DEFINE g == Put(u, p, node)
<1>1. /\ DOMAIN g = DOMAIN u \cup {p} /\ g = [x \in DOMAIN g |-> g[x]] /\ g[p] = node
      /\ \A x \in DOMAIN u : x # p => g[x] = u[x]
  BY DEF Put
<1> HIDE DEF g
<1>2. Typed(g)
  <2>1. \A x \in DOMAIN g : g[x] \in Nodes
    BY <1>1 DEF Kept, Typed
  <2> QED
    BY <1>1, <2>1 DEF Kept, Typed
<1>3. ASSUME NEW e \in Strings, SessionPath(e) \in DOMAIN u PROVE SessionPath(e) # p
  BY <1>3, NotOver
<1>4. ASSUME NEW x \in DOMAIN g, g[x].Ephemeral # None
      PROVE  /\ SessionPath(g[x].Ephemeral) \in DOMAIN g
             /\ x \in Range(g[SessionPath(g[x].Ephemeral)].EphemeralNodes)
  <2> DEFINE e == g[x].Ephemeral
  <2>1. e \in Strings
    BY <1>2 DEF Typed, Nodes
  <2>2. SessionPath(e) \in DOMAIN u /\ x \in Range(u[SessionPath(e)].EphemeralNodes)
    <3>1. CASE x = p
      BY <1>1, <1>4, <3>1
    <3>2. CASE x # p
      BY <1>1, <1>4, <3>2 DEF Kept, Owned
    <3> QED
      BY <3>1, <3>2
  <2> HIDE DEF e
  <2>3. SessionPath(e) \in DOMAIN g /\ g[SessionPath(e)] = u[SessionPath(e)]
    BY <1>1, <1>3, <2>1, <2>2
  <2> QED
    BY <2>2, <2>3 DEF e
<1>5. Owned(g)
  BY <1>4 DEF Owned
<1>6. Listed(g)
  <2> SUFFICES ASSUME NEW e \in Strings, SessionPath(e) \in DOMAIN g
               PROVE  /\ sessionDir \in DOMAIN g
                      /\ Base(SessionPath(e)) \in Range(g[sessionDir].Children)
    BY DEF Listed
  <2>1. p # sessionDir
    BY NotOver
  <2>2. CASE SessionPath(e) \in DOMAIN u
    BY <1>1, <2>1, <2>2 DEF Kept, Listed
  <2>3. CASE SessionPath(e) = p
    BY <1>1, <2>1, <2>3, NotOver
  <2> QED
    BY <1>1, <2>2, <2>3
<1>7. NoneOver(g)
  <2> SUFFICES ASSUME NEW x \in DOMAIN g, NEW y \in Range(g[x].EphemeralNodes)
               PROVE  ~OverSession(y)
    BY DEF NoneOver
  <2>1. CASE x = p
    BY <1>1, <2>1 DEF Range
  <2>2. CASE x # p
    BY <1>1, <2>2 DEF Kept, NoneOver
  <2> QED
    BY <2>1, <2>2
<1> QED
  BY <1>2, <1>5, <1>6, <1>7 DEF Kept, g

\* A session's znode goes when all that it owns is gone.
LEMMA SessionTaken ==
  ASSUME NEW v, Kept(v), NEW e \in Strings, SessionPath(e) \in DOMAIN v,
         \A p \in Range(v[SessionPath(e)].EphemeralNodes) : p \notin DOMAIN v,
         NEW o, o = delete_op(v, SessionPath(e))
  PROVE  Kept(o.st) /\ DOMAIN o.st \subseteq DOMAIN v /\ (~o.err => SessionPath(e) \notin DOMAIN o.st)
<1> DEFINE s == SessionPath(e)
           S == {p \in DOMAIN v : IsPrefix(s, p)}
           d == dropChild(v, s)
           g == Without(d, S)
<1>1. s \in Paths /\ s # Root /\ Dir(s) = sessionDir /\ Typed(v)
  BY SessionFacts DEF Kept
<1>2. sessionDir \in DOMAIN v
  BY DEF Kept, Listed
<1>3. o = Written(g)
  BY <1>1, <1>2 DEF delete_op
<1> HIDE DEF s
<1>4. /\ DOMAIN d = DOMAIN v
      /\ \A x \in DOMAIN v :
           /\ d[x] \in Nodes
           /\ d[x].Ephemeral = v[x].Ephemeral /\ d[x].EphemeralNodes = v[x].EphemeralNodes
           /\ \A n \in Range(v[x].Children) :
                (x = Dir(s) /\ n = Base(s)) \/ n \in Range(d[x].Children)
  <2>1. d = dropChild(v, s)
    OBVIOUS
  <2> HIDE DEF d
  <2> QED
    BY <1>1, <2>1, DropFacts
<1>5. /\ ~IsPrefix(s, sessionDir)
      /\ \A f \in Strings : IsPrefix(s, SessionPath(f)) => s = SessionPath(f)
  BY OverFacts DEF s
<1>6. s \in S
  BY <1>1, LenProperties, PrefixMeans DEF Paths, s
<1> HIDE DEF d
<1>7. DOMAIN g = DOMAIN v \ S /\ g = [x \in DOMAIN g |-> g[x]] /\ \A x \in DOMAIN g : g[x] = d[x]
  BY <1>4 DEF Without
<1> HIDE DEF g
<1>8. Typed(g)
  BY <1>1, <1>4, <1>7 DEF Typed
<1>9. ASSUME NEW x \in DOMAIN g, g[x].Ephemeral # None
      PROVE  /\ SessionPath(g[x].Ephemeral) \in DOMAIN g
             /\ x \in Range(g[SessionPath(g[x].Ephemeral)].EphemeralNodes)
  <2> DEFINE f == g[x].Ephemeral
             t == SessionPath(f)
  <2>1. f \in Strings /\ x \in DOMAIN v /\ f = v[x].Ephemeral /\ f # None
    BY <1>4, <1>7, <1>8, <1>9 DEF Typed, Nodes
  <2> HIDE DEF f
  <2>2. t \in DOMAIN v /\ x \in Range(v[t].EphemeralNodes)
    BY <2>1 DEF Kept, Owned
  <2>3. t # s
    BY <2>1, <2>2 DEF s
  <2>4. t \in DOMAIN g
    BY <1>5, <1>7, <2>1, <2>2, <2>3
  <2> QED
    BY <1>4, <1>7, <2>2, <2>4 DEF f
<1>10. Listed(g)
  <2> SUFFICES ASSUME NEW f \in Strings, SessionPath(f) \in DOMAIN g
               PROVE  /\ sessionDir \in DOMAIN g
                      /\ Base(SessionPath(f)) \in Range(g[sessionDir].Children)
    BY DEF Listed
  <2>1. SessionPath(f) \in DOMAIN v /\ SessionPath(f) # s
    BY <1>6, <1>7
  <2>2. Base(SessionPath(f)) \in Range(v[sessionDir].Children)
    BY <2>1 DEF Kept, Listed
  <2>3. Base(SessionPath(f)) # Base(s)
    BY <1>1, <2>1, PathEqual, SessionFacts
  <2> QED
    BY <1>2, <1>4, <1>5, <1>7, <2>2, <2>3
<1>11. NoneOver(g)
  BY <1>4, <1>7 DEF NoneOver, Kept
<1>12. Kept(g)
  BY <1>8, <1>9, <1>10, <1>11 DEF Kept, Owned
<1> QED
  BY <1>3, <1>6, <1>7, <1>12 DEF Written, s

\* The request creates, or ends, the session whose znode is s.
Starts(r, s) == r.Request = "create" /\ r.Path = s
Finishes(r, s) == r.Request = "delete_session" /\ r.Path = s

\* What a write does to the sessions, also when it is an error: a session that
\* is there after a write that is none was there, or is the one it starts.
LEMMA WriteKept ==
  ASSUME NEW u, Kept(u), NEW r \in Reqs, Apart(r),
         \A e \in Strings : Starts(r, SessionPath(e)) => SessionPath(e) \notin DOMAIN u,
         NEW o, o = Write(u, r)
  PROVE  /\ Kept(o.st)
         /\ ~o.err => \A e \in Strings : SessionPath(e) \in DOMAIN o.st =>
              \/ SessionPath(e) \in DOMAIN u /\ ~Finishes(r, SessionPath(e))
              \/ Starts(r, SessionPath(e))
<1> DEFINE p == r.Path
           new == ~o.err => \A e \in Strings : SessionPath(e) \in DOMAIN o.st =>
                    \/ SessionPath(e) \in DOMAIN u /\ ~Finishes(r, SessionPath(e))
                    \/ Starts(r, SessionPath(e))
<1>1. /\ p \in Paths /\ r.Data \in Strings /\ r.Version \in Int /\ r.Ephemeral \in Strings
      /\ Typed(u) /\ None \in Strings
  BY DEF Reqs, Kept, Strings
<1>2. \A v : /\ Written(v).err = FALSE /\ Written(v).st = v
             /\ Failed(v).err = TRUE /\ Failed(v).st = v
  BY DEF Written, Failed
<1>3. CASE r.Request = "sync"
  BY <1>2, <1>3 DEF Write
<1>4. CASE r.Request = "setdata"
  <2> DEFINE node == ZNode(r.Data, r.Version, r.Ephemeral, << >>)
             g == Put(u, p, node)
  <2>1. o = Written(g)
    BY <1>4 DEF Write
  <2>2. ~OverSession(p) /\ r.Ephemeral = None
    BY <1>4 DEF Apart
  <2>3. node \in Nodes /\ node.EphemeralNodes = << >> /\ node.Ephemeral = None
    BY <1>1, <2>2 DEF ZNode, Nodes
  <2>4. DOMAIN g = DOMAIN u \cup {p}
    BY DEF Put
  <2> HIDE DEF node
  <2>5. Kept(g)
    BY <1>1, <2>2, <2>3, PutKept
  <2>6. \A e \in Strings : SessionPath(e) # p
    BY <1>1, <2>2, NotOver
  <2> HIDE DEF g
  <2> QED
    BY <1>2, <1>4, <2>1, <2>4, <2>5, <2>6 DEF Finishes
<1>5. CASE r.Request = "delete"
  <2> DEFINE S == {q \in DOMAIN u : IsPrefix(p, q)}
             g == Without(dropChild(u, p), S)
  <2>1. o = delete_op(u, p) /\ ~OverSession(p)
    BY <1>5 DEF Write, Apart
  <2>2. o = Failed(u) \/ o = Written(g)
    BY <2>1 DEF delete_op
  <2>3. Less(u, g)
    <3>1. \A x \in S : IsPrefix(p, x)
      OBVIOUS
    <3> HIDE DEF S
    <3> QED
      BY <1>1, <2>1, <3>1, TakenLess
  <2> HIDE DEF g
  <2>4. Kept(g) /\ DOMAIN g \subseteq DOMAIN u
    BY <2>3, LessKept DEF Less
  <2> QED
    BY <1>2, <1>5, <2>2, <2>4 DEF Finishes
<1>6. CASE r.Request = "delete_session"
  <2>1. PICK e \in Strings : p = SessionPath(e)
    BY <1>6 DEF Apart
  <2>2. CASE p \notin DOMAIN u
    BY <1>2, <1>6, <2>2 DEF Write, write_delete_session
  <2>3. CASE p \in DOMAIN u
    <3> DEFINE nodes == u[p].EphemeralNodes
               rest == eachNode(u, nodes, TRUE)
               v == rest.st
    <3>1. o = IF rest.err THEN rest ELSE delete_op(v, p)
      BY <1>6, <2>3 DEF Write, write_delete_session
    <3>2. nodes \in Seq(Paths)
      BY <1>1, <2>3 DEF Typed, Nodes
    <3>3. Range(nodes) = {nodes[i] : i \in 1..Len(nodes)}
      <4> HIDE DEF nodes
      <4> QED
        BY <3>2, LenProperties DEF Range
    <3>4. \A i \in 1..Len(nodes) : ~OverSession(nodes[i])
      BY <2>3, <3>3 DEF Kept, NoneOver
    <3>5. /\ Less(u, v) /\ rest.err \in BOOLEAN
          /\ ~rest.err => \A i \in 1..Len(nodes) : nodes[i] \notin DOMAIN v
      <4> HIDE DEF nodes
      <4> QED
        BY <1>1, <3>2, <3>4, EachFacts
    <3> HIDE DEF rest
    <3>6. Kept(v)
      BY <3>5, LessKept
    <3>7. CASE rest.err
      BY <3>1, <3>6, <3>7
    <3>8. CASE ~rest.err
      <4>1. o = delete_op(v, p)
        BY <3>1, <3>8
      <4>2. /\ p \in DOMAIN v /\ v[p].EphemeralNodes = nodes
            /\ \A q \in Range(nodes) : q \notin DOMAIN v
        BY <2>1, <2>3, <3>3, <3>5, <3>8 DEF Less
      <4> HIDE DEF nodes, v
      <4>3. Kept(o.st) /\ DOMAIN o.st \subseteq DOMAIN v /\ (~o.err => p \notin DOMAIN o.st)
        BY <2>1, <3>6, <4>1, <4>2, SessionTaken
      <4>4. DOMAIN v \subseteq DOMAIN u
        BY <3>5 DEF Less, v
      <4> QED
        BY <4>3, <4>4 DEF Finishes
    <3> QED
      BY <3>7, <3>8
  <2> QED
    BY <2>2, <2>3
<1>7. CASE r.Request = "create"
  <2> DEFINE t1 == addChild(u, p)
             s == SessionPath(r.Ephemeral)
             t2 == IF r.Ephemeral = None THEN t1 ELSE addEphemeral(t1, s, p)
             node == ZNode(r.Data, r.Version, r.Ephemeral, << >>)
  <2>1. o = write_create(u, r)
    BY <1>7 DEF Write
  <2>2. CASE Dir(p) \notin DOMAIN u
    BY <1>2, <2>1, <2>2 DEF write_create
  <2>3. CASE Dir(p) \in DOMAIN u
    <3>1. p # Root
      BY <1>1, <1>7, NotOver, SessionFacts DEF Apart
    <3>2. More(u, t1) /\ Base(p) \in Range(t1[Dir(p)].Children)
      <4> HIDE DEF p
      <4> QED
        BY <1>1, <2>3, <3>1, ChildAdded
    <3>3. node \in Nodes /\ node.EphemeralNodes = << >> /\ node.Ephemeral = r.Ephemeral
      BY <1>1 DEF ZNode, Nodes
    <3>4. o = IF r.Ephemeral # None /\ s \notin DOMAIN t1 THEN Failed(t1)
              ELSE Written(Put(t2, p, node))
      BY <2>1, <2>3 DEF write_create
    <3> HIDE DEF t1, node
    <3>5. Kept(t1) /\ Typed(t1) /\ DOMAIN t1 = DOMAIN u
      BY <3>2, MoreKept DEF Kept, More
    <3>6. CASE r.Ephemeral # None /\ s \notin DOMAIN t1
      BY <1>2, <3>4, <3>5, <3>6
    <3>7. CASE ~(r.Ephemeral # None /\ s \notin DOMAIN t1)
      <4>1. /\ Kept(t2) /\ DOMAIN t2 = DOMAIN u
            /\ r.Ephemeral # None => s \in DOMAIN t2 /\ p \in Range(t2[s].EphemeralNodes)
        <5>1. CASE r.Ephemeral = None
          BY <3>5, <5>1
        <5>2. CASE r.Ephemeral # None
          <6>1. ~OverSession(p) /\ s \in DOMAIN t1
            BY <1>7, <3>7, <5>2 DEF Apart
          <6>2. t2 = addEphemeral(t1, s, p)
            BY <5>2
          <6> HIDE DEF t2, s, p
          <6>3. More(t1, t2) /\ p \in Range(t2[s].EphemeralNodes)
            BY <1>1, <3>5, <6>1, <6>2, EphemeralAdded
          <6>4. Kept(t2) /\ DOMAIN t2 = DOMAIN t1
            BY <3>5, <6>3, MoreKept DEF More
          <6> QED
            BY <3>5, <6>1, <6>3, <6>4
        <5> QED
          BY <5>1, <5>2
      <4>2. o = Written(Put(t2, p, node))
        BY <3>4, <3>7
      <4>3. \/ ~OverSession(p)
            \/ /\ p \notin DOMAIN t2 /\ p # sessionDir /\ node.Ephemeral = None
               /\ sessionDir \in DOMAIN t2 /\ Base(p) \in Range(t2[sessionDir].Children)
        <5> SUFFICES ASSUME OverSession(p)
                     PROVE  /\ p \notin DOMAIN t2 /\ p # sessionDir /\ node.Ephemeral = None
                            /\ sessionDir \in DOMAIN t2 /\ Base(p) \in Range(t2[sessionDir].Children)
          OBVIOUS
        <5>1. PICK e \in Strings : p = SessionPath(e)
          BY <1>7 DEF Apart
        <5>2. r.Ephemeral = None
          BY <1>7 DEF Apart
        <5>3. t2 = t1 /\ p \notin DOMAIN u /\ Dir(p) = sessionDir
          BY <1>7, <5>1, <5>2, SessionFacts DEF Starts
        <5>4. p # sessionDir
          <6>1. IsPrefix(sessionDir, sessionDir)
            BY InitialFacts, LenProperties, PrefixMeans DEF Paths
          <6> QED
            BY <5>1, <6>1, OverFacts
        <5> QED
          BY <2>3, <3>2, <3>3, <4>1, <5>2, <5>3, <5>4
      <4> HIDE DEF t2
      <4>4. Kept(Put(t2, p, node))
        <5> HIDE DEF p
        <5> QED
          BY <1>1, <3>3, <4>1, <4>3, PutKept
      <4>5. DOMAIN Put(t2, p, node) = DOMAIN u \cup {p}
        BY <4>1 DEF Put
      <4> QED
        BY <1>2, <1>7, <4>2, <4>4, <4>5 DEF Starts, Finishes
    <3> QED
      BY <3>6, <3>7
  <2> QED
    BY <2>2, <2>3
<1> QED
  BY <1>3, <1>4, <1>5, <1>6, <1>7 DEF Reqs

\* What is left of a typed tree is typed.
LEMMA WithoutTyped ==
  ASSUME NEW u, Typed(u), NEW S
  PROVE  Typed(Without(u, S)) /\ DOMAIN Without(u, S) = DOMAIN u \ S
BY DEF Typed, Without

\* What a check makes of the cache c: a session that is not there then was not
\* there, or is the one that the request ends; and a session is created only
\* where the cache has none.
Fits(c, o) ==
  /\ Typed(o.cache)
  /\ o.req \in Reqs /\ Apart(o.req)
  /\ \A e \in Strings : SessionPath(e) \notin DOMAIN o.cache =>
       \/ SessionPath(e) \notin DOMAIN c /\ ~Starts(o.req, SessionPath(e))
       \/ Finishes(o.req, SessionPath(e))
  /\ \A e \in Strings : Starts(o.req, SessionPath(e)) => SessionPath(e) \notin DOMAIN c

LEMMA CreateKept ==
  ASSUME NEW c, Typed(c), NEW r \in Reqs, r.Request = "create", r.Path # Root, Apart(r),
         NEW o, o = check_create(c, r), o.res = "ok"
  PROVE  Fits(c, o)
<1> DEFINE p == r.Path
           s == SessionPath(r.Ephemeral)
           t1 == IF r.Ephemeral = None THEN c ELSE addEphemeral(c, s, p)
           node == ZNode(r.Data, 1, r.Ephemeral, << >>)
           t2 == Put(t1, p, node)
           q == [r EXCEPT !.Version = 1]
<1>1. p \in Paths /\ r.Data \in Strings /\ r.Ephemeral \in Strings
  BY DEF Reqs
<1>2. /\ p \notin DOMAIN c /\ Dir(p) \in DOMAIN c
      /\ r.Ephemeral # None => s \in DOMAIN c
      /\ o.cache = addChild(t2, p) /\ o.req = q
  BY DEF check_create, Denied, Accepted
<1>3. q \in Reqs /\ q.Request = "create" /\ q.Path = p /\ q.Ephemeral = r.Ephemeral
  BY DEF Reqs
<1>4. node \in Nodes
  BY <1>1 DEF ZNode, Nodes
<1>5. Typed(t1) /\ DOMAIN t1 = DOMAIN c
  <2>1. CASE r.Ephemeral = None
    BY <2>1
  <2>2. CASE r.Ephemeral # None
    <3>1. ~OverSession(p)
      BY <2>2 DEF Apart
    <3>2. t1 = addEphemeral(c, s, p)
      BY <2>2
    <3> HIDE DEF t1, s, p
    <3> QED
      BY <1>1, <1>2, <2>2, <3>1, <3>2, EphemeralAdded DEF More
  <2> QED
    BY <2>1, <2>2
<1> HIDE DEF t1, node
<1>6. Typed(t2) /\ DOMAIN t2 = DOMAIN c \cup {p}
  <2>1. /\ DOMAIN t2 = DOMAIN t1 \cup {p} /\ t2 = [x \in DOMAIN t2 |-> t2[x]] /\ t2[p] = node
        /\ \A x \in DOMAIN t1 : x # p => t2[x] = t1[x]
    BY DEF Put
  <2> HIDE DEF t2
  <2>2. \A x \in DOMAIN t2 : t2[x] \in Nodes
    BY <1>4, <1>5, <2>1 DEF Typed
  <2> QED
    BY <1>1, <1>5, <2>1, <2>2 DEF Typed
<1> HIDE DEF t2, q
<1>7. Typed(o.cache) /\ DOMAIN o.cache = DOMAIN c \cup {p}
  <2> DEFINE g == addChild(t2, p)
  <2>1. More(t2, g)
    <3> HIDE DEF p
    <3> QED
      BY <1>1, <1>2, <1>6, ChildAdded DEF p
  <2> HIDE DEF g
  <2> QED
    BY <1>2, <1>6, <2>1 DEF More, g
<1>8. Apart(q)
  BY <1>3 DEF Apart
<1> QED
  BY <1>2, <1>3, <1>7, <1>8 DEF Fits, Starts

\* A request whose effect on the sessions is none.
LEMMA OtherKept ==
  ASSUME NEW c, NEW o, Typed(o.cache), o.req \in Reqs, Apart(o.req), o.req.Request # "create",
         \A e \in Strings : SessionPath(e) \in DOMAIN c => SessionPath(e) \in DOMAIN o.cache
  PROVE  Fits(c, o)
BY DEF Fits, Starts

LEMMA CheckKept ==
  ASSUME Kept(storage), NEW w \in Workloads, SessionsApart(w), NEW c, Typed(c),
         NEW r \in w.Requests, NEW o, o = Check(c, r)
  PROVE  \/ o.res \in {"denied", "panic"} /\ o.cache = c
         \/ o.res = "ok" /\ Fits(c, o)
<1> DEFINE none == o.res \in {"denied", "panic"} /\ o.cache = c
<1>1. /\ r \in Reqs /\ r.Path \in Paths /\ r.Data \in Strings /\ r.Version \in Int
      /\ r.Ephemeral \in Strings
      /\ r.Request \in {"create", "setdata", "delete", "delete_session", "sync"}
  <2>1. r \in Reqs
    BY WorkloadsAssumption
  <2> QED
    BY <2>1 DEF Reqs
<1>2. \A x : /\ Denied(c).res = "denied" /\ Denied(c).cache = c
             /\ Panic(c).res = "panic" /\ Panic(c).cache = c
  BY DEF Denied, Panic
<1>3. \A x, y : Accepted(x, y).res = "ok" /\ Accepted(x, y).cache = x /\ Accepted(x, y).req = y
  BY DEF Accepted
<1>4. IF r.Request = "create" /\ r.Sequential THEN r.Path # Root ELSE Apart(r)
  BY DEF SessionsApart
<1>5. CASE c = << >>
  BY <1>2, <1>5 DEF Check
<1>6. CASE c # << >> /\ r.Request = "create" /\ ~r.Sequential
  <2>1. o = check_create(c, r) /\ Apart(r)
    BY <1>4, <1>6 DEF Check
  <2>2. o.res = "ok" \/ none
    BY <1>2, <1>3, <2>1 DEF check_create
  <2>3. r.Path # Root
    BY <1>1, <1>6, <2>1, NotOver, SessionFacts DEF Apart
  <2> QED
    BY <1>1, <1>6, <2>1, <2>2, <2>3, CreateKept
<1>7. CASE c # << >> /\ r.Request = "create" /\ r.Sequential
  <2> DEFINE n == seqname(c, r.Path)
             q == [r EXCEPT !.Path = n]
  <2>1. o = IF Dir(r.Path) \notin DOMAIN c THEN Panic(c) ELSE check_create(c, q)
    BY <1>7 DEF Check
  <2>2. CASE Dir(r.Path) \notin DOMAIN c
    BY <1>2, <2>1, <2>2
  <2>3. CASE Dir(r.Path) \in DOMAIN c
    <3>1. n \in Paths /\ n # Root /\ Base(n)[2] # 0
      BY <1>1, <1>4, <1>7, <2>3, SeqnameFacts
    <3> HIDE DEF n
    <3>2. ~OverSession(n)
      BY <3>1, NumberedIsNotOver
    <3>3. q \in Reqs /\ q.Request = "create" /\ q.Path = n
      BY <1>1, <1>7, <3>1 DEF Reqs
    <3> HIDE DEF q
    <3>4. Apart(q)
      BY <3>2, <3>3 DEF Apart
    <3>5. o = check_create(c, q)
      BY <2>1, <2>3
    <3>6. o.res = "ok" \/ none
      BY <1>2, <1>3, <3>5 DEF check_create
    <3> QED
      BY <3>1, <3>3, <3>4, <3>5, <3>6, CreateKept
  <2> QED
    BY <2>2, <2>3
<1>8. CASE c # << >> /\ r.Request = "setdata"
  <2> DEFINE p == r.Path
             g1 == [c EXCEPT ![p].Data = r.Data]
             g2 == [c EXCEPT ![p].Data = r.Data, ![p].Version = @ + 1]
             q == [r EXCEPT !.Version = @ + 1]
  <2>1. none \/ (p \in DOMAIN c /\ (o = Accepted(g1, r) \/ o = Accepted(g2, q)))
    BY <1>2, <1>8 DEF Check, check_update
  <2>2. Apart(r)
    BY <1>4, <1>8
  <2>3. q \in Reqs /\ q.Request = "setdata" /\ Apart(q)
    <3>1. r.Version + 1 \in Int
      BY <1>1
    <3>2. /\ q \in Reqs /\ q.Request = "setdata" /\ q.Path = r.Path /\ q.Ephemeral = r.Ephemeral
      BY <1>1, <1>8, <3>1 DEF Reqs
    <3> HIDE DEF q
    <3> QED
      BY <1>8, <2>2, <3>2 DEF Apart
  <2>4. ASSUME p \in DOMAIN c
        PROVE  Typed(g1) /\ DOMAIN g1 = DOMAIN c /\ Typed(g2) /\ DOMAIN g2 = DOMAIN c
    <3>1. c[p] \in Nodes /\ c \in [DOMAIN c -> Nodes] /\ DOMAIN c \subseteq Paths
      BY <2>4 DEF Typed
    <3>2. g1 = [x \in DOMAIN c |-> IF x = p THEN [c[x] EXCEPT !.Data = r.Data] ELSE c[x]]
      BY <3>1
    <3>3. g2 = [x \in DOMAIN c |-> IF x = p THEN [c[x] EXCEPT !.Data = r.Data, !.Version = @ + 1]
                                   ELSE c[x]]
      BY <3>1
    <3>4. [c[p] EXCEPT !.Data = r.Data] \in Nodes
      BY ONLY <1>1, <3>1 DEF Nodes
    <3>5. [c[p] EXCEPT !.Data = r.Data, !.Version = @ + 1] \in Nodes
      <4> DEFINE z == c[p]
                 z1 == [z EXCEPT !.Data = r.Data]
                 y == [z1 EXCEPT !.Version = @ + 1]
      <4>1. z \in Nodes
        BY <3>1
      <4> HIDE DEF z
      <4>2. z1 \in Nodes
        BY ONLY <1>1, <4>1 DEF Nodes
      <4> HIDE DEF z1
      <4>3. y \in Nodes
        <5>1. z1.Version + 1 \in Int
          BY <4>2 DEF Nodes
        <5> QED
          BY ONLY <4>2, <5>1 DEF Nodes
      <4> QED
        BY <4>3 DEF z, z1
    <3> HIDE DEF g1, g2
    <3>6. Typed(g1) /\ DOMAIN g1 = DOMAIN c
      BY <3>1, <3>2, <3>4 DEF Typed
    <3>7. Typed(g2) /\ DOMAIN g2 = DOMAIN c
      BY <3>1, <3>3, <3>5 DEF Typed
    <3> QED
      BY <3>6, <3>7
  <2> HIDE DEF g1, g2, q
  <2>5. CASE p \in DOMAIN c /\ (o = Accepted(g1, r) \/ o = Accepted(g2, q))
    <3>1. /\ o.res = "ok" /\ Typed(o.cache) /\ DOMAIN o.cache = DOMAIN c
          /\ o.req \in Reqs /\ Apart(o.req) /\ o.req.Request # "create"
      BY <1>1, <1>3, <1>8, <2>2, <2>3, <2>4, <2>5
    <3> QED
      BY <3>1, OtherKept
  <2> QED
    BY <2>1, <2>5
<1>9. CASE c # << >> /\ r.Request = "delete"
  <2> DEFINE p == r.Path
             T == {p}
             g == Without(dropChild(c, p), T)
  <2>1. none \/ o = Accepted(g, r)
    BY <1>2, <1>9 DEF Check, check_delete
  <2>2. Apart(r) /\ ~OverSession(p)
    BY <1>4, <1>9 DEF Apart
  <2>3. Less(c, g)
    <3>1. \A x \in T : IsPrefix(p, x)
      BY <1>1, <2>2, NotOver
    <3> HIDE DEF T
    <3> QED
      BY <1>1, <2>2, <3>1, TakenLess
  <2> HIDE DEF g
  <2>4. CASE o = Accepted(g, r)
    <3>1. /\ o.res = "ok" /\ Typed(o.cache) /\ o.req = r
          /\ \A e \in Strings : SessionPath(e) \in DOMAIN c => SessionPath(e) \in DOMAIN o.cache
      BY <1>3, <2>3, <2>4 DEF Less
    <3> QED
      BY <1>1, <1>9, <2>2, <3>1, OtherKept
  <2> QED
    BY <2>1, <2>4
<1>10. CASE c # << >> /\ r.Request = "delete_session"
  <2> DEFINE p == r.Path
             nodes == storage[p].EphemeralNodes
             rest == eachNode(c, nodes, FALSE)
             T == {p}
             g == Without(rest.st, T)
  <2>1. none \/ (p \in DOMAIN storage /\ o = Accepted(g, r))
    BY <1>2, <1>10 DEF Check, check_delete_session
  <2>2. CASE p \in DOMAIN storage /\ o = Accepted(g, r)
    <3>1. PICK f \in Strings : p = SessionPath(f)
      BY <1>4, <1>10 DEF Apart
    <3>2. nodes \in Seq(Paths)
      BY <2>2 DEF Kept, Typed, Nodes
    <3>3. \A i \in 1..Len(nodes) : ~OverSession(nodes[i])
      <4>1. \A y \in Range(nodes) : ~OverSession(y)
        BY <2>2 DEF Kept, NoneOver
      <4> HIDE DEF nodes
      <4> QED
        BY <3>2, <4>1, LenProperties DEF Range
    <3>4. Less(c, rest.st)
      <4> HIDE DEF nodes
      <4> QED
        BY <3>2, <3>3, EachFacts
    <3> HIDE DEF rest, T
    <3>5. Typed(g) /\ DOMAIN g = DOMAIN rest.st \ T
      BY <3>4, WithoutTyped DEF Less
    <3> HIDE DEF g
    <3>6. /\ o.res = "ok" /\ o.cache = g /\ o.req = r
          /\ \A e \in Strings : SessionPath(e) \in DOMAIN c =>
               SessionPath(e) \in DOMAIN g \/ SessionPath(e) = p
      BY <1>3, <2>2, <3>4, <3>5 DEF Less, T
    <3>7. Apart(r)
      BY <1>4, <1>10
    <3> QED
      BY <1>1, <1>10, <3>5, <3>6, <3>7 DEF Fits, Starts, Finishes
  <2> QED
    BY <2>1, <2>2
<1>11. CASE c # << >> /\ r.Request = "sync"
  <2>1. o = Accepted(c, r) /\ Apart(r)
    BY <1>4, <1>11 DEF Check
  <2> QED
    BY <1>1, <1>3, <1>11, <2>1, OtherKept
<1> QED
  BY <1>1, <1>5, <1>6, <1>7, <1>8, <1>9, <1>10, <1>11

\* When the first i - 1 requests of q are written, without an error, the session
\* is not there: no request has started it since it was seen to be gone, or
\* since the last request that ends it.
NotThere(u, q, i, s) ==
  \/ s \notin DOMAIN u /\ \A k \in 1..(i - 1) : ~Starts(q[k], s)
  \/ \E j \in 1..(i - 1) : Finishes(q[j], s) /\ \A k \in (j + 1)..(i - 1) : ~Starts(q[k], s)

\* Sessions are started where they will not be there.
Line(u, q) ==
  \A i \in 1..Len(q) :
    Apart(q[i]) /\ \A e \in Strings : Starts(q[i], SessionPath(e)) => NotThere(u, q, i, SessionPath(e))

\* What the cache says is not there will not be there.
Foreseen(u, q, c) ==
  c # << >> => \A e \in Strings : SessionPath(e) \notin DOMAIN c
                                    => NotThere(u, q, Len(q) + 1, SessionPath(e))

\* One request more at the end.
LEMMA LineLonger ==
  ASSUME NEW u, NEW q \in Seq(Reqs), Line(u, q), NEW c, c # << >>, Foreseen(u, q, c),
         NEW o, Fits(c, o)
  PROVE  Line(u, Append(q, o.req)) /\ Foreseen(u, Append(q, o.req), o.cache)
<1> DEFINE n == Len(q)
           r == o.req
           a == Append(q, r)
<1>1. r \in Reqs
  BY DEF Fits
<1>2. /\ a \in Seq(Reqs) /\ n \in Nat /\ Len(a) = n + 1
      /\ \A i \in 1..n : a[i] = q[i]
      /\ a[n + 1] = r
  BY <1>1, AppendFacts
<1> HIDE DEF a, n, r
<1>3. ASSUME NEW i \in 1..(n + 1), NEW s, NotThere(u, q, i, s) PROVE NotThere(u, a, i, s)
  <2>1. \A k \in 1..(i - 1) : a[k] = q[k]
    BY <1>2
  <2>2. CASE s \notin DOMAIN u /\ \A k \in 1..(i - 1) : ~Starts(q[k], s)
    BY <2>1, <2>2 DEF NotThere
  <2>3. CASE \E j \in 1..(i - 1) :
               Finishes(q[j], s) /\ \A k \in (j + 1)..(i - 1) : ~Starts(q[k], s)
    <3>1. PICK j \in 1..(i - 1) :
            Finishes(q[j], s) /\ \A k \in (j + 1)..(i - 1) : ~Starts(q[k], s)
      BY <2>3
    <3>2. \A k \in (j + 1)..(i - 1) : a[k] = q[k]
      BY <1>2, <2>1
    <3>3. Finishes(a[j], s) /\ \A k \in (j + 1)..(i - 1) : ~Starts(a[k], s)
      BY <2>1, <3>1, <3>2
    <3> QED
      BY <3>3 DEF NotThere
  <2> QED
    BY <1>3, <2>2, <2>3 DEF NotThere
<1>4. Line(u, a)
  <2> SUFFICES ASSUME NEW i \in 1..(n + 1)
               PROVE  /\ Apart(a[i])
                      /\ \A e \in Strings : Starts(a[i], SessionPath(e))
                                              => NotThere(u, a, i, SessionPath(e))
    BY <1>2 DEF Line
  <2>1. CASE i \in 1..n
    BY <1>2, <1>3, <2>1 DEF Line, n
  <2>2. CASE i = n + 1
    <3>1. Apart(r) /\ \A e \in Strings : Starts(r, SessionPath(e)) => SessionPath(e) \notin DOMAIN c
      BY DEF Fits, r
    <3>2. \A e \in Strings : SessionPath(e) \notin DOMAIN c => NotThere(u, q, n + 1, SessionPath(e))
      BY DEF Foreseen, n
    <3>3. n + 1 \in 1..(n + 1)
      BY <1>2
    <3> QED
      BY <1>2, <1>3, <2>2, <3>1, <3>2, <3>3
  <2> QED
    BY <1>2, <2>1, <2>2
<1>5. Foreseen(u, a, o.cache)
  <2> SUFFICES ASSUME NEW e \in Strings, SessionPath(e) \notin DOMAIN o.cache
               PROVE  NotThere(u, a, (n + 1) + 1, SessionPath(e))
    BY <1>2 DEF Foreseen
  <2> DEFINE s == SessionPath(e)
             m == n + 1
  <2>1. m \in Nat /\ m + 1 - 1 = m /\ m \in 1..m
    BY <1>2
  <2>2. (s \notin DOMAIN c /\ ~Starts(r, s)) \/ Finishes(r, s)
    BY DEF Fits, r
  <2> HIDE DEF s
  <2>3. ASSUME s \notin DOMAIN u, \A k \in 1..m : ~Starts(a[k], s)
        PROVE  NotThere(u, a, m + 1, s)
    <3> HIDE DEF m
    <3> QED
      BY <2>1, <2>3 DEF NotThere
  <2>4. ASSUME NEW j \in 1..m, Finishes(a[j], s), \A k \in (j + 1)..m : ~Starts(a[k], s)
        PROVE  NotThere(u, a, m + 1, s)
    <3> HIDE DEF m
    <3> QED
      BY <2>1, <2>4 DEF NotThere
  <2>5. NotThere(u, a, m + 1, s) => NotThere(u, a, (n + 1) + 1, SessionPath(e))
    BY DEF s
  <2>6. CASE Finishes(r, s)
    <3>1. n + 1 \in 1..(n + 1) /\ Finishes(a[n + 1], s)
      BY <1>2, <2>6
    <3>2. \A k \in ((n + 1) + 1)..(n + 1) : ~Starts(a[k], s)
      BY <1>2
    <3> QED
      BY <2>4, <2>5, <3>1, <3>2
  <2>7. CASE s \notin DOMAIN c /\ ~Starts(r, s)
    <3>1. NotThere(u, q, n + 1, s)
      BY <2>7 DEF Foreseen, n, s
    <3>2. NotThere(u, a, n + 1, s)
      <4>1. n + 1 \in 1..(n + 1)
        BY <1>2
      <4> QED
        BY <1>3, <3>1, <4>1
    <3>3. ~Starts(a[n + 1], s) /\ n + 1 - 1 = n
      BY <1>2, <2>7
    <3>4. CASE s \notin DOMAIN u /\ \A k \in 1..n : ~Starts(a[k], s)
      <4>1. \A k \in 1..(n + 1) : k \in 1..n \/ k = n + 1
        BY <1>2
      <4>2. \A k \in 1..(n + 1) : ~Starts(a[k], s)
        BY <3>3, <3>4, <4>1
      <4> QED
        BY <2>3, <2>5, <3>4, <4>2
    <3>5. CASE \E j \in 1..n : Finishes(a[j], s) /\ \A k \in (j + 1)..n : ~Starts(a[k], s)
      <4>1. PICK j \in 1..n : Finishes(a[j], s) /\ \A k \in (j + 1)..n : ~Starts(a[k], s)
        BY <3>5
      <4>2. j \in 1..(n + 1) /\ \A k \in (j + 1)..(n + 1) : k \in (j + 1)..n \/ k = n + 1
        BY <1>2
      <4>3. \A k \in (j + 1)..(n + 1) : ~Starts(a[k], s)
        BY <3>3, <4>1, <4>2
      <4> QED
        BY <2>4, <2>5, <4>1, <4>2, <4>3
    <3>6. \/ s \notin DOMAIN u /\ \A k \in 1..n : ~Starts(a[k], s)
          \/ \E j \in 1..n : Finishes(a[j], s) /\ \A k \in (j + 1)..n : ~Starts(a[k], s)
      <4>1. NotThere(u, a, m, s)
        BY <3>2, Zenon
      <4>2. m - 1 = n
        BY <1>2
      <4> HIDE DEF m
      <4> QED
        BY <4>1, <4>2 DEF NotThere
    <3> QED
      BY <3>4, <3>5, <3>6
  <2> QED
    BY <2>2, <2>6, <2>7
<1> QED
  BY <1>4, <1>5 DEF a, r

\* The first request is written.
LEMMA LineShorter ==
  ASSUME NEW u, NEW q \in Seq(Reqs), q # << >>, Line(u, q), NEW c, Foreseen(u, q, c), NEW g,
         \A e \in Strings : SessionPath(e) \in DOMAIN g =>
           \/ SessionPath(e) \in DOMAIN u /\ ~Finishes(Head(q), SessionPath(e))
           \/ Starts(Head(q), SessionPath(e))
  PROVE  Line(g, Tail(q)) /\ Foreseen(g, Tail(q), c)
<1> DEFINE n == Len(q)
           t == Tail(q)
<1>1. /\ n \in Nat /\ n >= 1 /\ Head(q) = q[1] /\ t \in Seq(Reqs) /\ Len(t) = n - 1
      /\ \A i \in 1..(n - 1) : t[i] = q[i + 1]
  BY HeadFacts
<1> HIDE DEF t, n
<1>2. ASSUME NEW i \in 1..n, NEW e \in Strings, NotThere(u, q, i + 1, SessionPath(e))
      PROVE  NotThere(g, t, i, SessionPath(e))
  <2> DEFINE s == SessionPath(e)
  <2>1. s \in DOMAIN g => (s \in DOMAIN u /\ ~Finishes(q[1], s)) \/ Starts(q[1], s)
    BY <1>1
  <2>2. NotThere(u, q, i + 1, s) /\ i + 1 - 1 = i
    BY <1>1, <1>2
  <2> HIDE DEF s
  <2>3. \A k \in 1..(i - 1) : t[k] = q[k + 1] /\ k + 1 \in 1..i
    BY <1>1
  <2>4. CASE s \notin DOMAIN u /\ \A k \in 1..i : ~Starts(q[k], s)
    <3>1. 1 \in 1..i
      BY <1>1
    <3>2. s \notin DOMAIN g
      BY <2>1, <2>4, <3>1
    <3>3. \A k \in 1..(i - 1) : ~Starts(t[k], s)
      BY <2>3, <2>4
    <3> QED
      BY <3>2, <3>3 DEF NotThere, s
  <2>5. CASE \E j \in 1..i : Finishes(q[j], s) /\ \A k \in (j + 1)..i : ~Starts(q[k], s)
    <3>1. PICK j \in 1..i : Finishes(q[j], s) /\ \A k \in (j + 1)..i : ~Starts(q[k], s)
      BY <2>5
    <3>2. CASE j = 1
      <4>1. ~Starts(q[1], s)
        BY <3>1, <3>2 DEF Starts, Finishes
      <4>2. s \notin DOMAIN g
        BY <2>1, <3>1, <3>2, <4>1
      <4>3. \A k \in 1..(i - 1) : k + 1 \in (j + 1)..i
        BY <1>1, <3>2
      <4>4. \A k \in 1..(i - 1) : ~Starts(t[k], s)
        BY <2>3, <3>1, <4>3
      <4> QED
        BY <4>2, <4>4 DEF NotThere, s
    <3>3. CASE j # 1
      <4>1. j - 1 \in 1..(i - 1) /\ (j - 1) + 1 = j
        BY <1>1, <3>3
      <4>2. Finishes(t[j - 1], s)
        BY <2>3, <3>1, <4>1
      <4>3. \A k \in ((j - 1) + 1)..(i - 1) : k \in 1..(i - 1) /\ k + 1 \in (j + 1)..i
        BY <1>1, <4>1
      <4>4. \A k \in ((j - 1) + 1)..(i - 1) : ~Starts(t[k], s)
        BY <2>3, <3>1, <4>3
      <4> QED
        BY <4>1, <4>2, <4>4 DEF NotThere, s
    <3> QED
      BY <3>2, <3>3
  <2> QED
    BY <2>2, <2>4, <2>5 DEF NotThere
<1>3. Line(g, t)
  <2> SUFFICES ASSUME NEW i \in 1..(n - 1)
               PROVE  /\ Apart(t[i])
                      /\ \A e \in Strings : Starts(t[i], SessionPath(e))
                                              => NotThere(g, t, i, SessionPath(e))
    BY <1>1 DEF Line
  <2>1. i \in 1..n /\ i + 1 \in 1..n /\ t[i] = q[i + 1]
    BY <1>1
  <2>2. /\ Apart(q[i + 1])
        /\ \A e \in Strings : Starts(q[i + 1], SessionPath(e))
                                => NotThere(u, q, i + 1, SessionPath(e))
    BY <2>1 DEF Line, n
  <2> QED
    BY <1>2, <2>1, <2>2
<1>4. Foreseen(g, t, c)
  <2>1. n \in 1..n /\ (n - 1) + 1 = n
    BY <1>1
  <2>2. c # << >> => \A e \in Strings : SessionPath(e) \notin DOMAIN c
                                          => NotThere(u, q, n + 1, SessionPath(e))
    BY DEF Foreseen, n
  <2>3. c # << >> => \A e \in Strings : SessionPath(e) \notin DOMAIN c
                                          => NotThere(g, t, n, SessionPath(e))
    BY <1>2, <2>1, <2>2
  <2> QED
    BY <1>1, <2>1, <2>3 DEF Foreseen
<1> QED
  BY <1>3, <1>4 DEF t

\* The reload of the cache loses no session.
LEMMA PopulateKept ==
  ASSUME NEW u, Kept(u)
  PROVE  /\ Typed(populate(u))
         /\ \A e \in Strings : SessionPath(e) \in DOMAIN u => SessionPath(e) \in DOMAIN populate(u)
<1> DEFINE listed(p, n) == p[n] \in Range(u[SubSeq(p, 1, n - 1)].Children)
           reached(p)   == \A n \in 1..Len(p) : (p[n] = sessionDir[1] /\ n = 1) \/ listed(p, n)
           S == {p \in DOMAIN u : reached(p)}
<1>1. populate(u) = [p \in S |-> u[p]]
  BY Zenon DEF populate
<1>2. Typed(populate(u))
  <2> HIDE DEF reached
  <2> QED
    BY <1>1 DEF Kept, Typed
<1>3. ASSUME NEW e \in Strings, SessionPath(e) \in DOMAIN u PROVE reached(SessionPath(e))
  <2> DEFINE s == SessionPath(e)
  <2>1. s \in Paths /\ s # Root /\ Dir(s) = sessionDir /\ Len(s) = 2 /\ s[1] = sessionDir[1]
    BY SessionFacts, SessionNames
  <2>2. Base(s) \in Range(u[sessionDir].Children)
    BY <1>3 DEF Kept, Listed
  <2> HIDE DEF s
  <2>3. Dir(s) = Part(s, Len(s) - 1) /\ Base(s) = s[Len(s)]
    BY <2>1, PathFacts
  <2>4. 2 - 1 = 1
    OBVIOUS
  <2>5. s[2] = Base(s) /\ SubSeq(s, 1, 2 - 1) = sessionDir
    BY <2>1, <2>3 DEF Part
  <2>6. listed(s, 2)
    BY <2>2, <2>5
  <2> HIDE DEF listed
  <2>7. ASSUME NEW n \in 1..Len(s) PROVE (s[n] = sessionDir[1] /\ n = 1) \/ listed(s, n)
    <3>1. n = 1 \/ n = 2
      BY <2>1
    <3> QED
      BY <2>1, <2>6, <3>1
  <2>8. reached(s)
    BY <2>7
  <2> QED
    BY <2>8 DEF s
<1> HIDE DEF reached
<1> QED
  BY <1>1, <1>2, <1>3

\* While the listener reads, the requests that are under way and the cache agree
\* about the sessions; the lists of the storage are right even after an error.
SInv ==
  /\ workload \in Workloads /\ SessionsApart(workload)
  /\ Kept(storage) /\ Typed(cache) /\ pending \in Seq(Reqs)
  /\ listening => Line(storage, pending) /\ Foreseen(storage, pending, cache)

LEMMA SInvInit ==
  Init /\ SessionsApart(workload) => SInv
<1> SUFFICES ASSUME Init, SessionsApart(workload) PROVE SInv
  OBVIOUS
<1>1. /\ workload \in Workloads /\ cache = << >> /\ storage = init_base_znode
      /\ pending = << >>
  BY DEF Init
<1>2. Typed(storage)
  BY <1>1, InitialTree DEF Tree
<1>3. /\ DOMAIN storage = Initial
      /\ \A p \in DOMAIN storage :
           storage[p].Ephemeral = None /\ storage[p].EphemeralNodes = << >>
  BY <1>1 DEF init_base_znode, Initial, ZNode
<1>4. Owned(storage)
  BY <1>3 DEF Owned
<1>5. NoneOver(storage)
  BY <1>3 DEF NoneOver, Range
<1>6. Listed(storage)
  <2>1. \A e \in Strings : Len(SessionPath(e)) = 2
    BY SessionNames
  <2>2. \A p \in Initial : Len(p) <= 1
    BY InitialFacts
  <2> QED
    BY <1>3, <2>1, <2>2 DEF Listed
<1>7. Typed(<< >>)
  <2>1. DOMAIN << >> = {} /\ << >> = [x \in {} |-> 0]
    OBVIOUS
  <2> QED
    BY <2>1 DEF Typed
<1>8. Line(storage, << >>) /\ << >> \in Seq(Reqs)
  <2>1. Len(<< >>) = 0 /\ \A i \in 1..0 : FALSE
    OBVIOUS
  <2> QED
    BY <2>1, EmptySeq DEF Line
<1>9. Foreseen(storage, << >>, << >>)
  BY DEF Foreseen
<1> QED
  BY <1>1, <1>2, <1>4, <1>5, <1>6, <1>7, <1>8, <1>9 DEF SInv, Kept

LEMMA SInvStep ==
  SInv /\ [Next]_vars => SInv'
<1> SUFFICES ASSUME SInv, [Next]_vars PROVE SInv'
  OBVIOUS
<1>1. /\ workload \in Workloads /\ SessionsApart(workload)
      /\ Kept(storage) /\ Typed(cache) /\ pending \in Seq(Reqs)
      /\ listening => Line(storage, pending) /\ Foreseen(storage, pending, cache)
  BY DEF SInv
<1>2. CASE processRequest
  <2>1. PICK r \in workload.Requests :
          /\ cache' = Check(cache, r).cache
          /\ pending' = IF Check(cache, r).res = "ok" THEN Append(pending, Check(cache, r).req)
                        ELSE pending
    BY <1>2 DEF processRequest
  <2>2. workload' = workload /\ storage' = storage /\ listening' = listening /\ listening
    BY <1>2 DEF processRequest, Running
  <2> DEFINE o == Check(cache, r)
  <2>3. \/ o.res \in {"denied", "panic"} /\ o.cache = cache
        \/ o.res = "ok" /\ Fits(cache, o)
    BY <1>1, CheckKept
  <2>4. cache = << >> => o.res = "denied" /\ o.cache = cache
    BY DEF Check, Denied
  <2> HIDE DEF o
  <2>5. /\ cache' = o.cache
        /\ pending' = IF o.res = "ok" THEN Append(pending, o.req) ELSE pending
    BY <2>1 DEF o
  <2>6. CASE o.res \in {"denied", "panic"} /\ o.cache = cache
    <3>1. cache' = cache /\ pending' = pending
      BY <2>5, <2>6
    <3> QED
      BY <1>1, <2>2, <3>1 DEF SInv
  <2>7. CASE o.res = "ok" /\ Fits(cache, o)
    <3>1. cache # << >>
      BY <2>4, <2>7
    <3>2. pending' = Append(pending, o.req) /\ cache' = o.cache
      BY <2>5, <2>7
    <3>3. Line(storage, pending') /\ Foreseen(storage, pending', cache')
      BY <1>1, <2>2, <2>7, <3>1, <3>2, LineLonger
    <3>4. Typed(cache') /\ pending' \in Seq(Reqs)
      BY <1>1, <2>7, <3>2, AppendFacts DEF Fits
    <3> QED
      BY <1>1, <2>2, <3>3, <3>4 DEF SInv
  <2> QED
    BY <2>3, <2>6, <2>7
<1>3. CASE committedListener
  <2> DEFINE r == Head(pending)
             o == Write(storage, r)
  <2>1. /\ pending # << >> /\ storage' = o.st /\ listening' = ~o.err /\ pending' = Tail(pending)
        /\ workload' = workload /\ cache' = cache /\ listening
    BY <1>3 DEF committedListener, Running
  <2>2. /\ Len(pending) >= 1 /\ Len(pending) \in Nat /\ r = pending[1] /\ r \in Reqs
        /\ Tail(pending) \in Seq(Reqs)
    BY <1>1, <2>1, HeadFacts
  <2>3. /\ Apart(r)
        /\ \A e \in Strings : Starts(r, SessionPath(e)) => SessionPath(e) \notin DOMAIN storage
    <3>1. 1 \in 1..Len(pending)
      BY <2>2
    <3>2. \A s : NotThere(storage, pending, 1, s) => s \notin DOMAIN storage
      <4>1. \A j \in 1..(1 - 1) : FALSE
        OBVIOUS
      <4> QED
        BY <4>1 DEF NotThere
    <3> QED
      BY <1>1, <2>1, <2>2, <3>1, <3>2 DEF Line
  <2>4. /\ Kept(o.st)
        /\ ~o.err => \A e \in Strings : SessionPath(e) \in DOMAIN o.st =>
             \/ SessionPath(e) \in DOMAIN storage /\ ~Finishes(r, SessionPath(e))
             \/ Starts(r, SessionPath(e))
    <3> HIDE DEF r
    <3> QED
      BY <1>1, <2>2, <2>3, WriteKept
  <2> HIDE DEF o
  <2>5. ASSUME listening' PROVE Line(storage', pending') /\ Foreseen(storage', pending', cache)
    BY <1>1, <2>1, <2>4, <2>5, LineShorter
  <2> QED
    BY <1>1, <2>1, <2>2, <2>4, <2>5 DEF SInv
<1>4. CASE Init_znode_cache
  <2>1. /\ workload.ReinitIdle => pending = << >>
        /\ cache' = populate(storage)
        /\ workload' = workload /\ storage' = storage /\ pending' = pending
        /\ listening' = listening
    BY <1>4 DEF Init_znode_cache
  <2>2. pending = << >>
    BY <1>1, <2>1 DEF SessionsApart
  <2>3. /\ Typed(cache')
        /\ \A e \in Strings : SessionPath(e) \notin DOMAIN cache'
                                => SessionPath(e) \notin DOMAIN storage
    BY <1>1, <2>1, PopulateKept
  <2>4. Foreseen(storage, << >>, cache')
    <3>1. Len(<< >>) + 1 = 1 /\ \A k \in 1..(1 - 1) : FALSE
      OBVIOUS
    <3> QED
      BY <2>3, <3>1 DEF Foreseen, NotThere
  <2> QED
    BY <1>1, <2>1, <2>2, <2>3, <2>4 DEF SInv
<1>5. CASE UNCHANGED vars
  BY <1>1, <1>5 DEF vars, SInv
<1> QED
  BY <1>2, <1>3, <1>4, <1>5 DEF Next

\* No ephemeral znode is in the storage without its session's znode, however
\* many sessions start and end, with any number of their requests under way, and
\* also when a delete_session stops at its first error.
THEOREM EphemeralsHaveSessions ==
  Spec /\ SessionsApart(workload) => []EphemeralsEndWithSession
<1>1. SInv => EphemeralsEndWithSession
  BY DEF SInv, Kept, Owned, EphemeralsEndWithSession
<1>2. Spec /\ SessionsApart(workload) => []SInv
  BY SInvInit, SInvStep, PTL DEF Spec
<1> QED
  BY <1>1, <1>2, PTL
=============================================================================

----------------------------- MODULE ProposalLog -----------------------------
(***************************************************************************)
(* The proposal log of one server and the counter it is restored from.     *)
(* Proposals of an epoch are appended to one file; a record is a header of *)
(* fixed size, the content, and the length of the two.  ReadProposals goes *)
(* back from the end of the file, record by record, while proposalWriter   *)
(* may append.  A write can be cut short by a crash or a full disk, whose  *)
(* error proposalWriter drops; the bytes written so far stay in the file.  *)
(*                                                                         *)
(* A byte is known by the record it was written for and its place in it.   *)
(* Four bytes that are not the length of a record spell some number of     *)
(* Garbage.  The server is the coordinator whenever it runs, and opens an  *)
(* epoch after an election, or goes on with the sync of the last one;      *)
(* ZabSync has its followers.                                              *)
(***************************************************************************)
EXTENDS Naturals, Sequences, SequencesExt, FiniteSets, FiniteSetsExt

CONSTANTS EpochLimit, CountLimit,  \* 2^16: both numbers are uint16
          FixedSize, LengthSize,   \* 5 and 4 bytes
          ContentSize,  \* ContentSize[i]: of the i-th proposal; bounds their number
          Garbage,      \* numbers that bytes which are no length may spell
          MaxCuts,      \* bound: writes cut short without a crash
          MaxRestarts   \* bound: restarts

ASSUME SizeAssumption ==
  /\ EpochLimit \in Nat \ {0} /\ CountLimit \in Nat \ {0}
  /\ FixedSize \in Nat \ {0} /\ LengthSize \in Nat \ {0}
  /\ ContentSize \in Seq(Nat \ {0})
  /\ Garbage \subseteq Nat
  /\ MaxCuts \in Nat /\ MaxRestarts \in Nat

VARIABLES zxidCounter,      \* <<epochNum, countNum>>
          requestsEnabled,  \* is no election under way?
          requestsProcessingEnabled,  \* may requests become proposals?
          syncing,          \* are ACKs of the last NewLeader awaited?
          currentSync,      \* the numbers of the last NewLeader
          newProposalChan,  \* proposals for proposalWriter
          writing,          \* bytes of its record that are not in the file yet
          file,             \* file[e]: the bytes of the file of epoch e
          reader,           \* a call of ReadProposals
          cuts, restarts,   \* how often so far
          issued            \* auxiliary: all that went to the writer

syncVars == <<requestsEnabled, requestsProcessingEnabled, syncing, currentSync>>

vars == <<zxidCounter, syncVars, newProposalChan, writing, file, reader, cuts,
          restarts, issued>>

-----------------------------------------------------------------------------
(* Records *)

proposalSize(p) == FixedSize + ContentSize[p.id]
recordSize(p)   == proposalSize(p) + LengthSize

proposalToBytes(p) == [i \in 1..recordSize(p) |-> [of |-> p, at |-> i]]

\* Do the bytes of f after c begin with bytes from..to of one record?
spells(f, c, from, to) ==
  \E p \in {f[c + 1].of} :
    /\ to <= recordSize(p)
    /\ \A i \in 0..(to - from) : f[c + 1 + i] = [of |-> p, at |-> from + i]

\* The length found at c.
lengthAt(f, c) ==
  LET p == f[c + 1].of IN
  IF spells(f, c, proposalSize(p) + 1, recordSize(p)) THEN {proposalSize(p)} ELSE Garbage

\* What length bytes after c are taken for.  The id 0 marks a content that
\* nobody saved; without a header even the numbers are made up.
bytesToProposal(f, c, length) ==
  LET p == f[c + 1].of IN
  IF ~spells(f, c, 1, FixedSize)
  THEN {[EpochNum |-> 0, CountNum |-> k, id |-> 0] : k \in 0..(CountLimit - 1)}
  ELSE IF spells(f, c, 1, length) /\ length = proposalSize(p) THEN {p}
  ELSE {[p EXCEPT !.id = 0]}

failed == [ok |-> FALSE]

\* Mutation: the cursor is moved back by one length only.
readBack_bug(f, pos) ==
  IF pos < LengthSize THEN {failed}
  ELSE UNION {LET start == IF length > pos THEN 0 ELSE pos - length IN
              IF length <= FixedSize \/ start + length > Len(f) THEN {failed}
              ELSE {[ok |-> TRUE, prop |-> p, curPos |-> start] :
                      p \in bytesToProposal(f, start, length)} :
              length \in lengthAt(f, pos - LengthSize)}

\* One record back from pos.  The error of the second Seek is dropped: the
\* proposal is then read from the start of the file.  A length that leaves no
\* content, or reaches past the end, is an error.
readBack(f, pos) ==
  IF pos < LengthSize THEN {failed}
  ELSE LET c == pos - LengthSize IN
       UNION {LET start == IF length > c THEN 0 ELSE c - length IN
              IF length <= FixedSize \/ start + length > Len(f) THEN {failed}
              ELSE {[ok |-> TRUE, prop |-> p, curPos |-> start] :
                      p \in bytesToProposal(f, start, length)} :
              length \in lengthAt(f, c)}

-----------------------------------------------------------------------------
(* What the file holds, for the properties *)

\* Where the records in f end, and the bytes of records that have no end.
ends(f) == {i \in DOMAIN f : f[i].at = recordSize(f[i].of)}
torn(f) == {i \in DOMAIN f : \A j \in ends(f) : f[j].of # f[i].of}

lastTorn(f) == Max(torn(f) \cup {0})

\* How many records end behind position i, up to n.
behind(f, i, n) == Cardinality({j \in ends(f) : i < j /\ j <= n})

-----------------------------------------------------------------------------
(* The counter *)

Idle == [state |-> "idle"]

Init ==
  /\ zxidCounter = <<0, 0>>
  /\ requestsEnabled = FALSE /\ requestsProcessingEnabled = FALSE
  /\ syncing = FALSE /\ currentSync = <<0, 0>>
  /\ newProposalChan = << >> /\ writing = << >>
  /\ file = << >>
  /\ reader = Idle
  /\ cuts = 0 /\ restarts = 0
  /\ issued = << >>

incCount(z) == <<z[1], (z[2] + 1) % CountLimit>>

\* Mutation: the epoch is kept.
incEpoch_bug(z) == <<z[1], 0>>
incEpoch(z) == <<(z[1] + 1) % EpochLimit, 0>>

\* A proposal with the numbers z goes to the writer.
queueWriteProposal(z) ==
  /\ Len(issued) < Len(ContentSize)
  /\ LET p == [EpochNum |-> z[1], CountNum |-> z[2], id |-> Len(issued) + 1] IN
     /\ issued' = Append(issued, p)
     /\ newProposalChan' = Append(newProposalChan, p)

\* With nothing to sync no epoch is opened.  A sync that Pause interrupted goes
\* on: its NewLeader is saved once more, whatever the counter has become.
SendNewLeader ==
  IF zxidCounter = <<0, 0>>
  THEN /\ requestsProcessingEnabled' = TRUE /\ syncing' = FALSE
       /\ UNCHANGED <<currentSync, zxidCounter, newProposalChan, issued>>
  ELSE /\ syncing' = TRUE
       /\ zxidCounter' = IF syncing THEN zxidCounter ELSE incEpoch(zxidCounter)
       /\ currentSync' = IF syncing THEN currentSync ELSE incEpoch(zxidCounter)
       /\ queueWriteProposal(IF syncing THEN currentSync ELSE incEpoch(zxidCounter))
       /\ UNCHANGED requestsProcessingEnabled

\* The election is over.
Continue ==
  /\ ~requestsEnabled
  /\ requestsEnabled' = TRUE
  /\ SendNewLeader
  /\ UNCHANGED <<writing, file, reader, cuts, restarts>>

\* The last ACK of the NewLeader; it may come after Pause, and then opens the
\* server for requests before Continue.
processACK ==
  /\ syncing /\ ~requestsProcessingEnabled
  /\ requestsProcessingEnabled' = TRUE
  /\ syncing' = FALSE
  /\ UNCHANGED <<requestsEnabled, currentSync, zxidCounter, newProposalChan, writing,
                 file, reader, cuts, restarts, issued>>

processRequest ==
  /\ requestsProcessingEnabled
  /\ zxidCounter' = incCount(zxidCounter)
  /\ queueWriteProposal(incCount(zxidCounter))
  /\ UNCHANGED <<syncVars, writing, file, reader, cuts, restarts>>

\* Another election.  A sync stays what it is.
Pause ==
  /\ requestsEnabled
  /\ requestsEnabled' = FALSE
  /\ requestsProcessingEnabled' = FALSE
  /\ UNCHANGED <<syncing, currentSync, zxidCounter, newProposalChan, writing, file,
                 reader, cuts, restarts, issued>>

-----------------------------------------------------------------------------
(* proposalWriter and SaveProposal *)

\* The file is opened, and created if need be.
OpenFile ==
  /\ writing = << >> /\ newProposalChan # << >>
  /\ LET p == Head(newProposalChan) IN
     /\ writing' = proposalToBytes(p)
     /\ file' = IF p.EpochNum \in DOMAIN file THEN file
                ELSE [e \in DOMAIN file \cup {p.EpochNum} |->
                        IF e \in DOMAIN file THEN file[e] ELSE << >>]
  /\ newProposalChan' = Tail(newProposalChan)
  /\ UNCHANGED <<zxidCounter, syncVars, reader, cuts, restarts, issued>>

WriteByte ==
  /\ writing # << >>
  /\ file' = [file EXCEPT ![Head(writing).of.EpochNum] = Append(@, Head(writing))]
  /\ writing' = Tail(writing)
  /\ UNCHANGED <<zxidCounter, syncVars, newProposalChan, reader, cuts, restarts, issued>>

\* Write returns an error, which proposalWriter drops.
WriteFails ==
  /\ writing # << >>
  /\ cuts < MaxCuts
  /\ cuts' = cuts + 1
  /\ writing' = << >>
  /\ UNCHANGED <<zxidCounter, syncVars, newProposalChan, file, reader, restarts, issued>>

-----------------------------------------------------------------------------
(* ReadProposals *)

\* The file is opened and its end sought.  want is what a caller expects: the
\* latest records, as far as no torn record lies in between.  One call is
\* enough: calls share nothing.
ReadProposals(epoch, readCount) ==
  /\ reader.state = "idle"
  /\ reader' =
       IF epoch \notin DOMAIN file THEN [state |-> "failed", want |-> 0]
       ELSE LET f == file[epoch]
                n == behind(f, lastTorn(f), Len(f))
            IN [state |-> "reading", epoch |-> epoch, left |-> readCount,
                curPos |-> Len(f), end |-> Len(f), props |-> << >>,
                want |-> IF readCount <= n THEN readCount
                         ELSE IF torn(f) = {} THEN n ELSE 0]
  /\ UNCHANGED <<zxidCounter, syncVars, newProposalChan, writing, file, cuts,
                 restarts, issued>>

\* One turn of the loop; it ends at the start of the file.
ReadOne ==
  /\ reader.state = "reading"
  /\ \E r \in readBack(file[reader.epoch], reader.curPos) :
       reader' =
         IF ~r.ok THEN [state |-> "failed", want |-> reader.want]
         ELSE [reader EXCEPT !.props = <<r.prop>> \o @, !.curPos = r.curPos,
                             !.left = @ - 1,
                             !.state = IF reader.left = 1 \/ r.curPos = 0
                                       THEN "done" ELSE "reading"]
  /\ UNCHANGED <<zxidCounter, syncVars, newProposalChan, writing, file, cuts,
                 restarts, issued>>

-----------------------------------------------------------------------------
(* Restart *)

\* Mutation: a file of a higher epoch does not replace a lower one.
restoredEpoch_bug ==
  LET E == DOMAIN file \ {0} IN IF E = {} THEN 0 ELSE Min(E)

\* The highest file name above 0.
restoredEpoch == Max(DOMAIN file \cup {0})

\* The count of the last proposal, 0 when reading it fails.
getEpochHighestCount(e) ==
  {IF r.ok THEN r.prop.CountNum ELSE 0 : r \in readBack(file[e], Len(file[e]))}

RestoreZXIDFromDisk ==
  IF restoredEpoch = 0 THEN {<<0, 0>>}
  ELSE {<<restoredEpoch, c>> : c \in getEpochHighestCount(restoredEpoch)}

\* A crash, perhaps in the middle of a write, and proposals.Init.
Restart ==
  /\ restarts < MaxRestarts
  /\ restarts' = restarts + 1
  /\ zxidCounter' \in RestoreZXIDFromDisk
  /\ requestsEnabled' = FALSE /\ requestsProcessingEnabled' = FALSE
  /\ syncing' = FALSE /\ currentSync' = <<0, 0>>
  /\ newProposalChan' = << >> /\ writing' = << >>
  /\ reader' = Idle
  /\ UNCHANGED <<file, cuts, issued>>

Next ==
  \/ Continue
  \/ processACK
  \/ processRequest
  \/ Pause
  \/ OpenFile
  \/ WriteByte
  \/ WriteFails
  \/ \E e \in {p.EpochNum : p \in Range(issued)} :
       \E n \in 1..Len(ContentSize) : ReadProposals(e, n)
  \/ ReadOne
  \/ Restart

Spec == Init /\ [][Next]_vars

-----------------------------------------------------------------------------
(* Properties *)

\* A read that asks for no more than what lies behind the last torn record,
\* or for anything when no record is torn, returns exactly the latest
\* proposals in the order they were saved, whatever is appended meanwhile
\* (ReadProposals: Seek, two ReadAt, and the check for the start).
ReadsWhatWasSaved ==
  reader.state \in {"done", "failed"} /\ reader.want > 0 =>
    /\ reader.state = "done"
    /\ Len(reader.props) = reader.want
    /\ LET f == file[reader.epoch] IN
       \A k \in 1..reader.want : \E i \in ends(f) :
         /\ i <= reader.end
         /\ f[i].of = reader.props[k]
         /\ behind(f, i, reader.end) = reader.want - k

\* Epoch numbers are not used up.
epochsLeft == \A i \in DOMAIN issued : issued[i].EpochNum + 1 < EpochLimit

\* An epoch has had more proposals than there are numbers, its NewLeader counted
\* as often as it was saved; the first epoch has no 0.
exhausted(e) ==
  Cardinality({i \in DOMAIN issued : issued[i].EpochNum = e})
    > CountLimit - (IF e = 0 THEN 1 ELSE 0)

\* The zxid a server reports is not below that of its last record, and not of a
\* lower epoch than any of its files: the epoch survives even a torn record,
\* the count does when the last record is whole.  (The last record may be a
\* NewLeader saved again, behind higher counts; see LogInZxidOrder.)  Epoch 0
\* is not restored (RestoreZXIDFromDisk looks for epochs above 0).
NeverBehindLog ==
  epochsLeft =>
    \A e \in DOMAIN file \ {0} :
      /\ e <= zxidCounter[1]
      /\ e = zxidCounter[1] /\ ~exhausted(e) /\ Len(file[e]) \in ends(file[e])
           => Last(file[e]).of.CountNum <= zxidCounter[2]

\* The same without the exception for the first epoch.
NeverBehindFirstEpoch ==
  0 \in DOMAIN file /\ zxidCounter[1] = 0 /\ Len(file[0]) \in ends(file[0])
    => Last(file[0]).of.CountNum <= zxidCounter[2]

\* Within a file counts only grow, but for the NewLeader of the epoch, which an
\* election during its sync saves again: no crash, torn record or restart makes
\* a server save another proposal under a zxid it has on disk, because it opens
\* a new epoch first (SendNewLeader, incEpoch).  Only the first epoch is begun
\* anew by a restart.
LogInZxidOrder ==
  epochsLeft =>
    \A e \in DOMAIN file :
      ~exhausted(e) /\ (e = 0 => restarts = 0) =>
        \A i, j \in ends(file[e]) :
          LET p == file[e][i].of
              q == file[e][j].of
          IN i < j => p.CountNum < q.CountNum \/ (e # 0 /\ q.CountNum = 0)

\* The same without the exception for the NewLeader.
CountsGrow ==
  \A e \in DOMAIN file \ {0} : \A i, j \in ends(file[e]) :
    ~exhausted(e) /\ i < j => file[e][i].of.CountNum < file[e][j].of.CountNum

\* No zxid is given to two proposals (incEpoch, incCount), the first epoch,
\* exhausted ones and the NewLeader, which is saved again, left aside.
ZxidsAreUnique ==
  \A i, j \in DOMAIN issued :
    LET z(k) == <<issued[k].EpochNum, issued[k].CountNum>> IN
    i # j /\ z(i) = z(j) =>
      issued[i].EpochNum = 0 \/ issued[i].CountNum = 0 \/ exhausted(issued[i].EpochNum)

\* Whatever is read back was once saved.
OnlySavedIsRead ==
  reader.state = "done" => \A i \in DOMAIN reader.props : reader.props[i] \in Range(issued)
=============================================================================

------------------------- MODULE RaftElectionProofs -------------------------
(***************************************************************************)
(* Shape is an invariant of every instance of RaftNode: facts about        *)
(* numbers, finite sets and the operators of RaftNode, one lemma per       *)
(* helper, one per action, then the theorem.                               *)
(*                                                                         *)
(* Election Safety holds for every number of servers, while the            *)
(* configuration stays the initial one: Ballots is inductive relative to   *)
(* Shape, and implies that two leaders of one term share a voter who voted *)
(* once.  With it the timer of every server suits its role.                *)
(***************************************************************************)
EXTENDS RaftSafety, TLAPS, FiniteSetTheorems, SequenceTheorems, WellFoundedInduction

-----------------------------------------------------------------------------
(***************************************************************************)
(* Shape: what every variable and message looks like.  Configurations are  *)
(* the initial one and those change_config was asked for.                  *)
(***************************************************************************)
KnownVoters == Proposals \cup {InitialVoters}
KnownCommands == ClientCommands \cup [kind : {"config"}, voters : KnownVoters]
KnownEntries == [term : Nat, cmd : KnownCommands]
KnownConfigs == [voters : KnownVoters, index : Nat]
KnownSnapshots == [lastIndex : Nat, lastTerm : Nat, image : Seq(KnownCommands),
                   voters : KnownVoters]

ReadRecords == [id : Nat, client : Clients, req : Nat, index : Nat,
                acks : SUBSET Nodes, floor : Nat]

CommitRecords == [index : Nat, entry : KnownEntries, term : Nat]

ShapedElections ==
    /\ term \in [Nodes -> Nat]
    /\ votedFor \in [Nodes -> Nodes \cup {None}]
    /\ role \in [Nodes -> {"follower", "candidate", "leader"}]
    /\ votes \in [Nodes -> SUBSET Nodes]
    /\ timer \in [Nodes -> {"none", "election", "heartbeat"}]
    /\ alive \in [Nodes -> BOOLEAN]
    /\ crashes \in Nat
    /\ leadersByTerm \subseteq Nat \X Nodes

\* A snapshot holds as many commands as it covers indices.
SnapshotFull(s) == s \in KnownSnapshots /\ Len(s.image) = s.lastIndex

\* Nothing above a snapshot is forgotten: the commit index covers it.
ShapedLogs ==
    /\ log \in [Nodes -> Seq(KnownEntries)]
    /\ snapshot \in [Nodes -> KnownSnapshots]
    /\ config \in [Nodes -> KnownConfigs]
    /\ commitIndex \in [Nodes -> Nat]
    /\ applied \in [Nodes -> Seq(KnownCommands)]
    /\ \A n \in Nodes :
         /\ SnapshotFull(snapshot[n])
         /\ Base(n) <= commitIndex[n]
         /\ Len(applied[n]) = commitIndex[n]
    /\ committed \subseteq CommitRecords
    /\ IsFiniteSet(committed)

ShapedLeaders ==
    /\ nextIndex \in [Nodes -> [Nodes -> Nat \ {0}]]
    /\ matchIndex \in [Nodes -> [Nodes -> Nat]]
    /\ clientIndex \in [Nodes -> [Clients -> Nat]]
    /\ committedThisTerm \in [Nodes -> BOOLEAN]

ShapedReads ==
    /\ pendingReads \in [Nodes -> SUBSET ReadRecords]
    /\ nextReadId \in [Nodes -> Nat]
    /\ nextReq \in [Clients -> Nat]

\* The fields of a message, but for the term of the entry before its entries.
ShapedMessage(m) ==
    /\ m.term \in Nat
    /\ m.from \in Nodes
    /\ m.to \in Nodes
    /\ \/ m.type = "RequestVote"
       \/ m.type = "VoteReply"
       \/ /\ m.type = "AppendEntries"
          /\ m.prevIndex \in Nat
          /\ m.entries \in Seq(KnownEntries)
          /\ m.commit \in Nat
       \/ /\ m.type = "AppendReply"
          /\ m.match \in Nat
       \/ /\ m.type = "InstallSnapshot"
          /\ SnapshotFull(m.snapshot)
       \/ m.type = "ReadHeartbeat"
       \/ m.type = "ReadAck"

ShapedNetwork == \A m \in network : ShapedMessage(m)

Shape ==
    /\ ShapedElections
    /\ ShapedLogs
    /\ ShapedLeaders
    /\ ShapedReads
    /\ ShapedNetwork

-----------------------------------------------------------------------------
(***************************************************************************)
(* Least and greatest numbers.                                             *)
(***************************************************************************)
\* The least-number principle.
LEMMA LeastNumber ==
    ASSUME NEW S \in SUBSET Nat, S # {}
    PROVE  \E x \in S : \A y \in S : x <= y
<1> DEFINE R == OpToRel(<, Nat)
<1>1. IsWellFoundedOn(R, Nat)
  BY NatLessThanWellFounded
<1>2. \A x, y \in Nat : <<y, x>> \in R <=> y < x
  BY Zenon DEF OpToRel
<1> HIDE DEF R
<1>3. PICK x \in S : \A y \in S : ~(<<y, x>> \in R)
  BY <1>1, WFMin
<1>4. \A y \in S : y \in Nat /\ x \in Nat /\ ~(y < x)
  BY <1>2, <1>3
<1>5. \A y \in S : x <= y
  BY <1>4
<1> QED  BY <1>5

\* A bounded set of integers has a least and a greatest element.
LEMMA BoundedMin ==
    ASSUME NEW a \in Int, NEW S \in SUBSET Int, S # {}, \A x \in S : a <= x
    PROVE  Min(S) \in S /\ \A y \in S : Min(S) <= y
<1> DEFINE T == {x - a : x \in S}
<1>0. \A x \in S : x \in Int /\ x - a \in Nat
  OBVIOUS
<1>1. T \in SUBSET Nat /\ T # {}
  BY <1>0
<1>2. PICK t \in T : \A u \in T : t <= u
  BY <1>1, LeastNumber
<1>3. PICK x \in S : t = x - a
  OBVIOUS
<1>4. \A y \in S : y - a \in T
  OBVIOUS
<1>5. \A y \in S : x <= y
  <2> TAKE y \in S
  <2>1. x - a <= y - a
    BY <1>2, <1>3, <1>4
  <2>2. x \in Int /\ y \in Int
    BY <1>0
  <2> QED  BY <2>1, <2>2
<1> QED  BY <1>5 DEF Min

LEMMA BoundedMax ==
    ASSUME NEW b \in Int, NEW S \in SUBSET Int, S # {}, \A x \in S : x <= b
    PROVE  Max(S) \in S /\ \A y \in S : y <= Max(S)
<1> DEFINE T == {b - x : x \in S}
<1>0. \A x \in S : x \in Int /\ b - x \in Nat
  OBVIOUS
<1>1. T \in SUBSET Nat /\ T # {}
  BY <1>0
<1>2. PICK t \in T : \A u \in T : t <= u
  BY <1>1, LeastNumber
<1>3. PICK x \in S : t = b - x
  OBVIOUS
<1>4. \A y \in S : b - y \in T
  OBVIOUS
<1>5. \A y \in S : y <= x
  <2> TAKE y \in S
  <2>1. b - x <= b - y
    BY <1>2, <1>3, <1>4
  <2>2. x \in Int /\ y \in Int
    BY <1>0
  <2> QED  BY <2>1, <2>2
<1>6. \A y \in S : x >= y
  BY <1>5
<1>7. \E z \in S : \A y \in S : z >= y
  BY <1>6
<1>8. Max(S) \in S /\ \A y \in S : Max(S) >= y
  BY <1>7 DEF Max
<1> QED  BY <1>8

\* A finite set of naturals is bounded.
LEMMA FiniteBounded ==
    ASSUME NEW S \in SUBSET Nat, IsFiniteSet(S)
    PROVE  \E b \in Nat : \A x \in S : x <= b
<1> DEFINE Unbounded(T) == \A b \in Nat : \E x \in T : ~(x <= b)
           C == {k \in Nat : \E T \in SUBSET Nat :
                   IsFiniteSet(T) /\ Cardinality(T) = k /\ Unbounded(T)}
<1>1. CASE C = {}
  <2>1. Cardinality(S) \in Nat
    BY FS_CardinalityType
  <2> QED  BY <1>1, <2>1
<1>2. CASE C # {}
  <2>1. PICK k \in C : \A j \in C : k <= j
    BY <1>2, LeastNumber
  <2>2. PICK T \in SUBSET Nat : /\ IsFiniteSet(T)
                               /\ Cardinality(T) = k
                               /\ Unbounded(T)
    BY <2>1
  <2>3. PICK x \in T : TRUE
    BY <2>2
  <2>4. /\ IsFiniteSet(T \ {x})
        /\ Cardinality(T \ {x}) = k - 1
        /\ Cardinality(T \ {x}) \in Nat
    BY <2>2, <2>3, FS_RemoveElement, FS_CardinalityType
  <2>5. k - 1 \notin C
    BY <2>1
  <2>6. PICK b \in Nat : \A y \in T \ {x} : y <= b
    BY <2>4, <2>5
  <2>7. \A y \in T : y <= b + x
    BY <2>3, <2>6
  <2>8. b + x \in Nat
    BY <2>3
  <2> QED  BY <2>2, <2>7, <2>8
<1> QED  BY <1>1, <1>2

LEMMA FiniteMax ==
    ASSUME NEW S \in SUBSET Nat, IsFiniteSet(S), S # {}
    PROVE  Max(S) \in S /\ \A y \in S : y <= Max(S)
<1>1. PICK b \in Nat : \A x \in S : x <= b
  BY FiniteBounded
<1> QED  BY <1>1, BoundedMax

\* What a function yields on a finite set is finite.
LEMMA FiniteImage ==
    ASSUME NEW S, IsFiniteSet(S), NEW f
    PROVE  IsFiniteSet({f[x] : x \in S})
<1> DEFINE T == {f[x] : x \in S}
           g == [x \in S |-> f[x]]
<1>1. g \in Surjection(S, T)
  BY DEF Surjection
<1> HIDE DEF T, g
<1>2. IsFiniteSet(T)
  BY <1>1, FS_Surjection
<1> QED  BY <1>2 DEF T

-----------------------------------------------------------------------------
(***************************************************************************)
(* Majorities.                                                             *)
(***************************************************************************)
\* Two majorities of one configuration share a server.
LEMMA MajoritiesMeet ==
    ASSUME NEW V, IsFiniteSet(V), NEW S, NEW T, Majority(S, V), Majority(T, V)
    PROVE  \E v \in V : v \in S /\ v \in T
<1>1. /\ Cardinality(V) \in Nat
      /\ Cardinality(S \cap V) \in Nat
      /\ Cardinality(T \cap V) \in Nat
  <2>1. IsFiniteSet(S \cap V) /\ IsFiniteSet(T \cap V)
    BY FS_Subset
  <2> QED  BY <2>1, FS_CardinalityType
<1>2. Cardinality(S \cap V) + Cardinality(T \cap V) > Cardinality(V)
  BY <1>1 DEF Majority
<1>3. (S \cap V) \cap (T \cap V) # {}
  BY <1>2, FS_MajoritiesIntersect
<1> QED  BY <1>3

\* More votes never lose a majority.
LEMMA MajorityGrows ==
    ASSUME NEW V, IsFiniteSet(V), NEW S, NEW T, S \subseteq T, Majority(S, V)
    PROVE  Majority(T, V)
<1>1. IsFiniteSet(T \cap V) /\ S \cap V \subseteq T \cap V
  BY FS_Subset
<1>2. Cardinality(S \cap V) <= Cardinality(T \cap V)
  BY <1>1, FS_Subset
<1>3. /\ Cardinality(V) \in Nat
      /\ Cardinality(S \cap V) \in Nat
      /\ Cardinality(T \cap V) \in Nat
  BY <1>1, FS_Subset, FS_CardinalityType
<1> QED  BY <1>2, <1>3 DEF Majority

-----------------------------------------------------------------------------
(***************************************************************************)
(* Sequences and configurations.                                           *)
(***************************************************************************)
\* A stretch of a sequence that does not reach past its end.
LEMMA Stretch ==
    ASSUME NEW S, NEW s \in Seq(S), NEW a \in Nat \ {0}, NEW b \in Int,
           b <= Len(s)
    PROVE  /\ SubSeq(s, a, b) \in Seq(S)
           /\ Len(SubSeq(s, a, b)) = IF a <= b THEN b - a + 1 ELSE 0
<1>1. \A i \in a .. b : i \in 1 .. Len(s)
  BY LenProperties
<1>2. \A i \in a .. b : s[i] \in S
  BY <1>1, ElementOfSeq
<1> QED  BY <1>2, SubSeqProperties

LEMMA StretchElement ==
    ASSUME NEW S, NEW s \in Seq(S), NEW a \in Nat \ {0}, NEW b \in Int,
           b <= Len(s), NEW i \in 1 .. b - a + 1
    PROVE  SubSeq(s, a, b)[i] = s[a + i - 1]
<1>1. \A j \in a .. b : j \in 1 .. Len(s)
  BY LenProperties
<1>2. \A j \in a .. b : s[j] \in S
  BY <1>1, ElementOfSeq
<1> QED  BY <1>2, SubSeqProperties

LEMMA FunctionIsSeq ==
    ASSUME NEW S, NEW k \in Nat, NEW f \in [1 .. k -> S]
    PROVE  f \in Seq(S) /\ Len(f) = k
<1>1. f \in Seq(S)
  BY SeqDef
<1>2. DOMAIN f = 1 .. k /\ DOMAIN f = 1 .. Len(f) /\ Len(f) \in Nat
  BY <1>1, LenProperties
<1> QED  BY <1>1, <1>2

\* Whatever is scanned for configuration entries, a known one is in force.
LEMMA ConfigAfterKnown ==
    ASSUME NEW lg \in Seq(KnownEntries), NEW offset \in Nat,
           NEW cfg \in KnownConfigs
    PROVE  ConfigAfter(lg, offset, cfg) \in KnownConfigs
<1> DEFINE I == {i \in 1 .. Len(lg) : IsConfigEntry(lg[i])}
<1>1. CASE I = {}
  <2>1. SelectLastInSeq(lg, IsConfigEntry) = 0
    BY <1>1 DEF SelectLastInSeq
  <2> QED  BY <2>1 DEF ConfigAfter
<1>2. CASE I # {}
  <2>1. Len(lg) \in Nat
    BY LenProperties
  <2>2. Max(I) \in I
    <3>1. I \in SUBSET Int /\ Len(lg) \in Int
      BY <2>1
    <3>2. \A x \in I : x <= Len(lg)
      BY <2>1
    <3> HIDE DEF I
    <3> QED  BY <1>2, <3>1, <3>2, BoundedMax, Zenon
  <2>3. SelectLastInSeq(lg, IsConfigEntry) = Max(I)
    BY <1>2 DEF SelectLastInSeq
  <2>4. PICK i \in 1 .. Len(lg) : i = Max(I) /\ IsConfigEntry(lg[i])
    BY <2>2
  <2>5. lg[i] \in KnownEntries
    BY <2>4, ElementOfSeq
  <2>6. lg[i].cmd.voters \in KnownVoters
    BY <2>4, <2>5 DEF KnownEntries, KnownCommands, ClientCommands, IsConfigEntry
  <2>7. ConfigAfter(lg, offset, cfg) = [voters |-> lg[i].cmd.voters, index |-> offset + i]
    BY <2>3, <2>4 DEF ConfigAfter
  <2> QED  BY <2>6, <2>7 DEF KnownConfigs
<1> QED  BY <1>1, <1>2

LEMMA ConfigInKnown ==
    ASSUME NEW lg \in Seq(KnownEntries), NEW s \in KnownSnapshots
    PROVE  ConfigIn(lg, s) \in KnownConfigs
BY ConfigAfterKnown DEF ConfigIn, KnownSnapshots, KnownConfigs

\* Every known configuration is a set of servers.
LEMMA KnownVotersAreNodes == KnownVoters \subseteq SUBSET Nodes
BY ConstantsAssumption DEF KnownVoters

-----------------------------------------------------------------------------
(***************************************************************************)
(* Numbers read from shaped state.                                         *)
(***************************************************************************)
LEMMA IndexTypes ==
    ASSUME Shape, NEW n \in Nodes
    PROVE  /\ Base(n) \in Nat
           /\ Len(log[n]) \in Nat
           /\ LastIndex(n) \in Nat
           /\ commitIndex[n] \in Nat
           /\ Base(n) <= commitIndex[n]
           /\ log[n] \in Seq(KnownEntries)
           /\ snapshot[n] \in KnownSnapshots
           /\ config[n] \in KnownConfigs
           /\ config[n].voters \subseteq Nodes
           /\ term[n] \in Nat
<1>1. /\ log[n] \in Seq(KnownEntries)
      /\ snapshot[n] \in KnownSnapshots
      /\ config[n] \in KnownConfigs
      /\ commitIndex[n] \in Nat
      /\ Base(n) <= commitIndex[n]
      /\ term[n] \in Nat
  BY DEF Shape, ShapedLogs, ShapedElections
<1>2. Len(log[n]) \in Nat
  BY <1>1, LenProperties
<1>3. snapshot[n].lastIndex \in Nat
  BY <1>1 DEF KnownSnapshots
<1>4. config[n].voters \subseteq Nodes
  BY <1>1, KnownVotersAreNodes DEF KnownConfigs
<1> QED  BY <1>1, <1>2, <1>3, <1>4 DEF Base, LastIndex

-----------------------------------------------------------------------------
(***************************************************************************)
(* Messages.                                                               *)
(***************************************************************************)
LEMMA SendShaped ==
    ASSUME ShapedNetwork, NEW ms, \A m \in ms : ShapedMessage(m), Send(ms)
    PROVE  ShapedNetwork'
<1>1. \A m \in network' : ShapedMessage(m)
  BY DEF Send, ShapedNetwork
<1> QED  BY <1>1 DEF ShapedNetwork, ShapedMessage

LEMMA ReplyShaped ==
    ASSUME NEW t \in Nat, NEW n \in Nodes, NEW p \in Nodes, NEW ok,
           NEW match \in Nat
    PROVE  /\ ShapedMessage(AppendReply(t, n, p, ok, match))
           /\ ShapedMessage(VoteReply(t, n, p, ok))
BY DEF ShapedMessage, AppendReply, VoteReply

LEMMA ReplicateShaped ==
    ASSUME Shape, NEW n \in Nodes, NEW p \in Nodes, NEW t \in Nat,
           NEW lg \in Seq(KnownEntries), NEW nxt \in Nat \ {0}
    PROVE  ShapedMessage(Replicate(n, t, p, lg, nxt))
<1>1. /\ Base(n) \in Nat
      /\ commitIndex[n] \in Nat
      /\ SnapshotFull(snapshot[n])
  BY IndexTypes DEF Shape, ShapedLogs
<1>2. CASE nxt - 1 < Base(n)
  BY <1>1, <1>2 DEF Replicate, ShapedMessage
<1>3. CASE ~(nxt - 1 < Base(n))
  <2>1. nxt - Base(n) \in Nat \ {0} /\ Len(lg) \in Int
    BY <1>1, <1>3, LenProperties
  <2>2. SubSeq(lg, nxt - Base(n), Len(lg)) \in Seq(KnownEntries)
    BY <2>1, Stretch
  <2>3. nxt - 1 \in Nat
    OBVIOUS
  <2> QED  BY <1>1, <1>3, <2>2, <2>3 DEF Replicate, ShapedMessage
<1> QED  BY <1>2, <1>3

LEMMA BroadcastShaped ==
    ASSUME Shape, NEW n \in Nodes, NEW t \in Nat, NEW lg \in Seq(KnownEntries),
           NEW nxt \in [Nodes -> Nat \ {0}], NEW voters \in SUBSET Nodes
    PROVE  \A m \in Broadcast(n, t, lg, nxt, voters) : ShapedMessage(m)
<1>1. \A p \in voters \ {n} : p \in Nodes /\ nxt[p] \in Nat \ {0}
  OBVIOUS
<1> QED  BY <1>1, ReplicateShaped DEF Broadcast

-----------------------------------------------------------------------------
(***************************************************************************)
(* Committing and compacting.                                              *)
(***************************************************************************)
LEMMA ObserveShaped ==
    ASSUME Shape, NEW n \in Nodes, NEW lg \in Seq(KnownEntries), NEW ci \in Nat,
           NEW t \in Nat, ci <= Base(n) + Len(lg), Observe(n, lg, ci, t)
    PROVE  committed' \subseteq CommitRecords /\ IsFiniteSet(committed')
<1> DEFINE fresh == {i \in commitIndex[n] + 1 .. ci :
                       \A rec \in committed : rec.index # i}
           f == [i \in Nat |-> [index |-> i, entry |-> lg[i - Base(n)], term |-> t]]
<1>1. /\ commitIndex[n] \in Nat
      /\ Base(n) \in Nat
      /\ Base(n) <= commitIndex[n]
      /\ Len(lg) \in Nat
  BY IndexTypes, LenProperties
<1>2. \A i \in fresh : i \in Nat /\ i - Base(n) \in 1 .. Len(lg)
  BY <1>1
<1>3. \A i \in fresh : lg[i - Base(n)] \in KnownEntries
  BY <1>2, ElementOfSeq
<1>4. \A i \in fresh : f[i] \in CommitRecords
  BY <1>2, <1>3 DEF CommitRecords
<1>5. IsFiniteSet(fresh)
  <2>1. IsFiniteSet(commitIndex[n] + 1 .. ci)
    <3>1. commitIndex[n] + 1 \in Int /\ ci \in Int
      BY <1>1
    <3> QED  BY <3>1, FS_Interval, Zenon
  <2>2. fresh \in SUBSET (commitIndex[n] + 1 .. ci)
    OBVIOUS
  <2> QED  BY <2>1, <2>2, FS_Subset
<1>6. committed' = committed \cup {f[i] : i \in fresh}
  BY <1>2 DEF Observe
<1>7. committed \subseteq CommitRecords /\ IsFiniteSet(committed)
  BY DEF Shape, ShapedLogs
<1> HIDE DEF fresh, f
<1>8. IsFiniteSet({f[i] : i \in fresh})
  BY <1>5, FiniteImage
<1> QED  BY <1>4, <1>6, <1>7, <1>8, FS_Union

LEMMA CompactedShaped ==
    ASSUME Shape, NEW n \in Nodes, NEW lg \in Seq(KnownEntries), NEW ci \in Nat,
           commitIndex[n] < ci, ci <= Base(n) + Len(lg),
           NEW image \in Seq(KnownCommands), Len(image) = ci
    PROVE  /\ SnapshotFull(Compacted(n, lg, ci, image))
           /\ Compacted(n, lg, ci, image).lastIndex = ci
           /\ SubSeq(lg, ci - Base(n) + 1, Len(lg)) \in Seq(KnownEntries)
<1>1. /\ Base(n) \in Nat
      /\ Base(n) <= commitIndex[n]
      /\ commitIndex[n] \in Nat
      /\ Len(lg) \in Nat
      /\ snapshot[n] \in KnownSnapshots
  BY IndexTypes, LenProperties
<1>2. ci - Base(n) \in 1 .. Len(lg)
  BY <1>1
<1>3. lg[ci - Base(n)].term \in Nat
  <2>1. lg[ci - Base(n)] \in KnownEntries
    BY <1>2, ElementOfSeq
  <2> QED  BY <2>1 DEF KnownEntries
<1>4. SubSeq(lg, 1, ci - Base(n)) \in Seq(KnownEntries)
  BY <1>2, Stretch
<1>5. ConfigIn(SubSeq(lg, 1, ci - Base(n)), snapshot[n]).voters \in KnownVoters
  BY <1>1, <1>4, ConfigInKnown DEF KnownConfigs
<1>6. SubSeq(lg, ci - Base(n) + 1, Len(lg)) \in Seq(KnownEntries)
  BY <1>1, <1>2, Stretch
<1> QED  BY <1>3, <1>5, <1>6 DEF Compacted, SnapshotFull, KnownSnapshots

LEMMA MoveOnShaped ==
    ASSUME Shape, NEW cmds, ClientsMoveOn(cmds)
    PROVE  nextReq' \in [Clients -> Nat]
BY DEF Shape, ShapedReads, ClientsMoveOn

LEMMA SetCommitIndexShaped ==
    ASSUME Shape, NEW n \in Nodes, NEW lg \in Seq(KnownEntries), NEW ci \in Nat,
           NEW t \in Nat, SetCommitIndex(n, lg, ci, t),
           ci > commitIndex[n] => ci <= Base(n) + Len(lg)
    PROVE  /\ config' \in [Nodes -> KnownConfigs] => ShapedLogs'
           /\ nextReq' \in [Clients -> Nat]
<1> DEFINE fed == [i \in 1 .. ci - commitIndex[n] |->
                     lg[commitIndex[n] - Base(n) + i].cmd]
           history == applied[n] \o fed
<1>1. CASE ci <= commitIndex[n]
  <2>1. /\ log' = [log EXCEPT ![n] = lg]
        /\ UNCHANGED <<snapshot, commitIndex, applied, nextReq, committed>>
    BY <1>1, IndexTypes DEF SetCommitIndex, commitVars
  <2> QED  BY <2>1 DEF Shape, ShapedLogs, ShapedReads, SnapshotFull, Base
<1>2. CASE ci > commitIndex[n]
  <2>1. /\ commitIndex' = [commitIndex EXCEPT ![n] = ci]
        /\ applied' = [applied EXCEPT ![n] = history]
        /\ Observe(n, lg, ci, t)
        /\ ClientsMoveOn(Range(fed))
        /\ \/ /\ snapshot' = [snapshot EXCEPT ![n] = Compacted(n, lg, ci, history)]
              /\ log' = [log EXCEPT ![n] = SubSeq(lg, ci - Base(n) + 1, Len(lg))]
           \/ /\ log' = [log EXCEPT ![n] = lg]
              /\ UNCHANGED snapshot
    <3>1. ~(ci <= commitIndex[n])
      BY <1>2, IndexTypes
    <3> QED  BY <3>1, Zenon DEF SetCommitIndex
  <2>2. /\ Base(n) \in Nat
        /\ commitIndex[n] \in Nat
        /\ Base(n) <= commitIndex[n]
        /\ Len(lg) \in Nat
        /\ applied[n] \in Seq(KnownCommands)
        /\ Len(applied[n]) = commitIndex[n]
    BY IndexTypes, LenProperties DEF Shape, ShapedLogs
  <2>3. fed \in Seq(KnownCommands) /\ Len(fed) = ci - commitIndex[n]
    <3>1. \A i \in 1 .. ci - commitIndex[n] :
            commitIndex[n] - Base(n) + i \in 1 .. Len(lg)
      BY <1>2, <2>2
    <3>2. \A i \in 1 .. ci - commitIndex[n] :
            lg[commitIndex[n] - Base(n) + i] \in KnownEntries
      BY <3>1, ElementOfSeq
    <3>4. \A i \in 1 .. ci - commitIndex[n] :
            lg[commitIndex[n] - Base(n) + i].cmd \in KnownCommands
      BY <3>2 DEF KnownEntries
    <3>3. ci - commitIndex[n] \in Nat
      BY <1>2, <2>2
    <3>5. fed \in [1 .. ci - commitIndex[n] -> KnownCommands]
      BY <3>4
    <3> HIDE DEF fed
    <3> QED  BY <3>3, <3>5, FunctionIsSeq
  <2> HIDE DEF fed
  <2>4. history \in Seq(KnownCommands) /\ Len(history) = ci
    <3>1. /\ history \in Seq(KnownCommands)
          /\ Len(history) = Len(applied[n]) + Len(fed)
      BY <2>2, <2>3, ConcatProperties
    <3> QED  BY <2>2, <2>3, <3>1
  <2> HIDE DEF history
  <2>5. nextReq' \in [Clients -> Nat]
    BY <2>1, MoveOnShaped
  <2>6. committed' \subseteq CommitRecords /\ IsFiniteSet(committed')
    BY <1>2, <2>1, ObserveShaped
  <2>7. /\ SnapshotFull(Compacted(n, lg, ci, history))
        /\ Compacted(n, lg, ci, history).lastIndex = ci
        /\ SubSeq(lg, ci - Base(n) + 1, Len(lg)) \in Seq(KnownEntries)
    BY <1>2, <2>4, CompactedShaped
  <2>8. /\ log' \in [Nodes -> Seq(KnownEntries)]
        /\ commitIndex' \in [Nodes -> Nat]
        /\ applied' \in [Nodes -> Seq(KnownCommands)]
        /\ snapshot' \in [Nodes -> KnownSnapshots]
    BY <2>1, <2>4, <2>7 DEF Shape, ShapedLogs, SnapshotFull
  <2>9. \A k \in Nodes : /\ SnapshotFull(snapshot'[k])
                          /\ snapshot'[k].lastIndex <= commitIndex'[k]
                          /\ Len(applied'[k]) = commitIndex'[k]
    <3> SUFFICES ASSUME NEW k \in Nodes
                 PROVE  /\ SnapshotFull(snapshot'[k])
                        /\ snapshot'[k].lastIndex <= commitIndex'[k]
                        /\ Len(applied'[k]) = commitIndex'[k]
      OBVIOUS
    <3>1. CASE k = n
      BY <1>2, <2>1, <2>2, <2>4, <2>7, <3>1 DEF Shape, ShapedLogs, Base
    <3>2. CASE k # n
      BY <2>1, <3>2 DEF Shape, ShapedLogs, Base
    <3> QED  BY <3>1, <3>2
  <2> QED  BY <2>5, <2>6, <2>8, <2>9 DEF ShapedLogs, SnapshotFull, Base
<1> QED  BY <1>1, <1>2, IndexTypes

-----------------------------------------------------------------------------
(***************************************************************************)
(* Role transitions.                                                       *)
(***************************************************************************)
LEMMA VoteInType ==
    ASSUME Shape, NEW n \in Nodes, NEW t \in Nat
    PROVE  VoteIn(n, t) \in Nodes \cup {None}
BY DEF Shape, ShapedElections, VoteIn

LEMMA BecomeFollowerShaped ==
    ASSUME Shape, NEW n \in Nodes, NEW t \in Nat, BecomeFollower(n, t),
           UNCHANGED <<votes, leadersByTerm, faultVars, nextReadId>>
    PROVE  /\ ShapedElections'
           /\ nextReq' \in [Clients -> Nat] => ShapedReads'
<1>1. VoteIn(n, t) \in Nodes \cup {None}
  BY VoteInType
<1> QED  BY <1>1 DEF Shape, ShapedElections, ShapedReads, BecomeFollower, faultVars

LEMMA FollowLeaderShaped ==
    ASSUME Shape, NEW n \in Nodes, NEW t \in Nat, FollowLeader(n, t),
           UNCHANGED <<votes, leadersByTerm, faultVars, nextReadId>>
    PROVE  /\ ShapedElections'
           /\ nextReq' \in [Clients -> Nat] => ShapedReads'
<1>1. CASE BecomeFollower(n, t)
  BY <1>1, BecomeFollowerShaped
<1>2. CASE /\ timer' = [timer EXCEPT ![n] = "election"]
           /\ UNCHANGED <<term, votedFor, role, pendingReads>>
  BY <1>2 DEF Shape, ShapedElections, ShapedReads, faultVars
<1> QED  BY <1>1, <1>2 DEF FollowLeader

LEMMA StepDownShaped ==
    ASSUME Shape, NEW n \in Nodes, NEW m \in network, StepDown(n, m),
           UNCHANGED nextReadId
    PROVE  Shape'
<1>1. m.term \in Nat
  BY DEF Shape, ShapedNetwork, ShapedMessage
<1>2. BecomeFollower(n, m.term) /\ UNCHANGED <<votes, leadersByTerm, faultVars, nextReadId>>
  BY DEF StepDown
<1>3. UNCHANGED <<log, snapshot, config, leaderVars, commitVars, network>>
  BY DEF StepDown
<1>4. ShapedElections' /\ (nextReq' \in [Clients -> Nat] => ShapedReads')
  BY <1>1, <1>2, BecomeFollowerShaped
<1>5. ShapedLogs'
  BY <1>3 DEF Shape, ShapedLogs, commitVars, SnapshotFull, Base
<1>6. ShapedLeaders' /\ nextReq' \in [Clients -> Nat]
  BY <1>3 DEF Shape, ShapedLeaders, ShapedReads, leaderVars, commitVars
<1>7. ShapedNetwork'
  BY <1>3 DEF Shape, ShapedNetwork, ShapedMessage
<1> QED  BY <1>4, <1>5, <1>6, <1>7 DEF Shape

\* cmd is a request of client c.
OfClient(cmd, c) == cmd.kind = "client" /\ cmd.client = c

\* What the scan of a log yields for a client is a bound on its requests there.
LEMMA ClientIndexMax ==
    ASSUME NEW lg \in Seq(KnownEntries), NEW c \in Clients
    PROVE  /\ ClientIndexOf(lg)[c] \in Nat
           /\ \A i \in 1 .. Len(lg) :
                OfClient(lg[i].cmd, c) => lg[i].cmd.req <= ClientIndexOf(lg)[c]
<1> DEFINE mine == {f \in Range(lg) : f.cmd.kind = "client" /\ f.cmd.client = c}
           req == [e \in Range(lg) |-> e.cmd.req]
           S == {0} \cup {e.cmd.req : e \in mine}
<1>1. IsFiniteSet(Range(lg))
  <2>1. /\ DOMAIN lg = 1 .. Len(lg)
        /\ Len(lg) \in Nat
    BY LenProperties
  <2>2. IsFiniteSet(DOMAIN lg)
    BY <2>1, FS_Interval
  <2>3. IsFiniteSet({lg[j] : j \in DOMAIN lg})
    BY <2>2, FiniteImage
  <2> QED  BY <2>3 DEF Range
<1>2. \A e \in mine : e.cmd.req \in Nat
  <2>1. \A e \in Range(lg) : e \in KnownEntries
    BY RangeOfSeq
  <2> QED  BY <2>1 DEF KnownEntries, KnownCommands, ClientCommands
<1>3. IsFiniteSet(mine)
  BY <1>1, FS_Subset
<1>4. {e.cmd.req : e \in mine} = {req[e] : e \in mine}
  OBVIOUS
<1>5. IsFiniteSet({req[e] : e \in mine})
  <2> HIDE DEF mine, req
  <2> QED  BY <1>3, FiniteImage
<1>6. IsFiniteSet(S)
  BY <1>4, <1>5, FS_Singleton, FS_Union
<1>7. S \in SUBSET Nat /\ S # {}
  BY <1>2
<1>8. ASSUME NEW i \in 1 .. Len(lg), OfClient(lg[i].cmd, c) PROVE lg[i].cmd.req \in S
  <2>1. lg[i] \in Range(lg)
    BY RangeEquality
  <2>2. lg[i] \in mine
    BY <1>8, <2>1 DEF OfClient
  <2> QED  BY <2>2
<1>9. Max(S) \in Nat /\ \A y \in S : y <= Max(S)
  <2> HIDE DEF S
  <2> QED  BY <1>6, <1>7, FiniteMax
<1>10. ClientIndexOf(lg)[c] = Max(S)
  BY DEF ClientIndexOf
<1> QED  BY <1>8, <1>9, <1>10

LEMMA ClientIndexType ==
    ASSUME NEW lg \in Seq(KnownEntries)
    PROVE  ClientIndexOf(lg) \in [Clients -> Nat]
<1> SUFFICES ASSUME NEW c \in Clients PROVE ClientIndexOf(lg)[c] \in Nat
  BY DEF ClientIndexOf
<1> QED  BY ClientIndexMax

\* The first messages of a leader go out from its own last index.
LEMMA BecomeLeaderShaped ==
    ASSUME Shape, NEW n \in Nodes, NEW t \in Nat, NEW sent,
           \A m \in sent : ShapedMessage(m), BecomeLeader(n, t, sent)
    PROVE  /\ role' = [role EXCEPT ![n] = "leader"]
           /\ timer' = [timer EXCEPT ![n] = "heartbeat"]
           /\ leadersByTerm' \subseteq Nat \X Nodes
           /\ ShapedLeaders'
           /\ ShapedNetwork'
<1> DEFINE next == [p \in Nodes |-> LastIndex(n) + 1]
<1>1. /\ LastIndex(n) \in Nat
      /\ log[n] \in Seq(KnownEntries)
      /\ config[n].voters \in SUBSET Nodes
  BY IndexTypes
<1>2. next \in [Nodes -> Nat \ {0}]
  BY <1>1
<1>3. /\ role' = [role EXCEPT ![n] = "leader"]
      /\ timer' = [timer EXCEPT ![n] = "heartbeat"]
      /\ leadersByTerm' = leadersByTerm \cup {<<t, n>>}
      /\ nextIndex' = [nextIndex EXCEPT ![n] = next]
      /\ matchIndex' = [matchIndex EXCEPT ![n] =
                          [p \in Nodes |-> IF p = n THEN LastIndex(n) ELSE 0]]
      /\ committedThisTerm' = [committedThisTerm EXCEPT ![n] = FALSE]
      /\ clientIndex' = [clientIndex EXCEPT ![n] = ClientIndexOf(log[n])]
      /\ Send(sent \cup Broadcast(n, t, log[n], next, config[n].voters))
  BY DEF BecomeLeader
<1>4. ClientIndexOf(log[n]) \in [Clients -> Nat]
  BY <1>1, ClientIndexType
<1>5. [p \in Nodes |-> IF p = n THEN LastIndex(n) ELSE 0] \in [Nodes -> Nat]
  BY <1>1
<1>6. \A m \in sent \cup Broadcast(n, t, log[n], next, config[n].voters) :
        ShapedMessage(m)
  <2> HIDE DEF next
  <2> QED  BY <1>1, <1>2, BroadcastShaped
<1>7. ShapedNetwork'
  <2> HIDE DEF next
  <2> QED  BY <1>3, <1>6, SendShaped DEF Shape
<1>8. ShapedLeaders'
  <2> HIDE DEF next
  <2> QED  BY <1>2, <1>3, <1>4, <1>5 DEF Shape, ShapedLeaders
<1>9. leadersByTerm' \subseteq Nat \X Nodes
  BY <1>3 DEF Shape, ShapedElections
<1> QED  BY <1>3, <1>7, <1>8, <1>9

-----------------------------------------------------------------------------
(***************************************************************************)
(* What an action leaves alone stays shaped.                               *)
(***************************************************************************)
LEMMA SameShaped ==
    ASSUME Shape
    PROVE  /\ UNCHANGED <<electionVars, term, votedFor, faultVars>> => ShapedElections'
           /\ UNCHANGED <<log, snapshot, config, commitIndex, applied, committed>>
                => ShapedLogs'
           /\ UNCHANGED leaderVars => ShapedLeaders'
           /\ UNCHANGED <<readVars, nextReq>> => ShapedReads'
           /\ UNCHANGED network => ShapedNetwork'
<1>1. UNCHANGED <<electionVars, term, votedFor, faultVars>> => ShapedElections'
  BY DEF Shape, ShapedElections, electionVars, faultVars
<1>2. UNCHANGED <<log, snapshot, config, commitIndex, applied, committed>> => ShapedLogs'
  BY DEF Shape, ShapedLogs, SnapshotFull, Base
<1>3. UNCHANGED leaderVars => ShapedLeaders'
  BY DEF Shape, ShapedLeaders, leaderVars
<1>4. UNCHANGED <<readVars, nextReq>> => ShapedReads'
  BY DEF Shape, ShapedReads, readVars
<1>5. UNCHANGED network => ShapedNetwork'
  BY DEF Shape, ShapedNetwork, ShapedMessage
<1> QED  BY <1>1, <1>2, <1>3, <1>4, <1>5

-----------------------------------------------------------------------------
(***************************************************************************)
(* Timers and elections.                                                   *)
(***************************************************************************)
LEMMA StartElectionShaped ==
    ASSUME Shape, NEW n \in Nodes, StartElection(n)
    PROVE  Shape'
<1> DEFINE t == term[n] + 1
           requests == {[type |-> "RequestVote", term |-> t, from |-> n, to |-> p,
                         lastIndex |-> LastIndex(n),
                         lastTerm |-> TermAt(n, LastIndex(n))] :
                          p \in config[n].voters \ {n}}
<1>1. t \in Nat /\ config[n].voters \subseteq Nodes
  BY IndexTypes
<1>2. \A m \in requests : ShapedMessage(m)
  BY <1>1 DEF ShapedMessage
<1>3. /\ term' = [term EXCEPT ![n] = t]
      /\ votedFor' = [votedFor EXCEPT ![n] = n]
      /\ votes' = [votes EXCEPT ![n] = {n}]
      /\ \/ BecomeLeader(n, t, requests)
         \/ /\ role' = [role EXCEPT ![n] = "candidate"]
            /\ timer' = [timer EXCEPT ![n] = "election"]
            /\ Send(requests)
            /\ UNCHANGED <<leadersByTerm, leaderVars>>
      /\ UNCHANGED <<log, snapshot, config, readVars, commitVars, faultVars>>
  BY DEF StartElection
<1> HIDE DEF t, requests
<1>4. /\ ShapedNetwork'
      /\ ShapedLeaders'
      /\ leadersByTerm' \subseteq Nat \X Nodes
      /\ role' \in [Nodes -> {"follower", "candidate", "leader"}]
      /\ timer' \in [Nodes -> {"none", "election", "heartbeat"}]
  <2>1. CASE BecomeLeader(n, t, requests)
    BY <1>1, <1>2, <2>1, BecomeLeaderShaped DEF Shape, ShapedElections
  <2>2. CASE /\ role' = [role EXCEPT ![n] = "candidate"]
             /\ timer' = [timer EXCEPT ![n] = "election"]
             /\ Send(requests)
             /\ UNCHANGED <<leadersByTerm, leaderVars>>
    BY <1>2, <2>2, SendShaped, SameShaped DEF Shape, ShapedElections
  <2> QED  BY <1>3, <2>1, <2>2
<1>5. ShapedElections'
  <2>1. UNCHANGED <<alive, crashes>>
    BY <1>3 DEF faultVars
  <2>2. /\ term' \in [Nodes -> Nat]
        /\ votedFor' \in [Nodes -> Nodes \cup {None}]
        /\ votes' \in [Nodes -> SUBSET Nodes]
    BY <1>1, <1>3 DEF Shape, ShapedElections
  <2> QED  BY <1>4, <2>1, <2>2 DEF Shape, ShapedElections
<1>6. ShapedLogs' /\ ShapedReads'
  BY <1>3, SameShaped DEF commitVars
<1> QED  BY <1>4, <1>5, <1>6 DEF Shape

LEMMA HeartbeatShaped ==
    ASSUME Shape, NEW n \in Nodes, Heartbeat(n)
    PROVE  Shape'
<1>1. /\ Send(Broadcast(n, term[n], log[n], nextIndex[n], config[n].voters))
      /\ UNCHANGED <<persistentVars, config, electionVars, leaderVars, readVars,
                     commitVars, faultVars>>
  BY DEF Heartbeat
<1>2. nextIndex[n] \in [Nodes -> Nat \ {0}]
  BY DEF Shape, ShapedLeaders
<1>3. \A m \in Broadcast(n, term[n], log[n], nextIndex[n], config[n].voters) :
        ShapedMessage(m)
  BY <1>2, IndexTypes, BroadcastShaped
<1>4. ShapedNetwork'
  BY <1>1, <1>3, SendShaped DEF Shape
<1>5. ShapedElections' /\ ShapedLogs' /\ ShapedLeaders' /\ ShapedReads'
  BY <1>1, SameShaped DEF persistentVars, commitVars
<1> QED  BY <1>4, <1>5 DEF Shape

LEMMA HandleRequestVoteShaped ==
    ASSUME Shape, NEW n \in Nodes, NEW m \in network, HandleRequestVote(n, m)
    PROVE  Shape'
<1>1. m.term \in Nat /\ m.from \in Nodes
  BY DEF Shape, ShapedNetwork, ShapedMessage
<1>2. /\ term' = [term EXCEPT ![n] = Larger(term[n], m.term)]
      /\ votedFor' = [votedFor EXCEPT ![n] =
                        IF Grants(n, m) THEN m.from ELSE VoteIn(n, m.term)]
      /\ \/ /\ role' = [role EXCEPT ![n] = "follower"]
            /\ pendingReads' = [pendingReads EXCEPT ![n] = {}]
         \/ UNCHANGED <<role, pendingReads>>
      /\ timer' = [timer EXCEPT ![n] =
                     IF m.term > term[n] \/ Grants(n, m) THEN "election" ELSE timer[n]]
      /\ Send({VoteReply(Larger(term[n], m.term), n, m.from, Grants(n, m))})
      /\ UNCHANGED <<log, snapshot, config, votes, leadersByTerm, leaderVars,
                     nextReadId, commitVars, faultVars>>
  BY DEF HandleRequestVote
<1>3. term[n] \in Nat /\ Larger(term[n], m.term) \in Nat
  BY <1>1, IndexTypes DEF Larger
<1>4. (IF Grants(n, m) THEN m.from ELSE VoteIn(n, m.term)) \in Nodes \cup {None}
  BY <1>1, VoteInType
<1>5. (IF m.term > term[n] \/ Grants(n, m) THEN "election" ELSE timer[n])
        \in {"none", "election", "heartbeat"}
  BY DEF Shape, ShapedElections
<1>6. ShapedElections'
  BY <1>2, <1>3, <1>4, <1>5 DEF Shape, ShapedElections, faultVars
<1>7. ShapedReads'
  BY <1>2 DEF Shape, ShapedReads, commitVars
<1>8. ShapedMessage(VoteReply(Larger(term[n], m.term), n, m.from, Grants(n, m)))
  BY <1>1, <1>3, ReplyShaped DEF ShapedMessage, VoteReply
<1>9. ShapedNetwork'
  BY <1>2, <1>8, SendShaped DEF Shape
<1>10. ShapedLogs' /\ ShapedLeaders'
  BY <1>2, SameShaped DEF commitVars
<1> QED  BY <1>6, <1>7, <1>9, <1>10 DEF Shape

LEMMA HandleVoteReplyShaped ==
    ASSUME Shape, NEW n \in Nodes, NEW m \in network, HandleVoteReply(n, m)
    PROVE  Shape'
<1>1. CASE StepDown(n, m)
  BY <1>1, StepDownShaped DEF StepDown, readVars
<1>2. CASE /\ votes' = [votes EXCEPT ![n] = votes[n] \cup {m.from}]
           /\ \/ BecomeLeader(n, term[n], {})
              \/ UNCHANGED <<role, timer, leadersByTerm, leaderVars, network>>
           /\ UNCHANGED <<persistentVars, config, readVars, commitVars, faultVars>>
  <2>1. votes' \in [Nodes -> SUBSET Nodes]
    BY <1>2 DEF Shape, ShapedElections, ShapedNetwork, ShapedMessage
  <2>2. /\ ShapedLeaders'
        /\ ShapedNetwork'
        /\ leadersByTerm' \subseteq Nat \X Nodes
        /\ role' \in [Nodes -> {"follower", "candidate", "leader"}]
        /\ timer' \in [Nodes -> {"none", "election", "heartbeat"}]
    <3>1. CASE BecomeLeader(n, term[n], {})
      <4>0. PICK sent : sent = {}
        OBVIOUS
      <4>1. /\ term[n] \in Nat
            /\ \A k \in sent : ShapedMessage(k)
            /\ BecomeLeader(n, term[n], sent)
        BY <3>1, <4>0, IndexTypes
      <4>2. /\ role' = [role EXCEPT ![n] = "leader"]
            /\ timer' = [timer EXCEPT ![n] = "heartbeat"]
            /\ leadersByTerm' \subseteq Nat \X Nodes
            /\ ShapedLeaders'
            /\ ShapedNetwork'
        BY <4>1, BecomeLeaderShaped, Zenon
      <4> QED  BY <4>2 DEF Shape, ShapedElections
    <3>2. CASE UNCHANGED <<role, timer, leadersByTerm, leaderVars, network>>
      BY <3>2, SameShaped DEF Shape, ShapedElections
    <3> QED  BY <1>2, <3>1, <3>2
  <2>3. ShapedElections'
    BY <1>2, <2>1, <2>2 DEF Shape, ShapedElections, persistentVars, faultVars
  <2>4. ShapedLogs' /\ ShapedReads'
    BY <1>2, SameShaped DEF persistentVars, commitVars
  <2> QED  BY <2>2, <2>3, <2>4 DEF Shape
<1> QED  BY <1>1, <1>2 DEF HandleVoteReply

-----------------------------------------------------------------------------
(***************************************************************************)
(* AppendEntries.                                                          *)
(***************************************************************************)
\* What is left of a message above the snapshot still has its shape.
LEMMA AboveBaseShaped ==
    ASSUME Shape, NEW n \in Nodes, NEW m \in network, m.type = "AppendEntries"
    PROVE  /\ AboveBase(n, m).prevIndex \in Nat
           /\ AboveBase(n, m).entries \in Seq(KnownEntries)
           /\ m.commit \in Nat
           /\ m.term \in Nat
           /\ m.from \in Nodes
<1>1. /\ m.prevIndex \in Nat
      /\ m.entries \in Seq(KnownEntries)
      /\ m.commit \in Nat
      /\ m.term \in Nat
      /\ m.from \in Nodes
  BY DEF Shape, ShapedNetwork, ShapedMessage
<1>2. Len(m.entries) \in Nat /\ Base(n) \in Nat
  BY <1>1, LenProperties, IndexTypes
<1> DEFINE covered == IF m.prevIndex < Base(n)
                      THEN Smaller(Len(m.entries), Base(n) - m.prevIndex) ELSE 0
<1>3. covered \in Nat
  BY <1>1, <1>2 DEF Smaller
<1>4. AboveBase(n, m).prevIndex = m.prevIndex + covered
  BY DEF AboveBase
<1>5. AboveBase(n, m).entries = SubSeq(m.entries, covered + 1, Len(m.entries))
  BY DEF AboveBase
<1> HIDE DEF covered
<1>6. covered + 1 \in Nat \ {0} /\ Len(m.entries) \in Int
  BY <1>2, <1>3
<1>7. SubSeq(m.entries, covered + 1, Len(m.entries)) \in Seq(KnownEntries)
  BY <1>1, <1>2, <1>6, Stretch
<1> QED  BY <1>1, <1>3, <1>4, <1>5, <1>7

\* A consistent message ends within the log it is merged into.
LEMMA MergedShaped ==
    ASSUME Shape, NEW n \in Nodes, NEW a, a.prevIndex \in Nat,
           a.entries \in Seq(KnownEntries), Consistent(n, a)
    PROVE  /\ Merged(n, a).log \in Seq(KnownEntries)
           /\ Merged(n, a).config \in KnownConfigs
           /\ a.prevIndex + Len(a.entries) > commitIndex[n] =>
                a.prevIndex + Len(a.entries) <= Base(n) + Len(Merged(n, a).log)
<1>1. /\ Base(n) \in Nat
      /\ Len(log[n]) \in Nat
      /\ LastIndex(n) \in Nat
      /\ LastIndex(n) = Base(n) + Len(log[n])
      /\ log[n] \in Seq(KnownEntries)
      /\ config[n] \in KnownConfigs
      /\ snapshot[n] \in KnownSnapshots
      /\ commitIndex[n] \in Nat
      /\ Base(n) <= commitIndex[n]
  BY IndexTypes DEF LastIndex
<1>2. Len(a.entries) \in Nat
  BY LenProperties
<1> DEFINE end == a.prevIndex + Len(a.entries)
           C == Conflicts(n, a)
<1>3. a.prevIndex <= LastIndex(n)
  BY <1>1 DEF Consistent, Larger
<1>4. CASE C = {}
  <2>1. Merged(n, a) = [log |-> log[n], config |-> config[n]]
    BY <1>4 DEF Merged
  <2>2. end <= LastIndex(n)
    <3>1. CASE Len(a.entries) = 0
      BY <1>3, <3>1
    <3>2. CASE Len(a.entries) # 0
      <4>1. end \in a.prevIndex + 1 .. a.prevIndex + Len(a.entries)
        BY <1>2, <3>2
      <4>2. ~(end > LastIndex(n))
        BY <1>4, <4>1 DEF Conflicts
      <4> QED  BY <1>1, <1>2, <4>2
    <3> QED  BY <3>1, <3>2
  <2> QED  BY <1>1, <2>1, <2>2
<1>5. CASE C # {}
  <2> DEFINE first == Min(C)
             kept == SubSeq(log[n], 1, first - 1 - Base(n))
             new == SubSeq(a.entries, first - a.prevIndex, Len(a.entries))
             below == IF config[n].index >= first THEN ConfigIn(kept, snapshot[n])
                      ELSE config[n]
  <2>1. C \in SUBSET Int /\ \A i \in C : a.prevIndex + 1 <= i
    BY <1>2 DEF Conflicts
  <2>2. first \in C /\ \A i \in C : first <= i
    <3> HIDE DEF C
    <3>1. a.prevIndex + 1 \in Int
      OBVIOUS
    <3> QED  BY <1>5, <2>1, <3>1, BoundedMin
  <2>3. Merged(n, a) = [log |-> kept \o new, config |-> ConfigAfter(new, first - 1, below)]
    BY <1>5 DEF Merged
  <2>4. first \in a.prevIndex + 1 .. end
    BY <2>2 DEF Conflicts
  <2>5. first <= LastIndex(n) + 1
    <3>1. CASE end <= LastIndex(n)
      BY <1>1, <1>2, <2>4, <3>1
    <3>2. CASE end > LastIndex(n)
      <4>1. LastIndex(n) + 1 \in a.prevIndex + 1 .. end
        BY <1>1, <1>2, <1>3, <3>2
      <4>2. LastIndex(n) + 1 \in C
        BY <1>1, <4>1 DEF Conflicts
      <4> QED  BY <2>2, <4>2
    <3> QED  BY <1>1, <1>2, <3>1, <3>2
  <2> HIDE DEF C, first
  <2>6. first - 1 - Base(n) \in Int /\ first - 1 - Base(n) <= Len(log[n])
    BY <1>1, <1>2, <2>4, <2>5
  <2>7. kept \in Seq(KnownEntries)
        /\ Len(kept) = IF 1 <= first - 1 - Base(n) THEN first - 1 - Base(n) ELSE 0
    <3>1. /\ kept \in Seq(KnownEntries)
          /\ Len(kept) = IF 1 <= first - 1 - Base(n)
                         THEN (first - 1 - Base(n)) - 1 + 1 ELSE 0
      BY <1>1, <2>6, Stretch
    <3> QED  BY <2>6, <3>1
  <2>8. first - a.prevIndex \in Nat \ {0} /\ first - a.prevIndex <= Len(a.entries)
    BY <1>2, <2>4
  <2>9. new \in Seq(KnownEntries)
        /\ Len(new) = Len(a.entries) - (first - a.prevIndex) + 1
    <3>1. Len(a.entries) \in Int /\ Len(a.entries) <= Len(a.entries)
      BY <1>2
    <3>2. /\ new \in Seq(KnownEntries)
          /\ Len(new) = IF first - a.prevIndex <= Len(a.entries)
                        THEN Len(a.entries) - (first - a.prevIndex) + 1 ELSE 0
      BY <2>8, <3>1, Stretch
    <3> QED  BY <2>8, <3>2
  <2>10. below \in KnownConfigs
    BY <1>1, <2>7, ConfigInKnown
  <2>11. first - 1 \in Nat
    BY <1>2, <2>4
  <2> HIDE DEF kept, new, below
  <2>12. ConfigAfter(new, first - 1, below) \in KnownConfigs
    BY <2>9, <2>10, <2>11, ConfigAfterKnown
  <2>13. kept \o new \in Seq(KnownEntries) /\ Len(kept \o new) = Len(kept) + Len(new)
    BY <2>7, <2>9, ConcatProperties
  <2>14. end <= Base(n) + Len(kept \o new)
    <3>1. end = first - 1 + Len(new)
      <4>1. first \in Int /\ Len(a.entries) \in Int /\ a.prevIndex \in Int
        BY <1>2, <2>4
      <4>2. Len(new) = Len(a.entries) - (first - a.prevIndex) + 1
        BY <2>9
      <4>3. \A p, l, f \in Int : p + l = f - 1 + (l - (f - p) + 1)
        OBVIOUS
      <4>4. end = a.prevIndex + Len(a.entries)
        OBVIOUS
      <4>5. a.prevIndex + Len(a.entries) = first - 1 + (Len(a.entries) - (first - a.prevIndex) + 1)
        BY <4>1, <4>3, Zenon
      <4> QED  BY <4>2, <4>4, <4>5, Zenon
    <3>2. first - 1 <= Base(n) + Len(kept) /\ Len(kept) \in Nat
      BY <1>1, <2>6, <2>7, <2>11
    <3>3. Len(new) \in Nat
      BY <2>9, LenProperties
    <3> HIDE DEF end
    <3> QED  BY <1>1, <2>11, <2>13, <3>1, <3>2, <3>3
  <2> QED  BY <2>3, <2>12, <2>13, <2>14
<1> QED  BY <1>4, <1>5

LEMMA HandleAppendEntriesShaped ==
    ASSUME Shape, NEW n \in Nodes, NEW m \in network, HandleAppendEntries(n, m)
    PROVE  Shape'
<1> DEFINE a == AboveBase(n, m)
           match == a.prevIndex + Len(a.entries)
           ci == FollowerCommit(n, m, match)
<1>1. m.type = "AppendEntries"
  BY DEF HandleAppendEntries
<1>2. /\ a.prevIndex \in Nat
      /\ a.entries \in Seq(KnownEntries)
      /\ m.commit \in Nat
      /\ m.term \in Nat
      /\ m.from \in Nodes
  BY <1>1, AboveBaseShaped
<1> HIDE DEF a
<1>3. match \in Nat /\ term[n] \in Nat /\ commitIndex[n] \in Nat
  BY <1>2, LenProperties, IndexTypes
<1>4. UNCHANGED <<votes, leadersByTerm, leaderVars, nextReadId, faultVars>>
  BY DEF HandleAppendEntries
<1>5. ShapedLeaders'
  BY <1>4, SameShaped
<1>6. CASE /\ Send({AppendReply(term[n], n, m.from, FALSE, 0)})
           /\ UNCHANGED <<persistentVars, config, role, timer, pendingReads, commitVars>>
  <2>1. ShapedMessage(AppendReply(term[n], n, m.from, FALSE, 0))
    BY <1>2, <1>3, ReplyShaped
  <2>2. ShapedNetwork'
    BY <1>6, <2>1, SendShaped DEF Shape
  <2>3. ShapedElections' /\ ShapedLogs' /\ ShapedReads'
    BY <1>4, <1>6, SameShaped
       DEF persistentVars, commitVars, electionVars, readVars
  <2> QED  BY <1>5, <2>2, <2>3 DEF Shape
<1>7. CASE /\ FollowLeader(n, m.term)
           /\ Send({AppendReply(m.term, n, m.from, FALSE, 0)})
           /\ UNCHANGED <<log, snapshot, config, commitVars>>
  <2>1. ShapedMessage(AppendReply(m.term, n, m.from, FALSE, 0))
    BY <1>2, ReplyShaped
  <2>2. ShapedNetwork'
    BY <1>7, <2>1, SendShaped DEF Shape
  <2>3. ShapedLogs' /\ nextReq' \in [Clients -> Nat]
    BY <1>7, SameShaped DEF commitVars, Shape, ShapedReads
  <2>4. ShapedElections' /\ ShapedReads'
    BY <1>2, <1>4, <1>7, <2>3, FollowLeaderShaped
  <2> QED  BY <1>5, <2>2, <2>3, <2>4 DEF Shape
<1>8. CASE /\ FollowLeader(n, m.term)
           /\ Consistent(n, a)
           /\ config' = [config EXCEPT ![n] = Merged(n, a).config]
           /\ SetCommitIndex(n, Merged(n, a).log, ci, m.term)
           /\ Send({AppendReply(m.term, n, m.from, TRUE, match)})
  <2>1. ShapedMessage(AppendReply(m.term, n, m.from, TRUE, match))
    BY <1>2, <1>3, ReplyShaped
  <2>2. ShapedNetwork'
    BY <1>8, <2>1, SendShaped DEF Shape
  <2>3. /\ Merged(n, a).log \in Seq(KnownEntries)
        /\ Merged(n, a).config \in KnownConfigs
        /\ match > commitIndex[n] => match <= Base(n) + Len(Merged(n, a).log)
    BY <1>2, <1>8, MergedShaped
  <2> HIDE DEF match
  <2>4. /\ ci \in Nat
        /\ ci > commitIndex[n] => ci <= match /\ match > commitIndex[n]
    BY <1>2, <1>3 DEF FollowerCommit, Larger, Smaller
  <2>5. ci > commitIndex[n] => ci <= Base(n) + Len(Merged(n, a).log)
    BY <1>3, <2>3, <2>4, IndexTypes, LenProperties
  <2> HIDE DEF ci
  <2>6. config' \in [Nodes -> KnownConfigs]
    BY <1>8, <2>3 DEF Shape, ShapedLogs
  <2>7. ShapedLogs' /\ nextReq' \in [Clients -> Nat]
    BY <1>2, <1>8, <2>3, <2>4, <2>5, <2>6, SetCommitIndexShaped
  <2>8. ShapedElections' /\ ShapedReads'
    BY <1>2, <1>4, <1>8, <2>7, FollowLeaderShaped
  <2> QED  BY <1>5, <2>2, <2>7, <2>8 DEF Shape
<1> QED  BY <1>6, <1>7, <1>8 DEF HandleAppendEntries, a

LEMMA HandleAppendReplyShaped ==
    ASSUME Shape, NEW n \in Nodes, NEW m \in network, HandleAppendReply(n, m)
    PROVE  Shape'
<1> DEFINE matched == [matchIndex[n] EXCEPT ![m.from] = Larger(@, m.match)]
           next == [nextIndex[n] EXCEPT ![m.from] =
                      IF m.success THEN Larger(@, m.match + 1) ELSE BackOff(@)]
           ci == Max(Committable(n, matched))
<1>1. m.type = "AppendReply"
  BY DEF HandleAppendReply
<1>2. m.match \in Nat /\ m.from \in Nodes
  BY <1>1 DEF Shape, ShapedNetwork, ShapedMessage
<1>3. /\ nextIndex[n] \in [Nodes -> Nat \ {0}]
      /\ matchIndex[n] \in [Nodes -> Nat]
  BY DEF Shape, ShapedLeaders
<1>4. matched \in [Nodes -> Nat]
  BY <1>2, <1>3 DEF Larger
<1>5. next \in [Nodes -> Nat \ {0}]
  BY <1>2, <1>3 DEF Larger, BackOff
<1>6. CASE StepDown(n, m)
  BY <1>6, StepDownShaped DEF StepDown, readVars
<1>7. CASE /\ nextIndex' = [nextIndex EXCEPT ![n] = next]
           /\ \/ /\ matchIndex' = [matchIndex EXCEPT ![n] = matched]
                 /\ \/ UNCHANGED <<log, snapshot, commitVars, committedThisTerm>>
                    \/ /\ Committable(n, matched) # {}
                       /\ SetCommitIndex(n, log[n], ci, term[n])
                       /\ committedThisTerm' = [committedThisTerm EXCEPT ![n] = TRUE]
                 /\ UNCHANGED network
              \/ /\ Send({Replicate(n, term[n], m.from, log[n], next[m.from])})
                 /\ UNCHANGED <<log, snapshot, commitVars, matchIndex, committedThisTerm>>
           /\ UNCHANGED <<term, votedFor, config, electionVars, clientIndex, readVars,
                          faultVars>>
  <2> HIDE DEF matched, next, ci
  <2>1. ShapedElections'
    BY <1>7, SameShaped
  <2>2. ShapedLeaders'
    <3>1. nextIndex' \in [Nodes -> [Nodes -> Nat \ {0}]]
      BY <1>5, <1>7 DEF Shape, ShapedLeaders
    <3>2. matchIndex' \in [Nodes -> [Nodes -> Nat]]
      BY <1>4, <1>7 DEF Shape, ShapedLeaders
    <3>3. clientIndex' = clientIndex /\ committedThisTerm' \in [Nodes -> BOOLEAN]
      BY <1>7 DEF Shape, ShapedLeaders
    <3> QED  BY <3>1, <3>2, <3>3 DEF Shape, ShapedLeaders
  <2>3. ShapedNetwork'
    <3>1. ShapedMessage(Replicate(n, term[n], m.from, log[n], next[m.from]))
      BY <1>2, <1>5, IndexTypes, ReplicateShaped
    <3> QED  BY <1>7, <3>1, SendShaped, SameShaped DEF Shape
  <2>4. ShapedLogs' /\ nextReq' \in [Clients -> Nat]
    <3>1. CASE UNCHANGED <<log, snapshot, commitVars>>
      BY <1>7, <3>1, SameShaped DEF commitVars, Shape, ShapedReads
    <3>2. CASE Committable(n, matched) # {} /\ SetCommitIndex(n, log[n], ci, term[n])
      <4> DEFINE S == Committable(n, matched)
      <4>1. LastIndex(n) \in Nat /\ commitIndex[n] \in Nat /\ term[n] \in Nat
        BY IndexTypes
      <4>2. S \in SUBSET Int /\ \A i \in S : i <= LastIndex(n) /\ i \in Nat
        BY <4>1 DEF Committable
      <4>3. ci \in S
        <5> HIDE DEF S
        <5>1. LastIndex(n) \in Int
          BY <4>1
        <5>2. Max(S) \in S
          BY <3>2, <4>2, <5>1, BoundedMax DEF S
        <5> QED  BY <5>2 DEF ci, S
      <4>4. ci \in Nat /\ ci <= Base(n) + Len(log[n])
        BY <4>2, <4>3 DEF LastIndex
      <4>5. log[n] \in Seq(KnownEntries) /\ config' \in [Nodes -> KnownConfigs]
        BY <1>7, IndexTypes DEF Shape, ShapedLogs
      <4> QED  BY <3>2, <4>1, <4>4, <4>5, SetCommitIndexShaped
    <3> QED  BY <1>7, <3>1, <3>2
  <2>5. ShapedReads'
    BY <1>7, <2>4 DEF Shape, ShapedReads, readVars
  <2> QED  BY <2>1, <2>2, <2>3, <2>4, <2>5 DEF Shape
<1> QED  BY <1>6, <1>7 DEF HandleAppendReply

-----------------------------------------------------------------------------
(***************************************************************************)
(* InstallSnapshot.                                                        *)
(***************************************************************************)
LEMMA HandleInstallSnapshotShaped ==
    ASSUME Shape, NEW n \in Nodes, NEW m \in network, HandleInstallSnapshot(n, m)
    PROVE  Shape'
<1>1. m.type = "InstallSnapshot"
  BY DEF HandleInstallSnapshot
<1>2. /\ m.term \in Nat
      /\ m.from \in Nodes
      /\ SnapshotFull(m.snapshot)
  BY <1>1 DEF Shape, ShapedNetwork, ShapedMessage
<1>3. /\ term[n] \in Nat
      /\ commitIndex[n] \in Nat
      /\ Base(n) \in Nat
      /\ Base(n) <= commitIndex[n]
      /\ log[n] \in Seq(KnownEntries)
      /\ Len(log[n]) \in Nat
  BY IndexTypes
<1>4. /\ m.snapshot \in KnownSnapshots
      /\ m.snapshot.lastIndex \in Nat
      /\ m.snapshot.image \in Seq(KnownCommands)
  BY <1>2 DEF SnapshotFull, KnownSnapshots
<1>5. UNCHANGED <<votes, leadersByTerm, leaderVars, nextReadId, nextReq, committed,
                  faultVars>>
  BY DEF HandleInstallSnapshot
<1>6. ShapedLeaders' /\ nextReq' \in [Clients -> Nat]
  BY <1>5, SameShaped DEF Shape, ShapedReads
<1>7. CASE /\ Send({AppendReply(term[n], n, m.from, FALSE, 0)})
           /\ UNCHANGED <<persistentVars, config, role, timer, pendingReads,
                          commitIndex, applied>>
  <2>1. ShapedMessage(AppendReply(term[n], n, m.from, FALSE, 0))
    BY <1>2, <1>3, ReplyShaped
  <2>2. ShapedNetwork'
    BY <1>7, <2>1, SendShaped DEF Shape
  <2>3. ShapedElections' /\ ShapedLogs' /\ ShapedReads'
    BY <1>5, <1>7, SameShaped DEF persistentVars, electionVars, readVars
  <2> QED  BY <1>6, <2>2, <2>3 DEF Shape
<1>8. CASE /\ FollowLeader(n, m.term)
           /\ Send({AppendReply(m.term, n, m.from, TRUE, CoveredMatch(n))})
           /\ UNCHANGED <<log, snapshot, config, commitIndex, applied>>
  <2>1. ShapedMessage(AppendReply(m.term, n, m.from, TRUE, CoveredMatch(n)))
    BY <1>2, <1>3, ReplyShaped DEF CoveredMatch
  <2>2. ShapedNetwork'
    BY <1>8, <2>1, SendShaped DEF Shape
  <2>3. ShapedLogs'
    BY <1>5, <1>8, SameShaped
  <2>4. ShapedElections' /\ ShapedReads'
    BY <1>2, <1>5, <1>6, <1>8, FollowLeaderShaped
  <2> QED  BY <1>6, <2>2, <2>3, <2>4 DEF Shape
<1>9. CASE /\ FollowLeader(n, m.term)
           /\ ~Covered(n, m.snapshot)
           /\ log' = [log EXCEPT ![n] = InstalledLog(n, m.snapshot)]
           /\ snapshot' = [snapshot EXCEPT ![n] = m.snapshot]
           /\ config' = [config EXCEPT ![n] =
                           ConfigIn(InstalledLog(n, m.snapshot), m.snapshot)]
           /\ commitIndex' = [commitIndex EXCEPT ![n] = m.snapshot.lastIndex]
           /\ applied' = [applied EXCEPT ![n] = m.snapshot.image]
           /\ Send({AppendReply(m.term, n, m.from, TRUE, m.snapshot.lastIndex)})
  <2>1. ShapedMessage(AppendReply(m.term, n, m.from, TRUE, m.snapshot.lastIndex))
    BY <1>2, <1>4, ReplyShaped
  <2>2. ShapedNetwork'
    BY <1>9, <2>1, SendShaped DEF Shape
  <2>3. InstalledLog(n, m.snapshot) \in Seq(KnownEntries)
    <3>1. m.snapshot.lastIndex - Base(n) + 1 \in Nat \ {0}
      BY <1>3, <1>4, <1>9 DEF Covered
    <3>2. SubSeq(log[n], m.snapshot.lastIndex - Base(n) + 1, Len(log[n]))
            \in Seq(KnownEntries)
      BY <1>3, <3>1, Stretch
    <3>3. <<>> \in Seq(KnownEntries)
      OBVIOUS
    <3> QED  BY <3>2, <3>3 DEF InstalledLog
  <2>4. ConfigIn(InstalledLog(n, m.snapshot), m.snapshot) \in KnownConfigs
    BY <1>4, <2>3, ConfigInKnown
  <2>5. ShapedLogs'
    <3>1. /\ log' \in [Nodes -> Seq(KnownEntries)]
          /\ snapshot' \in [Nodes -> KnownSnapshots]
          /\ config' \in [Nodes -> KnownConfigs]
          /\ commitIndex' \in [Nodes -> Nat]
          /\ applied' \in [Nodes -> Seq(KnownCommands)]
          /\ committed' \subseteq CommitRecords
          /\ IsFiniteSet(committed')
      BY <1>4, <1>5, <1>9, <2>3, <2>4 DEF Shape, ShapedLogs
    <3>2. \A k \in Nodes : /\ SnapshotFull(snapshot'[k])
                            /\ snapshot'[k].lastIndex <= commitIndex'[k]
                            /\ Len(applied'[k]) = commitIndex'[k]
      BY <1>2, <1>4, <1>9 DEF Shape, ShapedLogs, SnapshotFull, Base
    <3> QED  BY <3>1, <3>2 DEF ShapedLogs, SnapshotFull, Base
  <2>6. ShapedElections' /\ ShapedReads'
    BY <1>2, <1>5, <1>6, <1>9, FollowLeaderShaped
  <2> QED  BY <1>6, <2>2, <2>5, <2>6 DEF Shape
<1> QED  BY <1>7, <1>8, <1>9 DEF HandleInstallSnapshot

-----------------------------------------------------------------------------
(***************************************************************************)
(* Clients.                                                                *)
(***************************************************************************)
LEMMA AppendAsLeaderShaped ==
    ASSUME Shape, NEW n \in Nodes, NEW cmd \in KnownCommands,
           NEW voters \in SUBSET Nodes, AppendAsLeader(n, cmd, voters)
    PROVE  /\ log' \in [Nodes -> Seq(KnownEntries)]
           /\ matchIndex' \in [Nodes -> [Nodes -> Nat]]
           /\ ShapedNetwork'
<1> DEFINE e == [term |-> term[n], cmd |-> cmd]
           lg == Append(log[n], e)
<1>1. /\ log[n] \in Seq(KnownEntries)
      /\ LastIndex(n) \in Nat
      /\ term[n] \in Nat
  BY IndexTypes
<1>2. e \in KnownEntries
  BY <1>1 DEF KnownEntries
<1> HIDE DEF e
<1>3. lg \in Seq(KnownEntries)
  BY <1>1, <1>2, AppendProperties
<1>4. /\ log' = [log EXCEPT ![n] = lg]
      /\ matchIndex' = [matchIndex EXCEPT ![n][n] = LastIndex(n) + 1]
      /\ Send(Broadcast(n, term[n], lg, nextIndex[n], voters))
  BY DEF AppendAsLeader, e
<1> HIDE DEF lg
<1>5. nextIndex[n] \in [Nodes -> Nat \ {0}]
  BY DEF Shape, ShapedLeaders
<1>6. \A m \in Broadcast(n, term[n], lg, nextIndex[n], voters) : ShapedMessage(m)
  BY <1>1, <1>3, <1>5, BroadcastShaped
<1>7. ShapedNetwork'
  BY <1>4, <1>6, SendShaped DEF Shape
<1> QED  BY <1>1, <1>3, <1>4, <1>7 DEF Shape, ShapedLogs, ShapedLeaders

LEMMA ClientCommandShaped ==
    ASSUME Shape, NEW n \in Nodes, NEW c \in Clients, ClientCommand(n, c)
    PROVE  Shape'
<1>1. /\ clientIndex' = [clientIndex EXCEPT ![n][c] = nextReq[c]]
      /\ AppendAsLeader(n, Request(c, nextReq[c]), config[n].voters)
      /\ UNCHANGED <<term, votedFor, snapshot, config, electionVars, nextIndex,
                     committedThisTerm, readVars, commitVars, faultVars>>
  BY DEF ClientCommand
<1>2. nextReq[c] \in Nat
  BY DEF Shape, ShapedReads
<1>3. Request(c, nextReq[c]) \in KnownCommands
  BY <1>2 DEF Request, KnownCommands, ClientCommands
<1>4. config[n].voters \in SUBSET Nodes
  BY IndexTypes
<1>5. /\ log' \in [Nodes -> Seq(KnownEntries)]
      /\ matchIndex' \in [Nodes -> [Nodes -> Nat]]
      /\ ShapedNetwork'
  BY <1>1, <1>3, <1>4, AppendAsLeaderShaped
<1>6. ShapedElections' /\ ShapedReads'
  BY <1>1, SameShaped DEF commitVars
<1>7. ShapedLogs'
  BY <1>1, <1>5 DEF Shape, ShapedLogs, commitVars, SnapshotFull, Base
<1>8. ShapedLeaders'
  BY <1>1, <1>2, <1>5 DEF Shape, ShapedLeaders
<1> QED  BY <1>5, <1>6, <1>7, <1>8 DEF Shape

LEMMA ChangeConfigShaped ==
    ASSUME Shape, NEW n \in Nodes, NEW V \in Proposals, ChangeConfig(n, V)
    PROVE  Shape'
<1> DEFINE cmd == [kind |-> "config", voters |-> V]
<1>1. /\ config' = [config EXCEPT ![n] = [voters |-> V, index |-> LastIndex(n) + 1]]
      /\ AppendAsLeader(n, cmd, V)
      /\ UNCHANGED <<term, votedFor, snapshot, electionVars, nextIndex, clientIndex,
                     committedThisTerm, readVars, commitVars, faultVars>>
  BY DEF ChangeConfig
<1>2. V \in KnownVoters /\ V \in SUBSET Nodes
  BY ConstantsAssumption DEF KnownVoters
<1>3. cmd \in KnownCommands
  BY <1>2 DEF KnownCommands
<1> HIDE DEF cmd
<1>4. /\ log' \in [Nodes -> Seq(KnownEntries)]
      /\ matchIndex' \in [Nodes -> [Nodes -> Nat]]
      /\ ShapedNetwork'
  BY <1>1, <1>2, <1>3, AppendAsLeaderShaped
<1>5. ShapedElections' /\ ShapedReads'
  BY <1>1, SameShaped DEF commitVars
<1>6. ShapedLogs'
  <2>1. [voters |-> V, index |-> LastIndex(n) + 1] \in KnownConfigs
    BY <1>2, IndexTypes DEF KnownConfigs
  <2>2. config' \in [Nodes -> KnownConfigs]
    BY <1>1, <2>1 DEF Shape, ShapedLogs
  <2> QED  BY <1>1, <1>4, <2>2 DEF Shape, ShapedLogs, commitVars, SnapshotFull, Base
<1>7. ShapedLeaders'
  BY <1>1, <1>4 DEF Shape, ShapedLeaders
<1> QED  BY <1>4, <1>5, <1>6, <1>7 DEF Shape

-----------------------------------------------------------------------------
(***************************************************************************)
(* Reads.                                                                  *)
(***************************************************************************)
LEMMA FloorType ==
    ASSUME Shape
    PROVE  HighestCommitted \in Nat
<1> DEFINE indices == {rec.index : rec \in committed}
           index == [rec \in committed |-> rec.index]
<1>1. IsFiniteSet(committed) /\ committed \subseteq CommitRecords
  BY DEF Shape, ShapedLogs
<1>2. indices = {index[rec] : rec \in committed}
  OBVIOUS
<1>3. IsFiniteSet({index[rec] : rec \in committed})
  <2> HIDE DEF index
  <2> QED  BY <1>1, FiniteImage
<1>4. IsFiniteSet({0} \cup indices)
  BY <1>2, <1>3, FS_Singleton, FS_Union
<1>5. {0} \cup indices \in SUBSET Nat /\ {0} \cup indices # {}
  BY <1>1 DEF CommitRecords
<1>6. Max({0} \cup indices) \in Nat
  <2> HIDE DEF indices
  <2> QED  BY <1>4, <1>5, FiniteMax
<1> QED  BY <1>6 DEF HighestCommitted

LEMMA TryServeReadShaped ==
    ASSUME Shape, NEW n \in Nodes, NEW others \in SUBSET ReadRecords,
           NEW r \in ReadRecords, TryServeRead(n, others, r)
    PROVE  /\ pendingReads' \in [Nodes -> SUBSET ReadRecords]
           /\ nextReq' \in [Clients -> Nat]
<1>1. CASE /\ pendingReads' = [pendingReads EXCEPT ![n] = others]
           /\ ClientsMoveOn({Request(r.client, r.req)})
  <2>1. nextReq' \in [Clients -> Nat]
    BY <1>1, MoveOnShaped
  <2> QED  BY <1>1, <2>1 DEF Shape, ShapedReads
<1>2. CASE /\ pendingReads' = [pendingReads EXCEPT ![n] = others \cup {r}]
           /\ UNCHANGED nextReq
  BY <1>2 DEF Shape, ShapedReads
<1> QED  BY <1>1, <1>2 DEF TryServeRead

LEMMA RequestReadShaped ==
    ASSUME Shape, NEW n \in Nodes, NEW c \in Clients, RequestRead(n, c)
    PROVE  Shape'
<1> DEFINE beats == {[type |-> "ReadHeartbeat", term |-> term[n], from |-> n, to |-> p,
                      readId |-> nextReadId[n]] : p \in config[n].voters \ {n}}
<1>1. /\ nextReadId' = [nextReadId EXCEPT ![n] = nextReadId[n] + 1]
      /\ TryServeRead(n, pendingReads[n], NewRead(n, c))
      /\ Send(beats)
      /\ UNCHANGED <<persistentVars, config, electionVars, leaderVars, commitIndex,
                     applied, committed, faultVars>>
  BY DEF RequestRead
<1>2. /\ config[n].voters \subseteq Nodes
      /\ term[n] \in Nat
      /\ commitIndex[n] \in Nat
  BY IndexTypes
<1>3. /\ nextReadId \in [Nodes -> Nat]
      /\ nextReq[c] \in Nat
      /\ pendingReads[n] \in SUBSET ReadRecords
  BY DEF Shape, ShapedReads
<1>4. NewRead(n, c) \in ReadRecords
  BY <1>2, <1>3, FloorType DEF NewRead, ReadRecords
<1>5. \A m \in beats : ShapedMessage(m)
  BY <1>2 DEF ShapedMessage
<1> HIDE DEF beats
<1>6. ShapedNetwork'
  BY <1>1, <1>5, SendShaped DEF Shape
<1>7. /\ pendingReads' \in [Nodes -> SUBSET ReadRecords]
      /\ nextReq' \in [Clients -> Nat]
  BY <1>1, <1>3, <1>4, TryServeReadShaped
<1>8. ShapedReads'
  BY <1>1, <1>3, <1>7 DEF ShapedReads
<1>9. ShapedElections' /\ ShapedLogs' /\ ShapedLeaders'
  BY <1>1, SameShaped DEF persistentVars
<1> QED  BY <1>6, <1>8, <1>9 DEF Shape

LEMMA HandleReadHeartbeatShaped ==
    ASSUME Shape, NEW n \in Nodes, NEW m \in network, HandleReadHeartbeat(n, m)
    PROVE  Shape'
<1> DEFINE ack == [type |-> "ReadAck", term |-> Larger(term[n], m.term), from |-> n,
                   to |-> m.from, readId |-> m.readId]
<1>1. m.term \in Nat /\ m.from \in Nodes /\ term[n] \in Nat
  BY IndexTypes DEF Shape, ShapedNetwork, ShapedMessage
<1>2. /\ Send({ack})
      /\ UNCHANGED <<log, snapshot, config, votes, leadersByTerm, leaderVars,
                     nextReadId, commitVars, faultVars>>
      /\ \/ BecomeFollower(n, m.term)
         \/ /\ timer' = [timer EXCEPT ![n] = "election"]
            /\ UNCHANGED <<term, votedFor, role, pendingReads>>
         \/ UNCHANGED <<term, votedFor, role, pendingReads, timer>>
  BY DEF HandleReadHeartbeat
<1>3. ShapedMessage(ack)
  BY <1>1 DEF ShapedMessage, Larger
<1> HIDE DEF ack
<1>4. ShapedNetwork'
  BY <1>2, <1>3, SendShaped DEF Shape
<1>5. ShapedLogs' /\ ShapedLeaders' /\ nextReq' \in [Clients -> Nat]
  BY <1>2, SameShaped DEF commitVars, Shape, ShapedReads
<1>6. ShapedElections' /\ ShapedReads'
  <2>1. CASE BecomeFollower(n, m.term)
    BY <1>1, <1>2, <1>5, <2>1, BecomeFollowerShaped
  <2>2. CASE /\ timer' = [timer EXCEPT ![n] = "election"]
             /\ UNCHANGED <<term, votedFor, role, pendingReads>>
    BY <1>2, <1>5, <2>2 DEF Shape, ShapedElections, ShapedReads, faultVars
  <2>3. CASE UNCHANGED <<term, votedFor, role, pendingReads, timer>>
    BY <1>2, <1>5, <2>3 DEF Shape, ShapedElections, ShapedReads, faultVars
  <2> QED  BY <1>2, <2>1, <2>2, <2>3
<1> QED  BY <1>4, <1>5, <1>6 DEF Shape

LEMMA HandleReadAckShaped ==
    ASSUME Shape, NEW n \in Nodes, NEW m \in network, HandleReadAck(n, m)
    PROVE  Shape'
<1>1. CASE StepDown(n, m)
  BY <1>1, StepDownShaped DEF StepDown
<1>2. CASE /\ \E r \in pendingReads[n] :
                TryServeRead(n, pendingReads[n] \ {r}, [r EXCEPT !.acks = @ \cup {m.from}])
           /\ UNCHANGED <<persistentVars, config, electionVars, leaderVars, nextReadId,
                          commitIndex, applied, committed, faultVars, network>>
  <2>1. PICK r \in pendingReads[n] :
          TryServeRead(n, pendingReads[n] \ {r}, [r EXCEPT !.acks = @ \cup {m.from}])
    BY <1>2
  <2>2. pendingReads[n] \in SUBSET ReadRecords
    BY DEF Shape, ShapedReads
  <2>3. m.from \in Nodes
    BY DEF Shape, ShapedNetwork, ShapedMessage
  <2>4. [r EXCEPT !.acks = @ \cup {m.from}] \in ReadRecords
    BY <2>2, <2>3 DEF ReadRecords
  <2>5. /\ pendingReads' \in [Nodes -> SUBSET ReadRecords]
        /\ nextReq' \in [Clients -> Nat]
    <3>1. pendingReads[n] \ {r} \in SUBSET ReadRecords
      BY <2>2
    <3> QED  BY <2>1, <2>4, <3>1, TryServeReadShaped
  <2>6. ShapedReads'
    BY <1>2, <2>5 DEF Shape, ShapedReads
  <2>7. ShapedElections' /\ ShapedLogs' /\ ShapedLeaders' /\ ShapedNetwork'
    BY <1>2, SameShaped DEF persistentVars
  <2> QED  BY <2>6, <2>7 DEF Shape
<1> QED  BY <1>1, <1>2 DEF HandleReadAck

-----------------------------------------------------------------------------
(***************************************************************************)
(* Crashes.                                                                *)
(***************************************************************************)
LEMMA CrashShaped ==
    ASSUME Shape, NEW n \in Nodes, Crash(n)
    PROVE  Shape'
<1>1. /\ crashes' = crashes + 1
      /\ alive' = [alive EXCEPT ![n] = FALSE]
      /\ timer' = [timer EXCEPT ![n] = "none"]
      /\ role' = [role EXCEPT ![n] = "follower"]
      /\ votes' = [votes EXCEPT ![n] = {}]
      /\ UNCHANGED <<persistentVars, leadersByTerm, nextReadId, nextReq, committed,
                     network>>
  BY DEF Crash
<1>2. /\ commitIndex' = [commitIndex EXCEPT ![n] = snapshot[n].lastIndex]
      /\ applied' = [applied EXCEPT ![n] = snapshot[n].image]
      /\ config' = [config EXCEPT ![n] = ConfigIn(log[n], snapshot[n])]
  BY DEF Crash, Restored
<1>3. /\ nextIndex' = [nextIndex EXCEPT ![n] = [p \in Nodes |-> 1]]
      /\ matchIndex' = [matchIndex EXCEPT ![n] = [p \in Nodes |-> 0]]
      /\ clientIndex' = [clientIndex EXCEPT ![n] = [c \in Clients |-> 0]]
      /\ pendingReads' = [pendingReads EXCEPT ![n] = {}]
      /\ committedThisTerm' = [committedThisTerm EXCEPT ![n] = FALSE]
  BY DEF Crash
<1>4. ShapedElections'
  BY <1>1 DEF Shape, ShapedElections, persistentVars
<1>5. ShapedLeaders'
  <2>1. [p \in Nodes |-> 1] \in [Nodes -> Nat \ {0}]
    OBVIOUS
  <2> QED  BY <1>3, <2>1 DEF Shape, ShapedLeaders
<1>6. ShapedReads' /\ ShapedNetwork'
  BY <1>1, <1>3, SameShaped DEF Shape, ShapedReads
<1>7. ShapedLogs'
  <2>1. /\ SnapshotFull(snapshot[n])
        /\ snapshot[n].lastIndex \in Nat
        /\ snapshot[n].image \in Seq(KnownCommands)
    BY DEF Shape, ShapedLogs, SnapshotFull, KnownSnapshots
  <2>2. ConfigIn(log[n], snapshot[n]) \in KnownConfigs
    BY IndexTypes, ConfigInKnown
  <2>3. UNCHANGED <<log, snapshot, committed>>
    BY <1>1 DEF persistentVars
  <2>4. \A k \in Nodes : /\ SnapshotFull(snapshot'[k])
                          /\ snapshot'[k].lastIndex <= commitIndex'[k]
                          /\ Len(applied'[k]) = commitIndex'[k]
    BY <1>2, <2>1, <2>3 DEF Shape, ShapedLogs, SnapshotFull, Base
  <2> QED  BY <1>2, <2>1, <2>2, <2>3, <2>4 DEF Shape, ShapedLogs, SnapshotFull, Base
<1> QED  BY <1>4, <1>5, <1>6, <1>7 DEF Shape

LEMMA ResumeShaped ==
    ASSUME Shape, NEW n \in Nodes, Resume(n)
    PROVE  Shape'
<1>1. /\ alive' = [alive EXCEPT ![n] = TRUE]
      /\ timer' = [timer EXCEPT ![n] = "election"]
      /\ UNCHANGED <<persistentVars, config, role, votes, leadersByTerm, leaderVars,
                     readVars, commitVars, crashes, network>>
  BY DEF Resume
<1>2. ShapedElections'
  BY <1>1 DEF Shape, ShapedElections, persistentVars
<1>3. ShapedLogs' /\ ShapedLeaders' /\ ShapedReads' /\ ShapedNetwork'
  BY <1>1, SameShaped DEF persistentVars, commitVars
<1> QED  BY <1>2, <1>3 DEF Shape

-----------------------------------------------------------------------------
LEMMA InitShaped == Init => Shape
<1> SUFFICES ASSUME Init PROVE Shape
  OBVIOUS
<1>1. InitialVoters \in KnownVoters
  BY DEF KnownVoters
<1>2. <<>> \in Seq(KnownCommands) /\ <<>> \in Seq(KnownEntries) /\ Len(<<>>) = 0
  OBVIOUS
<1>3. ShapedElections
  BY DEF Init, ShapedElections
<1>4. ShapedLogs
  <2>1. SnapshotFull(NoSnapshot) /\ NoSnapshot.lastIndex = 0
    BY <1>1, <1>2 DEF SnapshotFull, NoSnapshot, KnownSnapshots
  <2>2. IsFiniteSet(committed)
    BY FS_EmptySet DEF Init
  <2> QED  BY <1>1, <1>2, <2>1, <2>2
           DEF Init, ShapedLogs, Base, SnapshotFull, KnownConfigs
<1>5. ShapedLeaders /\ ShapedReads /\ ShapedNetwork
  BY DEF Init, ShapedLeaders, ShapedReads, ShapedNetwork
<1> QED  BY <1>3, <1>4, <1>5 DEF Shape

LEMMA NextShaped == Shape /\ [Next]_vars => Shape'
<1> SUFFICES ASSUME Shape, [Next]_vars PROVE Shape'
  OBVIOUS
<1>1. CASE UNCHANGED vars
  BY <1>1, SameShaped
     DEF Shape, vars, persistentVars, commitVars, electionVars, readVars
<1>2. ASSUME NEW n \in Nodes, StartElection(n) PROVE Shape'
  BY <1>2, StartElectionShaped
<1>3. ASSUME NEW n \in Nodes, Heartbeat(n) PROVE Shape'
  BY <1>3, HeartbeatShaped
<1>4. ASSUME NEW n \in Nodes, Receive(n) PROVE Shape'
  BY <1>4, HandleRequestVoteShaped, HandleVoteReplyShaped, HandleAppendEntriesShaped,
     HandleAppendReplyShaped, HandleInstallSnapshotShaped, HandleReadHeartbeatShaped,
     HandleReadAckShaped
     DEF Receive
<1>5. ASSUME NEW n \in Nodes, NEW c \in Clients,
             ClientCommand(n, c) \/ RequestRead(n, c)
      PROVE  Shape'
  BY <1>5, ClientCommandShaped, RequestReadShaped
<1>6. ASSUME NEW n \in Nodes, NEW V \in Proposals, ChangeConfig(n, V) PROVE Shape'
  BY <1>6, ChangeConfigShaped
<1>7. ASSUME NEW n \in Nodes, Crash(n) \/ Resume(n) PROVE Shape'
  BY <1>7, CrashShaped, ResumeShaped
<1> QED  BY <1>1, <1>2, <1>3, <1>4, <1>5, <1>6, <1>7 DEF Next

\* In every instance of the model, every variable and message keeps its shape:
\* a server never forgets below its commit index what it compacted, feeds its
\* state machine exactly one command per committed index, and no handler reads
\* past the log it holds (every handler of RaftNode).
THEOREM ShapeInvariant == Spec => []Shape
<1>1. Init => Shape
  BY InitShaped
<1>2. Shape /\ [Next]_vars => Shape'
  BY NextShaped
<1> QED  BY <1>1, <1>2, PTL DEF Spec

-----------------------------------------------------------------------------
(***************************************************************************)
(* Ballots: who voted for whom, as the votes still show it.                *)
(***************************************************************************)
\* v granted its vote of term t to c, and c may have been told.
Granted(v, t, c) ==
    \E m \in network : /\ m.type = "VoteReply"
                       /\ m.granted
                       /\ m.term = t
                       /\ m.from = v
                       /\ m.to = c

\* The votes c can count on in term t: its own and those granted to it.
Supporters(c, t) == {v \in Nodes : v = c \/ Granted(v, t, c)}

\* A vote is never cast twice: it is remembered as long as its term lasts.
VotesKept ==
    \A v, c \in Nodes, t \in Nat :
      Granted(v, t, c) => /\ t <= term[v]
                          /\ t = term[v] => votedFor[v] = c

VotesUnique ==
    \A v, c, d \in Nodes, t \in Nat : Granted(v, t, c) /\ Granted(v, t, d) => c = d

\* Who campaigns or leads has voted for itself.
SelfVotes == \A n \in Nodes : role[n] # "follower" => votedFor[n] = n

\* A candidate counts only votes cast for it.
VotesCounted ==
    \A n \in Nodes : role[n] = "candidate" => votes[n] \subseteq Supporters(n, term[n])

\* Every leader there ever was had the support of a majority, and its own vote.
LeadersElected ==
    \A l \in leadersByTerm :
      /\ l[1] <= term[l[2]]
      /\ l[1] = term[l[2]] => votedFor[l[2]] = l[2]
      /\ \A c \in Nodes : Granted(l[2], l[1], c) => c = l[2]
      /\ Majority(Supporters(l[2], l[1]), InitialVoters)

\* A leader is on record as such.
LeadersKnown ==
    \A n \in Nodes : role[n] = "leader" => <<term[n], n>> \in leadersByTerm

Ballots ==
    /\ VotesKept
    /\ VotesUnique
    /\ SelfVotes
    /\ VotesCounted
    /\ LeadersElected
    /\ LeadersKnown

-----------------------------------------------------------------------------
(***************************************************************************)
(* Timers: why the one timer of a server is the right one.                 *)
(***************************************************************************)
\* The timer of n suits its role, and a crashed server has no role to suit.
SoundTimer(n) ==
    /\ timer[n] = IF ~alive[n] THEN "none"
                  ELSE IF role[n] = "leader" THEN "heartbeat" ELSE "election"
    /\ ~alive[n] => role[n] = "follower"

\* Nobody asks itself for its vote or its attention, and only leaders confirm
\* that they lead.
Voiced(m) ==
    /\ m.type \in {"RequestVote", "ReadHeartbeat"} => m.from # m.to
    /\ m.type = "ReadHeartbeat" => <<m.term, m.from>> \in leadersByTerm

Timers ==
    /\ \A n \in Nodes : SoundTimer(n)
    /\ \A m \in network : Voiced(m)

-----------------------------------------------------------------------------
LEMMA VotersFinite == IsFiniteSet(InitialVoters)
BY ConstantsAssumption, FS_Subset

LEMMA VotersFixed ==
    ASSUME Proposals = {}, Shape, NEW n \in Nodes
    PROVE  config[n].voters = InitialVoters
<1>1. config[n] \in KnownConfigs
  BY IndexTypes
<1> QED  BY <1>1 DEF KnownConfigs, KnownVoters

\* Two leaders of one term would share a voter, and nobody votes twice.
LEMMA BallotsElectOne ==
    ASSUME Shape, Ballots
    PROVE  ElectionSafety
<1> SUFFICES ASSUME NEW l1 \in leadersByTerm, NEW l2 \in leadersByTerm, l1[1] = l2[1]
             PROVE  l1 = l2
  BY DEF ElectionSafety
<1>1. l1 \in Nat \X Nodes /\ l2 \in Nat \X Nodes
  BY DEF Shape, ShapedElections
<1> DEFINE t == l1[1]
           c == l1[2]
           d == l2[2]
<1>2. t \in Nat /\ c \in Nodes /\ d \in Nodes
  BY <1>1
<1>3. /\ \A x \in Nodes : Granted(c, t, x) => x = c
      /\ \A x \in Nodes : Granted(d, t, x) => x = d
      /\ Majority(Supporters(c, t), InitialVoters)
      /\ Majority(Supporters(d, t), InitialVoters)
  BY DEF Ballots, LeadersElected
<1> HIDE DEF t, c, d
<1>4. PICK v \in InitialVoters : v \in Supporters(c, t) /\ v \in Supporters(d, t)
  BY <1>3, VotersFinite, MajoritiesMeet
<1>5. /\ v \in Nodes
      /\ v = c \/ Granted(v, t, c)
      /\ v = d \/ Granted(v, t, d)
  BY <1>4 DEF Supporters
<1>6. Granted(v, t, c) /\ Granted(v, t, d) => c = d
  BY <1>2, <1>5 DEF Ballots, VotesUnique
<1>7. c = d
  BY <1>2, <1>3, <1>5, <1>6
<1> QED  BY <1>1, <1>7 DEF t, c, d

-----------------------------------------------------------------------------
(***************************************************************************)
(* Steps that cast no vote.                                                *)
(***************************************************************************)
\* Nobody is told of a new vote.
NoNewGrant ==
    /\ network \subseteq network'
    /\ \A m \in network' : m.type = "VoteReply" => m \in network

\* Servers step down or stay what they are, and vote for nobody.
Calm ==
    /\ UNCHANGED leadersByTerm
    /\ \A n \in Nodes :
         /\ votes'[n] \subseteq votes[n]
         /\ term'[n] >= term[n]
         /\ term'[n] = term[n] => votedFor'[n] = votedFor[n]
         /\ role'[n] # "follower" => role'[n] = role[n] /\ term'[n] = term[n]

LEMMA SameGrants ==
    ASSUME NoNewGrant, NEW v, NEW t, NEW c
    PROVE  Granted(v, t, c)' <=> Granted(v, t, c)
BY DEF NoNewGrant, Granted

LEMMA SameSupporters ==
    ASSUME NoNewGrant, NEW t, NEW c
    PROVE  Supporters(c, t)' = Supporters(c, t)
BY SameGrants DEF Supporters

LEMMA CalmBallots ==
    ASSUME Shape, Shape', Ballots, NoNewGrant, Calm
    PROVE  Ballots'
<1>0. /\ term \in [Nodes -> Nat]
      /\ term' \in [Nodes -> Nat]
      /\ leadersByTerm \subseteq Nat \X Nodes
  BY DEF Shape, ShapedElections
<1>1. VotesKept'
  <2> SUFFICES ASSUME NEW v \in Nodes, NEW c \in Nodes, NEW t \in Nat, Granted(v, t, c)'
               PROVE  t <= term'[v] /\ (t = term'[v] => votedFor'[v] = c)
    BY DEF VotesKept
  <2>1. t <= term[v] /\ (t = term[v] => votedFor[v] = c)
    BY SameGrants DEF Ballots, VotesKept
  <2> QED  BY <1>0, <2>1 DEF Calm
<1>2. VotesUnique'
  BY SameGrants DEF Ballots, VotesUnique
<1>3. SelfVotes'
  BY DEF Calm, Ballots, SelfVotes
<1>4. VotesCounted'
  BY SameSupporters DEF Calm, Ballots, VotesCounted
<1>5. LeadersElected'
  <2> SUFFICES ASSUME NEW l \in leadersByTerm
               PROVE  /\ l[1] <= term'[l[2]]
                      /\ l[1] = term'[l[2]] => votedFor'[l[2]] = l[2]
                      /\ \A c \in Nodes : Granted(l[2], l[1], c)' => c = l[2]
                      /\ Majority(Supporters(l[2], l[1])', InitialVoters)
    BY DEF Calm, LeadersElected, Majority
  <2>1. l[1] \in Nat /\ l[2] \in Nodes
    BY <1>0
  <2>2. /\ l[1] <= term[l[2]]
        /\ l[1] = term[l[2]] => votedFor[l[2]] = l[2]
        /\ \A c \in Nodes : Granted(l[2], l[1], c) => c = l[2]
        /\ Majority(Supporters(l[2], l[1]), InitialVoters)
    BY DEF Ballots, LeadersElected
  <2>3. /\ l[1] <= term'[l[2]]
        /\ l[1] = term'[l[2]] => votedFor'[l[2]] = l[2]
    BY <1>0, <2>1, <2>2 DEF Calm
  <2> QED  BY <2>2, <2>3, SameGrants, SameSupporters
<1>6. LeadersKnown'
  BY DEF Calm, Ballots, LeadersKnown
<1> QED  BY <1>1, <1>2, <1>3, <1>4, <1>5, <1>6 DEF Ballots

-----------------------------------------------------------------------------
(***************************************************************************)
(* Which steps are calm.                                                   *)
(***************************************************************************)
LEMMA SendNoGrant ==
    ASSUME NEW ms, Send(ms), \A m \in ms : m.type # "VoteReply"
    PROVE  NoNewGrant
BY DEF Send, NoNewGrant

LEMMA BroadcastNoGrant ==
    ASSUME NEW n, NEW t, NEW lg, NEW nxt, NEW voters
    PROVE  \A m \in Broadcast(n, t, lg, nxt, voters) : m.type # "VoteReply"
<1>1. \A p : Replicate(n, t, p, lg, nxt[p]).type # "VoteReply"
  BY DEF Replicate
<1> QED  BY <1>1 DEF Broadcast

LEMMA ReplyNoGrant ==
    ASSUME NEW t, NEW n, NEW p, NEW ok, NEW match,
           Send({AppendReply(t, n, p, ok, match)})
    PROVE  NoNewGrant
<1>1. AppendReply(t, n, p, ok, match).type # "VoteReply"
  BY DEF AppendReply
<1> QED  BY <1>1, SendNoGrant

LEMMA BecomeFollowerCalm ==
    ASSUME Shape, NEW n \in Nodes, NEW t \in Nat, t >= term[n],
           BecomeFollower(n, t), UNCHANGED <<votes, leadersByTerm>>
    PROVE  Calm
<1>1. /\ term \in [Nodes -> Nat]
      /\ votedFor \in [Nodes -> Nodes \cup {None}]
      /\ role \in [Nodes -> {"follower", "candidate", "leader"}]
  BY DEF Shape, ShapedElections
<1> QED  BY <1>1 DEF BecomeFollower, VoteIn, Calm

LEMMA FollowLeaderCalm ==
    ASSUME Shape, NEW n \in Nodes, NEW t \in Nat, t >= term[n],
           FollowLeader(n, t), UNCHANGED <<votes, leadersByTerm>>
    PROVE  Calm
<1>1. CASE BecomeFollower(n, t)
  BY <1>1, BecomeFollowerCalm
<1>2. CASE UNCHANGED <<term, votedFor, role, pendingReads>>
  BY <1>2 DEF Shape, ShapedElections, Calm
<1> QED  BY <1>1, <1>2 DEF FollowLeader

LEMMA SameCalm ==
    ASSUME Shape, UNCHANGED <<term, votedFor, role, votes, leadersByTerm>>
    PROVE  Calm
BY DEF Shape, ShapedElections, Calm

LEMMA StepDownCalm ==
    ASSUME Shape, NEW n \in Nodes, NEW m \in network, StepDown(n, m)
    PROVE  NoNewGrant /\ Calm
<1>1. m.term \in Nat /\ term[n] \in Nat
  BY IndexTypes DEF Shape, ShapedNetwork, ShapedMessage
<1>2. /\ m.term > term[n]
      /\ BecomeFollower(n, m.term)
      /\ UNCHANGED <<votes, leadersByTerm, network>>
  BY DEF StepDown
<1>3. m.term >= term[n]
  BY <1>1, <1>2
<1> QED  BY <1>1, <1>2, <1>3, BecomeFollowerCalm DEF NoNewGrant

LEMMA AppendEntriesCalm ==
    ASSUME Shape, NEW n \in Nodes, NEW m \in network, HandleAppendEntries(n, m)
    PROVE  NoNewGrant /\ Calm
<1>1. m.term \in Nat /\ UNCHANGED <<votes, leadersByTerm>>
  BY DEF Shape, ShapedNetwork, ShapedMessage, HandleAppendEntries
<1>2. NoNewGrant
  BY ReplyNoGrant DEF HandleAppendEntries
<1>3. CASE UNCHANGED <<persistentVars, role>>
  BY <1>1, <1>2, <1>3, SameCalm DEF persistentVars
<1>4. CASE m.term >= term[n] /\ FollowLeader(n, m.term)
  BY <1>1, <1>2, <1>4, FollowLeaderCalm
<1> QED  BY <1>2, <1>3, <1>4 DEF HandleAppendEntries

LEMMA AppendReplyCalm ==
    ASSUME Shape, NEW n \in Nodes, NEW m \in network, HandleAppendReply(n, m)
    PROVE  NoNewGrant /\ Calm
<1> DEFINE next == [nextIndex[n] EXCEPT ![m.from] =
                      IF m.success THEN Larger(@, m.match + 1) ELSE BackOff(@)]
           sent == Replicate(n, term[n], m.from, log[n], next[m.from])
<1>1. CASE StepDown(n, m)
  BY <1>1, StepDownCalm
<1>2. CASE /\ UNCHANGED <<term, votedFor, electionVars>>
           /\ UNCHANGED network \/ Send({sent})
  <2>1. sent.type # "VoteReply"
    BY DEF Replicate
  <2> HIDE DEF sent
  <2>2. NoNewGrant
    BY <1>2, <2>1, SendNoGrant DEF NoNewGrant
  <2> QED  BY <1>2, <2>2, SameCalm DEF electionVars
<1> QED  BY <1>1, <1>2 DEF HandleAppendReply

LEMMA InstallSnapshotCalm ==
    ASSUME Shape, NEW n \in Nodes, NEW m \in network, HandleInstallSnapshot(n, m)
    PROVE  NoNewGrant /\ Calm
<1>1. m.term \in Nat /\ UNCHANGED <<votes, leadersByTerm>>
  BY DEF Shape, ShapedNetwork, ShapedMessage, HandleInstallSnapshot
<1>2. NoNewGrant
  BY ReplyNoGrant DEF HandleInstallSnapshot
<1>3. CASE UNCHANGED <<persistentVars, role>>
  BY <1>1, <1>2, <1>3, SameCalm DEF persistentVars
<1>4. CASE m.term >= term[n] /\ FollowLeader(n, m.term)
  BY <1>1, <1>2, <1>4, FollowLeaderCalm
<1> QED  BY <1>2, <1>3, <1>4 DEF HandleInstallSnapshot

LEMMA ReadHeartbeatCalm ==
    ASSUME Shape, NEW n \in Nodes, NEW m \in network, HandleReadHeartbeat(n, m)
    PROVE  NoNewGrant /\ Calm
<1>1. /\ m.term \in Nat
      /\ term[n] \in Nat
      /\ UNCHANGED <<votes, leadersByTerm>>
  BY IndexTypes DEF Shape, ShapedNetwork, ShapedMessage, HandleReadHeartbeat
<1>2. NoNewGrant
  BY SendNoGrant DEF HandleReadHeartbeat
<1>3. CASE UNCHANGED <<term, votedFor, role, pendingReads>>
  BY <1>1, <1>2, <1>3, SameCalm
<1>4. CASE m.term > term[n] /\ BecomeFollower(n, m.term)
  <2>1. m.term >= term[n]
    BY <1>1, <1>4
  <2> QED  BY <1>1, <1>2, <1>4, <2>1, BecomeFollowerCalm
<1> QED  BY <1>2, <1>3, <1>4 DEF HandleReadHeartbeat

LEMMA ReadAckCalm ==
    ASSUME Shape, NEW n \in Nodes, NEW m \in network, HandleReadAck(n, m)
    PROVE  NoNewGrant /\ Calm
<1>1. CASE StepDown(n, m)
  BY <1>1, StepDownCalm
<1>2. CASE UNCHANGED <<persistentVars, electionVars, network>>
  BY <1>2, SameCalm DEF persistentVars, electionVars, NoNewGrant
<1> QED  BY <1>1, <1>2 DEF HandleReadAck

LEMMA AppendAsLeaderCalm ==
    ASSUME Shape, NEW n, NEW cmd, NEW voters, AppendAsLeader(n, cmd, voters),
           UNCHANGED <<term, votedFor, electionVars>>
    PROVE  NoNewGrant /\ Calm
<1>1. NoNewGrant
  BY BroadcastNoGrant, SendNoGrant DEF AppendAsLeader
<1> QED  BY <1>1, SameCalm DEF electionVars

LEMMA HeartbeatCalm ==
    ASSUME Shape, NEW n \in Nodes, Heartbeat(n)
    PROVE  NoNewGrant /\ Calm
<1>1. NoNewGrant
  BY BroadcastNoGrant, SendNoGrant DEF Heartbeat
<1> QED  BY <1>1, SameCalm DEF Heartbeat, persistentVars, electionVars

LEMMA RequestReadCalm ==
    ASSUME Shape, NEW n \in Nodes, NEW c \in Clients, RequestRead(n, c)
    PROVE  NoNewGrant /\ Calm
<1>1. NoNewGrant
  BY SendNoGrant DEF RequestRead
<1> QED  BY <1>1, SameCalm DEF RequestRead, persistentVars, electionVars

LEMMA CrashCalm ==
    ASSUME Shape, NEW n \in Nodes, Crash(n)
    PROVE  NoNewGrant /\ Calm
BY DEF Crash, persistentVars, NoNewGrant, Calm, Shape, ShapedElections

LEMMA ResumeCalm ==
    ASSUME Shape, NEW n \in Nodes, Resume(n)
    PROVE  NoNewGrant /\ Calm
BY SameCalm DEF Resume, persistentVars, NoNewGrant

-----------------------------------------------------------------------------
(***************************************************************************)
(* Votes and elections.                                                    *)
(***************************************************************************)
\* A vote goes to nobody else once one was given in the term.
LEMMA RequestVoteBallots ==
    ASSUME Shape, Shape', Ballots, NEW n \in Nodes, NEW m \in network,
           HandleRequestVote(n, m)
    PROVE  Ballots'
<1> DEFINE t == Larger(term[n], m.term)
<1>1. /\ term \in [Nodes -> Nat]
      /\ votedFor \in [Nodes -> Nodes \cup {None}]
      /\ role \in [Nodes -> {"follower", "candidate", "leader"}]
      /\ leadersByTerm \subseteq Nat \X Nodes
      /\ m.term \in Nat
      /\ m.from \in Nodes
      /\ None \notin Nodes
  BY ConstantsAssumption DEF Shape, ShapedElections, ShapedNetwork, ShapedMessage
<1>2. /\ term' = [term EXCEPT ![n] = t]
      /\ votedFor' = [votedFor EXCEPT ![n] =
                        IF Grants(n, m) THEN m.from ELSE VoteIn(n, m.term)]
      /\ IF m.term > term[n] THEN role' = [role EXCEPT ![n] = "follower"]
                             ELSE UNCHANGED role
      /\ Send({VoteReply(t, n, m.from, Grants(n, m))})
      /\ UNCHANGED <<votes, leadersByTerm>>
  BY DEF HandleRequestVote
<1>3. /\ t \in Nat
      /\ t >= term[n]
      /\ m.term > term[n] => t > term[n]
      /\ Grants(n, m) => t = m.term
      /\ Grants(n, m) /\ t = term[n] => votedFor[n] \in {None, m.from}
  BY <1>1 DEF Larger, Grants, VoteIn
<1>4. \A v, c \in Nodes, u \in Nat :
        /\ Granted(v, u, c) => Granted(v, u, c)'
        /\ Granted(v, u, c)' =>
             \/ Granted(v, u, c)
             \/ v = n /\ u = t /\ c = m.from /\ Grants(n, m)
  <2> DEFINE reply == VoteReply(t, n, m.from, Grants(n, m))
  <2>1. /\ network \subseteq network'
        /\ \A k \in network' : k \in network \/ k = reply
    BY <1>2 DEF Send
  <2>2. reply.term = t /\ reply.from = n /\ reply.to = m.from /\ reply.granted = Grants(n, m)
    BY DEF VoteReply
  <2> HIDE DEF reply, t
  <2> QED  BY <2>1, <2>2 DEF Granted
<1>5. t = term[n] => votedFor'[n] = votedFor[n] \/ votedFor[n] = None
  BY <1>1, <1>2, <1>3 DEF VoteIn
<1>6. Grants(n, m) => votedFor'[n] = m.from
  BY <1>1, <1>2
<1>7. \A k \in Nodes : k # n => term'[k] = term[k] /\ votedFor'[k] = votedFor[k]
  BY <1>1, <1>2
<1>8. term'[n] = t
  BY <1>1, <1>2
<1> HIDE DEF t
<1>9. \A v, c \in Nodes, u \in Nat :
        Granted(v, u, c) => u <= term[v] /\ (u = term[v] => votedFor[v] = c)
  BY DEF Ballots, VotesKept
<1>10. VotesKept'
  <2> SUFFICES ASSUME NEW v \in Nodes, NEW c \in Nodes, NEW u \in Nat, Granted(v, u, c)'
               PROVE  u <= term'[v] /\ (u = term'[v] => votedFor'[v] = c)
    BY DEF VotesKept
  <2>1. CASE v # n
    BY <1>4, <1>7, <1>9, <2>1
  <2>2. CASE v = n /\ Granted(v, u, c)
    BY <1>1, <1>3, <1>5, <1>8, <1>9, <2>2
  <2>3. CASE v = n /\ u = t /\ c = m.from /\ Grants(n, m)
    BY <1>3, <1>6, <1>8, <2>3
  <2> QED  BY <1>4, <2>1, <2>2, <2>3
<1>11. VotesUnique'
  <2> SUFFICES ASSUME NEW v \in Nodes, NEW c \in Nodes, NEW d \in Nodes, NEW u \in Nat,
                      Granted(v, u, c)', Granted(v, u, d)'
               PROVE  c = d
    BY DEF VotesUnique
  <2>1. ASSUME NEW x \in Nodes, Granted(n, t, x), Grants(n, m) PROVE x = m.from
    <3>1. t = term[n] /\ votedFor[n] = x
      BY <1>1, <1>3, <1>9, <2>1
    <3> QED  BY <1>1, <1>3, <2>1, <3>1
  <2>2. Granted(v, u, c) /\ Granted(v, u, d) => c = d
    BY DEF Ballots, VotesUnique
  <2> QED  BY <1>4, <2>1, <2>2
<1>12. SelfVotes'
  <2> SUFFICES ASSUME NEW k \in Nodes, role'[k] # "follower" PROVE votedFor'[k] = k
    BY DEF SelfVotes
  <2>1. role'[k] = role[k] /\ votedFor[k] = k
    BY <1>1, <1>2 DEF Ballots, SelfVotes
  <2>2. CASE k = n
    <3>1. t = term[n]
      BY <1>1, <1>2, <2>2, <1>3 DEF Larger, t
    <3> QED  BY <1>1, <1>5, <2>1, <2>2, <3>1
  <2> QED  BY <1>7, <2>1, <2>2
<1>13. VotesCounted'
  <2> SUFFICES ASSUME NEW k \in Nodes, role'[k] = "candidate"
               PROVE  votes'[k] \subseteq Supporters(k, term[k])'
    BY DEF VotesCounted
  <2>1. role[k] = "candidate" /\ term'[k] = term[k]
    BY <1>1, <1>2 DEF Larger, t
  <2>2. votes[k] \subseteq Supporters(k, term[k])
    BY <2>1 DEF Ballots, VotesCounted
  <2>3. PICK u \in Nat : u = term[k]
    BY <1>1
  <2>4. Supporters(k, u) \subseteq Supporters(k, u)'
    BY <1>4 DEF Supporters
  <2>5. votes'[k] = votes[k]
    BY <1>2
  <2>6. Supporters(k, term[k])' = Supporters(k, u)'
    BY <2>1, <2>3
  <2> QED  BY <2>2, <2>3, <2>4, <2>5, <2>6
<1>14. LeadersElected'
  <2> SUFFICES ASSUME NEW l \in leadersByTerm
               PROVE  /\ l[1] <= term'[l[2]]
                      /\ l[1] = term'[l[2]] => votedFor'[l[2]] = l[2]
                      /\ \A c \in Nodes : Granted(l[2], l[1], c)' => c = l[2]
                      /\ Majority(Supporters(l[2], l[1])', InitialVoters)
    BY <1>2 DEF LeadersElected, Majority
  <2>1. l[1] \in Nat /\ l[2] \in Nodes
    BY <1>1
  <2>2. /\ l[1] <= term[l[2]]
        /\ l[1] = term[l[2]] => votedFor[l[2]] = l[2]
        /\ \A c \in Nodes : Granted(l[2], l[1], c) => c = l[2]
        /\ Majority(Supporters(l[2], l[1]), InitialVoters)
    BY DEF Ballots, LeadersElected
  <2>3. Majority(Supporters(l[2], l[1])', InitialVoters)
    <3>1. Supporters(l[2], l[1]) \subseteq Supporters(l[2], l[1])'
      BY <1>4, <2>1 DEF Supporters
    <3> QED  BY <2>2, <3>1, VotersFinite, MajorityGrows
  <2>4. l[1] <= term'[l[2]] /\ (l[1] = term'[l[2]] => votedFor'[l[2]] = l[2])
    <3>1. CASE l[2] = n
      BY <1>1, <1>3, <1>5, <1>8, <2>1, <2>2, <3>1
    <3> QED  BY <1>7, <2>1, <2>2, <3>1
  <2>5. ASSUME NEW c \in Nodes, Granted(l[2], l[1], c)' PROVE c = l[2]
    <3>1. CASE l[2] = n /\ l[1] = t /\ c = m.from /\ Grants(n, m)
      BY <1>1, <1>3, <2>1, <2>2, <3>1
    <3> QED  BY <1>4, <2>1, <2>2, <2>5, <3>1
  <2> QED  BY <2>3, <2>4, <2>5
<1>15. LeadersKnown'
  BY <1>1, <1>2 DEF Larger, t, Ballots, LeadersKnown
<1> QED  BY <1>10, <1>11, <1>12, <1>13, <1>14, <1>15 DEF Ballots

\* What the next two lemmas share: a server n enters or stays in term t, voting
\* for itself, and is a candidate or a leader with the votes it may count on.
Campaigns(n, t) ==
    /\ term' = [term EXCEPT ![n] = t]
    /\ votedFor' = [votedFor EXCEPT ![n] = n]
    /\ \A k \in Nodes \ {n} : votes'[k] = votes[k] /\ role'[k] = role[k]
    /\ votes'[n] \subseteq Supporters(n, t)
    /\ \/ role'[n] # "leader" /\ UNCHANGED leadersByTerm
       \/ /\ leadersByTerm' = leadersByTerm \cup {<<t, n>>}
          /\ Majority(votes'[n], InitialVoters)

LEMMA CampaignBallots ==
    ASSUME Shape, Ballots, NoNewGrant, NEW n \in Nodes, NEW t \in Nat,
           t >= term[n], Campaigns(n, t),
           \A c \in Nodes : Granted(n, t, c) => c = n
    PROVE  Ballots'
<1>1. /\ term \in [Nodes -> Nat]
      /\ votedFor \in [Nodes -> Nodes \cup {None}]
      /\ leadersByTerm \subseteq Nat \X Nodes
  BY DEF Shape, ShapedElections
<1>2. /\ term'[n] = t
      /\ votedFor'[n] = n
      /\ \A k \in Nodes \ {n} : term'[k] = term[k] /\ votedFor'[k] = votedFor[k]
                                /\ votes'[k] = votes[k] /\ role'[k] = role[k]
  BY <1>1 DEF Campaigns
<1>3. \A v, c \in Nodes, u \in Nat :
        Granted(v, u, c) => u <= term[v] /\ (u = term[v] => votedFor[v] = c)
  BY DEF Ballots, VotesKept
<1>4. VotesKept'
  <2> SUFFICES ASSUME NEW v \in Nodes, NEW c \in Nodes, NEW u \in Nat, Granted(v, u, c)'
               PROVE  u <= term'[v] /\ (u = term'[v] => votedFor'[v] = c)
    BY DEF VotesKept
  <2>1. Granted(v, u, c)
    BY SameGrants
  <2>2. u <= term[v] /\ (u = term[v] => votedFor[v] = c)
    BY <1>3, <2>1
  <2>3. CASE v = n
    BY <1>1, <1>2, <2>1, <2>2, <2>3
  <2> QED  BY <1>2, <2>2, <2>3
<1>5. VotesUnique'
  BY SameGrants DEF Ballots, VotesUnique
<1>6. SelfVotes'
  BY <1>2 DEF Ballots, SelfVotes
<1>7. VotesCounted'
  <2> SUFFICES ASSUME NEW k \in Nodes, role'[k] = "candidate"
               PROVE  votes'[k] \subseteq Supporters(k, term[k])'
    BY DEF VotesCounted
  <2>1. PICK u \in Nat : u = term'[k]
    BY <1>1, <1>2
  <2>2. Supporters(k, term[k])' = Supporters(k, u)
    <3>1. Supporters(k, term[k])' = Supporters(k, u)'
      BY <2>1
    <3> QED  BY <3>1, SameSupporters
  <2>3. CASE k = n
    BY <1>2, <2>1, <2>2, <2>3 DEF Campaigns
  <2>4. CASE k # n
    BY <1>2, <2>1, <2>2, <2>4 DEF Ballots, VotesCounted
  <2> QED  BY <2>3, <2>4
<1>8. LeadersElected'
  <2> SUFFICES ASSUME NEW l \in leadersByTerm'
               PROVE  /\ l[1] <= term'[l[2]]
                      /\ l[1] = term'[l[2]] => votedFor'[l[2]] = l[2]
                      /\ \A c \in Nodes : Granted(l[2], l[1], c)' => c = l[2]
                      /\ Majority(Supporters(l[2], l[1])', InitialVoters)
    BY DEF LeadersElected, Majority
  <2>1. CASE l \in leadersByTerm
    <3>1. l[1] \in Nat /\ l[2] \in Nodes
      BY <1>1, <2>1
    <3>2. /\ l[1] <= term[l[2]]
          /\ l[1] = term[l[2]] => votedFor[l[2]] = l[2]
          /\ \A c \in Nodes : Granted(l[2], l[1], c) => c = l[2]
          /\ Majority(Supporters(l[2], l[1]), InitialVoters)
      BY <2>1 DEF Ballots, LeadersElected
    <3>3. /\ l[1] <= term'[l[2]]
          /\ l[1] = term'[l[2]] => votedFor'[l[2]] = l[2]
      BY <1>1, <1>2, <3>1, <3>2
    <3> QED  BY <3>2, <3>3, SameGrants, SameSupporters
  <2>2. CASE l = <<t, n>> /\ Majority(votes'[n], InitialVoters)
    <3>1. Majority(Supporters(n, t), InitialVoters)
      BY <2>2, VotersFinite, MajorityGrows DEF Campaigns
    <3>2. Majority(Supporters(n, t)', InitialVoters)
      BY <3>1, SameSupporters
    <3>3. \A c \in Nodes : Granted(n, t, c)' => c = n
      BY SameGrants
    <3>4. l[1] = t /\ l[2] = n
      BY <2>2
    <3> QED  BY <1>2, <3>2, <3>3, <3>4
  <2> QED  BY <2>1, <2>2 DEF Campaigns
<1>9. LeadersKnown'
  BY <1>2 DEF Campaigns, Ballots, LeadersKnown
<1> QED  BY <1>4, <1>5, <1>6, <1>7, <1>8, <1>9 DEF Ballots

\* A candidate's term is new to it: it voted for nobody in it.
LEMMA StartElectionBallots ==
    ASSUME Proposals = {}, Shape, Ballots, NEW n \in Nodes, StartElection(n)
    PROVE  Ballots'
<1> DEFINE t == term[n] + 1
           requests == {[type |-> "RequestVote", term |-> t, from |-> n, to |-> p,
                         lastIndex |-> LastIndex(n),
                         lastTerm |-> TermAt(n, LastIndex(n))] :
                          p \in config[n].voters \ {n}}
<1>1. /\ term' = [term EXCEPT ![n] = t]
      /\ votedFor' = [votedFor EXCEPT ![n] = n]
      /\ votes' = [votes EXCEPT ![n] = {n}]
      /\ \/ /\ Majority({n}, config[n].voters)
            /\ BecomeLeader(n, t, requests)
         \/ /\ role' = [role EXCEPT ![n] = "candidate"]
            /\ Send(requests)
            /\ UNCHANGED leadersByTerm
  BY DEF StartElection
<1>2. /\ role \in [Nodes -> {"follower", "candidate", "leader"}]
      /\ votes \in [Nodes -> SUBSET Nodes]
      /\ term[n] \in Nat
  BY DEF Shape, ShapedElections
<1>3. \A m \in requests : m.type # "VoteReply"
  OBVIOUS
<1>4. t \in Nat /\ t >= term[n] /\ t # term[n] /\ ~(t <= term[n])
  BY <1>2
<1> HIDE DEF t, requests
<1>5. NoNewGrant
  <2>1. CASE BecomeLeader(n, t, requests)
    <3> DEFINE sent == requests \cup
                  Broadcast(n, t, log[n], [p \in Nodes |-> LastIndex(n) + 1],
                            config[n].voters)
    <3>1. \A m \in sent : m.type # "VoteReply"
      BY <1>3, BroadcastNoGrant
    <3>2. Send(sent)
      BY <2>1 DEF BecomeLeader
    <3> HIDE DEF sent
    <3> QED  BY <3>1, <3>2, SendNoGrant
  <2>2. CASE Send(requests)
    BY <1>3, <2>2, SendNoGrant
  <2> QED  BY <1>1, <2>1, <2>2
<1>6. Campaigns(n, t)
  <2>1. /\ votes'[n] = {n}
        /\ \A k \in Nodes \ {n} : votes'[k] = votes[k] /\ role'[k] = role[k]
    BY <1>1, <1>2 DEF BecomeLeader
  <2>2. {n} \subseteq Supporters(n, t)
    BY DEF Supporters
  <2>3. \/ role'[n] # "leader" /\ UNCHANGED leadersByTerm
        \/ /\ leadersByTerm' = leadersByTerm \cup {<<t, n>>}
           /\ Majority({n}, InitialVoters)
    BY <1>1, <1>2, VotersFixed DEF BecomeLeader
  <2> QED  BY <1>1, <2>1, <2>2, <2>3 DEF Campaigns
<1>7. \A c \in Nodes : Granted(n, t, c) => c = n
  BY <1>4 DEF Ballots, VotesKept
<1> QED  BY <1>4, <1>5, <1>6, <1>7, CampaignBallots

\* A candidate counts a vote that was cast for it.
LEMMA VoteReplyBallots ==
    ASSUME Proposals = {}, Shape, Shape', Ballots, NEW n \in Nodes, NEW m \in network,
           m.to = n, HandleVoteReply(n, m)
    PROVE  Ballots'
<1>1. CASE StepDown(n, m)
  BY <1>1, StepDownCalm, CalmBallots
<1>2. CASE /\ m.term = term[n]
           /\ role[n] = "candidate"
           /\ m.granted
           /\ votes' = [votes EXCEPT ![n] = votes[n] \cup {m.from}]
           /\ \/ /\ Majority(votes[n] \cup {m.from}, config[n].voters)
                 /\ BecomeLeader(n, term[n], {})
              \/ UNCHANGED <<role, leadersByTerm, network>>
           /\ UNCHANGED persistentVars
  <2>1. /\ role \in [Nodes -> {"follower", "candidate", "leader"}]
        /\ votes \in [Nodes -> SUBSET Nodes]
        /\ term \in [Nodes -> Nat]
        /\ votedFor \in [Nodes -> Nodes \cup {None}]
        /\ m.from \in Nodes
        /\ m.type = "VoteReply"
    BY DEF Shape, ShapedElections, ShapedNetwork, ShapedMessage, HandleVoteReply
  <2>2. PICK t \in Nat : t = term[n]
    BY <2>1
  <2>3. NoNewGrant
    <3>1. CASE BecomeLeader(n, term[n], {})
      <4> DEFINE sent == Broadcast(n, term[n], log[n], [p \in Nodes |-> LastIndex(n) + 1],
                                   config[n].voters)
      <4>1. \A k \in sent : k.type # "VoteReply"
        BY BroadcastNoGrant
      <4>2. Send({} \cup sent)
        BY <3>1 DEF BecomeLeader
      <4>3. {} \cup sent = sent
        OBVIOUS
      <4> HIDE DEF sent
      <4> QED  BY <4>1, <4>2, <4>3, SendNoGrant
    <3>2. CASE UNCHANGED network
      BY <3>2 DEF NoNewGrant
    <3> QED  BY <1>2, <3>1, <3>2
  <2>4. votedFor[n] = n
    BY <1>2 DEF Ballots, SelfVotes
  <2>5. votes[n] \cup {m.from} \subseteq Supporters(n, t)
    <3>1. votes[n] \subseteq Supporters(n, t)
      BY <1>2, <2>2 DEF Ballots, VotesCounted
    <3>2. Granted(m.from, t, n)
      BY <1>2, <2>1, <2>2 DEF Granted
    <3> QED  BY <2>1, <3>1, <3>2 DEF Supporters
  <2>6. Campaigns(n, t)
    <3>1. /\ term' = [term EXCEPT ![n] = t]
          /\ votedFor' = [votedFor EXCEPT ![n] = n]
      BY <1>2, <2>1, <2>2, <2>4 DEF persistentVars
    <3>2. /\ votes'[n] = votes[n] \cup {m.from}
          /\ \A k \in Nodes \ {n} : votes'[k] = votes[k] /\ role'[k] = role[k]
      BY <1>2, <2>1 DEF BecomeLeader
    <3>3. \/ role'[n] # "leader" /\ UNCHANGED leadersByTerm
          \/ /\ leadersByTerm' = leadersByTerm \cup {<<t, n>>}
             /\ Majority(votes[n] \cup {m.from}, InitialVoters)
      BY <1>2, <2>1, <2>2, VotersFixed DEF BecomeLeader
    <3> QED  BY <2>5, <3>1, <3>2, <3>3 DEF Campaigns
  <2>7. \A c \in Nodes : Granted(n, t, c) => c = n
    BY <2>2, <2>4 DEF Ballots, VotesKept
  <2>8. t >= term[n]
    BY <2>2
  <2> QED  BY <2>3, <2>6, <2>7, <2>8, CampaignBallots
<1> QED  BY <1>1, <1>2 DEF HandleVoteReply

-----------------------------------------------------------------------------
LEMMA InitBallots == Init => Ballots
BY DEF Init, Ballots, Granted, VotesKept, VotesUnique, SelfVotes, VotesCounted,
       LeadersElected, LeadersKnown

LEMMA NextBallots ==
    ASSUME Proposals = {}, Shape, Shape', Ballots, [Next]_vars
    PROVE  Ballots'
<1>1. CASE UNCHANGED vars
  BY <1>1, SameCalm, CalmBallots DEF vars, persistentVars, electionVars, NoNewGrant
<1>2. ASSUME NEW n \in Nodes, StartElection(n) PROVE Ballots'
  BY <1>2, StartElectionBallots
<1>3. ASSUME NEW n \in Nodes, Receive(n) PROVE Ballots'
  <2>1. PICK m \in network :
          /\ m.to = n
          /\ \/ HandleRequestVote(n, m)
             \/ HandleVoteReply(n, m)
             \/ HandleAppendEntries(n, m)
             \/ HandleAppendReply(n, m)
             \/ HandleInstallSnapshot(n, m)
             \/ HandleReadHeartbeat(n, m)
             \/ HandleReadAck(n, m)
    BY <1>3 DEF Receive
  <2>2. CASE HandleRequestVote(n, m)
    BY <2>2, RequestVoteBallots
  <2>3. CASE HandleVoteReply(n, m)
    BY <2>1, <2>3, VoteReplyBallots
  <2> QED  BY <2>1, <2>2, <2>3, CalmBallots, AppendEntriesCalm, AppendReplyCalm,
             InstallSnapshotCalm, ReadHeartbeatCalm, ReadAckCalm
<1>4. ASSUME NEW n \in Nodes, Heartbeat(n) \/ Crash(n) \/ Resume(n) PROVE Ballots'
  BY <1>4, HeartbeatCalm, CrashCalm, ResumeCalm, CalmBallots
<1>5. ASSUME NEW n \in Nodes, NEW c \in Clients, ClientCommand(n, c) \/ RequestRead(n, c)
      PROVE  Ballots'
  BY <1>5, AppendAsLeaderCalm, RequestReadCalm, CalmBallots DEF ClientCommand
<1> QED  BY <1>1, <1>2, <1>3, <1>4, <1>5 DEF Next

\* However many servers there are, and whatever is lost, delayed, duplicated or
\* crashed, a term has at most one leader ever, as long as no configuration
\* change is proposed (_on_request_vote, _on_vote_reply, _maybe_win; votedFor
\* survives pause).
THEOREM OneLeaderPerTerm ==
    ASSUME Proposals = {}
    PROVE  Spec => []ElectionSafety
<1>1. Init => Ballots
  BY InitBallots
<1>2. Shape /\ Shape' /\ Ballots /\ [Next]_vars => Ballots'
  BY NextBallots
<1>3. Shape /\ Ballots => ElectionSafety
  BY BallotsElectOne
<1> QED  BY <1>1, <1>2, <1>3, ShapeInvariant, PTL DEF Spec

-----------------------------------------------------------------------------
(***************************************************************************)
(* The timer of a server suits its role.  A leader in particular never     *)
(* trades its heartbeat timer for an election timer: that takes a vote it  *)
(* cannot give or a second leader of its term.                             *)
(***************************************************************************)
\* A step that changes nothing of the other servers.
Only(n) ==
    \A k \in Nodes \ {n} : UNCHANGED <<timer[k], role[k], alive[k]>>

\* Nothing is sent that has to be voiced, and no leader is forgotten.
NoVoice ==
    /\ \A m \in network' : m.type \in {"RequestVote", "ReadHeartbeat"} => m \in network
    /\ leadersByTerm \subseteq leadersByTerm'

LEMMA OnlyTimers ==
    ASSUME Timers, NEW n \in Nodes, Only(n), SoundTimer(n)'
    PROVE  \A k \in Nodes : SoundTimer(k)'
BY DEF Timers, Only, SoundTimer

LEMMA NoVoiceTimers ==
    ASSUME Timers, NoVoice
    PROVE  \A m \in network' : Voiced(m)'
BY DEF Timers, NoVoice, Voiced

LEMMA SameTimers ==
    ASSUME Timers, UNCHANGED <<timer, role, alive>>
    PROVE  \A k \in Nodes : SoundTimer(k)'
BY DEF Timers, SoundTimer

LEMMA SendNoVoice ==
    ASSUME NEW ms, Send(ms), leadersByTerm \subseteq leadersByTerm',
           \A m \in ms : m.type \notin {"RequestVote", "ReadHeartbeat"}
    PROVE  NoVoice
BY DEF Send, NoVoice

LEMMA BroadcastNoVoice ==
    ASSUME NEW n, NEW t, NEW lg, NEW nxt, NEW voters
    PROVE  \A m \in Broadcast(n, t, lg, nxt, voters) :
             m.type \notin {"RequestVote", "ReadHeartbeat"}
<1>1. \A p : Replicate(n, t, p, lg, nxt[p]).type \notin {"RequestVote", "ReadHeartbeat"}
  BY DEF Replicate
<1> QED  BY <1>1 DEF Broadcast

LEMMA ReplyNoVoice ==
    ASSUME NEW t, NEW n, NEW p, NEW ok, NEW match, UNCHANGED leadersByTerm,
           Send({AppendReply(t, n, p, ok, match)})
    PROVE  NoVoice
<1>1. AppendReply(t, n, p, ok, match).type = "AppendReply"
  BY DEF AppendReply
<1> QED  BY <1>1, SendNoVoice

-----------------------------------------------------------------------------
(***************************************************************************)
(* Stepping down.                                                          *)
(***************************************************************************)
LEMMA BecomeFollowerTimers ==
    ASSUME Shape, Timers, NEW n \in Nodes, alive[n], NEW t, BecomeFollower(n, t),
           UNCHANGED alive
    PROVE  \A k \in Nodes : SoundTimer(k)'
<1>1. /\ timer'[n] = "election"
      /\ role'[n] = "follower"
      /\ Only(n)
  BY DEF Shape, ShapedElections, BecomeFollower, Only
<1> QED  BY <1>1, OnlyTimers DEF SoundTimer

LEMMA FollowLeaderTimers ==
    ASSUME Shape, Timers, NEW n \in Nodes, alive[n], NEW t, FollowLeader(n, t),
           UNCHANGED alive
    PROVE  \A k \in Nodes : SoundTimer(k)'
<1>1. CASE BecomeFollower(n, t)
  BY <1>1, BecomeFollowerTimers
<1>2. CASE /\ role[n] = "follower"
           /\ timer' = [timer EXCEPT ![n] = "election"]
           /\ UNCHANGED <<term, votedFor, role, pendingReads>>
  <2>1. timer'[n] = "election" /\ role'[n] = "follower" /\ Only(n)
    BY <1>2 DEF Shape, ShapedElections, Only
  <2> QED  BY <2>1, OnlyTimers DEF SoundTimer
<1> QED  BY <1>1, <1>2 DEF FollowLeader

LEMMA StepDownTimers ==
    ASSUME Shape, Timers, NEW n \in Nodes, alive[n], NEW m, StepDown(n, m)
    PROVE  Timers'
<1>1. BecomeFollower(n, m.term) /\ UNCHANGED alive
  BY DEF StepDown, faultVars
<1>2. NoVoice
  BY DEF StepDown, NoVoice
<1> QED  BY <1>1, <1>2, BecomeFollowerTimers, NoVoiceTimers DEF Timers

-----------------------------------------------------------------------------
(***************************************************************************)
(* Elections.                                                              *)
(***************************************************************************)
LEMMA BecomeLeaderTimers ==
    ASSUME Shape, Timers, NEW n \in Nodes, alive[n], NEW t, NEW sent,
           BecomeLeader(n, t, sent), UNCHANGED alive,
           \A m \in sent : m.type = "RequestVote" /\ m.from # m.to
    PROVE  Timers'
<1>1. /\ timer'[n] = "heartbeat"
      /\ role'[n] = "leader"
      /\ Only(n)
      /\ leadersByTerm \subseteq leadersByTerm'
  BY DEF Shape, ShapedElections, BecomeLeader, Only
<1>2. \A m \in network' : \/ m \in network
                          \/ m.type = "RequestVote" /\ m.from # m.to
                          \/ m.type \notin {"RequestVote", "ReadHeartbeat"}
  BY BroadcastNoVoice DEF BecomeLeader, Send
<1>3. \A m \in network' : Voiced(m)'
  BY <1>1, <1>2 DEF Timers, Voiced
<1> QED  BY <1>1, <1>3, OnlyTimers DEF SoundTimer, Timers

LEMMA StartElectionTimers ==
    ASSUME Shape, Timers, NEW n \in Nodes, StartElection(n)
    PROVE  Timers'
<1> DEFINE t == term[n] + 1
           requests == {[type |-> "RequestVote", term |-> t, from |-> n, to |-> p,
                         lastIndex |-> LastIndex(n),
                         lastTerm |-> TermAt(n, LastIndex(n))] :
                          p \in config[n].voters \ {n}}
<1>1. \A m \in requests : m.type = "RequestVote" /\ m.from # m.to
  OBVIOUS
<1>2. /\ alive[n]
      /\ UNCHANGED alive
      /\ \/ BecomeLeader(n, t, requests)
         \/ /\ role' = [role EXCEPT ![n] = "candidate"]
            /\ timer' = [timer EXCEPT ![n] = "election"]
            /\ Send(requests)
            /\ UNCHANGED leadersByTerm
  BY DEF StartElection, faultVars
<1> HIDE DEF t, requests
<1>3. CASE BecomeLeader(n, t, requests)
  BY <1>1, <1>2, <1>3, BecomeLeaderTimers
<1>4. CASE /\ role' = [role EXCEPT ![n] = "candidate"]
           /\ timer' = [timer EXCEPT ![n] = "election"]
           /\ Send(requests)
           /\ UNCHANGED leadersByTerm
  <2>1. timer'[n] = "election" /\ role'[n] = "candidate" /\ Only(n)
    BY <1>2, <1>4 DEF Shape, ShapedElections, Only
  <2>2. \A m \in network' : Voiced(m)'
    BY <1>1, <1>4 DEF Send, Timers, Voiced
  <2> QED  BY <1>2, <2>1, <2>2, OnlyTimers DEF SoundTimer, Timers
<1> QED  BY <1>2, <1>3, <1>4

\* A leader or a candidate gives nobody else its vote.
LEMMA RequestVoteTimers ==
    ASSUME Shape, Ballots, Timers, NEW n \in Nodes, alive[n], NEW m \in network,
           m.to = n, HandleRequestVote(n, m)
    PROVE  Timers'
<1>1. /\ m.type = "RequestVote"
      /\ m.term \in Nat
      /\ term[n] \in Nat
      /\ m.from # n
      /\ timer \in [Nodes -> {"none", "election", "heartbeat"}]
      /\ role \in [Nodes -> {"follower", "candidate", "leader"}]
      /\ None \notin Nodes
  BY ConstantsAssumption
     DEF Shape, ShapedElections, ShapedNetwork, ShapedMessage, HandleRequestVote,
         Timers, Voiced
<1>2. /\ IF m.term > term[n] THEN role' = [role EXCEPT ![n] = "follower"]
                             ELSE UNCHANGED role
      /\ timer' = [timer EXCEPT ![n] =
                     IF m.term > term[n] \/ Grants(n, m) THEN "election" ELSE timer[n]]
      /\ Send({VoteReply(Larger(term[n], m.term), n, m.from, Grants(n, m))})
      /\ UNCHANGED <<alive, leadersByTerm>>
  BY DEF HandleRequestVote, faultVars
<1>3. Only(n)
  BY <1>1, <1>2 DEF Only
<1>4. SoundTimer(n)
  BY DEF Timers
<1>5. SoundTimer(n)'
  <2>1. CASE m.term > term[n]
    BY <1>1, <1>2, <2>1 DEF SoundTimer
  <2>2. CASE ~(m.term > term[n]) /\ Grants(n, m)
    <3>1. votedFor[n] \in {None, m.from}
      BY <2>2 DEF Grants, VoteIn
    <3>2. role[n] = "follower"
      BY <1>1, <3>1 DEF Ballots, SelfVotes
    <3> QED  BY <1>1, <1>2, <2>2, <3>2 DEF SoundTimer
  <2>3. CASE ~(m.term > term[n]) /\ ~Grants(n, m)
    BY <1>1, <1>2, <1>4, <2>3 DEF SoundTimer
  <2> QED  BY <2>1, <2>2, <2>3
<1>6. NoVoice
  <2>1. VoteReply(Larger(term[n], m.term), n, m.from, Grants(n, m)).type = "VoteReply"
    BY DEF VoteReply
  <2> QED  BY <1>2, <2>1, SendNoVoice
<1> QED  BY <1>3, <1>5, <1>6, OnlyTimers, NoVoiceTimers DEF Timers

LEMMA VoteReplyTimers ==
    ASSUME Shape, Timers, NEW n \in Nodes, alive[n], NEW m \in network,
           HandleVoteReply(n, m)
    PROVE  Timers'
<1>1. CASE StepDown(n, m)
  BY <1>1, StepDownTimers
<1>2. CASE UNCHANGED faultVars /\ BecomeLeader(n, term[n], {})
  <2>1. PICK sent : sent = {}
    OBVIOUS
  <2>2. BecomeLeader(n, term[n], sent) /\ UNCHANGED alive
    BY <1>2, <2>1 DEF faultVars
  <2>3. \A k \in sent : k.type = "RequestVote" /\ k.from # k.to
    BY <2>1
  <2> QED  BY <2>2, <2>3, BecomeLeaderTimers
<1>3. CASE UNCHANGED faultVars /\ UNCHANGED <<role, timer, leadersByTerm, network>>
  BY <1>3, SameTimers, NoVoiceTimers DEF faultVars, NoVoice, Timers
<1> QED  BY <1>1, <1>2, <1>3 DEF HandleVoteReply

-----------------------------------------------------------------------------
(***************************************************************************)
(* Replication.                                                            *)
(***************************************************************************)
LEMMA AppendEntriesTimers ==
    ASSUME Shape, Timers, NEW n \in Nodes, alive[n], NEW m \in network,
           HandleAppendEntries(n, m)
    PROVE  Timers'
<1>1. UNCHANGED <<leadersByTerm, alive>>
  BY DEF HandleAppendEntries, faultVars
<1>2. NoVoice
  BY <1>1, ReplyNoVoice DEF HandleAppendEntries
<1>3. \A k \in Nodes : SoundTimer(k)'
  <2>1. CASE UNCHANGED <<role, timer>>
    BY <1>1, <2>1, SameTimers
  <2>2. CASE FollowLeader(n, m.term)
    BY <1>1, <2>2, FollowLeaderTimers
  <2> QED  BY <2>1, <2>2 DEF HandleAppendEntries
<1> QED  BY <1>2, <1>3, NoVoiceTimers DEF Timers

LEMMA InstallSnapshotTimers ==
    ASSUME Shape, Timers, NEW n \in Nodes, alive[n], NEW m \in network,
           HandleInstallSnapshot(n, m)
    PROVE  Timers'
<1>1. UNCHANGED <<leadersByTerm, alive>>
  BY DEF HandleInstallSnapshot, faultVars
<1>2. NoVoice
  BY <1>1, ReplyNoVoice DEF HandleInstallSnapshot
<1>3. \A k \in Nodes : SoundTimer(k)'
  <2>1. CASE UNCHANGED <<role, timer>>
    BY <1>1, <2>1, SameTimers
  <2>2. CASE FollowLeader(n, m.term)
    BY <1>1, <2>2, FollowLeaderTimers
  <2> QED  BY <2>1, <2>2 DEF HandleInstallSnapshot
<1> QED  BY <1>2, <1>3, NoVoiceTimers DEF Timers

LEMMA AppendReplyTimers ==
    ASSUME Shape, Timers, NEW n \in Nodes, alive[n], NEW m \in network,
           HandleAppendReply(n, m)
    PROVE  Timers'
<1> DEFINE next == [nextIndex[n] EXCEPT ![m.from] =
                      IF m.success THEN Larger(@, m.match + 1) ELSE BackOff(@)]
           sent == Replicate(n, term[n], m.from, log[n], next[m.from])
<1>1. CASE StepDown(n, m)
  BY <1>1, StepDownTimers
<1>2. CASE /\ UNCHANGED <<electionVars, faultVars>>
           /\ UNCHANGED network \/ Send({sent})
  <2>1. sent.type \notin {"RequestVote", "ReadHeartbeat"}
    BY DEF Replicate
  <2> HIDE DEF sent
  <2>2. NoVoice
    BY <1>2, <2>1, SendNoVoice DEF NoVoice, electionVars
  <2> QED  BY <1>2, <2>2, SameTimers, NoVoiceTimers DEF electionVars, faultVars, Timers
<1> QED  BY <1>1, <1>2 DEF HandleAppendReply

LEMMA BroadcastTimers ==
    ASSUME Timers, UNCHANGED <<electionVars, faultVars>>, NEW n, NEW t, NEW lg, NEW nxt,
           NEW voters, Send(Broadcast(n, t, lg, nxt, voters))
    PROVE  Timers'
<1>1. NoVoice
  BY BroadcastNoVoice, SendNoVoice DEF electionVars
<1> QED  BY <1>1, SameTimers, NoVoiceTimers DEF electionVars, faultVars, Timers

-----------------------------------------------------------------------------
(***************************************************************************)
(* Reads.                                                                  *)
(***************************************************************************)
LEMMA RequestReadTimers ==
    ASSUME Shape, Ballots, Timers, NEW n \in Nodes, NEW c \in Clients, RequestRead(n, c)
    PROVE  Timers'
<1> DEFINE beats == {[type |-> "ReadHeartbeat", term |-> term[n], from |-> n, to |-> p,
                      readId |-> nextReadId[n]] : p \in config[n].voters \ {n}}
<1>1. /\ Send(beats)
      /\ role[n] = "leader"
      /\ UNCHANGED <<electionVars, faultVars>>
  BY DEF RequestRead, MayRead
<1>2. <<term[n], n>> \in leadersByTerm
  BY <1>1 DEF Ballots, LeadersKnown
<1>3. \A m \in beats : m.from # m.to /\ <<m.term, m.from>> \in leadersByTerm
  BY <1>2
<1> HIDE DEF beats
<1>4. \A m \in network' : Voiced(m)'
  BY <1>1, <1>3 DEF Send, Timers, Voiced, electionVars
<1> QED  BY <1>1, <1>4, SameTimers DEF electionVars, faultVars, Timers

\* Only a second leader of its term could put a leader on an election timer.
LEMMA ReadHeartbeatTimers ==
    ASSUME Shape, Ballots, Timers, NEW n \in Nodes, alive[n], NEW m \in network,
           m.to = n, HandleReadHeartbeat(n, m)
    PROVE  Timers'
<1> DEFINE ack == [type |-> "ReadAck", term |-> Larger(term[n], m.term), from |-> n,
                   to |-> m.from, readId |-> m.readId]
<1>1. /\ m.type = "ReadHeartbeat"
      /\ Send({ack})
      /\ UNCHANGED <<leadersByTerm, alive>>
  BY DEF HandleReadHeartbeat, faultVars
<1>2. NoVoice
  BY <1>1, SendNoVoice
<1>3. \A k \in Nodes : SoundTimer(k)'
  <2>1. CASE BecomeFollower(n, m.term)
    BY <1>1, <2>1, BecomeFollowerTimers
  <2>2. CASE /\ m.term = term[n]
             /\ timer' = [timer EXCEPT ![n] = "election"]
             /\ UNCHANGED <<term, votedFor, role, pendingReads>>
    <3>1. <<m.term, m.from>> \in leadersByTerm /\ m.from # n
      BY <1>1 DEF Timers, Voiced
    <3>2. role[n] = "leader" => <<term[n], n>> \in leadersByTerm
      BY DEF Ballots, LeadersKnown
    <3>3. ElectionSafety
      BY BallotsElectOne
    <3>4. role[n] # "leader"
      <4> SUFFICES ASSUME role[n] = "leader" PROVE FALSE
        OBVIOUS
      <4>1. <<m.term, m.from>> \in leadersByTerm /\ <<m.term, n>> \in leadersByTerm
        BY <2>2, <3>1, <3>2
      <4>2. <<m.term, m.from>> = <<m.term, n>>
        BY <3>3, <4>1 DEF ElectionSafety
      <4> QED  BY <3>1, <4>2
    <3>5. timer'[n] = "election" /\ role'[n] = role[n] /\ Only(n)
      BY <1>1, <2>2 DEF Shape, ShapedElections, Only
    <3> QED  BY <1>1, <3>4, <3>5, OnlyTimers DEF SoundTimer
  <2>3. CASE UNCHANGED <<term, votedFor, role, pendingReads, timer>>
    BY <1>1, <2>3, SameTimers
  <2> QED  BY <2>1, <2>2, <2>3 DEF HandleReadHeartbeat
<1> QED  BY <1>2, <1>3, NoVoiceTimers DEF Timers

LEMMA ReadAckTimers ==
    ASSUME Shape, Timers, NEW n \in Nodes, alive[n], NEW m \in network,
           HandleReadAck(n, m)
    PROVE  Timers'
<1>1. CASE StepDown(n, m)
  BY <1>1, StepDownTimers
<1>2. CASE UNCHANGED <<electionVars, faultVars, network>>
  BY <1>2, SameTimers, NoVoiceTimers DEF electionVars, faultVars, NoVoice, Timers
<1> QED  BY <1>1, <1>2 DEF HandleReadAck

-----------------------------------------------------------------------------
LEMMA CrashTimers ==
    ASSUME Shape, Timers, NEW n \in Nodes, Crash(n) \/ Resume(n)
    PROVE  Timers'
<1>1. NoVoice
  BY DEF Crash, Resume, NoVoice
<1>2. Only(n)
  BY DEF Shape, ShapedElections, Crash, Resume, Only
<1>3. SoundTimer(n)'
  BY DEF Timers, SoundTimer, Shape, ShapedElections, Crash, Resume
<1> QED  BY <1>1, <1>2, <1>3, OnlyTimers, NoVoiceTimers DEF Timers

LEMMA InitTimers == Init => Timers
BY DEF Init, Timers, SoundTimer

LEMMA NextTimers ==
    ASSUME Proposals = {}, Shape, Ballots, Timers, [Next]_vars
    PROVE  Timers'
<1>1. CASE UNCHANGED vars
  BY <1>1, SameTimers, NoVoiceTimers DEF vars, electionVars, faultVars, NoVoice, Timers
<1>2. ASSUME NEW n \in Nodes, StartElection(n) PROVE Timers'
  BY <1>2, StartElectionTimers
<1>3. ASSUME NEW n \in Nodes, Receive(n) PROVE Timers'
  <2>1. PICK m \in network :
          /\ m.to = n
          /\ \/ HandleRequestVote(n, m)
             \/ HandleVoteReply(n, m)
             \/ HandleAppendEntries(n, m)
             \/ HandleAppendReply(n, m)
             \/ HandleInstallSnapshot(n, m)
             \/ HandleReadHeartbeat(n, m)
             \/ HandleReadAck(n, m)
    BY <1>3 DEF Receive
  <2>2. alive[n]
    BY <1>3 DEF Receive
  <2>3. CASE HandleRequestVote(n, m) \/ HandleVoteReply(n, m)
    BY <2>1, <2>2, <2>3, RequestVoteTimers, VoteReplyTimers
  <2>4. CASE HandleReadHeartbeat(n, m) \/ HandleReadAck(n, m)
    BY <2>1, <2>2, <2>4, ReadHeartbeatTimers, ReadAckTimers
  <2> QED  BY <2>1, <2>2, <2>3, <2>4, AppendEntriesTimers, AppendReplyTimers,
             InstallSnapshotTimers
<1>4. ASSUME NEW n \in Nodes, Heartbeat(n) PROVE Timers'
  BY <1>4, BroadcastTimers DEF Heartbeat
<1>5. ASSUME NEW n \in Nodes, NEW c \in Clients, ClientCommand(n, c) PROVE Timers'
  BY <1>5, BroadcastTimers DEF ClientCommand, AppendAsLeader
<1>6. ASSUME NEW n \in Nodes, NEW c \in Clients, RequestRead(n, c) PROVE Timers'
  BY <1>6, RequestReadTimers
<1>7. ASSUME NEW n \in Nodes, Crash(n) \/ Resume(n) PROVE Timers'
  BY <1>7, CrashTimers
<1> QED  BY <1>1, <1>2, <1>3, <1>4, <1>5, <1>6, <1>7 DEF Next

\* However many servers there are, as long as no configuration change is
\* proposed, the timer a live server waits for is the one its role needs: a
\* leader is never left without heartbeats and anyone else can campaign, though
\* both timers share one sequence number and a ReadHeartbeat arms the election
\* timer whatever the role (_arm_election_timer, _arm_heartbeat_timer,
\* _on_read_heartbeat).
THEOREM TimerFollowsRole ==
    ASSUME Proposals = {}
    PROVE  Spec => []TimerMatchesRole
<1>1. Init => Ballots /\ Timers
  BY InitBallots, InitTimers
<1>2. Shape /\ Shape' /\ Ballots /\ Timers /\ [Next]_vars => Ballots' /\ Timers'
  BY NextBallots, NextTimers
<1>3. Timers => TimerMatchesRole
  BY DEF Timers, SoundTimer, TimerMatchesRole
<1> QED  BY <1>1, <1>2, <1>3, ShapeInvariant, PTL DEF Spec
=============================================================================

-------------------------- MODULE RaftClientProofs --------------------------
(***************************************************************************)
(* What the servers are to their clients: one log of commands that only    *)
(* grows, and reads that miss nothing of it; with the types of all that    *)
(* the servers store and send.                                             *)
(***************************************************************************)
EXTENDS RaftCommitProofs

-----------------------------------------------------------------------------
(***************************************************************************)
(* The record of commits: no index is missing and none is observed twice,  *)
(* and no server, snapshot or message is ahead of it.                      *)
(***************************************************************************)
Numbered(k) ==
    /\ \A rec \in committed : rec.index \in 1 .. k
    /\ \A i \in 1 .. k : \E rec \in committed : rec.index = i
    /\ \A r1, r2 \in committed : r1.index = r2.index => r1 = r2
    /\ \A n \in Nodes : commitIndex[n] <= k
    /\ \A m \in network : m.type = "InstallSnapshot" => m.snapshot.lastIndex <= k

CommitsNumbered == \E k \in Nat : Numbered(k)

\* The commands on record are one sequence, and what every state machine was fed
\* is its first ones.
OneHistory ==
    /\ CommittedCommands \in Seq(KnownCommands)
    /\ \A rec \in committed :
         /\ rec.index \in 1 .. Len(CommittedCommands)
         /\ CommittedCommands[rec.index] = rec.entry.cmd
    /\ \A i \in 1 .. Len(CommittedCommands) : \E rec \in committed : rec.index = i
    /\ \A n \in Nodes :
         /\ commitIndex[n] <= Len(CommittedCommands)
         /\ applied[n] = SubSeq(CommittedCommands, 1, commitIndex[n])

-----------------------------------------------------------------------------
(***************************************************************************)
(* Reads: why a leader that a majority confirmed misses no commit.         *)
(***************************************************************************)
\* Leader n, once it has committed in its own term, has committed all it has of
\* earlier ones.
OwnTermFirst(n) ==
    role[n] = "leader" /\ committedThisTerm[n] =>
      \A i \in 1 .. Len(log[n]) : log[n][i].term < term[n] => Base(n) + i <= commitIndex[n]

\* Whoever leads term t now has committed index i.
LeaderAt(t, i) ==
    \A n \in Nodes : role[n] = "leader" /\ term[n] = t => i <= commitIndex[n]

\* What is committed in a term its leader committed first.
LeadersAhead ==
    /\ \A n \in Nodes : OwnTermFirst(n)
    /\ \A rec \in committed : Led(rec.term) /\ LeaderAt(rec.term, rec.index)
    /\ \A m \in network : m.type = "AppendEntries" => LeaderAt(m.term, m.commit)

\* v confirmed, or may have, that n led term t when it asked for id.
Confirmed(v, n, t, id) ==
    \E m \in network : /\ m.type = "ReadAck"
                       /\ m.from = v
                       /\ m.to = n
                       /\ m.term = t
                       /\ m.readId = id

\* A majority has left the term of n without confirming read r and never will.
Outvoted(n, r) ==
    \E Q \in SUBSET Nodes :
      /\ Majority(Q, InitialVoters)
      /\ \A v \in Q : /\ term[v] > term[n]
                      /\ v \notin r.acks
                      /\ ~Confirmed(v, n, term[n], r.id)

\* A pending read misses nothing of what was committed when it was requested, or
\* will never be confirmed.  Read ids are not used twice.
ReadsGuarded ==
    /\ \A n \in Nodes :
         /\ role[n] # "leader" => pendingReads[n] = {}
         /\ \A r \in pendingReads[n] : r.floor <= commitIndex[n] \/ Outvoted(n, r)
    /\ \A m \in network :
         /\ m.type = "ReadHeartbeat" => m.readId \in 0 .. nextReadId[m.from] - 1
         /\ m.type = "ReadAck" => m.readId \in 0 .. nextReadId[m.to] - 1

-----------------------------------------------------------------------------
(***************************************************************************)
(* Sessions: why no log has a client's requests twice or out of order.     *)
(***************************************************************************)
\* The requests of each client are in L in order, each once.
InOrder(L) ==
    \A c \in Clients : \A j \in 1 .. Len(L) : \A i \in 1 .. j - 1 :
      OfClient(L[i].cmd, c) /\ OfClient(L[j].cmd, c) => L[i].cmd.req < L[j].cmd.req

\* L has no request that its client has not come to.
Submitted(L) ==
    \A c \in Clients : \A i \in 1 .. Len(L) :
      OfClient(L[i].cmd, c) => L[i].cmd.req <= nextReq[c]

LeadersInOrder(lead) == \A t \in Nat : InOrder(lead[t]) /\ Submitted(lead[t])

\* Leader n knows of every request it stores.
KnowsClients(n) ==
    role[n] = "leader" =>
      \A c \in Clients : \A i \in 1 .. Len(log[n]) :
        OfClient(log[n][i].cmd, c) => log[n][i].cmd.req <= clientIndex[n][c]

\* A client has moved on from every request of its that was committed.
CommitsAnswered ==
    \A rec \in committed : \A c \in Clients :
      OfClient(rec.entry.cmd, c) => rec.entry.cmd.req < nextReq[c]

\* It has moved on only from what was committed or read.
AnswersEarned ==
    \A c \in Clients : \A r \in 1 .. nextReq[c] - 1 :
      <<c, r>> \in Reads \/ \E rec \in committed : rec.entry.cmd = Request(c, r)

\* Only reads are pending as reads at n.
ReadsListed(n) == \A r \in pendingReads[n] : <<r.client, r.req>> \in Reads

SessionsKept ==
    /\ \A n \in Nodes : KnowsClients(n) /\ ReadsListed(n)
    /\ CommitsAnswered
    /\ AnswersEarned

-----------------------------------------------------------------------------
(***************************************************************************)
(* The record of commits has neither gaps nor repetitions, whatever        *)
(* configurations are changed to.                                          *)
(***************************************************************************)
\* Whoever sends a snapshot sends its own.
OwnSnapshot(m) == m.type = "InstallSnapshot" => \E n \in Nodes : m.snapshot = snapshot[n]

SnapshotsSent == \A m \in network' : m \in network \/ OwnSnapshot(m)

LEMMA SendOwn ==
    ASSUME NEW ms, Send(ms), \A m \in ms : OwnSnapshot(m)
    PROVE  SnapshotsSent
BY DEF Send, SnapshotsSent

LEMMA ReplicateOwn ==
    ASSUME NEW n \in Nodes, NEW t, NEW p, NEW lg, NEW nxt
    PROVE  OwnSnapshot(Replicate(n, t, p, lg, nxt))
BY DEF OwnSnapshot, Replicate

LEMMA BroadcastOwn ==
    ASSUME NEW n \in Nodes, NEW t, NEW lg, NEW nxt, NEW voters,
           NEW m \in Broadcast(n, t, lg, nxt, voters)
    PROVE  OwnSnapshot(m)
BY ReplicateOwn DEF Broadcast

LEMMA ReplyOwn ==
    ASSUME NEW t, NEW n, NEW p, NEW ok, NEW i, Send({AppendReply(t, n, p, ok, i)})
    PROVE  SnapshotsSent
<1>1. \A m \in {AppendReply(t, n, p, ok, i)} : OwnSnapshot(m)
  BY DEF AppendReply, OwnSnapshot
<1> QED  BY <1>1, SendOwn

LEMMA BecomeLeaderOwn ==
    ASSUME NEW n \in Nodes, NEW t, NEW sent, \A m \in sent : OwnSnapshot(m),
           BecomeLeader(n, t, sent)
    PROVE  SnapshotsSent
<1>1. PICK nxt, voters : Send(sent \cup Broadcast(n, t, log[n], nxt, voters))
  BY DEF BecomeLeader
<1>2. \A m \in sent \cup Broadcast(n, t, log[n], nxt, voters) : OwnSnapshot(m)
  BY BroadcastOwn
<1> QED  BY <1>1, <1>2, SendOwn

LEMMA NextSnapshotsSent ==
    ASSUME Next
    PROVE  SnapshotsSent
<1>1. ASSUME NEW n \in Nodes, StartElection(n) PROVE SnapshotsSent
  <2> DEFINE sent == {[type |-> "RequestVote", term |-> term[n] + 1, from |-> n, to |-> p,
                       lastIndex |-> LastIndex(n),
                       lastTerm |-> TermAt(n, LastIndex(n))] : p \in config[n].voters \ {n}}
  <2>1. Send(sent) \/ \E t : BecomeLeader(n, t, sent)
    BY <1>1, Zenon DEF StartElection
  <2>2. \A m \in sent : OwnSnapshot(m)
    BY DEF OwnSnapshot
  <2> QED  BY <2>1, <2>2, SendOwn, BecomeLeaderOwn
<1>2. ASSUME NEW n \in Nodes, NEW m \in network, HandleVoteReply(n, m) PROVE SnapshotsSent
  <2>1. network' = network \/ \E t : BecomeLeader(n, t, {})
    BY <1>2, Zenon DEF HandleVoteReply, StepDown
  <2> QED  BY <2>1, BecomeLeaderOwn DEF SnapshotsSent
<1>3. ASSUME NEW n \in Nodes, NEW m \in network, HandleAppendReply(n, m)
      PROVE  SnapshotsSent
  <2>1. \/ network' = network
        \/ \E t, p, lg, nxt : Send({Replicate(n, t, p, lg, nxt)})
    BY <1>3, Zenon DEF HandleAppendReply, StepDown
  <2>2. CASE \E t, p, lg, nxt : Send({Replicate(n, t, p, lg, nxt)})
    <3>1. PICK r : OwnSnapshot(r) /\ Send({r})
      BY <2>2, ReplicateOwn
    <3> QED  BY <3>1, SendOwn
  <2> QED  BY <2>1, <2>2 DEF SnapshotsSent
<1>4. ASSUME NEW n \in Nodes, NEW m \in network,
             HandleAppendEntries(n, m) \/ HandleInstallSnapshot(n, m)
      PROVE  SnapshotsSent
  <2>1. \E t, p, ok, i : Send({AppendReply(t, n, p, ok, i)})
    BY <1>4, Zenon DEF HandleAppendEntries, HandleInstallSnapshot
  <2> QED  BY <2>1, ReplyOwn
<1>5. ASSUME NEW n \in Nodes, NEW m \in network,
             HandleRequestVote(n, m) \/ HandleReadHeartbeat(n, m) \/ HandleReadAck(n, m)
      PROVE  SnapshotsSent
  <2>1. CASE HandleRequestVote(n, m)
    BY <2>1 DEF HandleRequestVote, Send, VoteReply, SnapshotsSent, OwnSnapshot
  <2>2. CASE HandleReadHeartbeat(n, m)
    BY <2>2 DEF HandleReadHeartbeat, Send, SnapshotsSent, OwnSnapshot
  <2>3. CASE HandleReadAck(n, m)
    BY <2>3 DEF HandleReadAck, StepDown, SnapshotsSent
  <2> QED  BY <1>5, <2>1, <2>2, <2>3
<1>6. ASSUME NEW n \in Nodes, Heartbeat(n) PROVE SnapshotsSent
  BY <1>6, BroadcastOwn, SendOwn DEF Heartbeat
<1>7. ASSUME NEW n \in Nodes, NEW cmd, NEW voters, AppendAsLeader(n, cmd, voters)
      PROVE  SnapshotsSent
  <2>1. PICK lg, nxt : Send(Broadcast(n, term[n], lg, nxt, voters))
    BY <1>7 DEF AppendAsLeader
  <2> QED  BY <2>1, BroadcastOwn, SendOwn
<1>8. ASSUME NEW n \in Nodes,
             \/ \E c \in Clients : ClientCommand(n, c)
             \/ \E V \in Proposals : ChangeConfig(n, V)
      PROVE  SnapshotsSent
  BY <1>7, <1>8, Zenon DEF ClientCommand, ChangeConfig
<1>9. ASSUME NEW n \in Nodes, NEW c \in Clients, RequestRead(n, c) PROVE SnapshotsSent
  BY <1>9 DEF RequestRead, Send, SnapshotsSent, OwnSnapshot
<1>10. ASSUME NEW n \in Nodes, Crash(n) \/ Resume(n) PROVE SnapshotsSent
  BY <1>10 DEF Crash, Resume, SnapshotsSent
<1> QED  BY <1>1, <1>2, <1>3, <1>4, <1>5, <1>6, <1>8, <1>9, <1>10 DEF Next, Receive

\* What a commit adds to the record: the indices it passes that nobody had
\* observed, each once.
LEMMA ObserveAdds ==
    ASSUME NEW n \in Nodes, NEW lg, NEW ci, NEW t, Observe(n, lg, ci, t)
    PROVE  /\ committed \subseteq committed'
           /\ \A rec \in committed' \ committed :
                /\ rec.index \in commitIndex[n] + 1 .. ci
                /\ rec.term = t
                /\ \A old \in committed : old.index # rec.index
           /\ \A i \in commitIndex[n] + 1 .. ci : \E rec \in committed' : rec.index = i
           /\ \A r1, r2 \in committed' \ committed : r1.index = r2.index => r1 = r2
<1> DEFINE fresh == {i \in commitIndex[n] + 1 .. ci : \A rec \in committed : rec.index # i}
           record(i) == [index |-> i, entry |-> lg[i - Base(n)], term |-> t]
<1>1. committed' = committed \cup {record(i) : i \in fresh}
  BY DEF Observe
<1>2. \A i : record(i).index = i /\ record(i).term = t
  OBVIOUS
<1>3. \A rec \in committed' \ committed : \E i \in fresh : rec = record(i)
  BY <1>1
<1> HIDE DEF record
<1>4. \A rec \in committed' \ committed :
        /\ rec.index \in fresh
        /\ rec = record(rec.index)
  BY <1>2, <1>3
<1>5. ASSUME NEW i \in commitIndex[n] + 1 .. ci PROVE \E rec \in committed' : rec.index = i
  <2>1. CASE i \in fresh
    BY <1>1, <1>2, <2>1
  <2>2. CASE i \notin fresh
    BY <1>1, <2>2
  <2> QED  BY <2>1, <2>2
<1>6. ASSUME NEW r1 \in committed' \ committed, NEW r2 \in committed' \ committed,
             r1.index = r2.index
      PROVE  r1 = r2
  BY <1>4, <1>6
<1> QED  BY <1>1, <1>2, <1>4, <1>5, <1>6

LEMMA NextNumbered ==
    ASSUME Shape, Shape', Next, CommitsNumbered
    PROVE  CommitsNumbered'
<1>1. PICK k \in Nat : Numbered(k)
  BY DEF CommitsNumbered
<1>2. PICK n \in Nodes : CommitsBy(n)
  BY NextObserved
<1>3. PICK c \in Nat, c2 \in Nat : c = commitIndex[n] /\ c2 = commitIndex'[n]
  BY DEF Shape, ShapedLogs
<1>4. c <= k
  BY <1>1, <1>3 DEF Numbered
<1>5. ASSUME NEW k2 \in Nat, k <= k2, c2 <= k2
      PROVE  /\ \A p \in Nodes : commitIndex'[p] <= k2
             /\ \A m \in network' :
                  m.type = "InstallSnapshot" => m.snapshot.lastIndex <= k2
  <2>1. ASSUME NEW p \in Nodes PROVE commitIndex'[p] <= k2
    <3>1. CASE p = n
      BY <1>3, <1>5, <3>1
    <3>2. CASE p # n
      <4>1. PICK d \in Nat : d = commitIndex[p] /\ d <= k
        BY <1>1 DEF Numbered, Shape, ShapedLogs
      <4>2. commitIndex'[p] = d
        BY <1>2, <3>2, <4>1 DEF CommitsBy
      <4>3. d <= k2
        BY <1>5, <4>1
      <4> QED  BY <4>2, <4>3
    <3> QED  BY <3>1, <3>2
  <2>2. ASSUME NEW m \in network', m.type = "InstallSnapshot"
        PROVE  m.snapshot.lastIndex <= k2
    <3>1. PICK i \in Nat : i = m.snapshot.lastIndex
      BY <2>2 DEF Shape, ShapedNetwork, ShapedMessage, SnapshotFull, KnownSnapshots
    <3>2. m \in network \/ \E p \in Nodes : m.snapshot = snapshot[p]
      BY <2>2, NextSnapshotsSent DEF SnapshotsSent, OwnSnapshot
    <3>3. CASE m \in network
      BY <1>1, <1>5, <2>2, <3>1, <3>3 DEF Numbered
    <3>4. CASE \E p \in Nodes : m.snapshot = snapshot[p]
      <4>1. PICK p \in Nodes : i = Base(p)
        BY <3>1, <3>4 DEF Base
      <4>2. PICK d \in Nat : d = commitIndex[p] /\ d <= k /\ i <= d
        BY <1>1, <4>1 DEF Numbered, Shape, ShapedLogs
      <4>3. i <= k2
        BY <1>5, <4>2
      <4> QED  BY <3>1, <4>3
    <3> QED  BY <3>2, <3>3, <3>4
  <2> QED  BY <2>1, <2>2
<1>6. CASE committed' = committed /\ c2 <= k
  <2>1. Numbered(k)'
    BY <1>1, <1>5, <1>6 DEF Numbered
  <2> QED  BY <2>1 DEF CommitsNumbered
<1>7. CASE c2 > c /\ \E lg, t : Observe(n, lg, c2, t)
  <2>1. PICK k2 \in Nat : k <= k2 /\ c2 <= k2 /\ (k2 = k \/ k2 = c2)
    <3>1. CASE c2 <= k
      BY <3>1
    <3>2. CASE k <= c2
      BY <3>2
    <3> QED  BY <3>1, <3>2
  <2>2. /\ committed \subseteq committed'
        /\ \A rec \in committed' \ committed :
             /\ rec.index \in c + 1 .. c2
             /\ \A old \in committed : old.index # rec.index
        /\ \A i \in c + 1 .. c2 : \E rec \in committed' : rec.index = i
        /\ \A r1, r2 \in committed' \ committed : r1.index = r2.index => r1 = r2
    BY <1>3, <1>7, ObserveAdds
  <2>3. ASSUME NEW rec \in committed' PROVE rec.index \in 1 .. k2
    <3>1. CASE rec \in committed
      <4>1. rec.index \in 1 .. k
        BY <1>1, <3>1 DEF Numbered
      <4> QED  BY <2>1, <4>1
    <3>2. CASE rec \notin committed
      <4>1. rec.index \in c + 1 .. c2
        BY <2>2, <3>2
      <4> QED  BY <2>1, <4>1
    <3> QED  BY <3>1, <3>2
  <2>4. ASSUME NEW i \in 1 .. k2 PROVE \E rec \in committed' : rec.index = i
    <3>1. CASE i <= k
      <4>1. PICK rec \in committed : rec.index = i
        BY <1>1, <3>1 DEF Numbered
      <4> QED  BY <2>2, <4>1
    <3>2. CASE i > k
      <4>1. i \in c + 1 .. c2
        BY <1>4, <2>1, <3>2
      <4> QED  BY <2>2, <4>1
    <3> QED  BY <3>1, <3>2
  <2>5. ASSUME NEW r1 \in committed', NEW r2 \in committed', r1.index = r2.index
        PROVE  r1 = r2
    BY <1>1, <2>2, <2>5 DEF Numbered
  <2>6. Numbered(k2)'
    BY <1>5, <2>1, <2>3, <2>4, <2>5 DEF Numbered
  <2> QED  BY <2>6 DEF CommitsNumbered
<1>8. \/ committed' = committed /\ c2 <= k
      \/ c2 > c /\ \E lg, t : Observe(n, lg, c2, t)
  <2>1. CASE committed' = committed /\ c2 <= c
    BY <1>4, <2>1
  <2>2. CASE /\ committed' = committed
             /\ \E m \in network : m.type = "InstallSnapshot" /\ c2 = m.snapshot.lastIndex
    BY <1>1, <2>2 DEF Numbered
  <2> QED  BY <1>2, <1>3, <2>1, <2>2 DEF CommitsBy, CommitsObserved
<1> QED  BY <1>6, <1>7, <1>8

\* Every index is observed as committed, once, before anybody is past it, with
\* any configuration changes (InvariantChecker._observe_commits, which keeps the
\* first observation of each index).
THEOREM CommitsAreNumbered == Spec => []CommitsNumbered
<1>1. Init => CommitsNumbered
  <2> SUFFICES ASSUME Init PROVE CommitsNumbered
    OBVIOUS
  <2>1. Numbered(0)
    BY DEF Init, Numbered
  <2> QED  BY <2>1 DEF CommitsNumbered
<1>2. Shape /\ Shape' /\ CommitsNumbered /\ [Next]_vars => CommitsNumbered'
  <2>1. CASE Next
    BY <2>1, NextNumbered
  <2>2. CASE UNCHANGED vars
    <3>1. \A k : Numbered(k) => Numbered(k)'
      BY <2>2 DEF Numbered, vars, persistentVars, commitVars, faultVars
    <3> QED  BY <3>1 DEF CommitsNumbered
  <2> QED  BY <2>1, <2>2
<1> QED  BY <1>1, <1>2, ShapeInvariant, PTL DEF Spec

-----------------------------------------------------------------------------
(***************************************************************************)
(* The refinement of CommittedLog.                                         *)
(***************************************************************************)
LEMMA NumberedCount ==
    ASSUME IsFiniteSet(committed), NEW k \in Nat, Numbered(k)
    PROVE  Cardinality(committed) = k
<1> DEFINE number == [rec \in committed |-> rec.index]
<1>1. number \in [committed -> 1 .. k]
  BY DEF Numbered
<1>2. number \in Injection(committed, 1 .. k)
  BY <1>1 DEF Numbered, Injection, IsInjective
<1>3. number \in Surjection(committed, 1 .. k)
  BY <1>1 DEF Numbered, Surjection
<1>4. ExistsBijection(committed, 1 .. k)
  BY <1>2, <1>3 DEF ExistsBijection, Bijection
<1>5. Cardinality(1 .. k) = Cardinality(committed)
  BY <1>4, FS_Bijection
<1>6. Cardinality(1 .. k) = k
  <2>1. 0 + 1 \in Int /\ k \in Int
    OBVIOUS
  <2>2. Cardinality(1 .. k) = IF 1 > k THEN 0 ELSE k - 1 + 1
    BY <2>1, FS_Interval
  <2> QED  BY <2>2
<1> QED  BY <1>5, <1>6

LEMMA HistoryOf ==
    ASSUME Shape, NEW k \in Nat, Numbered(k)
    PROVE  /\ CommittedCommands \in Seq(KnownCommands)
           /\ Len(CommittedCommands) = k
           /\ \A rec \in committed : CommittedCommands[rec.index] = rec.entry.cmd
<1>1. Cardinality(committed) = k
  BY NumberedCount DEF Shape, ShapedLogs
<1>2. CommittedCommands =
        [i \in 1 .. k |-> (CHOOSE rec \in committed : rec.index = i).entry.cmd]
  BY <1>1 DEF CommittedCommands
<1>3. ASSUME NEW rec \in committed
      PROVE  (CHOOSE r \in committed : r.index = rec.index) = rec
  BY DEF Numbered
<1>4. ASSUME NEW rec \in committed
      PROVE  rec.index \in 1 .. k /\ CommittedCommands[rec.index] = rec.entry.cmd
  BY <1>2, <1>3 DEF Numbered
<1>5. ASSUME NEW i \in 1 .. k PROVE CommittedCommands[i] \in KnownCommands
  <2>1. PICK rec \in committed : rec.index = i
    BY DEF Numbered
  <2>2. rec.entry.cmd \in KnownCommands
    BY <2>1 DEF Shape, ShapedLogs, CommitRecords, KnownEntries
  <2> QED  BY <1>4, <2>1, <2>2
<1>6. CommittedCommands \in [1 .. k -> KnownCommands]
  BY <1>2, <1>5
<1>7. CommittedCommands \in Seq(KnownCommands) /\ Len(CommittedCommands) = k
  BY <1>6
<1> QED  BY <1>4, <1>7

LEMMA HistoryFed ==
    ASSUME Shape, CommitsNumbered, StateMachineSafety
    PROVE  OneHistory
<1>1. PICK k \in Nat : Numbered(k)
  BY DEF CommitsNumbered
<1>2. PICK H \in Seq(KnownCommands) : H = CommittedCommands
  BY <1>1, HistoryOf
<1>3. Len(H) = k /\ \A rec \in committed : H[rec.index] = rec.entry.cmd
  BY <1>1, <1>2, HistoryOf
<1>4. ASSUME NEW n \in Nodes
      PROVE  commitIndex[n] <= k /\ applied[n] = SubSeq(H, 1, commitIndex[n])
  <2>1. PICK c \in Nat : c = commitIndex[n] /\ c <= k
    BY <1>1 DEF Shape, ShapedLogs, Numbered
  <2>2. PICK s \in Seq(KnownCommands) : s = applied[n] /\ Len(s) = c
    BY <2>1 DEF Shape, ShapedLogs
  <2>3. PICK p : p = SubSeq(H, 1, c)
    OBVIOUS
  <2>4. p \in Seq(KnownCommands) /\ Len(p) = c /\ \A i \in 1 .. c : p[i] = H[i]
    <3>1. \A i \in 1 .. c : H[i] \in KnownCommands
      BY <1>3, <2>1, ElementOfSeq
    <3>2. 1 \in Int /\ c \in Int
      OBVIOUS
    <3>3. /\ p \in Seq(KnownCommands)
          /\ Len(p) = IF 1 <= c THEN c - 1 + 1 ELSE 0
          /\ \A i \in 1 .. c - 1 + 1 : p[i] = H[1 + i - 1]
      BY <2>3, <3>1, <3>2, SubSeqProperties
    <3>4. c - 1 + 1 = c /\ \A i \in 1 .. c : 1 + i - 1 = i
      OBVIOUS
    <3> QED  BY <3>3, <3>4
  <2>5. ASSUME NEW i \in 1 .. c PROVE s[i] = H[i]
    <3>1. i \in 1 .. k /\ i <= c
      BY <2>1
    <3>2. PICK rec \in committed : rec.index = i
      BY <1>1, <3>1 DEF Numbered
    <3>3. s[i] = rec.entry.cmd
      BY <2>1, <2>2, <3>1, <3>2 DEF StateMachineSafety
    <3> QED  BY <1>3, <3>2, <3>3
  <2>6. s = p
    BY <2>2, <2>4, <2>5, SeqEqual
  <2> QED  BY <2>1, <2>2, <2>3, <2>6
<1>5. /\ \A rec \in committed : rec.index \in 1 .. k
      /\ \A i \in 1 .. k : \E rec \in committed : rec.index = i
  BY <1>1 DEF Numbered
<1> QED  BY <1>2, <1>3, <1>4, <1>5 DEF OneHistory

LEMMA InitHistory ==
    ASSUME Init
    PROVE  OneLog!Init
<1>1. committed = {} /\ applied = [n \in Nodes |-> <<>>]
  BY DEF Init
<1>2. Cardinality(committed) = 0
  BY <1>1, FS_EmptySet
<1>3. CommittedCommands = <<>>
  BY <1>2 DEF CommittedCommands
<1> QED  BY <1>1, <1>3 DEF OneLog!Init

\* A commit of what nobody had committed is the log growing, any other one a
\* server catching up, and a lower commit index a restart.
LEMMA NextHistory ==
    ASSUME Shape, Shape', OneHistory, OneHistory', Next
    PROVE  OneLog!Next
<1>1. PICK n \in Nodes : CommitsBy(n)
  BY NextObserved
<1>2. PICK H \in Seq(KnownCommands), H2 \in Seq(KnownCommands) :
        H = CommittedCommands /\ H2 = CommittedCommands'
  BY DEF OneHistory
<1>3. PICK k \in Nat, k2 \in Nat : k = Len(H) /\ k2 = Len(H2)
  BY LenProperties
<1>4. PICK c \in Nat, c2 \in Nat : c = commitIndex[n] /\ c2 = commitIndex'[n]
  BY DEF Shape, ShapedLogs
<1>5. /\ c <= k
      /\ c2 <= k2
      /\ applied'[n] = SubSeq(H2, 1, c2)
      /\ Len(applied[n]) = c
  BY <1>2, <1>3, <1>4 DEF OneHistory, Shape, ShapedLogs
<1>6. applied' = [applied EXCEPT ![n] = SubSeq(H2, 1, c2)]
  <2>1. applied \in [Nodes -> Seq(KnownCommands)]
        /\ applied' \in [Nodes -> Seq(KnownCommands)]
    BY DEF Shape, ShapedLogs
  <2>2. \A p \in Nodes \ {n} : applied'[p] = applied[p]
    BY <1>1 DEF CommitsBy
  <2> QED  BY <1>5, <2>1, <2>2
<1>7. ASSUME H2 = H PROVE OneLog!Next
  <2>1. k2 = k /\ CommittedCommands' = CommittedCommands
    BY <1>2, <1>3, <1>7
  <2>2. applied' = [applied EXCEPT ![n] = OneLog!FirstOnes(c2)]
    BY <1>2, <1>6, <1>7 DEF OneLog!FirstOnes
  <2>3. CASE c < c2
    <3>1. c2 \in Len(applied[n]) + 1 .. Len(CommittedCommands)
      BY <1>2, <1>3, <1>5, <2>1, <2>3
    <3>2. OneLog!CatchUp(n)
      BY <2>1, <2>2, <3>1 DEF OneLog!CatchUp
    <3> QED  BY <3>2 DEF OneLog!Next
  <2>4. CASE c2 <= c
    <3>1. c2 \in 0 .. Len(applied[n])
      BY <1>5, <2>4
    <3>2. OneLog!Restart(n)
      BY <2>1, <2>2, <3>1 DEF OneLog!Restart
    <3> QED  BY <3>2 DEF OneLog!Next
  <2> QED  BY <2>3, <2>4
<1>8. CASE committed' = committed
  <2>1. H2 = H
    BY <1>2, <1>8 DEF CommittedCommands
  <2> QED  BY <1>7, <2>1
<1>9. CASE c2 > c /\ \E lg, t : Observe(n, lg, c2, t)
  <2>1. /\ committed \subseteq committed'
        /\ \A rec \in committed' \ committed : rec.index \in c + 1 .. c2
    BY <1>4, <1>9, ObserveAdds
  <2>2. ASSUME NEW i \in 1 .. k PROVE i \in 1 .. k2 /\ H2[i] = H[i]
    <3>1. PICK rec \in committed : rec.index = i /\ H[i] = rec.entry.cmd
      BY <1>2, <1>3 DEF OneHistory
    <3>2. rec \in committed'
      BY <2>1
    <3> QED  BY <1>2, <1>3, <3>1, <3>2 DEF OneHistory
  <2>3. k <= k2
    <3>1. CASE k = 0
      BY <3>1
    <3>2. CASE k # 0
      <4>1. k \in 1 .. k
        BY <3>2
      <4>2. k \in 1 .. k2
        BY <2>2, <4>1
      <4> QED  BY <4>2
    <3> QED  BY <3>1, <3>2
  <2>4. CASE k2 = k
    <3>1. H2 = H
      BY <1>3, <2>2, <2>4, SeqEqual
    <3> QED  BY <1>7, <3>1
  <2>5. CASE k2 # k
    <3>1. k2 \in 1 .. k2 /\ k2 \notin 1 .. k
      BY <2>3, <2>5
    <3>2. PICK rec \in committed' : rec.index = k2
      BY <1>2, <1>3, <3>1 DEF OneHistory
    <3>3. rec \notin committed
      BY <1>2, <1>3, <3>1, <3>2 DEF OneHistory
    <3>4. k2 \in c + 1 .. c2
      BY <2>1, <3>2, <3>3
    <3>5. c2 = k2
      BY <1>5, <3>4
    <3>6. applied' = [applied EXCEPT ![n] = H2]
      <4>1. SubSeq(H2, 1, Len(H2)) = H2
        BY SubSeqFull
      <4> QED  BY <1>3, <1>6, <3>5, <4>1
    <3>7. OneLog!IsStrictPrefix(H, H2)
      <4>1. PICK p : p = SubSeq(H2, 1, k)
        OBVIOUS
      <4>2. p \in Seq(KnownCommands) /\ Len(p) = k /\ \A i \in 1 .. k : p[i] = H2[i]
        <5>1. \A i \in 1 .. k : H2[i] \in KnownCommands
          BY <1>3, <2>2, ElementOfSeq
        <5>2. 1 \in Int /\ k \in Int
          OBVIOUS
        <5>3. /\ p \in Seq(KnownCommands)
              /\ Len(p) = IF 1 <= k THEN k - 1 + 1 ELSE 0
              /\ \A i \in 1 .. k - 1 + 1 : p[i] = H2[1 + i - 1]
          BY <4>1, <5>1, <5>2, SubSeqProperties
        <5>4. k - 1 + 1 = k /\ \A i \in 1 .. k : 1 + i - 1 = i
          OBVIOUS
        <5> QED  BY <5>3, <5>4
      <4>3. p = H
        BY <1>3, <2>2, <4>2, SeqEqual
      <4>4. SubSeq(H, 1, Len(H)) = H
        BY SubSeqFull
      <4>5. SubSeq(H, 1, Len(H)) = SubSeq(H2, 1, Len(H)) /\ Len(H) <= Len(H2)
        BY <1>3, <2>3, <4>1, <4>3, <4>4
      <4>6. H # H2
        BY <1>3, <2>5
      <4> QED  BY <4>5, <4>6 DEF OneLog!IsStrictPrefix, OneLog!IsPrefix
    <3>8. OneLog!Commit(n)
      BY <1>2, <3>6, <3>7 DEF OneLog!Commit
    <3> QED  BY <3>8 DEF OneLog!Next
  <2> QED  BY <2>4, <2>5
<1> QED  BY <1>1, <1>4, <1>8, <1>9 DEF CommitsBy, CommitsObserved

\* Whatever state machines agree on is one log that only grows, of which each,
\* live, after a snapshot or after a crash, has been fed a prefix: every step of
\* the servers is one of CommittedLog or changes nothing of it (_set_commit_index,
\* _on_install_snapshot, pause).
THEOREM AgreementIsOneLog == Spec /\ []StateMachineSafety => AppliesOneLog
<1>1. Init => OneLog!Init
  BY InitHistory
<1>2. Shape /\ CommitsNumbered /\ StateMachineSafety => OneHistory
  BY HistoryFed
<1>3. Shape /\ Shape' /\ OneHistory /\ OneHistory' /\ [Next]_vars
        => [OneLog!Next]_(OneLog!vars)
  <2>1. CASE Next
    BY <2>1, NextHistory
  <2>2. CASE UNCHANGED vars
    BY <2>2 DEF vars, commitVars, OneLog!vars, CommittedCommands
  <2> QED  BY <2>1, <2>2
<1> QED  BY <1>1, <1>2, <1>3, ShapeInvariant, CommitsAreNumbered, PTL
         DEF Spec, AppliesOneLog, OneLog!Spec

\* With a fixed configuration they do agree.
THEOREM ServersAreOneLog ==
    ASSUME Proposals = {}
    PROVE  Spec => AppliesOneLog
BY MachinesNeverDiverge, AgreementIsOneLog, PTL

-----------------------------------------------------------------------------
(***************************************************************************)
(* The types of messages, the last part of TypeOK: what a leader sends     *)
(* starts within its log.                                                  *)
(***************************************************************************)
LEMMA KnownTypes ==
    /\ KnownCommands \subseteq Commands
    /\ KnownEntries \subseteq Entries
    /\ KnownConfigs \subseteq Configs
    /\ KnownSnapshots \subseteq Snapshots
    /\ \A s \in Seq(KnownEntries) : s \in Seq(Entries)
    /\ \A s \in Seq(KnownCommands) : s \in Seq(Commands)
<1>1. KnownCommands \subseteq Commands
  BY KnownVotersAreNodes DEF KnownCommands, Commands, ConfigCommands
<1>2. KnownEntries \subseteq Entries
  BY <1>1 DEF KnownEntries, Entries
<1>3. KnownConfigs \subseteq Configs
  BY KnownVotersAreNodes DEF KnownConfigs, Configs
<1>4. \A s \in Seq(KnownEntries) : s \in Seq(Entries)
  BY <1>2, SeqMonotonic
<1>5. \A s \in Seq(KnownCommands) : s \in Seq(Commands)
  BY <1>1, SeqMonotonic
<1>6. KnownSnapshots \subseteq Snapshots
  BY <1>5, KnownVotersAreNodes DEF KnownSnapshots, Snapshots
<1> QED  BY <1>1, <1>2, <1>3, <1>4, <1>5, <1>6

LEMMA TermInType ==
    ASSUME NEW s \in KnownSnapshots, NEW lg \in Seq(KnownEntries), NEW i \in Nat,
           i <= s.lastIndex + Len(lg)
    PROVE  TermIn(lg, s, i) \in Nat
<1>1. s.lastIndex \in Nat /\ s.lastTerm \in Nat /\ Len(lg) \in Nat
  BY LenProperties DEF KnownSnapshots
<1>2. CASE i <= s.lastIndex
  BY <1>1, <1>2 DEF TermIn
<1>3. CASE ~(i <= s.lastIndex)
  <2>1. i - s.lastIndex \in 1 .. Len(lg)
    BY <1>1, <1>3
  <2>2. lg[i - s.lastIndex].term \in Nat
    BY <2>1, LoggedTypes
  <2> QED  BY <1>3, <2>2 DEF TermIn
<1> QED  BY <1>2, <1>3

LEMMA ReplicateTyped ==
    ASSUME Shape, NEW n \in Nodes, NEW p \in Nodes, NEW t \in Nat,
           NEW lg \in Seq(KnownEntries), NEW nxt \in Nat \ {0},
           nxt <= Base(n) + Len(lg) + 1
    PROVE  Replicate(n, t, p, lg, nxt) \in Messages
<1>1. /\ Base(n) \in Nat
      /\ commitIndex[n] \in Nat
      /\ snapshot[n] \in KnownSnapshots
      /\ Len(lg) \in Nat
  BY IndexTypes, LenProperties
<1>2. CASE nxt - 1 < Base(n)
  <2>1. snapshot[n] \in Snapshots
    BY <1>1, KnownTypes
  <2> QED  BY <1>2, <2>1 DEF Replicate, Messages
<1>3. CASE ~(nxt - 1 < Base(n))
  <2>1. nxt - Base(n) \in Nat \ {0}
    BY <1>1, <1>3
  <2>2. SubSeq(lg, nxt - Base(n), Len(lg)) \in Seq(Entries)
    BY <1>1, <2>1, Stretch, KnownTypes
  <2>3. nxt - 1 \in Nat /\ nxt - 1 <= Base(n) + Len(lg)
    BY <1>1
  <2>4. TermIn(lg, snapshot[n], nxt - 1) \in Nat
    BY <1>1, <2>3, TermInType DEF Base
  <2> QED  BY <1>1, <1>3, <2>2, <2>3, <2>4 DEF Replicate, Messages
<1> QED  BY <1>2, <1>3

LEMMA BroadcastTyped ==
    ASSUME Shape, NEW n \in Nodes, NEW t \in Nat, NEW lg \in Seq(KnownEntries),
           NEW nxt, NEW voters \in SUBSET Nodes,
           \A p \in Nodes : nxt[p] \in Nat \ {0} /\ nxt[p] <= Base(n) + Len(lg) + 1
    PROVE  Broadcast(n, t, lg, nxt, voters) \subseteq Messages
BY ReplicateTyped DEF Broadcast

LEMMA SendTyped ==
    ASSUME network \subseteq Messages, NEW ms, Send(ms), ms \subseteq Messages
    PROVE  network' \subseteq Messages
BY DEF Send

LEMMA ReplyTyped ==
    ASSUME network \subseteq Messages, Shape',
           NEW t, NEW n, NEW p, NEW ok \in BOOLEAN, NEW i,
           Send({AppendReply(t, n, p, ok, i)})
    PROVE  network' \subseteq Messages
<1>1. \A m \in network' : m \in network \/ m = AppendReply(t, n, p, ok, i)
  BY DEF Send
<1>2. ASSUME AppendReply(t, n, p, ok, i) \in network'
      PROVE  AppendReply(t, n, p, ok, i) \in Messages
  <2>1. t \in Nat /\ n \in Nodes /\ p \in Nodes /\ i \in Nat
    BY <1>2 DEF Shape, ShapedNetwork, ShapedMessage, AppendReply
  <2> QED  BY <2>1 DEF AppendReply, Messages
<1> QED  BY <1>1, <1>2

LEMMA BecomeLeaderTyped ==
    ASSUME Shape, network \subseteq Messages, NEW n \in Nodes, NEW t \in Nat,
           NEW sent, sent \subseteq Messages, BecomeLeader(n, t, sent)
    PROVE  network' \subseteq Messages
<1> DEFINE next == [p \in Nodes |-> LastIndex(n) + 1]
<1>1. Send(sent \cup Broadcast(n, t, log[n], next, config[n].voters))
  BY DEF BecomeLeader
<1>2. /\ LastIndex(n) \in Nat
      /\ LastIndex(n) = Base(n) + Len(log[n])
      /\ log[n] \in Seq(KnownEntries)
      /\ config[n].voters \in SUBSET Nodes
  BY IndexTypes DEF LastIndex
<1>3. \A p \in Nodes : next[p] \in Nat \ {0} /\ next[p] <= Base(n) + Len(log[n]) + 1
  BY <1>2
<1> HIDE DEF next
<1>4. Broadcast(n, t, log[n], next, config[n].voters) \subseteq Messages
  BY <1>2, <1>3, BroadcastTyped
<1> QED  BY <1>1, <1>4, SendTyped

LEMMA NextIndexBounded ==
    ASSUME Shape, EveryCommitExplained, NEW n \in Nodes, role[n] = "leader", NEW p \in Nodes
    PROVE  nextIndex[n][p] \in Nat \ {0} /\ nextIndex[n][p] <= LastIndex(n) + 1
<1>1. PICK lead, full : Logs(lead, full) /\ Commits(lead, full)
  BY DEF EveryCommitExplained, Explains
<1>2. PICK F \in Seq(KnownEntries) : F = full[n]
  BY <1>1 DEF Logs
<1>3. TableTrue(F, n)
  BY <1>1, <1>2 DEF Commits
<1>4. nextIndex[n][p] <= Len(F) + 1
  BY <1>3 DEF TableTrue
<1>5. LastIndex(n) = Len(F)
  BY <1>1, <1>2, LastOfWhole
<1> QED  BY <1>4, <1>5 DEF Shape, ShapedLeaders

LEMMA AppendAsLeaderTyped ==
    ASSUME Shape, network \subseteq Messages, EveryCommitExplained,
           NEW n \in Nodes, role[n] = "leader", NEW cmd \in KnownCommands,
           NEW voters \in SUBSET Nodes, AppendAsLeader(n, cmd, voters)
    PROVE  network' \subseteq Messages
<1>1. PICK lg : /\ lg = Append(log[n], [term |-> term[n], cmd |-> cmd])
                /\ Send(Broadcast(n, term[n], lg, nextIndex[n], voters))
  BY DEF AppendAsLeader
<1>2. /\ log[n] \in Seq(KnownEntries)
      /\ Len(log[n]) \in Nat
      /\ term[n] \in Nat
      /\ Base(n) \in Nat
      /\ LastIndex(n) = Base(n) + Len(log[n])
  BY IndexTypes DEF LastIndex
<1>3. [term |-> term[n], cmd |-> cmd] \in KnownEntries
  BY <1>2 DEF KnownEntries
<1>4. lg \in Seq(KnownEntries) /\ Len(lg) = Len(log[n]) + 1
  BY <1>1, <1>2, <1>3, AppendProperties
<1>5. ASSUME NEW p \in Nodes
      PROVE  nextIndex[n][p] \in Nat \ {0} /\ nextIndex[n][p] <= Base(n) + Len(lg) + 1
  BY <1>2, <1>4, NextIndexBounded
<1>6. Broadcast(n, term[n], lg, nextIndex[n], voters) \subseteq Messages
  BY <1>2, <1>4, <1>5, BroadcastTyped
<1> QED  BY <1>1, <1>6, SendTyped

LEMMA AppendReplyTyped ==
    ASSUME Shape, network \subseteq Messages, EveryCommitExplained,
           NEW n \in Nodes, NEW m \in network, HandleAppendReply(n, m)
    PROVE  network' \subseteq Messages
<1>1. CASE network' = network
  BY <1>1
<1>2. CASE network' # network
  <2>1. /\ role[n] = "leader"
        /\ ~m.success
        /\ Send({Replicate(n, term[n], m.from, log[n],
                   [nextIndex[n] EXCEPT ![m.from] =
                      IF m.success THEN Larger(@, m.match + 1) ELSE BackOff(@)][m.from])})
    BY <1>2, Zenon DEF HandleAppendReply, StepDown
  <2>2. m.from \in Nodes /\ nextIndex[n] \in [Nodes -> Nat \ {0}]
    BY DEF Shape, ShapedNetwork, ShapedMessage, ShapedLeaders
  <2>3. PICK x \in Nat \ {0} : x = nextIndex[n][m.from] /\ x <= LastIndex(n) + 1
    BY <2>1, <2>2, NextIndexBounded
  <2>4. Send({Replicate(n, term[n], m.from, log[n], BackOff(x))})
    BY <2>1, <2>2, <2>3
  <2>5. /\ LastIndex(n) \in Nat
        /\ LastIndex(n) = Base(n) + Len(log[n])
        /\ log[n] \in Seq(KnownEntries)
        /\ term[n] \in Nat
    BY IndexTypes DEF LastIndex
  <2>6. BackOff(x) \in Nat \ {0} /\ BackOff(x) <= x
    BY DEF BackOff, Larger
  <2>7. BackOff(x) <= Base(n) + Len(log[n]) + 1
    BY <2>3, <2>5, <2>6
  <2>8. Replicate(n, term[n], m.from, log[n], BackOff(x)) \in Messages
    BY <2>2, <2>5, <2>6, <2>7, ReplicateTyped
  <2> QED  BY <2>4, <2>8, SendTyped
<1> QED  BY <1>1, <1>2

LEMMA StartElectionTyped ==
    ASSUME Shape, network \subseteq Messages, NEW n \in Nodes, StartElection(n)
    PROVE  network' \subseteq Messages
<1> DEFINE requests == {[type |-> "RequestVote", term |-> term[n] + 1, from |-> n, to |-> p,
                         lastIndex |-> LastIndex(n),
                         lastTerm |-> TermAt(n, LastIndex(n))] :
                          p \in config[n].voters \ {n}}
<1>1. /\ term[n] + 1 \in Nat
      /\ LastIndex(n) \in Nat
      /\ LastIndex(n) = snapshot[n].lastIndex + Len(log[n])
      /\ log[n] \in Seq(KnownEntries)
      /\ snapshot[n] \in KnownSnapshots
      /\ config[n].voters \subseteq Nodes
  BY IndexTypes DEF LastIndex, Base
<1>2. TermAt(n, LastIndex(n)) \in Nat
  <2>1. LastIndex(n) <= snapshot[n].lastIndex + Len(log[n])
    BY <1>1
  <2> QED  BY <1>1, <2>1, TermInType DEF TermAt
<1>3. requests \subseteq Messages
  BY <1>1, <1>2 DEF Messages
<1>4. Send(requests) \/ BecomeLeader(n, term[n] + 1, requests)
  BY Zenon DEF StartElection
<1> HIDE DEF requests
<1> QED  BY <1>1, <1>3, <1>4, SendTyped, BecomeLeaderTyped

LEMMA ReceiveTyped ==
    ASSUME Shape, Shape', network \subseteq Messages, EveryCommitExplained,
           NEW n \in Nodes, Receive(n)
    PROVE  network' \subseteq Messages
<1>1. PICK m \in network :
        \/ HandleRequestVote(n, m)
        \/ HandleVoteReply(n, m)
        \/ HandleAppendEntries(n, m)
        \/ HandleAppendReply(n, m)
        \/ HandleInstallSnapshot(n, m)
        \/ HandleReadHeartbeat(n, m)
        \/ HandleReadAck(n, m)
  BY DEF Receive
<1>2. m.term \in Nat /\ m.from \in Nodes /\ term[n] \in Nat
  BY IndexTypes DEF Shape, ShapedNetwork, ShapedMessage
<1>3. Larger(term[n], m.term) \in Nat
  BY <1>2 DEF Larger
<1>4. CASE HandleRequestVote(n, m)
  <2>1. PICK ok \in BOOLEAN : ok = Grants(n, m)
    BY DEF Grants
  <2>2. Send({VoteReply(Larger(term[n], m.term), n, m.from, ok)})
    BY <1>4, <2>1 DEF HandleRequestVote
  <2>3. VoteReply(Larger(term[n], m.term), n, m.from, ok) \in Messages
    BY <1>2, <1>3 DEF VoteReply, Messages
  <2> QED  BY <2>2, <2>3, SendTyped
<1>5. CASE HandleVoteReply(n, m)
  <2>1. network' = network \/ BecomeLeader(n, term[n], {})
    BY <1>5, Zenon DEF HandleVoteReply, StepDown
  <2> QED  BY <1>2, <2>1, BecomeLeaderTyped
<1>6. CASE HandleAppendEntries(n, m) \/ HandleInstallSnapshot(n, m)
  <2>1. \E t, p, i : \/ Send({AppendReply(t, n, p, FALSE, i)})
                     \/ Send({AppendReply(t, n, p, TRUE, i)})
    BY <1>6, Zenon DEF HandleAppendEntries, HandleInstallSnapshot
  <2>2. TRUE \in BOOLEAN /\ FALSE \in BOOLEAN
    OBVIOUS
  <2> QED  BY <2>1, <2>2, ReplyTyped
<1>7. CASE HandleReadHeartbeat(n, m)
  <2>1. m.type = "ReadHeartbeat" /\ m \in Messages
    BY <1>7 DEF HandleReadHeartbeat
  <2>2. m.readId \in Nat
    BY <2>1 DEF Messages
  <2>3. PICK r : r = [type |-> "ReadAck", term |-> Larger(term[n], m.term), from |-> n,
                      to |-> m.from, readId |-> m.readId]
    OBVIOUS
  <2>4. Send({r})
    BY <1>7, <2>3 DEF HandleReadHeartbeat
  <2>5. r \in Messages
    BY <1>2, <1>3, <2>2, <2>3 DEF Messages
  <2> QED  BY <2>4, <2>5, SendTyped
<1>8. CASE HandleReadAck(n, m)
  BY <1>8 DEF HandleReadAck, StepDown
<1> QED  BY <1>1, <1>4, <1>5, <1>6, <1>7, <1>8, AppendReplyTyped

LEMMA NextTyped ==
    ASSUME Shape, Shape', network \subseteq Messages, EveryCommitExplained, Next
    PROVE  network' \subseteq Messages
<1>1. ASSUME NEW n \in Nodes, Heartbeat(n) PROVE network' \subseteq Messages
  <2>1. /\ role[n] = "leader"
        /\ Send(Broadcast(n, term[n], log[n], nextIndex[n], config[n].voters))
    BY <1>1 DEF Heartbeat
  <2>2. /\ log[n] \in Seq(KnownEntries)
        /\ config[n].voters \in SUBSET Nodes
        /\ term[n] \in Nat
    BY IndexTypes
  <2>3. \A p \in Nodes : /\ nextIndex[n][p] \in Nat \ {0}
                         /\ nextIndex[n][p] <= Base(n) + Len(log[n]) + 1
    BY <2>1, NextIndexBounded DEF LastIndex
  <2>4. Broadcast(n, term[n], log[n], nextIndex[n], config[n].voters) \subseteq Messages
    BY <2>2, <2>3, BroadcastTyped
  <2> QED  BY <2>1, <2>4, SendTyped
<1>2. ASSUME NEW n \in Nodes, NEW c \in Clients, ClientCommand(n, c)
      PROVE  network' \subseteq Messages
  <2>1. /\ role[n] = "leader"
        /\ AppendAsLeader(n, Request(c, nextReq[c]), config[n].voters)
    BY <1>2 DEF ClientCommand
  <2>2. Request(c, nextReq[c]) \in KnownCommands
    BY DEF Request, KnownCommands, ClientCommands, Shape, ShapedReads
  <2>3. config[n].voters \in SUBSET Nodes
    BY IndexTypes
  <2> QED  BY <2>1, <2>2, <2>3, AppendAsLeaderTyped
<1>3. ASSUME NEW n \in Nodes, NEW V \in Proposals, ChangeConfig(n, V)
      PROVE  network' \subseteq Messages
  <2>1. /\ role[n] = "leader"
        /\ AppendAsLeader(n, [kind |-> "config", voters |-> V], V)
    BY <1>3 DEF ChangeConfig
  <2>2. [kind |-> "config", voters |-> V] \in KnownCommands
    BY DEF KnownCommands, KnownVoters
  <2>3. V \in SUBSET Nodes
    BY ConstantsAssumption
  <2> QED  BY <2>1, <2>2, <2>3, AppendAsLeaderTyped
<1>4. ASSUME NEW n \in Nodes, NEW c \in Clients, RequestRead(n, c)
      PROVE  network' \subseteq Messages
  <2>1. PICK ms : ms = {[type |-> "ReadHeartbeat", term |-> term[n], from |-> n, to |-> p,
                         readId |-> nextReadId[n]] : p \in config[n].voters \ {n}}
    OBVIOUS
  <2>2. Send(ms)
    BY <1>4, <2>1 DEF RequestRead
  <2>3. nextReadId[n] \in Nat /\ term[n] \in Nat /\ config[n].voters \subseteq Nodes
    BY IndexTypes DEF Shape, ShapedReads
  <2>4. ms \subseteq Messages
    BY <2>1, <2>3 DEF Messages
  <2> QED  BY <2>2, <2>4, SendTyped
<1>5. ASSUME NEW n \in Nodes, Crash(n) \/ Resume(n) PROVE network' \subseteq Messages
  BY <1>5 DEF Crash, Resume
<1> QED  BY <1>1, <1>2, <1>3, <1>4, <1>5, StartElectionTyped, ReceiveTyped DEF Next

\* No server ever reads or sends what is not there: every variable and message has
\* its type, and no next index points beyond the leader's log, though it is
\* advanced by acknowledgements of any age (_on_append_reply, _replicate_to).
THEOREM TypesCorrect ==
    ASSUME Proposals = {}
    PROVE  Spec => []TypeOK
<1> DEFINE Typed == network \subseteq Messages
<1>1. Shape /\ Typed => TypeOK
  <2> SUFFICES ASSUME Shape, Typed PROVE TypeOK
    OBVIOUS
  <2>1. /\ log \in [Nodes -> Seq(Entries)]
        /\ snapshot \in [Nodes -> Snapshots]
        /\ config \in [Nodes -> Configs]
        /\ applied \in [Nodes -> Seq(Commands)]
    BY KnownTypes DEF Shape, ShapedLogs
  <2>2. committed \subseteq [index : Nat, entry : Entries, term : Nat]
    BY KnownTypes DEF Shape, ShapedLogs, CommitRecords
  <2>3. /\ commitIndex \in [Nodes -> Nat]
        /\ \A n \in Nodes : Len(applied[n]) = commitIndex[n]
    BY DEF Shape, ShapedLogs
  <2>4. \A n \in Nodes : pendingReads[n] \subseteq ReadRecords
    BY DEF Shape, ShapedReads
  <2> QED  BY <2>1, <2>2, <2>3, <2>4 DEF TypeOK, ReadRecords, Shape, ShapedElections,
              ShapedLeaders, ShapedReads
<1>2. Init => Typed
  BY DEF Init
<1>3. Shape /\ Shape' /\ EveryCommitExplained /\ Typed /\ [Next]_vars
        => Typed'
  <2>1. CASE Next
    BY <2>1, NextTyped
  <2>2. CASE UNCHANGED vars
    BY <2>2 DEF vars
  <2> QED  BY <2>1, <2>2
<1> QED  BY <1>1, <1>2, <1>3, ShapeInvariant, CommitsExplained, PTL DEF Spec

-----------------------------------------------------------------------------
(***************************************************************************)
(* Leaders are ahead of what is committed in their terms.                  *)
(***************************************************************************)
\* The step leaves every server but n alone.
Elsewhere(n) ==
    \A k \in Nodes \ {n} :
      /\ role'[k] = role[k]
      /\ term'[k] = term[k]
      /\ log'[k] = log[k]
      /\ snapshot'[k] = snapshot[k]
      /\ commitIndex'[k] = commitIndex[k]
      /\ committedThisTerm'[k] = committedThisTerm[k]
      /\ clientIndex'[k] = clientIndex[k]
      /\ pendingReads'[k] = pendingReads[k]
      /\ nextReadId'[k] = nextReadId[k]

SentBy(n) ==
    \/ StartElection(n)
    \/ Heartbeat(n)
    \/ \E c \in Clients : ClientCommand(n, c) \/ RequestRead(n, c)
    \/ \E V \in Proposals : ChangeConfig(n, V)
    \/ Crash(n)
    \/ Resume(n)

LEMMA SetCommitElsewhere ==
    ASSUME Shape, NEW n \in Nodes, NEW lg, NEW ci, NEW t, SetCommitIndex(n, lg, ci, t)
    PROVE  \A k \in Nodes \ {n} : /\ log'[k] = log[k]
                                  /\ snapshot'[k] = snapshot[k]
                                  /\ commitIndex'[k] = commitIndex[k]
<1>1. /\ \E x : log' = [log EXCEPT ![n] = x]
      /\ UNCHANGED snapshot \/ \E x : snapshot' = [snapshot EXCEPT ![n] = x]
      /\ UNCHANGED commitIndex \/ \E x : commitIndex' = [commitIndex EXCEPT ![n] = x]
  BY Zenon DEF SetCommitIndex, commitVars
<1> QED  BY <1>1 DEF Shape, ShapedLogs

LEMMA FollowerElsewhere ==
    ASSUME Shape, NEW n \in Nodes, NEW t, BecomeFollower(n, t) \/ FollowLeader(n, t)
    PROVE  \A k \in Nodes \ {n} : /\ role'[k] = role[k]
                                  /\ term'[k] = term[k]
                                  /\ pendingReads'[k] = pendingReads[k]
<1>1. \/ UNCHANGED <<role, term, pendingReads>>
      \/ /\ role' = [role EXCEPT ![n] = "follower"]
         /\ term' = [term EXCEPT ![n] = t]
         /\ pendingReads' = [pendingReads EXCEPT ![n] = {}]
  BY Zenon DEF FollowLeader, BecomeFollower
<1> QED  BY <1>1 DEF Shape, ShapedElections, ShapedReads

LEMMA StepDownElsewhere ==
    ASSUME Shape, NEW n \in Nodes, NEW m, StepDown(n, m)
    PROVE  Elsewhere(n)
<1>1. /\ BecomeFollower(n, m.term)
      /\ UNCHANGED <<log, snapshot, committedThisTerm, clientIndex, nextReadId,
                     commitIndex>>
  BY DEF StepDown, leaderVars, commitVars
<1> QED  BY <1>1, FollowerElsewhere DEF Elsewhere

LEMMA ReceiveElsewhere ==
    ASSUME Shape, NEW n \in Nodes, Receive(n)
    PROVE  Elsewhere(n)
<1>1. PICK m \in network :
        \/ HandleRequestVote(n, m)
        \/ HandleVoteReply(n, m)
        \/ HandleAppendEntries(n, m)
        \/ HandleAppendReply(n, m)
        \/ HandleInstallSnapshot(n, m)
        \/ HandleReadHeartbeat(n, m)
        \/ HandleReadAck(n, m)
  BY DEF Receive
<1>2. CASE HandleRequestVote(n, m)
  BY <1>2 DEF HandleRequestVote, leaderVars, commitVars, Elsewhere, Shape, ShapedElections,
     ShapedReads
<1>3. CASE HandleVoteReply(n, m)
  <2>1. SUFFICES ASSUME ~StepDown(n, m) PROVE Elsewhere(n)
    BY StepDownElsewhere
  <2>2. /\ UNCHANGED <<persistentVars, readVars, commitVars>>
        /\ \/ BecomeLeader(n, term[n], {})
           \/ UNCHANGED <<role, leaderVars>>
    BY <1>3, <2>1, Zenon DEF HandleVoteReply
  <2>3. CASE UNCHANGED <<role, leaderVars>>
    BY <2>2, <2>3 DEF persistentVars, readVars, commitVars, leaderVars, Elsewhere
  <2>4. CASE BecomeLeader(n, term[n], {})
    <3>1. /\ role' = [role EXCEPT ![n] = "leader"]
          /\ committedThisTerm' = [committedThisTerm EXCEPT ![n] = FALSE]
          /\ clientIndex' = [clientIndex EXCEPT ![n] = ClientIndexOf(log[n])]
      BY <2>4 DEF BecomeLeader
    <3>2. /\ \A k \in Nodes \ {n} : clientIndex'[k] = clientIndex[k]
          /\ \A k \in Nodes \ {n} : role'[k] = role[k]
          /\ \A k \in Nodes \ {n} : committedThisTerm'[k] = committedThisTerm[k]
      BY <3>1 DEF Shape, ShapedElections, ShapedLeaders
    <3> QED  BY <2>2, <3>2 DEF persistentVars, readVars, commitVars, Elsewhere
  <2> QED  BY <2>2, <2>3, <2>4
<1>4. CASE HandleAppendEntries(n, m)
  <2>1. /\ \/ UNCHANGED <<role, persistentVars, pendingReads>>
           \/ FollowLeader(n, m.term)
        /\ \/ UNCHANGED <<log, snapshot, commitVars>>
           \/ \E lg, ci, t : SetCommitIndex(n, lg, ci, t)
    BY <1>4, Zenon DEF HandleAppendEntries, persistentVars
  <2>2. UNCHANGED <<leaderVars, nextReadId>>
    BY <1>4, Zenon DEF HandleAppendEntries
  <2>3. \A k \in Nodes \ {n} : /\ role'[k] = role[k]
                               /\ term'[k] = term[k]
                               /\ pendingReads'[k] = pendingReads[k]
    BY <2>1, FollowerElsewhere DEF persistentVars
  <2>4. \A k \in Nodes \ {n} : /\ log'[k] = log[k]
                               /\ snapshot'[k] = snapshot[k]
                               /\ commitIndex'[k] = commitIndex[k]
    BY <2>1, SetCommitElsewhere DEF commitVars
  <2> QED  BY <2>2, <2>3, <2>4 DEF leaderVars, Elsewhere
<1>5. CASE HandleAppendReply(n, m)
  <2>1. SUFFICES ASSUME ~StepDown(n, m) PROVE Elsewhere(n)
    BY StepDownElsewhere
  <2>2. /\ UNCHANGED <<term, electionVars, clientIndex, readVars>>
        /\ \/ UNCHANGED <<log, snapshot, commitVars>>
           \/ \E lg, ci, t : SetCommitIndex(n, lg, ci, t)
        /\ \/ UNCHANGED committedThisTerm
           \/ committedThisTerm' = [committedThisTerm EXCEPT ![n] = TRUE]
    BY <1>5, <2>1, Zenon DEF HandleAppendReply
  <2>3. \A k \in Nodes \ {n} : /\ log'[k] = log[k]
                               /\ snapshot'[k] = snapshot[k]
                               /\ commitIndex'[k] = commitIndex[k]
    BY <2>2, SetCommitElsewhere DEF commitVars
  <2> QED  BY <2>2, <2>3 DEF electionVars, readVars, Elsewhere, Shape, ShapedLeaders
<1>6. CASE HandleInstallSnapshot(n, m)
  <2>1. /\ UNCHANGED <<role, persistentVars, pendingReads>> \/ FollowLeader(n, m.term)
        /\ UNCHANGED log \/ \E x : log' = [log EXCEPT ![n] = x]
        /\ UNCHANGED snapshot \/ \E x : snapshot' = [snapshot EXCEPT ![n] = x]
        /\ UNCHANGED commitIndex \/ \E x : commitIndex' = [commitIndex EXCEPT ![n] = x]
        /\ UNCHANGED <<leaderVars, nextReadId>>
    BY <1>6, Zenon DEF HandleInstallSnapshot, persistentVars
  <2>2. \A k \in Nodes \ {n} : /\ role'[k] = role[k]
                               /\ term'[k] = term[k]
                               /\ pendingReads'[k] = pendingReads[k]
    BY <2>1, FollowerElsewhere DEF persistentVars
  <2>3. \A k \in Nodes \ {n} : /\ log'[k] = log[k]
                               /\ snapshot'[k] = snapshot[k]
                               /\ commitIndex'[k] = commitIndex[k]
    BY <2>1 DEF Shape, ShapedLogs
  <2> QED  BY <2>1, <2>2, <2>3 DEF leaderVars, Elsewhere
<1>7. CASE HandleReadHeartbeat(n, m)
  <2>1. /\ BecomeFollower(n, m.term) \/ UNCHANGED <<term, role, pendingReads>>
        /\ UNCHANGED <<log, snapshot, leaderVars, nextReadId, commitVars>>
    BY <1>7, Zenon DEF HandleReadHeartbeat
  <2> QED  BY <2>1, FollowerElsewhere DEF leaderVars, commitVars, Elsewhere
<1>8. CASE HandleReadAck(n, m)
  <2>1. SUFFICES ASSUME ~StepDown(n, m) PROVE Elsewhere(n)
    BY StepDownElsewhere
  <2>2. /\ UNCHANGED <<persistentVars, electionVars, leaderVars, nextReadId, commitIndex>>
        /\ \E others, r : TryServeRead(n, others, r)
    BY <1>8, <2>1, Zenon DEF HandleReadAck
  <2>3. \E x : pendingReads' = [pendingReads EXCEPT ![n] = x]
    BY <2>2, Zenon DEF TryServeRead
  <2> QED  BY <2>2, <2>3 DEF persistentVars, electionVars, leaderVars, Elsewhere, Shape,
              ShapedReads
<1> QED  BY <1>1, <1>2, <1>3, <1>4, <1>5, <1>6, <1>7, <1>8

LEMMA SentElsewhere ==
    ASSUME Shape, NEW n \in Nodes, SentBy(n)
    PROVE  Elsewhere(n)
<1>1. CASE StartElection(n)
  <2>1. /\ UNCHANGED <<log, snapshot, readVars, commitVars>>
        /\ \E x : term' = [term EXCEPT ![n] = x]
        /\ \/ \E t, sent : BecomeLeader(n, t, sent)
           \/ /\ role' = [role EXCEPT ![n] = "candidate"]
              /\ UNCHANGED leaderVars
    BY <1>1, Zenon DEF StartElection
  <2>2. /\ \E x : role' = [role EXCEPT ![n] = x]
        /\ \/ /\ committedThisTerm' = [committedThisTerm EXCEPT ![n] = FALSE]
              /\ \E x : clientIndex' = [clientIndex EXCEPT ![n] = x]
           \/ UNCHANGED leaderVars
    BY <2>1, Zenon DEF BecomeLeader
  <2> QED  BY <2>1, <2>2 DEF readVars, commitVars, leaderVars, Elsewhere, Shape,
              ShapedElections, ShapedLeaders
<1>2. CASE Heartbeat(n) \/ Resume(n)
  BY <1>2 DEF Heartbeat, Resume, persistentVars, electionVars, leaderVars, readVars,
     commitVars, Elsewhere
<1>3. ASSUME NEW cmd, NEW voters, AppendAsLeader(n, cmd, voters),
             \/ UNCHANGED clientIndex
             \/ \E x : clientIndex' = [clientIndex EXCEPT ![n] = x],
             UNCHANGED <<term, snapshot, electionVars, committedThisTerm, readVars, commitVars>>
      PROVE  Elsewhere(n)
  BY <1>3 DEF AppendAsLeader, electionVars, readVars, commitVars, Elsewhere, Shape, ShapedLogs,
     ShapedLeaders
<1>4. CASE \/ \E c \in Clients : ClientCommand(n, c)
           \/ \E V \in Proposals : ChangeConfig(n, V)
  <2>1. ASSUME NEW c \in Clients, ClientCommand(n, c) PROVE Elsewhere(n)
    <3>1. \E x : clientIndex' = [clientIndex EXCEPT ![n] = x]
      <4>1. clientIndex' = [clientIndex EXCEPT ![n] = [@ EXCEPT ![c] = nextReq[c]]]
        BY <2>1 DEF ClientCommand
      <4> QED  BY <4>1
    <3> QED  BY <1>3, <2>1, <3>1, Zenon DEF ClientCommand
  <2>2. ASSUME NEW V \in Proposals, ChangeConfig(n, V) PROVE Elsewhere(n)
    BY <1>3, <2>2, Zenon DEF ChangeConfig
  <2> QED  BY <1>4, <2>1, <2>2
<1>5. ASSUME NEW c \in Clients, RequestRead(n, c) PROVE Elsewhere(n)
  <2>1. /\ UNCHANGED <<persistentVars, electionVars, leaderVars, commitIndex>>
        /\ \E x : nextReadId' = [nextReadId EXCEPT ![n] = x]
        /\ \E x : pendingReads' = [pendingReads EXCEPT ![n] = x]
    BY <1>5, Zenon DEF RequestRead, TryServeRead
  <2> QED  BY <2>1 DEF persistentVars, electionVars, leaderVars, Elsewhere, Shape, ShapedReads
<1>6. CASE Crash(n)
  BY <1>6 DEF Crash, persistentVars, Elsewhere, Shape, ShapedElections, ShapedLogs,
     ShapedLeaders, ShapedReads
<1> QED  BY <1>1, <1>2, <1>4, <1>5, <1>6 DEF SentBy

\* n goes on leading, and has still committed what it has of earlier terms.
Continues(n) ==
    /\ role[n] = "leader"
    /\ term'[n] = term[n]
    /\ commitIndex'[n] >= commitIndex[n]
    /\ OwnTermFirst(n) => OwnTermFirst(n)'

\* n is the first leader of its term, in which it has committed nothing.
Begins(n) == ~Led(term'[n]) /\ ~committedThisTerm'[n]

\* The leader of term t has committed index i.
LeaderHas(t, i) == \E n \in Nodes : role[n] = "leader" /\ term[n] = t /\ i <= commitIndex[n]

\* What a step means to leaders: what is sent and observed as committed is
\* committed by the leader of the term.
Reigns ==
    /\ \A n \in Nodes : role'[n] = "leader" => Continues(n) \/ Begins(n)
    /\ \A m \in network' \ network :
         m.type = "AppendEntries" => LeaderHas(m.term, m.commit)'
    /\ \A rec \in committed' \ committed :
         \/ LeaderHas(rec.term, rec.index)'
         \/ \E m \in network : /\ m.type = "AppendEntries"
                               /\ m.term = rec.term
                               /\ rec.index <= m.commit

LEMMA ReignsAhead ==
    ASSUME Shape, Shape', Records', ElectionSafety', leadersByTerm \subseteq leadersByTerm',
           NEW lead, NEW full, Logs(lead, full), LeadersAhead, Reigns
    PROVE  LeadersAhead'
<1>1. ASSUME NEW t, NEW i \in Nat, Led(t), LeaderAt(t, i)
      PROVE  LeaderAt(t, i)'
  <2> SUFFICES ASSUME NEW n \in Nodes, role'[n] = "leader", term'[n] = t
               PROVE  i <= commitIndex'[n]
    BY DEF LeaderAt
  <2>1. Continues(n)
    BY <1>1 DEF Reigns, Begins
  <2>2. PICK c \in Nat, c2 \in Nat : c = commitIndex[n] /\ c2 = commitIndex'[n]
    BY DEF Shape, ShapedLogs
  <2>3. i <= c /\ c <= c2
    BY <1>1, <2>1, <2>2 DEF LeaderAt, Continues
  <2>4. i <= c2
    BY <2>3
  <2> QED  BY <2>2, <2>4
<1>2. ASSUME NEW t, NEW i \in Nat, LeaderHas(t, i)'
      PROVE  Led(t)' /\ LeaderAt(t, i)'
  <2>1. PICK p \in Nodes : role'[p] = "leader" /\ term'[p] = t /\ i <= commitIndex'[p]
    BY <1>2 DEF LeaderHas
  <2>2. <<t, p>> \in leadersByTerm'
    BY <2>1 DEF Records
  <2>3. ASSUME NEW n \in Nodes, role'[n] = "leader", term'[n] = t PROVE n = p
    <3>1. <<t, n>> \in leadersByTerm'
      BY <2>3 DEF Records
    <3>2. <<t, n>>[1] = <<t, p>>[1]
      OBVIOUS
    <3>3. <<t, n>> = <<t, p>>
      BY <2>2, <3>1, <3>2 DEF ElectionSafety
    <3> QED  BY <3>3
  <2> QED  BY <2>1, <2>2, <2>3 DEF Led, LeaderAt
<1>3. ASSUME NEW t, Led(t) PROVE Led(t)'
  BY <1>3 DEF Led
<1>4. ASSUME NEW n \in Nodes PROVE OwnTermFirst(n)'
  <2>1. CASE role'[n] = "leader"
    BY <2>1 DEF Reigns, Continues, Begins, LeadersAhead, OwnTermFirst
  <2> QED  BY <2>1 DEF OwnTermFirst
<1>5. ASSUME NEW m \in network, m.type = "AppendEntries"
      PROVE  m.commit \in Nat /\ Led(m.term) /\ LeaderAt(m.term, m.commit)
  BY <1>5 DEF Shape, ShapedNetwork, ShapedMessage, Logs, LeadersAhead
<1>6. ASSUME NEW rec \in committed' PROVE Led(rec.term)' /\ LeaderAt(rec.term, rec.index)'
  <2>1. PICK i \in Nat : i = rec.index
    BY DEF Shape, ShapedLogs, CommitRecords
  <2>2. CASE rec \in committed
    <3>1. Led(rec.term) /\ LeaderAt(rec.term, i)
      BY <2>1, <2>2 DEF LeadersAhead
    <3> QED  BY <1>1, <1>3, <2>1, <3>1
  <2>3. CASE LeaderHas(rec.term, i)'
    BY <1>2, <2>1, <2>3
  <2>4. ASSUME NEW m \in network, m.type = "AppendEntries", m.term = rec.term, i <= m.commit
        PROVE  Led(rec.term)' /\ LeaderAt(rec.term, rec.index)'
    <3>1. LeaderAt(rec.term, i)
      <4> SUFFICES ASSUME NEW n \in Nodes, role[n] = "leader", term[n] = rec.term
                   PROVE  i <= commitIndex[n]
        BY DEF LeaderAt
      <4>1. PICK c \in Nat, k \in Nat : c = commitIndex[n] /\ k = m.commit
        BY <1>5, <2>4, IndexTypes
      <4>2. i <= k /\ k <= c
        BY <1>5, <2>4, <4>1 DEF LeaderAt
      <4>3. i <= c
        BY <4>2
      <4> QED  BY <4>1, <4>3
    <3>2. Led(rec.term)
      BY <1>5, <2>4
    <3> QED  BY <1>1, <1>3, <2>1, <3>1, <3>2
  <2> QED  BY <2>1, <2>2, <2>3, <2>4 DEF Reigns
<1>7. ASSUME NEW m \in network', m.type = "AppendEntries"
      PROVE  LeaderAt(m.term, m.commit)'
  <2>1. PICK i \in Nat : i = m.commit
    BY <1>7 DEF Shape, ShapedNetwork, ShapedMessage
  <2>2. CASE m \in network
    BY <1>1, <1>5, <1>7, <2>1, <2>2
  <2>3. CASE m \notin network
    <3>1. LeaderHas(m.term, i)'
      BY <1>7, <2>1, <2>3 DEF Reigns
    <3> QED  BY <1>2, <2>1, <3>1
  <2> QED  BY <2>2, <2>3
<1> QED  BY <1>4, <1>6, <1>7 DEF LeadersAhead

\* Servers a step leaves alone go on.
LEMMA ElsewhereContinues ==
    ASSUME Shape, NEW n \in Nodes, Elsewhere(n), NEW k \in Nodes \ {n}, role'[k] = "leader"
    PROVE  Continues(k)
<1>1. /\ role'[k] = role[k]
      /\ term'[k] = term[k]
      /\ log'[k] = log[k]
      /\ snapshot'[k] = snapshot[k]
      /\ commitIndex'[k] = commitIndex[k]
      /\ committedThisTerm'[k] = committedThisTerm[k]
  BY DEF Elsewhere
<1>2. commitIndex'[k] >= commitIndex[k]
  BY <1>1, IndexTypes
<1>3. OwnTermFirst(k) => OwnTermFirst(k)'
  BY <1>1 DEF OwnTermFirst, Base
<1> QED  BY <1>1, <1>2, <1>3 DEF Continues

\* Nothing is committed: n does not lead afterwards, or is what it was.
LEMMA QuietReigns ==
    ASSUME Shape, NEW n \in Nodes, Elsewhere(n), UNCHANGED committed, NoNewEntries,
           \/ role'[n] # "leader"
           \/ UNCHANGED <<role, term, log, snapshot, commitIndex, committedThisTerm>>
    PROVE  Reigns
<1>1. ASSUME role'[n] = "leader" PROVE Continues(n)
  <2>1. UNCHANGED <<role, term, log, snapshot, commitIndex, committedThisTerm>>
    BY <1>1
  <2>2. commitIndex'[n] >= commitIndex[n]
    BY <2>1, IndexTypes
  <2>3. OwnTermFirst(n) => OwnTermFirst(n)'
    BY <2>1 DEF OwnTermFirst, Base
  <2> QED  BY <1>1, <2>1, <2>2, <2>3 DEF Continues
<1> QED  BY <1>1, ElsewhereContinues DEF Reigns, NoNewEntries

LEMMA BroadcastCommit ==
    ASSUME NEW n, NEW t, NEW lg, NEW nxt, NEW voters,
           NEW m \in Broadcast(n, t, lg, nxt, voters), m.type = "AppendEntries"
    PROVE  m.term = t /\ m.commit = commitIndex[n]
BY DEF Broadcast, Replicate

\* Leader n sends what it has committed.
LEMMA LeaderReigns ==
    ASSUME Shape, NEW n \in Nodes, Elsewhere(n), UNCHANGED commitVars,
           role'[n] = "leader", Continues(n) \/ Begins(n),
           \A m \in network' \ network :
             m.type = "AppendEntries" => m.term = term'[n] /\ m.commit = commitIndex[n]
    PROVE  Reigns
<1>1. commitIndex'[n] = commitIndex[n] /\ committed' = committed
  BY DEF commitVars
<1>2. ASSUME NEW m \in network' \ network, m.type = "AppendEntries"
      PROVE  LeaderHas(m.term, m.commit)'
  <2>1. m.term = term'[n] /\ m.commit = commitIndex'[n]
    BY <1>1, <1>2
  <2>2. m.commit <= commitIndex'[n]
    BY <1>1, <2>1, IndexTypes
  <2> QED  BY <2>1, <2>2 DEF LeaderHas
<1> QED  BY <1>1, <1>2, ElsewhereContinues DEF Reigns

LEMMA WinsReigns ==
    ASSUME Shape, ElectionSafety', NEW n \in Nodes, Elsewhere(n), UNCHANGED commitVars,
           NEW t, Elected(n, t), NEW sent, BecomeLeader(n, t, sent),
           \A m \in sent : m.type = "RequestVote"
    PROVE  Reigns
<1>1. role'[n] = "leader" /\ term'[n] = t /\ ~committedThisTerm'[n]
  BY DEF BecomeLeader, Elected, Shape, ShapedElections, ShapedLeaders
<1>2. ~Led(t)
  <2> SUFFICES ASSUME NEW p \in Nodes, <<t, p>> \in leadersByTerm PROVE FALSE
    BY DEF Led
  <2>1. <<t, p>> \in leadersByTerm' /\ <<t, n>> \in leadersByTerm'
    BY DEF Elected
  <2>2. <<t, p>>[1] = <<t, n>>[1]
    OBVIOUS
  <2>3. <<t, p>> = <<t, n>>
    BY <2>1, <2>2 DEF ElectionSafety
  <2> QED  BY <2>3 DEF Elected
<1>3. ASSUME NEW m \in network' \ network, m.type = "AppendEntries"
      PROVE  m.term = t /\ m.commit = commitIndex[n]
  <2>1. PICK nxt, voters : Send(sent \cup Broadcast(n, t, log[n], nxt, voters))
    BY DEF BecomeLeader
  <2>2. m \in Broadcast(n, t, log[n], nxt, voters)
    BY <1>3, <2>1 DEF Send
  <2> QED  BY <1>3, <2>2, BroadcastCommit
<1> QED  BY <1>1, <1>2, <1>3, LeaderReigns DEF Begins

LEMMA StartElectionReigns ==
    ASSUME Shape, Records, ElectionSafety', NEW n \in Nodes, StartElection(n)
    PROVE  Reigns
<1>1. Elsewhere(n)
  BY SentElsewhere DEF SentBy
<1>2. PICK t \in Nat : t = term[n] + 1
  BY IndexTypes
<1>3. PICK ms : SeeksTerm(n, t, ms)
  BY <1>2, StartElectionCases
<1>4. CASE Elected(n, t) /\ BecomeLeader(n, t, ms)
  BY <1>1, <1>3, <1>4, WinsReigns DEF SeeksTerm
<1>5. CASE role' = [role EXCEPT ![n] = "candidate"] /\ Send(ms)
  <2>1. role'[n] # "leader" /\ UNCHANGED committed
    BY <1>3, <1>5 DEF Shape, ShapedElections, SeeksTerm, commitVars
  <2>2. NoNewEntries
    BY <1>3, <1>5, SendNoEntries DEF SeeksTerm
  <2> QED  BY <1>1, <2>1, <2>2, QuietReigns
<1> QED  BY <1>3, <1>4, <1>5 DEF SeeksTerm

LEMMA StepDownReigns ==
    ASSUME Shape, NEW n \in Nodes, NEW m \in network, StepDown(n, m)
    PROVE  Reigns
<1>1. role'[n] = "follower" /\ UNCHANGED <<committed, network>>
  BY DEF StepDown, BecomeFollower, commitVars, Shape, ShapedElections
<1> QED  BY <1>1, StepDownElsewhere, QuietReigns DEF NoNewEntries

LEMMA VoteReplyReigns ==
    ASSUME Shape, Records, ElectionSafety', NEW n \in Nodes, Elsewhere(n),
           NEW m \in network, HandleVoteReply(n, m)
    PROVE  Reigns
<1>1. CASE Elected(n, term[n]) /\ BecomeLeader(n, term[n], {}) /\ UNCHANGED commitVars
  BY <1>1, WinsReigns
<1>2. CASE /\ ~StepDown(n, m)
           /\ UNCHANGED <<term, role, network, log, snapshot>>
           /\ UNCHANGED commitVars
  <2>1. role[n] = "candidate"
    BY <1>2, Zenon DEF HandleVoteReply
  <2> QED  BY <1>2, <2>1, QuietReigns DEF NoNewEntries, commitVars
<1> QED  BY <1>1, <1>2, VoteReplyCases, StepDownReigns

LEMMA RequestVoteReigns ==
    ASSUME Shape, NEW n \in Nodes, Elsewhere(n), NEW m \in network, HandleRequestVote(n, m)
    PROVE  Reigns
<1>1. /\ UNCHANGED <<log, snapshot, leaderVars, commitVars>>
      /\ term' = [term EXCEPT ![n] = Larger(term[n], m.term)]
      /\ \/ m.term > term[n] /\ role' = [role EXCEPT ![n] = "follower"]
         \/ ~(m.term > term[n]) /\ UNCHANGED role
      /\ \E t, p, ok : Send({VoteReply(t, n, p, ok)})
  BY Zenon DEF HandleRequestVote
<1>2. NoNewEntries
  BY <1>1, ReplyNoEntries
<1>3. CASE role' = [role EXCEPT ![n] = "follower"]
  <2>1. role'[n] # "leader"
    BY <1>3 DEF Shape, ShapedElections
  <2> QED  BY <1>1, <1>2, <2>1, QuietReigns DEF commitVars
<1>4. CASE ~(m.term > term[n]) /\ UNCHANGED role
  <2>1. m.term \in Nat /\ term[n] \in Nat
    BY IndexTypes DEF Shape, ShapedNetwork, ShapedMessage
  <2>2. Larger(term[n], m.term) = term[n]
    BY <1>4, <2>1 DEF Larger
  <2>3. term' = term
    BY <1>1, <2>2 DEF Shape, ShapedElections
  <2> QED  BY <1>1, <1>2, <1>4, <2>3, QuietReigns DEF commitVars, leaderVars
<1> QED  BY <1>1, <1>3, <1>4

LEMMA ReadReigns ==
    ASSUME Shape, NEW n \in Nodes, Elsewhere(n), NEW m \in network,
           HandleReadHeartbeat(n, m) \/ HandleReadAck(n, m)
    PROVE  Reigns
<1>1. CASE HandleReadHeartbeat(n, m)
  <2>1. /\ UNCHANGED <<log, snapshot, leaderVars, commitVars>>
        /\ BecomeFollower(n, m.term) \/ UNCHANGED <<role, term>>
    BY <1>1, Zenon DEF HandleReadHeartbeat
  <2>2. NoNewEntries
    BY <1>1, SendNoEntries DEF HandleReadHeartbeat
  <2>3. BecomeFollower(n, m.term) => role'[n] # "leader"
    BY DEF BecomeFollower, Shape, ShapedElections
  <2> QED  BY <2>1, <2>2, <2>3, QuietReigns DEF commitVars, leaderVars
<1>2. CASE HandleReadAck(n, m)
  <2>1. \/ StepDown(n, m)
        \/ UNCHANGED <<persistentVars, electionVars, leaderVars, commitIndex, committed,
                       network>>
    BY <1>2, Zenon DEF HandleReadAck
  <2> QED  BY <2>1, StepDownReigns, QuietReigns
           DEF persistentVars, electionVars, leaderVars, NoNewEntries
<1> QED  BY <1>1, <1>2

LEMMA InstallSnapshotReigns ==
    ASSUME Shape, NEW n \in Nodes, Elsewhere(n), NEW m \in network, HandleInstallSnapshot(n, m)
    PROVE  Reigns
<1>1. UNCHANGED committed /\ \E t, ok, i : Send({AppendReply(t, n, m.from, ok, i)})
  BY Zenon DEF HandleInstallSnapshot
<1>2. NoNewEntries
  BY <1>1, ReplyNoEntries
<1>3. CASE FollowLeader(n, m.term)
  <2>1. m.term \in Nat
    BY DEF Shape, ShapedNetwork, ShapedMessage
  <2>2. role'[n] # "leader"
    BY <1>3, <2>1, FollowLeaderApart
  <2> QED  BY <1>1, <1>2, <2>2, QuietReigns
<1>4. CASE UNCHANGED <<persistentVars, role, commitIndex, leaderVars>>
  BY <1>1, <1>2, <1>4, QuietReigns DEF persistentVars, leaderVars
<1> QED  BY <1>3, <1>4, Zenon DEF HandleInstallSnapshot

LEMMA HeartbeatReigns ==
    ASSUME Shape, NEW n \in Nodes, Elsewhere(n), Heartbeat(n)
    PROVE  Reigns
<1>1. /\ role[n] = "leader"
      /\ UNCHANGED <<role, term, log, snapshot, committedThisTerm>>
      /\ UNCHANGED commitVars
      /\ Send(Broadcast(n, term[n], log[n], nextIndex[n], config[n].voters))
  BY DEF Heartbeat, persistentVars, electionVars, leaderVars
<1>2. Continues(n)
  <2>1. commitIndex'[n] >= commitIndex[n]
    BY <1>1, IndexTypes DEF commitVars
  <2> QED  BY <1>1, <2>1 DEF Continues, OwnTermFirst, Base, commitVars
<1>3. ASSUME NEW m \in network' \ network, m.type = "AppendEntries"
      PROVE  m.term = term'[n] /\ m.commit = commitIndex[n]
  <2>1. m \in Broadcast(n, term[n], log[n], nextIndex[n], config[n].voters)
    BY <1>1, <1>3 DEF Send
  <2> QED  BY <1>1, <1>3, <2>1, BroadcastCommit
<1> QED  BY <1>1, <1>2, <1>3, LeaderReigns

LEMMA AppendReigns ==
    ASSUME Shape, NEW n \in Nodes, Elsewhere(n), UNCHANGED committedThisTerm,
           NEW cmd \in KnownCommands, NEW voters, role[n] = "leader",
           AppendAsLeader(n, cmd, voters), UNCHANGED <<term, role, snapshot>>,
           UNCHANGED commitVars
    PROVE  Reigns
<1>1. PICK t \in Nat, L \in Seq(KnownEntries) : t = term[n] /\ L = log[n]
  BY IndexTypes
<1>2. PICK e \in KnownEntries : e = [term |-> t, cmd |-> cmd]
  BY DEF KnownEntries
<1>3. log'[n] = Append(L, e)
  BY <1>1, <1>2 DEF AppendAsLeader, Shape, ShapedLogs
<1>4. OwnTermFirst(n) => OwnTermFirst(n)'
  <2> SUFFICES ASSUME OwnTermFirst(n), committedThisTerm[n],
                      NEW i \in 1 .. Len(Append(L, e)), Append(L, e)[i].term < t
               PROVE  Base(n) + i <= commitIndex[n]
    BY <1>1, <1>3 DEF OwnTermFirst, Base, commitVars
  <2>1. Len(Append(L, e)) = Len(L) + 1 /\ Len(L) \in Nat
    OBVIOUS
  <2>2. CASE i = Len(L) + 1
    <3>1. Append(L, e)[i] = e
      BY <2>2
    <3>2. ~(t < t)
      BY <1>1
    <3> QED  BY <1>2, <3>1, <3>2
  <2>3. CASE i # Len(L) + 1
    <3>1. i \in 1 .. Len(L)
      BY <2>1, <2>3
    <3>2. Append(L, e)[i] = L[i]
      BY <3>1
    <3> QED  BY <1>1, <3>1, <3>2 DEF OwnTermFirst
  <2> QED  BY <2>2, <2>3
<1>5. Continues(n)
  <2>1. commitIndex'[n] >= commitIndex[n]
    BY IndexTypes DEF commitVars
  <2> QED  BY <1>4, <2>1 DEF Continues
<1>6. ASSUME NEW m \in network' \ network, m.type = "AppendEntries"
      PROVE  m.term = term'[n] /\ m.commit = commitIndex[n]
  <2>1. \E lg, nxt : m \in Broadcast(n, term[n], lg, nxt, voters)
    BY <1>6 DEF AppendAsLeader, Send
  <2> QED  BY <1>6, <2>1, BroadcastCommit
<1> QED  BY <1>5, <1>6, LeaderReigns

\* A leader commits only up to entries of its own term.
LEMMA CommitsOwnTerm ==
    ASSUME Shape, NEW n \in Nodes, NEW matched, Committable(n, matched) # {},
           NEW ci, ci = Max(Committable(n, matched)), UNCHANGED term,
           SetCommitIndex(n, log[n], ci, term[n])
    PROVE  /\ commitIndex'[n] = ci
           /\ ci > commitIndex[n]
           /\ Observe(n, log[n], ci, term[n])
           /\ OwnTermFirst(n)'
<1>1. /\ ci \in Committable(n, matched)
      /\ ci \in Nat
      /\ ci > commitIndex[n]
      /\ ci <= LastIndex(n)
  BY NewestCommittable
<1>2. ~(ci <= commitIndex[n])
  BY <1>1, IndexTypes
<1>3. /\ commitIndex' = [commitIndex EXCEPT ![n] = ci]
      /\ Observe(n, log[n], ci, term[n])
      /\ \/ /\ \E img : snapshot' = [snapshot EXCEPT ![n] = Compacted(n, log[n], ci, img)]
            /\ log' = [log EXCEPT ![n] = SubSeq(log[n], ci - Base(n) + 1, Len(log[n]))]
         \/ /\ log' = [log EXCEPT ![n] = log[n]]
            /\ UNCHANGED snapshot
  BY <1>2, Zenon DEF SetCommitIndex
<1>4. PICK b \in Nat, z \in Nat, c \in Nat, L \in Seq(KnownEntries) :
        /\ b = Base(n)
        /\ z = Len(L)
        /\ c = commitIndex[n]
        /\ L = log[n]
        /\ b <= c
        /\ LastIndex(n) = b + z
  BY IndexTypes DEF LastIndex
<1>5. ASSUME NEW j \in ci .. b + z PROVE L[j - b].term = term[n]
  <2>1. TermAt(n, j) = term[n]
    BY <1>1, <1>4, <1>5 DEF Committable
  <2>2. ~(j <= b)
    BY <1>1, <1>4, <1>5
  <2> QED  BY <1>4, <2>1, <2>2 DEF TermAt, TermIn, Base
<1>6. commitIndex'[n] = ci
  BY <1>3 DEF Shape, ShapedLogs
<1>7. ~(term[n] < term[n])
  BY IndexTypes
<1>8. CASE log' = [log EXCEPT ![n] = log[n]] /\ UNCHANGED snapshot
  <2>1. log'[n] = L /\ Base(n)' = b
    BY <1>4, <1>8 DEF Shape, ShapedLogs, Base
  <2>2. ASSUME NEW i \in 1 .. z, ~(b + i <= ci) PROVE L[i].term = term[n]
    <3>1. b + i \in ci .. b + z /\ b + i - b = i
      BY <1>1, <2>2
    <3> QED  BY <1>5, <3>1
  <2>3. OwnTermFirst(n)'
    BY <1>4, <1>6, <1>7, <2>1, <2>2 DEF OwnTermFirst
  <2> QED  BY <1>1, <1>3, <1>6, <2>3
<1>9. ASSUME NEW img, snapshot' = [snapshot EXCEPT ![n] = Compacted(n, log[n], ci, img)],
             log' = [log EXCEPT ![n] = SubSeq(log[n], ci - Base(n) + 1, Len(log[n]))]
      PROVE  OwnTermFirst(n)'
  <2>1. PICK k \in Nat : k = ci /\ b <= k
    <3>1. ci \in Nat /\ b <= ci
      BY <1>1, <1>4
    <3> QED  BY <3>1
  <2>2. PICK a \in Nat \ {0} : a = k - b + 1
    BY <1>4, <2>1
  <2>3. PICK M : M = SubSeq(L, a, z)
    OBVIOUS
  <2>4. log'[n] = M
    BY <1>4, <1>9, <2>1, <2>3, <2>2 DEF Shape, ShapedLogs
  <2>5. z \in Int /\ z <= Len(L)
    BY <1>4
  <2>6. Len(M) = IF a <= z THEN z - a + 1 ELSE 0
    BY <2>3, <2>5, Stretch
  <2>7. ASSUME NEW i \in 1 .. Len(M) PROVE M[i].term = term[n]
    <3>1. i \in 1 .. z - a + 1
      BY <2>6
    <3>2. M[i] = L[a + i - 1]
      BY <2>3, <2>5, <3>1, StretchElement
    <3>3. PICK j \in Nat : j = k + i
      BY <3>1
    <3>4. j \in k .. b + z
      <4>1. PICK x \in Nat : x = i /\ x >= 1 /\ x <= z - a + 1
        BY <1>4, <2>2, <3>1
      <4>2. j = k + x /\ x <= z - (k - b + 1) + 1
        BY <2>2, <3>3, <4>1
      <4>3. k <= j
        BY <4>2
      <4>4. j <= b + z
        <5>1. PICK p \in Nat, q \in Nat, r \in Int : p = k /\ q = b /\ r = z
          BY <1>4, <2>5
        <5> QED  BY <4>1, <4>2, <5>1
      <4> QED  BY <1>4, <4>3, <4>4
    <3>5. j - b = a + i - 1
      BY <1>4, <2>2, <3>1, <3>3
    <3>6. L[j - b].term = term[n]
      BY <1>5, <2>1, <3>4
    <3> QED  BY <3>2, <3>5, <3>6
  <2> QED  BY <1>7, <2>4, <2>7 DEF OwnTermFirst
<1> QED  BY <1>1, <1>3, <1>6, <1>8, <1>9

LEMMA AppendReplyReigns ==
    ASSUME Shape, NEW n \in Nodes, Elsewhere(n), NEW m \in network, HandleAppendReply(n, m)
    PROVE  Reigns
<1> DEFINE matched == [matchIndex[n] EXCEPT ![m.from] = Larger(@, m.match)]
           next == [nextIndex[n] EXCEPT ![m.from] =
                      IF m.success THEN Larger(@, m.match + 1) ELSE BackOff(@)]
<1>1. SUFFICES ASSUME ~StepDown(n, m) PROVE Reigns
  BY StepDownReigns
<1>2. /\ role[n] = "leader"
      /\ UNCHANGED <<term, role>>
      /\ \/ /\ UNCHANGED network
            /\ UNCHANGED <<log, snapshot, commitVars, committedThisTerm>>
         \/ /\ UNCHANGED network
            /\ Committable(n, matched) # {}
            /\ SetCommitIndex(n, log[n], Max(Committable(n, matched)), term[n])
         \/ /\ Send({Replicate(n, term[n], m.from, log[n], next[m.from])})
            /\ UNCHANGED <<log, snapshot, commitVars, committedThisTerm>>
  BY <1>1, Zenon DEF HandleAppendReply, electionVars
<1>3. CASE /\ UNCHANGED network
           /\ UNCHANGED <<log, snapshot, commitVars, committedThisTerm>>
  BY <1>2, <1>3, QuietReigns DEF NoNewEntries, commitVars
<1>4. CASE /\ UNCHANGED network
           /\ Committable(n, matched) # {}
           /\ SetCommitIndex(n, log[n], Max(Committable(n, matched)), term[n])
  <2>1. PICK ci : ci = Max(Committable(n, matched))
    OBVIOUS
  <2> HIDE DEF matched
  <2>2. /\ commitIndex'[n] = ci
        /\ ci > commitIndex[n]
        /\ Observe(n, log[n], ci, term[n])
        /\ OwnTermFirst(n)'
    BY <1>2, <1>4, <2>1, CommitsOwnTerm
  <2>3. Continues(n)
    <3>1. PICK c \in Nat, c2 \in Nat : c = commitIndex[n] /\ c2 = ci
      <4>1. commitIndex[n] \in Nat /\ ci \in Nat
        BY <1>4, <2>1, NewestCommittable, IndexTypes
      <4> QED  BY <4>1
    <3>2. c2 >= c
      BY <2>2, <3>1
    <3> QED  BY <1>2, <2>2, <3>1, <3>2 DEF Continues
  <2>4. ASSUME NEW rec \in committed' \ committed PROVE LeaderHas(rec.term, rec.index)'
    <3>1. rec.index \in commitIndex[n] + 1 .. ci /\ rec.term = term[n]
      BY <2>2, ObserveAdds
    <3>2. rec.index <= ci
      BY <1>4, <2>1, <3>1, NewestCommittable, IndexTypes
    <3> QED  BY <1>2, <2>2, <3>1, <3>2 DEF LeaderHas
  <2> QED  BY <1>4, <2>3, <2>4, ElsewhereContinues DEF Reigns
<1>5. CASE /\ Send({Replicate(n, term[n], m.from, log[n], next[m.from])})
           /\ UNCHANGED <<log, snapshot, commitVars, committedThisTerm>>
  <2>1. Continues(n)
    <3>1. commitIndex'[n] >= commitIndex[n]
      BY <1>5, IndexTypes DEF commitVars
    <3> QED  BY <1>2, <1>5, <3>1 DEF Continues, OwnTermFirst, Base, commitVars
  <2>2. ASSUME NEW r \in network' \ network, r.type = "AppendEntries"
        PROVE  r.term = term'[n] /\ r.commit = commitIndex[n]
    <3>1. r = Replicate(n, term[n], m.from, log[n], next[m.from])
      BY <1>5, <2>2 DEF Send
    <3> QED  BY <1>2, <2>2, <3>1 DEF Replicate
  <2>3. UNCHANGED commitVars /\ role'[n] = "leader"
    BY <1>2, <1>5
  <2> QED  BY <2>1, <2>2, <2>3, LeaderReigns
<1> QED  BY <1>2, <1>3, <1>4, <1>5

\* A follower commits no more than the leader says it has.
LEMMA AppendEntriesReigns ==
    ASSUME Shape, NEW n \in Nodes, Elsewhere(n), NEW m \in network, HandleAppendEntries(n, m)
    PROVE  Reigns
<1> DEFINE a == AboveBase(n, m)
           match == a.prevIndex + Len(a.entries)
           ci == FollowerCommit(n, m, match)
<1>1. /\ m.type = "AppendEntries"
      /\ UNCHANGED committedThisTerm
      /\ \/ UNCHANGED <<role, persistentVars, commitVars>>
         \/ FollowLeader(n, m.term) /\ UNCHANGED commitVars
         \/ FollowLeader(n, m.term) /\ \E lg : SetCommitIndex(n, lg, ci, m.term)
      /\ \E t, ok, i : Send({AppendReply(t, n, m.from, ok, i)})
  BY Zenon DEF HandleAppendEntries, leaderVars
<1>2. NoNewEntries
  BY <1>1, ReplyNoEntries
<1>3. m.term \in Nat /\ m.commit \in Nat /\ commitIndex[n] \in Nat
  BY <1>1, IndexTypes DEF Shape, ShapedNetwork, ShapedMessage
<1>4. FollowLeader(n, m.term) => role'[n] = "follower"
  BY <1>3, FollowLeaderApart
<1>5. CASE UNCHANGED <<role, persistentVars, commitVars>>
  BY <1>1, <1>2, <1>5, QuietReigns DEF persistentVars, commitVars
<1>6. CASE FollowLeader(n, m.term) /\ UNCHANGED commitVars
  BY <1>2, <1>4, <1>6, QuietReigns DEF commitVars
<1>7. ASSUME FollowLeader(n, m.term), NEW lg, SetCommitIndex(n, lg, ci, m.term)
      PROVE  Reigns
  <2>1. CASE UNCHANGED commitVars
    BY <1>2, <1>4, <1>7, <2>1, QuietReigns DEF commitVars
  <2>2. CASE ci > commitIndex[n] /\ Observe(n, lg, ci, m.term)
    <3>1. ASSUME NEW rec \in committed' \ committed
          PROVE  rec.term = m.term /\ rec.index <= m.commit
      <4>1. rec.index \in commitIndex[n] + 1 .. ci /\ rec.term = m.term
        BY <2>2, ObserveAdds
      <4>2. ci \in Nat /\ ci <= m.commit
        <5>1. match \in Nat
          BY <1>1, AboveBaseShaped
        <5>2. ci \in Nat /\ (ci > commitIndex[n] => ci <= m.commit)
          BY <1>1, <5>1, FollowerCommitBounds
        <5> QED  BY <2>2, <5>2
      <4> HIDE DEF ci
      <4>3. PICK i \in Nat, k \in Nat, c \in Nat :
              i = m.commit /\ k = ci /\ c = commitIndex[n]
        BY <1>3, <4>2
      <4>4. rec.index <= i
        BY <4>1, <4>2, <4>3
      <4> QED  BY <4>1, <4>3, <4>4
    <3> QED  BY <1>1, <1>2, <1>4, <1>7, <3>1, ElsewhereContinues DEF Reigns, NoNewEntries
  <2> QED  BY <1>7, <2>1, <2>2, Zenon DEF SetCommitIndex
<1> QED  BY <1>1, <1>5, <1>6, <1>7

LEMMA ReceiveReigns ==
    ASSUME Shape, Records, ElectionSafety', NEW n \in Nodes, Receive(n)
    PROVE  Reigns
<1>1. Elsewhere(n)
  BY ReceiveElsewhere
<1>2. PICK m \in network :
        \/ HandleRequestVote(n, m)
        \/ HandleVoteReply(n, m)
        \/ HandleAppendEntries(n, m)
        \/ HandleAppendReply(n, m)
        \/ HandleInstallSnapshot(n, m)
        \/ HandleReadHeartbeat(n, m)
        \/ HandleReadAck(n, m)
  BY DEF Receive
<1> QED  BY <1>1, <1>2, RequestVoteReigns, VoteReplyReigns, AppendEntriesReigns,
            AppendReplyReigns, InstallSnapshotReigns, ReadReigns

LEMMA SentReigns ==
    ASSUME Shape, Records, ElectionSafety', NEW n \in Nodes, SentBy(n)
    PROVE  Reigns
<1>1. Elsewhere(n)
  BY SentElsewhere
<1>2. CASE \/ \E c \in Clients : ClientCommand(n, c)
           \/ \E V \in Proposals : ChangeConfig(n, V)
  <2>1. PICK cmd \in KnownCommands, voters \in SUBSET Nodes :
          /\ role[n] = "leader"
          /\ AppendAsLeader(n, cmd, voters)
          /\ UNCHANGED <<term, role, leadersByTerm, snapshot>>
          /\ UNCHANGED commitVars
    BY <1>2, AppendCases
  <2>2. UNCHANGED committedThisTerm
    BY <1>2, Zenon DEF ClientCommand, ChangeConfig
  <2> QED  BY <1>1, <2>1, <2>2, AppendReigns
<1>3. ASSUME NEW c \in Clients, RequestRead(n, c) PROVE Reigns
  <2>1. UNCHANGED <<persistentVars, electionVars, leaderVars, commitIndex, committed>>
    BY <1>3, Zenon DEF RequestRead
  <2>2. NoNewEntries
    BY <1>3, SendNoEntries DEF RequestRead
  <2> QED  BY <1>1, <2>1, <2>2, QuietReigns DEF persistentVars, electionVars, leaderVars
<1>4. CASE Crash(n)
  <2>1. role'[n] # "leader" /\ UNCHANGED <<committed, network>>
    BY <1>4 DEF Crash, Shape, ShapedElections
  <2> QED  BY <1>1, <2>1, QuietReigns DEF NoNewEntries
<1>5. CASE Resume(n)
  BY <1>1, <1>5, QuietReigns DEF Resume, persistentVars, leaderVars, commitVars, NoNewEntries
<1> QED  BY <1>1, <1>2, <1>3, <1>4, <1>5, StartElectionReigns, HeartbeatReigns DEF SentBy

LEMMA NextActs ==
    ASSUME Next
    PROVE  \E n \in Nodes : Receive(n) \/ SentBy(n)
BY Zenon DEF Next, SentBy

\* Terms only rise, and leaders stay on record.
Grows ==
    /\ leadersByTerm \subseteq leadersByTerm'
    /\ \A k \in Nodes : term'[k] >= term[k]

LEMMA SteadyGrows ==
    ASSUME Steady \/ Calm
    PROVE  Grows
BY CalmSteady DEF Steady, Grows

LEMMA RisesGrow ==
    ASSUME Shape, NEW n \in Nodes, NEW t \in Nat, t >= term[n],
           term' = [term EXCEPT ![n] = t], leadersByTerm \subseteq leadersByTerm'
    PROVE  Grows
<1> SUFFICES ASSUME NEW k \in Nodes PROVE term'[k] >= term[k]
  BY DEF Grows
<1>1. term \in [Nodes -> Nat]
  BY DEF Shape, ShapedElections
<1> QED  BY <1>1

LEMMA NextGrows ==
    ASSUME Shape, Records, Next
    PROVE  Grows
<1>1. ASSUME NEW n \in Nodes, StartElection(n) PROVE Grows
  <2>1. PICK t \in Nat : t = term[n] + 1 /\ t >= term[n]
    <3>1. term[n] \in Nat
      BY IndexTypes
    <3> QED  BY <3>1
  <2>2. /\ term' = [term EXCEPT ![n] = t]
        /\ leadersByTerm \subseteq leadersByTerm'
    <3>1. PICK ms : SeeksTerm(n, t, ms)
      BY <1>1, <2>1, StartElectionCases
    <3> QED  BY <3>1 DEF SeeksTerm, Elected
  <2> QED  BY <2>1, <2>2, RisesGrow
<1>2. ASSUME NEW n \in Nodes, NEW m \in network, HandleVoteReply(n, m) PROVE Grows
  <2>1. CASE StepDown(n, m)
    BY <2>1, StepDownCalm, SteadyGrows
  <2>2. CASE UNCHANGED <<term, leadersByTerm>>
    BY <2>2, IndexTypes DEF Grows
  <2>3. CASE Elected(n, term[n])
    <3>1. term[n] \in Nat /\ term[n] >= term[n]
      BY IndexTypes
    <3> QED  BY <2>3, <3>1, RisesGrow DEF Elected
  <2> QED  BY <1>2, <2>1, <2>2, <2>3, VoteReplyCases
<1>3. ASSUME NEW n \in Nodes, Receive(n) PROVE Grows
  <2>1. PICK m \in network :
          \/ HandleRequestVote(n, m)
          \/ HandleVoteReply(n, m)
          \/ HandleAppendEntries(n, m)
          \/ HandleAppendReply(n, m)
          \/ HandleInstallSnapshot(n, m)
          \/ HandleReadHeartbeat(n, m)
          \/ HandleReadAck(n, m)
    BY <1>3 DEF Receive
  <2> QED  BY <1>2, <2>1, SteadyGrows, RequestVoteSteady, AppendEntriesCalm,
              AppendReplyCalm, InstallSnapshotCalm, ReadHeartbeatCalm, ReadAckCalm
<1>4. ASSUME NEW n \in Nodes, SentBy(n), ~StartElection(n) PROVE Grows
  <2>1. CASE \/ \E c \in Clients : ClientCommand(n, c)
             \/ \E V \in Proposals : ChangeConfig(n, V)
    <3>1. UNCHANGED <<term, leadersByTerm>>
      BY <2>1, AppendCases
    <3> QED  BY <3>1, IndexTypes DEF Grows
  <2> QED  BY <1>4, <2>1, HeartbeatCalm, RequestReadCalm, CrashCalm, ResumeCalm, SteadyGrows
           DEF SentBy
<1> QED  BY <1>1, <1>3, <1>4, NextActs

\* A leader is never behind what was committed in its term, by itself or by a
\* follower, and once it has committed in its term never behind what it has of
\* earlier ones: the grounds on which its commit index is fresh enough to read
\* by (request_read; _advance_commit counts only entries of its own term).
THEOREM LeadersCommitFirst == Spec /\ []ElectionSafety => []LeadersAhead
<1>1. Init => LeadersAhead
  BY DEF Init, LeadersAhead, OwnTermFirst
<1>2. /\ Shape /\ Shape' /\ Records /\ Records' /\ ElectionSafety' /\ EveryLogTraced
      /\ LeadersAhead /\ [Next]_vars
      => LeadersAhead'
  <2> SUFFICES ASSUME Shape, Shape', Records, Records', ElectionSafety', EveryLogTraced,
                      LeadersAhead, [Next]_vars
               PROVE  LeadersAhead'
    OBVIOUS
  <2>1. CASE Next
    <3>1. PICK lead, full : Logs(lead, full)
      BY DEF EveryLogTraced
    <3>2. Reigns
      BY <2>1, NextActs, ReceiveReigns, SentReigns
    <3>3. leadersByTerm \subseteq leadersByTerm'
      BY <2>1, NextGrows DEF Grows
    <3> QED  BY <3>1, <3>2, <3>3, ReignsAhead
  <2>2. CASE UNCHANGED vars
    BY <2>2 DEF LeadersAhead, OwnTermFirst, LeaderAt, Led, Base, vars, persistentVars,
       electionVars, leaderVars, commitVars
  <2> QED  BY <2>1, <2>2
<1> QED  BY <1>1, <1>2, ShapeInvariant, LogsAreTraced, PTL DEF Spec

-----------------------------------------------------------------------------
(***************************************************************************)
(* Reads: what each step does to those pending.                            *)
(***************************************************************************)
\* The reads pending at n stay while it leads, and are dropped when it stops.
ReadsKept(n) ==
    \/ /\ pendingReads'[n] = {}
       /\ role'[n] # "leader"
    \/ /\ pendingReads'[n] = pendingReads[n]
       /\ \/ role[n] # "leader"
          \/ role'[n] = role[n] /\ term'[n] = term[n]

NoNewReads ==
    \A m \in network' : m.type \in {"ReadHeartbeat", "ReadAck"} => m \in network

\* A step of n that neither requests a read nor answers for one.
QuietReads(n) ==
    /\ ReadsKept(n)
    /\ NoNewReads
    /\ UNCHANGED nextReadId

LEMMA SendNoReads ==
    ASSUME NEW ms, Send(ms), \A m \in ms : m.type \notin {"ReadHeartbeat", "ReadAck"}
    PROVE  NoNewReads
BY DEF Send, NoNewReads

LEMMA ReplyNoReads ==
    ASSUME NEW t, NEW n, NEW p, NEW ok, NEW match,
           Send({AppendReply(t, n, p, ok, match)}) \/ Send({VoteReply(t, n, p, ok)})
    PROVE  NoNewReads
BY SendNoReads DEF AppendReply, VoteReply

LEMMA ReplicateType ==
    ASSUME NEW n, NEW t, NEW p, NEW lg, NEW nxt
    PROVE  Replicate(n, t, p, lg, nxt).type \notin {"ReadHeartbeat", "ReadAck"}
<1>1. CASE nxt - 1 < Base(n)
  BY <1>1 DEF Replicate
<1>2. CASE ~(nxt - 1 < Base(n))
  BY <1>2 DEF Replicate
<1> QED  BY <1>1, <1>2

LEMMA BroadcastType ==
    ASSUME NEW n, NEW t, NEW lg, NEW nxt, NEW voters,
           NEW m \in Broadcast(n, t, lg, nxt, voters)
    PROVE  m.type \notin {"ReadHeartbeat", "ReadAck"}
<1>1. PICK p \in voters \ {n} : m = Replicate(n, t, p, lg, nxt[p])
  BY DEF Broadcast
<1> QED  BY <1>1, ReplicateType

LEMMA BroadcastNoReads ==
    ASSUME NEW n, NEW t, NEW lg, NEW nxt, NEW voters, Send(Broadcast(n, t, lg, nxt, voters))
    PROVE  NoNewReads
BY BroadcastType, SendNoReads

LEMMA BecomeLeaderReads ==
    ASSUME NEW n, NEW t, NEW sent, \A m \in sent : m.type \notin {"ReadHeartbeat", "ReadAck"},
           BecomeLeader(n, t, sent)
    PROVE  NoNewReads
<1>1. PICK nxt : Send(sent \cup Broadcast(n, t, log[n], nxt, config[n].voters))
  BY Zenon DEF BecomeLeader
<1> QED  BY <1>1, BroadcastType, SendNoReads

LEMMA FollowerReads ==
    ASSUME Shape, NEW n \in Nodes, NEW t, BecomeFollower(n, t)
    PROVE  ReadsKept(n)
BY DEF BecomeFollower, ReadsKept, Shape, ShapedElections, ShapedReads

LEMMA FollowLeaderReads ==
    ASSUME Shape, NEW n \in Nodes, NEW t, FollowLeader(n, t)
    PROVE  ReadsKept(n)
<1>1. CASE BecomeFollower(n, t)
  BY <1>1, FollowerReads
<1>2. CASE role[n] = "follower" /\ UNCHANGED pendingReads
  BY <1>2 DEF ReadsKept
<1> QED  BY <1>1, <1>2 DEF FollowLeader

LEMMA StepDownReads ==
    ASSUME Shape, NEW n \in Nodes, NEW m, StepDown(n, m)
    PROVE  QuietReads(n)
<1>1. BecomeFollower(n, m.term) /\ UNCHANGED <<nextReadId, network>>
  BY DEF StepDown
<1> QED  BY <1>1, FollowerReads DEF QuietReads, NoNewReads

LEMMA RequestVoteReads ==
    ASSUME Shape, NEW n \in Nodes, NEW m \in network, HandleRequestVote(n, m)
    PROVE  QuietReads(n)
<1>1. /\ term' = [term EXCEPT ![n] = Larger(term[n], m.term)]
      /\ \/ /\ m.term > term[n]
            /\ role' = [role EXCEPT ![n] = "follower"]
            /\ pendingReads' = [pendingReads EXCEPT ![n] = {}]
         \/ ~(m.term > term[n]) /\ UNCHANGED <<role, pendingReads>>
      /\ \E t, p, ok : Send({VoteReply(t, n, p, ok)})
      /\ UNCHANGED nextReadId
  BY Zenon DEF HandleRequestVote
<1>2. NoNewReads
  BY <1>1, ReplyNoReads
<1>3. CASE /\ role' = [role EXCEPT ![n] = "follower"]
           /\ pendingReads' = [pendingReads EXCEPT ![n] = {}]
  BY <1>1, <1>2, <1>3 DEF QuietReads, ReadsKept, Shape, ShapedElections, ShapedReads
<1>4. CASE ~(m.term > term[n]) /\ UNCHANGED <<role, pendingReads>>
  <2>1. m.term \in Nat /\ term[n] \in Nat
    BY IndexTypes DEF Shape, ShapedNetwork, ShapedMessage
  <2>2. Larger(term[n], m.term) = term[n]
    BY <1>4, <2>1 DEF Larger
  <2>3. term' = term
    BY <1>1, <2>2 DEF Shape, ShapedElections
  <2> QED  BY <1>1, <1>2, <1>4, <2>3 DEF QuietReads, ReadsKept
<1> QED  BY <1>1, <1>3, <1>4

LEMMA VoteReplyReads ==
    ASSUME Shape, NEW n \in Nodes, NEW m \in network, HandleVoteReply(n, m)
    PROVE  QuietReads(n)
<1>1. SUFFICES ASSUME ~StepDown(n, m) PROVE QuietReads(n)
  BY StepDownReads
<1>2. /\ role[n] = "candidate"
      /\ UNCHANGED readVars
      /\ \/ BecomeLeader(n, term[n], {})
         \/ UNCHANGED network
  BY <1>1, Zenon DEF HandleVoteReply
<1>3. NoNewReads
  <2>1. CASE BecomeLeader(n, term[n], {})
    BY <2>1, BecomeLeaderReads
  <2> QED  BY <1>2, <2>1 DEF NoNewReads
<1> QED  BY <1>2, <1>3 DEF QuietReads, ReadsKept, readVars

LEMMA AppendEntriesReads ==
    ASSUME Shape, NEW n \in Nodes, NEW m \in network,
           HandleAppendEntries(n, m) \/ HandleInstallSnapshot(n, m)
    PROVE  QuietReads(n)
<1>1. /\ \/ UNCHANGED <<role, persistentVars, pendingReads>>
         \/ FollowLeader(n, m.term)
      /\ \E t, ok, i : Send({AppendReply(t, n, m.from, ok, i)})
      /\ UNCHANGED nextReadId
  <2>1. CASE HandleAppendEntries(n, m)
    BY <2>1, Zenon DEF HandleAppendEntries
  <2>2. CASE HandleInstallSnapshot(n, m)
    BY <2>2, Zenon DEF HandleInstallSnapshot
  <2> QED  BY <2>1, <2>2
<1>2. NoNewReads
  BY <1>1, ReplyNoReads
<1>3. CASE UNCHANGED <<role, persistentVars, pendingReads>>
  BY <1>1, <1>2, <1>3 DEF QuietReads, ReadsKept, persistentVars
<1> QED  BY <1>1, <1>2, <1>3, FollowLeaderReads DEF QuietReads

LEMMA AppendReplyReads ==
    ASSUME Shape, NEW n \in Nodes, NEW m \in network, HandleAppendReply(n, m)
    PROVE  QuietReads(n)
<1>1. SUFFICES ASSUME ~StepDown(n, m) PROVE QuietReads(n)
  BY StepDownReads
<1>2. /\ UNCHANGED <<term, electionVars, readVars>>
      /\ \/ UNCHANGED network
         \/ \E nxt : Send({Replicate(n, term[n], m.from, log[n], nxt)})
  BY <1>1, Zenon DEF HandleAppendReply
<1>3. NoNewReads
  BY <1>2, ReplicateType, SendNoReads DEF NoNewReads
<1> QED  BY <1>2, <1>3 DEF QuietReads, ReadsKept, electionVars, readVars

LEMMA ReceiveReads ==
    ASSUME Shape, NEW n \in Nodes, Receive(n)
    PROVE  \/ QuietReads(n)
           \/ \E m \in network : HandleReadHeartbeat(n, m)
           \/ \E m \in network : m.to = n /\ HandleReadAck(n, m) /\ ~StepDown(n, m)
<1>1. PICK m \in network :
        /\ m.to = n
        /\ \/ HandleRequestVote(n, m)
           \/ HandleVoteReply(n, m)
           \/ HandleAppendEntries(n, m)
           \/ HandleAppendReply(n, m)
           \/ HandleInstallSnapshot(n, m)
           \/ HandleReadHeartbeat(n, m)
           \/ HandleReadAck(n, m)
  BY DEF Receive
<1> QED  BY <1>1, RequestVoteReads, VoteReplyReads, AppendEntriesReads, AppendReplyReads,
            StepDownReads

LEMMA SentReads ==
    ASSUME Shape, NEW n \in Nodes, SentBy(n)
    PROVE  \/ QuietReads(n)
           \/ \E c \in Clients : RequestRead(n, c)
<1>1. CASE StartElection(n)
  <2>1. /\ role[n] # "leader"
        /\ UNCHANGED readVars
        /\ \E t : LET requests == {[type |-> "RequestVote", term |-> t, from |-> n, to |-> p,
                                    lastIndex |-> LastIndex(n),
                                    lastTerm |-> TermAt(n, LastIndex(n))] :
                                     p \in config[n].voters \ {n}}
                  IN BecomeLeader(n, t, requests) \/ Send(requests)
    BY <1>1 DEF StartElection
  <2>2. PICK sent, t : /\ \A m \in sent : m.type \notin {"ReadHeartbeat", "ReadAck"}
                       /\ BecomeLeader(n, t, sent) \/ Send(sent)
    BY <2>1
  <2>3. NoNewReads
    BY <2>2, BecomeLeaderReads, SendNoReads
  <2> QED  BY <2>1, <2>3 DEF QuietReads, ReadsKept, readVars
<1>2. CASE Heartbeat(n)
  <2>1. /\ Send(Broadcast(n, term[n], log[n], nextIndex[n], config[n].voters))
        /\ UNCHANGED <<persistentVars, electionVars, readVars>>
    BY <1>2 DEF Heartbeat
  <2>2. NoNewReads
    BY <2>1, BroadcastNoReads
  <2> QED  BY <2>1, <2>2 DEF QuietReads, ReadsKept, persistentVars, electionVars, readVars
<1>3. CASE \/ \E c \in Clients : ClientCommand(n, c)
           \/ \E V \in Proposals : ChangeConfig(n, V)
  <2>1. /\ UNCHANGED <<term, electionVars, readVars>>
        /\ \E cmd, voters : AppendAsLeader(n, cmd, voters)
    BY <1>3, Zenon DEF ClientCommand, ChangeConfig
  <2>2. \E lg, voters : Send(Broadcast(n, term[n], lg, nextIndex[n], voters))
    BY <2>1 DEF AppendAsLeader
  <2>3. NoNewReads
    BY <2>2, BroadcastNoReads
  <2> QED  BY <2>1, <2>3 DEF QuietReads, ReadsKept, electionVars, readVars
<1>4. CASE Crash(n)
  BY <1>4 DEF Crash, QuietReads, ReadsKept, NoNewReads, Shape, ShapedElections, ShapedReads
<1>5. CASE Resume(n)
  BY <1>5 DEF Resume, QuietReads, ReadsKept, NoNewReads, persistentVars, readVars
<1> QED  BY <1>1, <1>2, <1>3, <1>4, <1>5 DEF SentBy

\* What ReadsFresh says of n in a step.
ReadFresh(n) ==
    /\ \A r \in pendingReads[n] :
         (/\ role'[n] = "leader"
          /\ term'[n] = term[n]
          /\ \A q \in pendingReads'[n] : q.id # r.id)
         => commitIndex[n] >= r.floor
    /\ (nextReadId'[n] # nextReadId[n] /\ nextReq' # nextReq)
         => commitIndex[n] >= HighestCommitted

\* The reads pending at n are guarded after the step.
ReadsSafe(n) ==
    /\ role'[n] # "leader" => pendingReads'[n] = {}
    /\ \A r \in pendingReads'[n] : r.floor <= commitIndex'[n] \/ Outvoted(n, r)'

\* Messages about reads carry known ids, and who answers has seen the term.
FreshReads ==
    \A m \in network' \ network :
      /\ m.type = "ReadHeartbeat" => m.readId \in 0 .. nextReadId'[m.from] - 1
      /\ m.type = "ReadAck" => /\ m.readId \in 0 .. nextReadId'[m.to] - 1
                               /\ m.term >= term'[m.from]

\* A majority that left the term of n never confirms a read of n.
LEMMA OutvotedStays ==
    ASSUME Shape, Shape', Grows, FreshReads, NEW n \in Nodes, term'[n] = term[n],
           NEW r, NEW q, q.id = r.id,
           \A v \in q.acks : v \in r.acks \/ Confirmed(v, n, term[n], r.id),
           Outvoted(n, r)
    PROVE  Outvoted(n, q)'
<1>1. PICK Q \in SUBSET Nodes :
        /\ Majority(Q, InitialVoters)
        /\ \A v \in Q : /\ term[v] > term[n]
                        /\ v \notin r.acks
                        /\ ~Confirmed(v, n, term[n], r.id)
  BY DEF Outvoted
<1>2. PICK t \in Nat : t = term[n] /\ t = term'[n]
  BY DEF Shape, ShapedElections
<1>3. ASSUME NEW v \in Q
      PROVE  term'[v] > t /\ ~Confirmed(v, n, t, q.id)'
  <2>1. v \in Nodes /\ term[v] > t /\ term'[v] >= term[v]
    BY <1>1, <1>2 DEF Grows
  <2>2. PICK u \in Nat, u2 \in Nat : u = term[v] /\ u2 = term'[v]
    BY <2>1 DEF Shape, ShapedElections
  <2>3. u2 > t
    BY <2>1, <2>2
  <2>4. ASSUME NEW m \in network', m.type = "ReadAck", m.from = v, m.to = n, m.term = t,
               m.readId = q.id
        PROVE  FALSE
    <3>1. CASE m \in network
      BY <1>1, <1>2, <2>4, <3>1 DEF Confirmed
    <3>2. CASE m \notin network
      <4>1. t >= u2
        BY <2>2, <2>4, <3>2 DEF FreshReads
      <4> QED  BY <2>3, <4>1
    <3> QED  BY <3>1, <3>2
  <2>5. ~Confirmed(v, n, t, q.id)'
    BY <2>4 DEF Confirmed
  <2> QED  BY <2>2, <2>3, <2>5
<1>4. \A v \in Q : v \notin q.acks
  BY <1>1
<1>5. \A v \in Q : /\ term'[v] > term'[n]
                   /\ v \notin q.acks
                   /\ ~Confirmed(v, n, term[n], q.id)'
  BY <1>2, <1>3, <1>4
<1> QED  BY <1>1, <1>5 DEF Outvoted

LEMMA LeadingCommits ==
    ASSUME Shape, Records, Reigns, NEW n \in Nodes, role[n] = "leader",
           role'[n] = "leader", term'[n] = term[n]
    PROVE  commitIndex'[n] >= commitIndex[n]
<1>1. Led(term'[n])
  BY DEF Records, Led
<1> QED  BY <1>1 DEF Reigns, Begins, Continues

LEMMA KeptSafe ==
    ASSUME Shape, Shape', Records, Reigns, ReadsGuarded, Grows, FreshReads,
           NEW n \in Nodes, ReadsKept(n)
    PROVE  /\ ReadsSafe(n)
           /\ nextReadId'[n] = nextReadId[n] => ReadFresh(n)
<1>1. role[n] # "leader" => pendingReads[n] = {}
  BY DEF ReadsGuarded
<1>2. ASSUME NEW r \in pendingReads'[n]
      PROVE  r.floor <= commitIndex'[n] \/ Outvoted(n, r)'
  <2>1. /\ pendingReads'[n] = pendingReads[n]
        /\ role[n] = "leader"
        /\ role'[n] = "leader"
        /\ term'[n] = term[n]
    BY <1>1, <1>2 DEF ReadsKept
  <2>2. r.floor <= commitIndex[n] \/ Outvoted(n, r)
    BY <1>2, <2>1 DEF ReadsGuarded
  <2>3. PICK f \in Nat, c \in Nat, c2 \in Nat :
          f = r.floor /\ c = commitIndex[n] /\ c2 = commitIndex'[n]
    BY <1>2 DEF Shape, ShapedReads, ShapedLogs, ReadRecords
  <2>4. c2 >= c
    BY <2>1, <2>3, LeadingCommits
  <2>5. f <= c => f <= c2
    BY <2>4
  <2> QED  BY <2>1, <2>2, <2>3, <2>5, OutvotedStays
<1>3. ASSUME NEW r \in pendingReads[n], role'[n] = "leader",
             \A q \in pendingReads'[n] : q.id # r.id
      PROVE  FALSE
  BY <1>3 DEF ReadsKept
<1>4. ReadsSafe(n)
  BY <1>1, <1>2 DEF ReadsSafe, ReadsKept
<1> QED  BY <1>3, <1>4 DEF ReadFresh

LEMMA ElsewhereReads ==
    ASSUME NEW n \in Nodes, NEW k \in Nodes, Elsewhere(n), k # n
    PROVE  ReadsKept(k) /\ nextReadId'[k] = nextReadId[k]
BY DEF Elsewhere, ReadsKept

LEMMA MessagesSafe ==
    ASSUME Shape, Shape', ReadsGuarded, FreshReads,
           \A k \in Nodes : nextReadId'[k] >= nextReadId[k], NEW m \in network'
    PROVE  /\ m.type = "ReadHeartbeat" => m.readId \in 0 .. nextReadId'[m.from] - 1
           /\ m.type = "ReadAck" => m.readId \in 0 .. nextReadId'[m.to] - 1
<1>1. CASE m \notin network
  BY <1>1 DEF FreshReads
<1>2. CASE m \in network
  <2>1. m.from \in Nodes /\ m.to \in Nodes
    BY <1>2 DEF Shape, ShapedNetwork, ShapedMessage
  <2>2. ASSUME NEW k \in Nodes, NEW i \in 0 .. nextReadId[k] - 1
        PROVE  i \in 0 .. nextReadId'[k] - 1
    <3>1. PICK a \in Nat, b \in Nat : a = nextReadId[k] /\ b = nextReadId'[k]
      BY DEF Shape, ShapedReads
    <3>2. b >= a
      BY <3>1
    <3>3. i \in 0 .. b - 1
      BY <2>2, <3>1, <3>2
    <3> QED  BY <3>1, <3>3
  <2>3. /\ m.type = "ReadHeartbeat" => m.readId \in 0 .. nextReadId[m.from] - 1
        /\ m.type = "ReadAck" => m.readId \in 0 .. nextReadId[m.to] - 1
    BY <1>2 DEF ReadsGuarded
  <2> QED  BY <2>1, <2>2, <2>3
<1> QED  BY <1>1, <1>2

\* What is left to show of a step of n: what becomes of its own reads.
LEMMA StepGuarded ==
    ASSUME Shape, Shape', Records, Reigns, ReadsGuarded, Grows, FreshReads,
           NEW n \in Nodes, Elsewhere(n), nextReadId'[n] >= nextReadId[n],
           ReadsSafe(n), ReadFresh(n)
    PROVE  ReadsGuarded' /\ \A k \in Nodes : ReadFresh(k)
<1>1. ASSUME NEW k \in Nodes
      PROVE  ReadsSafe(k) /\ ReadFresh(k) /\ nextReadId'[k] >= nextReadId[k]
  <2>1. CASE k = n
    BY <2>1
  <2>2. CASE k # n
    <3>1. ReadsKept(k) /\ nextReadId'[k] = nextReadId[k]
      BY <2>2, ElsewhereReads
    <3>2. nextReadId'[k] >= nextReadId[k]
      BY <3>1 DEF Shape, ShapedReads
    <3> QED  BY <3>1, <3>2, KeptSafe
  <2> QED  BY <2>1, <2>2
<1>2. \A m \in network' :
        /\ m.type = "ReadHeartbeat" => m.readId \in 0 .. nextReadId'[m.from] - 1
        /\ m.type = "ReadAck" => m.readId \in 0 .. nextReadId'[m.to] - 1
  BY <1>1, MessagesSafe
<1>3. \A k \in Nodes :
        /\ role'[k] # "leader" => pendingReads'[k] = {}
        /\ \A r \in pendingReads'[k] : r.floor <= commitIndex'[k] \/ Outvoted(k, r)'
  BY <1>1 DEF ReadsSafe
<1> QED  BY <1>1, <1>2, <1>3 DEF ReadsGuarded

LEMMA QuietGuarded ==
    ASSUME Shape, Shape', Records, Reigns, ReadsGuarded, Grows,
           NEW n \in Nodes, Elsewhere(n), QuietReads(n)
    PROVE  ReadsGuarded' /\ \A k \in Nodes : ReadFresh(k)
<1>1. FreshReads
  BY DEF FreshReads, QuietReads, NoNewReads
<1>2. ReadsSafe(n) /\ ReadFresh(n)
  BY <1>1, KeptSafe DEF QuietReads
<1>3. nextReadId'[n] >= nextReadId[n]
  BY DEF QuietReads, Shape, ShapedReads
<1> QED  BY <1>1, <1>2, <1>3, StepGuarded

LEMMA ReadHeartbeatGuarded ==
    ASSUME Shape, Shape', Records, Reigns, ReadsGuarded, Grows,
           NEW n \in Nodes, Elsewhere(n), NEW m \in network, HandleReadHeartbeat(n, m)
    PROVE  ReadsGuarded' /\ \A k \in Nodes : ReadFresh(k)
<1>1. /\ m.type = "ReadHeartbeat"
      /\ BecomeFollower(n, m.term) \/ UNCHANGED <<role, term, pendingReads>>
      /\ Send({[type |-> "ReadAck", term |-> Larger(term[n], m.term), from |-> n,
                to |-> m.from, readId |-> m.readId]})
      /\ UNCHANGED nextReadId
  BY Zenon DEF HandleReadHeartbeat
<1>2. ReadsKept(n)
  <2>1. CASE UNCHANGED <<role, term, pendingReads>>
    BY <2>1 DEF ReadsKept
  <2> QED  BY <1>1, <2>1, FollowerReads
<1>3. PICK t \in Nat, u \in Nat, u2 \in Nat :
        t = term[n] /\ u = m.term /\ u2 = Larger(term[n], m.term)
  BY IndexTypes DEF Shape, ShapedNetwork, ShapedMessage, Larger
<1>4. u2 >= term'[n]
  <2>1. u2 >= t /\ u2 >= u
    BY <1>3 DEF Larger
  <2>2. term'[n] = t \/ term'[n] = u
    BY <1>1, <1>3 DEF BecomeFollower, Shape, ShapedElections
  <2> QED  BY <2>1, <2>2
<1>5. FreshReads
  <2> SUFFICES ASSUME NEW a \in network' \ network
               PROVE  /\ a.type = "ReadHeartbeat" => a.readId \in 0 .. nextReadId'[a.from] - 1
                      /\ a.type = "ReadAck" => /\ a.readId \in 0 .. nextReadId'[a.to] - 1
                                               /\ a.term >= term'[a.from]
    BY DEF FreshReads
  <2>1. a = [type |-> "ReadAck", term |-> u2, from |-> n, to |-> m.from, readId |-> m.readId]
    BY <1>1, <1>3 DEF Send
  <2>2. m.readId \in 0 .. nextReadId'[m.from] - 1
    BY <1>1 DEF ReadsGuarded
  <2> QED  BY <1>4, <2>1, <2>2
<1>6. ReadsSafe(n) /\ ReadFresh(n)
  BY <1>1, <1>2, <1>5, KeptSafe
<1>7. nextReadId'[n] >= nextReadId[n]
  BY <1>1 DEF Shape, ShapedReads
<1> QED  BY <1>5, <1>6, <1>7, StepGuarded

\* A majority of those that confirmed a read is no majority that left the term.
LEMMA OutvotedUnconfirmed ==
    ASSUME NEW n, NEW r, Outvoted(n, r), NEW A,
           \A v \in A : v \in r.acks \/ Confirmed(v, n, term[n], r.id)
    PROVE  ~Majority(A, InitialVoters)
<1>1. PICK Q \in SUBSET Nodes :
        /\ Majority(Q, InitialVoters)
        /\ \A v \in Q : v \notin r.acks /\ ~Confirmed(v, n, term[n], r.id)
  BY DEF Outvoted
<1> QED  BY <1>1, VotersFinite, MajoritiesMeet

\* A confirmation completes the read or is put on its record.
LEMMA ReadAckGuarded ==
    ASSUME Proposals = {}, Shape, Shape', Records, Reigns, ReadsGuarded, Grows,
           NEW n \in Nodes, Elsewhere(n), NEW m \in network, m.to = n,
           HandleReadAck(n, m), ~StepDown(n, m)
    PROVE  ReadsGuarded' /\ \A k \in Nodes : ReadFresh(k)
<1>1. /\ m.type = "ReadAck"
      /\ m.term = term[n]
      /\ role[n] = "leader"
      /\ \E r \in pendingReads[n] :
           /\ r.id = m.readId
           /\ TryServeRead(n, pendingReads[n] \ {r}, [r EXCEPT !.acks = @ \cup {m.from}])
      /\ UNCHANGED <<persistentVars, electionVars, nextReadId, commitIndex, network>>
  BY Zenon DEF HandleReadAck
<1>2. PICK r \in pendingReads[n] :
        /\ r.id = m.readId
        /\ TryServeRead(n, pendingReads[n] \ {r}, [r EXCEPT !.acks = @ \cup {m.from}])
  BY <1>1
<1>3. /\ r \in ReadRecords
      /\ \A q \in pendingReads[n] : q.floor \in Nat
      /\ commitIndex[n] \in Nat
  BY <1>2, IndexTypes DEF Shape, ShapedReads, ReadRecords
<1>4. PICK s : s = [r EXCEPT !.acks = @ \cup {m.from}]
  OBVIOUS
<1>5. s.id = r.id /\ s.floor = r.floor /\ s.acks = r.acks \cup {m.from}
  BY <1>3, <1>4 DEF ReadRecords
<1>6. /\ role'[n] = role[n] /\ term'[n] = term[n] /\ nextReadId' = nextReadId
      /\ commitIndex'[n] = commitIndex[n]
  BY <1>1 DEF persistentVars, electionVars
<1>7. FreshReads
  BY <1>1 DEF FreshReads
<1>8. Confirmed(m.from, n, term[n], r.id)
  BY <1>1, <1>2 DEF Confirmed
<1>9. \A v \in s.acks : v \in r.acks \/ Confirmed(v, n, term[n], r.id)
  BY <1>5, <1>8
<1>10. ASSUME NEW q \in pendingReads[n]
       PROVE  q.floor <= commitIndex'[n] \/ Outvoted(n, q)'
  BY <1>6, <1>7, <1>10, OutvotedStays DEF ReadsGuarded
<1>11. s.floor <= commitIndex'[n] \/ Outvoted(n, s)'
  BY <1>2, <1>5, <1>6, <1>7, <1>9, OutvotedStays DEF ReadsGuarded
<1>12. ASSUME Majority(s.acks, config[n].voters) PROVE commitIndex[n] >= r.floor
  <2>1. ~Outvoted(n, r)
    BY <1>9, <1>12, VotersFixed, OutvotedUnconfirmed
  <2>2. r.floor <= commitIndex[n]
    BY <1>2, <2>1 DEF ReadsGuarded
  <2> QED  BY <1>3, <2>2 DEF ReadRecords
<1>13. \/ /\ Majority(s.acks, config[n].voters)
          /\ pendingReads'[n] = pendingReads[n] \ {r}
       \/ pendingReads'[n] = (pendingReads[n] \ {r}) \cup {s}
  BY <1>2, <1>4 DEF TryServeRead, Servable, Shape, ShapedReads
<1>14. ReadsSafe(n)
  BY <1>1, <1>6, <1>10, <1>11, <1>13 DEF ReadsSafe
<1>15. ASSUME NEW q \in pendingReads[n], \A p \in pendingReads'[n] : p.id # q.id
       PROVE  commitIndex[n] >= q.floor
  <2>1. q = r
    BY <1>13, <1>15
  <2>2. s \notin pendingReads'[n]
    BY <1>5, <1>15, <2>1
  <2> QED  BY <1>12, <1>13, <2>1, <2>2
<1>16. ReadFresh(n)
  BY <1>6, <1>15 DEF ReadFresh
<1>17. nextReadId'[n] >= nextReadId[n]
  BY <1>6 DEF Shape, ShapedReads
<1> QED  BY <1>7, <1>14, <1>16, <1>17, StepGuarded

LEMMA HighestObserved ==
    ASSUME Shape
    PROVE  HighestCommitted = 0 \/ \E rec \in committed : rec.index = HighestCommitted
<1> DEFINE indices == {rec.index : rec \in committed}
           index == [rec \in committed |-> rec.index]
<1>1. IsFiniteSet(committed) /\ committed \subseteq CommitRecords
  BY DEF Shape, ShapedLogs
<1>2. indices = {index[rec] : rec \in committed}
  OBVIOUS
<1>3. IsFiniteSet({index[rec] : rec \in committed})
  <2> HIDE DEF index
  <2> QED  BY <1>1, FiniteImage
<1>4. IsFiniteSet({0} \cup indices)
  BY <1>2, <1>3, FS_Singleton, FS_Union
<1>5. {0} \cup indices \in SUBSET Nat /\ {0} \cup indices # {}
  BY <1>1 DEF CommitRecords
<1>6. Max({0} \cup indices) \in {0} \cup indices
  <2> HIDE DEF indices
  <2> QED  BY <1>4, <1>5, FiniteMax
<1> QED  BY <1>6 DEF HighestCommitted

\* What was committed in term t is of term t or earlier.
LEMMA RecordTerm ==
    ASSUME Shape, NEW lead, NEW full, Logs(lead, full), Commits(lead, full),
           NEW rec \in committed
    PROVE  rec.entry.term <= rec.term
<1>1. RecordSettled(lead, rec)
  BY DEF Commits
<1>2. PICK t \in Nat, i \in Nat : /\ t <= rec.term
                                  /\ rec.index \in 1 .. i
                                  /\ Chosen(lead, t, i)
                                  /\ rec.entry = lead[t][rec.index]
  BY <1>1 DEF RecordSettled
<1>3. lead[t] \in Seq(KnownEntries) /\ Traced(lead, lead[t], t)
  BY <1>2 DEF Logs
<1>4. i <= Len(lead[t])
  BY <1>2 DEF Chosen, Has
<1>5. rec.index \in 1 .. Len(lead[t])
  BY <1>2, <1>3, <1>4
<1>6. rec.entry.term <= t
  BY <1>2, <1>3, <1>5 DEF Traced
<1>7. PICK a \in Nat, b \in Nat : a = rec.entry.term /\ b = rec.term
  BY DEF Shape, ShapedLogs, CommitRecords, KnownEntries
<1>8. a <= t /\ t <= b
  BY <1>2, <1>6, <1>7
<1>9. a <= b
  BY <1>8
<1> QED  BY <1>7, <1>9

\* A leader that has committed in its own term has committed everything, or a
\* majority has moved on to a later term.
LEMMA LeaderUpToDate ==
    ASSUME Shape, Records, EveryCommitExplained, LeadersAhead,
           NEW n \in Nodes, MayRead(n)
    PROVE  \/ HighestCommitted <= commitIndex[n]
           \/ \E Q \in SUBSET Nodes : /\ Majority(Q, InitialVoters)
                                      /\ \A v \in Q : term[v] > term[n]
<1>1. PICK T \in Nat, c \in Nat, b \in Nat, z \in Nat :
        /\ T = term[n]
        /\ c = commitIndex[n]
        /\ b = Base(n)
        /\ z = Len(log[n])
        /\ LastIndex(n) = b + z
        /\ b <= c
  BY IndexTypes DEF LastIndex
<1>2. ASSUME NEW rec \in committed, rec.index > c
      PROVE  \E Q \in SUBSET Nodes : /\ Majority(Q, InitialVoters)
                                     /\ \A v \in Q : term[v] > term[n]
  <2>1. PICK u \in Nat, i \in Nat : u = rec.term /\ i = rec.index
    BY DEF Shape, ShapedLogs, CommitRecords
  <2>2. Led(u) /\ LeaderAt(u, i)
    BY <2>1 DEF LeadersAhead
  <2>3. u # T
    <3>1. SUFFICES ASSUME u = T PROVE FALSE
      OBVIOUS
    <3>2. i <= c
      BY <1>1, <2>2, <3>1 DEF LeaderAt, MayRead
    <3> QED  BY <1>2, <2>1, <3>2
  <2>4. PICK lead, full : Logs(lead, full) /\ Commits(lead, full)
    BY DEF EveryCommitExplained, Explains
  <2>5. ~(u < T)
    <3>1. SUFFICES ASSUME u < T PROVE FALSE
      OBVIOUS
    <3>2. Holds(n, rec)
      <4>1. rec.term <= term[n]
        BY <1>1, <2>1, <3>1
      <4> QED  BY <4>1, LeadersComplete DEF LeaderCompleteness, MayRead
    <3>3. i <= b + z /\ log[n][i - b] = rec.entry
      BY <1>1, <1>2, <2>1, <3>2 DEF Holds, EntryAt
    <3>4. i - b \in 1 .. z
      <4>1. PICK x \in Int : x = i - b
        BY <1>1, <1>2, <2>1
      <4>2. 1 <= x
        BY <1>1, <1>2, <2>1, <4>1
      <4>3. x <= z
        BY <1>1, <1>2, <2>1, <3>3, <4>1
      <4> QED  BY <4>1, <4>2, <4>3
    <3>5. log[n][i - b].term < T
      <4>1. PICK a \in Nat : a = rec.entry.term
        BY DEF Shape, ShapedLogs, CommitRecords, KnownEntries
      <4>2. a <= u
        BY <2>1, <2>4, <4>1, RecordTerm
      <4>3. a < T
        BY <3>1, <4>2
      <4> QED  BY <3>3, <4>1, <4>3
    <3>6. b + (i - b) <= c
      BY <1>1, <3>4, <3>5 DEF LeadersAhead, OwnTermFirst, MayRead
    <3> QED  BY <1>2, <2>1, <3>6
  <2>6. PICK Q \in SUBSET Nodes : Majority(Q, InitialVoters) /\ \A v \in Q : term[v] >= u
    BY <2>2, <2>4 DEF Commits, LeadersCover
  <2>7. \A v \in Q : term[v] > term[n]
    <3> SUFFICES ASSUME NEW v \in Q PROVE term[v] > T
      BY <1>1
    <3>1. PICK w \in Nat : w = term[v]
      BY DEF Shape, ShapedElections
    <3>2. w >= u
      BY <2>6, <3>1
    <3> QED  BY <2>3, <2>5, <3>1, <3>2
  <2> QED  BY <2>6, <2>7
<1>3. CASE HighestCommitted = 0
  BY <1>1, <1>3
<1>4. CASE \E rec \in committed : rec.index = HighestCommitted
  <2>1. PICK rec \in committed : rec.index = HighestCommitted
    BY <1>4
  <2>2. PICK h \in Nat : h = HighestCommitted
    BY FloorType
  <2>3. h > c \/ h <= c
    OBVIOUS
  <2> QED  BY <1>1, <1>2, <2>1, <2>2, <2>3
<1> QED  BY <1>3, <1>4, HighestObserved

\* A leader takes a read up only if what is committed by then is known to it, or
\* nobody will confirm that it leads.
LEMMA RequestReadGuarded ==
    ASSUME Proposals = {}, Shape, Shape', Records, Reigns, EveryCommitExplained,
           LeadersAhead, ReadsGuarded, Grows,
           NEW n \in Nodes, Elsewhere(n), NEW c \in Clients, RequestRead(n, c)
    PROVE  ReadsGuarded' /\ \A k \in Nodes : ReadFresh(k)
<1>1. PICK s : s = NewRead(n, c)
  OBVIOUS
<1>2. /\ MayRead(n)
      /\ nextReadId' = [nextReadId EXCEPT ![n] = @ + 1]
      /\ TryServeRead(n, pendingReads[n], s)
      /\ Send({[type |-> "ReadHeartbeat", term |-> term[n], from |-> n, to |-> p,
                readId |-> nextReadId[n]] : p \in config[n].voters \ {n}})
      /\ UNCHANGED <<persistentVars, electionVars, commitIndex>>
  BY <1>1, Zenon DEF RequestRead
<1>3. s.id = nextReadId[n] /\ s.floor = HighestCommitted /\ s.acks = {n}
  BY <1>1 DEF NewRead
<1>4. PICK a \in Nat, b \in Nat :
        a = nextReadId[n] /\ b = nextReadId'[n] /\ a \in 0 .. b - 1 /\ b >= a
  <2>1. PICK a \in Nat : a = nextReadId[n]
    BY DEF Shape, ShapedReads
  <2>2. nextReadId'[n] = a + 1
    BY <1>2, <2>1 DEF Shape, ShapedReads
  <2>3. a + 1 \in Nat /\ a \in 0 .. (a + 1) - 1 /\ a + 1 >= a
    OBVIOUS
  <2> QED  BY <2>1, <2>2, <2>3
<1>5. FreshReads
  <2> SUFFICES ASSUME NEW m \in network' \ network
               PROVE  /\ m.type = "ReadHeartbeat"
                      /\ m.readId \in 0 .. nextReadId'[m.from] - 1
    BY DEF FreshReads
  <2>1. m.type = "ReadHeartbeat" /\ m.from = n /\ m.readId = a
    BY <1>2, <1>4 DEF Send
  <2> QED  BY <1>4, <2>1
<1>6. /\ role'[n] = role[n] /\ role[n] = "leader" /\ term'[n] = term[n]
      /\ commitIndex'[n] = commitIndex[n]
  BY <1>2 DEF persistentVars, electionVars, MayRead
<1>7. commitIndex[n] \in Nat /\ HighestCommitted \in Nat
  BY IndexTypes, FloorType
<1>8. s.floor <= commitIndex[n] \/ Outvoted(n, s)
  <2>1. ASSUME NEW Q \in SUBSET Nodes, Majority(Q, InitialVoters),
               \A v \in Q : term[v] > term[n]
        PROVE  Outvoted(n, s)
    <3>1. n \notin Q
      <4>1. PICK t \in Nat : t = term[n]
        BY DEF Shape, ShapedElections
      <4>2. ~(t > t)
        OBVIOUS
      <4> QED  BY <2>1, <4>1, <4>2
    <3>2. ASSUME NEW v PROVE ~Confirmed(v, n, term[n], s.id)
      <4>1. ASSUME NEW m \in network, m.type = "ReadAck", m.to = n, m.readId = a PROVE FALSE
        <5>1. a \in 0 .. a - 1
          BY <1>4, <4>1 DEF ReadsGuarded
        <5> QED  BY <5>1
      <4> QED  BY <1>3, <1>4, <4>1 DEF Confirmed
    <3> QED  BY <1>3, <2>1, <3>1, <3>2 DEF Outvoted
  <2> QED  BY <1>2, <1>3, <2>1, LeaderUpToDate
<1>9. ASSUME NEW q \in pendingReads[n]
      PROVE  q.floor <= commitIndex'[n] \/ Outvoted(n, q)'
  BY <1>5, <1>6, <1>9, OutvotedStays DEF ReadsGuarded
<1>10. s.floor <= commitIndex'[n] \/ Outvoted(n, s)'
  BY <1>5, <1>6, <1>8, OutvotedStays
<1>11. \/ /\ Majority(s.acks, config[n].voters)
          /\ pendingReads'[n] = pendingReads[n]
       \/ /\ pendingReads'[n] = pendingReads[n] \cup {s}
          /\ UNCHANGED nextReq
  BY <1>2 DEF TryServeRead, Servable, Shape, ShapedReads
<1>12. ReadsSafe(n)
  BY <1>6, <1>9, <1>10, <1>11 DEF ReadsSafe
<1>13. ASSUME nextReq' # nextReq PROVE commitIndex[n] >= HighestCommitted
  <2>1. ~Outvoted(n, s)
    BY <1>11, <1>13, VotersFixed, OutvotedUnconfirmed
  <2>2. HighestCommitted <= commitIndex[n]
    BY <1>3, <1>8, <2>1
  <2> QED  BY <1>7, <2>2
<1>14. ReadFresh(n)
  BY <1>11, <1>13 DEF ReadFresh
<1>15. nextReadId'[n] >= nextReadId[n]
  BY <1>4
<1> QED  BY <1>5, <1>12, <1>14, <1>15, StepGuarded

LEMMA NextReads ==
    ASSUME Proposals = {}, Shape, Shape', Records, ElectionSafety', EveryCommitExplained,
           LeadersAhead, ReadsGuarded, Next
    PROVE  ReadsGuarded' /\ \A k \in Nodes : ReadFresh(k)
<1>1. Grows /\ Reigns
  BY NextGrows, NextActs, ReceiveReigns, SentReigns
<1>2. ASSUME NEW n \in Nodes, Receive(n)
      PROVE  ReadsGuarded' /\ \A k \in Nodes : ReadFresh(k)
  BY <1>1, <1>2, ReceiveReads, ReceiveElsewhere, QuietGuarded, ReadHeartbeatGuarded,
     ReadAckGuarded
<1>3. ASSUME NEW n \in Nodes, SentBy(n)
      PROVE  ReadsGuarded' /\ \A k \in Nodes : ReadFresh(k)
  BY <1>1, <1>3, SentReads, SentElsewhere, QuietGuarded, RequestReadGuarded
<1> QED  BY <1>2, <1>3, NextActs

\* Where the configuration is fixed, a read is answered from a state machine that
\* has applied all that was committed when the read was requested: a leader that
\* misses some of it was replaced by a majority that never confirms it
\* (request_read, _try_serve_read).
THEOREM ReadsNeverStale ==
    ASSUME Proposals = {}
    PROVE  Spec => ReadsFresh
<1>1. Init => ReadsGuarded
  BY DEF Init, ReadsGuarded
<1>2. /\ Shape /\ Shape' /\ Records /\ ElectionSafety' /\ EveryCommitExplained
      /\ LeadersAhead /\ ReadsGuarded /\ [Next]_vars
      => ReadsGuarded' /\ [\A n \in Nodes : ReadFresh(n)]_vars
  <2> SUFFICES ASSUME Shape, Shape', Records, ElectionSafety', EveryCommitExplained,
                      LeadersAhead, ReadsGuarded, [Next]_vars
               PROVE  ReadsGuarded' /\ [\A n \in Nodes : ReadFresh(n)]_vars
    OBVIOUS
  <2>1. CASE Next
    BY <2>1, NextReads
  <2>2. CASE UNCHANGED vars
    BY <2>2 DEF ReadsGuarded, Outvoted, Confirmed, vars, persistentVars, electionVars,
       readVars, commitVars
  <2> QED  BY <2>1, <2>2
<1> QED
  BY <1>1, <1>2, ShapeInvariant, OneLeaderPerTerm, LogsAreTraced, CommitsExplained,
     LeadersCommitFirst, PTL DEF Spec, ReadsFresh, ReadFresh

-----------------------------------------------------------------------------
(***************************************************************************)
(* Sessions: the order of a client's requests in the logs of leaders.      *)
(***************************************************************************)
LEMMA RequestTyped ==
    ASSUME NEW cmd \in KnownCommands, NEW c, OfClient(cmd, c)
    PROVE  /\ cmd.req \in Nat
           /\ cmd = Request(c, cmd.req)
           /\ c \in Clients
BY DEF OfClient, KnownCommands, ClientCommands, Request

LEMMA RequestOf ==
    ASSUME NEW c, NEW d, NEW r
    PROVE  OfClient(Request(c, r), d) <=> c = d
BY DEF OfClient, Request

\* A log whose entries are all from leaders is in order as theirs are.
LEMMA TracedInOrder ==
    ASSUME NEW lead, Leads(lead), LeadersInOrder(lead),
           NEW L \in Seq(KnownEntries), NEW t, Traced(lead, L, t)
    PROVE  InOrder(L) /\ Submitted(L)
<1>1. ASSUME NEW j \in 1 .. Len(L)
      PROVE  \E M \in Seq(KnownEntries) :
               /\ InOrder(M)
               /\ Submitted(M)
               /\ j \in 1 .. Len(M)
               /\ \A i \in 1 .. j : M[i] = L[i]
  <2>1. PICK u \in Nat : u = L[j].term
    BY LoggedTypes
  <2>2. SameUpTo(L, lead[u], j)
    BY <2>1 DEF Traced
  <2>3. lead[u] \in Seq(KnownEntries)
    BY <2>1 DEF Leads
  <2>4. j <= Len(lead[u]) /\ \A i \in 1 .. j : lead[u][i] = L[i]
    BY <2>2 DEF SameUpTo
  <2>5. j \in 1 .. Len(lead[u])
    BY <2>3, <2>4, LoggedTypes
  <2> QED  BY <2>1, <2>3, <2>4, <2>5 DEF LeadersInOrder
<1>2. ASSUME NEW c \in Clients, NEW j \in 1 .. Len(L), NEW i \in 1 .. j - 1,
             OfClient(L[i].cmd, c), OfClient(L[j].cmd, c)
      PROVE  L[i].cmd.req < L[j].cmd.req
  <2>1. PICK M \in Seq(KnownEntries) :
          /\ InOrder(M)
          /\ j \in 1 .. Len(M)
          /\ \A k \in 1 .. j : M[k] = L[k]
    BY <1>1
  <2>2. i \in 1 .. j /\ j \in 1 .. j
    BY LoggedTypes
  <2>3. M[i] = L[i] /\ M[j] = L[j]
    BY <2>1, <2>2
  <2>4. OfClient(M[i].cmd, c) /\ OfClient(M[j].cmd, c) => M[i].cmd.req < M[j].cmd.req
    BY <2>1 DEF InOrder
  <2> QED  BY <1>2, <2>3, <2>4
<1>3. ASSUME NEW c \in Clients, NEW j \in 1 .. Len(L), OfClient(L[j].cmd, c)
      PROVE  L[j].cmd.req <= nextReq[c]
  <2>1. PICK M \in Seq(KnownEntries) :
          /\ Submitted(M)
          /\ j \in 1 .. Len(M)
          /\ \A k \in 1 .. j : M[k] = L[k]
    BY <1>1
  <2>2. j \in 1 .. j
    BY LoggedTypes
  <2>3. M[j] = L[j]
    BY <2>1, <2>2
  <2> QED  BY <1>3, <2>1, <2>3 DEF Submitted
<1> QED  BY <1>2, <1>3 DEF InOrder, Submitted

\* A leader that takes a request up has none of that client's that is as new: what
\* it stores it knows of, and what it has compacted is committed.
LEMMA RequestIsNew ==
    ASSUME Shape, CommitsNumbered, StateMachineSafety, SessionsKept,
           NEW lead, NEW full, Logs(lead, full), Commits(lead, full),
           NEW n \in Nodes, NEW c \in Clients, ClientCommand(n, c),
           NEW i \in 1 .. Len(full[n]), OfClient(full[n][i].cmd, c)
    PROVE  full[n][i].cmd.req < nextReq[c]
<1>1. PICK L \in Seq(KnownEntries) : L = full[n] /\ Fits(L, log[n], snapshot[n])
  BY DEF Logs
<1>2. PICK b \in Nat, z \in Nat, o \in Nat :
        b = Base(n) /\ z = Len(log[n]) /\ o = commitIndex[n] /\ b <= o /\ Len(L) = b + z
  BY <1>1, IndexTypes DEF Fits, Base
<1>3. PICK r \in Nat, x \in Nat, q \in Nat :
        r = L[i].cmd.req /\ x = clientIndex[n][c] /\ q = nextReq[c]
  <2>1. L[i].cmd \in KnownCommands
    BY <1>1, LoggedTypes DEF KnownEntries
  <2> QED  BY <1>1, <2>1, RequestTyped DEF Shape, ShapedLeaders, ShapedReads
<1>4. CASE i > b
  <2>1. i \in b + 1 .. Len(L)
    BY <1>1, <1>2, <1>4
  <2>2. L[i] = log[n][i - b]
    BY <1>1, <1>2, <2>1 DEF Fits, Base
  <2>3. i - b \in 1 .. z
    BY <1>2, <2>1
  <2>4. role[n] = "leader" /\ q > x
    BY <1>3 DEF ClientCommand
  <2>5. r <= x
    BY <1>1, <1>2, <1>3, <2>2, <2>3, <2>4 DEF SessionsKept, KnowsClients
  <2>6. r < q
    BY <2>4, <2>5
  <2> QED  BY <1>1, <1>3, <2>6
<1>5. CASE i <= b
  <2>1. PICK k \in Nat : Numbered(k)
    BY DEF CommitsNumbered
  <2>2. o <= k
    BY <1>2, <2>1 DEF Numbered
  <2>3. i \in 1 .. o /\ i \in 1 .. k
    BY <1>2, <1>5, <2>2
  <2>4. PICK rec \in committed : rec.index = i
    BY <2>1, <2>3 DEF Numbered
  <2>5. applied[n][i] = rec.entry.cmd
    BY <1>2, <2>3, <2>4 DEF StateMachineSafety
  <2>6. applied[n][i] = L[i].cmd
    BY <1>1, <1>2, <2>3 DEF Commits, ServerSettled, IsImage
  <2> QED  BY <1>1, <2>4, <2>5, <2>6 DEF SessionsKept, CommitsAnswered
<1> QED  BY <1>2, <1>4, <1>5

LEMMA AppendedInOrder ==
    ASSUME NEW F \in Seq(KnownEntries), InOrder(F), Submitted(F),
           nextReq \in [Clients -> Nat],
           NEW c \in Clients, NEW e \in KnownEntries, e.cmd = Request(c, nextReq[c]),
           \A i \in 1 .. Len(F) : OfClient(F[i].cmd, c) => F[i].cmd.req < nextReq[c]
    PROVE  InOrder(Append(F, e)) /\ Submitted(Append(F, e))
<1>1. PICK L : L = Append(F, e)
  OBVIOUS
<1>2. PICK z \in Nat : /\ z = Len(F)
                       /\ Len(L) = z + 1
                       /\ L[z + 1] = e
                       /\ \A i \in 1 .. z : L[i] = F[i]
  <2>1. Len(F) \in Nat /\ Len(L) = Len(F) + 1 /\ L[Len(F) + 1] = e
    BY <1>1, AppendOne
  <2>2. \A i \in 1 .. Len(F) : L[i] = F[i]
    BY <1>1
  <2> QED  BY <2>1, <2>2
<1>3. e.cmd.req = nextReq[c] /\ \A d : OfClient(e.cmd, d) => d = c
  BY DEF Request, OfClient
<1>4. ASSUME NEW d \in Clients, NEW j \in 1 .. Len(L), NEW i \in 1 .. j - 1,
             OfClient(L[i].cmd, d), OfClient(L[j].cmd, d)
      PROVE  L[i].cmd.req < L[j].cmd.req
  <2>1. i \in 1 .. z /\ (j \in 1 .. z \/ j = z + 1)
    BY <1>2
  <2>2. L[i] = F[i]
    BY <1>2, <2>1
  <2>3. CASE j \in 1 .. z
    <3>1. L[j] = F[j]
      BY <1>2, <2>3
    <3> QED  BY <1>2, <1>4, <2>2, <2>3, <3>1 DEF InOrder
  <2>4. CASE j = z + 1
    <3>1. L[j] = e
      BY <1>2, <2>4
    <3>2. d = c
      BY <1>3, <1>4, <3>1
    <3> QED  BY <1>2, <1>3, <1>4, <2>1, <2>2, <3>1, <3>2
  <2> QED  BY <2>1, <2>3, <2>4
<1>5. ASSUME NEW d \in Clients, NEW j \in 1 .. Len(L), OfClient(L[j].cmd, d)
      PROVE  L[j].cmd.req <= nextReq[d]
  <2>1. j \in 1 .. z \/ j = z + 1
    BY <1>2
  <2>2. CASE j \in 1 .. z
    <3>1. L[j] = F[j]
      BY <1>2, <2>2
    <3> QED  BY <1>2, <1>5, <2>2, <3>1 DEF Submitted
  <2>3. CASE j = z + 1
    <3>1. L[j] = e
      BY <1>2, <2>3
    <3>2. d = c
      BY <1>3, <1>5, <3>1
    <3>3. nextReq[c] \in Nat
      OBVIOUS
    <3>4. nextReq[c] <= nextReq[c]
      BY <3>3
    <3> QED  BY <1>3, <3>1, <3>2, <3>4
  <2> QED  BY <2>1, <2>2, <2>3
<1>6. InOrder(L)
  BY <1>4 DEF InOrder
<1>7. Submitted(L)
  BY <1>5 DEF Submitted
<1> QED  BY <1>1, <1>6, <1>7

\* Whatever a leader starts from or appends, its log stays in order.
LEMMA InheritsInOrder ==
    ASSUME Shape, CommitsNumbered, StateMachineSafety, SessionsKept,
           NEW lead, NEW full, Logs(lead, full), Commits(lead, full), LeadersInOrder(lead),
           NEW lead2, Inherits(lead, full, lead2), NEW t \in Nat
    PROVE  InOrder(lead2[t]) /\ Submitted(lead2[t])
<1>1. Leads(lead)
  BY DEF Logs, Leads
<1>2. CASE lead2[t] = lead[t]
  BY <1>2 DEF LeadersInOrder
<1>3. ASSUME NEW n \in Nodes
      PROVE  full[n] \in Seq(KnownEntries) /\ InOrder(full[n]) /\ Submitted(full[n])
  <2>1. full[n] \in Seq(KnownEntries) /\ Traced(lead, full[n], term[n])
    BY DEF Logs
  <2> QED  BY <1>1, <2>1, TracedInOrder
<1>4. ASSUME NEW n \in Nodes, NEW c \in Clients, ClientCommand(n, c),
             lead2[t] = Append(full[n], [term |-> t, cmd |-> Request(c, nextReq[c])])
      PROVE  InOrder(lead2[t]) /\ Submitted(lead2[t])
  <2>1. nextReq \in [Clients -> Nat]
    BY DEF Shape, ShapedReads
  <2>2. PICK e : e = [term |-> t, cmd |-> Request(c, nextReq[c])]
    OBVIOUS
  <2>3. e \in KnownEntries /\ e.cmd = Request(c, nextReq[c])
    BY <2>1, <2>2 DEF KnownEntries, KnownCommands, ClientCommands, Request
  <2>4. \A i \in 1 .. Len(full[n]) :
          OfClient(full[n][i].cmd, c) => full[n][i].cmd.req < nextReq[c]
    BY <1>4, RequestIsNew
  <2> QED  BY <1>3, <1>4, <2>1, <2>2, <2>3, <2>4, AppendedInOrder
<1> QED  BY <1>2, <1>3, <1>4 DEF Inherits

-----------------------------------------------------------------------------
(***************************************************************************)
(* Sessions: what a leader knows of the requests it stores.                *)
(***************************************************************************)
\* If n leads, it did so before, and has no entry it did not have.
LeadsOn(n) ==
    role'[n] = "leader" =>
      /\ role[n] = "leader"
      /\ clientIndex'[n] = clientIndex[n]
      /\ \A i \in 1 .. Len(log'[n]) : \E j \in 1 .. Len(log[n]) : log'[n][i] = log[n][j]

LEMMA LeadsOnKnows ==
    ASSUME NEW n \in Nodes, KnowsClients(n), LeadsOn(n)
    PROVE  KnowsClients(n)'
<1> SUFFICES ASSUME role'[n] = "leader", NEW c \in Clients, NEW i \in 1 .. Len(log'[n]),
                    OfClient(log'[n][i].cmd, c)
             PROVE  log'[n][i].cmd.req <= clientIndex'[n][c]
  BY DEF KnowsClients
<1>1. /\ role[n] = "leader"
      /\ clientIndex'[n] = clientIndex[n]
      /\ \E j \in 1 .. Len(log[n]) : log'[n][i] = log[n][j]
  BY DEF LeadsOn
<1>2. PICK j \in 1 .. Len(log[n]) : log'[n][i] = log[n][j]
  BY <1>1
<1>3. OfClient(log[n][j].cmd, c) => log[n][j].cmd.req <= clientIndex[n][c]
  BY <1>1 DEF KnowsClients
<1> QED  BY <1>1, <1>2, <1>3

LEMMA SameLeadsOn ==
    ASSUME NEW n \in Nodes, UNCHANGED <<log, clientIndex>>,
           UNCHANGED role \/ role'[n] # "leader"
    PROVE  LeadsOn(n)
BY DEF LeadsOn

LEMMA FollowerLeadsOn ==
    ASSUME Shape, NEW n \in Nodes, NEW t, BecomeFollower(n, t) \/ FollowLeader(n, t)
    PROVE  role'[n] # "leader"
<1>1. role' = [role EXCEPT ![n] = "follower"] \/ (role[n] = "follower" /\ UNCHANGED role)
  BY Zenon DEF FollowLeader, BecomeFollower
<1> QED  BY <1>1 DEF Shape, ShapedElections

LEMMA StepDownLeadsOn ==
    ASSUME Shape, NEW n \in Nodes, NEW m, StepDown(n, m)
    PROVE  LeadsOn(n)
<1>1. BecomeFollower(n, m.term) /\ UNCHANGED <<log, clientIndex>>
  BY DEF StepDown, leaderVars
<1> QED  BY <1>1, FollowerLeadsOn, SameLeadsOn

\* A new leader scans the log it was elected with.
LEMMA BecomeLeaderKnows ==
    ASSUME Shape, NEW n \in Nodes, NEW t, NEW sent, BecomeLeader(n, t, sent), UNCHANGED log
    PROVE  KnowsClients(n)'
<1>1. log[n] \in Seq(KnownEntries)
  BY IndexTypes
<1>2. clientIndex'[n] = ClientIndexOf(log[n])
  BY DEF BecomeLeader, Shape, ShapedLeaders
<1> QED  BY <1>1, <1>2, ClientIndexMax DEF KnowsClients

\* A commit takes nothing up into the log.
LEMMA SetCommitKeeps ==
    ASSUME Shape, NEW n \in Nodes, NEW ci \in Nat, NEW t,
           SetCommitIndex(n, log[n], ci, t)
    PROVE  \A i \in 1 .. Len(log'[n]) : \E j \in 1 .. Len(log[n]) : log'[n][i] = log[n][j]
<1>1. PICK lg \in Seq(KnownEntries), b \in Nat, z \in Nat, o \in Nat :
        lg = log[n] /\ b = Base(n) /\ z = Len(lg) /\ o = commitIndex[n] /\ b <= o
  BY IndexTypes
<1>2. \/ log' = [log EXCEPT ![n] = log[n]]
      \/ /\ ci > o
         /\ log' = [log EXCEPT ![n] = SubSeq(lg, ci - b + 1, z)]
  BY <1>1, Zenon DEF SetCommitIndex
<1>3. CASE log' = [log EXCEPT ![n] = log[n]]
  <2>1. log'[n] = log[n]
    BY <1>3 DEF Shape, ShapedLogs
  <2> QED  BY <2>1
<1>4. CASE ci > o /\ log' = [log EXCEPT ![n] = SubSeq(lg, ci - b + 1, z)]
  <2>1. PICK a \in Nat \ {0} : a = ci - b + 1
    BY <1>1, <1>4
  <2>2. log'[n] = SubSeq(lg, a, z)
    BY <1>4, <2>1 DEF Shape, ShapedLogs
  <2>3. Len(log'[n]) = IF a <= z THEN z - a + 1 ELSE 0
    BY <1>1, <2>2, Stretch
  <2> SUFFICES ASSUME NEW i \in 1 .. Len(log'[n])
               PROVE  \E j \in 1 .. z : log'[n][i] = lg[j]
    BY <1>1
  <2>4. i \in 1 .. z - a + 1 /\ a + i - 1 \in 1 .. z
    BY <2>3
  <2>5. log'[n][i] = lg[a + i - 1]
    <3>1. lg \in Seq(KnownEntries) /\ a \in Nat \ {0} /\ z \in Int /\ z <= Len(lg)
      BY <1>1, <2>1
    <3>2. SubSeq(lg, a, z)[i] = lg[a + i - 1]
      BY <2>4, <3>1, StretchElement
    <3> QED  BY <2>2, <3>2
  <2> QED  BY <2>4, <2>5
<1> QED  BY <1>2, <1>3, <1>4

LEMMA AppendReplyLeadsOn ==
    ASSUME Shape, NEW n \in Nodes, NEW m \in network, HandleAppendReply(n, m)
    PROVE  LeadsOn(n)
<1>1. SUFFICES ASSUME ~StepDown(n, m) PROVE LeadsOn(n)
  BY StepDownLeadsOn
<1>2. UNCHANGED <<role, clientIndex>>
  BY <1>1, Zenon DEF HandleAppendReply, electionVars
<1>3. UNCHANGED log \/ \E ci \in Nat : SetCommitIndex(n, log[n], ci, term[n])
  BY <1>1, AppendReplyCases, NewestCommittable DEF Acknowledges, Rejects
<1>4. CASE UNCHANGED log
  BY <1>2, <1>4, SameLeadsOn
<1>5. ASSUME NEW ci \in Nat, SetCommitIndex(n, log[n], ci, term[n])
      PROVE  LeadsOn(n)
  BY <1>2, <1>5, SetCommitKeeps DEF LeadsOn
<1> QED  BY <1>3, <1>4, <1>5

LEMMA FollowsLeadsOn ==
    ASSUME Shape, NEW n \in Nodes, NEW m \in network,
           HandleAppendEntries(n, m) \/ HandleInstallSnapshot(n, m)
    PROVE  LeadsOn(n)
<1>1. /\ \/ UNCHANGED <<role, log>>
         \/ FollowLeader(n, m.term)
      /\ UNCHANGED clientIndex
  <2>1. CASE HandleAppendEntries(n, m)
    BY <2>1, Zenon DEF HandleAppendEntries, persistentVars, leaderVars
  <2>2. CASE HandleInstallSnapshot(n, m)
    BY <2>2, Zenon DEF HandleInstallSnapshot, persistentVars, leaderVars
  <2> QED  BY <2>1, <2>2
<1>2. CASE UNCHANGED <<role, log>>
  BY <1>1, <1>2, SameLeadsOn
<1>3. CASE FollowLeader(n, m.term)
  BY <1>3, FollowerLeadsOn DEF LeadsOn
<1> QED  BY <1>1, <1>2, <1>3

LEMMA ReceiveKnows ==
    ASSUME Shape, NEW n \in Nodes, Receive(n), KnowsClients(n)
    PROVE  KnowsClients(n)'
<1>1. PICK m \in network :
        \/ HandleRequestVote(n, m)
        \/ HandleVoteReply(n, m)
        \/ HandleAppendEntries(n, m)
        \/ HandleAppendReply(n, m)
        \/ HandleInstallSnapshot(n, m)
        \/ HandleReadHeartbeat(n, m)
        \/ HandleReadAck(n, m)
  BY DEF Receive
<1>2. CASE HandleRequestVote(n, m)
  <2>1. /\ UNCHANGED <<log, clientIndex>>
        /\ UNCHANGED role \/ role' = [role EXCEPT ![n] = "follower"]
    BY <1>2, Zenon DEF HandleRequestVote, leaderVars
  <2>2. UNCHANGED role \/ role'[n] # "leader"
    BY <2>1 DEF Shape, ShapedElections
  <2> QED  BY <2>1, <2>2, SameLeadsOn, LeadsOnKnows
<1>3. CASE HandleVoteReply(n, m)
  <2>1. SUFFICES ASSUME ~StepDown(n, m) PROVE KnowsClients(n)'
    BY StepDownLeadsOn, LeadsOnKnows
  <2>2. /\ UNCHANGED log
        /\ BecomeLeader(n, term[n], {}) \/ UNCHANGED <<role, clientIndex>>
    BY <1>3, <2>1, Zenon DEF HandleVoteReply, persistentVars, leaderVars
  <2> QED  BY <2>2, BecomeLeaderKnows, SameLeadsOn, LeadsOnKnows
<1>4. CASE HandleReadHeartbeat(n, m)
  <2>1. /\ UNCHANGED <<log, clientIndex>>
        /\ UNCHANGED role \/ BecomeFollower(n, m.term)
    BY <1>4, Zenon DEF HandleReadHeartbeat, leaderVars
  <2> QED  BY <2>1, FollowerLeadsOn, SameLeadsOn, LeadsOnKnows
<1>5. CASE HandleReadAck(n, m)
  <2>1. SUFFICES ASSUME ~StepDown(n, m) PROVE KnowsClients(n)'
    BY StepDownLeadsOn, LeadsOnKnows
  <2>2. UNCHANGED <<log, clientIndex, role>>
    BY <1>5, <2>1, Zenon DEF HandleReadAck, persistentVars, leaderVars, electionVars
  <2> QED  BY <2>2, SameLeadsOn, LeadsOnKnows
<1> QED  BY <1>1, <1>2, <1>3, <1>4, <1>5, AppendReplyLeadsOn, FollowsLeadsOn, LeadsOnKnows

LEMMA CommandKnows ==
    ASSUME Shape, NEW n \in Nodes, NEW c \in Clients, ClientCommand(n, c), KnowsClients(n)
    PROVE  KnowsClients(n)'
<1>1. PICK lg \in Seq(KnownEntries), z \in Nat : lg = log[n] /\ z = Len(lg)
  BY IndexTypes
<1>2. PICK e : e = [term |-> term[n], cmd |-> Request(c, nextReq[c])]
  OBVIOUS
<1>3. /\ log'[n] = Append(lg, e)
      /\ clientIndex' = [clientIndex EXCEPT ![n][c] = nextReq[c]]
      /\ role[n] = "leader"
      /\ nextReq[c] > clientIndex[n][c]
  BY <1>1, <1>2 DEF ClientCommand, AppendAsLeader, Shape, ShapedLogs
<1>4. Len(log'[n]) = z + 1 /\ log'[n][z + 1] = e /\ \A i \in 1 .. z : log'[n][i] = lg[i]
  <2>1. e \in KnownEntries
    <3>1. nextReq[c] \in Nat /\ term[n] \in Nat
      BY IndexTypes DEF Shape, ShapedReads
    <3> QED  BY <1>2, <3>1 DEF Request, KnownEntries, KnownCommands, ClientCommands
  <2> QED  BY <1>1, <1>3, <2>1, AppendProperties
<1>5. clientIndex \in [Nodes -> [Clients -> Nat]]
  BY DEF Shape, ShapedLeaders
<1>6. /\ clientIndex'[n][c] = nextReq[c]
      /\ \A d \in Clients \ {c} : clientIndex'[n][d] = clientIndex[n][d]
  BY <1>3, <1>5
<1> SUFFICES ASSUME NEW d \in Clients, NEW i \in 1 .. Len(log'[n]),
                    OfClient(log'[n][i].cmd, d)
             PROVE  log'[n][i].cmd.req <= clientIndex'[n][d]
  BY DEF KnowsClients
<1>7. CASE i = z + 1
  <2>1. d = c /\ log'[n][i].cmd.req = nextReq[c]
    BY <1>2, <1>4, <1>7 DEF OfClient, Request
  <2>2. nextReq[c] \in Nat
    BY DEF Shape, ShapedReads
  <2>3. nextReq[c] <= nextReq[c]
    BY <2>2
  <2> QED  BY <1>6, <2>1, <2>3
<1>8. CASE i \in 1 .. z
  <2>1. log'[n][i] = lg[i]
    BY <1>4, <1>8
  <2>2. PICK r \in Nat, x \in Nat, q \in Nat :
          r = lg[i].cmd.req /\ x = clientIndex[n][d] /\ q = nextReq[c]
    <3>1. lg[i].cmd \in KnownCommands
      BY <1>1, <1>8, LoggedTypes DEF KnownEntries
    <3> QED  BY <1>5, <2>1, <3>1, RequestTyped DEF Shape, ShapedReads
  <2>3. r <= x
    BY <1>1, <1>3, <1>8, <2>1, <2>2 DEF KnowsClients
  <2>4. CASE d = c
    <3>1. q > x
      BY <1>3, <2>2, <2>4
    <3>2. r <= q
      BY <2>3, <3>1
    <3> QED  BY <1>6, <2>1, <2>2, <2>4, <3>2
  <2>5. CASE d # c
    BY <1>6, <2>1, <2>2, <2>3, <2>5
  <2> QED  BY <2>4, <2>5
<1> QED  BY <1>4, <1>7, <1>8

LEMMA SentKnows ==
    ASSUME Proposals = {}, Shape, NEW n \in Nodes, SentBy(n), KnowsClients(n)
    PROVE  KnowsClients(n)'
<1>1. CASE StartElection(n)
  <2>1. /\ UNCHANGED log
        /\ \/ \E t, sent : BecomeLeader(n, t, sent)
           \/ /\ role' = [role EXCEPT ![n] = "candidate"]
              /\ UNCHANGED clientIndex
    BY <1>1, Zenon DEF StartElection, leaderVars
  <2>2. CASE role' = [role EXCEPT ![n] = "candidate"]
    <3>1. role'[n] # "leader"
      BY <2>2 DEF Shape, ShapedElections
    <3> QED  BY <3>1 DEF KnowsClients
  <2> QED  BY <2>1, <2>2, BecomeLeaderKnows
<1>2. CASE Heartbeat(n) \/ Resume(n) \/ \E c \in Clients : RequestRead(n, c)
  <2>1. UNCHANGED <<log, clientIndex, role>>
    BY <1>2, Zenon DEF Heartbeat, Resume, RequestRead, persistentVars, leaderVars, electionVars
  <2> QED  BY <2>1, SameLeadsOn, LeadsOnKnows
<1>3. CASE Crash(n)
  <2>1. role'[n] # "leader"
    BY <1>3 DEF Crash, Shape, ShapedElections
  <2> QED  BY <2>1 DEF KnowsClients
<1> QED  BY <1>1, <1>2, <1>3, CommandKnows DEF SentBy

LEMMA NextKnows ==
    ASSUME Proposals = {}, Shape, Next, \A n \in Nodes : KnowsClients(n)
    PROVE  \A n \in Nodes : KnowsClients(n)'
<1>1. PICK n \in Nodes : Elsewhere(n) /\ KnowsClients(n)'
  <2>1. PICK n \in Nodes : Receive(n) \/ SentBy(n)
    BY NextActs
  <2> QED  BY <2>1, ReceiveElsewhere, SentElsewhere, ReceiveKnows, SentKnows
<1> SUFFICES ASSUME NEW k \in Nodes, k # n PROVE KnowsClients(k)'
  BY <1>1
<1>2. role'[k] = role[k] /\ log'[k] = log[k] /\ clientIndex'[k] = clientIndex[k]
  BY <1>1 DEF Elsewhere
<1> QED  BY <1>2 DEF KnowsClients

-----------------------------------------------------------------------------
(***************************************************************************)
(* Sessions: when clients move on.                                         *)
(***************************************************************************)
\* Clients move on from cmds: what was committed and not seen before is among
\* them, and each of them is committed or a read.
Moves(cmds) ==
    /\ ClientsMoveOn(cmds)
    /\ committed \subseteq committed'
    /\ \A rec \in committed' \ committed : rec.entry.cmd \in cmds
    /\ \A cmd \in cmds : \/ \E rec \in committed' : rec.entry.cmd = cmd
                         \/ \E c, r : cmd = Request(c, r) /\ <<c, r>> \in Reads

LEMMA SetCommitMoves ==
    ASSUME Shape, Shape', StateMachineSafety',
           NEW n \in Nodes, NEW lg, NEW ci, NEW t, SetCommitIndex(n, lg, ci, t)
    PROVE  UNCHANGED <<committed, nextReq>> \/ \E cmds : Moves(cmds)
<1> DEFINE ahead == [i \in 1 .. ci - commitIndex[n] |->
                       lg[commitIndex[n] - Base(n) + i].cmd]
<1>1. \/ UNCHANGED <<committed, nextReq>>
      \/ /\ ci > commitIndex[n]
         /\ commitIndex' = [commitIndex EXCEPT ![n] = ci]
         /\ applied' = [applied EXCEPT ![n] = applied[n] \o ahead]
         /\ Observe(n, lg, ci, t)
         /\ ClientsMoveOn(Range(ahead))
  BY Zenon DEF SetCommitIndex, commitVars
<1> SUFFICES ASSUME ci > commitIndex[n],
                    commitIndex' = [commitIndex EXCEPT ![n] = ci],
                    applied' = [applied EXCEPT ![n] = applied[n] \o ahead],
                    Observe(n, lg, ci, t),
                    ClientsMoveOn(Range(ahead))
             PROVE  Moves(Range(ahead))
  BY <1>1
<1>2. PICK o \in Nat, c \in Nat : o = commitIndex[n] /\ c = ci /\ c = commitIndex'[n] /\ c > o
  <2>1. commitIndex[n] \in Nat /\ commitIndex'[n] = ci
    BY DEF Shape, ShapedLogs
  <2>2. commitIndex'[n] \in Nat
    BY DEF Shape, ShapedLogs
  <2> QED  BY <2>1, <2>2
<1>3. PICK s : s = applied[n] /\ s \in Seq(KnownCommands) /\ Len(s) = o
  BY <1>2 DEF Shape, ShapedLogs
<1>4. PICK fed : fed = ahead
  OBVIOUS
<1>5. DOMAIN fed = 1 .. c - o /\ c - o \in Nat
  BY <1>2, <1>4
<1>6. applied'[n] = s \o fed
  BY <1>3, <1>4 DEF Shape, ShapedLogs
<1>7. ClientsMoveOn(Range(fed)) /\ Observe(n, lg, c, t) /\ Range(ahead) = Range(fed)
  BY <1>2, <1>4
<1>8. fed \in [1 .. c - o -> Range(fed)]
  <2>1. fed = [i \in 1 .. c - o |-> fed[i]]
    BY <1>2, <1>4
  <2>2. \A i \in 1 .. c - o : fed[i] \in Range(fed)
    BY <1>5 DEF Range
  <2> QED  BY <2>1, <2>2
<1> HIDE DEF ahead
<1>9. ASSUME NEW k \in o + 1 .. c PROVE (s \o fed)[k] = fed[k - o]
  <2>1. PICK S : S = KnownCommands \cup Range(fed)
    OBVIOUS
  <2>2. fed \in [1 .. c - o -> S]
    BY <1>8, <2>1
  <2>3. fed \in Seq(S) /\ Len(fed) = c - o
    BY <1>5, <2>2, FunctionIsSeq
  <2>4. s \in Seq(S)
    <3>1. s \in [1 .. o -> KnownCommands]
      BY <1>3, LenProperties
    <3>2. s \in [1 .. o -> S]
      BY <2>1, <3>1
    <3> QED  BY <3>2, FunctionIsSeq
  <2>5. k \in 1 .. Len(s) + Len(fed) /\ ~(k <= Len(s))
    BY <1>2, <1>3, <2>3
  <2>6. (s \o fed)[k] = fed[k - Len(s)]
    BY <2>3, <2>4, <2>5, ConcatProperties
  <2> QED  BY <1>3, <2>6
<1>10. ASSUME NEW rec \in committed', rec.index \in o + 1 .. c
       PROVE  rec.entry.cmd = fed[rec.index - o]
  <2>1. rec.index <= commitIndex'[n]
    BY <1>2, <1>10
  <2>2. applied'[n][rec.index] = rec.entry.cmd
    BY <2>1 DEF StateMachineSafety
  <2> QED  BY <1>6, <1>9, <1>10, <2>2
<1>11. /\ committed \subseteq committed'
       /\ \A rec \in committed' \ committed : rec.index \in o + 1 .. c
       /\ \A i \in o + 1 .. c : \E rec \in committed' : rec.index = i
  BY <1>2, <1>7, ObserveAdds
<1>12. ASSUME NEW rec \in committed' \ committed PROVE rec.entry.cmd \in Range(fed)
  <2>1. rec.index \in o + 1 .. c
    BY <1>11
  <2>2. rec.index - o \in 1 .. c - o
    BY <2>1
  <2>3. rec.entry.cmd = fed[rec.index - o]
    BY <1>10, <2>1
  <2> QED  BY <1>5, <2>2, <2>3 DEF Range
<1>13. ASSUME NEW cmd \in Range(fed) PROVE \E rec \in committed' : rec.entry.cmd = cmd
  <2>1. PICK i \in 1 .. c - o : cmd = fed[i]
    BY <1>5 DEF Range
  <2>2. PICK k \in o + 1 .. c : k = o + i
    <3>1. o + i \in o + 1 .. c
      BY <1>2
    <3> QED  BY <3>1
  <2>3. PICK rec \in committed' : rec.index = k
    BY <1>11, <2>2
  <2>4. rec.entry.cmd = fed[k - o]
    BY <1>10, <2>3
  <2>5. k - o = i
    BY <2>2
  <2> QED  BY <2>1, <2>4, <2>5
<1> QED  BY <1>7, <1>11, <1>12, <1>13 DEF Moves

LEMMA TryServeMoves ==
    ASSUME NEW n, NEW others, NEW r, TryServeRead(n, others, r), UNCHANGED committed,
           <<r.client, r.req>> \in Reads
    PROVE  UNCHANGED <<committed, nextReq>> \/ \E cmds : Moves(cmds)
<1>1. CASE UNCHANGED nextReq
  BY <1>1
<1>2. CASE ClientsMoveOn({Request(r.client, r.req)})
  <2>1. Moves({Request(r.client, r.req)})
    BY <1>2 DEF Moves
  <2> QED  BY <2>1
<1> QED  BY <1>1, <1>2 DEF TryServeRead

LEMMA NextMoves ==
    ASSUME Shape, Shape', StateMachineSafety', \A n \in Nodes : ReadsListed(n), Next
    PROVE  UNCHANGED <<committed, nextReq>> \/ \E cmds : Moves(cmds)
<1> SUFFICES ASSUME ~UNCHANGED <<committed, nextReq>> PROVE \E cmds : Moves(cmds)
  OBVIOUS
<1>1. ASSUME NEW n \in Nodes, Receive(n) PROVE \E cmds : Moves(cmds)
  <2>1. PICK m \in network :
          \/ HandleRequestVote(n, m)
          \/ HandleVoteReply(n, m)
          \/ HandleAppendEntries(n, m)
          \/ HandleAppendReply(n, m)
          \/ HandleInstallSnapshot(n, m)
          \/ HandleReadHeartbeat(n, m)
          \/ HandleReadAck(n, m)
    BY <1>1 DEF Receive
  <2>2. CASE HandleAppendEntries(n, m) \/ HandleAppendReply(n, m)
    <3>1. UNCHANGED commitVars \/ \E lg, ci, t : SetCommitIndex(n, lg, ci, t)
      BY <2>2, Zenon DEF HandleAppendEntries, HandleAppendReply, StepDown
    <3> QED  BY <3>1, SetCommitMoves DEF commitVars
  <2>3. CASE \/ HandleRequestVote(n, m)
             \/ HandleVoteReply(n, m)
             \/ HandleInstallSnapshot(n, m)
             \/ HandleReadHeartbeat(n, m)
    BY <2>3 DEF HandleRequestVote, HandleVoteReply, HandleInstallSnapshot,
       HandleReadHeartbeat, StepDown, commitVars
  <2>4. CASE HandleReadAck(n, m)
    <3>1. \/ UNCHANGED <<committed, nextReq>>
          \/ \E r \in pendingReads[n] :
               /\ TryServeRead(n, pendingReads[n] \ {r}, [r EXCEPT !.acks = @ \cup {m.from}])
               /\ UNCHANGED committed
      BY <2>4, Zenon DEF HandleReadAck, StepDown, commitVars
    <3>2. PICK r \in pendingReads[n] :
            /\ TryServeRead(n, pendingReads[n] \ {r}, [r EXCEPT !.acks = @ \cup {m.from}])
            /\ UNCHANGED committed
      BY <3>1
    <3>3. PICK s : s = [r EXCEPT !.acks = @ \cup {m.from}]
      OBVIOUS
    <3>4. r \in ReadRecords /\ <<r.client, r.req>> \in Reads
      BY DEF Shape, ShapedReads, ReadsListed
    <3>5. <<s.client, s.req>> \in Reads
      BY <3>3, <3>4 DEF ReadRecords
    <3> QED  BY <3>2, <3>3, <3>5, TryServeMoves
  <2> QED  BY <2>1, <2>2, <2>3, <2>4
<1>2. ASSUME NEW n \in Nodes, NEW c \in Clients, RequestRead(n, c)
      PROVE  \E cmds : Moves(cmds)
  <2>1. PICK s : s = NewRead(n, c)
    OBVIOUS
  <2>2. /\ <<c, nextReq[c]>> \in Reads
        /\ TryServeRead(n, pendingReads[n], s)
        /\ UNCHANGED committed
    BY <1>2, <2>1, Zenon DEF RequestRead
  <2>3. <<s.client, s.req>> \in Reads
    BY <2>1, <2>2 DEF NewRead
  <2> QED  BY <2>2, <2>3, TryServeMoves
<1>3. ASSUME NEW n \in Nodes, SentBy(n), \A c \in Clients : ~RequestRead(n, c)
      PROVE  \E cmds : Moves(cmds)
  BY <1>3 DEF SentBy, StartElection, Heartbeat, ClientCommand, ChangeConfig, Crash, Resume,
     commitVars
<1> QED  BY <1>1, <1>2, <1>3, NextActs

LEMMA TryServeListed ==
    ASSUME Shape, NEW n \in Nodes, NEW others, others \subseteq pendingReads[n], NEW r,
           TryServeRead(n, others, r), <<r.client, r.req>> \in Reads, ReadsListed(n)
    PROVE  ReadsListed(n)'
<1>1. pendingReads'[n] = others \/ pendingReads'[n] = others \cup {r}
  BY DEF TryServeRead, Shape, ShapedReads
<1> QED  BY <1>1 DEF ReadsListed

LEMMA NextListed ==
    ASSUME Shape, Next, \A n \in Nodes : ReadsListed(n)
    PROVE  \A n \in Nodes : ReadsListed(n)'
<1>1. ASSUME NEW n \in Nodes, pendingReads'[n] = {} \/ pendingReads'[n] = pendingReads[n]
      PROVE  ReadsListed(n)'
  BY <1>1 DEF ReadsListed
<1>2. ASSUME NEW n \in Nodes, Receive(n) PROVE ReadsListed(n)'
  <2>1. CASE QuietReads(n)
    BY <1>1, <2>1 DEF QuietReads, ReadsKept
  <2>2. ASSUME NEW m \in network, HandleReadHeartbeat(n, m) PROVE ReadsListed(n)'
    <3>1. BecomeFollower(n, m.term) \/ UNCHANGED pendingReads
      BY <2>2, Zenon DEF HandleReadHeartbeat
    <3>2. pendingReads'[n] = {} \/ pendingReads'[n] = pendingReads[n]
      BY <3>1 DEF BecomeFollower, Shape, ShapedReads
    <3> QED  BY <1>1, <3>2
  <2>3. ASSUME NEW m \in network, HandleReadAck(n, m), ~StepDown(n, m)
        PROVE  ReadsListed(n)'
    <3>1. PICK r \in pendingReads[n] :
            TryServeRead(n, pendingReads[n] \ {r}, [r EXCEPT !.acks = @ \cup {m.from}])
      BY <2>3 DEF HandleReadAck
    <3>2. PICK s : s = [r EXCEPT !.acks = @ \cup {m.from}]
      OBVIOUS
    <3>3. r \in ReadRecords /\ <<r.client, r.req>> \in Reads
      BY DEF Shape, ShapedReads, ReadsListed
    <3>4. <<s.client, s.req>> \in Reads
      BY <3>2, <3>3 DEF ReadRecords
    <3> QED  BY <3>1, <3>2, <3>4, TryServeListed
  <2> QED  BY <1>2, <2>1, <2>2, <2>3, ReceiveReads
<1>3. ASSUME NEW n \in Nodes, SentBy(n) PROVE ReadsListed(n)'
  <2>1. CASE QuietReads(n)
    BY <1>1, <2>1 DEF QuietReads, ReadsKept
  <2>2. ASSUME NEW c \in Clients, RequestRead(n, c) PROVE ReadsListed(n)'
    <3>1. PICK s : s = NewRead(n, c)
      OBVIOUS
    <3>2. <<c, nextReq[c]>> \in Reads /\ TryServeRead(n, pendingReads[n], s)
      BY <2>2, <3>1, Zenon DEF RequestRead
    <3>3. <<s.client, s.req>> \in Reads
      BY <3>1, <3>2 DEF NewRead
    <3> QED  BY <3>2, <3>3, TryServeListed
  <2> QED  BY <1>3, <2>1, <2>2, SentReads
<1>4. PICK n \in Nodes : Elsewhere(n) /\ ReadsListed(n)'
  <2>1. PICK n \in Nodes : Receive(n) \/ SentBy(n)
    BY NextActs
  <2> QED  BY <1>2, <1>3, <2>1, ReceiveElsewhere, SentElsewhere
<1> SUFFICES ASSUME NEW k \in Nodes, k # n PROVE ReadsListed(k)'
  BY <1>4
<1>5. pendingReads'[k] = pendingReads[k]
  BY <1>4 DEF Elsewhere
<1> QED  BY <1>1, <1>5

-----------------------------------------------------------------------------
(***************************************************************************)
(* Sessions: what a client has moved on from, and the promises.            *)
(***************************************************************************)
\* Clients never go back.
LEMMA MovesOn ==
    ASSUME Shape, UNCHANGED nextReq \/ \E cmds : ClientsMoveOn(cmds), NEW c \in Clients
    PROVE  nextReq'[c] >= nextReq[c]
<1>1. nextReq[c] \in Nat
  BY DEF Shape, ShapedReads
<1>2. nextReq'[c] = nextReq[c] \/ nextReq'[c] = nextReq[c] + 1
  BY DEF ClientsMoveOn
<1> QED  BY <1>1, <1>2

LEMMA NextAnswered ==
    ASSUME Shape, Shape', CommitsAnswered, NEW lead2, NEW full2, Explains(lead2, full2)',
           \A t \in Nat : Submitted(lead2[t]),
           UNCHANGED <<committed, nextReq>> \/ \E cmds : Moves(cmds)
    PROVE  CommitsAnswered'
<1>1. CASE UNCHANGED <<committed, nextReq>>
  BY <1>1 DEF CommitsAnswered
<1> SUFFICES ASSUME NEW cmds, Moves(cmds), NEW rec \in committed', NEW c \in Clients,
                    OfClient(rec.entry.cmd, c)
             PROVE  rec.entry.cmd.req < nextReq'[c]
  BY <1>1 DEF CommitsAnswered
<1>2. PICK r \in Nat, q \in Nat, q2 \in Nat :
        r = rec.entry.cmd.req /\ q = nextReq[c] /\ q2 = nextReq'[c]
  <2>1. rec.entry.cmd \in KnownCommands
    BY DEF Shape, ShapedLogs, CommitRecords, KnownEntries
  <2> QED  BY <2>1, RequestTyped DEF Shape, ShapedReads
<1>3. q2 >= q
  BY <1>2, MovesOn DEF Moves
<1>4. CASE rec \in committed
  <2>1. r < q
    BY <1>2, <1>4 DEF CommitsAnswered
  <2>2. r < q2
    BY <1>3, <2>1
  <2> QED  BY <1>2, <2>2
<1>5. CASE rec \notin committed
  <2>1. Logs(lead2, full2)' /\ RecordSettled(lead2, rec)'
    BY DEF Explains, Commits
  <2>2. PICK t \in Nat, i \in Nat : /\ rec.index \in 1 .. i
                                    /\ Chosen(lead2, t, i)'
                                    /\ rec.entry = lead2[t][rec.index]
    BY <2>1 DEF RecordSettled
  <2>3. rec.index \in 1 .. Len(lead2[t])
    <3>1. lead2[t] \in Seq(KnownEntries) /\ i <= Len(lead2[t])
      BY <2>1, <2>2 DEF Chosen, Has, Logs
    <3> QED  BY <2>2, <3>1, LoggedTypes
  <2>4. r <= q
    BY <1>2, <2>2, <2>3 DEF Submitted
  <2>5. CASE r = q
    <3>1. rec.entry.cmd = Request(c, nextReq[c])
      <4>1. rec.entry.cmd \in KnownCommands
        BY DEF Shape, ShapedLogs, CommitRecords, KnownEntries
      <4> QED  BY <1>2, <2>5, <4>1, RequestTyped
    <3>2. Request(c, nextReq[c]) \in cmds
      BY <1>5, <3>1 DEF Moves
    <3>3. q2 = q + 1
      BY <1>2, <3>2 DEF Moves, ClientsMoveOn
    <3>4. r < q2
      BY <2>5, <3>3
    <3> QED  BY <1>2, <3>4
  <2>6. CASE r # q
    <3>1. r < q2
      BY <1>3, <2>4, <2>6
    <3> QED  BY <1>2, <3>1
  <2> QED  BY <2>5, <2>6
<1> QED  BY <1>4, <1>5

LEMMA NextEarned ==
    ASSUME Shape, AnswersEarned, UNCHANGED <<committed, nextReq>> \/ \E cmds : Moves(cmds)
    PROVE  AnswersEarned'
<1>1. CASE UNCHANGED <<committed, nextReq>>
  BY <1>1 DEF AnswersEarned
<1> SUFFICES ASSUME NEW cmds, Moves(cmds), NEW c \in Clients, NEW r \in 1 .. nextReq'[c] - 1
             PROVE  <<c, r>> \in Reads \/ \E rec \in committed' : rec.entry.cmd = Request(c, r)
  BY <1>1 DEF AnswersEarned
<1>2. PICK q \in Nat : q = nextReq[c]
  BY DEF Shape, ShapedReads
<1>3. \/ Request(c, q) \in cmds /\ nextReq'[c] = q + 1
      \/ nextReq'[c] = q
  BY <1>2 DEF Moves, ClientsMoveOn
<1>4. r \in 1 .. q - 1 \/ (r = q /\ Request(c, q) \in cmds)
  BY <1>3
<1>5. CASE r \in 1 .. q - 1
  BY <1>2, <1>5 DEF AnswersEarned, Moves
<1>6. CASE r = q /\ Request(c, q) \in cmds
  <2>1. \/ \E rec \in committed' : rec.entry.cmd = Request(c, q)
        \/ \E d, x : Request(c, q) = Request(d, x) /\ <<d, x>> \in Reads
    BY <1>6 DEF Moves
  <2>2. \A d, x : Request(c, q) = Request(d, x) => c = d /\ q = x
    BY DEF Request
  <2>3. ASSUME NEW d, NEW x, Request(c, q) = Request(d, x), <<d, x>> \in Reads
        PROVE  <<c, q>> \in Reads
    BY <2>2, <2>3
  <2>4. <<c, q>> \in Reads \/ \E rec \in committed' : rec.entry.cmd = Request(c, q)
    BY <2>1, <2>3
  <2> QED  BY <1>6, <2>4
<1> QED  BY <1>4, <1>5, <1>6

\* Of two committed requests of a client, the one at the lower index is earlier.
LEMMA RecordsInOrder ==
    ASSUME Shape, NEW lead, NEW full, Logs(lead, full), Commits(lead, full),
           LeadersInOrder(lead), NEW c \in Clients,
           NEW r1 \in committed, NEW r2 \in committed, r1.index < r2.index,
           OfClient(r1.entry.cmd, c), OfClient(r2.entry.cmd, c)
    PROVE  r1.entry.cmd.req < r2.entry.cmd.req
<1>1. RecordSettled(lead, r1) /\ RecordSettled(lead, r2)
  BY DEF Commits
<1>2. PICK t \in Nat, i \in Nat : /\ r1.index \in 1 .. i
                                  /\ Chosen(lead, t, i)
                                  /\ r1.entry = lead[t][r1.index]
  BY <1>1 DEF RecordSettled
<1>3. PICK u \in Nat, k \in Nat : /\ r2.index \in 1 .. k
                                  /\ Chosen(lead, u, k)
                                  /\ r2.entry = lead[u][r2.index]
  BY <1>1 DEF RecordSettled
<1>4. PICK a \in Nat, b \in Nat : a = r1.index /\ b = r2.index
  BY <1>2, <1>3
<1>5. a < b /\ a \in 1 .. i /\ a \in 1 .. k /\ b \in 1 .. k
  BY <1>2, <1>3, <1>4
<1>6. lead[t][a] = lead[u][a]
  BY <1>2, <1>3, <1>5, ChosenAgree
<1>7. lead[u] \in Seq(KnownEntries) /\ k <= Len(lead[u])
  BY <1>3 DEF Chosen, Has, Logs
<1>8. b \in 1 .. Len(lead[u]) /\ a \in 1 .. b - 1
  BY <1>5, <1>7, LoggedTypes
<1>9. InOrder(lead[u])
  BY DEF LeadersInOrder
<1>10. r1.entry = lead[u][a] /\ r2.entry = lead[u][b]
  BY <1>2, <1>3, <1>4, <1>6
<1> QED  BY <1>8, <1>9, <1>10 DEF InOrder

\* What a state machine was fed at index j is on record.
LEMMA FedRecord ==
    ASSUME Shape, CommitsNumbered, StateMachineSafety, NEW n \in Nodes,
           NEW j \in 1 .. Len(applied[n])
    PROVE  \E rec \in committed : rec.index = j /\ rec.entry.cmd = applied[n][j]
<1>1. PICK o \in Nat : o = commitIndex[n] /\ o = Len(applied[n])
  BY DEF Shape, ShapedLogs
<1>2. PICK k \in Nat : Numbered(k)
  BY DEF CommitsNumbered
<1>3. o <= k
  BY <1>1, <1>2 DEF Numbered
<1>4. j \in 1 .. k /\ j <= o
  BY <1>1, <1>3
<1>5. PICK rec \in committed : rec.index = j
  BY <1>2, <1>4 DEF Numbered
<1>6. applied[n][j] = rec.entry.cmd
  BY <1>1, <1>4, <1>5 DEF StateMachineSafety
<1> QED  BY <1>5, <1>6

SessionsExplained ==
    \E lead, full : Explains(lead, full) /\ LeadersInOrder(lead)

LEMMA OrderedSessions ==
    ASSUME Shape, CommitsNumbered, StateMachineSafety, SessionsKept, SessionsExplained
    PROVE  SessionsInOrder
<1> SUFFICES ASSUME NEW n \in Nodes, NEW j \in 1 .. Len(applied[n]),
                    applied[n][j].kind = "client",
                    NEW r \in 1 .. applied[n][j].req - 1,
                    <<applied[n][j].client, r>> \notin Reads
             PROVE  \E k \in 1 .. j - 1 : applied[n][k] = Request(applied[n][j].client, r)
  BY DEF SessionsInOrder
<1>1. PICK lead, full : Logs(lead, full) /\ Commits(lead, full) /\ LeadersInOrder(lead)
  BY DEF SessionsExplained, Explains
<1>2. PICK o \in Nat : o = commitIndex[n] /\ o = Len(applied[n])
  BY DEF Shape, ShapedLogs
<1>3. PICK rec \in committed : rec.index = j /\ rec.entry.cmd = applied[n][j]
  BY FedRecord
<1>4. PICK c : c = rec.entry.cmd.client
  OBVIOUS
<1>5. OfClient(rec.entry.cmd, c)
  BY <1>3, <1>4 DEF OfClient
<1>6. rec.entry.cmd \in KnownCommands
  BY DEF Shape, ShapedLogs, CommitRecords, KnownEntries
<1>7. c \in Clients /\ rec.entry.cmd.req \in Nat
  BY <1>5, <1>6, RequestTyped
<1>8. PICK x \in Nat, q \in Nat : x = rec.entry.cmd.req /\ q = nextReq[c]
  BY <1>7 DEF Shape, ShapedReads
<1>9. x < q
  BY <1>5, <1>7, <1>8 DEF SessionsKept, CommitsAnswered
<1>10. r \in 1 .. q - 1 /\ r < x
  BY <1>3, <1>8, <1>9
<1>11. PICK old \in committed : old.entry.cmd = Request(c, r)
  BY <1>3, <1>4, <1>7, <1>8, <1>10 DEF SessionsKept, AnswersEarned
<1>12. OfClient(old.entry.cmd, c) /\ old.entry.cmd.req = r
  BY <1>11 DEF OfClient, Request
<1>13. old.index < j
  <2>1. PICK i \in Nat, l \in Nat : i = old.index /\ l = j
    BY DEF Shape, ShapedLogs, CommitRecords
  <2>2. i # l
    <3> SUFFICES ASSUME i = l PROVE FALSE
      OBVIOUS
    <3>1. old = rec
      BY <1>3, <2>1 DEF CommitsNumbered, Numbered
    <3>2. r = x
      BY <1>8, <1>12, <3>1
    <3> QED  BY <1>8, <1>10, <3>2
  <2>3. ~(l < i)
    <3> SUFFICES ASSUME l < i PROVE FALSE
      OBVIOUS
    <3>1. rec.index < old.index
      BY <1>3, <2>1
    <3>2. rec.entry.cmd.req < old.entry.cmd.req
      BY <1>1, <1>5, <1>7, <1>12, <3>1, RecordsInOrder
    <3>3. x < r
      BY <1>8, <1>12, <3>2
    <3> QED  BY <1>8, <1>10, <3>3
  <2>4. i < l
    BY <2>2, <2>3
  <2> QED  BY <2>1, <2>4
<1>14. PICK i \in 1 .. j - 1 : i = old.index
  <2>1. old.index >= 1
    <3>1. PICK k \in Nat : Numbered(k)
      BY DEF CommitsNumbered
    <3>2. old.index \in 1 .. k
      BY <3>1 DEF Numbered
    <3> QED  BY <3>2
  <2>2. old.index \in Nat
    BY DEF Shape, ShapedLogs, CommitRecords
  <2>3. old.index \in 1 .. j - 1
    BY <1>2, <1>13, <2>1, <2>2
  <2> QED  BY <2>3
<1>15. applied[n][i] = old.entry.cmd
  <2>1. old.index <= commitIndex[n]
    BY <1>2, <1>14
  <2>2. applied[n][old.index] = old.entry.cmd
    BY <2>1 DEF StateMachineSafety
  <2> QED  BY <1>14, <2>2
<1> QED  BY <1>3, <1>4, <1>11, <1>14, <1>15

LEMMA AppliedOnlyOnce ==
    ASSUME Shape, CommitsNumbered, StateMachineSafety, SessionsExplained
    PROVE  AppliedOnce
<1> SUFFICES ASSUME NEW n \in Nodes, NEW i \in 1 .. Len(applied[n]),
                    NEW j \in 1 .. Len(applied[n]),
                    applied[n][i].kind = "client", applied[n][i] = applied[n][j]
             PROVE  i = j
  BY DEF AppliedOnce
<1>1. PICK lead, full : Logs(lead, full) /\ Commits(lead, full) /\ LeadersInOrder(lead)
  BY DEF SessionsExplained, Explains
<1>2. PICK r1 \in committed : r1.index = i /\ r1.entry.cmd = applied[n][i]
  BY FedRecord
<1>3. PICK r2 \in committed : r2.index = j /\ r2.entry.cmd = applied[n][j]
  BY FedRecord
<1>4. PICK c : c = r1.entry.cmd.client
  OBVIOUS
<1>5. OfClient(r1.entry.cmd, c) /\ OfClient(r2.entry.cmd, c)
  BY <1>2, <1>3, <1>4 DEF OfClient
<1>6. PICK x \in Nat : x = r1.entry.cmd.req /\ x = r2.entry.cmd.req /\ c \in Clients
  <2>1. r1.entry.cmd \in KnownCommands
    BY DEF Shape, ShapedLogs, CommitRecords, KnownEntries
  <2> QED  BY <1>2, <1>3, <1>5, <2>1, RequestTyped
<1>7. ~(r1.index < r2.index)
  <2> SUFFICES ASSUME r1.index < r2.index PROVE FALSE
    OBVIOUS
  <2>1. r1.entry.cmd.req < r2.entry.cmd.req
    BY <1>1, <1>5, <1>6, RecordsInOrder
  <2>2. x < x
    BY <1>6, <2>1
  <2> QED  BY <2>2
<1>8. ~(r2.index < r1.index)
  <2> SUFFICES ASSUME r2.index < r1.index PROVE FALSE
    OBVIOUS
  <2>1. r2.entry.cmd.req < r1.entry.cmd.req
    BY <1>1, <1>5, <1>6, RecordsInOrder
  <2>2. x < x
    BY <1>6, <2>1
  <2> QED  BY <2>2
<1>9. i \in Int /\ j \in Int
  OBVIOUS
<1> QED  BY <1>2, <1>3, <1>7, <1>8, <1>9

LEMMA InitSessions ==
    ASSUME Init
    PROVE  SessionsKept /\ SessionsExplained
<1>1. SessionsKept
  <2>1. /\ \A n \in Nodes : role[n] = "follower" /\ pendingReads[n] = {}
        /\ committed = {}
        /\ \A c \in Clients : nextReq[c] = 1
    BY DEF Init
  <2>2. \A n \in Nodes : KnowsClients(n) /\ ReadsListed(n)
    BY <2>1 DEF KnowsClients, ReadsListed
  <2> QED  BY <2>1, <2>2 DEF SessionsKept, CommitsAnswered, AnswersEarned
<1>2. PICK lead, full : Explains(lead, full)
  BY InitCommits DEF EveryCommitExplained
<1>3. \A t \in Nat : lead[t] = <<>>
  <2>1. \A t : ~Led(t)
    BY DEF Init, Led
  <2> QED  BY <1>2, <2>1 DEF Explains, Logs
<1>4. LeadersInOrder(lead)
  BY <1>3 DEF LeadersInOrder, InOrder, Submitted
<1> QED  BY <1>1, <1>2, <1>4 DEF SessionsExplained

LEMMA NextSessions ==
    ASSUME Proposals = {}, Shape, Shape', Ballots, Records, Records', ElectionSafety',
           CommitsNumbered, StateMachineSafety, StateMachineSafety',
           SessionsKept, SessionsExplained, [Next]_vars
    PROVE  SessionsKept' /\ SessionsExplained'
<1>1. PICK lead, full : Logs(lead, full) /\ Commits(lead, full) /\ LeadersInOrder(lead)
  BY DEF SessionsExplained, Explains
<1>2. PICK lead2, full2 : Explains(lead2, full2)' /\ Inherits(lead, full, lead2)
  BY <1>1, NextCommits
<1>3. \A t \in Nat : InOrder(lead2[t]) /\ Submitted(lead2[t])
  BY <1>1, <1>2, InheritsInOrder
<1>4. UNCHANGED <<committed, nextReq>> \/ \E cmds : Moves(cmds)
  <2>1. CASE UNCHANGED vars
    BY <2>1 DEF vars, commitVars
  <2> QED  BY <2>1, NextMoves DEF SessionsKept
<1>5. SessionsExplained'
  <2>1. ASSUME NEW t \in Nat, NEW c \in Clients, NEW i \in 1 .. Len(lead2[t]),
               OfClient(lead2[t][i].cmd, c)
        PROVE  lead2[t][i].cmd.req <= nextReq'[c]
    <3>1. PICK L \in Seq(KnownEntries) : L = lead2[t]
      BY <1>2 DEF Explains, Logs
    <3>2. L[i].cmd \in KnownCommands
      BY <2>1, <3>1, LoggedTypes DEF KnownEntries
    <3>3. PICK r \in Nat, q \in Nat, q2 \in Nat :
            r = L[i].cmd.req /\ q = nextReq[c] /\ q2 = nextReq'[c]
      BY <2>1, <3>1, <3>2, RequestTyped DEF Shape, ShapedReads
    <3>4. q2 >= q
      BY <1>4, <3>3, MovesOn DEF Moves
    <3>5. r <= q
      BY <1>3, <2>1, <3>1, <3>3 DEF Submitted
    <3>6. r <= q2
      BY <3>4, <3>5
    <3> QED  BY <3>1, <3>3, <3>6
  <2>2. LeadersInOrder(lead2)'
    BY <1>3, <2>1 DEF LeadersInOrder, InOrder, Submitted
  <2> QED  BY <1>2, <2>2 DEF SessionsExplained
<1>6. CommitsAnswered'
  BY <1>2, <1>3, <1>4, NextAnswered DEF SessionsKept
<1>7. AnswersEarned'
  BY <1>4, NextEarned DEF SessionsKept
<1>8. \A n \in Nodes : KnowsClients(n)' /\ ReadsListed(n)'
  <2>1. CASE UNCHANGED vars
    BY <2>1 DEF vars, persistentVars, electionVars, leaderVars, readVars, SessionsKept,
       KnowsClients, ReadsListed
  <2> QED  BY <2>1, NextKnows, NextListed DEF SessionsKept
<1> QED  BY <1>5, <1>6, <1>7, <1>8 DEF SessionsKept

\* With a fixed configuration, when clients move on and what leaders know of them
\* can be explained at any time.
LEMMA SessionsHold ==
    ASSUME Proposals = {}
    PROVE  Spec => [](SessionsKept /\ SessionsExplained)
<1> DEFINE Inv == Ballots /\ SessionsKept /\ SessionsExplained
           Known == /\ Shape /\ Shape' /\ Records /\ Records' /\ ElectionSafety'
                    /\ CommitsNumbered /\ StateMachineSafety /\ StateMachineSafety'
<1>1. Init => Inv
  BY InitBallots, InitSessions
<1>2. Known /\ Inv /\ [Next]_vars => Inv'
  BY NextBallots, NextSessions
<1>3. Spec => []Inv
  BY <1>1, <1>2, ShapeInvariant, OneLeaderPerTerm, LogsAreTraced, CommitsAreNumbered,
     MachinesNeverDiverge, PTL DEF Spec
<1> QED  BY <1>3, PTL

\* Where the configuration is fixed, a state machine has seen every earlier request
\* its client sent through the log before it sees a later one: no leader's log has
\* a client's requests out of order, and a client moves on only from what is
\* committed (KVStateMachine.apply takes anything older for a duplicate).
THEOREM SessionsStayInOrder ==
    ASSUME Proposals = {}
    PROVE  Spec => []SessionsInOrder
<1>1. /\ Shape /\ CommitsNumbered /\ StateMachineSafety /\ SessionsKept /\ SessionsExplained
      => SessionsInOrder
  BY OrderedSessions
<1> QED  BY <1>1, SessionsHold, ShapeInvariant, CommitsAreNumbered, MachinesNeverDiverge, PTL

\* Where the configuration is fixed, no state machine is fed a request twice: a
\* leader knows every request it stores, one it has compacted is answered, and no
\* leader appends what it knows or what was answered (client_command,
\* _rebuild_client_index, _maybe_compact).
THEOREM AppliesOnce ==
    ASSUME Proposals = {}
    PROVE  Spec => []AppliedOnce
<1>1. Shape /\ CommitsNumbered /\ StateMachineSafety /\ SessionsExplained => AppliedOnce
  BY AppliedOnlyOnce
<1> QED  BY <1>1, SessionsHold, ShapeInvariant, CommitsAreNumbered, MachinesNeverDiverge, PTL

-----------------------------------------------------------------------------
(***************************************************************************)
(* Configurations: the last one of a log, and how logs of commands grow.   *)
(***************************************************************************)
\* The commands of entries lg.
CommandsOf(lg) == [i \in 1 .. Len(lg) |-> lg[i].cmd]

\* All commands of a log lg above a snapshot whose image is cmds.
Above(cmds, lg) == cmds \o CommandsOf(lg)

\* Where the last configuration of cmds stands.
LastConfig(cmds) == SelectLastInSeq(cmds, LAMBDA cmd : cmd.kind = "config")

\* cfg is the configuration that cmds put in force; of its index only what is
\* above b is known.
Governs(cfg, cmds, b) ==
    /\ cfg.voters = Voting(cmds)
    /\ Larger(cfg.index, b) = Larger(LastConfig(cmds), b)

SnapshotKnows(s) == s.voters = Voting(s.image)

\* cfg and the log lg are right for server n with what it has applied.
Fitting(n, lg, cfg) ==
    LET all == Above(snapshot[n].image, lg)
    IN /\ Governs(cfg, all, Base(n))
       /\ commitIndex[n] <= Len(all)
       /\ applied[n] = SubSeq(all, 1, commitIndex[n])

Derived(n) ==
    /\ SnapshotKnows(snapshot[n])
    /\ Fitting(n, log[n], config[n])

EveryConfigDerived ==
    /\ \A n \in Nodes : Derived(n)
    /\ \A m \in network : m.type = "InstallSnapshot" => SnapshotKnows(m.snapshot)

\* The last configuration of cmds stands at k; 0 if there is none.
IsLast(cmds, k) ==
    /\ k \in 0 .. Len(cmds)
    /\ k # 0 => cmds[k].kind = "config"
    /\ \A i \in k + 1 .. Len(cmds) : cmds[i].kind # "config"

LEMMA LastConfigIs ==
    ASSUME NEW cmds \in Seq(KnownCommands)
    PROVE  /\ IsLast(cmds, LastConfig(cmds))
           /\ \A k : IsLast(cmds, k) => k = LastConfig(cmds)
<1> DEFINE I == {i \in 1 .. Len(cmds) : cmds[i].kind = "config"}
<1>1. Len(cmds) \in Nat
  BY LenProperties
<1>2. LastConfig(cmds) = IF I # {} THEN Max(I) ELSE 0
  BY DEF LastConfig, SelectLastInSeq
<1>3. IsLast(cmds, LastConfig(cmds))
  <2>1. CASE I = {}
    BY <1>1, <1>2, <2>1 DEF IsLast
  <2>2. CASE I # {}
    <3>1. I \in SUBSET Int /\ Len(cmds) \in Int /\ \A x \in I : x <= Len(cmds)
      BY <1>1
    <3>2. Max(I) \in I /\ \A y \in I : y <= Max(I)
      <4> HIDE DEF I
      <4> QED  BY <2>2, <3>1, BoundedMax, Zenon
    <3>3. PICK k : k = Max(I)
      OBVIOUS
    <3>4. k \in 1 .. Len(cmds) /\ cmds[k].kind = "config"
      BY <3>2, <3>3
    <3>5. \A i \in k + 1 .. Len(cmds) : cmds[i].kind # "config"
      BY <1>1, <3>2, <3>3, <3>4
    <3>6. IsLast(cmds, k)
      BY <1>1, <3>4, <3>5 DEF IsLast
    <3> QED  BY <1>2, <2>2, <3>3, <3>6
  <2> QED  BY <2>1, <2>2
<1>4. ASSUME NEW k, NEW j, IsLast(cmds, k), IsLast(cmds, j) PROVE ~(j < k)
  <2>1. j \in Nat /\ k \in Nat /\ k <= Len(cmds)
    BY <1>1, <1>4 DEF IsLast
  <2>2. j < k => k \in j + 1 .. Len(cmds) /\ k # 0
    BY <1>1, <2>1
  <2> QED  BY <1>4, <2>2 DEF IsLast
<1>5. ASSUME NEW k, IsLast(cmds, k) PROVE k = LastConfig(cmds)
  <2>1. ~(k < LastConfig(cmds)) /\ ~(LastConfig(cmds) < k)
    BY <1>3, <1>4, <1>5
  <2>2. k \in Nat /\ LastConfig(cmds) \in Nat
    BY <1>1, <1>3, <1>5 DEF IsLast
  <2> QED  BY <2>1, <2>2
<1> QED  BY <1>3, <1>5

LEMMA VotingIs ==
    ASSUME NEW cmds \in Seq(KnownCommands), NEW k, IsLast(cmds, k)
    PROVE  /\ LastConfig(cmds) = k
           /\ Voting(cmds) = IF k = 0 THEN InitialVoters ELSE cmds[k].voters
<1>1. LastConfig(cmds) = k
  BY LastConfigIs
<1> QED  BY <1>1 DEF Voting, LastConfig

LEMMA CommandsTyped ==
    ASSUME NEW lg \in Seq(KnownEntries)
    PROVE  /\ CommandsOf(lg) \in Seq(KnownCommands)
           /\ Len(CommandsOf(lg)) = Len(lg)
           /\ Len(lg) \in Nat
           /\ \A i \in 1 .. Len(lg) : CommandsOf(lg)[i] = lg[i].cmd
<1>1. Len(lg) \in Nat /\ \A i \in 1 .. Len(lg) : lg[i] \in KnownEntries
  BY LoggedTypes
<1>2. \A e \in KnownEntries : e.cmd \in KnownCommands
  BY DEF KnownEntries
<1>3. CommandsOf(lg) \in [1 .. Len(lg) -> KnownCommands]
  BY <1>1, <1>2 DEF CommandsOf
<1> QED  BY <1>1, <1>3, FunctionIsSeq DEF CommandsOf

LEMMA AboveTyped ==
    ASSUME NEW cmds \in Seq(KnownCommands), NEW lg \in Seq(KnownEntries)
    PROVE  /\ Above(cmds, lg) \in Seq(KnownCommands)
           /\ Len(cmds) \in Nat
           /\ Len(lg) \in Nat
           /\ Len(Above(cmds, lg)) = Len(cmds) + Len(lg)
           /\ \A i \in 1 .. Len(cmds) : Above(cmds, lg)[i] = cmds[i]
           /\ \A i \in Len(cmds) + 1 .. Len(cmds) + Len(lg) :
                Above(cmds, lg)[i] = lg[i - Len(cmds)].cmd
<1>1. /\ CommandsOf(lg) \in Seq(KnownCommands)
      /\ Len(CommandsOf(lg)) = Len(lg)
      /\ Len(lg) \in Nat
      /\ \A i \in 1 .. Len(lg) : CommandsOf(lg)[i] = lg[i].cmd
  BY CommandsTyped
<1>2. /\ Above(cmds, lg) \in Seq(KnownCommands)
      /\ Len(Above(cmds, lg)) = Len(cmds) + Len(lg)
      /\ \A i \in 1 .. Len(cmds) + Len(lg) : Above(cmds, lg)[i] =
           IF i <= Len(cmds) THEN cmds[i] ELSE CommandsOf(lg)[i - Len(cmds)]
  <2>1. PICK more \in Seq(KnownCommands) : more = CommandsOf(lg)
    BY <1>1
  <2>2. /\ cmds \o more \in Seq(KnownCommands)
        /\ Len(cmds \o more) = Len(cmds) + Len(more)
        /\ \A i \in 1 .. Len(cmds) + Len(more) :
             (cmds \o more)[i] = IF i <= Len(cmds) THEN cmds[i] ELSE more[i - Len(cmds)]
    BY ConcatProperties
  <2>3. Above(cmds, lg) = cmds \o more /\ Len(more) = Len(lg)
    BY <1>1, <2>1 DEF Above
  <2> HIDE DEF Above
  <2> QED  BY <2>1, <2>2, <2>3
<1>3. Len(cmds) \in Nat
  BY LenProperties
<1>4. \A i \in 1 .. Len(cmds) : Above(cmds, lg)[i] = cmds[i]
  BY <1>1, <1>2, <1>3
<1>5. ASSUME NEW i \in Len(cmds) + 1 .. Len(cmds) + Len(lg)
      PROVE  Above(cmds, lg)[i] = lg[i - Len(cmds)].cmd
  <2>1. i - Len(cmds) \in 1 .. Len(lg) /\ i \in 1 .. Len(cmds) + Len(lg) /\ ~(i <= Len(cmds))
    BY <1>1, <1>3
  <2> QED  BY <1>1, <1>2, <2>1
<1> QED  BY <1>1, <1>2, <1>3, <1>4, <1>5

\* all is cmds, c commands, with the l commands of lg above.
IsAbove(all, cmds, lg, c, l) ==
    /\ all \in Seq(KnownCommands)
    /\ Len(all) = c + l
    /\ \A i \in 1 .. c : all[i] = cmds[i]
    /\ \A i \in c + 1 .. c + l : all[i] = lg[i - c].cmd

LEMMA AboveAt ==
    ASSUME NEW cmds \in Seq(KnownCommands), NEW lg \in Seq(KnownEntries),
           NEW c, c = Len(cmds), NEW l, l = Len(lg), NEW all, all = Above(cmds, lg)
    PROVE  IsAbove(all, cmds, lg, c, l)
BY AboveTyped DEF IsAbove

\* ConfigAfter, by where the last configuration stands.
LEMMA ConfigAfterIs ==
    ASSUME NEW lg \in Seq(KnownEntries), NEW offset, NEW cfg, NEW q,
           IsLast(CommandsOf(lg), q)
    PROVE  ConfigAfter(lg, offset, cfg) =
             IF q = 0 THEN cfg
             ELSE [voters |-> CommandsOf(lg)[q].voters, index |-> offset + q]
<1>1. /\ CommandsOf(lg) \in Seq(KnownCommands)
      /\ Len(CommandsOf(lg)) = Len(lg)
      /\ Len(lg) \in Nat
      /\ \A i \in 1 .. Len(lg) : CommandsOf(lg)[i] = lg[i].cmd
  BY CommandsTyped
<1> DEFINE I == {i \in 1 .. Len(CommandsOf(lg)) : CommandsOf(lg)[i].kind = "config"}
           J == {i \in 1 .. Len(lg) : IsConfigEntry(lg[i])}
<1>2. I = J
  BY <1>1 DEF IsConfigEntry
<1>3. LastConfig(CommandsOf(lg)) = IF I # {} THEN Max(I) ELSE 0
  BY DEF LastConfig, SelectLastInSeq
<1>4. SelectLastInSeq(lg, IsConfigEntry) = IF J # {} THEN Max(J) ELSE 0
  BY DEF SelectLastInSeq
<1>5. SelectLastInSeq(lg, IsConfigEntry) = q
  <2>1. LastConfig(CommandsOf(lg)) = q
    BY <1>1, LastConfigIs
  <2> HIDE DEF I, J
  <2> QED  BY <1>2, <1>3, <1>4, <2>1
<1>6. q # 0 => q \in 1 .. Len(lg)
  BY <1>1 DEF IsLast
<1> QED  BY <1>1, <1>5, <1>6 DEF ConfigAfter

\* What is appended to a log that cfg governs is governed by what ConfigAfter makes
\* of cfg.
LEMMA ConfigExtends ==
    ASSUME NEW cmds \in Seq(KnownCommands), NEW new \in Seq(KnownEntries),
           NEW cfg, NEW b \in Nat, b <= Len(cmds), Governs(cfg, cmds, b)
    PROVE  Governs(ConfigAfter(new, Len(cmds), cfg), Above(cmds, new), b)
<1> DEFINE all == Above(cmds, new)
<1>1. /\ all \in Seq(KnownCommands)
      /\ Len(cmds) \in Nat
      /\ Len(new) \in Nat
      /\ Len(all) = Len(cmds) + Len(new)
      /\ \A i \in 1 .. Len(cmds) : all[i] = cmds[i]
      /\ \A i \in Len(cmds) + 1 .. Len(cmds) + Len(new) : all[i] = new[i - Len(cmds)].cmd
  BY AboveTyped
<1>2. /\ CommandsOf(new) \in Seq(KnownCommands)
      /\ Len(CommandsOf(new)) = Len(new)
      /\ \A i \in 1 .. Len(new) : CommandsOf(new)[i] = new[i].cmd
  BY CommandsTyped
<1>3. PICK p : p = LastConfig(cmds) /\ IsLast(cmds, p)
  BY LastConfigIs
<1>4. PICK q : IsLast(CommandsOf(new), q)
  BY <1>2, LastConfigIs
<1>5. PICK k \in Nat, l \in Nat : k = Len(cmds) /\ l = Len(new)
  BY <1>1
<1> HIDE DEF all
<1>6. /\ p \in 0 .. k
      /\ p # 0 => cmds[p].kind = "config"
      /\ \A i \in p + 1 .. k : cmds[i].kind # "config"
  BY <1>3, <1>5 DEF IsLast
<1>7. /\ q \in 0 .. l
      /\ q # 0 => CommandsOf(new)[q].kind = "config"
      /\ \A i \in q + 1 .. l : CommandsOf(new)[i].kind # "config"
  BY <1>2, <1>4, <1>5 DEF IsLast
<1>8. \A i \in k + 1 .. k + l : i - k \in 1 .. l /\ all[i] = CommandsOf(new)[i - k]
  <2> TAKE i \in k + 1 .. k + l
  <2>1. i - k \in 1 .. l
    OBVIOUS
  <2>2. all[i] = new[i - k].cmd
    BY <1>1, <1>5
  <2> QED  BY <1>2, <1>5, <2>1, <2>2
<1>9. CASE q = 0
  <2>1. ConfigAfter(new, Len(cmds), cfg) = cfg
    BY <1>4, <1>9, ConfigAfterIs
  <2>2. IsLast(all, p)
    <3>1. p \in 0 .. Len(all)
      BY <1>1, <1>5, <1>6
    <3>2. p # 0 => all[p].kind = "config"
      <4>1. p # 0 => p \in 1 .. k
        BY <1>6
      <4> QED  BY <1>1, <1>5, <1>6, <4>1
    <3>3. ASSUME NEW i \in p + 1 .. Len(all) PROVE all[i].kind # "config"
      <4>1. CASE i <= k
        <5>1. i \in p + 1 .. k /\ i \in 1 .. k
          BY <1>1, <1>5, <1>6, <4>1
        <5> QED  BY <1>1, <1>5, <1>6, <5>1
      <4>2. CASE i > k
        <5>1. i \in k + 1 .. k + l
          BY <1>1, <1>5, <1>6, <4>2
        <5>2. i - k \in q + 1 .. l
          BY <1>9, <5>1
        <5> QED  BY <1>7, <1>8, <5>1, <5>2
      <4> QED  BY <1>1, <1>5, <1>6, <4>1, <4>2
    <3> QED  BY <3>1, <3>2, <3>3 DEF IsLast
  <2>3. LastConfig(all) = p /\ Voting(all) = IF p = 0 THEN InitialVoters ELSE all[p].voters
    BY <1>1, <2>2, VotingIs
  <2>4. Voting(cmds) = IF p = 0 THEN InitialVoters ELSE cmds[p].voters
    BY <1>3, VotingIs
  <2>5. p # 0 => all[p] = cmds[p]
    <3>1. p # 0 => p \in 1 .. k
      BY <1>6
    <3> QED  BY <1>1, <1>5, <3>1
  <2>6. Governs(cfg, all, b)
    BY <1>3, <2>3, <2>4, <2>5 DEF Governs
  <2> QED  BY <2>1, <2>6 DEF all
<1>10. CASE q # 0
  <2>1. ConfigAfter(new, Len(cmds), cfg)
          = [voters |-> CommandsOf(new)[q].voters, index |-> Len(cmds) + q]
    BY <1>4, <1>10, ConfigAfterIs
  <2>2. PICK j \in Nat : j = k + q
    BY <1>7
  <2>3. /\ j \in k + 1 .. k + l
        /\ j # 0
        /\ j - k = q
    BY <1>7, <1>10, <2>2
  <2>4. all[j] = CommandsOf(new)[q]
    BY <1>8, <2>3
  <2>5. IsLast(all, j)
    <3>1. j \in 0 .. Len(all)
      BY <1>1, <1>5, <2>3
    <3>2. all[j].kind = "config"
      BY <1>7, <1>10, <2>4
    <3>3. ASSUME NEW i \in j + 1 .. Len(all) PROVE all[i].kind # "config"
      <4>1. i \in k + 1 .. k + l
        BY <1>1, <1>5, <2>3
      <4>2. i - k \in q + 1 .. l
        BY <1>1, <1>5, <1>7, <2>2
      <4> QED  BY <1>7, <1>8, <4>1, <4>2
    <3> QED  BY <3>1, <3>2, <3>3 DEF IsLast
  <2>6. LastConfig(all) = j /\ Voting(all) = all[j].voters
    BY <1>1, <2>3, <2>5, VotingIs
  <2>7. Governs([voters |-> CommandsOf(new)[q].voters, index |-> Len(cmds) + q], all, b)
    BY <1>5, <2>2, <2>4, <2>6 DEF Governs
  <2> QED  BY <2>1, <2>7 DEF all
<1> QED  BY <1>9, <1>10

\* What a snapshot and a log above it put in force.
LEMMA ConfigInGoverns ==
    ASSUME NEW s, SnapshotFull(s), SnapshotKnows(s), NEW lg \in Seq(KnownEntries)
    PROVE  Governs(ConfigIn(lg, s), Above(s.image, lg), s.lastIndex)
<1> DEFINE cfg == [voters |-> s.voters, index |-> s.lastIndex]
<1>1. /\ s.image \in Seq(KnownCommands)
      /\ s.lastIndex \in Nat
      /\ Len(s.image) = s.lastIndex
  BY DEF SnapshotFull, KnownSnapshots
<1>2. LastConfig(s.image) \in 0 .. s.lastIndex
  BY <1>1, LastConfigIs DEF IsLast
<1>3. Governs(cfg, s.image, s.lastIndex)
  BY <1>1, <1>2 DEF Governs, SnapshotKnows, Larger
<1> HIDE DEF cfg
<1>4. s.lastIndex <= Len(s.image)
  BY <1>1
<1>5. Governs(ConfigAfter(lg, Len(s.image), cfg), Above(s.image, lg), s.lastIndex)
  BY <1>1, <1>3, <1>4, ConfigExtends
<1> QED  BY <1>1, <1>5 DEF ConfigIn, cfg

\* A configuration not above k governs the first k commands as well.
LEMMA GovernsBefore ==
    ASSUME NEW cmds \in Seq(KnownCommands), NEW k \in Nat, k <= Len(cmds),
           NEW b \in Nat, b <= k, NEW cfg, cfg.index \in Nat, cfg.index <= k,
           Governs(cfg, cmds, b)
    PROVE  Governs(cfg, SubSeq(cmds, 1, k), b)
<1> DEFINE short == SubSeq(cmds, 1, k)
<1>1. /\ short \in Seq(KnownCommands)
      /\ Len(short) = k
      /\ Len(cmds) \in Nat
      /\ \A i \in 1 .. k : short[i] = cmds[i]
  <2>1. 1 \in Nat \ {0} /\ k \in Int /\ Len(cmds) \in Nat
    BY LenProperties
  <2>2. short \in Seq(KnownCommands) /\ Len(short) = IF 1 <= k THEN k - 1 + 1 ELSE 0
    BY <2>1, Stretch
  <2>3. \A i \in 1 .. k - 1 + 1 : short[i] = cmds[1 + i - 1]
    BY <2>1, StretchElement
  <2> QED  BY <2>1, <2>2, <2>3
<1> HIDE DEF short
<1>2. PICK p : p = LastConfig(cmds) /\ IsLast(cmds, p)
  BY LastConfigIs
<1>3. p \in Nat /\ p <= k
  <2>1. p \in Nat
    BY <1>1, <1>2 DEF IsLast
  <2>2. Larger(cfg.index, b) = Larger(p, b)
    BY <1>2 DEF Governs
  <2> QED  BY <2>1, <2>2 DEF Larger
<1>4. p # 0 => p \in 1 .. k
  BY <1>3
<1>5. IsLast(short, p)
  <2>1. \A i \in p + 1 .. k : i \in p + 1 .. Len(cmds) /\ i \in 1 .. k
    BY <1>1, <1>3
  <2>2. \A i \in p + 1 .. Len(short) : short[i].kind # "config"
    BY <1>1, <1>2, <2>1 DEF IsLast
  <2>3. p \in 0 .. Len(short)
    BY <1>1, <1>3
  <2> QED  BY <1>1, <1>2, <1>4, <2>2, <2>3 DEF IsLast
<1>6. /\ LastConfig(short) = p
      /\ Voting(short) = IF p = 0 THEN InitialVoters ELSE short[p].voters
  BY <1>1, <1>5, VotingIs
<1>7. Voting(cmds) = IF p = 0 THEN InitialVoters ELSE cmds[p].voters
  BY <1>2, VotingIs
<1>8. Voting(short) = Voting(cmds)
  BY <1>1, <1>4, <1>6, <1>7
<1>9. Governs(cfg, short, b)
  BY <1>2, <1>6, <1>8 DEF Governs
<1> QED  BY <1>9 DEF short

LEMMA GovernsAbove ==
    ASSUME NEW cmds \in Seq(KnownCommands), NEW b \in Nat, NEW c \in Nat, b <= c,
           NEW cfg, cfg.index \in Nat, Governs(cfg, cmds, b)
    PROVE  Governs(cfg, cmds, c)
<1>1. LastConfig(cmds) \in Nat
  BY LastConfigIs, LenProperties DEF IsLast
<1> QED  BY <1>1 DEF Governs, Larger

-----------------------------------------------------------------------------
\* A sequence that has the first k elements of another is its beginning.
LEMMA PrefixIs ==
    ASSUME NEW s \in Seq(KnownCommands), NEW t \in Seq(KnownCommands), Len(t) <= Len(s),
           \A i \in 1 .. Len(t) : t[i] = s[i]
    PROVE  t = SubSeq(s, 1, Len(t))
<1>1. PICK k \in Nat : k = Len(t)
  BY LenProperties
<1>2. 1 \in Nat \ {0} /\ k \in Int /\ k <= Len(s)
  BY <1>1
<1>3. SubSeq(s, 1, k) \in Seq(KnownCommands) /\ Len(SubSeq(s, 1, k)) = IF 1 <= k THEN k - 1 + 1 ELSE 0
  BY <1>2, Stretch
<1>4. \A i \in 1 .. k - 1 + 1 : SubSeq(s, 1, k)[i] = s[1 + i - 1]
  BY <1>2, StretchElement
<1>5. Len(SubSeq(s, 1, k)) = k /\ \A i \in 1 .. k : SubSeq(s, 1, k)[i] = t[i]
  BY <1>1, <1>3, <1>4
<1>6. SubSeq(s, 1, k) = t
  BY <1>1, <1>3, <1>5, SeqEqual
<1> QED  BY <1>1, <1>6

LEMMA PrefixOf ==
    ASSUME NEW s \in Seq(KnownCommands), NEW k \in Nat, k <= Len(s)
    PROVE  /\ SubSeq(s, 1, k) \in Seq(KnownCommands)
           /\ Len(SubSeq(s, 1, k)) = k
           /\ \A i \in 1 .. k : SubSeq(s, 1, k)[i] = s[i]
<1>1. 1 \in Nat \ {0} /\ k \in Int
  OBVIOUS
<1>2. SubSeq(s, 1, k) \in Seq(KnownCommands) /\ Len(SubSeq(s, 1, k)) = IF 1 <= k THEN k - 1 + 1 ELSE 0
  BY <1>1, Stretch
<1>3. \A i \in 1 .. k - 1 + 1 : SubSeq(s, 1, k)[i] = s[1 + i - 1]
  BY <1>1, StretchElement
<1> QED  BY <1>2, <1>3

\* Shared beginnings are shared by what is shorter.
LEMMA PrefixShorter ==
    ASSUME NEW s \in Seq(KnownCommands), NEW t \in Seq(KnownCommands),
           NEW k \in Nat, NEW j \in Nat, j <= k, k <= Len(s), k <= Len(t),
           SubSeq(s, 1, k) = SubSeq(t, 1, k)
    PROVE  SubSeq(s, 1, j) = SubSeq(t, 1, j)
<1>1. j <= Len(s) /\ j <= Len(t)
  BY LenProperties
<1>2. \A i \in 1 .. j : i \in 1 .. k
  OBVIOUS
<1>3. \A i \in 1 .. k : s[i] = t[i]
  BY PrefixOf
<1>4. /\ SubSeq(s, 1, j) \in Seq(KnownCommands)
      /\ Len(SubSeq(s, 1, j)) = j
      /\ \A i \in 1 .. j : SubSeq(s, 1, j)[i] = s[i]
  BY <1>1, PrefixOf
<1>5. /\ SubSeq(t, 1, j) \in Seq(KnownCommands)
      /\ Len(SubSeq(t, 1, j)) = j
      /\ \A i \in 1 .. j : SubSeq(t, 1, j)[i] = t[i]
  BY <1>1, PrefixOf
<1>6. \A i \in 1 .. j : SubSeq(s, 1, j)[i] = SubSeq(t, 1, j)[i]
  BY <1>2, <1>3, <1>4, <1>5
<1> QED  BY <1>4, <1>5, <1>6, SeqEqual

\* Entries up to index k give the first k commands.
LEMMA AbovePrefix ==
    ASSUME NEW cmds \in Seq(KnownCommands), NEW lg \in Seq(KnownEntries), NEW k \in Nat,
           Len(cmds) <= k, k <= Len(cmds) + Len(lg)
    PROVE  /\ SubSeq(lg, 1, k - Len(cmds)) \in Seq(KnownEntries)
           /\ Above(cmds, SubSeq(lg, 1, k - Len(cmds))) = SubSeq(Above(cmds, lg), 1, k)
<1>1. PICK c \in Nat, l \in Nat : c = Len(cmds) /\ l = Len(lg)
  BY LenProperties
<1>2. PICK d \in Nat : d = k - c /\ d <= l
  <2>1. c <= k /\ k <= c + l
    BY <1>1
  <2> QED  BY <2>1
<1>3. 1 \in Nat \ {0} /\ d \in Int
  OBVIOUS
<1>4. PICK part : part = SubSeq(lg, 1, d)
  OBVIOUS
<1>5. part \in Seq(KnownEntries) /\ Len(part) = d
  BY <1>1, <1>2, <1>3, <1>4, Stretch
<1>6. \A i \in 1 .. d : part[i] = lg[i]
  <2>1. \A i \in 1 .. d - 1 + 1 : part[i] = lg[1 + i - 1]
    BY <1>1, <1>2, <1>3, <1>4, StretchElement
  <2> QED  BY <2>1
<1>7. PICK all, short : all = Above(cmds, lg) /\ short = Above(cmds, part)
  OBVIOUS
<1>8. /\ all \in Seq(KnownCommands)
      /\ Len(all) = c + l
      /\ \A i \in 1 .. c : all[i] = cmds[i]
      /\ \A i \in c + 1 .. c + l : all[i] = lg[i - c].cmd
  BY <1>1, <1>7, AboveTyped
<1>9. /\ short \in Seq(KnownCommands)
      /\ Len(short) = c + d
      /\ \A i \in 1 .. c : short[i] = cmds[i]
      /\ \A i \in c + 1 .. c + d : short[i] = part[i - c].cmd
  BY <1>1, <1>5, <1>7, AboveTyped
<1>10. ASSUME NEW i \in 1 .. k PROVE short[i] = all[i]
  <2>1. CASE i <= c
    BY <1>8, <1>9, <2>1
  <2>2. CASE i > c
    <3>1. i \in c + 1 .. c + d /\ i \in c + 1 .. c + l /\ i - c \in 1 .. d
      BY <1>2, <2>2
    <3> QED  BY <1>6, <1>8, <1>9, <3>1
  <2> QED  BY <2>1, <2>2
<1>11. Len(short) = k /\ k <= Len(all)
  BY <1>1, <1>2, <1>8, <1>9
<1>12. short = SubSeq(all, 1, k)
  BY <1>8, <1>9, <1>10, <1>11, PrefixIs
<1> QED  BY <1>1, <1>2, <1>4, <1>5, <1>7, <1>12

\* An image is the beginning of what stands above it.
LEMMA AboveImage ==
    ASSUME NEW cmds \in Seq(KnownCommands), NEW lg \in Seq(KnownEntries)
    PROVE  cmds = SubSeq(Above(cmds, lg), 1, Len(cmds))
<1>1. PICK all : all = Above(cmds, lg)
  OBVIOUS
<1>2. /\ all \in Seq(KnownCommands)
      /\ Len(cmds) <= Len(all)
      /\ \A i \in 1 .. Len(cmds) : cmds[i] = all[i]
  BY <1>1, AboveTyped
<1>3. cmds = SubSeq(all, 1, Len(cmds))
  BY <1>2, PrefixIs
<1> QED  BY <1>1, <1>3

\* Compacting up to index k loses nothing.
LEMMA AboveCompacted ==
    ASSUME NEW cmds \in Seq(KnownCommands), NEW lg \in Seq(KnownEntries), NEW k \in Nat,
           Len(cmds) <= k, k <= Len(cmds) + Len(lg)
    PROVE  Above(SubSeq(Above(cmds, lg), 1, k), SubSeq(lg, k - Len(cmds) + 1, Len(lg)))
             = Above(cmds, lg)
<1>1. PICK c \in Nat, l \in Nat : c = Len(cmds) /\ l = Len(lg)
  BY LenProperties
<1>2. PICK d \in Nat : d = k - c /\ d <= l
  <2>1. c <= k /\ k <= c + l
    BY <1>1
  <2> QED  BY <2>1
<1>3. d + 1 \in Nat \ {0} /\ l \in Int /\ l <= Len(lg)
  BY <1>1
<1>4. PICK rest : rest = SubSeq(lg, d + 1, l)
  OBVIOUS
<1>5. rest \in Seq(KnownEntries) /\ Len(rest) = l - d
  <2>1. rest \in Seq(KnownEntries) /\ Len(rest) = IF d + 1 <= l THEN l - (d + 1) + 1 ELSE 0
    BY <1>3, <1>4, Stretch
  <2> QED  BY <1>2, <2>1
<1>6. \A i \in 1 .. l - d : rest[i] = lg[d + i]
  <2>1. \A i \in 1 .. l - (d + 1) + 1 : rest[i] = lg[d + 1 + i - 1]
    BY <1>3, <1>4, StretchElement
  <2>2. \A i \in 1 .. l - d : i \in 1 .. l - (d + 1) + 1 /\ d + 1 + i - 1 = d + i
    OBVIOUS
  <2> QED  BY <2>1, <2>2
<1>7. PICK all : all = Above(cmds, lg)
  OBVIOUS
<1>8. /\ all \in Seq(KnownCommands)
      /\ Len(all) = c + l
      /\ \A i \in c + 1 .. c + l : all[i] = lg[i - c].cmd
  BY <1>1, <1>7, AboveTyped
<1>9. PICK short : short = SubSeq(all, 1, k)
  OBVIOUS
<1>10. /\ short \in Seq(KnownCommands)
       /\ Len(short) = k
       /\ \A i \in 1 .. k : short[i] = all[i]
  BY <1>1, <1>2, <1>8, <1>9, PrefixOf
<1>11. PICK again : again = Above(short, rest)
  OBVIOUS
<1>12. /\ again \in Seq(KnownCommands)
       /\ Len(again) = k + (l - d)
       /\ \A i \in 1 .. k : again[i] = short[i]
       /\ \A i \in k + 1 .. k + (l - d) : again[i] = rest[i - k].cmd
  <2>1. PICK r : r = l - d
    OBVIOUS
  <2>2. k = Len(short) /\ r = Len(rest)
    BY <1>5, <1>10, <2>1
  <2>3. IsAbove(again, short, rest, k, r)
    BY <1>5, <1>10, <1>11, <2>2, AboveAt
  <2> QED  BY <2>1, <2>3 DEF IsAbove
<1>13. k + (l - d) = c + l
  BY <1>2
<1>14. ASSUME NEW i \in 1 .. c + l PROVE again[i] = all[i]
  <2>1. CASE i <= k
    BY <1>10, <1>12, <2>1
  <2>2. CASE i > k
    <3>1. /\ i \in k + 1 .. k + (l - d)
          /\ i - k \in 1 .. l - d
          /\ i \in c + 1 .. c + l
          /\ d + (i - k) = i - c
      BY <1>2, <2>2
    <3>2. again[i] = rest[i - k].cmd
      BY <1>12, <3>1
    <3>3. rest[i - k] = lg[d + (i - k)]
      BY <1>6, <3>1
    <3>4. all[i] = lg[i - c].cmd
      BY <1>8, <3>1
    <3> QED  BY <3>1, <3>2, <3>3, <3>4
  <2> QED  BY <2>1, <2>2
<1>15. again = all
  BY <1>8, <1>12, <1>13, <1>14, SeqEqual
<1> QED  BY <1>1, <1>2, <1>4, <1>7, <1>9, <1>11, <1>15

\* Appending entries in two parts or at once.
LEMMA AboveTwice ==
    ASSUME NEW cmds \in Seq(KnownCommands), NEW lg \in Seq(KnownEntries),
           NEW new \in Seq(KnownEntries)
    PROVE  /\ lg \o new \in Seq(KnownEntries)
           /\ Above(Above(cmds, lg), new) = Above(cmds, lg \o new)
<1>1. PICK c \in Nat, l \in Nat, w \in Nat : c = Len(cmds) /\ l = Len(lg) /\ w = Len(new)
  BY LenProperties
<1>2. PICK both : both = lg \o new
  OBVIOUS
<1>3. /\ both \in Seq(KnownEntries)
      /\ Len(both) = l + w
      /\ \A i \in 1 .. l + w : both[i] = IF i <= l THEN lg[i] ELSE new[i - l]
  BY <1>1, <1>2, ConcatProperties
<1>4. PICK one, two, all :
        one = Above(cmds, lg) /\ two = Above(one, new) /\ all = Above(cmds, both)
  OBVIOUS
<1>5. /\ one \in Seq(KnownCommands)
      /\ Len(one) = c + l
      /\ \A i \in 1 .. c : one[i] = cmds[i]
      /\ \A i \in c + 1 .. c + l : one[i] = lg[i - c].cmd
  BY <1>1, <1>4, AboveTyped
<1>6. /\ two \in Seq(KnownCommands)
      /\ Len(two) = c + l + w
      /\ \A i \in 1 .. c + l : two[i] = one[i]
      /\ \A i \in c + l + 1 .. c + l + w : two[i] = new[i - (c + l)].cmd
  <2>1. PICK k : k = c + l
    OBVIOUS
  <2>2. w = Len(new) /\ two = Above(one, new) /\ k = Len(one)
    BY <1>1, <1>4, <1>5, <2>1
  <2>3. IsAbove(two, one, new, k, w)
    BY <1>5, <2>2, AboveAt
  <2> QED  BY <2>1, <2>3 DEF IsAbove
<1>7. /\ all \in Seq(KnownCommands)
      /\ Len(all) = c + (l + w)
      /\ \A i \in 1 .. c : all[i] = cmds[i]
      /\ \A i \in c + 1 .. c + (l + w) : all[i] = both[i - c].cmd
  <2>1. PICK k : k = l + w
    OBVIOUS
  <2>2. c = Len(cmds) /\ all = Above(cmds, both) /\ k = Len(both)
    BY <1>1, <1>3, <1>4, <2>1
  <2>3. IsAbove(all, cmds, both, c, k)
    BY <1>3, <2>2, AboveAt
  <2> QED  BY <2>1, <2>3 DEF IsAbove
<1>8. ASSUME NEW i \in 1 .. c + l + w PROVE two[i] = all[i]
  <2>1. CASE i <= c
    <3>1. i \in 1 .. c /\ i \in 1 .. c + l
      BY <2>1
    <3> QED  BY <1>5, <1>6, <1>7, <3>1
  <2>2. CASE i > c /\ i <= c + l
    <3>1. /\ i \in c + 1 .. c + l
          /\ i \in 1 .. c + l
          /\ i \in c + 1 .. c + (l + w)
          /\ i - c \in 1 .. l + w
          /\ i - c <= l
      BY <2>2
    <3> QED  BY <1>3, <1>5, <1>6, <1>7, <3>1
  <2>3. CASE i > c + l
    <3>1. /\ i \in c + l + 1 .. c + l + w
          /\ i \in c + 1 .. c + (l + w)
          /\ i - c \in 1 .. l + w
          /\ ~(i - c <= l)
          /\ (i - c) - l = i - (c + l)
      BY <2>3
    <3>2. both[i - c] = new[(i - c) - l]
      BY <1>3, <3>1
    <3>3. two[i] = new[i - (c + l)].cmd
      BY <1>6, <3>1
    <3>4. all[i] = both[i - c].cmd
      BY <1>7, <3>1
    <3> QED  BY <3>1, <3>2, <3>3, <3>4
  <2> QED  BY <2>1, <2>2, <2>3
<1>9. Len(two) = Len(all)
  BY <1>6, <1>7
<1>10. two = all
  BY <1>6, <1>7, <1>8, <1>9, SeqEqual
<1> QED  BY <1>2, <1>3, <1>4, <1>10

\* What is left of a message above the snapshot starts there.
LEMMA AboveBasePast ==
    ASSUME Shape, NEW n \in Nodes, NEW m \in network, m.type = "AppendEntries",
           NEW a, a = AboveBase(n, m), Len(a.entries) > 0
    PROVE  Base(n) <= a.prevIndex
<1>1. m.prevIndex \in Nat /\ m.entries \in Seq(KnownEntries) /\ Base(n) \in Nat
  BY IndexTypes DEF Shape, ShapedNetwork, ShapedMessage
<1>2. PICK l \in Nat : l = Len(m.entries)
  BY <1>1, LenProperties
<1>3. PICK c : c = IF m.prevIndex < Base(n) THEN Smaller(l, Base(n) - m.prevIndex) ELSE 0
  OBVIOUS
<1>4. a.prevIndex = m.prevIndex + c /\ a.entries = SubSeq(m.entries, c + 1, l)
  BY <1>2, <1>3 DEF AboveBase
<1>5. c \in Nat /\ c + 1 \in Nat \ {0}
  BY <1>1, <1>2, <1>3 DEF Smaller
<1>6. Len(a.entries) = IF c + 1 <= l THEN l - (c + 1) + 1 ELSE 0
  BY <1>1, <1>2, <1>4, <1>5, Stretch
<1>7. c < l
  BY <1>2, <1>5, <1>6
<1> QED  BY <1>1, <1>2, <1>3, <1>4, <1>5, <1>7 DEF Smaller

\* A message that replaces nothing committed leaves n a configuration and a log
\* that fit.
LEMMA MergedFits ==
    ASSUME Shape, NEW n \in Nodes, Derived(n), NEW a, a.prevIndex \in Nat,
           a.entries \in Seq(KnownEntries), Consistent(n, a),
           Len(a.entries) > 0 => Base(n) <= a.prevIndex,
           \A i \in Conflicts(n, a) : i > commitIndex[n]
    PROVE  Fitting(n, Merged(n, a).log, Merged(n, a).config)
<1>1. /\ Base(n) \in Nat
      /\ Len(log[n]) \in Nat
      /\ LastIndex(n) \in Nat
      /\ LastIndex(n) = Base(n) + Len(log[n])
      /\ log[n] \in Seq(KnownEntries)
      /\ config[n] \in KnownConfigs
      /\ snapshot[n] \in KnownSnapshots
      /\ commitIndex[n] \in Nat
      /\ Base(n) <= commitIndex[n]
      /\ SnapshotFull(snapshot[n])
  BY IndexTypes DEF LastIndex, Shape, ShapedLogs
<1>2. Len(a.entries) \in Nat
  BY LenProperties
<1>3. CASE Conflicts(n, a) = {}
  BY <1>3 DEF Merged, Derived
<1>4. CASE Conflicts(n, a) # {}
  <2> DEFINE C == Conflicts(n, a)
             end == a.prevIndex + Len(a.entries)
  <2>1. PICK first : first = Min(C)
    OBVIOUS
  <2>2. first \in C /\ \A i \in C : first <= i
    <3>1. C \in SUBSET Int /\ \A i \in C : a.prevIndex + 1 <= i
      BY <1>2 DEF Conflicts
    <3>2. a.prevIndex + 1 \in Int
      OBVIOUS
    <3> HIDE DEF C
    <3> QED  BY <1>4, <2>1, <3>1, <3>2, BoundedMin DEF C
  <2>3. first \in a.prevIndex + 1 .. end /\ first > commitIndex[n]
    BY <2>2 DEF Conflicts
  <2>4. a.prevIndex <= LastIndex(n)
    BY <1>1 DEF Consistent, Larger
  <2>5. first <= LastIndex(n) + 1
    <3>1. CASE end <= LastIndex(n)
      BY <1>1, <1>2, <2>3, <3>1
    <3>2. CASE end > LastIndex(n)
      <4>1. LastIndex(n) + 1 \in a.prevIndex + 1 .. end
        <5>1. PICK p \in Int, e \in Int, x \in Int :
                p = a.prevIndex /\ e = end /\ x = LastIndex(n)
          BY <1>1, <1>2
        <5>2. p <= x /\ e > x
          BY <2>4, <3>2, <5>1
        <5>3. x + 1 \in p + 1 .. e
          BY <5>2
        <5> QED  BY <5>1, <5>3
      <4>2. LastIndex(n) + 1 \in C
        BY <1>1, <4>1 DEF Conflicts
      <4> QED  BY <2>2, <4>2
    <3> QED  BY <1>1, <1>2, <3>1, <3>2
  <2>6. PICK j \in Nat : j = first - 1
    BY <1>2, <2>3
  <2>7. /\ commitIndex[n] <= j
        /\ Base(n) <= j
        /\ j <= Base(n) + Len(log[n])
    <3>1. PICK c \in Nat, b \in Nat, x \in Nat :
            c = commitIndex[n] /\ b = Base(n) /\ x = LastIndex(n)
      BY <1>1
    <3>2. first \in Int /\ first > c /\ first <= x + 1 /\ b <= c
      BY <1>1, <1>2, <2>3, <2>5, <3>1
    <3>3. c <= j /\ b <= j /\ j <= x
      BY <2>6, <3>2
    <3> QED  BY <1>1, <3>1, <3>3
  <2>8. PICK s : s = snapshot[n]
    OBVIOUS
  <2>9. /\ s.image \in Seq(KnownCommands)
        /\ Len(s.image) = Base(n)
        /\ Base(n) = s.lastIndex
        /\ SnapshotFull(s)
        /\ SnapshotKnows(s)
    BY <1>1, <2>8 DEF SnapshotFull, KnownSnapshots, Base, Derived
  <2>10. PICK all : all = Above(s.image, log[n])
    OBVIOUS
  <2>11. PICK kept, new, below :
           /\ kept = SubSeq(log[n], 1, j - Base(n))
           /\ new = SubSeq(a.entries, first - a.prevIndex, Len(a.entries))
           /\ below = IF config[n].index >= first THEN ConfigIn(kept, s) ELSE config[n]
    OBVIOUS
  <2>12. Merged(n, a) = [log |-> kept \o new, config |-> ConfigAfter(new, j, below)]
    BY <1>4, <2>1, <2>6, <2>8, <2>11 DEF Merged
  <2>13. /\ kept \in Seq(KnownEntries)
         /\ Above(s.image, kept) = SubSeq(all, 1, j)
    <3>1. /\ Len(s.image) <= j
          /\ j <= Len(s.image) + Len(log[n])
      BY <2>7, <2>9
    <3>2. PICK k : k = j - Len(s.image)
      OBVIOUS
    <3>3. /\ SubSeq(log[n], 1, k) \in Seq(KnownEntries)
          /\ Above(s.image, SubSeq(log[n], 1, k)) = SubSeq(Above(s.image, log[n]), 1, j)
      BY <1>1, <2>9, <3>1, <3>2, AbovePrefix
    <3> QED  BY <2>9, <2>10, <2>11, <3>2, <3>3
  <2>14. /\ all \in Seq(KnownCommands)
         /\ Len(all) = Base(n) + Len(log[n])
    BY <1>1, <2>9, <2>10, AboveTyped
  <2>15. PICK part : part = SubSeq(all, 1, j)
    OBVIOUS
  <2>16. part \in Seq(KnownCommands) /\ Len(part) = j
    BY <2>7, <2>14, <2>15, PrefixOf
  <2>17. Governs(config[n], all, Base(n)) /\ applied[n] = SubSeq(all, 1, commitIndex[n])
    BY <2>8, <2>10 DEF Derived, Fitting
  <2>18. Governs(below, part, Base(n))
    <3>1. CASE config[n].index >= first
      <4>1. Governs(ConfigIn(kept, s), Above(s.image, kept), s.lastIndex)
        BY <2>9, <2>13, ConfigInGoverns
      <4> QED  BY <2>9, <2>11, <2>13, <2>15, <3>1, <4>1
    <3>2. CASE ~(config[n].index >= first)
      <4>1. config[n].index \in Nat
        BY <1>1 DEF KnownConfigs
      <4>2. config[n].index <= j
        BY <1>2, <2>3, <2>6, <3>2, <4>1
      <4>3. j <= Len(all)
        BY <2>7, <2>14
      <4>4. Governs(config[n], SubSeq(all, 1, j), Base(n))
        BY <1>1, <2>7, <2>14, <2>17, <4>1, <4>2, <4>3, GovernsBefore
      <4> QED  BY <2>11, <2>15, <3>2, <4>4
    <3> QED  BY <3>1, <3>2
  <2>19. new \in Seq(KnownEntries)
    <3>1. first - a.prevIndex \in Nat \ {0} /\ Len(a.entries) \in Int
      BY <1>2, <2>3
    <3>2. Len(a.entries) <= Len(a.entries)
      BY <1>2
    <3> QED  BY <2>11, <3>1, <3>2, Stretch
  <2>20. PICK two : two = Above(s.image, kept \o new)
    OBVIOUS
  <2>21. two = Above(part, new)
    <3>1. Above(Above(s.image, kept), new) = Above(s.image, kept \o new)
      BY <2>9, <2>13, <2>19, AboveTwice
    <3> QED  BY <2>13, <2>15, <2>20, <3>1, Zenon
  <2>22. Governs(ConfigAfter(new, j, below), two, Base(n))
    <3>1. Base(n) <= Len(part)
      BY <2>7, <2>16
    <3>2. Governs(ConfigAfter(new, Len(part), below), Above(part, new), Base(n))
      BY <1>1, <2>16, <2>18, <2>19, <3>1, ConfigExtends
    <3> QED  BY <2>16, <2>21, <3>2
  <2>23. two \in Seq(KnownCommands) /\ Len(two) = j + Len(new) /\ Len(new) \in Nat
    BY <2>16, <2>19, <2>21, AboveTyped
  <2>24. part = SubSeq(two, 1, j)
    BY <2>16, <2>19, <2>21, AboveImage
  <2>25. applied[n] = SubSeq(two, 1, commitIndex[n])
    <3>1. j <= Len(all) /\ j <= Len(two)
      BY <2>7, <2>14, <2>23
    <3>2. SubSeq(all, 1, j) = SubSeq(two, 1, j)
      BY <2>15, <2>24
    <3>3. SubSeq(all, 1, commitIndex[n]) = SubSeq(two, 1, commitIndex[n])
      BY <1>1, <2>7, <2>14, <2>23, <3>1, <3>2, PrefixShorter
    <3> QED  BY <2>17, <3>3
  <2>26. commitIndex[n] <= Len(two)
    BY <1>1, <2>7, <2>23
  <2>27. Fitting(n, kept \o new, ConfigAfter(new, j, below))
    BY <2>8, <2>20, <2>22, <2>25, <2>26 DEF Fitting
  <2> QED  BY <2>12, <2>27
<1> QED  BY <1>3, <1>4

\* fed are the commands of the f entries of lg from the one after d on.
FedFrom(fed, lg, d, f) == fed = [i \in 1 .. f |-> lg[d + i].cmd]

\* fed takes the first k of all to the first ci.
FedOn(fed, all, k, ci) == SubSeq(all, 1, k) \o fed = SubSeq(all, 1, ci)

\* What is fed to the state machine goes on where it stopped.
LEMMA FedExtends ==
    ASSUME NEW cmds \in Seq(KnownCommands), NEW lg \in Seq(KnownEntries), NEW b,
           b = Len(cmds), NEW k \in Nat, b <= k, NEW ci \in Nat, k < ci, NEW all,
           all = Above(cmds, lg), ci <= Len(all), NEW d, d = k - b, NEW f, f = ci - k,
           NEW fed, FedFrom(fed, lg, d, f)
    PROVE  FedOn(fed, all, k, ci)
<1>1. PICK l \in Nat : l = Len(lg)
  BY LenProperties
<1>2. /\ all \in Seq(KnownCommands)
      /\ Len(all) = b + l
      /\ \A i \in b + 1 .. b + l : all[i] = lg[i - b].cmd
  BY <1>1, AboveTyped
<1>3. f \in Nat /\ b \in Nat
  BY LenProperties
<1>4. \A i \in 1 .. f : /\ k + i \in b + 1 .. b + l
                        /\ k + i \in 1 .. b + l
                        /\ (k + i) - b = (k - b) + i
  BY <1>2, <1>3
<1>5. \A i \in 1 .. f : fed[i] = all[k + i]
  <2> TAKE i \in 1 .. f
  <2>1. fed[i] = lg[(k - b) + i].cmd
    BY <1>3 DEF FedFrom
  <2>2. all[k + i] = lg[(k + i) - b].cmd
    <3>1. PICK j : j = k + i
      OBVIOUS
    <3>2. j \in b + 1 .. b + l
      BY <1>4, <3>1
    <3>3. all[j] = lg[j - b].cmd
      BY <1>2, <3>2
    <3> QED  BY <3>1, <3>3
  <2> QED  BY <1>4, <2>1, <2>2
<1>6. \A i \in 1 .. f : all[k + i] \in KnownCommands
  BY <1>2, <1>4, ElementOfSeq
<1>7. fed \in Seq(KnownCommands) /\ Len(fed) = f
  <2>1. DOMAIN fed = 1 .. f /\ fed = [i \in 1 .. f |-> fed[i]]
    BY DEF FedFrom
  <2>2. \A i \in 1 .. f : fed[i] \in KnownCommands
    BY <1>5, <1>6
  <2>3. fed \in [1 .. f -> KnownCommands]
    BY <2>1, <2>2
  <2> QED  BY <2>3, FunctionIsSeq
<1>8. PICK first : first = SubSeq(all, 1, k)
  OBVIOUS
<1>9. k <= Len(all)
  BY <1>2
<1>10. /\ first \in Seq(KnownCommands)
       /\ Len(first) = k
       /\ \A i \in 1 .. k : first[i] = all[i]
  BY <1>2, <1>8, <1>9, PrefixOf
<1>11. PICK both : both = first \o fed
  OBVIOUS
<1>12. /\ both \in Seq(KnownCommands)
       /\ Len(both) = k + f
       /\ \A i \in 1 .. k + f : both[i] = IF i <= k THEN first[i] ELSE fed[i - k]
  <2>1. /\ first \o fed \in Seq(KnownCommands)
        /\ Len(first \o fed) = Len(first) + Len(fed)
        /\ \A i \in 1 .. Len(first) + Len(fed) :
             (first \o fed)[i] = IF i <= Len(first) THEN first[i] ELSE fed[i - Len(first)]
    BY ONLY <1>7, <1>10, ConcatProperties
  <2> QED  BY ONLY <1>7, <1>10, <1>11, <2>1
<1>13. \A i \in 1 .. k + f : both[i] = all[i]
  <2> TAKE i \in 1 .. k + f
  <2>1. CASE i <= k
    <3>1. i \in 1 .. k
      BY <2>1
    <3>2. both[i] = first[i]
      BY <1>12, <2>1
    <3> QED  BY <1>10, <3>1, <3>2
  <2>2. CASE ~(i <= k)
    <3>1. i - k \in 1 .. f /\ k + (i - k) = i
      BY <2>2
    <3>2. both[i] = fed[i - k]
      BY <1>12, <2>2
    <3>3. fed[i - k] = all[k + (i - k)]
      BY <1>5, <3>1
    <3> QED  BY <3>1, <3>2, <3>3
  <2> QED  BY <2>1, <2>2
<1>14. Len(both) = ci
  BY <1>3, <1>12
<1>15. \A i \in 1 .. Len(both) : both[i] = all[i]
  BY <1>12, <1>13
<1>16. both = SubSeq(all, 1, ci)
  BY <1>2, <1>12, <1>14, <1>15, PrefixIs
<1> QED  BY <1>8, <1>11, <1>16 DEF FedOn

\* A server whose log becomes lg goes on fitting when it commits up to ci.
LEMMA SetCommitFitting ==
    ASSUME Shape, NEW n \in Nodes, SnapshotKnows(snapshot[n]),
           NEW lg \in Seq(KnownEntries), NEW cfg \in KnownConfigs, Fitting(n, lg, cfg),
           NEW ci \in Nat, ci > commitIndex[n] => ci <= Base(n) + Len(lg), NEW t,
           SetCommitIndex(n, lg, ci, t), config'[n] = cfg
    PROVE  Derived(n)'
<1>1. /\ Base(n) \in Nat
      /\ commitIndex[n] \in Nat
      /\ Base(n) <= commitIndex[n]
      /\ SnapshotFull(snapshot[n])
      /\ snapshot \in [Nodes -> KnownSnapshots]
      /\ log \in [Nodes -> Seq(KnownEntries)]
      /\ commitIndex \in [Nodes -> Nat]
      /\ applied \in [Nodes -> Seq(KnownCommands)]
  BY IndexTypes DEF Shape, ShapedLogs
<1>2. PICK s : s = snapshot[n]
  OBVIOUS
<1>3. /\ s.image \in Seq(KnownCommands)
      /\ Len(s.image) = Base(n)
      /\ Base(n) = s.lastIndex
      /\ SnapshotFull(s)
      /\ SnapshotKnows(s)
  BY <1>1, <1>2 DEF SnapshotFull, KnownSnapshots, Base
<1>4. PICK all : all = Above(s.image, lg)
  OBVIOUS
<1>5. /\ Governs(cfg, all, s.lastIndex)
      /\ commitIndex[n] <= Len(all)
      /\ applied[n] = SubSeq(all, 1, commitIndex[n])
  BY <1>2, <1>3, <1>4 DEF Fitting
<1>6. all \in Seq(KnownCommands) /\ Len(all) = Base(n) + Len(lg) /\ Len(lg) \in Nat
  BY <1>3, <1>4, AboveTyped
<1>7. CASE ci <= commitIndex[n]
  <2>1. /\ log' = [log EXCEPT ![n] = lg]
        /\ UNCHANGED <<snapshot, commitIndex, applied>>
    BY <1>1, <1>7 DEF SetCommitIndex, commitVars
  <2>2. log'[n] = lg /\ snapshot'[n] = s /\ commitIndex'[n] = commitIndex[n]
        /\ applied'[n] = applied[n]
    BY <1>1, <1>2, <2>1
  <2> QED  BY <1>3, <1>4, <1>5, <2>2 DEF Derived, Fitting, Base
<1>8. CASE ci > commitIndex[n]
  <2> DEFINE fed == [i \in 1 .. ci - commitIndex[n] |->
                       lg[commitIndex[n] - Base(n) + i].cmd]
             history == applied[n] \o fed
  <2>1. /\ commitIndex' = [commitIndex EXCEPT ![n] = ci]
        /\ applied' = [applied EXCEPT ![n] = history]
        /\ IF Compacts(n, ci)
           THEN /\ snapshot' = [snapshot EXCEPT ![n] = Compacted(n, lg, ci, history)]
                /\ log' = [log EXCEPT ![n] = SubSeq(lg, ci - Base(n) + 1, Len(lg))]
           ELSE /\ log' = [log EXCEPT ![n] = lg]
                /\ UNCHANGED snapshot
    <3>1. ~(ci <= commitIndex[n])
      BY <1>1, <1>8
    <3> QED  BY <3>1, Zenon DEF SetCommitIndex
  <2>2. ci <= Len(all)
    BY <1>6, <1>8
  <2>3. history = SubSeq(all, 1, ci)
    <3>1. PICK k, b : k = commitIndex[n] /\ b = Base(n)
      OBVIOUS
    <3>2. k \in Nat /\ b \in Nat /\ b <= k /\ k < ci /\ Len(s.image) = b
      BY <1>1, <1>3, <1>8, <3>1
    <3>3. PICK d, f : d = k - b /\ f = ci - k
      OBVIOUS
    <3>4. FedFrom(fed, lg, d, f)
      BY <3>1, <3>3, Zenon DEF FedFrom
    <3> HIDE DEF fed
    <3>5. FedOn(fed, all, k, ci)
      <4>1. PICK cmds \in Seq(KnownCommands) : cmds = s.image
        BY <1>3
      <4>2. b = Len(cmds) /\ all = Above(cmds, lg)
        BY <1>4, <3>2, <4>1
      <4> QED  BY <2>2, <3>2, <3>3, <3>4, <4>2, FedExtends
    <3> QED  BY <1>5, <3>1, <3>5, Zenon DEF FedOn
  <2> HIDE DEF fed, history
  <2>4. commitIndex'[n] = ci /\ applied'[n] = history
    BY <1>1, <2>1
  <2>5. CASE ~Compacts(n, ci)
    <3>1. log'[n] = lg /\ snapshot'[n] = s
      BY <1>1, <1>2, <2>1, <2>5
    <3> QED  BY <1>3, <1>4, <1>5, <2>2, <2>3, <2>4, <3>1 DEF Derived, Fitting, Base
  <2>6. CASE Compacts(n, ci)
    <3>1. PICK u \in Nat : u = ci - Len(s.image)
      BY <1>1, <1>3, <1>8
    <3>2. PICK part, rest : part = SubSeq(lg, 1, u) /\ rest = SubSeq(lg, u + 1, Len(lg))
      OBVIOUS
    <3>3. PICK s2 : s2 = Compacted(n, lg, ci, history)
      OBVIOUS
    <3>4. log'[n] = rest /\ snapshot'[n] = s2
      BY <1>1, <1>3, <2>1, <2>6, <3>1, <3>2, <3>3
    <3>5. s2.image = history /\ s2.lastIndex = ci /\ s2.voters = ConfigIn(part, s).voters
      BY <1>2, <1>3, <3>1, <3>2, <3>3 DEF Compacted
    <3>6. Len(s.image) <= ci /\ ci <= Len(s.image) + Len(lg)
      BY <1>1, <1>3, <1>6, <1>8
    <3>7. part \in Seq(KnownEntries) /\ Above(s.image, part) = history
      <4>1. /\ SubSeq(lg, 1, ci - Len(s.image)) \in Seq(KnownEntries)
            /\ Above(s.image, SubSeq(lg, 1, ci - Len(s.image))) = SubSeq(Above(s.image, lg), 1, ci)
        BY <1>3, <3>6, AbovePrefix
      <4> QED  BY <1>4, <2>3, <3>1, <3>2, <4>1
    <3>8. SnapshotKnows(s2)
      <4>1. Governs(ConfigIn(part, s), Above(s.image, part), s.lastIndex)
        BY <1>3, <3>7, ConfigInGoverns
      <4> QED  BY <3>5, <3>7, <4>1 DEF Governs, SnapshotKnows
    <3>9. Above(history, rest) = all
      <4>1. Above(SubSeq(Above(s.image, lg), 1, ci), SubSeq(lg, ci - Len(s.image) + 1, Len(lg)))
              = Above(s.image, lg)
        BY <1>3, <3>6, AboveCompacted
      <4> QED  BY <1>4, <2>3, <3>1, <3>2, <4>1
    <3>10. Governs(cfg, all, ci)
      <4>1. s.lastIndex \in Nat /\ s.lastIndex <= ci /\ cfg.index \in Nat
        BY <1>1, <1>3, <3>6 DEF KnownConfigs
      <4> QED  BY <1>5, <1>6, <4>1, GovernsAbove
    <3> QED  BY <2>2, <2>3, <2>4, <3>4, <3>5, <3>8, <3>9, <3>10 DEF Derived, Fitting, Base
  <2> QED  BY <2>5, <2>6
<1> QED  BY <1>1, <1>7, <1>8

-----------------------------------------------------------------------------
(***************************************************************************)
(* Configurations: what a server stores, and what each handler does to it. *)
(***************************************************************************)
\* The step leaves what k stores and has applied alone.
Stays(k) ==
    /\ log'[k] = log[k]
    /\ snapshot'[k] = snapshot[k]
    /\ config'[k] = config[k]
    /\ commitIndex'[k] = commitIndex[k]
    /\ applied'[k] = applied[k]

Still == UNCHANGED <<log, snapshot, config, commitIndex, applied>>

LEMMA StaysDerived ==
    ASSUME NEW k \in Nodes, Derived(k), Stays(k)
    PROVE  Derived(k)'
BY DEF Derived, Stays, Fitting, Base

\* What a step of n may do to the servers' stores.
Rewrites(n) ==
    /\ \/ UNCHANGED log
       \/ \E x : log' = [log EXCEPT ![n] = x]
    /\ \/ UNCHANGED snapshot
       \/ \E x : snapshot' = [snapshot EXCEPT ![n] = x]
    /\ \/ UNCHANGED config
       \/ \E x : config' = [config EXCEPT ![n] = x]
    /\ \/ UNCHANGED commitIndex
       \/ \E x : commitIndex' = [commitIndex EXCEPT ![n] = x]
    /\ \/ UNCHANGED applied
       \/ \E x : applied' = [applied EXCEPT ![n] = x]

LEMMA RewritesStay ==
    ASSUME Shape, NEW n \in Nodes, Rewrites(n), NEW k \in Nodes \ {n}
    PROVE  Stays(k)
BY DEF Rewrites, Stays, Shape, ShapedLogs

LEMMA StillRewrites ==
    ASSUME NEW n \in Nodes, Still
    PROVE  Rewrites(n)
BY DEF Still, Rewrites

LEMMA SetCommitRewrites ==
    ASSUME NEW n \in Nodes, NEW lg, NEW ci, NEW t, SetCommitIndex(n, lg, ci, t),
           UNCHANGED config \/ \E x : config' = [config EXCEPT ![n] = x]
    PROVE  Rewrites(n)
<1>1. /\ \E x : log' = [log EXCEPT ![n] = x]
      /\ UNCHANGED snapshot \/ \E x : snapshot' = [snapshot EXCEPT ![n] = x]
      /\ UNCHANGED commitIndex \/ \E x : commitIndex' = [commitIndex EXCEPT ![n] = x]
      /\ UNCHANGED applied \/ \E x : applied' = [applied EXCEPT ![n] = x]
  BY Zenon DEF SetCommitIndex, commitVars
<1> QED  BY <1>1 DEF Rewrites

\* A step that leaves n with a derived configuration.
Keeps(n) == Rewrites(n) /\ (Stays(n) \/ Derived(n)')

LEMMA StillKeeps ==
    ASSUME NEW n \in Nodes, Still
    PROVE  Keeps(n)
BY StillRewrites DEF Still, Keeps, Stays

LEMMA AppendEntriesDerived ==
    ASSUME Shape, NEW n \in Nodes, Derived(n), NEW m \in network, m.to = n,
           TruncatesNoCommit, HandleAppendEntries(n, m)
    PROVE  Keeps(n)
<1>1. m.type = "AppendEntries"
  BY DEF HandleAppendEntries
<1>2. PICK a, match : a = AboveBase(n, m) /\ match = a.prevIndex + Len(a.entries)
  OBVIOUS
<1>3. a.prevIndex \in Nat /\ a.entries \in Seq(KnownEntries)
  BY <1>1, <1>2, AboveBaseShaped
<1>4. CASE UNCHANGED <<log, snapshot, config, commitVars>>
  BY <1>4, StillKeeps DEF Still, commitVars
<1>5. CASE /\ m.term >= term[n]
           /\ Consistent(n, a)
           /\ config' = [config EXCEPT ![n] = Merged(n, a).config]
           /\ SetCommitIndex(n, Merged(n, a).log, FollowerCommit(n, m, match), m.term)
  <2>1. Rewrites(n)
    BY <1>5, SetCommitRewrites
  <2>2. \A i \in Conflicts(n, a) : i > commitIndex[n]
    BY <1>1, <1>2, <1>5 DEF TruncatesNoCommit
  <2>3. Len(a.entries) > 0 => Base(n) <= a.prevIndex
    BY <1>1, <1>2, AboveBasePast
  <2>4. Fitting(n, Merged(n, a).log, Merged(n, a).config)
    BY <1>3, <1>5, <2>2, <2>3, MergedFits
  <2>5. PICK lg, cfg, ci :
          lg = Merged(n, a).log /\ cfg = Merged(n, a).config /\ ci = FollowerCommit(n, m, match)
    OBVIOUS
  <2>6. /\ lg \in Seq(KnownEntries)
        /\ cfg \in KnownConfigs
        /\ match > commitIndex[n] => match <= Base(n) + Len(lg)
    BY <1>2, <1>3, <1>5, <2>5, MergedShaped
  <2>7. match \in Nat
    BY <1>2, <1>3, LenProperties
  <2>8. ci \in Nat /\ (ci > commitIndex[n] => ci <= match)
    BY <1>1, <2>5, <2>7, FollowerCommitBounds
  <2>9. ci > commitIndex[n] => ci <= Base(n) + Len(lg)
    BY <2>6, <2>7, <2>8, IndexTypes, LenProperties
  <2>10. config'[n] = cfg
    BY <1>5, <2>5 DEF Shape, ShapedLogs
  <2>11. SetCommitIndex(n, lg, ci, m.term) /\ Fitting(n, lg, cfg) /\ SnapshotKnows(snapshot[n])
    BY <1>5, <2>4, <2>5 DEF Derived
  <2>12. Derived(n)'
    BY <2>6, <2>8, <2>9, <2>10, <2>11, SetCommitFitting
  <2> QED  BY <2>1, <2>12 DEF Keeps
<1>6. \/ UNCHANGED <<log, snapshot, config, commitVars>>
      \/ /\ m.term >= term[n]
         /\ Consistent(n, a)
         /\ config' = [config EXCEPT ![n] = Merged(n, a).config]
         /\ SetCommitIndex(n, Merged(n, a).log, FollowerCommit(n, m, match), m.term)
  BY <1>2, Zenon DEF HandleAppendEntries, persistentVars
<1> QED  BY <1>4, <1>5, <1>6

LEMMA AppendReplyDerived ==
    ASSUME Shape, NEW n \in Nodes, Derived(n), NEW m \in network, HandleAppendReply(n, m)
    PROVE  Keeps(n)
<1>1. CASE Still
  BY <1>1, StillKeeps
<1>2. ASSUME NEW matched, Committable(n, matched) # {}, UNCHANGED config,
             SetCommitIndex(n, log[n], Max(Committable(n, matched)), term[n])
      PROVE  Keeps(n)
  <2>1. PICK ci \in Nat : ci = Max(Committable(n, matched)) /\ ci <= LastIndex(n)
    BY <1>2, NewestCommittable
  <2>2. Rewrites(n)
    BY <1>2, SetCommitRewrites
  <2>3. log[n] \in Seq(KnownEntries) /\ config[n] \in KnownConfigs /\ ci <= Base(n) + Len(log[n])
    BY <2>1, IndexTypes DEF LastIndex
  <2>4. SetCommitIndex(n, log[n], ci, term[n]) /\ config'[n] = config[n]
        /\ Fitting(n, log[n], config[n]) /\ SnapshotKnows(snapshot[n])
    BY <1>2, <2>1 DEF Derived
  <2>5. Derived(n)'
    BY <2>1, <2>3, <2>4, SetCommitFitting
  <2> QED  BY <2>2, <2>5 DEF Keeps
<1>3. \/ Still
      \/ \E matched : /\ Committable(n, matched) # {}
                      /\ UNCHANGED config
                      /\ SetCommitIndex(n, log[n], Max(Committable(n, matched)), term[n])
  BY Zenon DEF HandleAppendReply, StepDown, Still, commitVars
<1> QED  BY <1>1, <1>2, <1>3

\* Whoever starts afresh from snapshot s and the log lg above it has the
\* configuration they put in force.
LEMMA AfreshDerived ==
    ASSUME NEW n \in Nodes, NEW s, SnapshotFull(s), SnapshotKnows(s),
           NEW lg \in Seq(KnownEntries),
           log'[n] = lg, snapshot'[n] = s, config'[n] = ConfigIn(lg, s),
           commitIndex'[n] = s.lastIndex, applied'[n] = s.image
    PROVE  Derived(n)'
<1>1. /\ s.image \in Seq(KnownCommands)
      /\ Len(s.image) = s.lastIndex
      /\ s.lastIndex \in Nat
  BY DEF SnapshotFull, KnownSnapshots
<1>2. PICK all : all = Above(s.image, lg)
  OBVIOUS
<1>3. Governs(ConfigIn(lg, s), all, s.lastIndex)
  BY <1>2, ConfigInGoverns
<1>4. s.lastIndex <= Len(all)
  BY <1>1, <1>2, AboveTyped
<1>5. s.image = SubSeq(all, 1, s.lastIndex)
  BY <1>1, <1>2, AboveImage
<1> QED  BY <1>2, <1>3, <1>4, <1>5 DEF Derived, Fitting, Base

LEMMA InstallSnapshotDerived ==
    ASSUME Shape, NEW n \in Nodes, Derived(n), NEW m \in network,
           m.type = "InstallSnapshot" => SnapshotKnows(m.snapshot),
           HandleInstallSnapshot(n, m)
    PROVE  Keeps(n)
<1>1. CASE Still
  BY <1>1, StillKeeps
<1>2. PICK s, lg : s = m.snapshot /\ lg = InstalledLog(n, s)
  OBVIOUS
<1>3. CASE /\ ~Covered(n, s)
           /\ log' = [log EXCEPT ![n] = lg]
           /\ snapshot' = [snapshot EXCEPT ![n] = s]
           /\ config' = [config EXCEPT ![n] = ConfigIn(lg, s)]
           /\ commitIndex' = [commitIndex EXCEPT ![n] = s.lastIndex]
           /\ applied' = [applied EXCEPT ![n] = s.image]
  <2>1. Rewrites(n)
    BY <1>3, Zenon DEF Rewrites
  <2>2. SnapshotFull(s) /\ SnapshotKnows(s)
    BY <1>2 DEF HandleInstallSnapshot, Shape, ShapedNetwork, ShapedMessage
  <2>3. s.lastIndex \in Nat
    BY <2>2 DEF SnapshotFull, KnownSnapshots
  <2>4. lg \in Seq(KnownEntries)
    <3>1. s.lastIndex - Base(n) + 1 \in Nat \ {0} /\ log[n] \in Seq(KnownEntries)
          /\ Len(log[n]) \in Int /\ Len(log[n]) <= Len(log[n])
      BY <1>3, <2>3, IndexTypes DEF Covered
    <3>2. SubSeq(log[n], s.lastIndex - Base(n) + 1, Len(log[n])) \in Seq(KnownEntries)
      BY <3>1, Stretch
    <3>3. <<>> \in Seq(KnownEntries)
      OBVIOUS
    <3> QED  BY <1>2, <3>2, <3>3 DEF InstalledLog
  <2>5. /\ log'[n] = lg
        /\ snapshot'[n] = s
        /\ config'[n] = ConfigIn(lg, s)
        /\ commitIndex'[n] = s.lastIndex
        /\ applied'[n] = s.image
    BY <1>3 DEF Shape, ShapedLogs
  <2>6. Derived(n)'
    BY <2>2, <2>4, <2>5, AfreshDerived
  <2> QED  BY <2>1, <2>6 DEF Keeps
<1>4. \/ Still
      \/ /\ ~Covered(n, s)
         /\ log' = [log EXCEPT ![n] = lg]
         /\ snapshot' = [snapshot EXCEPT ![n] = s]
         /\ config' = [config EXCEPT ![n] = ConfigIn(lg, s)]
         /\ commitIndex' = [commitIndex EXCEPT ![n] = s.lastIndex]
         /\ applied' = [applied EXCEPT ![n] = s.image]
  BY <1>2, Zenon DEF HandleInstallSnapshot, Still, persistentVars
<1> QED  BY <1>1, <1>3, <1>4

LEMMA CrashDerived ==
    ASSUME Shape, NEW n \in Nodes, Derived(n), Crash(n)
    PROVE  Keeps(n)
<1>1. /\ UNCHANGED <<log, snapshot>>
      /\ config' = [config EXCEPT ![n] = ConfigIn(log[n], snapshot[n])]
      /\ commitIndex' = [commitIndex EXCEPT ![n] = snapshot[n].lastIndex]
      /\ applied' = [applied EXCEPT ![n] = snapshot[n].image]
  BY Zenon DEF Crash, persistentVars, Restored
<1>2. Rewrites(n)
  BY <1>1, Zenon DEF Rewrites
<1>3. PICK s, lg : s = snapshot[n] /\ lg = log[n]
  OBVIOUS
<1>4. /\ SnapshotFull(s)
      /\ SnapshotKnows(s)
      /\ lg \in Seq(KnownEntries)
  BY <1>3 DEF Derived, Shape, ShapedLogs
<1>5. /\ log'[n] = lg
      /\ snapshot'[n] = s
      /\ config'[n] = ConfigIn(lg, s)
      /\ commitIndex'[n] = s.lastIndex
      /\ applied'[n] = s.image
  BY <1>1, <1>3 DEF Shape, ShapedLogs
<1>6. Derived(n)'
  BY <1>4, <1>5, AfreshDerived
<1> QED  BY <1>2, <1>6 DEF Keeps

\* A new entry puts its configuration in force, or none.
LEMMA AppendedFits ==
    ASSUME Shape, NEW n \in Nodes, Derived(n), NEW e \in KnownEntries, NEW cfg,
           cfg = IF e.cmd.kind = "config"
                 THEN [voters |-> e.cmd.voters, index |-> LastIndex(n) + 1] ELSE config[n]
    PROVE  /\ Append(log[n], e) \in Seq(KnownEntries)
           /\ Fitting(n, Append(log[n], e), cfg)
<1>1. PICK lg \in Seq(KnownEntries) : lg = log[n]
  BY IndexTypes
<1>2. PICK s : s = snapshot[n]
  OBVIOUS
<1>3. /\ s.image \in Seq(KnownCommands)
      /\ Len(s.image) = Base(n)
      /\ Base(n) \in Nat
      /\ Base(n) <= commitIndex[n]
      /\ commitIndex[n] \in Nat
      /\ LastIndex(n) = Base(n) + Len(lg)
  BY <1>1, <1>2, IndexTypes DEF SnapshotFull, KnownSnapshots, Base, LastIndex, Shape, ShapedLogs
<1>4. PICK all : all = Above(s.image, lg)
  OBVIOUS
<1>5. all \in Seq(KnownCommands) /\ Len(all) = LastIndex(n) /\ Base(n) <= Len(all)
  BY <1>3, <1>4, AboveTyped
<1>6. /\ Governs(config[n], all, Base(n))
      /\ commitIndex[n] <= Len(all)
      /\ applied[n] = SubSeq(all, 1, commitIndex[n])
  BY <1>1, <1>2, <1>4 DEF Derived, Fitting
<1>7. PICK new : new = <<e>>
  OBVIOUS
<1>8. new \in Seq(KnownEntries) /\ Len(new) = 1 /\ new[1] = e
  BY <1>7
<1>9. CommandsOf(new) \in Seq(KnownCommands) /\ Len(CommandsOf(new)) = 1
      /\ CommandsOf(new)[1] = e.cmd
  BY <1>8, CommandsTyped
<1>10. ConfigAfter(new, Len(all), config[n]) = cfg
  <2>1. CASE e.cmd.kind = "config"
    <3>1. PICK q, end : q = 1 /\ end = Len(all)
      OBVIOUS
    <3>2. IsLast(CommandsOf(new), q)
      BY <1>9, <2>1, <3>1 DEF IsLast
    <3>3. ConfigAfter(new, end, config[n])
            = IF q = 0 THEN config[n] ELSE [voters |-> CommandsOf(new)[q].voters, index |-> end + q]
      BY <1>8, <3>2, ConfigAfterIs
    <3> QED  BY <1>5, <1>9, <2>1, <3>1, <3>3
  <2>2. CASE e.cmd.kind # "config"
    <3>1. \A i \in 1 .. 1 : CommandsOf(new)[i].kind # "config"
      BY <1>9, <2>2
    <3>2. IsLast(CommandsOf(new), 0)
      BY <1>9, <3>1 DEF IsLast
    <3> QED  BY <1>8, <2>2, <3>2, ConfigAfterIs
  <2> QED  BY <2>1, <2>2
<1>11. PICK two : two = Above(s.image, lg \o new)
  OBVIOUS
<1>12. two = Above(all, new) /\ lg \o new \in Seq(KnownEntries)
  BY <1>3, <1>4, <1>8, <1>11, AboveTwice
<1>13. Governs(cfg, two, Base(n))
  BY <1>3, <1>5, <1>6, <1>8, <1>10, <1>12, ConfigExtends
<1>14. two \in Seq(KnownCommands) /\ Len(two) = Len(all) + 1
  <2>1. /\ Above(all, new) \in Seq(KnownCommands)
        /\ Len(Above(all, new)) = Len(all) + Len(new)
    BY <1>5, <1>8, AboveTyped
  <2> QED  BY <1>8, <1>12, <2>1
<1>15. all = SubSeq(two, 1, Len(all))
  BY <1>5, <1>8, <1>12, AboveImage
<1>16. SubSeq(all, 1, commitIndex[n]) = SubSeq(two, 1, commitIndex[n])
  <2>1. PICK k \in Nat : k = Len(all)
    BY <1>5, LenProperties
  <2>2. k <= Len(all) /\ k <= Len(two) /\ commitIndex[n] <= k
    BY <1>6, <1>14, <2>1
  <2>3. SubSeq(all, 1, k) = SubSeq(two, 1, k)
    <3>1. SubSeq(all, 1, k) = all
      BY <1>5, <2>1, PrefixIs
    <3> QED  BY <1>15, <2>1, <3>1
  <2> QED  BY <1>3, <1>5, <1>14, <2>2, <2>3, PrefixShorter
<1>17. commitIndex[n] <= Len(two)
  BY <1>3, <1>5, <1>6, <1>14
<1>18. Append(lg, e) = lg \o new
  BY <1>7, AppendIsConcat
<1>19. Fitting(n, lg \o new, cfg)
  BY <1>2, <1>6, <1>11, <1>13, <1>16, <1>17 DEF Fitting
<1> QED  BY <1>1, <1>12, <1>18, <1>19

LEMMA AppendDerived ==
    ASSUME Shape, NEW n \in Nodes, Derived(n),
           \/ \E c \in Clients : ClientCommand(n, c)
           \/ \E V \in Proposals : ChangeConfig(n, V)
    PROVE  Keeps(n)
<1>1. ASSUME NEW cmd \in KnownCommands, NEW voters, AppendAsLeader(n, cmd, voters),
             NEW cfg, config' = [config EXCEPT ![n] = cfg],
             cfg = IF cmd.kind = "config"
                   THEN [voters |-> cmd.voters, index |-> LastIndex(n) + 1] ELSE config[n],
             UNCHANGED <<snapshot, commitIndex, applied>>
      PROVE  Keeps(n)
  <2>1. PICK e : e = [term |-> term[n], cmd |-> cmd]
    OBVIOUS
  <2>2. e \in KnownEntries /\ e.cmd = cmd
    BY <2>1, IndexTypes DEF KnownEntries
  <2>3. PICK lg : lg = Append(log[n], e)
    OBVIOUS
  <2>4. log' = [log EXCEPT ![n] = lg]
    BY <1>1, <2>1, <2>3, Zenon DEF AppendAsLeader
  <2>5. Rewrites(n)
    BY <1>1, <2>4, Zenon DEF Rewrites
  <2>6. Fitting(n, lg, cfg)
    BY <1>1, <2>2, <2>3, AppendedFits
  <2>7. log'[n] = lg /\ config'[n] = cfg /\ snapshot'[n] = snapshot[n]
        /\ commitIndex'[n] = commitIndex[n] /\ applied'[n] = applied[n]
    BY <1>1, <2>4 DEF Shape, ShapedLogs
  <2>8. Derived(n)'
    BY <2>6, <2>7 DEF Derived, Fitting, Base
  <2> QED  BY <2>5, <2>8 DEF Keeps
<1>2. ASSUME NEW c \in Clients, ClientCommand(n, c) PROVE Keeps(n)
  <2>1. PICK cmd : cmd = Request(c, nextReq[c])
    OBVIOUS
  <2>2. cmd \in KnownCommands /\ cmd.kind # "config"
    BY <2>1 DEF Request, KnownCommands, ClientCommands, Shape, ShapedReads
  <2>3. AppendAsLeader(n, cmd, config[n].voters)
        /\ UNCHANGED <<snapshot, config, commitIndex, applied>>
    BY <1>2, <2>1, Zenon DEF ClientCommand, commitVars
  <2>4. config' = [config EXCEPT ![n] = config[n]]
    BY <2>3 DEF Shape, ShapedLogs
  <2> QED  BY <1>1, <2>2, <2>3, <2>4
<1>3. ASSUME NEW V \in Proposals, ChangeConfig(n, V) PROVE Keeps(n)
  <2>1. PICK cmd : cmd = [kind |-> "config", voters |-> V]
    OBVIOUS
  <2>2. cmd \in KnownCommands /\ cmd.kind = "config" /\ cmd.voters = V
    BY <2>1 DEF KnownCommands, KnownVoters
  <2>3. AppendAsLeader(n, cmd, V)
        /\ config' = [config EXCEPT ![n] = [voters |-> V, index |-> LastIndex(n) + 1]]
        /\ UNCHANGED <<snapshot, commitIndex, applied>>
    BY <1>3, <2>1, Zenon DEF ChangeConfig, commitVars
  <2> QED  BY <1>1, <2>2, <2>3
<1> QED  BY <1>2, <1>3

LEMMA ReceiveDerived ==
    ASSUME Shape, EveryConfigDerived, TruncatesNoCommit, NEW n \in Nodes, Receive(n)
    PROVE  Keeps(n)
<1>1. PICK m \in network :
        /\ m.to = n
        /\ \/ HandleRequestVote(n, m)
           \/ HandleVoteReply(n, m)
           \/ HandleAppendEntries(n, m)
           \/ HandleAppendReply(n, m)
           \/ HandleInstallSnapshot(n, m)
           \/ HandleReadHeartbeat(n, m)
           \/ HandleReadAck(n, m)
  BY DEF Receive
<1>2. Derived(n) /\ (m.type = "InstallSnapshot" => SnapshotKnows(m.snapshot))
  BY DEF EveryConfigDerived
<1>3. CASE \/ HandleRequestVote(n, m)
           \/ HandleVoteReply(n, m)
           \/ HandleReadHeartbeat(n, m)
           \/ HandleReadAck(n, m)
  <2>1. Still
    BY <1>3, Zenon DEF HandleRequestVote, HandleVoteReply, HandleReadHeartbeat, HandleReadAck,
       StepDown, persistentVars, commitVars, Still
  <2> QED  BY <2>1, StillKeeps
<1> QED  BY <1>1, <1>2, <1>3, AppendEntriesDerived, AppendReplyDerived, InstallSnapshotDerived

LEMMA SentDerived ==
    ASSUME Shape, NEW n \in Nodes, Derived(n), SentBy(n)
    PROVE  Keeps(n)
<1>1. CASE StartElection(n) \/ Heartbeat(n) \/ Resume(n) \/ \E c \in Clients : RequestRead(n, c)
  <2>1. Still
    BY <1>1, Zenon DEF StartElection, Heartbeat, Resume, RequestRead, persistentVars, commitVars,
       Still
  <2> QED  BY <2>1, StillKeeps
<1> QED  BY <1>1, AppendDerived, CrashDerived DEF SentBy

LEMMA NextDerived ==
    ASSUME Shape, EveryConfigDerived, TruncatesNoCommit, [Next]_vars
    PROVE  EveryConfigDerived'
<1>1. CASE UNCHANGED vars
  <2>1. Still /\ UNCHANGED network
    BY <1>1 DEF vars, persistentVars, commitVars, Still
  <2>2. \A k \in Nodes : Stays(k)
    BY <2>1 DEF Still, Stays
  <2>3. \A k \in Nodes : Derived(k)'
    BY <2>2, StaysDerived DEF EveryConfigDerived
  <2> QED  BY <2>1, <2>3 DEF EveryConfigDerived
<1>2. CASE Next
  <2>1. PICK n \in Nodes : Receive(n) \/ SentBy(n)
    BY <1>2, NextActs
  <2>2. Keeps(n)
    BY <2>1, ReceiveDerived, SentDerived DEF EveryConfigDerived
  <2>3. ASSUME NEW k \in Nodes PROVE Derived(k)'
    <3>1. CASE Derived(k)'
      BY <3>1
    <3>2. CASE Stays(k)
      BY <3>2, StaysDerived DEF EveryConfigDerived
    <3>3. Stays(k) \/ Derived(k)'
      BY <2>2, RewritesStay DEF Keeps
    <3> QED  BY <3>1, <3>2, <3>3
  <2>4. ASSUME NEW m \in network', m.type = "InstallSnapshot" PROVE SnapshotKnows(m.snapshot)
    <3>1. m \in network \/ \E k \in Nodes : m.snapshot = snapshot[k]
      BY <1>2, <2>4, NextSnapshotsSent DEF SnapshotsSent, OwnSnapshot
    <3> QED  BY <2>4, <3>1 DEF EveryConfigDerived, Derived
  <2> QED  BY <2>3, <2>4 DEF EveryConfigDerived
<1> QED  BY <1>1, <1>2

LEMMA InitDerived == Init => EveryConfigDerived
<1> SUFFICES ASSUME Init PROVE EveryConfigDerived
  OBVIOUS
<1>1. ASSUME NEW n \in Nodes PROVE Derived(n)
  <2>1. PICK s : s = NoSnapshot
    OBVIOUS
  <2>2. /\ s.image = <<>>
        /\ s.lastIndex = 0
        /\ s.voters = InitialVoters
    BY <2>1 DEF NoSnapshot
  <2>3. PICK lg, none : lg = <<>> /\ none = <<>>
    OBVIOUS
  <2>4. /\ lg \in Seq(KnownEntries)
        /\ none \in Seq(KnownCommands)
        /\ Len(lg) = 0
        /\ Len(none) = 0
    BY <2>3
  <2>5. PICK all : all = Above(none, lg)
    OBVIOUS
  <2>6. all \in Seq(KnownCommands) /\ Len(all) = 0
    <3>1. PICK c, l : c = Len(none) /\ l = Len(lg)
      OBVIOUS
    <3>2. IsAbove(all, none, lg, c, l)
      BY <2>4, <2>5, <3>1, AboveAt
    <3> QED  BY <2>4, <3>1, <3>2 DEF IsAbove
  <2>7. all = <<>> /\ none = <<>>
    BY <2>3, <2>6
  <2>8. IsLast(all, 0)
    BY <2>6 DEF IsLast
  <2>9. LastConfig(all) = 0 /\ Voting(all) = InitialVoters
    BY <2>6, <2>8, VotingIs
  <2>10. SubSeq(all, 1, 0) = <<>>
    <3>1. SubSeq(all, 1, 0) \in Seq(KnownCommands) /\ Len(SubSeq(all, 1, 0)) = 0
      BY <2>6, PrefixOf
    <3> QED  BY <3>1
  <2>11. /\ log[n] = lg
         /\ snapshot[n] = s
         /\ config[n] = [voters |-> InitialVoters, index |-> 0]
         /\ commitIndex[n] = 0
         /\ applied[n] = <<>>
    BY <2>1, <2>3 DEF Init
  <2> QED  BY <2>2, <2>3, <2>5, <2>6, <2>7, <2>9, <2>10, <2>11
           DEF Derived, Fitting, Governs, SnapshotKnows, Base
<1>2. network = {}
  BY DEF Init
<1> QED  BY <1>1, <1>2 DEF EveryConfigDerived

LEMMA DerivedConfigs == EveryConfigDerived => ConfigDerived
BY DEF EveryConfigDerived, Derived, Fitting, Governs, SnapshotKnows, ConfigDerived, Above,
   CommandsOf

\* Whatever is committed, truncated, compacted, installed or lost in a crash, and
\* however the configuration changes, every server's configuration is the last one
\* among the commands it stores, and every snapshot's that of its own prefix, as
\* long as no message makes a server drop what it has committed (_rebuild_config,
\* _adopt_config, _maybe_compact; the promise of _on_append_entries).
THEOREM ConfigurationsDerived == Spec /\ []TruncatesNoCommit => []ConfigDerived
<1>1. Init => EveryConfigDerived
  BY InitDerived
<1>2. Shape /\ TruncatesNoCommit /\ EveryConfigDerived /\ [Next]_vars => EveryConfigDerived'
  BY NextDerived
<1>3. EveryConfigDerived => ConfigDerived
  BY DerivedConfigs
<1> QED  BY <1>1, <1>2, <1>3, ShapeInvariant, PTL DEF Spec

-----------------------------------------------------------------------------
(***************************************************************************)
(* Configurations: the merges that keep what is committed.                 *)
(***************************************************************************)
\* Whatever a server has committed, the leader that sent a message of at least the
\* server's term stored; so an entry of the message never conflicts with it.
LEMMA NoConflictBelow ==
    ASSUME Shape, NEW lead, NEW full, Logs(lead, full), Commits(lead, full),
           NEW m \in network, m.type = "AppendEntries", m.term >= term[m.to],
           NEW n \in Nodes, n = m.to, NEW a, a = AboveBase(n, m),
           NEW i \in Conflicts(n, a)
    PROVE  i > commitIndex[n]
<1>1. PICK F \in Seq(KnownEntries), W \in Seq(KnownEntries), t \in Nat, u \in Nat,
           c \in Nat :
             F = full[n] /\ W = lead[t] /\ t = m.term /\ u = term[n] /\ u <= t
             /\ c = commitIndex[n]
  <2>1. term[n] \in Nat /\ commitIndex[n] \in Nat
    BY IndexTypes
  <2>2. m.term \in Nat
    BY DEF Shape, ShapedNetwork, ShapedMessage
  <2>3. full[n] \in Seq(KnownEntries) /\ lead[m.term] \in Seq(KnownEntries)
    BY <2>2 DEF Logs
  <2> QED  BY <2>1, <2>2, <2>3
<1>2. /\ Fits(F, log[n], snapshot[n])
      /\ Led(t)
      /\ TracedMessage(W, m)
      /\ Leads(lead)
  BY <1>1 DEF Logs, Leads
<1>3. Carries(W, a) /\ (Len(a.entries) > 0 => Base(n) <= a.prevIndex)
  BY <1>2, AboveBaseTraced
<1>4. /\ a.prevIndex \in Nat
      /\ Len(a.entries) \in Nat
      /\ Base(n) \in Nat
      /\ Len(F) \in Nat
      /\ LastIndex(n) \in Nat
  BY <1>3, IndexTypes, LoggedTypes DEF Carries
<1>5. SameUpTo(F, W, c)
  <2>1. Settled(lead, F, u, c)
    BY <1>1 DEF Commits, ServerSettled
  <2> QED  BY <1>1, <1>2, <2>1, SettledInLeader
<1>6. Len(F) = LastIndex(n)
  BY <1>2, FitsIndices
<1>7. \A j \in Base(n) .. LastIndex(n) : TermAt(n, j) = IF j = 0 THEN 0 ELSE F[j].term
  BY <1>2, FitsIndices
<1>8. PICK k \in 1 .. Len(a.entries) : i = a.prevIndex + k /\ i - a.prevIndex = k
  <2>1. PICK p \in Nat, len \in Nat : p = a.prevIndex /\ len = Len(a.entries)
    BY <1>4
  <2>2. i \in p + 1 .. p + len
    BY <2>1 DEF Conflicts
  <2>3. i - p \in 1 .. len /\ i = p + (i - p)
    BY <2>2
  <2> QED  BY <2>1, <2>3
<1>9. i \in Nat /\ i > 0 /\ Base(n) < i
  BY <1>3, <1>4, <1>8
<1>10. SUFFICES ASSUME i <= c PROVE FALSE
  BY <1>1, <1>9
<1>11. F[i] = W[i] /\ i <= LastIndex(n)
  BY <1>1, <1>4, <1>5, <1>6, <1>9, <1>10 DEF SameUpTo
<1>12. a.entries[k] = W[i]
  BY <1>3, <1>8 DEF Carries
<1>13. TermAt(n, i) = F[i].term
  BY <1>4, <1>7, <1>9, <1>11
<1>14. i > LastIndex(n) \/ TermAt(n, i) # a.entries[k].term
  BY <1>8 DEF Conflicts
<1> QED  BY <1>4, <1>9, <1>11, <1>12, <1>13, <1>14

LEMMA CommitsTruncateNothing == Shape /\ EveryCommitExplained => TruncatesNoCommit
<1> SUFFICES ASSUME Shape, EveryCommitExplained,
                    NEW m \in network, m.type = "AppendEntries", m.term >= term[m.to],
                    NEW i \in Conflicts(m.to, AboveBase(m.to, m))
             PROVE  i > commitIndex[m.to]
  BY DEF TruncatesNoCommit
<1>1. PICK lead, full : Explains(lead, full)
  BY DEF EveryCommitExplained
<1>2. PICK n \in Nodes : n = m.to
  BY DEF Shape, ShapedNetwork, ShapedMessage
<1>3. PICK a : a = AboveBase(n, m)
  OBVIOUS
<1>4. Logs(lead, full) /\ Commits(lead, full) /\ i \in Conflicts(n, a)
  BY <1>1, <1>2, <1>3 DEF Explains
<1> QED  BY <1>2, <1>3, <1>4, NoConflictBelow

\* No AppendEntries that its receiver can still accept, however late, repeated, out
\* of order or old its sender, makes it replace an entry it has committed (the
\* merge loop of _on_append_entries: "never truncates committed entries").
THEOREM MergesKeepCommits ==
    ASSUME Proposals = {}
    PROVE  Spec => []TruncatesNoCommit
<1>1. Shape /\ EveryCommitExplained => TruncatesNoCommit
  BY CommitsTruncateNothing
<1> QED  BY <1>1, ShapeInvariant, CommitsExplained, PTL
=============================================================================

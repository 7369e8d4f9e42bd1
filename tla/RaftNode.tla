------------------------------ MODULE RaftNode ------------------------------
(***************************************************************************)
(* The Raft servers of deterministic_raft/node.py, the messages between    *)
(* them and the clients that drive them.  One action models one handler,   *)
(* timer callback or call on a server, whole.  The network is the set of   *)
(* all messages ever sent: a message in it may be delivered now, later,    *)
(* again, or never, which covers every delay, loss, duplication,           *)
(* reordering and partition of sim.py's Network.                           *)
(*                                                                         *)
(* An operator marked DEFECT is a wrong version of the one it precedes, in *)
(* the manner of bugs.py: no action uses it, and each shows that a property*)
(* notices the defect.                                                     *)
(***************************************************************************)
EXTENDS Integers, Sequences, FiniteSets, SequencesExt

CONSTANTS
    Nodes,              \* every server, voting or not
    InitialVoters,      \* the configuration all servers start with
    Clients,            \* the clients of the workload
    None,               \* "no vote": Python's None
    Reads,              \* <<client, request>> pairs served by ReadIndex
    Proposals,          \* configurations change_config may be asked for
    SnapshotThreshold,  \* RaftConfig.snapshot_threshold; 0 never compacts
    MaxRequests,        \* BOUND: requests a client makes
    MaxChangeIndex,     \* BOUND: index of the last configuration entry appended
    MaxReads,           \* BOUND: ReadIndex rounds a server starts
    MaxCrashes,         \* BOUND: crashes in a behaviour
    BeatingTerms,       \* BOUND: terms in which heartbeat timers fire
    Links,              \* BOUND: <<n, p, t>> iff messages of term t from n
                        \* may reach p: who is cut off from whom, per term
    MaxDelay,           \* BOUND: terms a message may be older than its receiver
    MayCampaign         \* BOUND: <<n, t>> iff n may start the election of t

ASSUME ConstantsAssumption ==
    /\ IsFiniteSet(Nodes)
    /\ InitialVoters \in SUBSET Nodes
    /\ InitialVoters # {}
    /\ None \notin Nodes
    /\ Reads \subseteq Clients \X Nat
    /\ Proposals \subseteq SUBSET Nodes
    /\ {SnapshotThreshold, MaxRequests, MaxChangeIndex, MaxReads, MaxCrashes,
        MaxDelay} \subseteq Nat
    /\ Links \subseteq Nodes \X Nodes \X Nat
    /\ BeatingTerms \subseteq Nat
    /\ MayCampaign \subseteq Nodes \X Nat

VARIABLES
    term,               \* currentTerm; survives a crash
    votedFor,           \* survives a crash
    log,                \* entries above the snapshot; survives a crash
    snapshot,           \* the compacted prefix; survives a crash
    config,             \* the voters in force and the index that named them
    role,
    votes,              \* servers that granted this candidate their vote
    timer,              \* the timer whose callback is not stale
    nextIndex,
    matchIndex,
    clientIndex,        \* per client, the newest request in a leader's log
    committedThisTerm,
    pendingReads,
    nextReadId,
    commitIndex,        \* always equal to last_applied
    applied,            \* every command the state machine was fed, in order
    alive,
    network,            \* messages sent so far
    nextReq,            \* per client, its outstanding request
    crashes,            \* crashes so far
    leadersByTerm,      \* <<t, n>>: n was seen leading term t
    committed           \* first observation of each committed index

persistentVars == <<term, votedFor, log, snapshot>>
electionVars == <<role, votes, timer, leadersByTerm>>
leaderVars == <<nextIndex, matchIndex, clientIndex, committedThisTerm>>
readVars == <<pendingReads, nextReadId>>
commitVars == <<commitIndex, applied, nextReq, committed>>
faultVars == <<alive, crashes>>
vars == <<persistentVars, config, electionVars, leaderVars, readVars,
          commitVars, faultVars, network>>

-----------------------------------------------------------------------------
(***************************************************************************)
(* Log entries, snapshots and messages.  A command is a client's request   *)
(* or a configuration; what a request does to the store is KVStateMachine's*)
(* business, and here a state machine is the sequence of commands it was   *)
(* fed, so a snapshot's image is such a sequence.                          *)
(***************************************************************************)
ClientCommands == [kind : {"client"}, client : Clients, req : Nat]
ConfigCommands == [kind : {"config"}, voters : SUBSET Nodes]
Commands == ClientCommands \cup ConfigCommands
Entries == [term : Nat, cmd : Commands]

Snapshots == [lastIndex : Nat, lastTerm : Nat, image : Seq(Commands),
              voters : SUBSET Nodes]
NoSnapshot == [lastIndex |-> 0, lastTerm |-> 0, image |-> <<>>,
               voters |-> InitialVoters]

Configs == [voters : SUBSET Nodes, index : Nat]

Messages ==
    [type : {"RequestVote"}, term : Nat, from : Nodes, to : Nodes,
     lastIndex : Nat, lastTerm : Nat]
    \cup
    [type : {"VoteReply"}, term : Nat, from : Nodes, to : Nodes,
     granted : BOOLEAN]
    \cup
    [type : {"AppendEntries"}, term : Nat, from : Nodes, to : Nodes,
     prevIndex : Nat, prevTerm : Nat, entries : Seq(Entries), commit : Nat]
    \cup
    [type : {"AppendReply"}, term : Nat, from : Nodes, to : Nodes,
     success : BOOLEAN, match : Nat]
    \cup
    [type : {"InstallSnapshot"}, term : Nat, from : Nodes, to : Nodes,
     snapshot : Snapshots]
    \cup
    [type : {"ReadHeartbeat"}, term : Nat, from : Nodes, to : Nodes,
     readId : Nat]
    \cup
    [type : {"ReadAck"}, term : Nat, from : Nodes, to : Nodes, readId : Nat]

\* Messages join the network; those cut off by the bound Links are lost at once.
Send(ms) == network' = network \cup {m \in ms : <<m.from, m.to, m.term>> \in Links}

VoteReply(t, from, to, granted) ==
    [type |-> "VoteReply", term |-> t, from |-> from, to |-> to,
     granted |-> granted]

AppendReply(t, from, to, success, match) ==
    [type |-> "AppendReply", term |-> t, from |-> from, to |-> to,
     success |-> success, match |-> match]

-----------------------------------------------------------------------------
(***************************************************************************)
(* Logical indices: index i of server n is entry i - Base(n) of log[n].    *)
(***************************************************************************)
Larger(a, b) == IF a >= b THEN a ELSE b
Smaller(a, b) == IF a <= b THEN a ELSE b

Base(n) == snapshot[n].lastIndex
LastIndex(n) == Base(n) + Len(log[n])

\* term_at on the log lg above snapshot s.
TermIn(lg, s, i) == IF i <= s.lastIndex THEN s.lastTerm ELSE lg[i - s.lastIndex].term
TermAt(n, i) == TermIn(log[n], snapshot[n], i)
EntryAt(n, i) == log[n][i - Base(n)]

IsConfigEntry(e) == e.cmd.kind = "config"

\* The configuration in force after entries lg, the first of them at index
\* offset + 1, when cfg was in force before them.
ConfigAfter(lg, offset, cfg) ==
    LET last == SelectLastInSeq(lg, IsConfigEntry)
    IN IF last = 0 THEN cfg
       ELSE [voters |-> lg[last].cmd.voters, index |-> offset + last]

\* The configuration that log lg above snapshot s puts in force.
ConfigIn(lg, s) ==
    ConfigAfter(lg, s.lastIndex, [voters |-> s.voters, index |-> s.lastIndex])

\* The servers of S are a strict majority of the configuration V.
Majority(S, V) == 2 * Cardinality(S \cap V) > Cardinality(V)

-----------------------------------------------------------------------------
(***************************************************************************)
(* Replication: what leader n of term t sends a peer whose next index is   *)
(* nxt, from the log lg: entries, or the snapshot if they are compacted.   *)
(***************************************************************************)
Replicate(n, t, p, lg, nxt) ==
    IF nxt - 1 < Base(n)
    THEN [type |-> "InstallSnapshot", term |-> t, from |-> n, to |-> p,
          snapshot |-> snapshot[n]]
    ELSE [type |-> "AppendEntries", term |-> t, from |-> n, to |-> p,
          prevIndex |-> nxt - 1, prevTerm |-> TermIn(lg, snapshot[n], nxt - 1),
          entries |-> SubSeq(lg, nxt - Base(n), Len(lg)),
          commit |-> commitIndex[n]]

Broadcast(n, t, lg, nxt, voters) ==
    {Replicate(n, t, p, lg, nxt[p]) : p \in voters \ {n}}

-----------------------------------------------------------------------------
(***************************************************************************)
(* Commands applied.                                                       *)
(***************************************************************************)
Request(c, r) == [kind |-> "client", client |-> c, req |-> r]

\* The workload's reaction to applied commands: a client whose outstanding
\* request is among them moves on to its next one.
ClientsMoveOn(cmds) ==
    nextReq' = [c \in Clients |->
                  IF Request(c, nextReq[c]) \in cmds THEN nextReq[c] + 1
                  ELSE nextReq[c]]

\* The invariant checker sees every commit before it is compacted and keeps
\* the first observation of each index.
Observe(n, lg, ci, t) ==
    LET fresh == {i \in commitIndex[n] + 1 .. ci :
                    \A rec \in committed : rec.index # i}
    IN committed' = committed \cup
         {[index |-> i, entry |-> lg[i - Base(n)], term |-> t] : i \in fresh}

\* _maybe_compact with log lg once everything up to ci is applied.
Compacts(n, ci) ==
    SnapshotThreshold > 0 /\ ci - Base(n) >= SnapshotThreshold

Compacted(n, lg, ci, image) ==
    LET upto == ci - Base(n)
    IN [lastIndex |-> ci, lastTerm |-> lg[upto].term, image |-> image,
        voters |-> ConfigIn(SubSeq(lg, 1, upto), snapshot[n]).voters]

\* _set_commit_index(ci) on server n, in term t with log lg.
SetCommitIndex(n, lg, ci, t) ==
    LET fed == [i \in 1 .. ci - commitIndex[n] |->
                  lg[commitIndex[n] - Base(n) + i].cmd]
        history == applied[n] \o fed
    IN \/ /\ ci <= commitIndex[n]
          /\ log' = [log EXCEPT ![n] = lg]
          /\ UNCHANGED <<snapshot, commitVars>>
       \/ /\ ci > commitIndex[n]
          /\ commitIndex' = [commitIndex EXCEPT ![n] = ci]
          /\ applied' = [applied EXCEPT ![n] = history]
          /\ Observe(n, lg, ci, t)
          /\ ClientsMoveOn(Range(fed))
          /\ IF Compacts(n, ci)
             THEN /\ snapshot' = [snapshot EXCEPT ![n] = Compacted(n, lg, ci, history)]
                  /\ log' = [log EXCEPT ![n] = SubSeq(lg, ci - Base(n) + 1, Len(lg))]
             ELSE /\ log' = [log EXCEPT ![n] = lg]
                  /\ UNCHANGED snapshot

-----------------------------------------------------------------------------
(***************************************************************************)
(* Role transitions.                                                       *)
(***************************************************************************)
\* votedFor of n once it is in term t: a new term is a new vote.
VoteIn(n, t) == IF t > term[n] THEN None ELSE votedFor[n]

\* DEFECT: a server that steps down keeps the timer it had.
BecomeFollowerUnarmed(n, t) ==
    /\ term' = [term EXCEPT ![n] = t]
    /\ votedFor' = [votedFor EXCEPT ![n] = VoteIn(n, t)]
    /\ role' = [role EXCEPT ![n] = "follower"]
    /\ pendingReads' = [pendingReads EXCEPT ![n] = {}]
    /\ UNCHANGED timer

\* _become_follower.
BecomeFollower(n, t) ==
    /\ term' = [term EXCEPT ![n] = t]
    /\ votedFor' = [votedFor EXCEPT ![n] = VoteIn(n, t)]
    /\ role' = [role EXCEPT ![n] = "follower"]
    /\ pendingReads' = [pendingReads EXCEPT ![n] = {}]
    /\ timer' = [timer EXCEPT ![n] = "election"]

\* A message of an earlier or a later leader: step down on a newer term or
\* out of any role but follower, and restart the election timer.
FollowLeader(n, t) ==
    \/ /\ t > term[n] \/ role[n] # "follower"
       /\ BecomeFollower(n, t)
    \/ /\ t = term[n]
       /\ role[n] = "follower"
       /\ timer' = [timer EXCEPT ![n] = "election"]
       /\ UNCHANGED <<term, votedFor, role, pendingReads>>

\* Any reply of a newer term only makes its receiver step down.
StepDown(n, m) ==
    /\ m.term > term[n]
    /\ BecomeFollower(n, m.term)
    /\ UNCHANGED <<log, snapshot, config, votes, leadersByTerm, leaderVars,
                   nextReadId, commitVars, faultVars, network>>

\* DEFECT: a new leader forgets the requests its log already holds.
ClientIndexOfNone(lg) == [c \in Clients |-> 0]

\* _rebuild_client_index: only the log above the snapshot is scanned.
ClientIndexOf(lg) ==
    [c \in Clients |->
       Max({0} \cup {e.cmd.req : e \in {f \in Range(lg) :
                        f.cmd.kind = "client" /\ f.cmd.client = c}})]

\* _become_leader in term t, and the broadcast it ends with.
BecomeLeader(n, t, sent) ==
    LET next == [p \in Nodes |-> LastIndex(n) + 1]
    IN /\ role' = [role EXCEPT ![n] = "leader"]
       /\ timer' = [timer EXCEPT ![n] = "heartbeat"]
       /\ leadersByTerm' = leadersByTerm \cup {<<t, n>>}
       /\ nextIndex' = [nextIndex EXCEPT ![n] = next]
       /\ matchIndex' = [matchIndex EXCEPT ![n] =
                           [p \in Nodes |-> IF p = n THEN LastIndex(n) ELSE 0]]
       /\ committedThisTerm' = [committedThisTerm EXCEPT ![n] = FALSE]
       /\ clientIndex' = [clientIndex EXCEPT ![n] = ClientIndexOf(log[n])]
       /\ Send(sent \cup Broadcast(n, t, log[n], next, config[n].voters))

-----------------------------------------------------------------------------
(***************************************************************************)
(* Timers.                                                                 *)
(***************************************************************************)
\* The election timer of n fires and n campaigns.  Out of its own
\* configuration it only restarts the timer, which changes nothing here.
StartElection(n) ==
    LET t == term[n] + 1
        requests == {[type |-> "RequestVote", term |-> t, from |-> n, to |-> p,
                      lastIndex |-> LastIndex(n),
                      lastTerm |-> TermAt(n, LastIndex(n))] :
                       p \in config[n].voters \ {n}}
    IN /\ alive[n]
       /\ timer[n] = "election"
       /\ role[n] # "leader"
       /\ n \in config[n].voters
       /\ <<n, t>> \in MayCampaign
       /\ term' = [term EXCEPT ![n] = t]
       /\ votedFor' = [votedFor EXCEPT ![n] = n]
       /\ votes' = [votes EXCEPT ![n] = {n}]
       /\ \/ /\ Majority({n}, config[n].voters)
             /\ BecomeLeader(n, t, requests)
          \/ /\ ~Majority({n}, config[n].voters)
             /\ role' = [role EXCEPT ![n] = "candidate"]
             /\ timer' = [timer EXCEPT ![n] = "election"]
             /\ Send(requests)
             /\ UNCHANGED <<leadersByTerm, leaderVars>>
       /\ UNCHANGED <<log, snapshot, config, readVars, commitVars, faultVars>>

\* The heartbeat timer of leader n fires and is armed again.
Heartbeat(n) ==
    /\ alive[n]
    /\ timer[n] = "heartbeat"
    /\ role[n] = "leader"
    /\ term[n] \in BeatingTerms
    /\ Send(Broadcast(n, term[n], log[n], nextIndex[n], config[n].voters))
    /\ UNCHANGED <<persistentVars, config, electionVars, leaderVars, readVars,
                   commitVars, faultVars>>

-----------------------------------------------------------------------------
(***************************************************************************)
(* Elections.                                                              *)
(***************************************************************************)
\* DEFECT bugs.vote_for_stale_candidate.
UpToDateIgnored(n, m) == TRUE

\* The election restriction: the candidate's log is as fresh as n's.
UpToDate(n, m) ==
    LET last == TermAt(n, LastIndex(n))
    IN m.lastTerm > last \/ (m.lastTerm = last /\ m.lastIndex >= LastIndex(n))

Grants(n, m) ==
    /\ m.term >= term[n]
    /\ VoteIn(n, m.term) \in {None, m.from}
    /\ UpToDate(n, m)

HandleRequestVote(n, m) ==
    /\ m.type = "RequestVote"
    /\ term' = [term EXCEPT ![n] = Larger(term[n], m.term)]
    /\ votedFor' = [votedFor EXCEPT ![n] =
                      IF Grants(n, m) THEN m.from ELSE VoteIn(n, m.term)]
    /\ IF m.term > term[n]
       THEN /\ role' = [role EXCEPT ![n] = "follower"]
            /\ pendingReads' = [pendingReads EXCEPT ![n] = {}]
       ELSE UNCHANGED <<role, pendingReads>>
    /\ timer' = [timer EXCEPT ![n] =
                   IF m.term > term[n] \/ Grants(n, m) THEN "election" ELSE timer[n]]
    /\ Send({VoteReply(Larger(term[n], m.term), n, m.from, Grants(n, m))})
    /\ UNCHANGED <<log, snapshot, config, votes, leadersByTerm, leaderVars,
                   nextReadId, commitVars, faultVars>>

\* _maybe_win counts only votes of the configuration in force.
HandleVoteReply(n, m) ==
    /\ m.type = "VoteReply"
    /\ \/ StepDown(n, m)
       \/ /\ m.term = term[n]
          /\ role[n] = "candidate"
          /\ m.granted
          /\ votes' = [votes EXCEPT ![n] = votes[n] \cup {m.from}]
          /\ \/ /\ Majority(votes[n] \cup {m.from}, config[n].voters)
                /\ BecomeLeader(n, term[n], {})
             \/ /\ ~Majority(votes[n] \cup {m.from}, config[n].voters)
                /\ UNCHANGED <<role, timer, leadersByTerm, leaderVars, network>>
          /\ UNCHANGED <<persistentVars, config, readVars, commitVars, faultVars>>

-----------------------------------------------------------------------------
(***************************************************************************)
(* AppendEntries.                                                          *)
(***************************************************************************)
\* DEFECT: what the snapshot covers is compared instead of skipped.
AboveBaseRaw(n, m) ==
    [prevIndex |-> m.prevIndex, prevTerm |-> m.prevTerm, entries |-> m.entries]

\* The part of the message above n's snapshot: what the snapshot covers is
\* skipped, the rest is compared from the boundary on.
AboveBase(n, m) ==
    LET covered == IF m.prevIndex < Base(n)
                   THEN Smaller(Len(m.entries), Base(n) - m.prevIndex) ELSE 0
    IN [prevIndex |-> m.prevIndex + covered,
        prevTerm  |-> IF covered > 0 THEN m.entries[covered].term ELSE m.prevTerm,
        entries   |-> SubSeq(m.entries, covered + 1, Len(m.entries))]

\* The consistency check of the Log Matching property.
Consistent(n, a) ==
    \/ a.prevIndex < Larger(1, Base(n))
    \/ /\ a.prevIndex <= LastIndex(n)
       /\ TermAt(n, a.prevIndex) = a.prevTerm

\* Indices at which the message's entries are missing from n's log or differ.
Conflicts(n, a) ==
    {i \in a.prevIndex + 1 .. a.prevIndex + Len(a.entries) :
       i > LastIndex(n) \/ TermAt(n, i) # a.entries[i - a.prevIndex].term}

\* DEFECT: a truncated configuration entry stays in force.
MergedKeepsConfig(n, a) ==
    IF Conflicts(n, a) = {} THEN [log |-> log[n], config |-> config[n]]
    ELSE LET first == Min(Conflicts(n, a))
             kept  == SubSeq(log[n], 1, first - 1 - Base(n))
             new   == SubSeq(a.entries, first - a.prevIndex, Len(a.entries))
         IN [log |-> kept \o new, config |-> ConfigAfter(new, first - 1, config[n])]

\* The merge loop: keep what matches, and from the first conflict on replace
\* n's log by the message's entries and its configuration by theirs.
Merged(n, a) ==
    IF Conflicts(n, a) = {} THEN [log |-> log[n], config |-> config[n]]
    ELSE LET first == Min(Conflicts(n, a))
             kept  == SubSeq(log[n], 1, first - 1 - Base(n))
             new   == SubSeq(a.entries, first - a.prevIndex, Len(a.entries))
             below == IF config[n].index >= first THEN ConfigIn(kept, snapshot[n])
                      ELSE config[n]
         IN [log |-> kept \o new, config |-> ConfigAfter(new, first - 1, below)]

\* The commit index after an AppendEntries whose entries match up to match.
FollowerCommit(n, m, match) == Larger(commitIndex[n], Smaller(m.commit, match))

HandleAppendEntries(n, m) ==
    LET a == AboveBase(n, m)
        match == a.prevIndex + Len(a.entries)
    IN /\ m.type = "AppendEntries"
       /\ \/ /\ m.term < term[n]
             /\ Send({AppendReply(term[n], n, m.from, FALSE, 0)})
             /\ UNCHANGED <<persistentVars, config, role, timer, pendingReads,
                            commitVars>>
          \/ /\ m.term >= term[n]
             /\ FollowLeader(n, m.term)
             /\ ~Consistent(n, a)
             /\ Send({AppendReply(m.term, n, m.from, FALSE, 0)})
             /\ UNCHANGED <<log, snapshot, config, commitVars>>
          \/ /\ m.term >= term[n]
             /\ FollowLeader(n, m.term)
             /\ Consistent(n, a)
             /\ config' = [config EXCEPT ![n] = Merged(n, a).config]
             /\ SetCommitIndex(n, Merged(n, a).log, FollowerCommit(n, m, match), m.term)
             /\ Send({AppendReply(m.term, n, m.from, TRUE, match)})
       /\ UNCHANGED <<votes, leadersByTerm, leaderVars, nextReadId, faultVars>>

\* DEFECT: the back-off has no floor.
BackOffPastStart(next) == next - 1

\* DEFECT: a rejection leaves the next index where it is.
BackOffNot(next) == next

\* The next index after a rejection.
BackOff(next) == Larger(1, next - 1)

\* DEFECT bugs.drop_commit_term_guard.
CommittableAnyTerm(n, matched) ==
    {i \in commitIndex[n] + 1 .. LastIndex(n) :
       Majority({v \in Nodes : matched[v] >= i}, config[n].voters)}

\* DEFECT: the last entry is never looked at.
CommittableBelowLast(n, matched) ==
    {i \in commitIndex[n] + 1 .. LastIndex(n) - 1 :
       /\ \A j \in i .. LastIndex(n) : TermAt(n, j) = term[n]
       /\ Majority({v \in Nodes : matched[v] >= i}, config[n].voters)}

\* DEFECT: half of the configuration is taken for a majority.
CommittableHalf(n, matched) ==
    {i \in commitIndex[n] + 1 .. LastIndex(n) :
       /\ \A j \in i .. LastIndex(n) : TermAt(n, j) = term[n]
       /\ 2 * Cardinality({v \in config[n].voters : matched[v] >= i})
            >= Cardinality(config[n].voters)}

\* _advance_commit: indices above the commit index that a majority of the
\* configuration stores, with only entries of the current term from there on.
Committable(n, matched) ==
    {i \in commitIndex[n] + 1 .. LastIndex(n) :
       /\ \A j \in i .. LastIndex(n) : TermAt(n, j) = term[n]
       /\ Majority({v \in Nodes : matched[v] >= i}, config[n].voters)}

HandleAppendReply(n, m) ==
    LET matched == [matchIndex[n] EXCEPT ![m.from] = Larger(@, m.match)]
        next == [nextIndex[n] EXCEPT ![m.from] =
                   IF m.success THEN Larger(@, m.match + 1) ELSE BackOff(@)]
    IN /\ m.type = "AppendReply"
       /\ \/ StepDown(n, m)
          \/ /\ role[n] = "leader"
             /\ m.term = term[n]
             /\ nextIndex' = [nextIndex EXCEPT ![n] = next]
             /\ \/ /\ m.success
                   /\ matchIndex' = [matchIndex EXCEPT ![n] = matched]
                   /\ \/ /\ Committable(n, matched) = {}
                         /\ UNCHANGED <<log, snapshot, commitVars, committedThisTerm>>
                      \/ /\ Committable(n, matched) # {}
                         /\ SetCommitIndex(n, log[n], Max(Committable(n, matched)), term[n])
                         /\ committedThisTerm' = [committedThisTerm EXCEPT ![n] = TRUE]
                   /\ UNCHANGED network
                \/ /\ ~m.success
                   /\ Send({Replicate(n, term[n], m.from, log[n], next[m.from])})
                   /\ UNCHANGED <<log, snapshot, commitVars, matchIndex,
                                  committedThisTerm>>
             /\ UNCHANGED <<term, votedFor, config, electionVars, clientIndex,
                            readVars, faultVars>>

-----------------------------------------------------------------------------
(***************************************************************************)
(* InstallSnapshot.                                                        *)
(***************************************************************************)
\* n's log above the snapshot s is consistent with it and survives it.
KeepsTail(n, s) ==
    LastIndex(n) >= s.lastIndex /\ TermAt(n, s.lastIndex) = s.lastTerm

InstalledLog(n, s) ==
    IF KeepsTail(n, s)
    THEN SubSeq(log[n], s.lastIndex - Base(n) + 1, Len(log[n])) ELSE <<>>

\* DEFECT: a delayed snapshot is installed over newer commits.
CoveredNever(n, s) == FALSE

\* A delayed or duplicated snapshot: all it covers is committed here already.
Covered(n, s) == s.lastIndex <= commitIndex[n]

\* What n reports as stored when the snapshot is covered: the committed prefix
\* only, for the tail above it may be an earlier term's.
CoveredMatch(n) == commitIndex[n]

HandleInstallSnapshot(n, m) ==
    /\ m.type = "InstallSnapshot"
    /\ \/ /\ m.term < term[n]
          /\ Send({AppendReply(term[n], n, m.from, FALSE, 0)})
          /\ UNCHANGED <<persistentVars, config, role, timer, pendingReads,
                         commitIndex, applied>>
       \/ /\ m.term >= term[n]
          /\ FollowLeader(n, m.term)
          /\ Covered(n, m.snapshot)
          /\ Send({AppendReply(m.term, n, m.from, TRUE, CoveredMatch(n))})
          /\ UNCHANGED <<log, snapshot, config, commitIndex, applied>>
       \/ /\ m.term >= term[n]
          /\ FollowLeader(n, m.term)
          /\ ~Covered(n, m.snapshot)
          /\ log' = [log EXCEPT ![n] = InstalledLog(n, m.snapshot)]
          /\ snapshot' = [snapshot EXCEPT ![n] = m.snapshot]
          /\ config' = [config EXCEPT ![n] =
                          ConfigIn(InstalledLog(n, m.snapshot), m.snapshot)]
          /\ commitIndex' = [commitIndex EXCEPT ![n] = m.snapshot.lastIndex]
          /\ applied' = [applied EXCEPT ![n] = m.snapshot.image]
          /\ Send({AppendReply(m.term, n, m.from, TRUE, m.snapshot.lastIndex)})
    /\ UNCHANGED <<votes, leadersByTerm, leaderVars, nextReadId, nextReq,
                   committed, faultVars>>

-----------------------------------------------------------------------------
(***************************************************************************)
(* Clients.  A client has one request outstanding and keeps submitting it, *)
(* to any server, until the state machine of some server applies it.       *)
(***************************************************************************)
\* A leader appends entry cmd and replicates at once to the new configuration.
AppendAsLeader(n, cmd, voters) ==
    LET lg == Append(log[n], [term |-> term[n], cmd |-> cmd])
    IN /\ log' = [log EXCEPT ![n] = lg]
       /\ matchIndex' = [matchIndex EXCEPT ![n][n] = LastIndex(n) + 1]
       /\ Send(Broadcast(n, term[n], lg, nextIndex[n], voters))

\* client_command: a request the log already holds is acknowledged, nothing
\* is appended.
ClientCommand(n, c) ==
    /\ alive[n]
    /\ role[n] = "leader"
    /\ nextReq[c] <= MaxRequests
    /\ <<c, nextReq[c]>> \notin Reads
    /\ nextReq[c] > clientIndex[n][c]
    /\ clientIndex' = [clientIndex EXCEPT ![n][c] = nextReq[c]]
    /\ AppendAsLeader(n, Request(c, nextReq[c]), config[n].voters)
    /\ UNCHANGED <<term, votedFor, snapshot, config, electionVars, nextIndex,
                   committedThisTerm, readVars, commitVars, faultVars>>

\* DEFECT bugs.drop_config_commit_guard.
ChangeAllowedEarly(n, V) ==
    /\ Cardinality((V \ config[n].voters) \cup (config[n].voters \ V)) = 1
    /\ n \in V
    /\ config[n].index <= commitIndex[n]

\* The single-server rule and its two guards.
ChangeAllowed(n, V) ==
    /\ Cardinality((V \ config[n].voters) \cup (config[n].voters \ V)) = 1
    /\ n \in V
    /\ config[n].index <= commitIndex[n]
    /\ committedThisTerm[n]

\* change_config.
ChangeConfig(n, V) ==
    /\ alive[n]
    /\ role[n] = "leader"
    /\ LastIndex(n) < MaxChangeIndex
    /\ ChangeAllowed(n, V)
    /\ config' = [config EXCEPT ![n] = [voters |-> V, index |-> LastIndex(n) + 1]]
    /\ AppendAsLeader(n, [kind |-> "config", voters |-> V], V)
    /\ UNCHANGED <<term, votedFor, snapshot, electionVars, nextIndex, clientIndex,
                   committedThisTerm, readVars, commitVars, faultVars>>

-----------------------------------------------------------------------------
(***************************************************************************)
(* ReadIndex reads.                                                        *)
(***************************************************************************)
HighestCommitted == Max({0} \cup {rec.index : rec \in committed})

\* A read n is about to confirm.  floor is not in the code: it is the newest
\* index any server had committed when the read was requested.
NewRead(n, c) ==
    [id |-> nextReadId[n], client |-> c, req |-> nextReq[c],
     index |-> commitIndex[n], acks |-> {n}, floor |-> HighestCommitted]

\* DEFECT bugs.stale_local_reads: leadership is not confirmed.
ServableUnconfirmed(n, r) == commitIndex[n] >= r.index

\* The read is confirmed by a majority and its index is applied.
Servable(n, r) ==
    /\ Majority(r.acks, config[n].voters)
    /\ commitIndex[n] >= r.index

\* _try_serve_read on read r, put among the other pending reads of n.
TryServeRead(n, others, r) ==
    \/ /\ Servable(n, r)
       /\ pendingReads' = [pendingReads EXCEPT ![n] = others]
       /\ ClientsMoveOn({Request(r.client, r.req)})
    \/ /\ ~Servable(n, r)
       /\ pendingReads' = [pendingReads EXCEPT ![n] = others \cup {r}]
       /\ UNCHANGED nextReq

\* Until a commit of its own term a leader's commit index may be stale.
MayRead(n) == role[n] = "leader" /\ committedThisTerm[n]

RequestRead(n, c) ==
    /\ alive[n]
    /\ MayRead(n)
    /\ nextReq[c] <= MaxRequests
    /\ <<c, nextReq[c]>> \in Reads
    /\ nextReadId[n] < MaxReads
    /\ nextReadId' = [nextReadId EXCEPT ![n] = @ + 1]
    /\ TryServeRead(n, pendingReads[n], NewRead(n, c))
    /\ Send({[type |-> "ReadHeartbeat", term |-> term[n], from |-> n, to |-> p,
              readId |-> nextReadId[n]] : p \in config[n].voters \ {n}})
    /\ UNCHANGED <<persistentVars, config, electionVars, leaderVars, commitIndex,
                   applied, committed, faultVars>>

HandleReadHeartbeat(n, m) ==
    /\ m.type = "ReadHeartbeat"
    /\ \/ /\ m.term > term[n]
          /\ BecomeFollower(n, m.term)
       \/ /\ m.term = term[n]
          /\ timer' = [timer EXCEPT ![n] = "election"]
          /\ UNCHANGED <<term, votedFor, role, pendingReads>>
       \/ /\ m.term < term[n]
          /\ UNCHANGED <<term, votedFor, role, pendingReads, timer>>
    /\ Send({[type |-> "ReadAck", term |-> Larger(term[n], m.term), from |-> n,
              to |-> m.from, readId |-> m.readId]})
    /\ UNCHANGED <<log, snapshot, config, votes, leadersByTerm, leaderVars,
                   nextReadId, commitVars, faultVars>>

HandleReadAck(n, m) ==
    /\ m.type = "ReadAck"
    /\ \/ StepDown(n, m)
       \/ /\ m.term = term[n]
          /\ role[n] = "leader"
          /\ \E r \in pendingReads[n] :
               /\ r.id = m.readId
               /\ TryServeRead(n, pendingReads[n] \ {r},
                               [r EXCEPT !.acks = @ \cup {m.from}])
          /\ UNCHANGED <<persistentVars, config, electionVars, leaderVars,
                         nextReadId, commitIndex, applied, committed, faultVars,
                         network>>

-----------------------------------------------------------------------------
(***************************************************************************)
(* Crash and restart.                                                      *)
(***************************************************************************)
\* DEFECT: the state machine is not restored from the snapshot.
RestoredEmpty(n) == <<>>

\* The state machine after a restart.
Restored(n) == snapshot[n].image

\* pause: all but the persistent variables is lost.
Crash(n) ==
    /\ alive[n]
    /\ crashes < MaxCrashes
    /\ crashes' = crashes + 1
    /\ alive' = [alive EXCEPT ![n] = FALSE]
    /\ timer' = [timer EXCEPT ![n] = "none"]
    /\ role' = [role EXCEPT ![n] = "follower"]
    /\ commitIndex' = [commitIndex EXCEPT ![n] = snapshot[n].lastIndex]
    /\ applied' = [applied EXCEPT ![n] = Restored(n)]
    /\ nextIndex' = [nextIndex EXCEPT ![n] = [p \in Nodes |-> 1]]
    /\ matchIndex' = [matchIndex EXCEPT ![n] = [p \in Nodes |-> 0]]
    /\ votes' = [votes EXCEPT ![n] = {}]
    /\ clientIndex' = [clientIndex EXCEPT ![n] = [c \in Clients |-> 0]]
    /\ pendingReads' = [pendingReads EXCEPT ![n] = {}]
    /\ committedThisTerm' = [committedThisTerm EXCEPT ![n] = FALSE]
    /\ config' = [config EXCEPT ![n] = ConfigIn(log[n], snapshot[n])]
    /\ UNCHANGED <<persistentVars, leadersByTerm, nextReadId, nextReq, committed,
                   network>>

\* DEFECT: the vote was never written to stable storage.
ResumeVoteless(n) ==
    /\ ~alive[n]
    /\ alive' = [alive EXCEPT ![n] = TRUE]
    /\ timer' = [timer EXCEPT ![n] = "election"]
    /\ votedFor' = [votedFor EXCEPT ![n] = None]
    /\ UNCHANGED <<term, log, snapshot, config, role, votes, leadersByTerm,
                   leaderVars, readVars, commitVars, crashes, network>>

Resume(n) ==
    /\ ~alive[n]
    /\ alive' = [alive EXCEPT ![n] = TRUE]
    /\ timer' = [timer EXCEPT ![n] = "election"]
    /\ UNCHANGED <<persistentVars, config, role, votes, leadersByTerm, leaderVars,
                   readVars, commitVars, crashes, network>>

-----------------------------------------------------------------------------
Init ==
    /\ term = [n \in Nodes |-> 0]
    /\ votedFor = [n \in Nodes |-> None]
    /\ log = [n \in Nodes |-> <<>>]
    /\ snapshot = [n \in Nodes |-> NoSnapshot]
    /\ config = [n \in Nodes |-> [voters |-> InitialVoters, index |-> 0]]
    /\ role = [n \in Nodes |-> "follower"]
    /\ votes = [n \in Nodes |-> {}]
    /\ timer = [n \in Nodes |-> "election"]
    /\ nextIndex = [n \in Nodes |-> [p \in Nodes |-> 1]]
    /\ matchIndex = [n \in Nodes |-> [p \in Nodes |-> 0]]
    /\ clientIndex = [n \in Nodes |-> [c \in Clients |-> 0]]
    /\ committedThisTerm = [n \in Nodes |-> FALSE]
    /\ pendingReads = [n \in Nodes |-> {}]
    /\ nextReadId = [n \in Nodes |-> 0]
    /\ commitIndex = [n \in Nodes |-> 0]
    /\ applied = [n \in Nodes |-> <<>>]
    /\ alive = [n \in Nodes |-> TRUE]
    /\ network = {}
    /\ nextReq = [c \in Clients |-> 1]
    /\ crashes = 0
    /\ leadersByTerm = {}
    /\ committed = {}

\* handle: a crashed server ignores every message.
Receive(n) ==
    /\ alive[n]
    /\ \E m \in network :
         /\ m.to = n
         /\ term[n] - m.term <= MaxDelay
         /\ \/ HandleRequestVote(n, m)
            \/ HandleVoteReply(n, m)
            \/ HandleAppendEntries(n, m)
            \/ HandleAppendReply(n, m)
            \/ HandleInstallSnapshot(n, m)
            \/ HandleReadHeartbeat(n, m)
            \/ HandleReadAck(n, m)

Next ==
    \E n \in Nodes :
      \/ StartElection(n)
      \/ Heartbeat(n)
      \/ Receive(n)
      \/ \E c \in Clients : ClientCommand(n, c) \/ RequestRead(n, c)
      \/ \E V \in Proposals : ChangeConfig(n, V)
      \/ Crash(n)
      \/ Resume(n)

Spec == Init /\ [][Next]_vars

-----------------------------------------------------------------------------
\* Every variable has its type, and the state machine of a server has been
\* fed exactly the commands up to its commit index (RaftNode.__init__ and
\* every later assignment).
TypeOK ==
    /\ term \in [Nodes -> Nat]
    /\ votedFor \in [Nodes -> Nodes \cup {None}]
    /\ log \in [Nodes -> Seq(Entries)]
    /\ snapshot \in [Nodes -> Snapshots]
    /\ config \in [Nodes -> Configs]
    /\ role \in [Nodes -> {"follower", "candidate", "leader"}]
    /\ votes \in [Nodes -> SUBSET Nodes]
    /\ timer \in [Nodes -> {"none", "election", "heartbeat"}]
    /\ nextIndex \in [Nodes -> [Nodes -> Nat]]
    /\ matchIndex \in [Nodes -> [Nodes -> Nat]]
    /\ clientIndex \in [Nodes -> [Clients -> Nat]]
    /\ committedThisTerm \in [Nodes -> BOOLEAN]
    /\ \A n \in Nodes : pendingReads[n] \subseteq
         [id : Nat, client : Clients, req : Nat, index : Nat,
          acks : SUBSET Nodes, floor : Nat]
    /\ nextReadId \in [Nodes -> Nat]
    /\ commitIndex \in [Nodes -> Nat]
    /\ applied \in [Nodes -> Seq(Commands)]
    /\ \A n \in Nodes : Len(applied[n]) = commitIndex[n]
    /\ alive \in [Nodes -> BOOLEAN]
    /\ network \subseteq Messages
    /\ nextReq \in [Clients -> Nat]
    /\ crashes \in Nat
    /\ leadersByTerm \subseteq Nat \X Nodes
    /\ committed \subseteq [index : Nat, entry : Entries, term : Nat]
=============================================================================

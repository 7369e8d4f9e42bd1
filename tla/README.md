# DeterministicRaft in TLA+

Specifications, model-checking runs and proofs for DeterministicRaft, a Raft
implementation under deterministic simulation testing. The repository explores
its own code by seed: one run is one schedule. The specifications here describe
the same code and let TLC explore *every* schedule of a small cluster, and TLAPS
prove some of the results for every cluster.

Paths below are relative to the repository (`deterministic_raft/node.py`).

## 1. The system

| component | state | operations | interacts with |
|---|---|---|---|
| Raft server (`node.py`) | persistent: term, vote, log, snapshot; volatile: role, commit index, state machine, leader's tables, pending reads, timer; configuration (derived) | seven message handlers, election and heartbeat timers, `client_command`, `change_config`, `request_read`, `pause`, `resume` | sends messages, arms timers, calls back `on_apply`, `before_compact` |
| Simulator and network (`sim.py`) | event heap, clock, random stream; partition groups, crashed set, down and lossy links | `schedule`, `step`; `send`, `_delivery`, fault controls | runs every callback, one at a time, to its end |
| Cluster driver (`cluster.py`) | clients' outstanding requests, fault counter and mask, history | client, fault, membership and nemesis ticks; pause/resume; checks after every step | drives servers and network |
| Invariant checker (`invariants.py`) | leaders by term, first commit of every index, caches per server | `check` after every step and before every compaction | reads the servers |
| State machine (`kv.py`) | store, session table | `apply`, `apply_read`, `capture`, `restore` | fed by the server |
| Linearizability oracle (`linearizability.py`) | none | `check(history)` | reads the history |
| Nemesis (`nemesis.py`) | none: validated data | `injections`, JSON form | fired by the driver |
| Shrinker (`shrink.py`) | the faults kept, the step budgets in question | `ddmin`, `_min_steps`, `shrink` | runs whole clusters under a fault mask |
| Bug registry (`bugs.py`) | flags | none | read by servers and driver |
| CLI, report, timeline | none | printing | read a finished run |

The program is single threaded: a handler runs to its end before the next event.
What is hard is the order of events: messages are dropped, delayed, duplicated
and reordered; servers crash between any two handlers and lose everything that
is not persistent; leaders that were replaced go on acting; clients retry a
request at another leader while the first copy is still on its way; logs are
compacted under messages that refer to them; configurations take effect before
they are committed.

What makes each component correct:

- *servers*: Raft's five safety properties, durability of what is committed,
  configurations derived from the log, at-most-once sessions in order, fresh
  reads, a running timer in every live server, and progress under a stable
  leader; together they are one log that only grows;
- *checker*: it raises what happened and nothing else, whatever its caches skip;
- *state machine*: a request takes effect once, whatever is retried or restored,
  and what clients see is linearizable;
- *network and drivers*: a fault that fires keeps a recovery waiting, the random
  driver leaves a majority alive, every message is accounted for;
- *oracle*: it accepts a history exactly when some legal order explains it;
- *shrinker*: it ends, and what it returns fails as before and is minimal.

`PROJECT.json` lists the hazards one by one with their lines and the properties
that watch them.

## 2. The modules

| module | what it is |
|---|---|
| `RaftNode` | the servers, the network between them and the clients: variables, one action per handler, `Spec`, `TypeOK` |
| `RaftSafety` | safety invariants and action properties of `RaftNode` |
| `RaftLiveness` | fairness and progress properties |
| `MCRaft`, `MCLiveness` | the small instances TLC checks |
| `Shrink` | the shrinker over an arbitrary deterministic simulator: actions and properties |
| `CommittedLog` | abstract specification: one growing log, of which every state machine has a prefix; `RaftSafety` instantiates it (`OneLog`) |
| `KVStateMachine` | `kv.py`: store, sessions, `Apply`, `Restore` as operators |
| `Service` | the state machines fed from a committed log, snapshots, crashes, reads, the clients of `cluster.py` and their history |
| `Oracle` | the search of `linearizability.py`, one turn of its loop a step |
| `Audit`, `MCAudit` | a run of `Service`, then the check of its history by `Oracle` |
| `Checker`, `MCChecker` | `invariants.py` with its caches, over servers that may do anything |
| `Faults`, `MCFaults` | `sim.py`'s event heap and network, `nemesis.py`'s schedules, and the fault drivers and recoveries of `cluster.py` |
| `RaftElectionProofs`, `RaftLogProofs`, `RaftCommitProofs`, `RaftClientProofs` | theorems about `RaftNode`, `RaftSafety` and `CommittedLog`, with the invariants they rest on |
| `OracleProofs` | theorems about `Service`, `Oracle` and `Audit` |
| `CheckerProofs`, `FaultsProofs`, `ShrinkProofs` | theorems about the other modules |

How they fit together: `RaftNode` is the protocol, with clients' requests as
opaque commands. It implements `CommittedLog`, and `Service` takes exactly what
`CommittedLog` and `ReadsFresh` promise and adds what commands do. `Audit` puts
`Oracle` behind `Service`. `Checker` judges the checker rather than the servers,
so it needs none of the protocol. `Faults` is what restricts the network of
`RaftNode`, which may lose, delay and repeat anything. `Shrink` runs whole
clusters and takes what a mask does to a run as arbitrary.

### `RaftNode` and `node.py`

One TLA+ variable per attribute of `RaftNode`, as a function of the server. Log
entries are addressed as in the code: logical index `i` of server `n` is entry
`i - Base(n)` of `log[n]`, and `snapshot[n]` holds what was compacted.

| code | action |
|---|---|
| `_on_election_timeout`, `start_election`, `_maybe_win`, `_become_leader` | `StartElection`, `HandleVoteReply` |
| `_on_heartbeat` | `Heartbeat` |
| `_on_request_vote` / `_on_vote_reply` | `HandleRequestVote` / `HandleVoteReply` |
| `_on_append_entries` with the merge, `_set_commit_index`, `_maybe_compact` | `HandleAppendEntries` |
| `_on_append_reply`, `_advance_commit` | `HandleAppendReply` |
| `_on_install_snapshot` | `HandleInstallSnapshot` |
| `_on_read_heartbeat`, `_on_read_ack`, `_try_serve_read` | `HandleReadHeartbeat`, `HandleReadAck` |
| `client_command`, `change_config`, `request_read` | `ClientCommand`, `ChangeConfig`, `RequestRead` |
| `pause`, `resume`, `_reset_volatile` | `Crash`, `Resume` |

What is abstracted:

- *Commands* are a client and a request number, or a configuration. A state
  machine is the sequence of commands it was fed (`applied`), so a snapshot's
  image is that sequence; what a command does to the store, and the session
  table that skips duplicates, is determined by it and modelled in
  `KVStateMachine`.
- *The network* is the set of messages ever sent. Delivering any element at any
  time is at least what delays, duplication, reordering, loss, partitions, lossy
  and down links can do, since each of them only decides which message arrives
  when. `lastIndex`/`lastTerm`/`store`/`sessions`/`voters` of InstallSnapshot
  are the fields of one `snapshot` record.
- *Timers*: `timer[n]` is the kind of the one timer whose callback is not stale
  (`_timer_seq`). It may fire at any moment: no property rests on real time.
- *History variables*: `leadersByTerm` and `committed` are the checker's
  records; `floor` in a pending read is the newest commit of any server when
  the read was requested.
- Requests are numbered from 1, so 0 stands for "none"; in the code they are
  numbered from 0.

Operators marked `DEFECT` are wrong versions of the operator that follows them,
several of them those of `bugs.py`. No action uses them: they show that each
property notices the loss of the line it is about.

### `Shrink` and `shrink.py`

What a cluster does under a suppression mask is arbitrary, but deterministic. A
run is the set of ordinals it fired, the set it suppressed and the first step at
which the failure fires. Runs are the same until they first treat an ordinal
differently (`Diverge`), and after that anything may happen, including faults
with ordinals the original run never reached: suppressing a partition lets the
random driver draw others. `runs` keeps the runs made so far and `Outcomes(mask)`
is what a further one may be; `TryNone`, `TryComplement`, `Refine`, `Minimised`
are the loop of `ddmin`, `Bisect` and `Report` are `_min_steps`, `Replay` is a
reader who replays the result with one more fault suppressed.

The failure is the violation of an invariant, which ends the run, so a budget
reproduces it as soon as it reaches the failing step. A non-linearizable history
is judged at the end of the run and is not covered.

### `KVStateMachine`, `Service` and `kv.py`, `cluster.py`

| code | action |
|---|---|
| `_client_tick`, `_invoke` of an idle client | `Invoke` |
| `_advance_commit` and `_set_commit_index` on a leader, with `_on_apply` | `Commit` |
| `_set_commit_index` on a follower, several entries at once | `Learn` |
| `_on_install_snapshot` above the commit index, `restore` | `Install` |
| `pause`, the restart from the snapshot | `Crash` |
| `request_read` / `_try_serve_read`, `apply_read` | `RequestRead` / `ServeRead` |
| the `stale_local_reads` branch of `_client_tick` | `StaleRead` |

The committed log may hold a request any number of times: `RaftNode` never does
that (`AppliedOnce`), but the session table exists so that nobody has to rely on
it. `mode` is fixed per run and says how reads are served. The history has one
row per operation; time is the number of operations invoked so far, which orders
two operations exactly when one returned before the other was invoked.

### `Oracle`, `Audit` and `linearizability.py`

A frame of the stack is the store, what is pending, the candidates left and the
path. `Accept`, `Backtrack`, `Mismatch`, `DeadEnd` and `Place` are the ways one
turn of the loop can go. `RefStore`/`RefResult` are the oracle's own copy of the
sequential store (`_apply`), kept apart from `KVStateMachine`'s, so that
`VerdictExact`, which uses the latter, also compares the two. `StopAndCheck` ends
a run at any moment and hands its history over, as `cmd_report` does.

### `Checker` and `invariants.py`

Each test of `InvariantChecker` is a predicate over the caches the tests before
it left, and an operator that updates the caches; `Check` runs them in order and
raises the first that fails. A simulator step changes one server in any way that
keeps the contract of `NodeView` (a changed log has a new version, a restart a
new incarnation): it may become a second leader of a term, truncate a leader's
log, commit without a quorum, uncommit, apply what is not committed elsewhere.
When it compacts, the checker looks twice, before and after (`before_compact`).
`truth` records what happened from every state and with no cache, and each
property compares the two.

### `Faults` and `sim.py`, `nemesis.py`, `cluster.py`

An event is a record with its time, its sequence number and what its callback
needs. A step pops the earliest: an injection of a schedule (skipped, suppressed
or inflicted, with its recovery scheduled), a recovery, the random driver's tick
with every outcome of its draws, or the delivery of a message. Whom a server
sends to, and who is believed to lead, is left open: `Send` may happen between any
two steps. Delays, intervals and durations are small numbers that keep their
order.

## 3. The runs

All runs of `MCRaft` start from an ordinary cluster; what bounds them is a
*scenario*: who may start which election (`MayCampaign`) and whose messages reach
whom in which term (`Links`). Within it every interleaving, loss, duplication and
reordering is explored.

| run | shows |
|---|---|
| `Figure8` | the elections of Figure 8 of the Raft paper (four terms), seen only by the server in the middle: leader completeness, durability, no committed entry truncated by a late message, ordered and single application of requests, one growing log |
| `Install` | compaction after every commit, snapshots to a lagging server, a crash, messages up to two terms late, a second client that reads by ReadIndex at leaders that may have been replaced: state machine safety, fresh reads, monotonic commits, one growing log |
| `Members` | two rivals for a term and a crash, configurations appended, truncated, compacted and installed, down to one voter and back: one leader per term, log matching, derived configurations, timers, commit quorums |
| `May2015` | the membership scenario of the May-2015 correction: four servers, two disjoint changes |
| `Progress` | liveness: commits and catching up through a snapshot, before and after a change of leader |
| `Wedge` | **expected violation**: see findings |
| `Shrinker` | the shrinker ends; its result reproduces and is minimal among the original faults |
| `Minimal` | **expected violation**: see findings |
| `Audit` | state machines execute each request once; histories of runs without seeded bugs are never called illegal; the oracle's verdict and witness are right, for legal, illegal (stale reads) and truncated searches |
| `Checker` | the checker raises nothing false and misses nothing, and its record of commits is true |
| `Faults` | every fault has its recovery, crashes are limited, messages add up, a schedule's faults end, under any mask and profile |
| `Overlay` | **expected violation**: see findings |

`AppliesOneLog` is a refinement: with the commands first committed at each index
as `history` and what each state machine was fed as `fed`, every step of
`RaftNode` is a step of `CommittedLog` or changes neither. It says more than
State Machine Safety: nothing once committed is ever revised, and a server that
restarts comes back with a prefix. It is checked where entries are overwritten
(`Figure8`) and where they are compacted, installed and lost in a crash
(`Install`).

### Bounds

| bound | meaning | why it is enough |
|---|---|---|
| `Nodes` | three servers, two in `Wedge` and `Audit`, four in `May2015` | three is the least with a minority; the May-2015 races need four; behind a committed log two servers, one ahead of the other, show every lag |
| `MayCampaign` | elections that may be started: 2 to 5 | each scenario has exactly the leaders its hazard needs |
| `Links` | who hears whom, per term | keeps replicas apart as a partition would, so that logs diverge early |
| `MaxRequests`, `Clients` | one or two clients, two requests each | two entries suffice for every conflict of the scenarios; a client has one request outstanding |
| `MaxChangeIndex` | last index of a configuration entry | two changes in a row |
| `MaxReads`, `MaxCrashes` | ReadIndex rounds per server, crashes per behaviour | one read is fresh or stale by itself; a crash is a step like any other |
| `MaxDelay` | how many terms late a message may arrive | two, where late messages are the point |
| `BeatingTerms` | terms in which heartbeats fire | a heartbeat repeats a message; it matters for catching up and for restarts |
| `MaxIndex` | last log index, for the fairness conditions | the number of requests |
| `Steps`, `MaxFaults` | step budget and ordinals of a run in `Shrink` | four faults make `ddmin` refine its subsets; three steps give the bisection an inner point |
| `MaxInvocations`, `MaxLog` | operations and committed requests in `Audit`: three | two writes and a read between them are the least illegal history; a repeated request needs a third place in the log |
| `Budget` | states the oracle may explore: four | some histories of three operations take five, so that all three verdicts (linearizable, not linearizable, undetermined) occur |
| `Entries`, `MaxTerm`, `MaxLog` of `Checker` | two commands in term 1, one in term 2; logs of two entries, two servers | every test of the checker relates two servers, two indices or two moments |
| `MaxVersions`, `MaxRestarts` | log changes (three) and restarts (one) in all | enough for a commit, an overwrite and a comparison after it |
| `Schedules` | two overlapping partitions, two overlapping link faults, crashes of a server that is down, nothing | each pair of windows that can interfere |
| `MaxCycles` | cycles of a flapping link: two | a second cycle while another fault on the link is active |
| `MaxTime` | the random driver's last tick: 6, three ticks | crash and resume with a partition and its heal between |
| `MaxSends` | messages sent: one, in up to two copies | messages do not influence one another or the faults |

`CHECK_DEADLOCK FALSE` everywhere: a behaviour ends when the bounds forbid any
further election, request, message or change, when the shrinker has reported,
the oracle has its verdict, the checker has raised, or the event heap is empty.

### Fairness

`RaftLiveness` assumes weak fairness only, and only of what the code repeats
until it succeeds: an armed timer fires (`Simulator.schedule` puts it in the heap
and the heap is drained in time order), a paused server is resumed, a client
comes back (`_client_tick` reschedules itself), and a message that is sent again
and again arrives in the end, which is what the profiles' loss probabilities give
with probability one: a vote, entries up to an index, a snapshot, a rejection, an
acknowledgement. Elections are not fair: nothing promises that somebody wins, and
the properties are about a leader that stays. `Shrink` is a sequential loop and
is assumed not to be interrupted. `Faults` assumes that the run goes on (weak
fairness of `Step`): `CalmInTheEnd` says that then a schedule's faults end.

## 4. Findings

**A leader that inherits all pending requests never commits them** (`Wedge`,
`RequestsCommit`). A new leader appends no entry of its own term. Retries of a
request that is already in its log, appended by a former leader, are acknowledged
without appending (`client_command` with `_rebuild_client_index`). By section
5.4.2 it commits older entries only together with one of its own term, so if
every client's pending request is in its log when it is elected, nothing is ever
committed again: no client moves on, and `change_config` and `request_read`
refuse to work before a commit of the term. The README promises that under
`none` and `light` faults submitted commands commit within a step budget, and
`test_progress_resumes_after_partition_heals` checks that commits resume after a
partition for one seed. Simulated with four servers, no random faults and one
`PartitionHalves` at 2000 ms of 1500 ms, 23 of the seeds 0 to 39 never commit
again. A leader that appended a no-op on election would not wedge.

**The shrinker's result is not 1-minimal** (`Minimal`, `OneMinimal`). `ddmin`
ranges over the ordinals the original run drew. Suppressing some of them makes
the random driver draw others, with ordinals beyond the universe, that the mask
never suppresses. They fire in the counterexample and were never candidates for
removal. With five servers, seed 3, `chaos`, 4000 steps and
`vote_for_stale_candidate`, the original run has 7 faults, `ddmin` keeps one, the
counterexample fires 17, and suppressing any one of 8 of them still reproduces
the failure. `KeptOneMinimal` shows, and `KeptFaultsNeeded` proves, that `ddmin`
itself does what it says for the ordinals it is given.

**Partitions that overlap end one another** (`Overlay`, `WindowsHeld`). The
nemesis promises that patterns overlay, several being active at once, and that
each heals `duration` ms later. All partitions share the groups of the network:
`set_partition` replaces those in force and `heal_partition` joins everything.
With `partition_halves` from 1 to 4 and `isolate_leader` from 2 to 6 the first
heal ends the isolation at 4. The same goes for two windows on one link, and for
a partition of a schedule that the random driver heals. Crashes do not interfere:
`RecoveryPending` shows that a server that is down has exactly one resume.

## 5. The proofs

All theorems hold for every value of the constants that satisfies
the assumption of the module they are about (`ConstantsAssumption`,
`BudgetAssumption`, `FaultsAssumption`, `CheckerAssumption`, those of `Service`,
`KVStateMachine` and `Oracle`). Some
about `RaftNode` have one more assumption, in their statement: `Proposals = {}`,
that is, nobody calls `change_config` (a *fixed configuration*), or that no term
ever has two leaders. The modules build on each other:
`RaftElectionProofs`, `RaftLogProofs`, `RaftCommitProofs`, `RaftClientProofs`.

- **`ShapeInvariant`** (`RaftElectionProofs`): the types of logs, snapshots and
  messages, without which no operator on indices means anything, with
  `Base(n) <= commitIndex[n]` and `Len(applied[n]) = commitIndex[n]`. Inductive
  by itself; one lemma per action. The rest of `TypeOK` needs more (`TypesCorrect`).
- **`OneLeaderPerTerm`** (`RaftElectionProofs`): Election Safety when no
  configuration is proposed. The inductive invariant `Ballots` says: everybody
  is in the same configuration; a vote counted by a candidate, or granted in a
  message, is the one recorded by its voter or belongs to a term the voter has
  left; a leader of a term was voted by a majority that can no longer vote
  otherwise in it. Two majorities of one configuration meet (`MajoritiesMeet`),
  and the vote a crashed server keeps makes the meeting voter vote once.
- **`TimerFollowsRole`** (`RaftElectionProofs`): under the same assumption every
  live server waits for the timer of its role. It needs `Ballots`: a leader
  that accepted AppendEntries of its own term would become a follower by
  another path than `_become_follower`; there is no such message, because there
  is no second leader.
- **`LogsNeverFork`**, **`TermsNeverDecrease`** (`RaftLogProofs`): Log Matching and
  ordered terms, with compaction, snapshots, truncation, crashes and *any*
  configuration changes, in every behaviour that elects one leader per term; for
  a fixed configuration the hypothesis is a theorem (`FixedLogsNeverFork`). What
  makes them hard is that compacted entries, and the logs of former leaders
  whose messages are still on their way, are not in the state. The invariant
  `EveryLogTraced` says that there are such logs: `full[n]`, all that `n` ever
  stored and did not truncate, and `lead[t]`, what the leader of term `t` had
  when it last led, such that the state fits them (`Logs`). Every log is *traced*:
  up to an entry of term `t` it is what `lead[t]` is, and so is what every message
  of term `t` carries. A step is proved by giving the next `full` and `lead`:
  unchanged for most, one entry longer for an append, the leader's prefix for an
  accepted AppendEntries (`_on_append_entries` truncates at the first conflict,
  and what is below it agrees because it is traced) or snapshot. `Records` adds
  what one leader per term means for the roles: nobody campaigns in a term it
  has led.
- **`LeadersKeepCommits`**, **`MachinesNeverDiverge`**, **`CommitsNeverLost`**,
  **`CommitsHaveQuorum`** (`RaftCommitProofs`): Leader Completeness, State Machine
  Safety, durability and the quorum behind every commit, for a fixed
  configuration. They rest on **`CommitsExplained`**, the invariant `Commits` over
  the same `full` and `lead`. Its idea is to speak of what servers have *told*
  rather than of what they store. `Acked(v, t, i)`: a successful AppendReply of
  term `t` with match index `i` or more was sent by `v`, or `v` led `t`. An entry
  that the leader of `t` appended is `Chosen` when a majority acknowledged it in
  `t`; that is what `_advance_commit` tests by counting only entries of its own
  term. The conjuncts are
  - `AcksKept`: what a server acknowledged is in its log, unless a leader since is
    without it (an acknowledged entry may be overwritten, as in Figure 8);
  - `VotesCover`: a candidate has all that its voters acknowledged before, again
    unless a leader since is without it, since they compared last terms and
    indices (`_on_request_vote`);
  - `LeadersCover`: each leader had that of a majority. The majority that chose
    an entry meets the majority that elected any later leader, so by induction
    over terms no leader is ever without a chosen entry (`LeadersHave`);
  - `ServerSettled`, `RecordSettled`: what is committed, applied, compacted or on
    record lies at or below a chosen entry, in the same log;
  - `TableTrue`, `TrueMessage`: match indices were acknowledged, and messages,
    however old, say what was true of their sender's log.

  Acknowledgements and chosen entries are never taken back, so `Commits` survives
  crashes and truncations for free; the work is in the five handlers that
  vote, append, acknowledge, commit and install. With configuration changes the
  quorums that choose and elect belong to different configurations, and the
  argument that they meet is another one; there `CommitQuorum` is checked by
  `Members` and Leader Completeness by `May2015`.
- **`CommitIndexNeverFalls`** (`RaftCommitProofs`): only a crash lowers a commit
  index, with compaction, snapshots and membership changes. From `Shape`.
- **`CommitsAreNumbered`** (`RaftClientProofs`): the record of commits has no gap and
  no index twice, and no server, snapshot or message is ahead of it, with any
  configuration changes. From `Shape`, since a server that is first to commit
  some entries commits all from its old commit index on.
- **`AgreementIsOneLog`**, **`ServersAreOneLog`** (`RaftClientProofs`): the refinement
  `AppliesOneLog`. The invariant `OneHistory` reads the record as one sequence of
  which each state machine was fed a prefix. A step that observes new commits is
  `Commit`; one that raises a commit index within the record, entry by entry or
  by a snapshot, is `CatchUp`; a crash is `Restart`; all others stutter. The first
  theorem holds with any configuration changes and takes only State Machine
  Safety of the behaviour as given; for a fixed configuration that is
  `MachinesNeverDiverge`.
- **`TypesCorrect`** (`RaftClientProofs`): `TypeOK`, for a fixed configuration. What is
  hard in it are the messages: `_replicate_to` reads the term of the entry before
  `next_index`, which an acknowledgement of any age has set (`_on_append_reply`
  takes `match_index` unchecked), so the type of the next message rests on what
  `TableTrue` says of the table and `TrueMessage` of acknowledgements.
- **`LeadersCommitFirst`**, **`ReadsNeverStale`** (`RaftClientProofs`): `ReadsFresh`, for
  a fixed configuration. The code compares a read with the commit index its leader
  had at the request; the property, with what *any* server had committed by then.
  Take the newest commit on record, of term `u`, and a leader of term `T` asked for
  a read. If `u = T`, the leader committed it first (`LeadersAhead`: followers learn
  commits from their leader). If `u < T`, the leader stores it by Leader Completeness
  and has committed it, for it has committed in its own term (`OwnTermFirst`, the
  guard of `request_read`, and `_advance_commit` stopping at older terms). If `u > T`,
  a majority elected the leader of `u` and is past `T` (`LeadersCover`); none of
  them has confirmed this read, whose id is new, and none will, since an
  acknowledgement carries the term of its sender (`Outvoted`). That majority
  meets every one that could complete the read, so `_try_serve_read` never does.
  `ReadsGuarded` says of every pending read that one of the two holds, and that
  servers that do not lead have none. The first theorem needs no fixed
  configuration, only one leader per term.
- **`SessionsStayInOrder`**, **`AppliesOnce`** (`RaftClientProofs`): `SessionsInOrder` and
  `AppliedOnce`, for a fixed configuration: what `kv.py`'s session table relies
  on. A leader appends a request unless it knows it, and its table holds every
  request of its log (`KnowsClients`: the table is kept by appends, rebuilt on
  election, and lost only with the leadership). A client makes its next request
  when the last was answered, which takes a commit (`AnswersEarned`), so it has
  moved on from what is committed (`CommitsAnswered`). By Leader Completeness a
  later leader stores that too, finds it, and appends no second copy: logs of
  leaders have each request once and each client's in order, and the record of
  commits, a prefix of such logs, inherits both.
- **`MergesKeepCommits`** (`RaftClientProofs`): `TruncatesNoCommit`, for a fixed
  configuration. What a server has committed is in the log of every leader of its
  term or later (`ServerSettled`, by Leader Completeness); a message it still
  accepts carries entries of its sender's log as it was (`Carries`), so none of
  them conflicts at or below the commit index.
- **`ConfigurationsDerived`** (`RaftClientProofs`): `ConfigDerived`, with
  configuration changes, of every behaviour that has `TruncatesNoCommit`. Nothing
  else of Raft's agreement is used. `ConfigDerived` alone is not inductive: a
  snapshot is taken of the commands applied, a conflict falls back on the
  snapshot's configuration, and a snapshot on its way replaces both. The inductive
  `EveryConfigDerived` says, of each server, that its configuration is the last one
  among all commands it stores, compacted or not (`Governs`), that what it has
  applied is the first `commitIndex` of them, and, of each snapshot, stored or
  sent, that it records the last configuration of its own commands
  (`SnapshotKnows`). Truncation below the commit index would separate the second
  from the first, which is where the hypothesis is needed: it is a theorem for a
  fixed configuration (above), and `Figure8` checks it there. `Members` checks
  `ConfigDerived` itself, without the hypothesis, where configurations change.
- **`CounterexampleReproduces`**, **`KeptFaultsNeeded`** (`ShrinkProofs`): the
  shrinker's two promises that hold. The first rests on the run of the current
  mask being known, and failing within the budgets in question; the second on
  the complements tried since the last change of `kept` or `n`, which are all
  the sets with one element less when the granularity is finest.
- **`RequestsTakeEffectOnce`** (`OracleProofs`): `ExactlyOnce`, for every committed log
  in which requests may be repeated. The invariant `SInv`: a client's rows are
  numbered as its requests, the log is *sessional* (a request stands after a
  later one of its client only if it stood before that one, too), so that the
  session table, which holds each client's last request, tells a repeat from a
  new request.
  The images are folds over the log. That a fold satisfies its recursion, and
  what one more entry does to it, is proved from `FoldLeft`'s definition, by
  taking the least length at which it would fail (`LeastNumber`).
- **`AuditTyped`** (`OracleProofs`): `TypeOK` of `Audit`, stack and memo included.
- **`WitnessAlwaysLegal`** (`OracleProofs`): the order the oracle returns is a
  linearization of the history, for every history, budget and key-value space.
  The invariant speaks of the whole stack: each frame is what the one below
  becomes when its path's next operation, minimal and with a fitting answer, is
  placed (`Follows`, `StackOK`).
- **`IllegalHasNoWitness`** (`OracleProofs`): what the oracle calls illegal is.
  Say that a store and a set of pending operations can be completed when some
  order of the latter is legal from the former. Each remembered dead end that
  can be completed is still on the stack (`MemoSound`), and a frame that can be
  completed can be completed through a candidate it has left or through the
  frame above it (`FrameLeads`); so an empty stack means that the first frame,
  the whole history, cannot be. The path by which a place was reached plays no
  part in it, which is why the memo may forget it.
- **`VerdictsExact`** (`OracleProofs`): `VerdictExact`. `Linearizable`, as `Service`
  defines it over orders and folds of the state machine, holds of a history
  exactly when its operations can be completed from the empty store, so the two
  theorems before are about the verdict itself. It also compares the two copies
  of the sequential store, the oracle's and the state machine's.
- **`CorrectRunsAlwaysPass`** (`OracleProofs`): `CorrectRunsPass`, for every log,
  number of servers and clients: whatever was retried, crashed, compacted or
  lagged, the oracle never calls a run without stale reads illegal. Every
  completed operation has a point in the committed log: the first entry of its
  request, or for a read how far the server was that served it. Points respect
  real time, as a request that is made later enters the log later, and a read is answered
  only by a server that has caught up with what was committed when it was asked
  (`Points`, part of the inductive `LInv`);
  answers are those of the log up to the point, by `RequestsTakeEffectOnce`; so
  ordering the operations by their points is a linearization (`PointsComplete`),
  and the oracle does not miss it.
- **`RecoveryAlwaysPending`**, **`HeapAlwaysInOrder`**, **`MajorityStaysAlive`**
  (`FaultsProofs`): for any number of servers, schedules, masks and messages. One
  invariant carries the first two, `HeapOK` and `RecoveryPending` together: every
  step pops one event, and a fault that loses its recovery by that is the fault
  the event ends (`NextKeepsRecovery`). The third adds that no crash event is in
  the heap and at most `(N - 1) \div 2` servers are down (`CrashesLimited`).
- **`FaultsStayTyped`**, **`MessagesStayCounted`** (`FaultsProofs`): `TypeOK` and
  `MessagesCounted`. Every event is typed and carries the link its kind calls for
  (`Typed`, `Linked`); every message is delivered, dropped or in the heap
  (`Balanced`), because sequence numbers are fresh, so that sending one adds an
  event and delivering one takes exactly that one out.
- **`NoFalseAlarm`**, **`NoMissedViolation`**, **`RecordStaysTrue`** (`CheckerProofs`):
  the checker raises an invariant only if the run violated it, raises one in the
  very check after any is violated, and what it has on record is what was
  committed; for servers that may do anything. The inductive invariant `Exact`
  says of the caches what they stand for: the progress they remember is the
  servers' (`ProgressKnown`), the records are the true ones (`RecordsKnown`), and
  whatever they let the checker skip would have passed (`TestsPassed`). Then each
  test fails exactly when its invariant is violated, one lemma a test; restarts
  and versions are the delicate ones, since the checker must forget what it
  knew of a server that restarted (`_handle_restarts`) and may skip a log only if
  its version is unchanged.

Only model-checked: with configuration changes Election Safety, `CommitQuorum`,
`TimerMatchesRole` (`Members`) and Leader Completeness (`May2015`). Liveness under
fairness is out of the provers' reach. The library's induction theorems are too,
as they take an operator as a parameter; where a result needs induction over a
log or a history, the proofs take the least counterexample instead.

## 6. Not modelled

The random stream (every outcome of a draw is allowed instead); traces, digests
and the recorder; encoding and decoding of commands; the rotation of the
membership driver (`RaftNode` accepts any proposal of a set); the JSON form and
the error messages of nemesis schedules; `max_ops` and the stuck frontier of the
oracle; failures of the shrinker that are non-linearizable histories, with the
documented reading of "undetermined" as a failure; `set_partition` with groups
that do not cover all servers; CLI, report and timeline, which only format what
a run recorded.

Of the hazards listed in `PROJECT.json` four have no property, each with its
reason: two are documented limits of the code, one concerns an argument no caller
in the repository passes, and one, the reply to a covered snapshot
(`node.py:684`), needs five log entries over three terms, beyond the scenarios.

## 7. Plan

Done: servers, clients and network with their safety and liveness; the service
and its oracle; the checker; faults and schedules; the shrinker; the refinement
of the committed log. Next, in this order:

1. Proofs: Election Safety with configuration changes, whose quorums meet for
   another reason, and with it `TruncatesNoCommit`; a run of reads while
   configurations change.
2. A scenario of five entries for the reply to a covered snapshot
   (`node.py:684`).
